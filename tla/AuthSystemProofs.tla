-------------------------- MODULE AuthSystemProofs --------------------------
(* Proofs about AuthSystem, for every set of requests, any number of        *)
(* crashes and pipes of any size.  Each step of the joined system is a step *)
(* of the daemon, so what AuthDaemonProofs has of the daemon holds in it;   *)
(* and the joined system implements PromptQueue.                            *)
EXTENDS AuthSystem, AuthDaemonProofs, WellFoundedInduction

-----------------------------------------------------------------------------
(* The daemon in the joined system.                                         *)

\* A command is handled as the daemon handles it, or names no request it has.
LEMMA DispatchIsDaemon == ASSUME NEW c, Dispatch(c) PROVE [Next]_vars
<1>1. CASE UNCHANGED vars
  BY <1>1
<1>2. CASE \E r \in Requests : r = c.id /\ Handle(r, c.cmd)
  BY <1>2 DEF Handle, Next
<1> QED
  BY <1>1, <1>2, Zenon DEF Dispatch

\* Shell and pipes do nothing to the daemon that its own actions do not.
LEMMA SysStepIsDaemonStep == [SysNext]_sysVars => [Next]_vars
<1> SUFFICES ASSUME [SysNext]_sysVars PROVE [Next]_vars
  OBVIOUS
<1>1. CASE \E r \in Requests : CallerActs(r) \/ PamAsks(r) \/ PamElse(r)
  <2>1. PICK r \in Requests : CallerActs(r) \/ PamAsks(r) \/ PamElse(r)
    BY <1>1
  <2>2. Caller(r) \/ Pam(r)
    BY <2>1, Zenon DEF CallerActs, PamAsks, PamElse, Pam
  <2> QED
    BY <2>2, Zenon DEF Next
<1>2. CASE DaemonReads
  BY <1>2, DispatchIsDaemon DEF DaemonReads
<1>3. CASE ShellReads
  BY <1>3, Zenon DEF ShellReads, Next
<1>4. CASE Submit \/ CancelPrompt \/ OnExited \/ UNCHANGED sysVars
  BY <1>4, Zenon DEF Submit, CancelPrompt, OnExited, sysVars
<1>5. CASE DaemonDies
  BY <1>5, Zenon DEF DaemonDies, Next
<1>6. CASE Restart
  BY <1>6, Zenon DEF Restart, Next
<1> QED
  BY <1>1, <1>2, <1>3, <1>4, <1>5, <1>6, Zenon DEF SysNext

\* The joined system does nothing with the daemon that the daemon, in any
\* environment, does not do: the shell sends it nothing else and is not relied
\* on, so every theorem about Spec is one about SysSpec.
THEOREM SystemRunsTheDaemon == SysSpec => Spec
<1>1. SysInit => Init
  BY DEF SysInit
<1> QED
  BY <1>1, SysStepIsDaemonStep, PTL DEF SysSpec, Spec

\* No caller is left hanging in the joined system either, commands that cross
\* with closes and a shell that forgets its list included.
THEOREM NobodyLeftHangingInTheSystem == SysSpec => []CallersWaitOnlyWhileQueued
<1>1. IInv => CallersWaitOnlyWhileQueued
  BY DEF IInv, Inv
<1> QED
  BY <1>1, SystemRunsTheDaemon, Invariance, PTL

-----------------------------------------------------------------------------
(* What a step of the daemon writes: `e` and lines the shell's list does    *)
(* not depend on, or only such lines.                                       *)

Quiet(e) == e.ev \notin {"request", "close"}

Says(e) ==
    /\ Len(out') > Len(out)
    /\ \A i \in 1..Len(out) : out'[i] = out[i]
    /\ out'[Len(out) + 1] = e
    /\ \A i \in 1..Len(out') : i > Len(out) + 1 => Quiet(out'[i])
SaysNothing ==
    /\ Len(out') >= Len(out)
    /\ \A i \in 1..Len(out) : out'[i] = out[i]
    /\ \A i \in 1..Len(out') : i > Len(out) => Quiet(out'[i])

\* The four things a step of it can do to the queue.
Arrives(r) ==
    /\ status[r] = "new" /\ up' = up /\ up
    /\ queue' = Append(queue, r)
    /\ status' = [status EXCEPT ![r] = "open"]
    /\ Says(Ev("request", r))
Closes(r, how) ==
    /\ Open(r) /\ up' = up
    /\ queue' = Left(r)
    /\ status' = [status EXCEPT ![r] = how]
    /\ Says(Ev("close", r))
Turned(r) ==
    /\ status[r] = "new"
    /\ status' = [status EXCEPT ![r] = "refused"]
    /\ UNCHANGED <<up, queue, out>>
Talks == UNCHANGED <<up, queue, status>> /\ SaysNothing

Spliced(s, e, t, u) == s \o <<e>> \o t \o u

\* A handler writes the event it is about between what was there and events
\* that neither announce nor close.
LEMMA ThreeParts ==
    ASSUME NEW s \in Seq(Event), NEW e \in Event,
           NEW t \in Seq(Event), \A i \in 1..Len(t) : Quiet(t[i]),
           NEW u \in Seq(Event), \A i \in 1..Len(u) : Quiet(u[i])
    PROVE  /\ Len(Spliced(s, e, t, u)) > Len(s)
           /\ \A i \in 1..Len(s) : Spliced(s, e, t, u)[i] = s[i]
           /\ Spliced(s, e, t, u)[Len(s) + 1] = e
           /\ \A i \in 1..Len(Spliced(s, e, t, u)) :
                 i > Len(s) + 1 => Quiet(Spliced(s, e, t, u)[i])
<1> DEFINE w == Spliced(s, e, t, u)
           a == s \o <<e>>
           b == a \o t
           c == b \o u
<1>1. <<e>> \in Seq(Event) /\ Len(<<e>>) = 1 /\ <<e>>[1] = e
  OBVIOUS
<1>2. /\ a \in Seq(Event) /\ Len(a) = Len(s) + 1
      /\ \A i \in 1..Len(s) : a[i] = s[i]
      /\ a[Len(s) + 1] = e
  <2>1. /\ a \in Seq(Event) /\ Len(a) = Len(s) + 1
        /\ \A i \in 1..Len(s) + 1 :
              a[i] = IF i <= Len(s) THEN s[i] ELSE <<e>>[i - Len(s)]
    BY <1>1, ConcatProperties
  <2> QED
    BY <1>1, <2>1
<1> HIDE DEF a
<1>3. /\ b \in Seq(Event) /\ Len(b) = Len(a) + Len(t)
      /\ \A i \in 1..Len(a) + Len(t) :
            b[i] = IF i <= Len(a) THEN a[i] ELSE t[i - Len(a)]
  BY <1>2, ConcatProperties
<1> HIDE DEF b
<1>b. b \in Seq(Event)
  BY <1>3
<1>4. /\ c \in Seq(Event) /\ Len(c) = Len(b) + Len(u)
      /\ \A i \in 1..Len(b) + Len(u) :
            c[i] = IF i <= Len(b) THEN b[i] ELSE u[i - Len(b)]
  BY <1>b, ConcatProperties
<1>c. w = c
  BY DEF Spliced, c, b, a
<1> HIDE DEF c, w
<1>d. /\ Len(w) = Len(b) + Len(u)
      /\ \A i \in 1..Len(b) + Len(u) :
            w[i] = IF i <= Len(b) THEN b[i] ELSE u[i - Len(b)]
  BY <1>4, <1>c, Zenon
<1>e. /\ Len(s) \in Nat /\ Len(t) \in Nat /\ Len(u) \in Nat
  OBVIOUS
<1>5. /\ Len(s) \in Nat /\ Len(t) \in Nat /\ Len(u) \in Nat
      /\ Len(a) = Len(s) + 1 /\ Len(b) = Len(s) + 1 + Len(t)
      /\ Len(w) = Len(s) + 1 + Len(t) + Len(u)
  BY <1>2, <1>3, <1>d, <1>e
<1>6. Len(w) > Len(s)
  BY <1>5
<1>7. ASSUME NEW i \in 1..Len(s)
      PROVE  w[i] = s[i]
  <2>1. i \in 1..Len(a) /\ i <= Len(a) /\ i <= Len(b)
        /\ i \in 1..Len(a) + Len(t) /\ i \in 1..Len(b) + Len(u)
    BY <1>5
  <2> QED
    BY <1>2, <1>3, <1>d, <2>1
<1>8. w[Len(s) + 1] = e
  <2> DEFINE k == Len(s) + 1
  <2>1. k <= Len(a) /\ k <= Len(b)
        /\ k \in 1..Len(a) + Len(t) /\ k \in 1..Len(b) + Len(u)
    BY <1>5
  <2>2. a[k] = e
    BY <1>2
  <2> HIDE DEF k
  <2>3. w[k] = e
    BY <1>3, <1>d, <2>1, <2>2
  <2> QED
    BY <2>3 DEF k
<1>9. ASSUME NEW i \in 1..Len(w), i > Len(s) + 1
      PROVE  Quiet(w[i])
  <2>1. i \in 1..Len(b) + Len(u)
    BY <1>5
  <2>2. CASE i <= Len(b)
    <3>1. i \in 1..Len(a) + Len(t) /\ ~(i <= Len(a)) /\ i - Len(a) \in 1..Len(t)
      BY <1>5, <1>9, <2>2
    <3>2. w[i] = t[i - Len(a)]
      BY <1>3, <1>d, <2>1, <2>2, <3>1
    <3> QED
      BY <3>1, <3>2
  <2>3. CASE ~(i <= Len(b))
    <3>1. i - Len(b) \in 1..Len(u)
      BY <1>5, <2>3
    <3>2. w[i] = u[i - Len(b)]
      BY <1>d, <2>1, <2>3
    <3> QED
      BY <3>1, <3>2
  <2> QED
    BY <2>2, <2>3
<1> QED
  BY <1>6, <1>7, <1>8, <1>9 DEF w

\* What close() and push() write is one event, and the next head's activation.
LEMMA SaysOne ==
    ASSUME TypeOK, NEW e \in Event, NEW q \in Seq(Requests),
           NEW after \in Seq(Event), \A i \in 1..Len(after) : Quiet(after[i]),
           out' = Spliced(out, e, Activation(q), after)
    PROVE  Says(e)
<1> DEFINE t == Activation(q)
<1>1. t \in Seq(Event)
  BY ActivationOut
<1>2. \A i \in 1..Len(t) : Quiet(t[i])
  BY DEF Activation, Quiet, Ev
<1>3. out \in Seq(Event)
  BY DEF TypeOK
<1> HIDE DEF t
<1> DEFINE w == Spliced(out, e, t, after)
<1>4. /\ Len(w) > Len(out)
      /\ \A i \in 1..Len(out) : w[i] = out[i]
      /\ w[Len(out) + 1] = e
      /\ \A i \in 1..Len(w) : i > Len(out) + 1 => Quiet(w[i])
  BY <1>1, <1>2, <1>3, ThreeParts
<1>5. out' = w
  BY DEF t
<1> HIDE DEF w
<1> QED
  BY <1>4, <1>5, Zenon DEF Says

\* What the other handlers write neither announces nor closes.
LEMMA SaysLess ==
    ASSUME TypeOK, out' = out \/ \E e \in Event : Quiet(e) /\ out' = Append(out, e)
    PROVE  SaysNothing
<1>1. out \in Seq(Event)
  BY DEF TypeOK
<1>2. CASE out' = out
  BY <1>1, <1>2 DEF SaysNothing
<1>3. ASSUME NEW e \in Event, Quiet(e), out' = Append(out, e)
      PROVE  SaysNothing
  <2>1. /\ Len(out') = Len(out) + 1 /\ out'[Len(out) + 1] = e
        /\ \A i \in 1..Len(out) : out'[i] = out[i]
    BY <1>1, <1>3, AppendProperties
  <2> QED
    BY <1>1, <1>3, <2>1 DEF SaysNothing
<1> QED
  BY <1>2, <1>3

\* The fields of a line.
LEMMA Names ==
    ASSUME NEW r \in Requests, NEW name \in EventName
    PROVE  Ev(name, r) \in Event /\ Ev(name, r).ev = name /\ Ev(name, r).id = r
BY DEF Ev, Event

\* Nothing after the activation.
LEMMA NothingMore == <<>> \in Seq(Event) /\ \A i \in 1..Len(<<>>) : Quiet(<<>>[i])
<1>1. \A i \in 1..Len(<<>>) : FALSE
  OBVIOUS
<1> QED
  BY <1>1

\* push(): the request is announced once, and queued last.
LEMMA PushArrives ==
    ASSUME TypeOK, up, NEW r \in Requests, status[r] = "new",
           Push(r, <<>>) \/ Push(r, <<Ev("prompt", r)>>)
    PROVE  Arrives(r)
<1>1. Starts(r) \in Seq(Requests)
  BY DEF Starts
<1>2. Ev("request", r) \in Event
  BY Names DEF EventName
<1>3. CASE Push(r, <<>>)
  <2>1. out' = Spliced(out, Ev("request", r), Activation(Starts(r)), <<>>)
    BY <1>3 DEF Push, Spliced
  <2>2. Says(Ev("request", r))
    BY <1>1, <1>2, <2>1, NothingMore, SaysOne
  <2> QED
    BY <1>3, <2>2 DEF Push, Arrives
<1>4. CASE Push(r, <<Ev("prompt", r)>>)
  <2>1. out' = Spliced(out, Ev("request", r), Activation(Starts(r)), <<Ev("prompt", r)>>)
    BY <1>4, Zenon DEF Push, Spliced
  <2>2. <<Ev("prompt", r)>> \in Seq(Event)
    BY EventsOut DEF EventName
  <2>3. \A i \in 1..Len(<<Ev("prompt", r)>>) : Quiet(<<Ev("prompt", r)>>[i])
    BY DEF Quiet, Ev
  <2>4. Says(Ev("request", r))
    BY <1>1, <1>2, <2>1, <2>2, <2>3, SaysOne
  <2> QED
    BY <1>4, <2>4 DEF Push, Arrives
<1> QED
  BY <1>3, <1>4

\* close(): the request leaves the queue and is told closed, or was not there.
LEMMA CloseCloses ==
    ASSUME TypeOK, QueueIsTheOpenRequests, NEW r \in Requests, Open(r),
           NEW how, Close(r, how), up' = up
    PROVE  Closes(r, how)
<1>1. Left(r) \in Seq(Requests)
  BY LeftProperties
<1>2. Ev("close", r) \in Event
  BY Names DEF EventName
<1>3. out' = Spliced(out, Ev("close", r), Activation(Left(r)), <<>>)
  <2>1. Spliced(out, Ev("close", r), Activation(Left(r)), <<>>)
           = out \o <<Ev("close", r)>> \o Activation(Left(r)) \o <<>>
    BY Zenon DEF Spliced
  <2>2. out \o <<Ev("close", r)>> \o Activation(Left(r)) \in Seq(Event)
    <3>1. out \in Seq(Event) /\ <<Ev("close", r)>> \in Seq(Event)
      BY <1>2 DEF TypeOK
    <3>2. Activation(Left(r)) \in Seq(Event)
      BY <1>1, ActivationOut
    <3>3. out \o <<Ev("close", r)>> \in Seq(Event)
      BY <3>1, ConcatProperties
    <3> QED
      BY <3>2, <3>3, ConcatProperties
  <2>3. out' = out' \o <<>>
    BY <2>2, ConcatEmptySeq, Zenon DEF Close
  <2> QED
    BY <2>1, <2>3, Zenon DEF Close
<1>4. Says(Ev("close", r))
  BY <1>1, <1>2, <1>3, NothingMore, SaysOne
<1> QED
  BY <1>4 DEF Close, Closes

\* A caller.
LEMMA CallerIs ==
    ASSUME IInv, NEW r \in Requests, Caller(r)
    PROVE  Arrives(r) \/ Closes(r, "refused") \/ Turned(r)
<1>1. TypeOK /\ QueueIsTheOpenRequests
  BY DEF IInv, Inv
<1>2. CASE BeginAuthentication(r)
  BY <1>1, <1>2, PushArrives DEF BeginAuthentication, Room
<1>3. CASE AskpassRequest(r)
  BY <1>1, <1>3, PushArrives DEF AskpassRequest, Room
<1>4. CASE BeginRefused(r) \/ AskpassDropped(r)
  BY <1>4 DEF BeginRefused, AskpassDropped, Turned
<1>5. CASE CancelAuthentication(r)
  BY <1>1, <1>5, CloseCloses DEF CancelAuthentication, Deny
<1> QED
  BY <1>2, <1>3, <1>4, <1>5 DEF Caller

\* The front of the queue.
AtTheFront(r) == queue # <<>> /\ queue[1] = r

\* Whoever converses is at the front.
LEMMA TalkersLead ==
    ASSUME IInv, NEW r \in Requests, Open(r), Live(r)
    PROVE  AtTheFront(r)
<1>1. PICK i \in DOMAIN queue : queue[i] = r
  BY DEF IInv, Inv, QueueIsTheOpenRequests
<1>2. queue \in Seq(Requests)
  BY DEF IInv, TypeOK
<1>3. ~(i > 1)
  BY <1>1 DEF IInv, Inv, OnlyTheHeadConverses
<1>4. i = 1
  BY <1>2, <1>3
<1> QED
  BY <1>1, <1>2, <1>4 DEF AtTheFront

\* PAM.
LEMMA PamIs ==
    ASSUME IInv, NEW r \in Requests, Pam(r)
    PROVE  \/ Talks
           \/ Closes(r, "granted") /\ AtTheFront(r)
           \/ Closes(r, "refused")
<1>1. TypeOK /\ QueueIsTheOpenRequests
  BY DEF IInv, Inv
<1>2. \A name \in EventName : Ev(name, r) \in Event /\ Ev(name, r).ev = name
  BY Names
<1>3. CASE SessionAsks(r)
  <2>1. Quiet(Ev("prompt", r)) /\ Ev("prompt", r) \in Event
    BY <1>2 DEF Quiet, EventName
  <2>2. SaysNothing
    BY <1>1, <1>3, <2>1, SaysLess DEF SessionAsks
  <2> QED
    BY <1>3, <2>2 DEF SessionAsks, Talks
<1>4. CASE ReaderAsks(r) \/ ReaderFails(r)
  <2>1. Quiet(Ev("factorend", r)) /\ Ev("factorend", r) \in Event
    BY <1>2 DEF Quiet, EventName
  <2>2. SaysNothing
    BY <1>1, <1>4, <2>1, SaysLess DEF ReaderAsks, ReaderFails
  <2> QED
    BY <1>4, <2>2 DEF ReaderAsks, ReaderFails, Talks
<1>5. CASE FingerInfo(r)
  <2>1. Quiet(Ev("factor", r)) /\ Ev("factor", r) \in Event
    BY <1>2 DEF Quiet, EventName
  <2>2. SaysNothing
    BY <1>1, <1>5, <2>1, SaysLess DEF FingerInfo
  <2> QED
    BY <1>5, <2>2 DEF FingerInfo, Talks
<1>6. CASE PamSays(r)
  <2>1. \A name \in {"info", "pamerror"} : Quiet(Ev(name, r)) /\ Ev(name, r) \in Event
    BY <1>2 DEF Quiet, EventName
  <2>2. SaysNothing
    BY <1>1, <1>6, <2>1, SaysLess DEF PamSays
  <2> QED
    BY <1>6, <2>2 DEF PamSays, Talks
<1>7. CASE WrongPassword(r)
  <2> DEFINE e == [ev |-> "failed", id |-> r, tries |-> tries[r] + 1]
  <2>1. Quiet(e) /\ e \in Event
    BY <1>1 DEF Quiet, Event, EventName, TypeOK
  <2>2. SaysNothing
    <3>1. out' = Append(out, e)
      BY <1>7 DEF WrongPassword
    <3> HIDE DEF e
    <3> QED
      BY <1>1, <2>1, <3>1, SaysLess
  <2> QED
    BY <1>7, <2>2 DEF WrongPassword, Talks
<1>8. CASE LeftReaderEnds(r)
  <2>1. SaysNothing
    BY <1>1, <1>8, SaysLess DEF LeftReaderEnds
  <2> QED
    BY <1>8, <2>1 DEF LeftReaderEnds, Talks
<1>9. CASE Authorized(r)
  <2>1. AtTheFront(r)
    BY <1>9, TalkersLead DEF Authorized, MayWin, Talking, Live
  <2>2. Closes(r, "granted")
    BY <1>1, <1>9, CloseCloses DEF Authorized, MayWin
  <2> QED
    BY <2>1, <2>2
<1>10. CASE OutOfTries(r)
  <2>1. Open(r)
    BY <1>10 DEF OutOfTries, Counts, IInv, Inv, ClosedIsOver
  <2> QED
    BY <1>1, <1>10, <2>1, CloseCloses DEF OutOfTries
<1> QED
  BY <1>3, <1>4, <1>5, <1>6, <1>7, <1>8, <1>9, <1>10 DEF Pam

\* A command of the shell that finds its request.
LEMMA HandleIs ==
    ASSUME IInv, NEW r \in Requests, NEW name, Handle(r, name)
    PROVE  Talks \/ Closes(r, "refused") \/ Closes(r, "granted")
<1>1. TypeOK /\ QueueIsTheOpenRequests
  BY DEF IInv, Inv
<1>2. CASE Cancel(r)
  <2>1. Open(r) /\ Close(r, "refused") /\ up' = up
    BY <1>2 DEF Cancel, Deny
  <2>2. Closes(r, "refused")
    BY <1>1, <2>1, CloseCloses
  <2> QED
    BY <2>2
<1>3. CASE RespondSudo(r)
  BY <1>1, <1>3, CloseCloses DEF RespondSudo
<1>4. CASE RespondPolkit(r)
  <2>1. SaysNothing
    BY <1>1, <1>4, SaysLess DEF RespondPolkit
  <2> QED
    BY <1>4, <2>1, Zenon DEF RespondPolkit, Talks
<1> QED
  BY <1>2, <1>3, <1>4 DEF Handle, Respond

-----------------------------------------------------------------------------
(* How far the shell's list is behind the daemon's queue.                   *)

\* What the shell has read of, and what it is still to read of.
Listed(a) == \E i \in 1..Len(requests) : requests[i] = a
Announces(i, a) == out[i].ev = "request" /\ out[i].id = a
Announced(a) == \E i \in 1..Len(out) : Announces(i, a)

Ahead(a, b) == \E j, k \in 1..Len(queue) : j < k /\ queue[j] = a /\ queue[k] = b

\* Who waits is listed, or will be; who has not come is not known.
WaitingIsKnown == \A a \in Requests : Open(a) => Listed(a) \/ Announced(a)
NewIsUnknown ==
    \A a \in Requests : status[a] = "new" => ~Listed(a) /\ ~Announced(a)
NewIsUnnamed ==
    \A i \in 1..Len(cmds) : status[cmds[i].id] # "new"

\* A request is announced once, and not closed in the pipe while it is open.
AnnouncedOnce ==
    \A a \in Requests : \A i, j \in 1..Len(out) :
        Announces(i, a) /\ Announces(j, a) => i = j
ListedOnce ==
    \A i, j \in 1..Len(requests) : requests[i] = requests[j] => i = j
NotYetListed == \A a \in Requests : Announced(a) => ~Listed(a)
ClosesAreTrue ==
    \A i \in 1..Len(out) : out[i].ev = "close" => status[out[i].id] \notin {"new", "open"}

\* Who stands ahead in the queue is ahead in the list, and in the pipe.
ListedInOrder ==
    \A a, b \in Requests : Ahead(a, b) =>
        \A m \in 1..Len(requests) : requests[m] = b =>
            \E l \in 1..Len(requests) : l < m /\ requests[l] = a
AnnouncedInOrder ==
    \A a, b \in Requests : Ahead(a, b) =>
        \A m \in 1..Len(out) : Announces(m, b) =>
            Listed(a) \/ \E l \in 1..Len(out) : l < m /\ Announces(l, a)

\* So a command that still finds its request finds it at the front.
FrontIsNamed == \A i \in 1..Len(cmds) : Open(cmds[i].id) => AtTheFront(cmds[i].id)

DownIsEmpty == ~up => \A a \in Requests : ~Open(a)

PipesOK == requests \in Seq(Requests) /\ cmds \in Seq(Command)

ViewInv ==
    /\ PipesOK
    /\ WaitingIsKnown /\ NewIsUnknown /\ NewIsUnnamed
    /\ AnnouncedOnce /\ ListedOnce /\ NotYetListed /\ ClosesAreTrue
    /\ ListedInOrder /\ AnnouncedInOrder
    /\ FrontIsNamed /\ DownIsEmpty

\* No command is added to those under way.
NoNewCmds ==
    /\ cmds' \in Seq(Command)
    /\ \A i \in 1..Len(cmds') : \E j \in 1..Len(cmds) : cmds[j].id = cmds'[i].id

\* The lengths and elements of queue, list and pipes, for the lemmas below.
LEMMA Shapes ==
    ASSUME IInv, ViewInv
    PROVE  /\ queue \in Seq(Requests) /\ Len(queue) \in Nat
           /\ out \in Seq(Event) /\ Len(out) \in Nat
           /\ requests \in Seq(Requests) /\ Len(requests) \in Nat
           /\ cmds \in Seq(Command) /\ Len(cmds) \in Nat
           /\ status \in [Requests -> Status]
           /\ \A i \in 1..Len(queue) : queue[i] \in Requests
           /\ \A i \in 1..Len(out) : out[i].ev \in {"request", "close"} => out[i].id \in Requests
           /\ \A i \in 1..Len(requests) : requests[i] \in Requests
           /\ \A i \in 1..Len(cmds) : cmds[i].id \in Requests
           /\ \A i, j \in 1..Len(queue) : queue[i] = queue[j] => i = j
           /\ \A a \in Requests : Open(a) <=> \E i \in 1..Len(queue) : queue[i] = a
<1>1. /\ queue \in Seq(Requests) /\ out \in Seq(Event) /\ status \in [Requests -> Status]
  BY DEF IInv, TypeOK
<1>2. requests \in Seq(Requests) /\ cmds \in Seq(Command)
  BY DEF ViewInv, PipesOK
<1>3. \A i \in 1..Len(out) : out[i] \in Event
  BY <1>1
<1>4. \A i \in 1..Len(out) : out[i].ev \in {"request", "close"} => out[i].id \in Requests
  <2>1. \A e \in Event : e.ev \in {"request", "close"} => e.id \in Requests
    BY DEF Event
  <2> QED
    BY <1>3, <2>1
<1>5. \A i \in 1..Len(cmds) : cmds[i].id \in Requests
  <2>1. \A i \in 1..Len(cmds) : cmds[i] \in Command
    BY <1>2
  <2>2. \A c \in Command : c.id \in Requests
    BY DEF Command
  <2> QED
    BY <2>1, <2>2
<1>6. /\ \A i, j \in 1..Len(queue) : queue[i] = queue[j] => i = j
      /\ \A a \in Requests : Open(a) <=> \E i \in 1..Len(queue) : queue[i] = a
  <2>1. DOMAIN queue = 1..Len(queue)
    BY <1>1
  <2> QED
    BY <2>1 DEF IInv, Inv, QueueIsTheOpenRequests
<1>7. /\ Len(queue) \in Nat /\ Len(out) \in Nat /\ Len(requests) \in Nat /\ Len(cmds) \in Nat
  BY <1>1, <1>2
<1>8. /\ \A i \in 1..Len(queue) : queue[i] \in Requests
      /\ \A i \in 1..Len(requests) : requests[i] \in Requests
  BY <1>1, <1>2
<1> QED
  BY <1>1, <1>2, <1>4, <1>5, <1>6, <1>7, <1>8

\* A request that comes.
LEMMA ArrivalKeeps ==
    ASSUME IInv, IInv', ViewInv, NEW r \in Requests, Arrives(r),
           UNCHANGED requests, NoNewCmds
    PROVE  ViewInv'
<1>1. /\ queue \in Seq(Requests) /\ Len(queue) \in Nat
      /\ Len(out) \in Nat /\ Len(requests) \in Nat
      /\ status \in [Requests -> Status]
      /\ \A i \in 1..Len(queue) : queue[i] \in Requests
      /\ \A i \in 1..Len(out) : out[i].ev \in {"request", "close"} => out[i].id \in Requests
      /\ \A i \in 1..Len(requests) : requests[i] \in Requests
      /\ \A i \in 1..Len(cmds) : cmds[i].id \in Requests
      /\ \A i, j \in 1..Len(queue) : queue[i] = queue[j] => i = j
      /\ \A a \in Requests : Open(a) <=> \E i \in 1..Len(queue) : queue[i] = a
  BY Shapes
<1>2. /\ status[r] = "new" /\ up /\ up'
      /\ \A a \in Requests : status'[a] = IF a = r THEN "open" ELSE status[a]
  BY <1>1 DEF Arrives
<1>3. /\ Len(queue') = Len(queue) + 1 /\ queue'[Len(queue) + 1] = r
      /\ \A i \in 1..Len(queue) : queue'[i] = queue[i]
  BY <1>1, AppendProperties DEF Arrives
<1>4. /\ Len(out') > Len(out) /\ Len(out') \in Nat
      /\ \A i \in 1..Len(out) : out'[i] = out[i]
      /\ out'[Len(out) + 1].ev = "request" /\ out'[Len(out) + 1].id = r
      /\ \A i \in 1..Len(out') : i > Len(out) + 1 => out'[i].ev \notin {"request", "close"}
  <2>1. Says(Ev("request", r))
    BY DEF Arrives
  <2>2. out' \in Seq(Event)
    BY DEF IInv, TypeOK
  <2> QED
    BY <2>1, <2>2 DEF Says, Quiet, Ev
<1>5. ~Listed(r) /\ ~Announced(r)
  BY <1>2 DEF ViewInv, NewIsUnknown
<1>6. WaitingIsKnown'
  <2>1. SUFFICES ASSUME NEW a \in Requests, status'[a] = "open",
                        ~\E i \in 1..Len(requests) : requests[i] = a
                 PROVE  \E i \in 1..Len(out') : out'[i].ev = "request" /\ out'[i].id = a
    BY DEF WaitingIsKnown, Open, Listed, Announced, Announces
  <2>2. CASE a = r
    <3>1. Len(out) + 1 \in 1..Len(out')
      BY <1>1, <1>4
    <3> QED
      BY <1>4, <2>2, <3>1
  <2>3. CASE a # r
    <3>1. PICK i \in 1..Len(out) : out[i].ev = "request" /\ out[i].id = a
      BY <1>2, <2>1, <2>3 DEF ViewInv, WaitingIsKnown, Open, Listed, Announced, Announces
    <3>2. i \in 1..Len(out') /\ out'[i] = out[i]
      BY <1>1, <1>4
    <3> QED
      BY <3>1, <3>2
  <2> QED
    BY <2>2, <2>3
\* What is announced then was announced before, or is r.
<1>7. ASSUME NEW i \in 1..Len(out'), out'[i].ev = "request"
      PROVE  \/ i \in 1..Len(out) /\ Announces(i, out'[i].id) /\ out'[i].id # r
             \/ i = Len(out) + 1 /\ out'[i].id = r
  <2>1. CASE i \in 1..Len(out)
    BY <1>4, <1>5, <1>7, <2>1 DEF Announced, Announces
  <2>2. CASE i = Len(out) + 1
    BY <1>4, <2>2
  <2>3. CASE i > Len(out) + 1
    BY <1>4, <1>7, <2>3
  <2> QED
    BY <1>1, <1>4, <2>1, <2>2, <2>3
<1>8. NewIsUnknown'
  <2>1. SUFFICES ASSUME NEW a \in Requests, status'[a] = "new"
                 PROVE  /\ ~\E i \in 1..Len(requests) : requests[i] = a
                        /\ ~\E i \in 1..Len(out') : out'[i].ev = "request" /\ out'[i].id = a
    BY DEF NewIsUnknown, Listed, Announced, Announces
  <2>2. a # r /\ ~Listed(a) /\ ~Announced(a)
    BY <1>2, <2>1 DEF ViewInv, NewIsUnknown
  <2> QED
    BY <1>7, <2>2 DEF Listed, Announced
<1>9. NewIsUnnamed'
  BY <1>1, <1>2 DEF NewIsUnnamed, NoNewCmds, ViewInv
<1>10. AnnouncedOnce'
  <2>1. SUFFICES ASSUME NEW a \in Requests, NEW i \in 1..Len(out'), NEW j \in 1..Len(out'),
                        out'[i].ev = "request", out'[i].id = a,
                        out'[j].ev = "request", out'[j].id = a
                 PROVE  i = j
    BY DEF AnnouncedOnce, Announces
  <2> QED
    BY <1>7, <2>1 DEF ViewInv, AnnouncedOnce
<1>11. ListedOnce' /\ PipesOK'
  BY DEF ViewInv, ListedOnce, PipesOK, NoNewCmds
<1>12. NotYetListed'
  <2>1. SUFFICES ASSUME NEW i \in 1..Len(out'), out'[i].ev = "request"
                 PROVE  ~\E j \in 1..Len(requests) : requests[j] = out'[i].id
    BY DEF NotYetListed, Announced, Announces, Listed
  <2>2. CASE i \in 1..Len(out) /\ Announces(i, out'[i].id)
    <3>1. out'[i].id \in Requests
      BY <1>1, <2>2 DEF Announces
    <3> QED
      BY <2>2, <3>1 DEF ViewInv, NotYetListed, Announced, Listed
  <2>3. CASE out'[i].id = r
    BY <1>5, <2>3 DEF Listed
  <2> QED
    BY <1>7, <2>1, <2>2, <2>3
<1>13. ClosesAreTrue'
  <2>1. SUFFICES ASSUME NEW i \in 1..Len(out'), out'[i].ev = "close"
                 PROVE  status'[out'[i].id] \notin {"new", "open"}
    BY DEF ClosesAreTrue
  <2>2. i \in 1..Len(out) /\ out'[i] = out[i]
    BY <1>1, <1>4, <2>1
  <2>3. out[i].id \in Requests /\ status[out[i].id] \notin {"new", "open"}
    BY <1>1, <2>1, <2>2 DEF ViewInv, ClosesAreTrue
  <2> QED
    BY <1>2, <2>2, <2>3
\* Whoever is ahead then was ahead before, or is ahead of r.
<1>14. ASSUME NEW a \in Requests, NEW b \in Requests,
              \E j, k \in 1..Len(queue') : j < k /\ queue'[j] = a /\ queue'[k] = b
       PROVE  Open(a) /\ (Ahead(a, b) \/ b = r)
  <2>1. PICK j \in 1..Len(queue'), k \in 1..Len(queue') :
           j < k /\ queue'[j] = a /\ queue'[k] = b
    BY <1>14
  <2>2. j \in 1..Len(queue) /\ queue[j] = a
    BY <1>1, <1>3, <2>1
  <2>3. Open(a)
    BY <1>1, <2>2
  <2>4. CASE k \in 1..Len(queue)
    BY <1>3, <2>1, <2>2, <2>3, <2>4 DEF Ahead
  <2>5. CASE k = Len(queue) + 1
    BY <1>3, <2>1, <2>3, <2>5
  <2> QED
    BY <1>1, <1>3, <2>4, <2>5
<1>15. ListedInOrder'
  <2>1. SUFFICES ASSUME NEW a \in Requests, NEW b \in Requests,
                        \E j, k \in 1..Len(queue') : j < k /\ queue'[j] = a /\ queue'[k] = b,
                        NEW m \in 1..Len(requests), requests[m] = b
                 PROVE  \E l \in 1..Len(requests) : l < m /\ requests[l] = a
    BY SMTT(60) DEF ListedInOrder, Ahead
  <2>2. b # r
    BY <1>5, <2>1 DEF Listed
  <2>3. Ahead(a, b)
    BY <1>14, <2>1, <2>2
  <2> QED
    BY <2>1, <2>3 DEF ViewInv, ListedInOrder
<1>16. AnnouncedInOrder'
  <2>1. SUFFICES ASSUME NEW a \in Requests, NEW b \in Requests,
                        \E j, k \in 1..Len(queue') : j < k /\ queue'[j] = a /\ queue'[k] = b,
                        NEW m \in 1..Len(out'), out'[m].ev = "request", out'[m].id = b,
                        ~Listed(a)
                 PROVE  \E l \in 1..Len(out') :
                           l < m /\ out'[l].ev = "request" /\ out'[l].id = a
    BY DEF AnnouncedInOrder, Ahead, Announces, Listed
  <2>2. Open(a) /\ (Ahead(a, b) \/ b = r)
    BY <1>14, <2>1
  <2>3. \E l \in 1..Len(out) : l < m /\ Announces(l, a)
    <3>1. CASE b # r
      <4>1. m \in 1..Len(out) /\ Announces(m, b) /\ Ahead(a, b)
        BY <1>7, <2>1, <2>2, <3>1
      <4> QED
        BY <2>1, <4>1 DEF ViewInv, AnnouncedInOrder
    <3>2. CASE b = r
      <4>1. m = Len(out) + 1
        BY <1>7, <2>1, <3>2
      <4>2. Announced(a)
        BY <2>1, <2>2 DEF ViewInv, WaitingIsKnown
      <4> QED
        BY <1>1, <4>1, <4>2 DEF Announced
    <3> QED
      BY <3>1, <3>2
  <2>4. PICK l \in 1..Len(out) : l < m /\ Announces(l, a)
    BY <2>3
  <2>5. l \in 1..Len(out') /\ out'[l] = out[l]
    BY <1>1, <1>4
  <2> QED
    BY <2>4, <2>5 DEF Announces
<1>17. FrontIsNamed'
  <2>1. SUFFICES ASSUME NEW i \in 1..Len(cmds'), status'[cmds'[i].id] = "open"
                 PROVE  queue' # <<>> /\ queue'[1] = cmds'[i].id
    BY DEF FrontIsNamed, AtTheFront, Open
  <2>2. PICK j \in 1..Len(cmds) : cmds[j].id = cmds'[i].id
    BY DEF NoNewCmds
  <2>3. cmds[j].id \in Requests /\ cmds[j].id # r /\ Open(cmds[j].id)
    BY <1>1, <1>2, <2>1, <2>2 DEF ViewInv, NewIsUnnamed, Open
  <2>4. queue # <<>> /\ queue[1] = cmds[j].id
    BY <2>3 DEF ViewInv, FrontIsNamed, AtTheFront
  <2>5. 1 \in 1..Len(queue)
    BY <1>1, <2>4
  <2> QED
    BY <1>1, <1>3, <2>2, <2>4, <2>5
<1>18. DownIsEmpty'
  BY <1>2 DEF DownIsEmpty
<1> QED
  BY <1>6, <1>8, <1>9, <1>10, <1>11, <1>12, <1>13, <1>15, <1>16, <1>17, <1>18 DEF ViewInv

\* A request that closes, answered or given up.
LEMMA ClosingKeeps ==
    ASSUME IInv, IInv', ViewInv, NEW r \in Requests,
           NEW how \in {"granted", "refused"}, Closes(r, how),
           UNCHANGED requests, NoNewCmds
    PROVE  ViewInv'
<1>1. /\ queue \in Seq(Requests) /\ Len(queue) \in Nat
      /\ Len(out) \in Nat /\ Len(requests) \in Nat
      /\ status \in [Requests -> Status]
      /\ \A i \in 1..Len(queue) : queue[i] \in Requests
      /\ \A i \in 1..Len(out) : out[i].ev \in {"request", "close"} => out[i].id \in Requests
      /\ \A i \in 1..Len(requests) : requests[i] \in Requests
      /\ \A i \in 1..Len(cmds) : cmds[i].id \in Requests
      /\ \A i, j \in 1..Len(queue) : queue[i] = queue[j] => i = j
      /\ \A a \in Requests : Open(a) <=> \E i \in 1..Len(queue) : queue[i] = a
  BY Shapes
<1>2. /\ Open(r) /\ up' = up
      /\ \A a \in Requests : status'[a] = IF a = r THEN how ELSE status[a]
  BY <1>1 DEF Closes
<1>3. PICK n \in 1..Len(queue) : queue[n] = r
  BY <1>1, <1>2
<1>4. /\ Len(queue') = Len(queue) - 1
      /\ \A i \in 1..Len(queue) - 1 :
            queue'[i] = IF i < n THEN queue[i] ELSE queue[i + 1]
  <2>1. queue' = RemoveFirst(queue, queue[n])
    BY <1>3 DEF Closes, Left
  <2> HIDE DEF IInv, ViewInv
  <2> QED
    BY <1>1, <2>1, RemoveFirstShifts
<1>5. /\ Len(out') > Len(out) /\ Len(out') \in Nat
      /\ \A i \in 1..Len(out) : out'[i] = out[i]
      /\ out'[Len(out) + 1].ev = "close" /\ out'[Len(out) + 1].id = r
      /\ \A i \in 1..Len(out') : i > Len(out) + 1 => out'[i].ev \notin {"request", "close"}
  <2>1. Says(Ev("close", r))
    BY DEF Closes
  <2>2. out' \in Seq(Event)
    BY DEF IInv, TypeOK
  <2> QED
    BY <2>1, <2>2 DEF Says, Quiet, Ev
\* Nothing is announced.
<1>6. /\ \A i \in 1..Len(out) : i \in 1..Len(out') /\ out'[i] = out[i]
      /\ \A i \in 1..Len(out') : out'[i].ev = "request" => i \in 1..Len(out)
  <2>1. \A i \in 1..Len(out) : i \in 1..Len(out')
    BY <1>1, <1>5
  <2>2. ASSUME NEW i \in 1..Len(out'), out'[i].ev = "request"
        PROVE  i \in 1..Len(out)
    BY <1>1, <1>5, <2>2
  <2> QED
    BY <1>5, <2>1, <2>2
<1>7. WaitingIsKnown'
  <2>1. SUFFICES ASSUME NEW a \in Requests, status'[a] = "open",
                        ~\E i \in 1..Len(requests) : requests[i] = a
                 PROVE  \E i \in 1..Len(out') : out'[i].ev = "request" /\ out'[i].id = a
    BY DEF WaitingIsKnown, Open, Listed, Announced, Announces
  <2>2. PICK i \in 1..Len(out) : out[i].ev = "request" /\ out[i].id = a
    BY <1>2, <2>1 DEF ViewInv, WaitingIsKnown, Open, Listed, Announced, Announces
  <2> QED
    BY <1>6, <2>2
<1>8. NewIsUnknown'
  <2>1. SUFFICES ASSUME NEW a \in Requests, status'[a] = "new"
                 PROVE  /\ ~\E i \in 1..Len(requests) : requests[i] = a
                        /\ ~\E i \in 1..Len(out') : out'[i].ev = "request" /\ out'[i].id = a
    BY DEF NewIsUnknown, Listed, Announced, Announces
  <2>2. ~Listed(a) /\ ~Announced(a)
    BY <1>2, <2>1 DEF ViewInv, NewIsUnknown
  <2> QED
    BY <1>6, <2>2 DEF Listed, Announced, Announces
<1>9. NewIsUnnamed'
  BY <1>1, <1>2 DEF NewIsUnnamed, NoNewCmds, ViewInv
<1>10. AnnouncedOnce'
  <2>1. SUFFICES ASSUME NEW a \in Requests, NEW i \in 1..Len(out'), NEW j \in 1..Len(out'),
                        out'[i].ev = "request", out'[i].id = a,
                        out'[j].ev = "request", out'[j].id = a
                 PROVE  i = j
    BY DEF AnnouncedOnce, Announces
  <2> QED
    BY <1>6, <2>1 DEF ViewInv, AnnouncedOnce, Announces
<1>11. ListedOnce' /\ PipesOK'
  BY DEF ViewInv, ListedOnce, PipesOK, NoNewCmds
<1>12. NotYetListed'
  <2>1. SUFFICES ASSUME NEW i \in 1..Len(out'), out'[i].ev = "request"
                 PROVE  ~\E j \in 1..Len(requests) : requests[j] = out'[i].id
    BY DEF NotYetListed, Announced, Announces, Listed
  <2>2. i \in 1..Len(out) /\ Announces(i, out'[i].id)
    BY <1>6, <2>1 DEF Announces
  <2>3. out'[i].id \in Requests
    BY <1>1, <2>2 DEF Announces
  <2> QED
    BY <2>2, <2>3 DEF ViewInv, NotYetListed, Announced, Listed
<1>13. ClosesAreTrue'
  <2>1. SUFFICES ASSUME NEW i \in 1..Len(out'), out'[i].ev = "close"
                 PROVE  status'[out'[i].id] \notin {"new", "open"}
    BY DEF ClosesAreTrue
  <2>2. CASE i = Len(out) + 1
    BY <1>2, <1>5, <2>2
  <2>3. CASE i \in 1..Len(out)
    <3>1. out[i].id \in Requests /\ status[out[i].id] \notin {"new", "open"}
      BY <1>1, <1>6, <2>1, <2>3 DEF ViewInv, ClosesAreTrue
    <3> QED
      BY <1>2, <1>6, <2>3, <3>1
  <2> QED
    BY <1>1, <1>5, <2>1, <2>2, <2>3
\* Whoever is ahead then was ahead before.
<1>14. ASSUME NEW a \in Requests, NEW b \in Requests,
              \E j, k \in 1..Len(queue') : j < k /\ queue'[j] = a /\ queue'[k] = b
       PROVE  Ahead(a, b)
  <2>1. PICK j \in 1..Len(queue'), k \in 1..Len(queue') :
           j < k /\ queue'[j] = a /\ queue'[k] = b
    BY <1>14
  <2> DEFINE at(i) == IF i < n THEN i ELSE i + 1
  <2>2. /\ at(j) \in 1..Len(queue) /\ at(k) \in 1..Len(queue) /\ at(j) < at(k)
        /\ queue[at(j)] = a /\ queue[at(k)] = b
    BY <1>1, <1>4, <2>1
  <2> HIDE DEF at
  <2> QED
    BY <2>2 DEF Ahead
<1>15. ListedInOrder'
  <2>1. SUFFICES ASSUME NEW a \in Requests, NEW b \in Requests,
                        \E j, k \in 1..Len(queue') : j < k /\ queue'[j] = a /\ queue'[k] = b,
                        NEW m \in 1..Len(requests), requests[m] = b
                 PROVE  \E l \in 1..Len(requests) : l < m /\ requests[l] = a
    BY DEF ListedInOrder, Ahead
  <2>2. Ahead(a, b)
    BY <1>14, <2>1
  <2> QED
    BY <2>1, <2>2 DEF ViewInv, ListedInOrder
<1>16. AnnouncedInOrder'
  <2>1. SUFFICES ASSUME NEW a \in Requests, NEW b \in Requests,
                        \E j, k \in 1..Len(queue') : j < k /\ queue'[j] = a /\ queue'[k] = b,
                        NEW m \in 1..Len(out'), out'[m].ev = "request", out'[m].id = b,
                        ~Listed(a)
                 PROVE  \E l \in 1..Len(out') :
                           l < m /\ out'[l].ev = "request" /\ out'[l].id = a
    BY DEF AnnouncedInOrder, Ahead, Announces, Listed
  <2>2. m \in 1..Len(out) /\ Announces(m, b) /\ Ahead(a, b)
    BY <1>6, <1>14, <2>1 DEF Announces
  <2>3. PICK l \in 1..Len(out) : l < m /\ Announces(l, a)
    BY <2>1, <2>2 DEF ViewInv, AnnouncedInOrder
  <2> QED
    BY <1>6, <2>3 DEF Announces
<1>17. FrontIsNamed'
  <2>1. SUFFICES ASSUME NEW i \in 1..Len(cmds'), status'[cmds'[i].id] = "open"
                 PROVE  queue' # <<>> /\ queue'[1] = cmds'[i].id
    BY DEF FrontIsNamed, AtTheFront, Open
  <2>2. PICK j \in 1..Len(cmds) : cmds[j].id = cmds'[i].id
    BY DEF NoNewCmds
  <2>3. cmds[j].id \in Requests /\ cmds[j].id # r /\ Open(cmds[j].id)
    BY <1>1, <1>2, <2>1, <2>2 DEF Open
  <2>4. queue # <<>> /\ queue[1] = cmds[j].id
    BY <2>3 DEF ViewInv, FrontIsNamed, AtTheFront
  <2>5. n > 1 /\ 1 \in 1..Len(queue) - 1 /\ 1 < n
    BY <1>1, <1>3, <2>3, <2>4
  <2>6. queue'[1] = queue[1] /\ Len(queue') > 0
    BY <1>1, <1>4, <2>5
  <2> QED
    BY <2>2, <2>4, <2>6
<1>18. DownIsEmpty'
  BY <1>2 DEF DownIsEmpty, ViewInv, Open
<1> QED
  BY <1>7, <1>8, <1>9, <1>10, <1>11, <1>12, <1>13, <1>15, <1>16, <1>17, <1>18 DEF ViewInv

\* A step that only talks, or turns a caller away.
LEMMA TalkKeepsView ==
    ASSUME IInv, IInv', ViewInv, UNCHANGED <<up, queue>>, SaysNothing,
           \A a \in Requests :
                 status'[a] = status[a] \/ (status[a] = "new" /\ status'[a] = "refused"),
           UNCHANGED requests, NoNewCmds
    PROVE  ViewInv'
<1>1. /\ queue \in Seq(Requests) /\ Len(queue) \in Nat
      /\ Len(out) \in Nat /\ Len(requests) \in Nat
      /\ status \in [Requests -> Status]
      /\ \A i \in 1..Len(queue) : queue[i] \in Requests
      /\ \A i \in 1..Len(out) : out[i].ev \in {"request", "close"} => out[i].id \in Requests
      /\ \A i \in 1..Len(requests) : requests[i] \in Requests
      /\ \A i \in 1..Len(cmds) : cmds[i].id \in Requests
      /\ \A i, j \in 1..Len(queue) : queue[i] = queue[j] => i = j
      /\ \A a \in Requests : Open(a) <=> \E i \in 1..Len(queue) : queue[i] = a
  BY Shapes
<1>2. /\ up' = up /\ queue' = queue
      /\ \A a \in Requests : status'[a] = "new" => status[a] = "new"
      /\ \A a \in Requests : status'[a] = "open" <=> status[a] = "open"
      /\ \A a \in Requests : status[a] \notin {"new", "open"} => status'[a] \notin {"new", "open"}
  OBVIOUS
<1>5. /\ Len(out') >= Len(out) /\ Len(out') \in Nat
      /\ \A i \in 1..Len(out) : out'[i] = out[i]
      /\ \A i \in 1..Len(out') : i > Len(out) => out'[i].ev \notin {"request", "close"}
  <2>2. out' \in Seq(Event)
    BY DEF IInv, TypeOK
  <2> QED
    BY <2>2 DEF SaysNothing, Quiet
\* Nothing is announced.
<1>6. /\ \A i \in 1..Len(out) : i \in 1..Len(out') /\ out'[i] = out[i]
      /\ \A i \in 1..Len(out') : out'[i].ev = "request" => i \in 1..Len(out)
  <2>1. \A i \in 1..Len(out) : i \in 1..Len(out')
    BY <1>1, <1>5
  <2>2. ASSUME NEW i \in 1..Len(out'), out'[i].ev = "request"
        PROVE  i \in 1..Len(out)
    BY <1>1, <1>5, <2>2
  <2> QED
    BY <1>5, <2>1, <2>2
<1>7. WaitingIsKnown'
  <2>1. SUFFICES ASSUME NEW a \in Requests, status'[a] = "open",
                        ~\E i \in 1..Len(requests) : requests[i] = a
                 PROVE  \E i \in 1..Len(out') : out'[i].ev = "request" /\ out'[i].id = a
    BY DEF WaitingIsKnown, Open, Listed, Announced, Announces
  <2>2. PICK i \in 1..Len(out) : out[i].ev = "request" /\ out[i].id = a
    BY <1>2, <2>1 DEF ViewInv, WaitingIsKnown, Open, Listed, Announced, Announces
  <2> QED
    BY <1>6, <2>2
<1>8. NewIsUnknown'
  <2>1. SUFFICES ASSUME NEW a \in Requests, status'[a] = "new"
                 PROVE  /\ ~\E i \in 1..Len(requests) : requests[i] = a
                        /\ ~\E i \in 1..Len(out') : out'[i].ev = "request" /\ out'[i].id = a
    BY DEF NewIsUnknown, Listed, Announced, Announces
  <2>2. ~Listed(a) /\ ~Announced(a)
    BY <1>2, <2>1 DEF ViewInv, NewIsUnknown
  <2> QED
    BY <1>6, <2>2 DEF Listed, Announced, Announces
<1>9. NewIsUnnamed'
  <2>1. SUFFICES ASSUME NEW i \in 1..Len(cmds')
                 PROVE  status'[cmds'[i].id] # "new"
    BY DEF NewIsUnnamed
  <2>2. PICK j \in 1..Len(cmds) : cmds[j].id = cmds'[i].id
    BY DEF NoNewCmds
  <2>3. cmds[j].id \in Requests /\ status[cmds[j].id] # "new"
    BY <1>1 DEF ViewInv, NewIsUnnamed
  <2> QED
    BY <1>2, <2>2, <2>3
<1>10. AnnouncedOnce'
  <2>1. SUFFICES ASSUME NEW a \in Requests, NEW i \in 1..Len(out'), NEW j \in 1..Len(out'),
                        out'[i].ev = "request", out'[i].id = a,
                        out'[j].ev = "request", out'[j].id = a
                 PROVE  i = j
    BY DEF AnnouncedOnce, Announces
  <2> QED
    BY <1>6, <2>1 DEF ViewInv, AnnouncedOnce, Announces
<1>11. ListedOnce' /\ PipesOK'
  BY DEF ViewInv, ListedOnce, PipesOK, NoNewCmds
<1>12. NotYetListed'
  <2>1. SUFFICES ASSUME NEW i \in 1..Len(out'), out'[i].ev = "request"
                 PROVE  ~\E j \in 1..Len(requests) : requests[j] = out'[i].id
    BY DEF NotYetListed, Announced, Announces, Listed
  <2>2. i \in 1..Len(out) /\ Announces(i, out'[i].id)
    BY <1>6, <2>1 DEF Announces
  <2>3. out'[i].id \in Requests
    BY <1>1, <2>2 DEF Announces
  <2> QED
    BY <2>2, <2>3 DEF ViewInv, NotYetListed, Announced, Listed
<1>13. ClosesAreTrue'
  <2>1. SUFFICES ASSUME NEW i \in 1..Len(out'), out'[i].ev = "close"
                 PROVE  status'[out'[i].id] \notin {"new", "open"}
    BY DEF ClosesAreTrue
  <2>2. i \in 1..Len(out)
    BY <1>1, <1>5, <2>1
  <2>3. out[i].id \in Requests /\ status[out[i].id] \notin {"new", "open"}
    BY <1>1, <1>6, <2>1, <2>2 DEF ViewInv, ClosesAreTrue
  <2> QED
    BY <1>2, <1>6, <2>2, <2>3
<1>14. ASSUME NEW a \in Requests, NEW b \in Requests,
              \E j, k \in 1..Len(queue') : j < k /\ queue'[j] = a /\ queue'[k] = b
       PROVE  Ahead(a, b)
  BY <1>2, <1>14 DEF Ahead
<1>15. ListedInOrder'
  <2>1. SUFFICES ASSUME NEW a \in Requests, NEW b \in Requests,
                        \E j, k \in 1..Len(queue') : j < k /\ queue'[j] = a /\ queue'[k] = b,
                        NEW m \in 1..Len(requests), requests[m] = b
                 PROVE  \E l \in 1..Len(requests) : l < m /\ requests[l] = a
    BY DEF ListedInOrder, Ahead
  <2>2. Ahead(a, b)
    BY <1>14, <2>1
  <2> QED
    BY <2>1, <2>2 DEF ViewInv, ListedInOrder
<1>16. AnnouncedInOrder'
  <2>1. SUFFICES ASSUME NEW a \in Requests, NEW b \in Requests,
                        \E j, k \in 1..Len(queue') : j < k /\ queue'[j] = a /\ queue'[k] = b,
                        NEW m \in 1..Len(out'), out'[m].ev = "request", out'[m].id = b,
                        ~Listed(a)
                 PROVE  \E l \in 1..Len(out') :
                           l < m /\ out'[l].ev = "request" /\ out'[l].id = a
    BY DEF AnnouncedInOrder, Ahead, Announces, Listed
  <2>2. m \in 1..Len(out) /\ Announces(m, b) /\ Ahead(a, b)
    BY <1>6, <1>14, <2>1 DEF Announces
  <2>3. PICK l \in 1..Len(out) : l < m /\ Announces(l, a)
    BY <2>1, <2>2 DEF ViewInv, AnnouncedInOrder
  <2> QED
    BY <1>6, <2>3 DEF Announces
<1>17. FrontIsNamed'
  <2>1. SUFFICES ASSUME NEW i \in 1..Len(cmds'), status'[cmds'[i].id] = "open"
                 PROVE  queue' # <<>> /\ queue'[1] = cmds'[i].id
    BY DEF FrontIsNamed, AtTheFront, Open
  <2>2. PICK j \in 1..Len(cmds) : cmds[j].id = cmds'[i].id
    BY DEF NoNewCmds
  <2>3. cmds[j].id \in Requests /\ Open(cmds[j].id)
    BY <1>1, <1>2, <2>1, <2>2 DEF Open
  <2> QED
    BY <1>2, <2>2, <2>3 DEF ViewInv, FrontIsNamed, AtTheFront
<1>18. DownIsEmpty'
  BY <1>2 DEF DownIsEmpty, ViewInv, Open
<1> QED
  BY <1>7, <1>8, <1>9, <1>10, <1>11, <1>12, <1>13, <1>15, <1>16, <1>17, <1>18 DEF ViewInv

\* The process ends: the pipe of commands goes with it.
LEMMA EndKeepsView ==
    ASSUME IInv, ViewInv, NEW how \in {"refused", "lost"}, Gone(how), UNCHANGED requests,
           cmds' = <<>>
    PROVE  ViewInv'
<1>1. /\ status \in [Requests -> Status]
      /\ \A i \in 1..Len(out) : out[i].ev \in {"request", "close"} => out[i].id \in Requests
  BY Shapes
<1>2. /\ queue' = <<>> /\ out' = out /\ requests' = requests
      /\ \A a \in Requests : status'[a] # "open" /\ (status'[a] = "new" <=> status[a] = "new")
  BY <1>1 DEF Gone, Ended, Open
<1>3. WaitingIsKnown' /\ DownIsEmpty'
  BY <1>2 DEF WaitingIsKnown, DownIsEmpty, Open
<1>4. NewIsUnknown'
  BY <1>2 DEF ViewInv, NewIsUnknown, Listed, Announced, Announces
<1>5. AnnouncedOnce' /\ ListedOnce' /\ NotYetListed'
  BY <1>2 DEF ViewInv, AnnouncedOnce, ListedOnce, NotYetListed, Listed, Announced, Announces
<1>6. ClosesAreTrue'
  BY <1>1, <1>2 DEF ViewInv, ClosesAreTrue
<1>7. ListedInOrder' /\ AnnouncedInOrder'
  <2>1. \A i \in 1..Len(queue') : FALSE
    BY <1>2
  <2> QED
    BY <2>1 DEF ListedInOrder, AnnouncedInOrder, Ahead
<1>8. NewIsUnnamed' /\ FrontIsNamed'
  <2>1. \A i \in 1..Len(cmds') : FALSE
    OBVIOUS
  <2> QED
    BY <2>1 DEF NewIsUnnamed, FrontIsNamed
<1>9. PipesOK'
  BY DEF ViewInv, PipesOK
<1> QED
  BY <1>3, <1>4, <1>5, <1>6, <1>7, <1>8, <1>9 DEF ViewInv

\* The shell sees it is gone, or starts another.
LEMMA RestartKeepsView ==
    ASSUME IInv, ViewInv, ~up, UNCHANGED <<queue, status>>,
           \/ out = <<>> /\ out' = out /\ requests' = <<>> /\ cmds' = <<>>
           \/ out' = <<[ev |-> "ready"]>> /\ UNCHANGED <<requests, cmds>>
    PROVE  ViewInv'
<1>1. \A a \in Requests : ~Open(a)
  BY DEF ViewInv, DownIsEmpty
<1>2. \A i \in 1..Len(out') : out'[i].ev \notin {"request", "close"}
  <2>1. CASE out' = <<>>
    BY <2>1
  <2>2. CASE out' = <<[ev |-> "ready"]>>
    BY <2>2
  <2> QED
    BY <2>1, <2>2
<1>3. /\ \A i \in 1..Len(requests') : requests' = requests
      /\ \A i \in 1..Len(cmds') : cmds' = cmds
  OBVIOUS
<1>4. Len(queue) \in Nat /\ \A i \in 1..Len(queue) : FALSE
  BY <1>1, Shapes
<1>5. WaitingIsKnown' /\ DownIsEmpty'
  BY <1>1 DEF WaitingIsKnown, DownIsEmpty, Open
<1>6. NewIsUnknown'
  BY <1>2, <1>3 DEF ViewInv, NewIsUnknown, Listed, Announced, Announces
<1>7. AnnouncedOnce' /\ NotYetListed' /\ ClosesAreTrue'
  BY <1>2 DEF AnnouncedOnce, NotYetListed, ClosesAreTrue, Announced, Announces
<1>8. ListedOnce' /\ PipesOK'
  <2>1. ListedOnce'
    BY <1>3 DEF ViewInv, ListedOnce
  <2>2. <<>> \in Seq(Requests) /\ <<>> \in Seq(Command)
    OBVIOUS
  <2>3. requests' \in Seq(Requests) /\ cmds' \in Seq(Command)
    BY <2>2, Zenon DEF ViewInv, PipesOK
  <2> QED
    BY <2>1, <2>3 DEF PipesOK
<1>9. ListedInOrder' /\ AnnouncedInOrder'
  BY <1>4 DEF ListedInOrder, AnnouncedInOrder, Ahead
<1>10. NewIsUnnamed'
  BY <1>3 DEF ViewInv, NewIsUnnamed
<1>11. FrontIsNamed'
  BY <1>1, <1>3, Shapes DEF FrontIsNamed, Open
<1> QED
  BY <1>5, <1>6, <1>7, <1>8, <1>9, <1>10, <1>11 DEF ViewInv

\* The shell reads a line.
LEMMA ReadKeepsView ==
    ASSUME IInv, IInv', ViewInv, ShellReads
    PROVE  ViewInv'
<1>1. /\ queue \in Seq(Requests) /\ Len(queue) \in Nat
      /\ out \in Seq(Event) /\ Len(out) \in Nat
      /\ requests \in Seq(Requests) /\ Len(requests) \in Nat
      /\ \A i \in 1..Len(queue) : queue[i] \in Requests
      /\ \A i \in 1..Len(out) : out[i].ev \in {"request", "close"} => out[i].id \in Requests
      /\ \A i \in 1..Len(requests) : requests[i] \in Requests
      /\ \A i, j \in 1..Len(requests) : requests[i] = requests[j] => i = j
      /\ \A a \in Requests : Open(a) <=> \E i \in 1..Len(queue) : queue[i] = a
  BY Shapes DEF ViewInv, ListedOnce
<1>2. out # <<>> /\ out' = Tail(out) /\ UNCHANGED <<up, queue, status, cmds>>
  BY DEF ShellReads, Drain
<1>3. /\ Len(out) > 0 /\ 1 \in 1..Len(out) /\ Head(out) = out[1]
      /\ Len(out') = Len(out) - 1
      /\ \A i \in 1..Len(out) - 1 : out'[i] = out[i + 1]
  BY <1>1, <1>2, HeadTailProperties
\* What is in the pipe then was in it one place further back.
<1>4. /\ \A i \in 1..Len(out') : i + 1 \in 1..Len(out) /\ out'[i] = out[i + 1]
      /\ \A i \in 1..Len(out) : i = 1 \/ (i - 1 \in 1..Len(out') /\ out'[i - 1] = out[i])
  BY <1>1, <1>3
<1>5. /\ AnnouncedOnce' /\ ClosesAreTrue' /\ NewIsUnnamed' /\ FrontIsNamed' /\ DownIsEmpty'
  <2>1. AnnouncedOnce'
    <3>1. SUFFICES ASSUME NEW a \in Requests, NEW i \in 1..Len(out'), NEW j \in 1..Len(out'),
                          out'[i].ev = "request", out'[i].id = a,
                          out'[j].ev = "request", out'[j].id = a
                   PROVE  i = j
      BY DEF AnnouncedOnce, Announces
    <3>2. /\ i + 1 \in 1..Len(out) /\ j + 1 \in 1..Len(out)
          /\ Announces(i + 1, a) /\ Announces(j + 1, a)
      BY <1>4, <3>1 DEF Announces
    <3>3. i + 1 = j + 1
      BY <3>2 DEF ViewInv, AnnouncedOnce
    <3> QED
      BY <3>3
  <2>2. ClosesAreTrue'
    BY <1>2, <1>4 DEF ViewInv, ClosesAreTrue
  <2>3. NewIsUnnamed' /\ FrontIsNamed' /\ DownIsEmpty'
    BY <1>2 DEF ViewInv, NewIsUnnamed, FrontIsNamed, DownIsEmpty, Open, AtTheFront
  <2> QED
    BY <2>1, <2>2, <2>3
<1>6. \A a, b \in Requests :
         (\E j, k \in 1..Len(queue') : j < k /\ queue'[j] = a /\ queue'[k] = b)
            => Ahead(a, b) /\ Open(a) /\ Open(b)
  BY <1>1, <1>2 DEF Ahead
\* A line that adds to the list.
<1>7. CASE Head(out).ev = "request" /\ OnRequest(Head(out))
  <2> DEFINE e == out[1].id
  <2>1. e \in Requests /\ Announces(1, e) /\ ~Listed(e)
    BY <1>1, <1>3, <1>7 DEF ViewInv, NotYetListed, Announced, Announces
  <2>2. /\ requests' \in Seq(Requests) /\ Len(requests') = Len(requests) + 1
        /\ \A i \in 1..Len(requests) : requests'[i] = requests[i]
        /\ requests'[Len(requests) + 1] = e
    BY <1>1, <1>3, <1>7, <2>1, AppendProperties DEF OnRequest
  <2> HIDE DEF e
  <2>3. \A i \in 1..Len(requests) : i \in 1..Len(requests')
    BY <1>1, <2>2
  <2>4. \A i \in 1..Len(requests') : i \in 1..Len(requests) \/ i = Len(requests) + 1
    BY <1>1, <2>2
  <2>5. \A a \in Requests : Listed(a) \/ a = e => \E i \in 1..Len(requests') : requests'[i] = a
    <3>1. Len(requests) + 1 \in 1..Len(requests')
      BY <1>1, <2>2
    <3> QED
      BY <2>2, <2>3, <3>1 DEF Listed
  <2>6. \A a \in Requests : (\E i \in 1..Len(requests') : requests'[i] = a) => Listed(a) \/ a = e
    BY <2>2, <2>4 DEF Listed
  \* e is announced nowhere else.
  <2>7. \A i \in 1..Len(out) : out[i].ev = "request" /\ out[i].id = e => i = 1
    BY <1>3, <2>1 DEF ViewInv, AnnouncedOnce, Announces
  <2>8. \A i \in 1..Len(out') : out'[i].ev = "request" => out'[i].id # e /\ Announced(out'[i].id)
                                                         /\ out'[i].id \in Requests
    <3>1. ASSUME NEW i \in 1..Len(out'), out'[i].ev = "request"
          PROVE  out'[i].id # e /\ Announced(out'[i].id) /\ out'[i].id \in Requests
      <4>1. i + 1 \in 1..Len(out) /\ out'[i] = out[i + 1] /\ i + 1 # 1
        BY <1>4
      <4>2. out'[i].id # e
        BY <2>7, <3>1, <4>1
      <4> QED
        BY <1>1, <3>1, <4>1, <4>2 DEF Announced, Announces
    <3> QED
      BY <3>1
  <2>9. WaitingIsKnown'
    <3>1. SUFFICES ASSUME NEW a \in Requests, status[a] = "open",
                          ~\E i \in 1..Len(requests') : requests'[i] = a
                   PROVE  \E i \in 1..Len(out') : out'[i].ev = "request" /\ out'[i].id = a
      BY <1>2 DEF WaitingIsKnown, Open, Listed, Announced, Announces
    <3>2. ~Listed(a) /\ a # e
      BY <2>5, <3>1
    <3>3. PICK i \in 1..Len(out) : Announces(i, a)
      BY <3>1, <3>2 DEF ViewInv, WaitingIsKnown, Open, Announced
    <3>4. i # 1
      BY <2>1, <3>2, <3>3 DEF Announces
    <3> QED
      BY <1>4, <3>3, <3>4 DEF Announces
  <2>10. NewIsUnknown'
    <3>1. SUFFICES ASSUME NEW a \in Requests, status[a] = "new"
                   PROVE  /\ ~\E i \in 1..Len(requests') : requests'[i] = a
                          /\ ~\E i \in 1..Len(out') : out'[i].ev = "request" /\ out'[i].id = a
      BY <1>2 DEF NewIsUnknown, Listed, Announced, Announces
    <3>2. ~Listed(a) /\ ~Announced(a)
      BY <3>1 DEF ViewInv, NewIsUnknown
    <3>3. a # e
      BY <1>3, <2>1, <3>2 DEF Announced
    <3>4. ~\E i \in 1..Len(requests') : requests'[i] = a
      BY <2>6, <3>2, <3>3
    <3>5. ~\E i \in 1..Len(out') : out'[i].ev = "request" /\ out'[i].id = a
      BY <2>8, <3>2
    <3> QED
      BY <3>4, <3>5
  <2>11. ListedOnce'
    <3>1. SUFFICES ASSUME NEW i \in 1..Len(requests'), NEW j \in 1..Len(requests'),
                          requests'[i] = requests'[j]
                   PROVE  i = j
      BY DEF ListedOnce
    <3>2. \A k \in 1..Len(requests) : requests[k] # e
      BY <2>1 DEF Listed
    <3>3. CASE i = Len(requests) + 1 \/ j = Len(requests) + 1
      BY <1>1, <2>2, <2>4, <3>1, <3>2, <3>3
    <3>4. CASE i \in 1..Len(requests) /\ j \in 1..Len(requests)
      BY <2>2, <3>1, <3>4 DEF ViewInv, ListedOnce
    <3> QED
      BY <1>1, <2>4, <3>3, <3>4
  <2>12. NotYetListed'
    <3>1. SUFFICES ASSUME NEW i \in 1..Len(out'), out'[i].ev = "request"
                   PROVE  ~\E j \in 1..Len(requests') : requests'[j] = out'[i].id
      BY DEF NotYetListed, Announced, Announces, Listed
    <3>2. out'[i].id # e /\ Announced(out'[i].id) /\ out'[i].id \in Requests
      BY <2>8, <3>1
    <3>3. ~Listed(out'[i].id)
      BY <3>2 DEF ViewInv, NotYetListed
    <3> QED
      BY <2>6, <3>2, <3>3
  <2>13. ListedInOrder'
    <3>1. SUFFICES ASSUME NEW a \in Requests, NEW b \in Requests,
                          \E j, k \in 1..Len(queue') : j < k /\ queue'[j] = a /\ queue'[k] = b,
                          NEW m \in 1..Len(requests'), requests'[m] = b
                   PROVE  \E l \in 1..Len(requests') : l < m /\ requests'[l] = a
      BY DEF ListedInOrder, Ahead
    <3>2. Ahead(a, b)
      BY <1>6, <3>1
    <3>3. \E l \in 1..Len(requests) : l < m /\ requests[l] = a
      <4>1. CASE m \in 1..Len(requests)
        BY <2>2, <3>1, <3>2, <4>1 DEF ViewInv, ListedInOrder
      <4>2. CASE m = Len(requests) + 1
        <5>1. Announces(1, b)
          BY <2>1, <2>2, <3>1, <4>2
        <5>2. ~\E l \in 1..Len(out) : l < 1
          BY <1>1
        <5>3. Listed(a)
          BY <1>3, <3>2, <5>1, <5>2 DEF ViewInv, AnnouncedInOrder
        <5> QED
          BY <1>1, <4>2, <5>3 DEF Listed
      <4> QED
        BY <2>4, <4>1, <4>2
    <3> QED
      BY <2>2, <2>3, <3>3
  <2>14. AnnouncedInOrder'
    <3>1. SUFFICES ASSUME NEW a \in Requests, NEW b \in Requests,
                          \E j, k \in 1..Len(queue') : j < k /\ queue'[j] = a /\ queue'[k] = b,
                          NEW m \in 1..Len(out'), out'[m].ev = "request", out'[m].id = b,
                          ~\E i \in 1..Len(requests') : requests'[i] = a
                   PROVE  \E l \in 1..Len(out') :
                             l < m /\ out'[l].ev = "request" /\ out'[l].id = a
      BY DEF AnnouncedInOrder, Ahead, Announces, Listed
    <3>2. Ahead(a, b) /\ ~Listed(a) /\ a # e
      BY <1>6, <2>5, <3>1
    <3>3. m + 1 \in 1..Len(out) /\ Announces(m + 1, b)
      BY <1>4, <3>1 DEF Announces
    <3>4. PICK l \in 1..Len(out) : l < m + 1 /\ Announces(l, a)
      BY <3>2, <3>3 DEF ViewInv, AnnouncedInOrder
    <3>5. l # 1
      BY <2>1, <3>2, <3>4 DEF Announces
    <3>6. l - 1 \in 1..Len(out') /\ out'[l - 1] = out[l] /\ l - 1 < m
      BY <1>4, <3>4, <3>5
    <3> QED
      BY <3>4, <3>6 DEF Announces
  <2>15. PipesOK'
    BY <1>2, <2>2 DEF ViewInv, PipesOK
  <2> QED
    BY <1>5, <2>9, <2>10, <2>11, <2>12, <2>13, <2>14, <2>15 DEF ViewInv
\* A line that takes from it, if it is there, what is over, or leaves it.
<1>8. CASE /\ Head(out).ev # "request"
           /\ \/ requests' = requests
              \/ /\ Head(out).ev = "close"
                 /\ requests' = RemoveFirst(requests, Head(out).id)
  <2>1. /\ requests' \in Seq(Requests)
        /\ \A i \in 1..Len(requests') : \E j \in 1..Len(requests) : requests'[i] = requests[j]
        /\ \A a \in Requests : Listed(a) /\ status[a] \in {"new", "open"} =>
              \E i \in 1..Len(requests') : requests'[i] = a
        /\ \A i, j \in 1..Len(requests') : requests'[i] = requests'[j] => i = j
        /\ \A a, b \in Requests : \A m \in 1..Len(requests') :
              /\ status[a] = "open" /\ status[b] = "open" /\ requests'[m] = b
              /\ Ahead(a, b)
              => \E l \in 1..Len(requests') : l < m /\ requests'[l] = a
    <3>1. CASE requests' = requests
      BY <1>1, <3>1 DEF ViewInv, ListedInOrder, Listed
    <3>2. CASE Head(out).ev = "close" /\ requests' = RemoveFirst(requests, Head(out).id)
      <4> DEFINE e == Head(out).id
      <4>1. e \in Requests /\ status[e] \notin {"new", "open"}
        BY <1>1, <1>3, <3>2 DEF ViewInv, ClosesAreTrue
      <4>2. requests' = RemoveFirst(requests, e)
        BY <3>2
      <4> HIDE DEF e
      <4>3. CASE ~\E i \in 1..Len(requests) : requests[i] = e
        <5>1. requests' = requests
          BY <4>2, <4>3 DEF RemoveFirst
        <5> QED
          BY <3>1, <5>1
      <4>4. ASSUME NEW n \in 1..Len(requests), requests[n] = e
            PROVE  /\ requests' \in Seq(Requests)
                   /\ Len(requests') = Len(requests) - 1
                   /\ \A i \in 1..Len(requests) - 1 :
                         requests'[i] = IF i < n THEN requests[i] ELSE requests[i + 1]
        BY <1>1, <4>2, <4>4, RemoveFirstShifts
      <4>5. ASSUME NEW n \in 1..Len(requests), requests[n] = e
            PROVE  /\ \A i \in 1..Len(requests') : \E j \in 1..Len(requests) : requests'[i] = requests[j]
                   /\ \A j \in 1..Len(requests) : j < n =>
                         j \in 1..Len(requests') /\ requests'[j] = requests[j]
                   /\ \A j \in 1..Len(requests) : j > n =>
                         j - 1 \in 1..Len(requests') /\ requests'[j - 1] = requests[j]
                   /\ \A i \in 1..Len(requests') :
                         \/ i < n /\ i \in 1..Len(requests) /\ requests'[i] = requests[i]
                         \/ i >= n /\ i + 1 \in 1..Len(requests) /\ requests'[i] = requests[i + 1]
        <5>1. /\ Len(requests') = Len(requests) - 1
              /\ \A i \in 1..Len(requests) - 1 :
                    requests'[i] = IF i < n THEN requests[i] ELSE requests[i + 1]
          BY <4>4, <4>5
        <5>2. ASSUME NEW i \in 1..Len(requests')
              PROVE  \/ i < n /\ i \in 1..Len(requests) /\ requests'[i] = requests[i]
                     \/ i >= n /\ i + 1 \in 1..Len(requests) /\ requests'[i] = requests[i + 1]
          BY <1>1, <5>1
        <5>3. ASSUME NEW j \in 1..Len(requests), j < n
              PROVE  j \in 1..Len(requests') /\ requests'[j] = requests[j]
          BY <1>1, <5>1, <5>3
        <5>4. ASSUME NEW j \in 1..Len(requests), j > n
              PROVE  j - 1 \in 1..Len(requests') /\ requests'[j - 1] = requests[j]
          <6>1. j - 1 \in 1..Len(requests) - 1 /\ ~(j - 1 < n) /\ (j - 1) + 1 = j
            BY <1>1, <5>4
          <6> QED
            BY <5>1, <6>1
        <5> QED
          BY <5>2, <5>3, <5>4
      <4>6. ASSUME NEW n \in 1..Len(requests), requests[n] = e
            PROVE  \A a \in Requests : Listed(a) /\ a # e =>
                      \E i \in 1..Len(requests') : requests'[i] = a
        <5>1. SUFFICES ASSUME NEW a \in Requests, a # e, NEW j \in 1..Len(requests), requests[j] = a
                       PROVE  \E i \in 1..Len(requests') : requests'[i] = a
          BY DEF Listed
        <5>2. j # n
          BY <4>6, <5>1
        <5>3. j < n \/ j > n
          BY <1>1, <5>2
        <5> QED
          BY <4>5, <4>6, <5>1, <5>3
      <4>7. ASSUME NEW n \in 1..Len(requests), requests[n] = e
            PROVE  \A i, j \in 1..Len(requests') : requests'[i] = requests'[j] => i = j
        <5>1. SUFFICES ASSUME NEW i \in 1..Len(requests'), NEW j \in 1..Len(requests'),
                              requests'[i] = requests'[j]
                       PROVE  i = j
          OBVIOUS
        <5>2. \/ i < n /\ i \in 1..Len(requests) /\ requests'[i] = requests[i]
              \/ i >= n /\ i + 1 \in 1..Len(requests) /\ requests'[i] = requests[i + 1]
          BY <4>5, <4>7
        <5>3. \/ j < n /\ j \in 1..Len(requests) /\ requests'[j] = requests[j]
              \/ j >= n /\ j + 1 \in 1..Len(requests) /\ requests'[j] = requests[j + 1]
          BY <4>5, <4>7
        <5>4. i \in Int /\ j \in Int /\ n \in Int
          BY <1>1, <4>4, <4>7
        <5>5. CASE i < n /\ j < n
          BY <1>1, <5>1, <5>2, <5>3, <5>4, <5>5
        <5>6. CASE i >= n /\ j >= n
          <6>1. i + 1 = j + 1
            BY <1>1, <5>1, <5>2, <5>3, <5>4, <5>6
          <6> QED
            BY <5>4, <6>1
        <5>7. CASE i < n /\ j >= n
          <6>1. i = j + 1
            BY <1>1, <5>1, <5>2, <5>3, <5>4, <5>7
          <6> QED
            BY <5>4, <5>7, <6>1
        <5>8. CASE i >= n /\ j < n
          <6>1. i + 1 = j
            BY <1>1, <5>1, <5>2, <5>3, <5>4, <5>8
          <6> QED
            BY <5>4, <5>8, <6>1
        <5> QED
          BY <5>4, <5>5, <5>6, <5>7, <5>8
      <4>8. ASSUME NEW n \in 1..Len(requests), requests[n] = e,
                   NEW a \in Requests, NEW b \in Requests, NEW m \in 1..Len(requests'),
                   a # e, requests'[m] = b, Ahead(a, b)
            PROVE  \E l \in 1..Len(requests') : l < m /\ requests'[l] = a
        <5>1. PICK k \in 1..Len(requests) :
                 requests[k] = b /\ ((k < n /\ m = k) \/ (k > n /\ m = k - 1))
          <6>1. \/ m < n /\ m \in 1..Len(requests) /\ requests'[m] = requests[m]
                \/ m >= n /\ m + 1 \in 1..Len(requests) /\ requests'[m] = requests[m + 1]
            BY <4>5, <4>8
          <6>2. CASE m < n /\ m \in 1..Len(requests) /\ requests'[m] = requests[m]
            BY <4>8, <6>2
          <6>3. CASE m >= n /\ m + 1 \in 1..Len(requests) /\ requests'[m] = requests[m + 1]
            <7> DEFINE k == m + 1
            <7>1. k > n /\ m = k - 1
              BY <1>1, <4>4, <4>8, <6>3
            <7>2. k \in 1..Len(requests) /\ requests[k] = b
              BY <4>8, <6>3
            <7> HIDE DEF k
            <7> QED
              BY <7>1, <7>2
          <6> QED
            BY <6>1, <6>2, <6>3
        <5>2. PICK l \in 1..Len(requests) : l < k /\ requests[l] = a
          BY <4>8, <5>1 DEF ViewInv, ListedInOrder
        <5>3. l # n
          BY <4>8, <5>2
        <5>4. CASE l < n
          <6>1. l < m
            BY <5>1, <5>2, <5>4
          <6> QED
            BY <4>5, <4>8, <5>2, <5>4, <6>1
        <5>5. CASE l > n
          <6>1. l - 1 < m
            BY <5>1, <5>2, <5>5
          <6> QED
            BY <4>5, <4>8, <5>2, <5>5, <6>1
        <5> QED
          BY <5>3, <5>4, <5>5
      <4>9. \A a \in Requests : status[a] \in {"new", "open"} => a # e
        BY <4>1
      <4>10. CASE \E n \in 1..Len(requests) : requests[n] = e
        <5>1. PICK n \in 1..Len(requests) : requests[n] = e
          BY <4>10
        <5> QED
          BY <4>4, <4>5, <4>6, <4>7, <4>8, <4>9, <5>1
      <4> QED
        BY <4>3, <4>10
    <3> QED
      BY <1>8, <3>1, <3>2
  <2>2. \A a \in Requests : (\E i \in 1..Len(requests') : requests'[i] = a) => Listed(a)
    BY <2>1 DEF Listed
  <2>3. \A i \in 1..Len(out) : out[i].ev = "request" => i # 1
    BY <1>3, <1>8
  <2>4. \A i \in 1..Len(out') : out'[i].ev = "request" =>
           Announced(out'[i].id) /\ out'[i].id \in Requests
    BY <1>1, <1>4 DEF Announced, Announces
  <2>5. WaitingIsKnown'
    <3>1. SUFFICES ASSUME NEW a \in Requests, status[a] = "open",
                          ~\E i \in 1..Len(requests') : requests'[i] = a
                   PROVE  \E i \in 1..Len(out') : out'[i].ev = "request" /\ out'[i].id = a
      BY <1>2 DEF WaitingIsKnown, Open, Listed, Announced, Announces
    <3>2. PICK i \in 1..Len(out) : Announces(i, a)
      BY <2>1, <3>1 DEF ViewInv, WaitingIsKnown, Open, Announced
    <3> QED
      BY <1>4, <2>3, <3>2 DEF Announces
  <2>6. NewIsUnknown'
    <3>1. SUFFICES ASSUME NEW a \in Requests, status[a] = "new"
                   PROVE  /\ ~\E i \in 1..Len(requests') : requests'[i] = a
                          /\ ~\E i \in 1..Len(out') : out'[i].ev = "request" /\ out'[i].id = a
      BY <1>2 DEF NewIsUnknown, Listed, Announced, Announces
    <3> QED
      BY <2>2, <2>4, <3>1 DEF ViewInv, NewIsUnknown
  <2>7. ListedOnce' /\ PipesOK'
    BY <1>2, <2>1 DEF ViewInv, ListedOnce, PipesOK
  <2>8. NotYetListed'
    <3>1. SUFFICES ASSUME NEW i \in 1..Len(out'), out'[i].ev = "request"
                   PROVE  ~\E j \in 1..Len(requests') : requests'[j] = out'[i].id
      BY DEF NotYetListed, Announced, Announces, Listed
    <3> QED
      BY <2>2, <2>4, <3>1 DEF ViewInv, NotYetListed
  <2>9. ListedInOrder'
    <3>1. SUFFICES ASSUME NEW a \in Requests, NEW b \in Requests,
                          \E j, k \in 1..Len(queue') : j < k /\ queue'[j] = a /\ queue'[k] = b,
                          NEW m \in 1..Len(requests'), requests'[m] = b
                   PROVE  \E l \in 1..Len(requests') : l < m /\ requests'[l] = a
      BY DEF ListedInOrder, Ahead
    <3> QED
      BY <1>6, <2>1, <3>1 DEF Open
  <2>10. AnnouncedInOrder'
    <3>1. SUFFICES ASSUME NEW a \in Requests, NEW b \in Requests,
                          \E j, k \in 1..Len(queue') : j < k /\ queue'[j] = a /\ queue'[k] = b,
                          NEW m \in 1..Len(out'), out'[m].ev = "request", out'[m].id = b,
                          ~\E i \in 1..Len(requests') : requests'[i] = a
                   PROVE  \E l \in 1..Len(out') :
                             l < m /\ out'[l].ev = "request" /\ out'[l].id = a
      BY DEF AnnouncedInOrder, Ahead, Announces, Listed
    <3>2. Ahead(a, b) /\ ~Listed(a)
      BY <1>6, <2>1, <3>1 DEF Open
    <3>3. m + 1 \in 1..Len(out) /\ Announces(m + 1, b)
      BY <1>4, <3>1 DEF Announces
    <3>4. PICK l \in 1..Len(out) : l < m + 1 /\ Announces(l, a)
      BY <3>2, <3>3 DEF ViewInv, AnnouncedInOrder
    <3>5. l # 1
      BY <2>3, <3>4 DEF Announces
    <3>6. l - 1 \in 1..Len(out') /\ out'[l - 1] = out[l] /\ l - 1 < m
      BY <1>4, <3>4, <3>5
    <3> QED
      BY <3>4, <3>6 DEF Announces
  <2> QED
    BY <1>5, <2>5, <2>6, <2>7, <2>8, <2>9, <2>10 DEF ViewInv
<1>9. \/ Head(out).ev = "request" /\ OnRequest(Head(out))
      \/ /\ Head(out).ev # "request"
         /\ \/ requests' = requests
            \/ /\ Head(out).ev = "close"
               /\ requests' = RemoveFirst(requests, Head(out).id)
  BY DEF ShellReads, OnEvent, OnActive, OnPrompt, OnFactor, OnFailed, OnClose, shellVars
<1> QED
  BY <1>7, <1>8, <1>9

\* A line written to the daemon names the request at the front of the list,
\* which, if it is still open, is the one at the front of the queue.
LEMMA SendKeepsView ==
    ASSUME IInv, ViewInv, UNCHANGED <<up, queue, status, out, requests>>, Active,
           NEW name \in {"respond", "cancel"}, NEW fresh \in BOOLEAN, Send(name, fresh)
    PROVE  ViewInv'
<1>1. /\ queue \in Seq(Requests) /\ Len(queue) \in Nat
      /\ requests \in Seq(Requests) /\ Len(requests) \in Nat
      /\ cmds \in Seq(Command) /\ Len(cmds) \in Nat
      /\ \A i \in 1..Len(queue) : queue[i] \in Requests
      /\ \A a \in Requests : Open(a) <=> \E i \in 1..Len(queue) : queue[i] = a
  BY Shapes
<1>2. 1 \in 1..Len(requests) /\ Current \in Requests /\ Listed(Current)
  BY <1>1 DEF Active, Current, Listed
<1>3. status[Current] # "new"
  BY <1>2 DEF ViewInv, NewIsUnknown
<1>4. Open(Current) => AtTheFront(Current)
  <2>1. SUFFICES ASSUME Open(Current) PROVE AtTheFront(Current)
    OBVIOUS
  <2>2. PICK k \in 1..Len(queue) : queue[k] = Current
    BY <1>1, <1>2, <2>1
  <2>3. 1 \in 1..Len(queue) /\ queue # <<>>
    BY <1>1, <2>2
  <2>4. CASE k > 1
    <3>1. Ahead(queue[1], Current)
      BY <2>2, <2>3, <2>4 DEF Ahead
    <3>2. PICK l \in 1..Len(requests) : l < 1 /\ requests[l] = queue[1]
      BY <1>1, <1>2, <2>3, <3>1 DEF ViewInv, ListedInOrder, Current
    <3> QED
      BY <1>1, <3>2
  <2>5. CASE k = 1
    BY <2>2, <2>3, <2>5 DEF AtTheFront
  <2> QED
    BY <1>1, <2>4, <2>5
<1>5. /\ cmds' \in Seq(Command)
      /\ \A i \in 1..Len(cmds') : \/ i \in 1..Len(cmds) /\ cmds'[i] = cmds[i]
                                  \/ cmds'[i].id = Current
  <2>1. CASE cmds' = cmds
    BY <1>1, <2>1
  <2>2. CASE cmds' = Append(cmds, [cmd |-> name, id |-> Current, fresh |-> fresh])
    <3> DEFINE c == [cmd |-> name, id |-> Current, fresh |-> fresh]
    <3>1. c \in Command /\ c.id = Current
      <4>1. c \in [cmd : {"respond", "cancel"}, id : Requests, fresh : BOOLEAN]
        BY <1>2, Zenon
      <4> QED
        BY <4>1 DEF Command
    <3>2. cmds' = Append(cmds, c)
      BY <2>2
    <3> HIDE DEF c
    <3>3. /\ cmds' \in Seq(Command) /\ Len(cmds') = Len(cmds) + 1
          /\ \A i \in 1..Len(cmds) : cmds'[i] = cmds[i]
          /\ cmds'[Len(cmds) + 1] = c
      BY <1>1, <3>1, <3>2, AppendProperties
    <3>4. \A i \in 1..Len(cmds') : i \in 1..Len(cmds) \/ i = Len(cmds) + 1
      BY <1>1, <3>3
    <3> QED
      BY <3>1, <3>3, <3>4
  <2> QED
    BY <2>1, <2>2 DEF Send
<1>6. NewIsUnnamed'
  BY <1>3, <1>5 DEF ViewInv, NewIsUnnamed
<1>7. FrontIsNamed'
  BY <1>4, <1>5 DEF ViewInv, FrontIsNamed, Open, AtTheFront
<1>8. PipesOK'
  BY <1>1, <1>5 DEF PipesOK
<1>9. /\ WaitingIsKnown' /\ NewIsUnknown' /\ AnnouncedOnce' /\ ListedOnce'
      /\ NotYetListed' /\ ClosesAreTrue' /\ ListedInOrder' /\ AnnouncedInOrder'
      /\ DownIsEmpty'
  BY DEF ViewInv, WaitingIsKnown, NewIsUnknown, AnnouncedOnce, ListedOnce, NotYetListed,
         ClosesAreTrue, ListedInOrder, AnnouncedInOrder, DownIsEmpty, Open, Listed,
         Announced, Announces, Ahead
<1> QED
  BY <1>6, <1>7, <1>8, <1>9 DEF ViewInv

\* The pipe of commands as PAM's next question leaves it: the same commands.
LEMMA Unfreshened ==
    ASSUME IInv, ViewInv, NEW r \in Requests,
           cmds' = [i \in DOMAIN cmds |->
                       IF cmds[i].id = r THEN [cmds[i] EXCEPT !.fresh = FALSE]
                                         ELSE cmds[i]]
    PROVE  NoNewCmds
<1>1. cmds \in Seq(Command) /\ Len(cmds) \in Nat /\ DOMAIN cmds = 1..Len(cmds)
  BY Shapes
<1>2. ASSUME NEW c \in Command
      PROVE  [c EXCEPT !.fresh = FALSE] \in Command /\ [c EXCEPT !.fresh = FALSE].id = c.id
  <2>1. [c EXCEPT !.fresh = FALSE] \in Command
    BY DEF Command
  <2>2. [c EXCEPT !.fresh = FALSE].id = c.id
    BY DEF Command
  <2> QED
    BY <2>1, <2>2
<1>3. \A i \in 1..Len(cmds) : cmds[i] \in Command
  BY <1>1
<1>4. \A i \in 1..Len(cmds) : cmds'[i] \in Command /\ cmds'[i].id = cmds[i].id
  BY <1>1, <1>2, <1>3
<1>5. cmds' \in Seq(Command) /\ Len(cmds') = Len(cmds)
  <2>1. cmds' = [i \in 1..Len(cmds) |-> cmds'[i]]
    BY <1>1
  <2>2. [i \in 1..Len(cmds) |-> cmds'[i]] \in Seq(Command)
    BY <1>1, <1>4
  <2>3. cmds' \in Seq(Command)
    BY <2>1, <2>2, Zenon
  <2>4. DOMAIN cmds' = 1..Len(cmds)
    BY <1>1
  <2> QED
    BY <1>1, <2>3, <2>4, LenProperties
<1> QED
  BY <1>4, <1>5 DEF NoNewCmds

\* A command that is taken out of the pipe,
LEMMA FewerCmds ==
    ASSUME IInv, ViewInv, cmds # <<>>, cmds' = Tail(cmds)
    PROVE  NoNewCmds
<1>1. cmds \in Seq(Command) /\ Len(cmds) \in Nat
  BY Shapes
<1>2. /\ Tail(cmds) \in Seq(Command) /\ Len(Tail(cmds)) = Len(cmds) - 1
      /\ \A i \in 1..Len(Tail(cmds)) : Tail(cmds)[i] = cmds[i + 1]
  BY <1>1, HeadTailProperties
<1>3. \A i \in 1..Len(cmds') : i + 1 \in 1..Len(cmds) /\ cmds'[i] = cmds[i + 1]
  BY <1>1, <1>2
<1> QED
  BY <1>2, <1>3 DEF NoNewCmds

\* or none, adds no command.
LEMMA SameCmds == ASSUME IInv, ViewInv, UNCHANGED cmds PROVE NoNewCmds
BY Shapes DEF NoNewCmds

-----------------------------------------------------------------------------
(* The joined system implements PromptQueue.                                *)

\* What the step of a request or of the daemon is to the queue.
Moves(r) ==
    \/ Talks
    \/ Turned(r)
    \/ Arrives(r)
    \/ Closes(r, "refused")
    \/ Closes(r, "granted") /\ AtTheFront(r)

\* Whatever the daemon does about a request, the shell's list and the commands
\* under way stay true of the queue.
LEMMA MoveKeepsView ==
    ASSUME IInv, IInv', ViewInv, NEW r \in Requests, Moves(r),
           UNCHANGED requests, NoNewCmds
    PROVE  ViewInv'
<1>0. status \in [Requests -> Status]
  BY DEF IInv, TypeOK
<1>1. CASE Talks
  <2>1. /\ UNCHANGED <<up, queue>> /\ SaysNothing
        /\ \A a \in Requests :
                 status'[a] = status[a] \/ (status[a] = "new" /\ status'[a] = "refused")
    BY <1>1 DEF Talks
  <2> QED
    BY <2>1, TalkKeepsView
<1>2. CASE Turned(r)
  <2>1. SaysNothing
    <3>1. out \in Seq(Event)
      BY DEF IInv, TypeOK
    <3> QED
      BY <1>2, <3>1 DEF Turned, SaysNothing
  <2>2. \A a \in Requests :
                 status'[a] = status[a] \/ (status[a] = "new" /\ status'[a] = "refused")
    BY <1>0, <1>2 DEF Turned
  <2> QED
    BY <1>2, <2>1, <2>2, TalkKeepsView DEF Turned
<1>3. CASE Arrives(r)
  BY <1>3, ArrivalKeeps
<1>4. CASE Closes(r, "refused") \/ Closes(r, "granted")
  BY <1>4, ClosingKeeps
<1> QED
  BY <1>1, <1>2, <1>3, <1>4 DEF Moves

\* Every step of the joined system is a move, or one that leaves the queue and
\* the verdicts alone, or the end of the process.
Still == UNCHANGED <<queue, status>>

\* Each step of the joined system keeps ViewInv and is, for PromptQueue, a
\* stutter, a crash, or one request that moves.
LEMMA SysStepIs ==
    ASSUME IInv, IInv', ViewInv, [SysNext]_sysVars
    PROVE  /\ ViewInv'
           /\ Still \/ Crash \/ \E r \in Requests : Moves(r)
<1>1. CASE \E r \in Requests : CallerActs(r)
  <2>1. PICK r \in Requests : CallerActs(r)
    BY <1>1
  <2>2. Moves(r)
    BY <2>1, CallerIs DEF CallerActs, Moves
  <2>3. UNCHANGED requests /\ UNCHANGED cmds
    BY <2>1, Zenon DEF CallerActs, shellVars
  <2> QED
    BY <2>2, <2>3, SameCmds, MoveKeepsView
<1>2. CASE \E r \in Requests : PamAsks(r)
  <2>1. PICK r \in Requests : PamAsks(r)
    BY <1>2
  <2>2. Pam(r)
    BY <2>1, Zenon DEF PamAsks, Pam
  <2>3. Moves(r)
    BY <2>2, PamIs DEF Moves
  <2>4. UNCHANGED requests /\ NoNewCmds
    BY <2>1, Unfreshened DEF PamAsks, shellVars
  <2> QED
    BY <2>3, <2>4, MoveKeepsView
<1>3. CASE \E r \in Requests : PamElse(r)
  <2>1. PICK r \in Requests : PamElse(r)
    BY <1>3
  <2>2. Pam(r)
    BY <2>1, Zenon DEF PamElse, Pam
  <2>3. Moves(r)
    BY <2>2, PamIs DEF Moves
  <2>4. UNCHANGED requests /\ UNCHANGED cmds
    BY <2>1, Zenon DEF PamElse, shellVars
  <2> QED
    BY <2>3, <2>4, SameCmds, MoveKeepsView
<1>4. CASE DaemonReads
  <2>1. cmds # <<>> /\ cmds' = Tail(cmds) /\ UNCHANGED requests
    BY <1>4, Zenon DEF DaemonReads, shellVars
  <2>2. NoNewCmds
    BY <2>1, FewerCmds
  <2>3. 1 \in 1..Len(cmds) /\ Head(cmds) = cmds[1] /\ cmds[1].id \in Requests
    <3>1. cmds \in Seq(Command) /\ \A i \in 1..Len(cmds) : cmds[i].id \in Requests
      BY Shapes
    <3>2. 1 \in 1..Len(cmds)
      BY <2>1, <3>1
    <3> QED
      BY <2>1, <3>1, <3>2
  <2>4. Dispatch(cmds[1])
    BY <1>4, <2>3 DEF DaemonReads
  <2>5. CASE UNCHANGED vars
    <3>1. UNCHANGED <<up, queue, status>> /\ UNCHANGED out
      BY <2>5, Zenon DEF vars
    <3>2. SaysNothing
      <4>1. out \in Seq(Event)
        BY DEF IInv, TypeOK
      <4> QED
        BY <3>1, <4>1 DEF SaysNothing
    <3>3. Moves(cmds[1].id)
      BY <3>1, <3>2 DEF Moves, Talks
    <3> QED
      BY <2>1, <2>2, <2>3, <3>3, MoveKeepsView
  <2>6. CASE Handle(cmds[1].id, cmds[1].cmd)
    <3>1. \/ Talks
          \/ Closes(cmds[1].id, "refused")
          \/ Closes(cmds[1].id, "granted")
      BY <2>3, <2>6, HandleIs
    <3>2. Open(cmds[1].id) => AtTheFront(cmds[1].id)
      BY <2>3 DEF ViewInv, FrontIsNamed
    <3>3. Moves(cmds[1].id)
      BY <3>1, <3>2 DEF Moves, Closes
    <3> QED
      BY <2>1, <2>2, <2>3, <3>3, MoveKeepsView
  <2> QED
    BY <2>4, <2>5, <2>6, Zenon DEF Dispatch
<1>5. CASE ShellReads
  <2>1. Still
    BY <1>5 DEF ShellReads, Drain, Still
  <2> QED
    BY <1>5, <2>1, ReadKeepsView
<1>6. CASE Submit
  <2>1. /\ UNCHANGED <<up, queue, status, out, requests>> /\ Active
        /\ Send("respond", promptFor = {Current} /\ ~PromptOnItsWay(Current))
    BY <1>6, Zenon DEF Submit, vars
  <2>2. (promptFor = {Current} /\ ~PromptOnItsWay(Current)) \in BOOLEAN
    BY Zenon
  <2> QED
    BY <2>1, <2>2, SendKeepsView DEF Still
<1>7. CASE CancelPrompt
  <2>1. /\ UNCHANGED <<up, queue, status, out, requests>> /\ Active
        /\ Send("cancel", TRUE)
    BY <1>7, Zenon DEF CancelPrompt, vars, shellVars
  <2> QED
    BY <2>1, SendKeepsView DEF Still
<1>8. CASE DaemonDies
  <2>1. Crash /\ cmds' = <<>> /\ UNCHANGED requests
    BY <1>8, Zenon DEF DaemonDies, shellVars
  <2> QED
    BY <2>1, EndKeepsView DEF Crash
<1>9. CASE OnExited
  <2>1. /\ ~up /\ out = <<>> /\ out' = out /\ requests' = <<>> /\ cmds' = <<>>
        /\ UNCHANGED <<queue, status>>
    BY <1>9, Zenon DEF OnExited, vars
  <2> QED
    BY <2>1, RestartKeepsView DEF Still
<1>10. CASE Restart
  <2>1. /\ ~up /\ out' = <<[ev |-> "ready"]>> /\ UNCHANGED <<requests, cmds>>
        /\ UNCHANGED <<queue, status>>
    BY <1>10, Zenon DEF Restart, Start, shellVars
  <2> QED
    BY <2>1, RestartKeepsView DEF Still
<1>11. CASE UNCHANGED sysVars
  <2>1. UNCHANGED <<up, queue, status, out, requests, cmds>>
    BY <1>11, Zenon DEF sysVars, vars, shellVars
  <2>2. SaysNothing
    <3>1. out \in Seq(Event)
      BY DEF IInv, TypeOK
    <3> QED
      BY <2>1, <3>1 DEF SaysNothing
  <2>3. \A a \in Requests :
                 status'[a] = status[a] \/ (status[a] = "new" /\ status'[a] = "refused")
    BY <2>1
  <2> QED
    BY <2>1, <2>2, <2>3, SameCmds, TalkKeepsView DEF Still
<1> QED
  BY <1>1, <1>2, <1>3, <1>4, <1>5, <1>6, <1>7, <1>8, <1>9, <1>10, <1>11, Zenon DEF SysNext

\* At the start all pipes are empty.
LEMMA ViewStarts == SysInit => IInv /\ ViewInv
<1> SUFFICES ASSUME SysInit PROVE IInv /\ ViewInv
  OBVIOUS
<1>1. IInv
  BY InitHolds DEF SysInit
<1>2. /\ queue = <<>> /\ requests = <<>> /\ cmds = <<>> /\ up
      /\ out = <<[ev |-> "ready"]>> /\ \A a \in Requests : status[a] = "new"
  BY DEF SysInit, Init
<1>3. /\ \A i \in 1..Len(out) : out[i].ev \notin {"request", "close"}
      /\ \A i \in 1..Len(requests) : FALSE
      /\ \A i \in 1..Len(cmds) : FALSE
      /\ \A i \in 1..Len(queue) : FALSE
  BY <1>2
<1>4. WaitingIsKnown /\ DownIsEmpty
  BY <1>2 DEF WaitingIsKnown, DownIsEmpty, Open
<1>5. NewIsUnknown /\ AnnouncedOnce /\ NotYetListed /\ ClosesAreTrue /\ ListedOnce
  BY <1>3 DEF NewIsUnknown, AnnouncedOnce, NotYetListed, ClosesAreTrue, ListedOnce,
              Listed, Announced, Announces
<1>6. ListedInOrder /\ AnnouncedInOrder
  BY <1>3 DEF ListedInOrder, AnnouncedInOrder, Ahead
<1>7. NewIsUnnamed /\ FrontIsNamed
  BY <1>3 DEF NewIsUnnamed, FrontIsNamed
<1>8. PipesOK
  <2>1. <<>> \in Seq(Requests) /\ <<>> \in Seq(Command)
    OBVIOUS
  <2> QED
    BY <1>2, <2>1, Zenon DEF PipesOK
<1> QED
  BY <1>1, <1>4, <1>5, <1>6, <1>7, <1>8 DEF ViewInv

\* The invariants of the daemon and of the view hold in the joined system.
LEMMA SysInvariance == SysSpec => [](IInv /\ ViewInv)
<1>1. IInv /\ ViewInv /\ [SysNext]_sysVars => (IInv /\ ViewInv)'
  <2> SUFFICES ASSUME IInv, ViewInv, [SysNext]_sysVars PROVE IInv' /\ ViewInv'
    OBVIOUS
  <2>1. IInv'
    BY SysStepIsDaemonStep, StepKeeps
  <2> QED
    BY <2>1, SysStepIs
<1> QED
  BY <1>1, ViewStarts, PTL DEF SysSpec

\* A move of one request is a step of the abstract queue.
LEMMA MoveIsPromised ==
    ASSUME IInv, NEW r \in Requests, Moves(r)
    PROVE  [Promise!PQNext]_(Promise!pqVars)
<1>1. CASE Talks
  BY <1>1 DEF Talks, Promise!pqVars
<1>2. CASE Turned(r)
  BY <1>2 DEF Turned, Promise!PQNext, Promise!TurnAway
<1>3. CASE Arrives(r)
  BY <1>3 DEF Arrives, Promise!PQNext, Promise!Arrive
<1>4. CASE Closes(r, "refused")
  <2>1. RemoveFirst(queue, r) = Promise!RemoveFirst(queue, r)
    BY DEF RemoveFirst, RemoveAt, SelectInSeq, Min,
           Promise!RemoveFirst, Promise!RemoveAt, Promise!SelectInSeq, Promise!Min
  <2> QED
    BY <1>4, <2>1 DEF Closes, Left, Open, Promise!PQNext, Promise!Refuse
<1>5. CASE Closes(r, "granted") /\ AtTheFront(r)
  <2>1. queue \in Seq(Requests) /\ Len(queue) \in Nat /\ 1 \in 1..Len(queue) /\ queue[1] = r
    BY <1>5 DEF IInv, TypeOK, AtTheFront
  <2>2. \A j, k \in 1..Len(queue) : queue[j] = queue[k] => j = k
    BY <2>1 DEF IInv, Inv, QueueIsTheOpenRequests
  <2>3. /\ queue' \in Seq(Requests) /\ Len(queue') = Len(queue) - 1
        /\ \A j \in 1..Len(queue) - 1 :
              queue'[j] = IF j < 1 THEN queue[j] ELSE queue[j + 1]
    BY <1>5, <2>1, <2>2, RemoveFirstShifts DEF Closes, Left
  <2>4. /\ Tail(queue) \in Seq(Requests) /\ Len(Tail(queue)) = Len(queue) - 1
        /\ \A i \in 1..Len(Tail(queue)) : Tail(queue)[i] = queue[i + 1]
    BY <1>5, <2>1, HeadTailProperties DEF AtTheFront
  <2>5. \A j \in 1..Len(queue) - 1 : queue'[j] = Tail(queue)[j]
    BY <2>1, <2>3, <2>4
  <2>6. queue' = Tail(queue)
    BY <2>3, <2>4, <2>5, SeqEqual
  <2> QED
    BY <1>5, <2>6 DEF Closes, AtTheFront, Promise!PQNext, Promise!Grant
<1> QED
  BY <1>1, <1>2, <1>3, <1>4, <1>5 DEF Moves

\* The joined system keeps the promise of PromptQueue for any number of callers,
\* crashes and commands under way: of all that cross in the two pipes, nothing
\* ever grants a caller that is not at the front of the queue, loses one without
\* a verdict or gives it two.
THEOREM PromiseKept == SysSpec => KeepsPromise
<1>1. SysInit => Promise!PQInit
  BY DEF SysInit, Init, Promise!PQInit
<1>2. IInv /\ ViewInv /\ IInv' /\ [SysNext]_sysVars => [Promise!PQNext]_(Promise!pqVars)
  <2> SUFFICES ASSUME IInv, ViewInv, IInv', [SysNext]_sysVars
               PROVE  [Promise!PQNext]_(Promise!pqVars)
    OBVIOUS
  <2>1. CASE Still
    BY <2>1 DEF Still, Promise!pqVars
  <2>2. CASE Crash
    BY <2>2 DEF Crash, Gone, Ended, Open, Promise!PQNext, Promise!LoseAll
  <2>3. CASE \E r \in Requests : Moves(r)
    BY <2>3, MoveIsPromised
  <2> QED
    BY <2>1, <2>2, <2>3, SysStepIs
<1> QED
  BY <1>1, <1>2, SysInvariance, PTL DEF SysSpec, KeepsPromise, Promise!PQSpec

-----------------------------------------------------------------------------
(* One answer per prompt.  A prompt is open while its line is in the pipe   *)
(* or its field on the screen; an answer that counts is one to the last     *)
(* prompt of its request, so no prompt of that request is open.             *)

PromptIn(s, r) == \E i \in 1..Len(s) : s[i].ev = "prompt" /\ s[i].id = r
Ready(r) == promptReady /\ promptFor = {r}
Prompted(r) == PromptIn(out, r) \/ Ready(r)

Counted(c) == c.cmd = "respond" /\ c.fresh
Unnamed(r) == \A i \in 1..Len(cmds) : cmds[i].id # r

AnsweredLast ==
    \A i \in 1..Len(cmds) : Counted(cmds[i]) => ~ Prompted(cmds[i].id)
AnsweredOnce ==
    \A i, j \in 1..Len(cmds) :
        Counted(cmds[i]) /\ Counted(cmds[j]) /\ cmds[i].id = cmds[j].id => i = j
Answered == AnsweredLast /\ AnsweredOnce

\* The prompts of two pieces of a pipe are those of either.
LEMMA JoinPrompts ==
    ASSUME NEW a \in Seq(Event), NEW b \in Seq(Event), NEW r, PromptIn(a \o b, r)
    PROVE  PromptIn(a, r) \/ PromptIn(b, r)
<1> DEFINE w == a \o b
<1>1. /\ Len(w) = Len(a) + Len(b) /\ Len(a) \in Nat /\ Len(b) \in Nat
      /\ \A i \in 1..Len(a) + Len(b) : w[i] = IF i <= Len(a) THEN a[i] ELSE b[i - Len(a)]
  BY ConcatProperties
<1>2. PICK i \in 1..Len(w) : w[i].ev = "prompt" /\ w[i].id = r
  BY DEF PromptIn
<1> HIDE DEF w
<1>3. CASE i <= Len(a)
  <2>1. i \in 1..Len(a) /\ w[i] = a[i]
    BY <1>1, <1>3
  <2> QED
    BY <1>2, <2>1 DEF PromptIn
<1>4. CASE ~ (i <= Len(a))
  <2>1. i - Len(a) \in 1..Len(b) /\ w[i] = b[i - Len(a)]
    BY <1>1, <1>4
  <2> QED
    BY <1>2, <2>1 DEF PromptIn
<1> QED
  BY <1>3, <1>4

\* No prompt is in what activates a head, nor in any line of another name.
LEMMA NoPrompts ==
    /\ \A r : ~ PromptIn(<<>>, r)
    /\ \A q \in Seq(Requests) : \A r : ~ PromptIn(Activation(q), r)
    /\ \A e : \A r : PromptIn(<<e>>, r) => e.ev = "prompt" /\ e.id = r
<1>1. \A r : ~ PromptIn(<<>>, r)
  BY DEF PromptIn
<1>2. ASSUME NEW e, NEW r, PromptIn(<<e>>, r)
      PROVE  e.ev = "prompt" /\ e.id = r
  <2>1. PICK i \in 1..Len(<<e>>) : <<e>>[i].ev = "prompt" /\ <<e>>[i].id = r
    BY <1>2 DEF PromptIn
  <2>2. <<e>>[i] = e
    OBVIOUS
  <2> QED
    BY <2>1, <2>2
<1>3. ASSUME NEW q \in Seq(Requests), NEW r
      PROVE  ~ PromptIn(Activation(q), r)
  <2>1. CASE q = <<>>
    BY <1>1, <2>1 DEF Activation
  <2>2. CASE q # <<>>
    <3>1. Activation(q) = <<Ev("active", q[1])>> /\ Ev("active", q[1]).ev = "active"
      BY <2>2 DEF Activation, Ev
    <3> QED
      BY <1>2, <3>1
  <2> QED
    BY <2>1, <2>2
<1> QED
  BY <1>1, <1>2, <1>3

\* An event, the next head's activation, and what follows them.
LEMMA SplicedPrompts ==
    ASSUME TypeOK, NEW e \in Event, e.ev # "prompt", NEW q \in Seq(Requests),
           NEW after \in Seq(Event), NEW r,
           PromptIn(Spliced(out, e, Activation(q), after), r)
    PROVE  PromptIn(out, r) \/ PromptIn(after, r)
<1>1. out \in Seq(Event) /\ <<e>> \in Seq(Event)
  BY DEF TypeOK
<1>2. Activation(q) \in Seq(Event)
  BY ActivationOut
<1>3. out \o <<e>> \in Seq(Event)
  BY <1>1, ConcatProperties
<1>4. (out \o <<e>>) \o Activation(q) \in Seq(Event)
  BY <1>2, <1>3, ConcatProperties
<1>5. PromptIn((out \o <<e>>) \o Activation(q), r) \/ PromptIn(after, r)
  BY <1>4, JoinPrompts DEF Spliced
<1>6. PromptIn((out \o <<e>>) \o Activation(q), r) => PromptIn(out \o <<e>>, r)
  BY <1>2, <1>3, JoinPrompts, NoPrompts
<1>7. PromptIn(out \o <<e>>, r) => PromptIn(out, r)
  BY <1>1, JoinPrompts, NoPrompts
<1> QED
  BY <1>5, <1>6, <1>7

\* One line, or none.
LEMMA LinePrompts ==
    ASSUME TypeOK, NEW e \in Event, out' = out \/ out' = Append(out, e), NEW r,
           PromptIn(out', r)
    PROVE  PromptIn(out, r) \/ (e.ev = "prompt" /\ e.id = r)
<1>1. out \in Seq(Event) /\ <<e>> \in Seq(Event)
  BY DEF TypeOK
<1>2. CASE out' = out
  BY <1>2
<1>3. CASE out' = Append(out, e)
  <2>1. out' = out \o <<e>>
    BY <1>1, <1>3
  <2> QED
    BY <1>1, <2>1, JoinPrompts, NoPrompts
<1> QED
  BY <1>2, <1>3

LEMMA ClosePrompts ==
    ASSUME TypeOK, QueueIsTheOpenRequests, NEW r \in Requests, Open(r), NEW how,
           Close(r, how), NEW a, PromptIn(out', a)
    PROVE  PromptIn(out, a)
<1>1. Left(r) \in Seq(Requests)
  BY LeftProperties
<1>2. Ev("close", r) \in Event /\ Ev("close", r).ev = "close"
  BY Names DEF EventName
<1>3. out \in Seq(Event) /\ <<Ev("close", r)>> \in Seq(Event)
  BY <1>2 DEF TypeOK
<1>4. out \o <<Ev("close", r)>> \in Seq(Event)
  BY <1>3, ConcatProperties
<1>5. Activation(Left(r)) \in Seq(Event)
  BY <1>1, ActivationOut
<1>6. PromptIn((out \o <<Ev("close", r)>>) \o Activation(Left(r)), a)
  BY Zenon DEF Close
<1>7. PromptIn(out \o <<Ev("close", r)>>, a)
  BY <1>1, <1>4, <1>5, <1>6, JoinPrompts, NoPrompts
<1> QED
  BY <1>2, <1>3, <1>7, JoinPrompts, NoPrompts

LEMMA PushPrompts ==
    ASSUME TypeOK, NEW r \in Requests, NEW after \in Seq(Event), Push(r, after),
           NEW a, PromptIn(out', a)
    PROVE  PromptIn(out, a) \/ PromptIn(after, a)
<1>1. Starts(r) \in Seq(Requests)
  BY DEF Starts
<1>2. Ev("request", r) \in Event /\ Ev("request", r).ev = "request"
  BY Names DEF EventName
<1>3. PromptIn(Spliced(out, Ev("request", r), Activation(Starts(r)), after), a)
  BY Zenon DEF Push, Spliced
<1> QED
  BY <1>1, <1>2, <1>3, SplicedPrompts

\* A caller raises a prompt for itself when it comes, or none.
LEMMA CallerPrompts ==
    ASSUME IInv, NEW r \in Requests, Caller(r), NEW a, PromptIn(out', a)
    PROVE  PromptIn(out, a) \/ (a = r /\ status[r] = "new")
<1>1. TypeOK /\ QueueIsTheOpenRequests
  BY DEF IInv, Inv
<1>2. CASE BeginAuthentication(r)
  <2>1. Push(r, <<>>) /\ <<>> \in Seq(Event)
    BY <1>2 DEF BeginAuthentication
  <2> QED
    BY <1>1, <2>1, PushPrompts, NoPrompts
<1>3. CASE AskpassRequest(r)
  <2>1. Push(r, <<Ev("prompt", r)>>) /\ status[r] = "new"
    BY <1>3 DEF AskpassRequest
  <2>2. <<Ev("prompt", r)>> \in Seq(Event) /\ Ev("prompt", r).id = r
    BY <1>1, EventsOut, Names DEF EventName
  <2> QED
    BY <1>1, <2>1, <2>2, PushPrompts, NoPrompts
<1>4. CASE BeginRefused(r) \/ AskpassDropped(r)
  BY <1>4 DEF BeginRefused, AskpassDropped
<1>5. CASE CancelAuthentication(r)
  BY <1>1, <1>5, ClosePrompts DEF CancelAuthentication, Deny
<1> QED
  BY <1>2, <1>3, <1>4, <1>5 DEF Caller

\* Of what PAM does only its question raises one.
LEMMA PamPrompts ==
    ASSUME IInv, NEW r \in Requests, NEW a, PromptIn(out', a),
           \/ ReaderAsks(r) \/ FingerInfo(r) \/ Authorized(r)
           \/ ReaderFails(r) \/ WrongPassword(r) \/ OutOfTries(r)
           \/ LeftReaderEnds(r)
    PROVE  PromptIn(out, a)
<1>1. TypeOK /\ QueueIsTheOpenRequests
  BY DEF IInv, Inv
<1>2. \A name \in EventName : Ev(name, r) \in Event /\ Ev(name, r).ev = name
  BY Names
<1>3. CASE ReaderAsks(r) \/ ReaderFails(r)
  <2>1. Ev("factorend", r) \in Event /\ Ev("factorend", r).ev # "prompt"
    BY <1>2 DEF EventName
  <2>2. out' = Append(out, Ev("factorend", r))
    BY <1>3 DEF ReaderAsks, ReaderFails
  <2> QED
    BY <1>1, <2>1, <2>2, LinePrompts
<1>4. CASE FingerInfo(r)
  <2>1. Ev("factor", r) \in Event /\ Ev("factor", r).ev # "prompt"
    BY <1>2 DEF EventName
  <2>2. out' = out \/ out' = Append(out, Ev("factor", r))
    BY <1>4 DEF FingerInfo
  <2> QED
    BY <1>1, <2>1, <2>2, LinePrompts
<1>5. CASE WrongPassword(r)
  <2> DEFINE e == [ev |-> "failed", id |-> r, tries |-> tries[r] + 1]
  <2>1. e \in Event /\ e.ev # "prompt"
    BY <1>1 DEF Event, EventName, TypeOK
  <2>2. out' = Append(out, e)
    BY <1>5 DEF WrongPassword
  <2> HIDE DEF e
  <2> QED
    BY <1>1, <2>1, <2>2, LinePrompts
<1>6. CASE LeftReaderEnds(r)
  BY <1>6 DEF LeftReaderEnds
<1>7. CASE Authorized(r)
  BY <1>1, <1>7, ClosePrompts DEF Authorized, MayWin
<1>8. CASE OutOfTries(r)
  <2>1. Open(r)
    BY <1>8 DEF OutOfTries, Counts, IInv, Inv, ClosedIsOver
  <2> QED
    BY <1>1, <1>8, <2>1, ClosePrompts DEF OutOfTries
<1> QED
  BY <1>3, <1>4, <1>5, <1>6, <1>7, <1>8

LEMMA HandlePrompts ==
    ASSUME IInv, NEW r \in Requests, NEW name, Handle(r, name), NEW a, PromptIn(out', a)
    PROVE  PromptIn(out, a)
<1>1. TypeOK /\ QueueIsTheOpenRequests
  BY DEF IInv, Inv
<1>2. CASE Cancel(r)
  BY <1>1, <1>2, ClosePrompts DEF Cancel, Deny
<1>3. CASE RespondSudo(r)
  BY <1>1, <1>3, ClosePrompts DEF RespondSudo
<1>4. CASE RespondPolkit(r)
  BY <1>4 DEF RespondPolkit
<1> QED
  BY <1>2, <1>3, <1>4 DEF Handle, Respond

\* Commands are taken away, and no prompt is raised that a command names.
LEMMA FewerAnswers ==
    ASSUME Answered, cmds \in Seq(Command),
           cmds' = cmds \/ cmds' = <<>> \/ (cmds # <<>> /\ cmds' = Tail(cmds)),
           \A r : Prompted(r)' => Prompted(r) \/ Unnamed(r)
    PROVE  Answered'
<1>1. Len(cmds) \in Nat
  OBVIOUS
<1>2. PICK d \in {0, 1} :
        \A i \in 1..Len(cmds') : i + d \in 1..Len(cmds) /\ cmds'[i] = cmds[i + d]
  <2>1. CASE cmds' = cmds
    <3>1. \A i \in 1..Len(cmds') : i + 0 \in 1..Len(cmds) /\ cmds'[i] = cmds[i + 0]
      BY <1>1, <2>1
    <3> QED
      BY <3>1
  <2>2. CASE cmds' = <<>>
    BY <2>2
  <2>3. CASE cmds # <<>> /\ cmds' = Tail(cmds)
    <3>1. \A i \in 1..Len(cmds') : i + 1 \in 1..Len(cmds) /\ cmds'[i] = cmds[i + 1]
      BY <1>1, <2>3
    <3> QED
      BY <3>1
  <2> QED
    BY <2>1, <2>2, <2>3
<1>3. AnsweredLast'
  <2>1. ASSUME NEW i \in 1..Len(cmds'), Counted(cmds'[i]), NEW r, r = cmds'[i].id
        PROVE  ~ Prompted(r)'
    <3>1. i + d \in 1..Len(cmds) /\ cmds'[i] = cmds[i + d]
      BY <1>2
    <3>2. ~ Prompted(r) /\ ~ Unnamed(r)
      BY <2>1, <3>1 DEF Answered, AnsweredLast, Unnamed
    <3> QED
      BY <3>2
  <2> QED
    BY <2>1 DEF AnsweredLast
<1>4. AnsweredOnce'
  <2>1. ASSUME NEW i \in 1..Len(cmds'), NEW j \in 1..Len(cmds'),
               Counted(cmds'[i]), Counted(cmds'[j]), cmds'[i].id = cmds'[j].id
        PROVE  i = j
    <3>1. /\ i + d \in 1..Len(cmds) /\ cmds'[i] = cmds[i + d]
          /\ j + d \in 1..Len(cmds) /\ cmds'[j] = cmds[j + d]
      BY <1>2
    <3>2. i + d = j + d
      BY <2>1, <3>1 DEF Answered, AnsweredOnce
    <3> QED
      BY <3>2
  <2> QED
    BY <2>1 DEF AnsweredOnce, Counted
<1> QED
  BY <1>3, <1>4 DEF Answered

\* PAM's question makes the answers under way answers to older prompts.
LEMMA AskUncounts ==
    ASSUME IInv, ViewInv, Answered, NEW r \in Requests, PamAsks(r)
    PROVE  Answered'
<1>1. cmds \in Seq(Command) /\ Len(cmds) \in Nat /\ TypeOK
  BY Shapes DEF IInv
<1>2. /\ Len(cmds') = Len(cmds)
      /\ \A i \in 1..Len(cmds) :
            cmds'[i] = IF cmds[i].id = r THEN [cmds[i] EXCEPT !.fresh = FALSE] ELSE cmds[i]
  <2>1. cmds' = [i \in DOMAIN cmds |->
                   IF cmds[i].id = r THEN [cmds[i] EXCEPT !.fresh = FALSE]
                                     ELSE cmds[i]]
    BY Zenon DEF PamAsks
  <2>2. cmds' \in Seq(Command)
    BY <2>1, Unfreshened DEF NoNewCmds
  <2>3. DOMAIN cmds' = 1..Len(cmds) /\ DOMAIN cmds = 1..Len(cmds)
    BY <1>1, <2>1
  <2>4. Len(cmds') = Len(cmds)
    BY <1>1, <2>2, <2>3, LenProperties
  <2> QED
    BY <2>1, <2>3, <2>4
<1>3. ASSUME NEW i \in 1..Len(cmds'), Counted(cmds'[i])
      PROVE  cmds'[i] = cmds[i] /\ cmds[i].id # r
  <2>1. cmds[i] \in Command /\ i \in 1..Len(cmds)
    BY <1>1, <1>2
  <2> QED
    BY <1>2, <1>3, <2>1 DEF Counted, Command
<1>4. ASSUME NEW a, a # r, Prompted(a)'
      PROVE  Prompted(a)
  <2>1. out' = Append(out, Ev("prompt", r)) /\ Ev("prompt", r) \in Event
        /\ Ev("prompt", r).id = r
    BY Names DEF PamAsks, SessionAsks, EventName
  <2>2. PromptIn(out', a) => PromptIn(out, a)
    BY <1>1, <1>4, <2>1, LinePrompts
  <2>3. Ready(a)' => Ready(a)
    BY Zenon DEF PamAsks, shellVars, Ready
  <2> QED
    BY <1>4, <2>2, <2>3 DEF Prompted
<1>5. AnsweredLast'
  <2>1. ASSUME NEW i \in 1..Len(cmds'), Counted(cmds'[i]), NEW a, a = cmds'[i].id
        PROVE  ~ Prompted(a)'
    <3>1. i \in 1..Len(cmds) /\ cmds'[i] = cmds[i] /\ cmds[i].id # r
      BY <1>2, <1>3, <2>1
    <3>2. ~ Prompted(a) /\ a # r
      BY <2>1, <3>1 DEF Answered, AnsweredLast
    <3> QED
      BY <1>4, <3>2
  <2> QED
    BY <2>1 DEF AnsweredLast
<1>6. AnsweredOnce'
  <2>1. ASSUME NEW i \in 1..Len(cmds'), NEW j \in 1..Len(cmds'),
               Counted(cmds'[i]), Counted(cmds'[j]), cmds'[i].id = cmds'[j].id
        PROVE  i = j
    <3>1. cmds'[i] = cmds[i] /\ cmds'[j] = cmds[j] /\ i \in 1..Len(cmds) /\ j \in 1..Len(cmds)
      BY <1>2, <1>3, <2>1
    <3> QED
      BY <2>1, <3>1 DEF Answered, AnsweredOnce
  <2> QED
    BY <2>1 DEF AnsweredOnce, Counted
<1> QED
  BY <1>5, <1>6 DEF Answered

\* An answer that counts closes the field of its prompt, and meets no other
\* under way: that would have closed the field already.
LEMMA SubmitCounts ==
    ASSUME IInv, ViewInv, Answered, Submit
    PROVE  Answered'
<1>1. cmds \in Seq(Command) /\ Len(cmds) \in Nat
  BY Shapes
<1>2. promptReady /\ ~ promptReady' /\ UNCHANGED <<out, promptFor>>
  BY Zenon DEF Submit, vars
<1>3. ASSUME NEW r, Prompted(r)'
      PROVE  PromptIn(out, r)
  BY <1>2, <1>3, Zenon DEF Prompted, Ready
<1>4. CASE ~ running
  <2>1. cmds' = cmds
    BY <1>4 DEF Submit, Send
  <2>2. \A r : Prompted(r)' => Prompted(r) \/ Unnamed(r)
    BY <1>3 DEF Prompted
  <2> QED
    BY <1>1, <2>1, <2>2, FewerAnswers
<1>5. CASE running
  <2> DEFINE c == [cmd |-> "respond", id |-> Current,
                   fresh |-> (promptFor = {Current} /\ ~PromptOnItsWay(Current))]
             n == Len(cmds) + 1
  <2>1. cmds' = Append(cmds, c)
    BY <1>5, Zenon DEF Submit, Send
  <2>2. c.id = Current /\ c.fresh = (promptFor = {Current} /\ ~PromptOnItsWay(Current))
    BY Zenon
  <2>3. Counted(c) => promptFor = {Current} /\ ~PromptOnItsWay(Current)
    BY <2>2, Zenon DEF Counted
  <2>4. out \in Seq(Event)
    BY DEF IInv, TypeOK
  <2>5. PromptOnItsWay(Current) <=> PromptIn(out, Current)
    BY <2>4 DEF PromptOnItsWay, PromptIn
  <2>6. Counted(c) => Ready(Current) /\ ~ PromptIn(out, Current)
    BY <1>2, <2>3, <2>5, Zenon DEF Ready
  <2> HIDE DEF c
  <2>7. /\ Len(cmds') = n /\ cmds'[n] = c
        /\ \A i \in 1..Len(cmds) : cmds'[i] = cmds[i]
    BY <1>1, <2>1
  <2>8. ASSUME NEW i \in 1..Len(cmds') PROVE i \in 1..Len(cmds) \/ i = n
    BY <1>1, <2>7
  <2>9. ASSUME NEW i \in 1..Len(cmds), Counted(cmds[i])
        PROVE  ~ PromptIn(out, cmds[i].id) /\ ~ Ready(cmds[i].id)
    BY <2>9 DEF Answered, AnsweredLast, Prompted
  <2> HIDE DEF n
  <2>10. AnsweredLast'
    <3>1. ASSUME NEW i \in 1..Len(cmds'), Counted(cmds'[i]), NEW r, r = cmds'[i].id
          PROVE  ~ Prompted(r)'
      <4>1. CASE i \in 1..Len(cmds)
        BY <1>3, <2>7, <2>9, <3>1, <4>1
      <4>2. CASE i = n
        BY <1>3, <2>2, <2>6, <2>7, <3>1, <4>2
      <4> QED
        BY <2>8, <4>1, <4>2
    <3> QED
      BY <3>1 DEF AnsweredLast
  <2>11. AnsweredOnce'
    <3>1. ASSUME NEW i \in 1..Len(cmds'), NEW j \in 1..Len(cmds'),
                 Counted(cmds'[i]), Counted(cmds'[j]), cmds'[i].id = cmds'[j].id
          PROVE  i = j
      <4>1. CASE i \in 1..Len(cmds) /\ j \in 1..Len(cmds)
        BY <2>7, <3>1, <4>1 DEF Answered, AnsweredOnce
      <4>2. CASE i \in 1..Len(cmds) /\ j = n
        BY <2>2, <2>6, <2>7, <2>9, <3>1, <4>2
      <4>3. CASE i = n /\ j \in 1..Len(cmds)
        BY <2>2, <2>6, <2>7, <2>9, <3>1, <4>3
      <4> QED
        BY <2>8, <4>1, <4>2, <4>3
    <3> QED
      BY <3>1 DEF AnsweredOnce, Counted
  <2> QED
    BY <2>10, <2>11 DEF Answered
<1> QED
  BY <1>4, <1>5

LEMMA CancelCountsNot ==
    ASSUME IInv, ViewInv, Answered, CancelPrompt
    PROVE  Answered'
<1>1. cmds \in Seq(Command) /\ Len(cmds) \in Nat
  BY Shapes
<1>2. UNCHANGED <<out, promptReady, promptFor>>
  BY Zenon DEF CancelPrompt, vars, shellVars
<1>3. \A r : Prompted(r)' => Prompted(r)
  BY <1>2, Zenon DEF Prompted, Ready
<1>4. CASE ~ running
  <2>1. cmds' = cmds
    BY <1>4 DEF CancelPrompt, Send
  <2> QED
    BY <1>1, <1>3, <2>1, FewerAnswers
<1>5. CASE running
  <2> DEFINE c == [cmd |-> "cancel", id |-> Current, fresh |-> TRUE]
  <2>1. cmds' = Append(cmds, c) /\ ~ Counted(c)
    BY <1>5 DEF CancelPrompt, Send, Counted
  <2> HIDE DEF c
  <2>2. /\ Len(cmds') = Len(cmds) + 1 /\ cmds'[Len(cmds) + 1] = c
        /\ \A i \in 1..Len(cmds) : cmds'[i] = cmds[i]
    BY <1>1, <2>1
  <2>3. ASSUME NEW i \in 1..Len(cmds'), Counted(cmds'[i])
        PROVE  i \in 1..Len(cmds) /\ cmds'[i] = cmds[i]
    <3>1. i # Len(cmds) + 1
      BY <2>1, <2>2, <2>3
    <3> QED
      BY <1>1, <2>2, <3>1
  <2>4. AnsweredLast'
    <3>1. ASSUME NEW i \in 1..Len(cmds'), Counted(cmds'[i]), NEW r, r = cmds'[i].id
          PROVE  ~ Prompted(r)'
      BY <1>3, <2>3, <3>1 DEF Answered, AnsweredLast
    <3> QED
      BY <3>1 DEF AnsweredLast
  <2>5. AnsweredOnce'
    <3>1. ASSUME NEW i \in 1..Len(cmds'), NEW j \in 1..Len(cmds'),
                 Counted(cmds'[i]), Counted(cmds'[j]), cmds'[i].id = cmds'[j].id
          PROVE  i = j
      BY <2>3, <3>1 DEF Answered, AnsweredOnce
    <3> QED
      BY <3>1 DEF AnsweredOnce, Counted
  <2> QED
    BY <2>4, <2>5 DEF Answered
<1> QED
  BY <1>4, <1>5

\* A prompt that is read moves from the pipe to the screen.
LEMMA ReadMovesPrompt ==
    ASSUME IInv, ShellReads, NEW r, Prompted(r)'
    PROVE  Prompted(r)
<1>1. /\ out \in Seq(Event) /\ out # <<>> /\ out' = Tail(out) /\ OnEvent(Head(out))
  BY DEF ShellReads, Drain, IInv, TypeOK
<1>2. /\ 1 \in 1..Len(out) /\ Head(out) = out[1]
      /\ \A i \in 1..Len(out') : i + 1 \in 1..Len(out) /\ out'[i] = out[i + 1]
  BY <1>1
<1>3. CASE PromptIn(out', r)
  <2>1. PICK i \in 1..Len(out') : out'[i].ev = "prompt" /\ out'[i].id = r
    BY <1>3 DEF PromptIn
  <2>2. i + 1 \in 1..Len(out) /\ out[i + 1].ev = "prompt" /\ out[i + 1].id = r
    BY <1>2, <2>1
  <2> QED
    BY <2>2 DEF PromptIn, Prompted
<1>4. CASE Ready(r)'
  <2> DEFINE e == Head(out)
  <2>1. CASE e.ev = "prompt" /\ OnPrompt(e)
    <3>1. e.id = r
      <4>1. promptFor' = {e.id} /\ promptFor' = {r}
        BY <1>4, <2>1, Zenon DEF Ready, OnPrompt
      <4> QED
        BY <4>1
    <3> QED
      BY <1>2, <2>1, <3>1 DEF PromptIn, Prompted
  <2>2. CASE OnRequest(e) \/ OnFactor(e) \/ OnClose(e) \/ UNCHANGED shellVars
    BY <1>4, <2>2, Zenon DEF Ready, Prompted, OnRequest, OnFactor, OnClose, shellVars
  <2>3. CASE OnActive(e) \/ OnFailed(e)
    BY <1>4, <2>3, Zenon DEF Ready, OnActive, OnFailed
  <2> HIDE DEF e
  <2>4. OnEvent(e)
    BY <1>1 DEF e
  <2> QED
    BY <2>1, <2>2, <2>3, <2>4, Zenon DEF OnEvent
<1> QED
  BY <1>3, <1>4 DEF Prompted

LEMMA SysStepAnswers ==
    ASSUME IInv, ViewInv, Answered, [SysNext]_sysVars
    PROVE  Answered'
<1>0. cmds \in Seq(Command) /\ \A i \in 1..Len(cmds) : cmds[i].id \in Requests
  BY Shapes
<1>1. CASE \E r \in Requests : CallerActs(r)
  <2>1. PICK r \in Requests : CallerActs(r)
    BY <1>1
  <2>2. Caller(r) /\ UNCHANGED <<cmds, promptReady, promptFor>>
    BY <2>1, Zenon DEF CallerActs, shellVars
  <2>3. ASSUME NEW a, Prompted(a)' PROVE Prompted(a) \/ Unnamed(a)
    <3>1. Ready(a)' => Ready(a)
      BY <2>2, Zenon DEF Ready
    <3>2. PromptIn(out', a) => PromptIn(out, a) \/ (a = r /\ status[r] = "new")
      BY <2>2, CallerPrompts
    <3>3. status[r] = "new" => Unnamed(r)
      BY DEF ViewInv, NewIsUnnamed, Unnamed
    <3> QED
      BY <2>3, <3>1, <3>2, <3>3 DEF Prompted
  <2> QED
    BY <1>0, <2>2, <2>3, FewerAnswers
<1>2. CASE \E r \in Requests : PamAsks(r)
  BY <1>2, AskUncounts
<1>3. CASE \E r \in Requests : PamElse(r)
  <2>1. PICK r \in Requests : PamElse(r)
    BY <1>3
  <2>2. /\ \/ ReaderAsks(r) \/ FingerInfo(r) \/ Authorized(r)
           \/ ReaderFails(r) \/ WrongPassword(r) \/ OutOfTries(r)
           \/ LeftReaderEnds(r)
        /\ UNCHANGED <<cmds, promptReady, promptFor>>
    BY <2>1, Zenon DEF PamElse, shellVars
  <2>3. ASSUME NEW a, Prompted(a)' PROVE Prompted(a)
    <3>1. Ready(a)' => Ready(a)
      BY <2>2, Zenon DEF Ready
    <3>2. PromptIn(out', a) => PromptIn(out, a)
      BY <2>2, PamPrompts
    <3> QED
      BY <2>3, <3>1, <3>2 DEF Prompted
  <2> QED
    BY <1>0, <2>2, <2>3, FewerAnswers
<1>4. CASE DaemonReads
  <2>1. /\ cmds # <<>> /\ cmds' = Tail(cmds) /\ Dispatch(Head(cmds))
        /\ UNCHANGED <<promptReady, promptFor>>
    BY <1>4, Zenon DEF DaemonReads, shellVars
  <2>2. ASSUME NEW a, Prompted(a)' PROVE Prompted(a)
    <3>1. Ready(a)' => Ready(a)
      BY <2>1, Zenon DEF Ready
    <3>2. PromptIn(out', a) => PromptIn(out, a)
      <4>1. CASE UNCHANGED vars
        BY <4>1 DEF vars
      <4>2. CASE \E r \in Requests : Handle(r, Head(cmds).cmd)
        BY <4>2, HandlePrompts
      <4> QED
        BY <2>1, <4>1, <4>2, Zenon DEF Dispatch
    <3> QED
      BY <2>2, <3>1, <3>2 DEF Prompted
  <2> QED
    BY <1>0, <2>1, <2>2, FewerAnswers
<1>5. CASE ShellReads
  <2>1. UNCHANGED cmds
    BY <1>5 DEF ShellReads
  <2> QED
    BY <1>0, <1>5, <2>1, ReadMovesPrompt, FewerAnswers
<1>6. CASE Submit
  BY <1>6, SubmitCounts
<1>7. CASE CancelPrompt
  BY <1>7, CancelCountsNot
<1>8. CASE DaemonDies \/ OnExited \/ UNCHANGED sysVars
  <2>1. /\ UNCHANGED <<out, promptReady, promptFor>>
        /\ cmds' = <<>> \/ cmds' = cmds
    BY <1>8, Zenon DEF DaemonDies, Crash, Gone, Ended, OnExited, sysVars, vars, shellVars
  <2>2. \A r : Prompted(r)' => Prompted(r)
    BY <2>1, Zenon DEF Prompted, Ready
  <2> QED
    BY <1>0, <2>1, <2>2, FewerAnswers
<1>9. CASE Restart
  <2>1. /\ out' = <<[ev |-> "ready"]>> /\ UNCHANGED <<cmds, promptReady, promptFor>>
    BY <1>9, Zenon DEF Restart, Start, shellVars
  <2>2. \A r : ~ PromptIn(out', r)
    BY <2>1, NoPrompts
  <2>3. \A r : Prompted(r)' => Prompted(r)
    BY <2>1, <2>2, Zenon DEF Prompted, Ready
  <2> QED
    BY <1>0, <2>1, <2>3, FewerAnswers
<1> QED
  BY <1>1, <1>2, <1>3, <1>4, <1>5, <1>6, <1>7, <1>8, <1>9, Zenon DEF SysNext

\* Of all answers to a request in the pipe one counts: what was typed for one
\* prompt is not taken for two, nor two secrets for one prompt, although the
\* field goes live again by lines that crossed the answer.
THEOREM AnswersAreSingle == SysSpec => []OneAnswerPerPrompt
<1>1. SysInit => Answered
  BY DEF SysInit, Answered, AnsweredLast, AnsweredOnce
<1>2. IInv /\ ViewInv /\ Answered /\ [SysNext]_sysVars => Answered'
  BY SysStepAnswers
<1>3. IInv /\ ViewInv /\ Answered => OneAnswerPerPrompt
  <2> SUFFICES ASSUME IInv, ViewInv, Answered PROVE OneAnswerPerPrompt
    OBVIOUS
  <2>1. DOMAIN cmds = 1..Len(cmds)
    BY Shapes
  <2> QED
    BY <2>1, Zenon DEF Answered, AnsweredOnce, Counted, OneAnswerPerPrompt
<1>4. SysSpec => []Answered
  BY <1>1, <1>2, SysInvariance, PTL DEF SysSpec
<1> QED
  BY <1>3, <1>4, SysInvariance, PTL

-----------------------------------------------------------------------------
(* The field of whom PAM waits for.  The lines that reset the field are      *)
(* "active" and "failed": what the shell has, or has in the pipe, after the  *)
(* last of them is what it will show.                                        *)

Resets(e) == e.ev \in {"active", "failed"}
IsClose(i, a) == out[i].ev = "close" /\ out[i].id = a
AnswerTo(r) == \E i \in 1..Len(cmds) : cmds[i].cmd = "respond" /\ cmds[i].id = r

HeadAsks == HeadIsPolkit(queue) /\ pending[queue[1]]

\* A prompt that is on its way and that no line behind it takes back,
Raised ==
    \E i \in 1..Len(out) :
        /\ out[i].ev = "prompt"
        /\ \A j \in 1..Len(out) : j > i => ~Resets(out[j])
\* or one that is on the screen and stays there.
NoReset == \A j \in 1..Len(out) : ~Resets(out[j])
Shown == promptReady /\ NoReset

\* The field is live for the head that asks, or will be, or has been answered.
HeadIsAsked == up /\ HeadAsks => Raised \/ Shown \/ AnswerTo(queue[1])

\* Whoever is known to the shell and closed is closed by a line to come.
ClosedIsTold ==
    up => \A a \in Requests : ~Open(a) =>
             /\ Listed(a) => \E i \in 1..Len(out) : IsClose(i, a)
             /\ \A m \in 1..Len(out) : Announces(m, a) =>
                    \E i \in 1..Len(out) : i > m /\ IsClose(i, a)

\* A new front of the queue is made active after the lines that made it so.
FrontIsTold ==
    up /\ queue # <<>> =>
        \A i \in 1..Len(out) : out[i].ev = "close" \/ Announces(i, queue[1]) =>
            \E j \in 1..Len(out) : j > i /\ out[j].ev = "active"

\* A daemon that runs is known to run, and what the last one said is forgotten
\* before the next is started.
UpIsRunning == up => running
StoppedIsForgotten == ~running => requests = <<>> /\ out = <<>>
UnsentIsOpen == promptReady => stage # "verifying"

Asked == ClosedIsTold /\ FrontIsTold /\ HeadIsAsked
Kept == UpIsRunning /\ StoppedIsForgotten /\ UnsentIsOpen

\* What a step of the daemon does to the front of the queue and writes of it:
\* nothing is left, or a front is made active that has not asked,
Grows == Len(out') >= Len(out) /\ \A i \in 1..Len(out) : out'[i] = out[i]
Anew ==
    /\ \E k \in 1..Len(out') :
          out'[k].ev = "active" /\ \A i \in 1..Len(out') : i >= k => Quiet(out'[i])
    /\ ~HeadAsks'
\* or the front stays, and a prompt it has raised is not taken back.
LeavesFront ==
    /\ queue # <<>> /\ queue'[1] = queue[1]
    /\ Grows
    /\ \A i \in 1..Len(out') : i > Len(out) =>
          out'[i].ev # "close" /\ ~(out'[i].ev = "request" /\ out'[i].id = queue[1])
Quietly ==
    /\ HeadAsks' => HeadAsks
    /\ \A i \in 1..Len(out') : i > Len(out) => ~Resets(out'[i])
FrontStep ==
    \/ queue' = <<>>
    \/ Anew
    \/ LeavesFront /\ (Quietly \/ Raised' \/ ~HeadAsks')

LEMMA FrontStepKeeps ==
    ASSUME IInv, IInv', FrontIsTold, HeadIsAsked, up, FrontStep, UNCHANGED promptReady,
           NEW q, q = queue[1],
           HeadAsks /\ HeadAsks' /\ AnswerTo(q) => AnswerTo(q)'
    PROVE  FrontIsTold' /\ HeadIsAsked'
<1>0. out \in Seq(Event) /\ Len(out) \in Nat /\ out' \in Seq(Event) /\ Len(out') \in Nat
  <2>1. out \in Seq(Event) /\ out' \in Seq(Event)
    BY DEF IInv, TypeOK
  <2> QED
    BY <2>1
<1>1. CASE queue' = <<>>
  <2>1. ~HeadAsks'
    BY <1>1 DEF HeadAsks, HeadIsPolkit
  <2> QED
    BY <1>1, <2>1 DEF FrontIsTold, HeadIsAsked
<1>2. CASE Anew
  <2>1. PICK k \in 1..Len(out') :
           out'[k].ev = "active" /\ \A i \in 1..Len(out') : i >= k => Quiet(out'[i])
    BY <1>2 DEF Anew
  <2>2. ASSUME NEW i \in 1..Len(out'), ~Quiet(out'[i])
        PROVE  \E j \in 1..Len(out') : j > i /\ out'[j].ev = "active"
    <3>1. ~(i >= k)
      BY <2>1, <2>2
    <3> QED
      BY <1>0, <2>1, <3>1
  <2>3. FrontIsTold'
    BY <2>2 DEF FrontIsTold, Announces, Quiet
  <2>4. HeadIsAsked'
    BY <1>2, Zenon DEF Anew, HeadIsAsked
  <2> QED
    BY <2>3, <2>4
<1>3. CASE LeavesFront /\ (Quietly \/ Raised' \/ ~HeadAsks')
  <2>1. /\ queue # <<>> /\ queue'[1] = queue[1]
        /\ Len(out') >= Len(out) /\ \A i \in 1..Len(out) : out'[i] = out[i]
        /\ \A i \in 1..Len(out') : i > Len(out) =>
              out'[i].ev # "close" /\ ~(out'[i].ev = "request" /\ out'[i].id = queue[1])
    BY <1>3, Zenon DEF LeavesFront, Grows
  <2>2. \A i \in 1..Len(out) : i \in 1..Len(out') /\ out'[i] = out[i]
    BY <1>0, <2>1
  <2>3. \A i \in 1..Len(out') : i \in 1..Len(out) \/ i > Len(out)
    BY <1>0
  <2>4. FrontIsTold'
    <3>1. SUFFICES ASSUME NEW i \in 1..Len(out'),
                          out'[i].ev = "close" \/ (out'[i].ev = "request" /\ out'[i].id = queue'[1])
                   PROVE  \E j \in 1..Len(out') : j > i /\ out'[j].ev = "active"
      BY DEF FrontIsTold, Announces
    <3>2. i \in 1..Len(out) /\ (out[i].ev = "close" \/ Announces(i, queue[1]))
      BY <2>1, <2>2, <2>3, <3>1 DEF Announces
    <3>3. PICK j \in 1..Len(out) : j > i /\ out[j].ev = "active"
      BY <2>1, <3>2 DEF FrontIsTold
    <3> QED
      BY <2>2, <3>3
  <2>5. CASE Raised' \/ ~HeadAsks'
    BY <2>4, <2>5, Zenon DEF HeadIsAsked
  <2>6. CASE Quietly /\ HeadAsks'
    <3>0. SUFFICES HeadIsAsked'
      BY <2>4
    <3>1. /\ HeadAsks /\ \A i \in 1..Len(out') : i > Len(out) => ~Resets(out'[i])
      BY <2>6, Zenon DEF Quietly
    <3>2. Raised \/ Shown \/ AnswerTo(q)
      BY <3>1, Zenon DEF HeadIsAsked
    <3>3. CASE Raised
      <4>1. PICK i \in 1..Len(out) :
               out[i].ev = "prompt" /\ \A j \in 1..Len(out) : j > i => ~Resets(out[j])
        BY <3>3 DEF Raised
      <4>2. i \in 1..Len(out') /\ out'[i].ev = "prompt"
        BY <2>2, <4>1
      <4>3. \A j \in 1..Len(out') : j > i => ~Resets(out'[j])
        BY <2>2, <2>3, <3>1, <4>1 DEF Resets
      <4>4. Raised'
        BY <4>2, <4>3 DEF Raised, Resets
      <4> QED
        BY <4>4, Zenon DEF HeadIsAsked
    <3>4. CASE Shown
      <4>1. NoReset /\ promptReady'
        BY <3>4, Zenon DEF Shown
      <4>2. \A j \in 1..Len(out') : ~Resets(out'[j])
        BY <2>2, <2>3, <3>1, <4>1 DEF NoReset, Resets
      <4>3. NoReset'
        BY <4>2 DEF NoReset, Resets
      <4> QED
        BY <4>1, <4>3, Zenon DEF HeadIsAsked, Shown
    <3>5. CASE AnswerTo(q)
      <4>1. AnswerTo(q)'
        BY <2>6, <3>1, <3>5, Zenon
      <4>2. PICK i \in 1..Len(cmds') : cmds'[i].cmd = "respond" /\ cmds'[i].id = q'
        BY <4>1 DEF AnswerTo
      <4>3. q' = queue'[1]
        BY <2>1
      <4> QED
        BY <4>2, <4>3 DEF HeadIsAsked, AnswerTo
    <3> QED
      BY <3>2, <3>3, <3>4, <3>5
  <2> QED
    BY <1>3, <2>4, <2>5, <2>6, Zenon
<1> QED
  BY <1>1, <1>2, <1>3, Zenon DEF FrontStep

\* One line, or none, that neither announces nor closes.
LEMMA LineFronts ==
    ASSUME TypeOK, queue' = queue, NEW e \in Event, Quiet(e),
           out' = out \/ out' = Append(out, e),
           \/ (HeadAsks' => HeadAsks) /\ ~Resets(e)
           \/ ~HeadAsks'
           \/ e.ev = "prompt" /\ out' = Append(out, e)
    PROVE  FrontStep
<1>1. out \in Seq(Event) /\ Len(out) \in Nat
  BY DEF TypeOK
<1>2. /\ Len(out') \in Nat /\ Len(out') >= Len(out)
      /\ \A i \in 1..Len(out) : out'[i] = out[i]
      /\ \A i \in 1..Len(out') : i > Len(out) => i = Len(out') /\ out'[i] = e
  <2>1. CASE out' = out
    BY <1>1, <2>1
  <2>2. CASE out' = Append(out, e)
    BY <1>1, <2>2, AppendProperties
  <2> QED
    BY <2>1, <2>2
<1>3. Grows
  BY <1>2 DEF Grows
<1>4. queue = <<>> \/ LeavesFront
  BY <1>2, <1>3 DEF LeavesFront, Quiet
<1>5. CASE (HeadAsks' => HeadAsks) /\ ~Resets(e)
  <2>1. \A i \in 1..Len(out') : i > Len(out) => ~Resets(out'[i])
    BY <1>2, <1>5
  <2>2. Quietly
    BY <1>5, <2>1, Zenon DEF Quietly
  <2> QED
    BY <1>4, <2>2, Zenon DEF FrontStep
<1>6. CASE ~HeadAsks'
  BY <1>4, <1>6, Zenon DEF FrontStep
<1>7. CASE e.ev = "prompt" /\ out' = Append(out, e)
  <2>1. Len(out') \in 1..Len(out') /\ out'[Len(out')] = e
    BY <1>1, <1>7, AppendProperties
  <2>2. Raised'
    BY <1>2, <1>7, <2>1 DEF Raised
  <2> QED
    BY <1>4, <2>2, Zenon DEF FrontStep
<1> QED
  BY <1>4, <1>5, <1>6, <1>7, Zenon

LEMMA EmptyTail == \A s \in Seq(Event) : s \o <<>> = s
OBVIOUS

\* A line that makes a front active that has not asked, and what follows it.
LEMMA ActiveFronts ==
    ASSUME NEW s \in Seq(Event), NEW a \in Requests, NEW t \in Seq(Event),
           \A i \in 1..Len(t) : Quiet(t[i]),
           out' = s \o <<Ev("active", a)>> \o t, ~HeadAsks'
    PROVE  FrontStep
<1> DEFINE e == Ev("active", a)
<1>1. e \in Event /\ e.ev = "active" /\ Quiet(e)
  BY Names DEF EventName, Quiet
<1> HIDE DEF e
<1>2. out' = Spliced(s, e, t, <<>>)
  <2>1. s \o <<e>> \o t \in Seq(Event)
    <3>1. <<e>> \in Seq(Event)
      BY <1>1
    <3> QED
      BY <3>1, ConcatProperties
  <2> QED
    BY <2>1, EmptyTail DEF Spliced, e
<1>3. /\ Len(out') > Len(s)
      /\ out'[Len(s) + 1] = e
      /\ \A i \in 1..Len(out') : i > Len(s) + 1 => Quiet(out'[i])
  <2> DEFINE u == <<>>
  <2>1. u \in Seq(Event) /\ \A i \in 1..Len(u) : Quiet(u[i])
    BY NothingMore
  <2> HIDE DEF u
  <2>2. /\ Len(Spliced(s, e, t, u)) > Len(s)
        /\ \A i \in 1..Len(s) : Spliced(s, e, t, u)[i] = s[i]
        /\ Spliced(s, e, t, u)[Len(s) + 1] = e
        /\ \A i \in 1..Len(Spliced(s, e, t, u)) :
              i > Len(s) + 1 => Quiet(Spliced(s, e, t, u)[i])
    BY <1>1, <2>1, ThreeParts, Zenon
  <2>3. out' = Spliced(s, e, t, u)
    BY <1>2 DEF u
  <2> QED
    BY <2>2, <2>3
<1>4. Len(s) \in Nat /\ Len(out') \in Nat
  <2>1. out' \in Seq(Event)
    <3>1. <<e>> \in Seq(Event)
      BY <1>1
    <3>2. s \o <<e>> \in Seq(Event)
      BY <3>1, ConcatProperties
    <3>3. (s \o <<e>>) \o t \in Seq(Event)
      BY <3>2, ConcatProperties
    <3> QED
      BY <3>3 DEF e
  <2> QED
    BY <2>1
<1>5. Len(s) + 1 \in 1..Len(out') /\ \A i \in 1..Len(out') : i >= Len(s) + 1 => Quiet(out'[i])
  BY <1>1, <1>3, <1>4
<1>6. Anew
  BY <1>1, <1>3, <1>5 DEF Anew
<1> QED
  BY <1>6, Zenon DEF FrontStep

\* push().
LEMMA PushFronts ==
    ASSUME TypeOK, NEW r \in Requests, queue = <<>> \/ queue[1] # r,
           NEW after \in {<<>>, <<Ev("prompt", r)>>}, Push(r, after)
    PROVE  FrontStep
<1>1. out \in Seq(Event) /\ Len(out) \in Nat /\ queue \in Seq(Requests)
  BY DEF TypeOK
<1>2. /\ Ev("request", r) \in Event /\ Ev("request", r).ev = "request" /\ Ev("request", r).id = r
      /\ Ev("prompt", r) \in Event /\ Ev("prompt", r).ev = "prompt"
  BY Names DEF EventName
<1>3. after \in Seq(Event) /\ \A i \in 1..Len(after) : Quiet(after[i])
  <2>1. CASE after = <<>>
    BY <2>1, NothingMore
  <2>2. CASE after = <<Ev("prompt", r)>>
    BY <1>2, <2>2 DEF Quiet
  <2> QED
    BY <2>1, <2>2
<1>4. /\ queue' = Append(queue, r)
      /\ pending' = Unasked(Starts(r), pending)
      /\ out' = out \o <<Ev("request", r)>> \o Activation(Starts(r)) \o after
  BY DEF Push
<1>5. CASE queue = <<>>
  <2>1. Starts(r) = <<r>> /\ queue' = <<r>>
    BY <1>4, <1>5 DEF Starts
  <2>2. Activation(<<r>>) = <<Ev("active", r)>>
    BY DEF Activation
  <2>3. out \o <<Ev("request", r)>> \in Seq(Event)
    BY <1>1, <1>2, ConcatProperties
  <2>4. ~HeadAsks'
    <3>1. pending \in [Requests -> BOOLEAN]
      BY DEF TypeOK
    <3>2. r \in Polkit => pending'[r] = FALSE
      BY <1>4, <2>1, <3>1 DEF Unasked, HeadIsPolkit
    <3> QED
      BY <2>1, <3>2 DEF HeadAsks, HeadIsPolkit
  <2>5. out' = (out \o <<Ev("request", r)>>) \o <<Ev("active", r)>> \o after
    BY <1>4, <2>1, <2>2
  <2> QED
    BY <1>3, <2>3, <2>4, <2>5, ActiveFronts
<1>6. CASE queue # <<>>
  <2>1. Starts(r) = <<>> /\ Activation(Starts(r)) = <<>> /\ pending' = pending
    BY <1>4, <1>6 DEF Starts, Activation, Unasked, HeadIsPolkit
  <2> DEFINE s == Append(out, Ev("request", r))
  <2>2. /\ s \in Seq(Event) /\ Len(s) = Len(out) + 1 /\ s[Len(out) + 1] = Ev("request", r)
        /\ \A i \in 1..Len(out) : s[i] = out[i]
    BY <1>1, <1>2, AppendProperties
  <2>3. out' = s \o after
    <3>1. out \o <<Ev("request", r)>> = s
      BY <1>1, <1>2
    <3>2. s \o <<>> = s
      BY <2>2, EmptyTail
    <3> QED
      BY <1>4, <2>1, <3>1, <3>2
  <2> HIDE DEF s
  <2>4. out' = s \/ out' = Append(s, Ev("prompt", r))
    BY <1>2, <2>2, <2>3
  <2>5. /\ Len(out') \in Nat /\ Len(out') >= Len(s)
        /\ \A i \in 1..Len(s) : out'[i] = s[i]
        /\ \A i \in 1..Len(out') : i > Len(s) => out'[i] = Ev("prompt", r)
    <3>1. CASE out' = s
      BY <2>2, <3>1
    <3>2. CASE out' = Append(s, Ev("prompt", r))
      BY <1>2, <2>2, <3>2, AppendProperties
    <3> QED
      BY <2>4, <3>1, <3>2
  <2>6. Grows
    BY <1>1, <2>2, <2>5 DEF Grows
  <2>7. \A i \in 1..Len(out') : i > Len(out) => out'[i] \in {Ev("request", r), Ev("prompt", r)}
    <3>1. \A i \in 1..Len(out') : i > Len(out) => i = Len(out) + 1 \/ i > Len(s)
      BY <1>1, <2>2, <2>5
    <3> QED
      BY <1>1, <2>2, <2>5, <3>1
  <2>8. queue'[1] = queue[1] /\ queue' # <<>>
    BY <1>1, <1>4, <1>6
  <2>9. LeavesFront
    BY <1>2, <1>6, <2>6, <2>7, <2>8 DEF LeavesFront
  <2>10. HeadAsks' => HeadAsks
    BY <1>6, <2>1, <2>8, Zenon DEF HeadAsks, HeadIsPolkit
  <2>11. \A i \in 1..Len(out') : i > Len(out) => ~Resets(out'[i])
    BY <1>2, <2>7 DEF Resets
  <2> QED
    BY <2>9, <2>10, <2>11, Zenon DEF FrontStep, Quietly
<1> QED
  BY <1>5, <1>6

\* close().
LEMMA CloseFronts ==
    ASSUME TypeOK, QueueIsTheOpenRequests, NEW r \in Requests, Open(r), NEW how, Close(r, how)
    PROVE  FrontStep
<1>1. Left(r) \in Seq(Requests) /\ out \in Seq(Event)
  BY LeftProperties DEF TypeOK
<1>2. /\ queue' = Left(r)
      /\ pending' = Unasked(Left(r), [pending EXCEPT ![r] = FALSE])
      /\ out' = out \o <<Ev("close", r)>> \o Activation(Left(r))
  BY DEF Close
<1>3. CASE Left(r) = <<>>
  BY <1>2, <1>3, Zenon DEF FrontStep
<1>4. CASE Left(r) # <<>>
  <2> DEFINE a == Left(r)[1]
             s == out \o <<Ev("close", r)>>
  <2>1. a \in Requests /\ Activation(Left(r)) = <<Ev("active", a)>>
    BY <1>1, <1>4 DEF Activation
  <2>2. s \in Seq(Event)
    <3>1. <<Ev("close", r)>> \in Seq(Event)
      BY EventsOut DEF EventName
    <3> QED
      BY <1>1, <3>1, ConcatProperties
  <2>3. ~HeadAsks'
    <3>1. pending \in [Requests -> BOOLEAN]
      BY DEF TypeOK
    <3> DEFINE p == [pending EXCEPT ![r] = FALSE]
    <3>2. p \in [Requests -> BOOLEAN]
      BY <3>1
    <3> HIDE DEF p
    <3>3. a \in Polkit => pending'[a] = FALSE
      BY <1>2, <1>4, <2>1, <3>2 DEF Unasked, HeadIsPolkit, p
    <3> QED
      BY <1>2, <3>3 DEF HeadAsks, HeadIsPolkit
  <2>4. out' = s \o <<Ev("active", a)>>
    BY <1>2, <2>1
  <2> HIDE DEF s, a
  <2>5. out' = s \o <<Ev("active", a)>> \o <<>>
    <3>1. <<Ev("active", a)>> \in Seq(Event)
      BY <2>1, EventsOut DEF EventName
    <3>2. s \o <<Ev("active", a)>> \in Seq(Event)
      BY <2>2, <3>1, ConcatProperties
    <3> QED
      BY <2>4, <3>2, EmptyTail
  <2> QED
    BY <2>1, <2>2, <2>3, <2>5, NothingMore, ActiveFronts
<1> QED
  BY <1>3, <1>4

\* A question that is taken back is not a new one.
LEMMA AsksNoMore ==
    ASSUME TypeOK, queue' = queue, NEW r \in Requests,
           pending' = pending \/ pending' = [pending EXCEPT ![r] = FALSE]
    PROVE  HeadAsks' => HeadAsks
<1>1. pending \in [Requests -> BOOLEAN] /\ queue \in Seq(Requests)
  BY DEF TypeOK
<1>2. CASE pending' = pending
  BY <1>2, Zenon DEF HeadAsks, HeadIsPolkit
<1>3. CASE pending' = [pending EXCEPT ![r] = FALSE]
  <2>1. CASE queue = <<>>
    BY <2>1, Zenon DEF HeadAsks, HeadIsPolkit
  <2>2. CASE queue # <<>> /\ queue[1] = r
    <3>1. pending'[r] = FALSE
      BY <1>1, <1>3
    <3> QED
      BY <2>2, <3>1, Zenon DEF HeadAsks, HeadIsPolkit
  <2>3. CASE queue # <<>> /\ queue[1] # r
    <3>1. queue[1] \in Requests
      BY <1>1, <2>3
    <3>2. pending'[queue[1]] = pending[queue[1]]
      BY <1>1, <1>3, <2>3, <3>1
    <3> QED
      BY <2>3, <3>2, Zenon DEF HeadAsks, HeadIsPolkit
  <2> QED
    BY <2>1, <2>2, <2>3
<1> QED
  BY <1>2, <1>3

\* What leaves the pipe and the questions alone, or writes one quiet line.
LEMMA PlainFronts ==
    ASSUME TypeOK, queue' = queue, NEW r \in Requests,
           pending' = pending \/ pending' = [pending EXCEPT ![r] = FALSE],
           \/ out' = out
           \/ \E name \in {"factor", "factorend"} : out' = Append(out, Ev(name, r))
    PROVE  FrontStep
<1>1. HeadAsks' => HeadAsks
  BY AsksNoMore
<1>2. \A name \in {"factor", "factorend"} :
         Ev(name, r) \in Event /\ Quiet(Ev(name, r)) /\ ~Resets(Ev(name, r))
  BY Names DEF EventName, Quiet, Resets
<1>3. PICK name \in {"factor", "factorend"} : out' = out \/ out' = Append(out, Ev(name, r))
  OBVIOUS
<1> QED
  BY <1>1, <1>2, <1>3, LineFronts

LEMMA CallerFronts ==
    ASSUME IInv, NEW r \in Requests, Caller(r)
    PROVE  FrontStep
<1>1. TypeOK /\ QueueIsTheOpenRequests
  BY DEF IInv, Inv
<1>2. status[r] = "new" => queue = <<>> \/ queue[1] # r
  <2>1. queue \in Seq(Requests)
    BY <1>1 DEF TypeOK
  <2>2. queue # <<>> => 1 \in DOMAIN queue
    BY <2>1
  <2> QED
    BY <1>1, <2>2 DEF QueueIsTheOpenRequests, Open
<1>3. CASE BeginAuthentication(r)
  BY <1>1, <1>2, <1>3, PushFronts DEF BeginAuthentication
<1>4. CASE AskpassRequest(r)
  BY <1>1, <1>2, <1>4, PushFronts DEF AskpassRequest
<1>5. CASE BeginRefused(r) \/ AskpassDropped(r)
  BY <1>1, <1>5, PlainFronts DEF BeginRefused, AskpassDropped
<1>6. CASE CancelAuthentication(r)
  BY <1>1, <1>6, CloseFronts DEF CancelAuthentication, Deny
<1> QED
  BY <1>3, <1>4, <1>5, <1>6 DEF Caller

LEMMA PamFronts ==
    ASSUME IInv, NEW r \in Requests,
           \/ SessionAsks(r) \/ ReaderAsks(r) \/ FingerInfo(r) \/ Authorized(r)
           \/ ReaderFails(r) \/ WrongPassword(r) \/ OutOfTries(r)
           \/ LeftReaderEnds(r)
    PROVE  FrontStep
<1>1. TypeOK /\ QueueIsTheOpenRequests
  BY DEF IInv, Inv
<1>2. CASE SessionAsks(r)
  <2>1. Ev("prompt", r) \in Event /\ Quiet(Ev("prompt", r)) /\ Ev("prompt", r).ev = "prompt"
    BY Names DEF EventName, Quiet
  <2>2. queue' = queue /\ out' = Append(out, Ev("prompt", r))
    BY <1>2 DEF SessionAsks
  <2> QED
    BY <1>1, <2>1, <2>2, LineFronts
<1>3. CASE ReaderAsks(r) \/ ReaderFails(r)
  <2>1. queue' = queue /\ pending' = pending /\ out' = Append(out, Ev("factorend", r))
    BY <1>3 DEF ReaderAsks, ReaderFails
  <2> QED
    BY <1>1, <2>1, PlainFronts
<1>4. CASE FingerInfo(r)
  <2>1. /\ queue' = queue
        /\ pending' = pending \/ pending' = [pending EXCEPT ![r] = FALSE]
        /\ out' = out \/ out' = Append(out, Ev("factor", r))
    BY <1>4 DEF FingerInfo
  <2> QED
    BY <1>1, <2>1, PlainFronts
<1>5. CASE LeftReaderEnds(r)
  BY <1>1, <1>5, PlainFronts DEF LeftReaderEnds
<1>6. CASE Authorized(r)
  BY <1>1, <1>6, CloseFronts DEF Authorized, MayWin
\* The password session is the head's: it has to ask again.
<1>7. CASE WrongPassword(r) \/ OutOfTries(r)
  <2>1. Open(r) /\ AtTheFront(r)
    <3>1. session[r] # "none"
      BY <1>7 DEF WrongPassword, OutOfTries, Counts
    <3>2. Open(r)
      BY <3>1 DEF IInv, Inv, ClosedIsOver
    <3> QED
      BY <3>1, <3>2, TalkersLead DEF Live
  <2>2. CASE WrongPassword(r)
    <3> DEFINE e == [ev |-> "failed", id |-> r, tries |-> tries[r] + 1]
    <3>1. e \in Event /\ Quiet(e)
      BY <1>1 DEF Event, EventName, TypeOK, Quiet
    <3>2. queue' = queue /\ out' = Append(out, e) /\ pending' = [pending EXCEPT ![r] = FALSE]
      BY <2>2 DEF WrongPassword
    <3> HIDE DEF e
    <3>3. pending'[r] = FALSE
      BY <1>1, <3>2 DEF TypeOK
    <3>4. ~HeadAsks'
      BY <2>1, <3>2, <3>3, Zenon DEF HeadAsks, HeadIsPolkit, AtTheFront
    <3> QED
      BY <1>1, <3>1, <3>2, <3>4, LineFronts
  <2>3. CASE OutOfTries(r)
    BY <1>1, <2>1, <2>3, CloseFronts DEF OutOfTries
  <2> QED
    BY <1>7, <2>2, <2>3
<1> QED
  BY <1>2, <1>3, <1>4, <1>5, <1>6, <1>7

LEMMA HandleFronts ==
    ASSUME IInv, NEW r \in Requests, NEW name, Handle(r, name)
    PROVE  FrontStep
<1>1. TypeOK /\ QueueIsTheOpenRequests
  BY DEF IInv, Inv
<1>2. CASE Cancel(r)
  BY <1>1, <1>2, CloseFronts DEF Cancel, Deny
<1>3. CASE RespondSudo(r)
  BY <1>1, <1>3, CloseFronts DEF RespondSudo
<1>4. CASE RespondPolkit(r)
  BY <1>1, <1>4, PlainFronts DEF RespondPolkit
<1> QED
  BY <1>2, <1>3, <1>4 DEF Handle, Respond

\* Whoever is known to the shell and closed is told so: whatever the daemon does.
LEMMA MovesTell ==
    ASSUME IInv, ViewInv, ClosedIsTold, up, NEW r \in Requests, Moves(r), UNCHANGED requests
    PROVE  ClosedIsTold'
<1>1. /\ out \in Seq(Event) /\ Len(out) \in Nat /\ status \in [Requests -> Status]
  BY Shapes
<1>2. Len(out') \in Nat /\ Len(out') >= Len(out) /\ \A i \in 1..Len(out) : out'[i] = out[i]
  <2>1. SaysNothing \/ Says(Ev("request", r)) \/ Says(Ev("close", r)) \/ out' = out
    BY DEF Moves, Talks, Turned, Arrives, Closes
  <2> QED
    BY <1>1, <2>1 DEF SaysNothing, Says
<1>3. \A i \in 1..Len(out) : i \in 1..Len(out') /\ out'[i] = out[i]
  BY <1>1, <1>2
<1>4. Ev("request", r).id = r /\ Ev("close", r).id = r
      /\ Ev("request", r).ev = "request" /\ Ev("close", r).ev = "close"
  BY DEF Ev
\* Who is announced in the step has come.
<1>5. ASSUME NEW m \in 1..Len(out'), out'[m].ev = "request"
      PROVE  m \in 1..Len(out) \/ (out'[m].id = r /\ status'[r] = "open")
  <2>1. CASE m <= Len(out)
    BY <1>1, <1>2, <2>1
  <2>2. CASE m > Len(out)
    <3>1. CASE SaysNothing \/ out' = out
      BY <1>1, <1>2, <1>5, <2>2, <3>1 DEF SaysNothing, Quiet
    <3>2. CASE Closes(r, "refused") \/ Closes(r, "granted")
      <4>1. out'[Len(out) + 1] = Ev("close", r)
            /\ \A i \in 1..Len(out') : i > Len(out) + 1 => Quiet(out'[i])
        BY <3>2 DEF Closes, Says
      <4> QED
        BY <1>1, <1>4, <1>5, <2>2, <4>1 DEF Quiet
    <3>3. CASE Arrives(r)
      <4>1. /\ out'[Len(out) + 1] = Ev("request", r)
            /\ \A i \in 1..Len(out') : i > Len(out) + 1 => Quiet(out'[i])
            /\ status'[r] = "open"
        BY <1>1, <3>3 DEF Arrives, Says
      <4> QED
        BY <1>1, <1>4, <1>5, <2>2, <4>1 DEF Quiet
    <3> QED
      BY <3>1, <3>2, <3>3 DEF Moves, Talks, Turned
  <2> QED
    BY <1>1, <1>2, <2>1, <2>2
\* Who is closed in the step is told so last.
<1>6. ASSUME NEW a \in Requests, status'[a] # "open"
      PROVE  \/ ~Open(a) /\ status[a] # "new"
             \/ status[a] = "new" /\ ~Listed(a) /\ ~Announced(a)
             \/ /\ Len(out) + 1 \in 1..Len(out')
                /\ out'[Len(out) + 1].ev = "close" /\ out'[Len(out) + 1].id = a
  <2>1. CASE status[a] = "new"
    BY <2>1 DEF ViewInv, NewIsUnknown
  <2>2. CASE Open(a)
    <3>1. Closes(r, "refused") \/ Closes(r, "granted")
      BY <1>1, <1>6, <2>2 DEF Moves, Talks, Turned, Arrives, Open
    <3>2. a = r
      BY <1>1, <1>6, <2>2, <3>1 DEF Closes, Open
    <3>3. out'[Len(out) + 1] = Ev("close", r) /\ Len(out') > Len(out)
      BY <3>1 DEF Closes, Says
    <3> QED
      BY <1>1, <1>2, <1>4, <3>2, <3>3
  <2> QED
    BY <2>1, <2>2 DEF Open
<1>7. SUFFICES ASSUME NEW a \in Requests, status'[a] # "open"
               PROVE  /\ (\E l \in 1..Len(requests) : requests[l] = a)
                           => \E i \in 1..Len(out') : out'[i].ev = "close" /\ out'[i].id = a
                      /\ \A m \in 1..Len(out') : out'[m].ev = "request" /\ out'[m].id = a
                           => \E i \in 1..Len(out') :
                                 i > m /\ out'[i].ev = "close" /\ out'[i].id = a
  BY DEF ClosedIsTold, Listed, Announces, IsClose, Open
<1>8. ASSUME NEW m \in 1..Len(out'), out'[m].ev = "request", out'[m].id = a
      PROVE  m \in 1..Len(out) /\ Announces(m, a)
  BY <1>3, <1>5, <1>7, <1>8 DEF Announces
<1>9. CASE ~Open(a) /\ status[a] # "new"
  <2>1. /\ Listed(a) => \E i \in 1..Len(out) : IsClose(i, a)
        /\ \A m \in 1..Len(out) : Announces(m, a) =>
               \E i \in 1..Len(out) : i > m /\ IsClose(i, a)
    BY <1>9 DEF ClosedIsTold
  <2> QED
    BY <1>3, <1>8, <2>1 DEF IsClose, Listed
<1>10. CASE status[a] = "new" /\ ~Listed(a) /\ ~Announced(a)
  BY <1>8, <1>10 DEF Listed, Announced
<1>11. CASE /\ Len(out) + 1 \in 1..Len(out')
            /\ out'[Len(out) + 1].ev = "close" /\ out'[Len(out) + 1].id = a
  <2>1. \A m \in 1..Len(out) : Len(out) + 1 > m
    BY <1>1
  <2> QED
    BY <1>8, <1>11, <2>1
<1> QED
  BY <1>6, <1>7, <1>9, <1>10, <1>11

\* The shell reads a line: its end of the pipe moves on by one.
LEMMA OneLineRead ==
    ASSUME IInv, ViewInv, ShellReads
    PROVE  /\ UNCHANGED <<up, queue, status, pending, cmds, running>>
           /\ Len(out) \in Nat /\ 1 \in 1..Len(out) /\ Head(out) = out[1] /\ OnEvent(out[1])
           /\ \A i \in 1..Len(out') : i + 1 \in 1..Len(out) /\ out'[i] = out[i + 1]
           /\ \A i \in 1..Len(out) : i = 1 \/ (i - 1 \in 1..Len(out') /\ out'[i - 1] = out[i])
<1>1. out \in Seq(Event) /\ Len(out) \in Nat
  BY Shapes
<1>2. out # <<>> /\ out' = Tail(out) /\ UNCHANGED <<up, queue, status, pending, cmds, running>>
  BY DEF ShellReads, Drain
<1>3. OnEvent(Head(out))
  BY DEF ShellReads
<1>4. /\ Len(out) > 0 /\ 1 \in 1..Len(out) /\ Head(out) = out[1]
      /\ Len(out') = Len(out) - 1
      /\ \A i \in 1..Len(out) - 1 : out'[i] = out[i + 1]
  BY <1>1, <1>2, HeadTailProperties
<1>5. /\ \A i \in 1..Len(out') : i + 1 \in 1..Len(out) /\ out'[i] = out[i + 1]
      /\ \A i \in 1..Len(out) : i = 1 \/ (i - 1 \in 1..Len(out') /\ out'[i - 1] = out[i])
  BY <1>1, <1>4
<1> QED
  BY <1>1, <1>2, <1>3, <1>4, <1>5

\* Whoever is closed leaves the list.
LEMMA ClosedLeaves ==
    ASSUME IInv, ViewInv, NEW e \in Requests, requests' = RemoveFirst(requests, e)
    PROVE  \A i \in 1..Len(requests') : requests'[i] # e /\ Listed(requests'[i])
<1>1. /\ requests \in Seq(Requests) /\ Len(requests) \in Nat
      /\ \A i, j \in 1..Len(requests) : requests[i] = requests[j] => i = j
  BY Shapes DEF ViewInv, ListedOnce
<1>2. CASE ~\E i \in 1..Len(requests) : requests[i] = e
  <2>1. requests' = requests
    BY <1>2 DEF RemoveFirst
  <2> QED
    BY <1>2, <2>1 DEF Listed
<1>3. ASSUME NEW n \in 1..Len(requests), requests[n] = e
      PROVE  \A i \in 1..Len(requests') : requests'[i] # e /\ Listed(requests'[i])
  <2>1. /\ Len(requests') = Len(requests) - 1
        /\ \A i \in 1..Len(requests) - 1 :
              requests'[i] = IF i < n THEN requests[i] ELSE requests[i + 1]
    BY <1>1, <1>3, RemoveFirstShifts
  <2>2. ASSUME NEW i \in 1..Len(requests')
        PROVE  \E j \in 1..Len(requests) : j # n /\ requests'[i] = requests[j]
    <3>1. i \in 1..Len(requests) /\ i + 1 \in 1..Len(requests) /\ i \in 1..Len(requests) - 1
      BY <1>1, <2>1
    <3>2. CASE i < n
      BY <2>1, <3>1, <3>2
    <3>3. CASE ~(i < n)
      <4>1. i + 1 # n /\ requests'[i] = requests[i + 1]
        BY <1>1, <2>1, <3>1, <3>3
      <4> QED
        BY <3>1, <4>1
    <3> QED
      BY <3>2, <3>3
  <2> QED
    BY <1>1, <1>3, <2>2 DEF Listed
<1> QED
  BY <1>2, <1>3

LEMMA ReadTells ==
    ASSUME IInv, ViewInv, ClosedIsTold, ShellReads
    PROVE  ClosedIsTold'
<1>1. /\ UNCHANGED <<up, queue, status, pending, cmds, running>>
      /\ Len(out) \in Nat /\ 1 \in 1..Len(out) /\ Head(out) = out[1] /\ OnEvent(out[1])
      /\ \A i \in 1..Len(out') : i + 1 \in 1..Len(out) /\ out'[i] = out[i + 1]
      /\ \A i \in 1..Len(out) : i = 1 \/ (i - 1 \in 1..Len(out') /\ out'[i - 1] = out[i])
  BY OneLineRead
<1>2. SUFFICES ASSUME up', NEW a \in Requests, status'[a] # "open"
               PROVE  /\ (\E l \in 1..Len(requests') : requests'[l] = a)
                           => \E i \in 1..Len(out') : out'[i].ev = "close" /\ out'[i].id = a
                      /\ \A m \in 1..Len(out') : out'[m].ev = "request" /\ out'[m].id = a
                           => \E i \in 1..Len(out') :
                                 i > m /\ out'[i].ev = "close" /\ out'[i].id = a
  BY DEF ClosedIsTold, Listed, Announces, IsClose, Open
<1>3. /\ Listed(a) => \E i \in 1..Len(out) : IsClose(i, a)
      /\ \A m \in 1..Len(out) : Announces(m, a) =>
             \E i \in 1..Len(out) : i > m /\ IsClose(i, a)
  <2>1. up /\ ~Open(a)
    BY <1>1, <1>2 DEF Open
  <2> QED
    BY <2>1 DEF ClosedIsTold
<1>4. ASSUME NEW m \in 1..Len(out'), out'[m].ev = "request", out'[m].id = a
      PROVE  \E i \in 1..Len(out') : i > m /\ out'[i].ev = "close" /\ out'[i].id = a
  <2>1. m + 1 \in 1..Len(out) /\ Announces(m + 1, a)
    BY <1>1, <1>4 DEF Announces
  <2>2. PICK i \in 1..Len(out) : i > m + 1 /\ IsClose(i, a)
    BY <1>3, <2>1
  <2>3. i # 1 /\ i - 1 > m
    BY <2>2
  <2> QED
    BY <1>1, <2>2, <2>3 DEF IsClose
<1>5. ASSUME \E l \in 1..Len(requests') : requests'[l] = a
      PROVE  \E i \in 1..Len(out') : out'[i].ev = "close" /\ out'[i].id = a
  <2>1. SUFFICES \E i \in 1..Len(out) : i # 1 /\ IsClose(i, a)
    BY <1>1 DEF IsClose
  <2>2. CASE Listed(a) /\ ~IsClose(1, a)
    BY <1>3, <2>2
  <2>3. CASE out[1].ev = "request" /\ OnRequest(out[1])
    <3>1. Listed(a) \/ Announces(1, a)
      <4>1. requests \in Seq(Requests) /\ Len(requests) \in Nat /\ out[1].id \in Requests
        BY <1>1, <2>3, Shapes
      <4>2. requests' = Append(requests, out[1].id)
        BY <2>3 DEF OnRequest
      <4>3. \A l \in 1..Len(requests') :
               (l \in 1..Len(requests) /\ requests'[l] = requests[l]) \/ requests'[l] = out[1].id
        BY <4>1, <4>2, AppendProperties
      <4> QED
        BY <1>5, <2>3, <4>3 DEF Listed, Announces
    <3>2. ~IsClose(1, a)
      BY <2>3 DEF IsClose
    <3>3. CASE Announces(1, a)
      <4>1. PICK i \in 1..Len(out) : i > 1 /\ IsClose(i, a)
        BY <1>1, <1>3, <3>3
      <4> QED
        BY <4>1
    <3> QED
      BY <2>2, <3>1, <3>2, <3>3
  <2>4. CASE out[1].ev = "close" /\ OnClose(out[1])
    <3>1. out[1].id \in Requests
      BY <1>1, <2>4, Shapes
    <3>2. requests' = RemoveFirst(requests, out[1].id)
      BY <2>4 DEF OnClose
    <3>3. \A i \in 1..Len(requests') : requests'[i] # out[1].id /\ Listed(requests'[i])
      BY <3>1, <3>2, ClosedLeaves
    <3> QED
      BY <1>5, <2>2, <3>3 DEF IsClose
  <2>5. CASE out[1].ev # "close" /\ requests' = requests
    BY <1>5, <2>2, <2>5 DEF IsClose, Listed
  <2>6. \/ out[1].ev = "request" /\ OnRequest(out[1])
        \/ out[1].ev = "close" /\ OnClose(out[1])
        \/ out[1].ev # "close" /\ requests' = requests
    BY <1>1 DEF OnEvent, OnActive, OnPrompt, OnFactor, OnFailed, shellVars
  <2> QED
    BY <2>3, <2>4, <2>5, <2>6
<1> QED
  BY <1>4, <1>5

LEMMA ReadAsks ==
    ASSUME IInv, ViewInv, FrontIsTold, HeadIsAsked, ShellReads
    PROVE  FrontIsTold' /\ HeadIsAsked'
<1>1. /\ UNCHANGED <<up, queue, status, pending, cmds, running>>
      /\ Len(out) \in Nat /\ 1 \in 1..Len(out) /\ Head(out) = out[1] /\ OnEvent(out[1])
      /\ \A i \in 1..Len(out') : i + 1 \in 1..Len(out) /\ out'[i] = out[i + 1]
      /\ \A i \in 1..Len(out) : i = 1 \/ (i - 1 \in 1..Len(out') /\ out'[i - 1] = out[i])
  BY OneLineRead
<1>2. FrontIsTold'
  <2>1. SUFFICES ASSUME up, queue # <<>>, NEW i \in 1..Len(out'),
                        out'[i].ev = "close" \/ (out'[i].ev = "request" /\ out'[i].id = queue[1])
                 PROVE  \E j \in 1..Len(out') : j > i /\ out'[j].ev = "active"
    BY <1>1 DEF FrontIsTold, Announces
  <2>2. i + 1 \in 1..Len(out) /\ (out[i + 1].ev = "close" \/ Announces(i + 1, queue[1]))
    BY <1>1, <2>1 DEF Announces
  <2>3. PICK j \in 1..Len(out) : j > i + 1 /\ out[j].ev = "active"
    BY <2>1, <2>2 DEF FrontIsTold
  <2>4. j # 1 /\ j - 1 > i
    BY <2>3
  <2> QED
    BY <1>1, <2>3, <2>4
<1>3. HeadIsAsked'
  <2>1. SUFFICES ASSUME up, HeadAsks
                 PROVE  Raised' \/ Shown' \/ AnswerTo(queue[1])'
    BY <1>1, Zenon DEF HeadIsAsked, HeadAsks
  <2>2. Raised \/ Shown \/ AnswerTo(queue[1])
    BY <2>1, Zenon DEF HeadIsAsked
  <2>3. CASE AnswerTo(queue[1])
    BY <1>1, <2>3 DEF AnswerTo
  <2>4. CASE Shown
    <3>1. promptReady /\ \A j \in 1..Len(out) : ~Resets(out[j])
      BY <2>4, Zenon DEF Shown, NoReset
    <3>2. ~Resets(out[1]) /\ \A j \in 1..Len(out') : ~Resets(out'[j])
      BY <1>1, <3>1 DEF Resets
    <3>3. NoReset'
      BY <3>2 DEF NoReset, Resets
    <3>4. promptReady'
      <4>1. CASE OnPrompt(out[1])
        BY <4>1, Zenon DEF OnPrompt
      <4>2. CASE \/ OnRequest(out[1]) \/ OnFactor(out[1]) \/ OnClose(out[1])
                 \/ UNCHANGED shellVars
        BY <3>1, <4>2, Zenon DEF OnRequest, OnFactor, OnClose, shellVars
      <4>3. out[1].ev # "active" /\ out[1].ev # "failed"
        BY <3>2 DEF Resets
      <4> QED
        BY <1>1, <4>1, <4>2, <4>3, Zenon DEF OnEvent
    <3> QED
      BY <3>3, <3>4, Zenon DEF Shown
  <2>5. CASE Raised
    <3>1. PICK i \in 1..Len(out) :
             out[i].ev = "prompt" /\ \A j \in 1..Len(out) : j > i => ~Resets(out[j])
      BY <2>5 DEF Raised
    <3>2. CASE i = 1
      <4>1. \A j \in 1..Len(out') : ~Resets(out'[j])
        <5>1. ASSUME NEW j \in 1..Len(out') PROVE ~Resets(out'[j])
          <6>1. j + 1 \in 1..Len(out) /\ j + 1 > i /\ out'[j] = out[j + 1]
            BY <1>1, <3>2
          <6> QED
            BY <3>1, <6>1
        <5> QED
          BY <5>1
      <4>2. NoReset'
        BY <4>1 DEF NoReset, Resets
      <4>3. OnPrompt(out[1])
        BY <1>1, <3>1, <3>2 DEF OnEvent
      <4>4. promptReady'
        BY <4>3, Zenon DEF OnPrompt
      <4> QED
        BY <4>2, <4>4, Zenon DEF Shown
    <3>3. CASE i # 1
      <4>1. i - 1 \in 1..Len(out') /\ out'[i - 1].ev = "prompt"
        BY <1>1, <3>1, <3>3
      <4>2. \A j \in 1..Len(out') : j > i - 1 => ~Resets(out'[j])
        <5>1. ASSUME NEW j \in 1..Len(out'), j > i - 1 PROVE ~Resets(out'[j])
          <6>1. j + 1 \in 1..Len(out) /\ j + 1 > i /\ out'[j] = out[j + 1]
            BY <1>1, <5>1
          <6> QED
            BY <3>1, <6>1
        <5> QED
          BY <5>1
      <4>3. Raised'
        BY <4>1, <4>2 DEF Raised, Resets
      <4> QED
        BY <4>3
    <3> QED
      BY <3>2, <3>3
  <2> QED
    BY <2>2, <2>3, <2>4, <2>5
<1> QED
  BY <1>2, <1>3

\* What the shell writes is added to what is under way.
LEMMA SendAdds ==
    ASSUME cmds \in Seq(Command), NEW name, NEW fresh, Send(name, fresh)
    PROVE  /\ \A i \in 1..Len(cmds) : i \in 1..Len(cmds') /\ cmds'[i] = cmds[i]
           /\ running => \E i \in 1..Len(cmds') : cmds'[i].cmd = name /\ cmds'[i].id = Current
<1> DEFINE c == [cmd |-> name, id |-> Current, fresh |-> fresh]
<1>1. CASE ~running
  BY <1>1 DEF Send
<1>2. CASE running
  <2>1. cmds' = Append(cmds, c) /\ c.cmd = name /\ c.id = Current
    BY <1>2 DEF Send
  <2> HIDE DEF c
  <2>2. /\ Len(cmds) \in Nat /\ Len(cmds') = Len(cmds) + 1 /\ cmds'[Len(cmds) + 1] = c
        /\ \A i \in 1..Len(cmds) : cmds'[i] = cmds[i]
    BY <2>1
  <2>3. Len(cmds) + 1 \in 1..Len(cmds') /\ \A i \in 1..Len(cmds) : i \in 1..Len(cmds')
    BY <2>2
  <2> QED
    BY <2>1, <2>2, <2>3
<1> QED
  BY <1>1, <1>2

\* A field that shows the front of the queue is drawn for it.
LEMMA ShownIsTheFront ==
    ASSUME IInv, ViewInv, ClosedIsTold, FrontIsTold, up, Active, queue # <<>>, NoReset
    PROVE  Current = queue[1]
<1> DEFINE q == queue[1]
           c == requests[1]
<1>1. /\ queue \in Seq(Requests) /\ Len(queue) \in Nat
      /\ requests \in Seq(Requests) /\ Len(requests) \in Nat
      /\ \A a \in Requests : Open(a) <=> \E i \in 1..Len(queue) : queue[i] = a
  BY Shapes
<1>2. 1 \in 1..Len(queue) /\ q \in Requests /\ Open(q)
  BY <1>1
<1>3. 1 \in 1..Len(requests) /\ c \in Requests /\ Listed(c)
  BY <1>1 DEF Active, Listed
<1> HIDE DEF q, c
<1>4. \A i \in 1..Len(out) : out[i].ev # "close" /\ ~Announces(i, q)
  BY DEF NoReset, Resets, FrontIsTold, q
<1>5. Open(c)
  BY <1>3, <1>4 DEF ClosedIsTold, IsClose
<1>6. PICK k \in 1..Len(queue) : queue[k] = c
  BY <1>1, <1>3, <1>5
<1>7. CASE k = 1
  BY <1>6, <1>7 DEF Current, q, c
<1>8. CASE k > 1
  <2>1. Ahead(q, c)
    BY <1>2, <1>6, <1>8 DEF Ahead, q
  <2>2. \A m \in 1..Len(requests) : requests[m] = c =>
           \E l \in 1..Len(requests) : l < m /\ requests[l] = q
    BY <1>2, <1>3, <2>1 DEF ViewInv, ListedInOrder
  <2>3. \E l \in 1..Len(requests) : l < 1
    BY <1>3, <2>2 DEF c
  <2> QED
    BY <1>1, <2>3
<1> QED
  BY <1>1, <1>6, <1>7, <1>8

\* An answer is written, and the field goes dead: who asks has its answer.
LEMMA SubmitAsks ==
    ASSUME IInv, ViewInv, Asked, UpIsRunning, Submit
    PROVE  Asked'
<1>1. /\ UNCHANGED <<up, queue, status, pending, out, requests>>
      /\ Active /\ Send("respond", promptFor = {Current} /\ ~PromptOnItsWay(Current))
  BY Zenon DEF Submit, vars
<1>2. ClosedIsTold' /\ FrontIsTold'
  BY <1>1 DEF Asked, ClosedIsTold, FrontIsTold, Listed, Announces, IsClose, Open
<1>3. cmds \in Seq(Command)
  BY Shapes
<1>4. /\ \A i \in 1..Len(cmds) : i \in 1..Len(cmds') /\ cmds'[i] = cmds[i]
      /\ running => \E i \in 1..Len(cmds') : cmds'[i].cmd = "respond" /\ cmds'[i].id = Current
  BY <1>1, <1>3, SendAdds
<1>5. HeadIsAsked'
  <2>1. SUFFICES ASSUME up, HeadAsks
                 PROVE  Raised' \/ Shown' \/ AnswerTo(queue[1])'
    BY <1>1, Zenon DEF HeadIsAsked, HeadAsks
  <2>2. Raised \/ Shown \/ AnswerTo(queue[1])
    BY <2>1, Zenon DEF Asked, HeadIsAsked
  <2>3. CASE Raised
    BY <1>1, <2>3 DEF Raised, Resets
  <2>4. CASE AnswerTo(queue[1])
    BY <1>1, <1>4, <2>4 DEF AnswerTo
  <2>5. CASE Shown
    <3>1. NoReset /\ queue # <<>> /\ running
      BY <2>1, <2>5, Zenon DEF Shown, HeadAsks, HeadIsPolkit, UpIsRunning
    <3>2. Current = queue[1]
      BY <1>1, <2>1, <3>1, ShownIsTheFront, Zenon DEF Asked
    <3> QED
      BY <1>1, <1>4, <3>1, <3>2 DEF AnswerTo
  <2> QED
    BY <2>2, <2>3, <2>4, <2>5
<1> QED
  BY <1>2, <1>5 DEF Asked

LEMMA CancelAsks ==
    ASSUME IInv, ViewInv, Asked, CancelPrompt
    PROVE  Asked'
<1>1. /\ UNCHANGED <<up, queue, status, pending, out, requests, promptReady>>
      /\ Send("cancel", TRUE)
  BY Zenon DEF CancelPrompt, vars, shellVars
<1>2. ClosedIsTold' /\ FrontIsTold'
  BY <1>1 DEF Asked, ClosedIsTold, FrontIsTold, Listed, Announces, IsClose, Open
<1>3. cmds \in Seq(Command)
  BY Shapes
<1>4. \A i \in 1..Len(cmds) : i \in 1..Len(cmds') /\ cmds'[i] = cmds[i]
  BY <1>1, <1>3, SendAdds
<1>5. /\ HeadAsks' <=> HeadAsks
      /\ Raised => Raised'
      /\ AnswerTo(queue[1]) => AnswerTo(queue[1])'
  <2>1. HeadAsks' <=> HeadAsks
    BY <1>1, Zenon DEF HeadAsks
  <2>2. Raised => Raised'
    BY <1>1 DEF Raised, Resets
  <2>3. AnswerTo(queue[1]) => AnswerTo(queue[1])'
    BY <1>1, <1>4 DEF AnswerTo
  <2> QED
    BY <2>1, <2>2, <2>3
<1>6. Shown => Shown'
  <2>1. NoReset => NoReset'
    BY <1>1 DEF NoReset, Resets
  <2> QED
    BY <1>1, <2>1, Zenon DEF Shown
<1>7. HeadIsAsked'
  BY <1>1, <1>5, <1>6, Zenon DEF Asked, HeadIsAsked
<1> QED
  BY <1>2, <1>7 DEF Asked

\* What the daemon does about a request.
LEMMA MoveAsks ==
    ASSUME IInv, IInv', ViewInv, Asked, up, NEW r \in Requests, Moves(r), FrontStep,
           UNCHANGED <<requests, promptReady>>,
           NEW q, q = queue[1],
           HeadAsks /\ HeadAsks' /\ AnswerTo(q) => AnswerTo(q)'
    PROVE  Asked'
<1>1. ClosedIsTold'
  BY MovesTell DEF Asked
<1>2. FrontIsTold' /\ HeadIsAsked'
  BY FrontStepKeeps DEF Asked
<1> QED
  BY <1>1, <1>2 DEF Asked

LEMMA CallerAsks ==
    ASSUME IInv, IInv', ViewInv, Asked, NEW r \in Requests, CallerActs(r)
    PROVE  Asked'
<1>1. Caller(r) /\ UNCHANGED <<cmds, requests, promptReady>>
  BY Zenon DEF CallerActs, shellVars
<1>2. up
  BY <1>1 DEF Caller, BeginAuthentication, BeginRefused, AskpassRequest, AskpassDropped,
              CancelAuthentication, Room
<1>3. Moves(r)
  BY <1>1, CallerIs DEF Moves
<1>4. FrontStep
  BY <1>1, CallerFronts
<1>5. PICK q : q = queue[1]
  OBVIOUS
<1>6. AnswerTo(q) => AnswerTo(q)'
  BY <1>1 DEF AnswerTo
<1> QED
  BY <1>1, <1>2, <1>3, <1>4, <1>5, <1>6, MoveAsks

LEMMA PamElseAsks ==
    ASSUME IInv, IInv', ViewInv, Asked, NEW r \in Requests, PamElse(r)
    PROVE  Asked'
<1>1. /\ \/ ReaderAsks(r) \/ FingerInfo(r) \/ Authorized(r)
         \/ ReaderFails(r) \/ WrongPassword(r) \/ OutOfTries(r)
         \/ LeftReaderEnds(r)
      /\ UNCHANGED <<cmds, requests, promptReady>>
  BY Zenon DEF PamElse, shellVars
<1>2. up
  BY <1>1 DEF ReaderAsks, FingerInfo, Authorized, ReaderFails, WrongPassword, OutOfTries,
              LeftReaderEnds, Room
<1>3. Moves(r)
  <2>1. Pam(r)
    BY <1>1, Zenon DEF Pam
  <2> QED
    BY <2>1, PamIs DEF Moves
<1>4. FrontStep
  BY <1>1, PamFronts
<1>5. PICK q : q = queue[1]
  OBVIOUS
<1>6. AnswerTo(q) => AnswerTo(q)'
  BY <1>1 DEF AnswerTo
<1> QED
  BY <1>1, <1>2, <1>3, <1>4, <1>5, <1>6, MoveAsks

LEMMA PamAsksAsks ==
    ASSUME IInv, IInv', ViewInv, Asked, NEW r \in Requests, PamAsks(r)
    PROVE  Asked'
<1>1. SessionAsks(r) /\ UNCHANGED <<requests, promptReady>>
  BY Zenon DEF PamAsks, shellVars
<1>2. up
  BY <1>1 DEF SessionAsks, Room
<1>3. Moves(r)
  <2>1. Pam(r)
    BY <1>1, Zenon DEF Pam
  <2> QED
    BY <2>1, PamIs DEF Moves
<1>4. FrontStep
  BY <1>1, PamFronts
<1>5. PICK q : q = queue[1]
  OBVIOUS
<1>6. AnswerTo(q) => AnswerTo(q)'
  <2>1. cmds \in Seq(Command) /\ DOMAIN cmds = 1..Len(cmds) /\ Len(cmds) \in Nat
    BY Shapes
  <2>2. cmds' = [i \in 1..Len(cmds) |->
                    IF cmds[i].id = r THEN [cmds[i] EXCEPT !.fresh = FALSE] ELSE cmds[i]]
    BY <2>1 DEF PamAsks
  <2>3. Len(cmds') = Len(cmds)
    BY <2>1, <2>2
  <2>4. \A c \in Command :
           [c EXCEPT !.fresh = FALSE].cmd = c.cmd /\ [c EXCEPT !.fresh = FALSE].id = c.id
    BY DEF Command
  <2>5. \A i \in 1..Len(cmds) : cmds'[i].cmd = cmds[i].cmd /\ cmds'[i].id = cmds[i].id
    BY <2>1, <2>2, <2>4
  <2> QED
    BY <2>3, <2>5 DEF AnswerTo
<1> QED
  BY <1>1, <1>2, <1>3, <1>4, <1>5, <1>6, MoveAsks

\* A command reaches the daemon: an answer to who asks is taken.
LEMMA DispatchAsks ==
    ASSUME IInv, IInv', ViewInv, Asked, DaemonReads
    PROVE  Asked'
<1>1. cmds # <<>> /\ cmds' = Tail(cmds) /\ UNCHANGED <<requests, promptReady>>
  BY Zenon DEF DaemonReads, shellVars
<1>2. /\ cmds \in Seq(Command) /\ 1 \in 1..Len(cmds) /\ Head(cmds) = cmds[1]
      /\ cmds[1].id \in Requests
      /\ \A i \in 1..Len(cmds) : i = 1 \/ (i - 1 \in 1..Len(cmds') /\ cmds'[i - 1] = cmds[i])
  <2>1. cmds \in Seq(Command) /\ \A i \in 1..Len(cmds) : cmds[i].id \in Requests
    BY Shapes
  <2>2. 1 \in 1..Len(cmds) /\ Head(cmds) = cmds[1] /\ Len(cmds) \in Nat
    BY <1>1, <2>1
  <2>3. /\ Len(cmds') = Len(cmds) - 1
        /\ \A i \in 1..Len(cmds) - 1 : cmds'[i] = cmds[i + 1]
    BY <1>1, <2>1, HeadTailProperties
  <2>4. \A i \in 1..Len(cmds) : i = 1 \/ (i - 1 \in 1..Len(cmds') /\ cmds'[i - 1] = cmds[i])
    BY <2>2, <2>3
  <2> QED
    BY <2>1, <2>2, <2>4
<1>3. PICK r \in Requests : r = cmds[1].id
  BY <1>2
<1>c. PICK name : name = cmds[1].cmd
  OBVIOUS
<1>4. \/ Handle(r, name)
      \/ /\ Room /\ UNCHANGED vars
         /\ IF name = "cancel" THEN ~Open(r) ELSE Ignores(r)
  BY <1>2, <1>3, <1>c DEF DaemonReads, Dispatch
<1>5. up
  BY <1>4 DEF Handle, Cancel, Respond, Room
<1>6. PICK q : q = queue[1]
  OBVIOUS
<1>7. HeadAsks => queue # <<>> /\ q \in Polkit /\ pending[q] /\ Open(q) /\ session[q] # "none"
  <2>1. SUFFICES ASSUME HeadAsks
                 PROVE  queue # <<>> /\ q \in Polkit /\ pending[q] /\ Open(q) /\ session[q] # "none"
    OBVIOUS
  <2>2. HeadIsPolkit(queue) /\ pending[q]
    BY <1>6, <2>1, Zenon DEF HeadAsks
  <2>3. queue # <<>> /\ q \in Polkit /\ session[q] # "none"
    BY <1>6, <2>2 DEF HeadIsPolkit, IInv, Inv, HeadIsBeingAsked
  <2>4. Open(q)
    <3>1. queue \in Seq(Requests) /\ \A a \in Requests : Open(a) <=> \E i \in 1..Len(queue) : queue[i] = a
      BY Shapes
    <3>2. 1 \in 1..Len(queue) /\ q \in Requests
      BY <1>6, <2>3, <3>1
    <3> QED
      BY <1>6, <3>1, <3>2
  <2> QED
    BY <2>2, <2>3, <2>4, Zenon
<1>8. ASSUME HeadAsks, HeadAsks', AnswerTo(q)
      PROVE  AnswerTo(q)'
  <2>1. PICK i \in 1..Len(cmds) : cmds[i].cmd = "respond" /\ cmds[i].id = q
    BY <1>8 DEF AnswerTo
  <2>2. CASE i = 1
    <3>1. name = "respond" /\ r = q
      BY <1>3, <1>c, <2>1, <2>2
    <3>2. ~Ignores(r)
      <4>1. pending[q] /\ session[q] # "none"
        BY <1>7, <1>8, Zenon
      <4> QED
        BY <1>7, <1>8, <3>1, <4>1, Zenon DEF Ignores
    <3>3. Handle(r, name)
      BY <1>4, <3>1, <3>2
    <3>4. RespondPolkit(q)
      BY <1>7, <1>8, <3>1, <3>3, AuthAssumption DEF Handle, Respond, RespondSudo
    <3>5. pending' = [pending EXCEPT ![q] = FALSE] /\ queue' = queue
      BY <3>4 DEF RespondPolkit
    <3>6. pending'[q] = FALSE
      BY <1>7, <1>8, <3>5 DEF IInv, TypeOK, Requests
    <3>7. ~HeadAsks'
      BY <1>6, <3>5, <3>6, Zenon DEF HeadAsks
    <3> QED
      BY <1>8, <3>7
  <2>3. CASE i # 1
    BY <1>2, <2>1, <2>3 DEF AnswerTo
  <2> QED
    BY <2>2, <2>3
<1>9. CASE Handle(r, name)
  <2>1. Talks \/ Closes(r, "refused") \/ Closes(r, "granted")
    BY <1>9, HandleIs
  <2>2. Open(r) => AtTheFront(r)
    BY <1>2, <1>3 DEF ViewInv, FrontIsNamed
  <2>3. Moves(r)
    BY <2>1, <2>2 DEF Moves, Closes
  <2>4. FrontStep
    BY <1>9, HandleFronts
  <2> QED
    BY <1>1, <1>5, <1>6, <1>8, <2>3, <2>4, MoveAsks
<1>10. CASE UNCHANGED vars
  <2>1. UNCHANGED <<up, queue, status, pending, out>>
    BY <1>10, Zenon DEF vars
  <2>2. TypeOK
    BY DEF IInv
  <2>3. Moves(r)
    <3>1. SaysNothing
      BY <2>1, <2>2 DEF SaysNothing, TypeOK
    <3> QED
      BY <2>1, <3>1 DEF Moves, Talks
  <2>4. FrontStep
    BY <2>1, <2>2, PlainFronts
  <2> QED
    BY <1>1, <1>5, <1>6, <1>8, <2>3, <2>4, MoveAsks
<1> QED
  BY <1>4, <1>9, <1>10, Zenon

\* The daemon's end is the end of its queue; the next has said nothing yet.
LEMMA EndAsks ==
    ASSUME IInv, ViewInv, Asked, Kept, DaemonDies \/ OnExited \/ Restart \/ UNCHANGED sysVars
    PROVE  Asked'
<1>1. CASE DaemonDies \/ OnExited
  <2>1. ~up'
    BY <1>1, Zenon DEF DaemonDies, Crash, Gone, Ended, OnExited, vars
  <2> QED
    BY <2>1, Zenon DEF Asked, ClosedIsTold, FrontIsTold, HeadIsAsked
<1>2. CASE Restart
  <2>1. /\ ~up /\ ~running /\ out' = <<[ev |-> "ready"]>> /\ UNCHANGED <<queue, requests>>
    BY <1>2, Zenon DEF Restart, Start, shellVars
  <2>2. /\ requests' = <<>> /\ queue' = <<>>
    <3>1. queue \in Seq(Requests) /\ \A a \in Requests : Open(a) <=> \E i \in 1..Len(queue) : queue[i] = a
      BY Shapes
    <3>2. queue = <<>>
      <4>1. \A i \in 1..Len(queue) : queue[i] \in Requests
        BY <3>1
      <4>2. \A a \in Requests : ~Open(a)
        BY <2>1 DEF ViewInv, DownIsEmpty
      <4>3. \A i \in 1..Len(queue) : FALSE
        BY <3>1, <4>1, <4>2
      <4> QED
        BY <3>1, <4>3
    <3> QED
      BY <2>1, <3>2 DEF Kept, StoppedIsForgotten
  <2>3. /\ \A i \in 1..Len(requests') : FALSE
        /\ \A i \in 1..Len(out') : out'[i].ev # "request"
    BY <2>1, <2>2
  <2>4. ClosedIsTold'
    BY <2>3 DEF ClosedIsTold, Listed, Announces
  <2>5. FrontIsTold' /\ HeadIsAsked'
    BY <2>2, Zenon DEF FrontIsTold, HeadIsAsked, HeadAsks, HeadIsPolkit
  <2> QED
    BY <2>4, <2>5 DEF Asked
<1>3. CASE UNCHANGED sysVars
  <2>1. UNCHANGED <<up, queue, status, pending, out, requests, cmds, promptReady>>
    BY <1>3, Zenon DEF sysVars, vars, shellVars
  <2>2. ClosedIsTold' /\ FrontIsTold'
    BY <2>1 DEF Asked, ClosedIsTold, FrontIsTold, Listed, Announces, IsClose, Open
  <2>3. HeadIsAsked'
    <3>1. HeadAsks' <=> HeadAsks
      BY <2>1, Zenon DEF HeadAsks
    <3>2. /\ Raised => Raised'
          /\ NoReset => NoReset'
          /\ AnswerTo(queue[1]) => AnswerTo(queue[1])'
      BY <2>1 DEF Raised, NoReset, Resets, AnswerTo
    <3> QED
      BY <2>1, <3>1, <3>2, Zenon DEF Asked, HeadIsAsked, Shown
  <2> QED
    BY <2>2, <2>3 DEF Asked
<1> QED
  BY <1>1, <1>2, <1>3

LEMMA StepAsks ==
    ASSUME IInv, IInv', ViewInv, Asked, Kept, [SysNext]_sysVars
    PROVE  Asked'
<1>1. CASE \E r \in Requests : CallerActs(r) \/ PamAsks(r) \/ PamElse(r)
  BY <1>1, CallerAsks, PamAsksAsks, PamElseAsks
<1>2. CASE DaemonReads
  BY <1>2, DispatchAsks
<1>3. CASE ShellReads
  BY <1>3, ReadTells, ReadAsks DEF Asked
<1>4. CASE Submit \/ CancelPrompt
  BY <1>4, SubmitAsks, CancelAsks DEF Kept
<1>5. CASE DaemonDies \/ OnExited \/ Restart \/ UNCHANGED sysVars
  BY <1>5, EndAsks
<1> QED
  BY <1>1, <1>2, <1>3, <1>4, <1>5, Zenon DEF SysNext

LEMMA StepKeepsField ==
    ASSUME UnsentIsOpen, [SysNext]_sysVars
    PROVE  UnsentIsOpen'
<1>1. CASE UNCHANGED shellVars
  BY <1>1, Zenon DEF UnsentIsOpen, shellVars
<1>2. CASE ShellReads
  <2> DEFINE e == Head(out)
  <2>1. CASE OnPrompt(e)
    BY <2>1 DEF OnPrompt, UnsentIsOpen
  <2>2. CASE OnActive(e) \/ OnFailed(e)
    BY <2>2, Zenon DEF OnActive, OnFailed, UnsentIsOpen
  <2>3. CASE OnRequest(e) \/ OnFactor(e) \/ OnClose(e)
    BY <2>3, Zenon DEF OnRequest, OnFactor, OnClose, UnsentIsOpen
  <2>4. OnEvent(e)
    BY <1>2 DEF ShellReads
  <2> HIDE DEF e
  <2> QED
    BY <1>1, <2>1, <2>2, <2>3, <2>4, Zenon DEF OnEvent
<1>3. CASE Submit
  BY <1>3, Zenon DEF Submit, UnsentIsOpen
<1>4. CASE OnExited
  BY <1>4, Zenon DEF OnExited, UnsentIsOpen
<1> QED
  BY <1>1, <1>2, <1>3, <1>4, Zenon
  DEF SysNext, sysVars, CallerActs, PamAsks, PamElse, DaemonReads, CancelPrompt, DaemonDies, Restart

LEMMA StepKeepsProcess ==
    ASSUME TypeOK, UpIsRunning, StoppedIsForgotten, [SysNext]_sysVars
    PROVE  UpIsRunning' /\ StoppedIsForgotten'
<1>1. CASE running /\ (OnExited \/ Restart)
  <2>1. CASE OnExited
    BY <2>1, Zenon DEF OnExited, UpIsRunning, StoppedIsForgotten, vars
  <2>2. CASE Restart
    BY <2>2, <1>1, Zenon DEF Restart
  <2> QED
    BY <1>1, <2>1, <2>2
<1>2. CASE running /\ ~OnExited /\ ~Restart
  <2>1. running'
    BY <1>2, Zenon DEF SysNext, sysVars, CallerActs, PamAsks, PamElse, DaemonReads, ShellReads,
          Submit, CancelPrompt, DaemonDies
  <2> QED
    BY <2>1, Zenon DEF UpIsRunning, StoppedIsForgotten
<1>3. CASE ~running
  <2>1. ~up /\ requests = <<>> /\ out = <<>>
    BY <1>3, Zenon DEF UpIsRunning, StoppedIsForgotten
  <2>2. CASE Restart
    BY <2>2, Zenon DEF Restart, UpIsRunning, StoppedIsForgotten
  <2>3. CASE UNCHANGED <<up, out, requests, running>>
    BY <1>3, <2>1, <2>3, Zenon DEF UpIsRunning, StoppedIsForgotten
  <2>4. CASE \E r \in Requests : CallerActs(r) \/ PamAsks(r) \/ PamElse(r)
    BY <2>1, <2>4 DEF CallerActs, PamAsks, PamElse, Caller, BeginAuthentication, BeginRefused,
          AskpassRequest, AskpassDropped, CancelAuthentication, SessionAsks, ReaderAsks,
          FingerInfo, Authorized, ReaderFails, WrongPassword, OutOfTries, LeftReaderEnds, Room
  <2>5. CASE DaemonReads
    <3>1. Room
      BY <2>5 DEF DaemonReads, Dispatch, Handle, Cancel, Respond
    <3> QED
      BY <2>1, <3>1 DEF Room
  <2>6. CASE ShellReads \/ DaemonDies
    BY <2>1, <2>6, Zenon DEF ShellReads, Drain, DaemonDies, Crash, Gone, Ended
  <2>7. CASE Submit \/ CancelPrompt
    BY <2>1, <2>7 DEF Submit, CancelPrompt, Active
  <2>8. CASE OnExited
    BY <1>3, <2>8 DEF OnExited
  <2>9. CASE UNCHANGED sysVars
    BY <2>3, <2>9, Zenon DEF sysVars, vars, shellVars
  <2> QED
    BY <2>2, <2>4, <2>5, <2>6, <2>7, <2>8, <2>9, Zenon DEF SysNext
<1> QED
  BY <1>1, <1>2, <1>3, Zenon

\* Somebody whom PAM waits for has a live field as soon as the pipes are read:
\* no answer that crossed a close, a retry or a new head is lost with the
\* prompt left saying "Checking", in any number of crashes and restarts.
THEOREM FieldIsLive == SysSpec => []FieldLiveWhenAsked
<1>1. SysInit => Asked /\ Kept
  <2> SUFFICES ASSUME SysInit PROVE Asked /\ Kept
    OBVIOUS
  <2>1. /\ queue = <<>> /\ requests = <<>> /\ out = <<[ev |-> "ready"]>>
    BY DEF SysInit, Init
  <2>2. /\ \A i \in 1..Len(requests) : FALSE
        /\ \A i \in 1..Len(out) : out[i].ev # "request"
    BY <2>1
  <2>3. ClosedIsTold
    BY <2>2 DEF ClosedIsTold, Listed, Announces
  <2>4. FrontIsTold /\ HeadIsAsked
    BY <2>1, Zenon DEF FrontIsTold, HeadIsAsked, HeadAsks, HeadIsPolkit
  <2>5. Kept
    BY Zenon DEF SysInit, Kept, UpIsRunning, StoppedIsForgotten, UnsentIsOpen
  <2> QED
    BY <2>3, <2>4, <2>5 DEF Asked
<1>2. IInv /\ IInv' /\ ViewInv /\ Asked /\ Kept /\ [SysNext]_sysVars => Asked' /\ Kept'
  <2> SUFFICES ASSUME IInv, IInv', ViewInv, Asked, Kept, [SysNext]_sysVars
               PROVE  Asked' /\ Kept'
    OBVIOUS
  <2>1. Asked'
    BY StepAsks
  <2>2. TypeOK /\ UpIsRunning /\ StoppedIsForgotten /\ UnsentIsOpen
    BY DEF IInv, Kept
  <2>3. UnsentIsOpen' /\ UpIsRunning' /\ StoppedIsForgotten'
    BY <2>2, StepKeepsField, StepKeepsProcess
  <2> QED
    BY <2>1, <2>3 DEF Kept
<1>3. Asked /\ Kept => FieldLiveWhenAsked
  <2> SUFFICES ASSUME Asked, Kept, up, out = <<>>, cmds = <<>>,
                      HeadIsPolkit(queue), pending[queue[1]]
               PROVE  promptReady /\ stage # "verifying"
    BY Zenon DEF FieldLiveWhenAsked
  <2>1. Raised \/ Shown \/ AnswerTo(queue[1])
    BY Zenon DEF Asked, HeadIsAsked, HeadAsks
  <2>2. ~Raised /\ ~AnswerTo(queue[1])
    BY DEF Raised, AnswerTo
  <2> QED
    BY <2>1, <2>2, Zenon DEF Shown, Kept, UnsentIsOpen
<1>4. SysSpec => [](Asked /\ Kept)
  BY <1>1, <1>2, SysInvariance, PTL DEF SysSpec
<1> QED
  BY <1>3, <1>4, PTL
-----------------------------------------------------------------------------
(* What the pipe holds, read to its end.  ViewCatchesUp folds ReadOne over  *)
(* the lines; the invariant behind it names instead what the list passes    *)
(* through on the way, one list per line, which a line more at either end   *)
(* changes by one entry.  That the two say the same is an induction over    *)
(* the lines, for which a set of numbers stands in for the predicate.       *)

\* A set of numbers that is not empty has a least one.
LEMMA LeastNumber ==
    ASSUME NEW T \in SUBSET Nat, T # {}
    PROVE  \E n \in T : \A m \in T : ~(m < n)
<1>1. PICK n \in T : \A m \in T : ~(<<m, n>> \in OpToRel(<, Nat))
  BY NatLessThanWellFounded, WFMin
<1>2. ASSUME NEW m \in T PROVE ~(m < n)
  <2>1. <<m, n>> \notin OpToRel(<, Nat)
    BY <1>1
  <2>2. <<m, n>> \in Nat \X Nat /\ <<m, n>>[1] = m /\ <<m, n>>[2] = n
    OBVIOUS
  <2> QED
    BY <2>1, <2>2 DEF OpToRel
<1> QED
  BY <1>2

\* Induction for a set of numbers.
LEMMA SetInduction ==
    ASSUME NEW A, 0 \in A, \A n \in Nat : n \in A => n + 1 \in A
    PROVE  \A n \in Nat : n \in A
<1> DEFINE T == {n \in Nat : n \notin A}
<1>1. SUFFICES ASSUME T # {} PROVE FALSE
  OBVIOUS
<1>2. PICK n \in T : \A m \in T : ~(m < n)
  BY <1>1, LeastNumber
<1>3. n \in Nat /\ n # 0 /\ n \notin A
  BY <1>2
<1>4. n - 1 \in Nat /\ n - 1 < n /\ (n - 1) + 1 = n
  BY <1>3
<1>5. n - 1 \in A
  BY <1>2, <1>4
<1> QED
  BY <1>3, <1>4, <1>5

\* One step of the fold, and the table of the folds of every set of the first k
\* lines.
Folded(v, s, g, t) == IF t = {} THEN v ELSE ReadOne(g[t \ {Max(t)}], s[Max(t)])
FoldTable(v, s, D, g) == g = [t \in SUBSET D |-> Folded(v, s, g, t)]
Tabled(v, s, k) == \E g : FoldTable(v, s, 1..k, g)

\* The last line of a set of lines that reaches up to it.
LEMMA NextMax ==
    ASSUME NEW k \in Nat, NEW t \in SUBSET (1..k + 1), k + 1 \in t
    PROVE Max(t) = k + 1
<1>1. k + 1 \in t /\ \A y \in t : k + 1 >= y
  OBVIOUS
<1>2. \A x \in t : (\A y \in t : x >= y) => x = k + 1
  OBVIOUS
<1> QED
  BY <1>1, <1>2 DEF Max

\* A table for k lines gives one for a line more.
LEMMA TableGrows ==
    ASSUME NEW v, NEW s, NEW k \in Nat, Tabled(v, s, k)
    PROVE  Tabled(v, s, k + 1)
<1>1. PICK g : FoldTable(v, s, 1..k, g)
  BY DEF Tabled
<1> DEFINE w == [t \in SUBSET (1..k + 1) |->
                   IF k + 1 \in t THEN ReadOne(g[t \ {k + 1}], s[k + 1]) ELSE g[t]]
<1>2. ASSUME NEW t \in SUBSET (1..k + 1) PROVE w[t] = Folded(v, s, w, t)
  <2>1. CASE k + 1 \in t
    <3>1. Max(t) = k + 1 /\ t # {}
      BY <2>1, NextMax
    <3>2. t \ {k + 1} \in SUBSET (1..k + 1) /\ k + 1 \notin t \ {k + 1}
      OBVIOUS
    <3>3. w[t \ {k + 1}] = g[t \ {k + 1}]
      BY <3>2
    <3> QED
      BY <2>1, <3>1, <3>3 DEF Folded
  <2>2. CASE k + 1 \notin t
    <3>1. t \in SUBSET (1..k)
      <4>1. ASSUME NEW x \in t PROVE x \in 1..k
        <5>1. x \in 1..k + 1 /\ x # k + 1
          BY <2>2
        <5> QED
          BY <5>1
      <4> QED
        BY <4>1
    <3>2. g[t] = Folded(v, s, g, t)
      BY <1>1, <3>1, Zenon DEF FoldTable
    <3>3. ASSUME NEW x PROVE w[t \ {x}] = g[t \ {x}]
      <4>1. t \ {x} \in SUBSET (1..k + 1) /\ k + 1 \notin t \ {x}
        BY <2>2
      <4> QED
        BY <4>1
    <3>4. w[t] = g[t]
      BY <2>2
    <3> HIDE DEF w
    <3> QED
      BY <3>2, <3>3, <3>4, Zenon DEF Folded
  <2> QED
    BY <2>1, <2>2
<1>3. DOMAIN w = SUBSET (1..k + 1) /\ w = [t \in SUBSET (1..k + 1) |-> w[t]]
  OBVIOUS
<1> HIDE DEF w
<1>4. w = [t \in SUBSET (1..k + 1) |-> Folded(v, s, w, t)]
  BY <1>2, <1>3
<1> QED
  BY <1>4, Zenon DEF Tabled, FoldTable

\* So the recursion FoldLeft is defined by has a solution.
LEMMA TableExists ==
    ASSUME NEW v, NEW s, NEW n \in Nat
    PROVE Tabled(v, s, n)
<1> DEFINE A == {k \in Nat : Tabled(v, s, k)}
<1>1. 0 \in A
  <2> DEFINE g == [t \in SUBSET (1..0) |-> v]
  <2>1. \A t \in SUBSET (1..0) : t = {}
    <3>1. \A x \in 1..0 : FALSE
      OBVIOUS
    <3> QED
      BY <3>1
  <2>2. \A t \in SUBSET (1..0) : v = Folded(v, s, g, t)
    BY <2>1, Zenon DEF Folded
  <2>3. g = [t \in SUBSET (1..0) |-> Folded(v, s, g, t)]
    BY <2>2, Zenon
  <2> HIDE DEF g
  <2>4. Tabled(v, s, 0)
    BY <2>3, Zenon DEF Tabled, FoldTable
  <2> QED
    BY <2>4
<1>2. \A k \in Nat : k \in A => k + 1 \in A
  BY TableGrows
<1> HIDE DEF A
<1>3. n \in A
  BY <1>1, <1>2, SetInduction
<1> QED
  BY <1>3 DEF A

\* FoldLeft is read off it.
LEMMA FoldIs ==
    ASSUME NEW v, NEW s
    PROVE FoldLeft(ReadOne, v, s) = (CHOOSE g : FoldTable(v, s, DOMAIN s, g))[DOMAIN s]
BY Zenon DEF FoldLeft, MapThenFoldSet, FoldTable, Folded

\* h is what the list goes through as it is read.
Passes(v, s, h) == h[0] = v /\ \A i \in 1..Len(s) : h[i] = ReadOne(h[i - 1], s[i])
ReadsTo(v, s, q) == \E h : Passes(v, s, h) /\ h[Len(s)] = q

\* What the list passes through ends where the fold does.
LEMMA ReadingIsFolding ==
    ASSUME NEW S, NEW v, NEW s \in Seq(S), NEW q, ReadsTo(v, s, q)
    PROVE  FoldLeft(ReadOne, v, s) = q
<1> DEFINE n == Len(s)
<1>1. n \in Nat /\ DOMAIN s = 1..n
  OBVIOUS
<1>2. PICK h : Passes(v, s, h) /\ h[n] = q
  BY DEF ReadsTo
<1>3. \E g : FoldTable(v, s, 1..n, g)
  BY <1>1, TableExists DEF Tabled
<1>4. PICK g : g = (CHOOSE f : FoldTable(v, s, 1..n, f))
  OBVIOUS
<1>5. FoldTable(v, s, 1..n, g)
  BY <1>3, <1>4, Zenon
<1>6. FoldLeft(ReadOne, v, s) = g[1..n]
  BY <1>1, <1>4, FoldIs, Zenon
<1> HIDE DEF n
<1> DEFINE A == {i \in Nat : i <= n => g[1..i] = h[i]}
<1>7. 0 \in A
  <2>1. 1..0 = {} /\ 1..0 \in SUBSET (1..n)
    OBVIOUS
  <2>2. g[1..0] = v
    BY <1>5, <2>1, Zenon DEF FoldTable, Folded
  <2> QED
    BY <1>2, <2>2 DEF Passes
<1>8. ASSUME NEW i \in Nat, i \in A PROVE i + 1 \in A
  <2> SUFFICES ASSUME i + 1 <= n PROVE g[1..i + 1] = h[i + 1]
    OBVIOUS
  <2>1. /\ i <= n /\ i + 1 \in 1..n /\ (i + 1) - 1 = i
        /\ 1..i + 1 \in SUBSET (1..n) /\ i + 1 \in 1..i + 1
    BY <1>1
  <2>2. g[1..i] = h[i]
    BY <1>8, <2>1
  <2>3. Max(1..i + 1) = i + 1
    BY NextMax
  <2>4. (1..i + 1) \ {i + 1} = 1..i
    OBVIOUS
  <2>5. 1..i + 1 # {}
    BY <2>1
  <2>6. g[1..i + 1] = ReadOne(g[(1..i + 1) \ {Max(1..i + 1)}], s[Max(1..i + 1)])
    BY <1>5, <2>1, <2>5, Zenon DEF FoldTable, Folded
  <2>7. g[1..i + 1] = ReadOne(h[i], s[i + 1])
    BY <2>2, <2>3, <2>4, <2>6, Zenon
  <2>8. h[i + 1] = ReadOne(h[(i + 1) - 1], s[i + 1])
    BY <1>2, <2>1, Zenon DEF Passes, n
  <2> QED
    BY <2>1, <2>7, <2>8, Zenon
<1> HIDE DEF A
<1>9. n \in A
  BY <1>1, <1>7, <1>8, SetInduction
<1> QED
  BY <1>1, <1>2, <1>6, <1>9 DEF A

\* Lines that neither announce nor close leave the list where it is.
LEMMA ReadsQuietly ==
    ASSUME NEW v, NEW q, NEW s \in Seq(Event), NEW w \in Seq(Event), ReadsTo(v, s, q),
           Len(w) >= Len(s), \A i \in 1..Len(s) : w[i] = s[i],
           \A i \in 1..Len(w) : i > Len(s) => Quiet(w[i])
    PROVE  ReadsTo(v, w, q)
<1>1. PICK h : Passes(v, s, h) /\ h[Len(s)] = q
  BY DEF ReadsTo
<1>2. Len(s) \in Nat /\ Len(w) \in Nat
  OBVIOUS
<1> DEFINE g == [i \in 0..Len(w) |-> IF i <= Len(s) THEN h[i] ELSE q]
<1>3. g[0] = v /\ g[Len(w)] = q
  BY <1>1, <1>2 DEF Passes
<1>4. ASSUME NEW i \in 1..Len(w) PROVE g[i] = ReadOne(g[i - 1], w[i])
  <2>1. i - 1 \in 0..Len(w) /\ i \in 0..Len(w)
    BY <1>2
  <2>2. CASE i <= Len(s)
    <3>1. i \in 1..Len(s) /\ g[i] = h[i] /\ g[i - 1] = h[i - 1]
      BY <1>2, <2>1, <2>2
    <3>2. h[i] = ReadOne(h[i - 1], s[i]) /\ w[i] = s[i]
      BY <1>1, <3>1, Zenon DEF Passes
    <3> QED
      BY <3>1, <3>2, Zenon
  <2>3. CASE i > Len(s)
    <3>1. g[i] = q /\ g[i - 1] = q
      BY <1>1, <1>2, <2>1, <2>3
    <3>2. ReadOne(q, w[i]) = q
      BY <2>3 DEF ReadOne, Quiet
    <3> QED
      BY <3>1, <3>2, Zenon
  <2> QED
    BY <1>2, <2>2, <2>3
<1> HIDE DEF g
<1> QED
  BY <1>3, <1>4, Zenon DEF ReadsTo, Passes

\* A line that does, moves its end by what that line does.
LEMMA ReadsOn ==
    ASSUME NEW v, NEW q, NEW e, NEW s \in Seq(Event), NEW w \in Seq(Event), ReadsTo(v, s, q),
           Len(w) > Len(s), \A i \in 1..Len(s) : w[i] = s[i], w[Len(s) + 1] = e,
           \A i \in 1..Len(w) : i > Len(s) + 1 => Quiet(w[i])
    PROVE  ReadsTo(v, w, ReadOne(q, e))
<1>1. PICK h : Passes(v, s, h) /\ h[Len(s)] = q
  BY DEF ReadsTo
<1>2. Len(s) \in Nat /\ Len(w) \in Nat
  OBVIOUS
<1> DEFINE p == ReadOne(q, e)
           g == [i \in 0..Len(w) |-> IF i <= Len(s) THEN h[i] ELSE p]
<1> HIDE DEF p
<1>3. g[0] = v /\ g[Len(w)] = p
  BY <1>1, <1>2 DEF Passes
<1>4. ASSUME NEW i \in 1..Len(w) PROVE g[i] = ReadOne(g[i - 1], w[i])
  <2>1. i - 1 \in 0..Len(w) /\ i \in 0..Len(w)
    BY <1>2
  <2>2. CASE i <= Len(s)
    <3>1. i \in 1..Len(s) /\ g[i] = h[i] /\ g[i - 1] = h[i - 1]
      BY <1>2, <2>1, <2>2
    <3>2. h[i] = ReadOne(h[i - 1], s[i]) /\ w[i] = s[i]
      BY <1>1, <3>1, Zenon DEF Passes
    <3> QED
      BY <3>1, <3>2, Zenon
  <2>3. CASE i = Len(s) + 1
    <3>1. g[i] = p /\ g[i - 1] = q /\ w[i] = e
      BY <1>1, <1>2, <2>1, <2>3
    <3> QED
      BY <3>1, Zenon DEF p
  <2>4. CASE i > Len(s) + 1
    <3>1. g[i] = p /\ g[i - 1] = p
      BY <1>1, <1>2, <2>1, <2>4
    <3>2. ReadOne(p, w[i]) = p
      BY <2>4 DEF ReadOne, Quiet
    <3> QED
      BY <3>1, <3>2, Zenon
  <2> QED
    BY <1>2, <2>2, <2>3, <2>4
<1> HIDE DEF g
<1> QED
  BY <1>3, <1>4, Zenon DEF ReadsTo, Passes, p

\* Reading the first line moves its start.
LEMMA ReadsTheRest ==
    ASSUME NEW v, NEW q, NEW s \in Seq(Event), s # <<>>, ReadsTo(v, s, q)
    PROVE  ReadsTo(ReadOne(v, s[1]), Tail(s), q)
<1>1. PICK h : Passes(v, s, h) /\ h[Len(s)] = q
  BY DEF ReadsTo
<1>2. /\ Len(s) \in Nat /\ Len(s) > 0 /\ Len(Tail(s)) = Len(s) - 1
      /\ \A i \in 1..Len(s) - 1 : Tail(s)[i] = s[i + 1]
  BY HeadTailProperties
<1> DEFINE g == [i \in 0..Len(s) - 1 |-> h[i + 1]]
<1>3. g[0] = ReadOne(v, s[1])
  <2>1. h[1] = ReadOne(h[0], s[1]) /\ h[0] = v
    <3>1. 1 \in 1..Len(s) /\ 1 - 1 = 0
      BY <1>2
    <3> QED
      BY <1>1, <3>1, Zenon DEF Passes
  <2>2. g[0] = h[1]
    BY <1>2
  <2> QED
    BY <2>1, <2>2, Zenon
<1>4. g[Len(Tail(s))] = q
  BY <1>1, <1>2
<1>5. ASSUME NEW i \in 1..Len(Tail(s)) PROVE g[i] = ReadOne(g[i - 1], Tail(s)[i])
  <2>1. /\ i + 1 \in 1..Len(s) /\ (i + 1) - 1 = i /\ Tail(s)[i] = s[i + 1]
        /\ g[i] = h[i + 1] /\ g[i - 1] = h[i]
    BY <1>2
  <2>2. h[i + 1] = ReadOne(h[(i + 1) - 1], s[i + 1])
    BY <1>1, <2>1, Zenon DEF Passes
  <2> QED
    BY <2>1, <2>2, Zenon
<1> HIDE DEF g
<1> QED
  BY <1>3, <1>4, <1>5, Zenon DEF ReadsTo, Passes

CatchingUp == up /\ running => ReadsTo(requests, out, queue)

\* The daemon writes what it does to its queue.
LEMMA MovesAreTold ==
    ASSUME IInv, IInv', NEW r \in Requests, Moves(r), ReadsTo(requests, out, queue)
    PROVE  ReadsTo(requests, out', queue')
<1>1. out \in Seq(Event) /\ out' \in Seq(Event)
  BY DEF IInv, TypeOK
<1>2. CASE Talks
  BY <1>1, <1>2, ReadsQuietly DEF Talks, SaysNothing
<1>3. CASE Turned(r)
  BY <1>3, Zenon DEF Turned
<1>4. CASE Arrives(r)
  <2>1. ReadOne(queue, Ev("request", r)) = Append(queue, r)
    BY DEF ReadOne, Ev
  <2>2. ReadsTo(requests, out', ReadOne(queue, Ev("request", r)))
    BY <1>1, <1>4, ReadsOn DEF Arrives, Says
  <2> QED
    BY <1>4, <2>1, <2>2, Zenon DEF Arrives
<1>5. ASSUME NEW how, Closes(r, how) PROVE ReadsTo(requests, out', queue')
  <2>1. ReadOne(queue, Ev("close", r)) = Left(r)
    BY DEF ReadOne, Ev, Left
  <2>2. ReadsTo(requests, out', ReadOne(queue, Ev("close", r)))
    BY <1>1, <1>5, ReadsOn DEF Closes, Says
  <2> QED
    BY <1>5, <2>1, <2>2, Zenon DEF Closes
<1> QED
  BY <1>2, <1>3, <1>4, <1>5, Zenon DEF Moves

\* A fresh daemon has told the shell nothing yet.
LEMMA ReadsReady ==
    ASSUME NEW v
    PROVE  ReadsTo(v, <<[ev |-> "ready"]>>, v)
<1> DEFINE g == [i \in 0..1 |-> v]
<1>1. g[0] = v /\ g[1] = v
  OBVIOUS
<1>2. ReadOne(v, [ev |-> "ready"]) = v
  BY DEF ReadOne
<1>3. /\ Len(<<[ev |-> "ready"]>>) = 1 /\ <<[ev |-> "ready"]>>[1] = [ev |-> "ready"]
      /\ \A i \in 1..1 : i = 1 /\ i - 1 = 0
  OBVIOUS
<1> HIDE DEF g
<1>4. \A i \in 1..1 : g[i] = ReadOne(g[i - 1], <<[ev |-> "ready"]>>[i])
  BY <1>1, <1>2, <1>3, Zenon
<1>5. Passes(v, <<[ev |-> "ready"]>>, g)
  BY <1>1, <1>3, <1>4, Zenon DEF Passes
<1> QED
  BY <1>1, <1>3, <1>5, Zenon DEF ReadsTo

\* The shell reads a line as ReadOne says.
LEMMA OneIsRead ==
    ASSUME IInv, ViewInv, ShellReads, ReadsTo(requests, out, queue)
    PROVE  ReadsTo(requests', out', queue')
<1>1. out \in Seq(Event) /\ out # <<>> /\ out' = Tail(out) /\ queue' = queue
  BY DEF IInv, TypeOK, ShellReads, Drain
<1>2. OnEvent(out[1])
  BY OneLineRead
<1> DEFINE e == out[1]
<1>3. requests' = ReadOne(requests, e)
  <2> HIDE DEF e
  <2> SUFFICES ASSUME OnEvent(e) PROVE requests' = ReadOne(requests, e)
    BY <1>2 DEF e
  <2>1. CASE e.ev = "request" /\ OnRequest(e)
    BY <2>1 DEF OnRequest, ReadOne
  <2>2. CASE e.ev = "close" /\ OnClose(e)
    BY <2>2 DEF OnClose, ReadOne
  <2>3. CASE e.ev \notin {"request", "close"} /\ requests' = requests
    BY <2>3 DEF ReadOne
  <2> QED
    BY <2>1, <2>2, <2>3 DEF OnEvent, OnActive, OnPrompt, OnFactor, OnFailed, shellVars
<1>4. ReadsTo(ReadOne(requests, out[1]), Tail(out), queue)
  BY <1>1, ReadsTheRest
<1> QED
  BY <1>1, <1>3, <1>4, Zenon

\* The daemon moves on, or not, and the shell has nothing to do with it.
Told ==
    /\ UNCHANGED <<requests, running>>
    /\ Talks \/ \E r \in Requests : Moves(r)

\* What a step of the joined system is to the queue, the list and the pipe.
LEMMA StepIsTold ==
    ASSUME IInv, ViewInv, [SysNext]_sysVars
    PROVE  \/ ShellReads /\ UNCHANGED <<up, running>>
           \/ ~up'
           \/ Restart
           \/ Told
<1>0. ASSUME UNCHANGED <<up, queue, status, out>> PROVE Talks
  <2>1. SaysNothing
    <3>1. out \in Seq(Event)
      BY DEF IInv, TypeOK
    <3> QED
      BY <1>0, <3>1 DEF SaysNothing
  <2> QED
    BY <1>0, <2>1 DEF Talks
<1>1. ASSUME NEW r \in Requests, CallerActs(r) PROVE Told
  <2>1. Moves(r)
    BY <1>1, CallerIs DEF CallerActs, Moves
  <2>2. UNCHANGED <<requests, running>>
    BY <1>1, Zenon DEF CallerActs, shellVars
  <2> QED
    BY <2>1, <2>2 DEF Told
<1>2. ASSUME NEW r \in Requests, PamAsks(r) \/ PamElse(r) PROVE Told
  <2>1. Pam(r)
    BY <1>2, Zenon DEF PamAsks, PamElse, Pam
  <2>2. Moves(r)
    BY <2>1, PamIs DEF Moves
  <2>3. UNCHANGED <<requests, running>>
    BY <1>2, Zenon DEF PamAsks, PamElse, shellVars
  <2> QED
    BY <2>2, <2>3 DEF Told
<1>3. CASE DaemonReads
  <2>1. UNCHANGED <<requests, running>>
    BY <1>3, Zenon DEF DaemonReads, shellVars
  <2>2. 1 \in 1..Len(cmds) /\ Head(cmds) = cmds[1] /\ cmds[1].id \in Requests
    <3>1. cmds # <<>> /\ cmds \in Seq(Command)
          /\ \A i \in 1..Len(cmds) : cmds[i].id \in Requests
      BY <1>3, Shapes DEF DaemonReads
    <3>2. 1 \in 1..Len(cmds)
      BY <3>1
    <3> QED
      BY <3>1, <3>2
  <2>3. Dispatch(cmds[1])
    BY <1>3, <2>2 DEF DaemonReads
  <2>4. CASE UNCHANGED vars
    <3>1. Talks
      BY <1>0, <2>4, Zenon DEF vars
    <3> QED
      BY <2>1, <3>1 DEF Told
  <2>5. CASE Handle(cmds[1].id, cmds[1].cmd)
    <3>1. \/ Talks
          \/ Closes(cmds[1].id, "refused")
          \/ Closes(cmds[1].id, "granted")
      BY <2>2, <2>5, HandleIs
    <3>2. Open(cmds[1].id) => AtTheFront(cmds[1].id)
      BY <2>2 DEF ViewInv, FrontIsNamed
    <3>3. Moves(cmds[1].id)
      BY <3>1, <3>2 DEF Moves, Closes
    <3> QED
      BY <2>1, <2>2, <3>3 DEF Told
  <2> QED
    BY <2>3, <2>4, <2>5, Zenon DEF Dispatch
<1>4. CASE Submit \/ CancelPrompt \/ UNCHANGED sysVars
  <2>1. UNCHANGED <<up, queue, status, out>> /\ UNCHANGED <<requests, running>>
    BY <1>4, Zenon DEF Submit, CancelPrompt, sysVars, vars, shellVars
  <2> QED
    BY <1>0, <2>1 DEF Told
<1>5. CASE ShellReads
  BY <1>5, Zenon DEF ShellReads, Drain
<1>6. CASE DaemonDies \/ OnExited
  BY <1>6, Zenon DEF DaemonDies, Crash, Gone, Ended, OnExited, vars
<1> QED
  BY <1>1, <1>2, <1>3, <1>4, <1>5, <1>6, Zenon DEF SysNext

LEMMA StepCatchesUp ==
    ASSUME IInv, IInv', ViewInv, UpIsRunning, StoppedIsForgotten, CatchingUp, [SysNext]_sysVars
    PROVE  CatchingUp'
<1>0. CatchingUp' <=> (up' /\ running' => ReadsTo(requests', out', queue'))
  BY Zenon DEF CatchingUp, ReadsTo, Passes, ReadOne
<1>1. CASE ~up'
  BY <1>0, <1>1
<1>2. CASE ShellReads /\ UNCHANGED <<up, running>>
  BY <1>0, <1>2, OneIsRead DEF CatchingUp
<1>3. CASE Restart
  <2>1. ~up /\ ~running /\ out' = <<[ev |-> "ready"]>> /\ UNCHANGED <<queue, requests>>
    BY <1>3, Zenon DEF Restart, Start, shellVars
  <2>2. queue = <<>>
    <3>1. \A a \in Requests : ~Open(a)
      BY <2>1 DEF ViewInv, DownIsEmpty
    <3> QED
      BY <3>1, Shapes
  <2>3. requests = <<>>
    BY <2>1 DEF StoppedIsForgotten
  <2> QED
    BY <1>0, <2>1, <2>2, <2>3, ReadsReady, Zenon
<1>4. CASE Told
  <2> SUFFICES ASSUME up', running' PROVE ReadsTo(requests', out', queue')
    BY <1>0
  <2>1. up
    BY <1>4 DEF Told, Moves, Talks, Turned, Arrives, Closes
  <2>2. ReadsTo(requests, out, queue)
    BY <1>4, <2>1 DEF Told, CatchingUp
  <2>3. ReadsTo(requests, out', queue')
    <3>1. CASE Talks
      <4>1. out \in Seq(Event) /\ out' \in Seq(Event)
        BY DEF IInv, TypeOK
      <4> QED
        BY <2>2, <3>1, <4>1, ReadsQuietly DEF Talks, SaysNothing
    <3>2. ASSUME NEW r \in Requests, Moves(r) PROVE ReadsTo(requests, out', queue')
      BY <2>2, <3>2, MovesAreTold
    <3> QED
      BY <1>4, <3>1, <3>2 DEF Told
  <2> QED
    BY <1>4, <2>3, Zenon DEF Told
<1> QED
  BY <1>1, <1>2, <1>3, <1>4, StepIsTold, Zenon

\* The shell and the daemon agree on the queue up to the lines between them:
\* in every state of every run, with any callers and any number of crashes,
\* reading the pipe to its end turns AuthService.requests into Daemon.queue.
THEOREM ViewsAgree == SysSpec => []ViewCatchesUp
<1>1. SysInit => UpIsRunning /\ StoppedIsForgotten /\ CatchingUp
  <2> SUFFICES ASSUME SysInit PROVE UpIsRunning /\ StoppedIsForgotten /\ CatchingUp
    OBVIOUS
  <2>1. /\ queue = <<>> /\ requests = <<>> /\ out = <<[ev |-> "ready"]>> /\ running
    BY DEF SysInit, Init
  <2> QED
    BY <2>1, ReadsReady, Zenon DEF UpIsRunning, StoppedIsForgotten, CatchingUp
<1>2. /\ IInv /\ IInv' /\ ViewInv /\ UpIsRunning /\ StoppedIsForgotten /\ CatchingUp
      /\ [SysNext]_sysVars
      => UpIsRunning' /\ StoppedIsForgotten' /\ CatchingUp'
  BY StepCatchesUp, StepKeepsProcess DEF IInv
<1>3. IInv /\ CatchingUp => ViewCatchesUp
  <2> SUFFICES ASSUME IInv, CatchingUp, up, running
               PROVE  FoldLeft(ReadOne, requests, out) = queue
    BY Zenon DEF ViewCatchesUp
  <2>1. out \in Seq(Event) /\ ReadsTo(requests, out, queue)
    BY DEF IInv, TypeOK, CatchingUp
  <2> QED
    BY <2>1, ReadingIsFolding
<1>4. SysSpec => [](UpIsRunning /\ StoppedIsForgotten /\ CatchingUp)
  BY <1>1, <1>2, SysInvariance, PTL DEF SysSpec
<1> QED
  BY <1>3, <1>4, SysInvariance, PTL

-----------------------------------------------------------------------------
(* The shell's state has its type.  That AuthService.tries stays below the  *)
(* limit is the daemon's doing: the shell shows whatever number it is told. *)

\* A line that never tells of as many failures as end a prompt.
Modest == {e \in Event : e.ev = "failed" => e.tries < MaxTries}

LEMMA ModestLines ==
    /\ \A r \in Requests : \A name \in EventName \ {"failed"} : Ev(name, r) \in Modest
    /\ [ev |-> "ready"] \in Modest
<1>1. \A r \in Requests : \A name \in EventName :
          Ev(name, r) \in Event /\ Ev(name, r).ev = name
  BY Names
<1>2. [ev |-> "ready"] \in Event
  BY DEF Event
<1> QED
  BY <1>1, <1>2 DEF Modest

\* close() and push() tell of no failure.
LEMMA CloseIsModest ==
    ASSUME IInv, NEW r \in Requests, Open(r), NEW how, Close(r, how), out \in Seq(Modest)
    PROVE  out' \in Seq(Modest)
<1>1. Left(r) \in Seq(Requests)
  BY LeftProperties DEF IInv, Inv
<1>2. PICK q \in Seq(Requests) : q = Left(r)
  BY <1>1
<1>3. Activation(q) \in Seq(Modest)
  <2>1. CASE q = <<>>
    BY <2>1 DEF Activation
  <2>2. CASE q # <<>>
    <3>1. q[1] \in Requests
      BY <2>2
    <3>2. Ev("active", q[1]) \in Modest
      BY <3>1, ModestLines DEF EventName
    <3> QED
      BY <2>2, <3>2 DEF Activation
  <2> QED
    BY <2>1, <2>2
<1>4. Ev("close", r) \in Modest
  BY ModestLines DEF EventName
<1>5. out' = out \o <<Ev("close", r)>> \o Activation(q)
  BY <1>2 DEF Close
<1>6. out \o <<Ev("close", r)>> \in Seq(Modest)
  BY <1>4, ConcatProperties
<1> QED
  BY <1>3, <1>5, <1>6, ConcatProperties

LEMMA PushIsModest ==
    ASSUME NEW r \in Requests, out \in Seq(Modest),
           Push(r, <<>>) \/ Push(r, <<Ev("prompt", r)>>)
    PROVE  out' \in Seq(Modest)
<1>1. Activation(Starts(r)) \in Seq(Modest)
  <2>1. CASE Starts(r) = <<>>
    BY <2>1 DEF Activation
  <2>2. CASE Starts(r) = <<r>>
    <3>1. Ev("active", r) \in Modest
      BY ModestLines DEF EventName
    <3> QED
      BY <2>2, <3>1 DEF Activation
  <2> QED
    BY <2>1, <2>2 DEF Starts
<1>2. Ev("request", r) \in Modest /\ Ev("prompt", r) \in Modest
  BY ModestLines DEF EventName
<1>3. PICK t \in Seq(Modest) : t = Activation(Starts(r))
  BY <1>1
<1>4. PICK after \in Seq(Modest) : out' = out \o <<Ev("request", r)>> \o t \o after
  <2>1. <<>> \in Seq(Modest) /\ <<Ev("prompt", r)>> \in Seq(Modest)
    BY <1>2
  <2>2. \/ out' = out \o <<Ev("request", r)>> \o t \o <<>>
        \/ out' = out \o <<Ev("request", r)>> \o t \o <<Ev("prompt", r)>>
    BY <1>3, Zenon DEF Push
  <2> QED
    BY <2>1, <2>2, Zenon
<1>5. out \o <<Ev("request", r)>> \in Seq(Modest)
  BY <1>2, ConcatProperties
<1>6. out \o <<Ev("request", r)>> \o t \in Seq(Modest)
  BY <1>5, ConcatProperties
<1> QED
  BY <1>4, <1>6, ConcatProperties

\* No handler of the daemon does.
LEMMA StepIsModest ==
    ASSUME IInv, [Next]_vars, out \in Seq(Modest)
    PROVE  out' \in Seq(Modest)
<1>0. \A r \in Requests : \A name \in EventName \ {"failed"} :
          Append(out, Ev(name, r)) \in Seq(Modest)
  BY ModestLines, AppendProperties
<1>1. ASSUME NEW r \in Requests, Caller(r) PROVE out' \in Seq(Modest)
  <2>1. CASE BeginAuthentication(r) \/ AskpassRequest(r)
    BY <2>1, PushIsModest DEF BeginAuthentication, AskpassRequest
  <2>2. CASE BeginRefused(r) \/ AskpassDropped(r)
    BY <2>2, Zenon DEF BeginRefused, AskpassDropped
  <2>3. CASE CancelAuthentication(r)
    BY <2>3, CloseIsModest DEF CancelAuthentication, Deny
  <2> QED
    BY <1>1, <2>1, <2>2, <2>3 DEF Caller
<1>2. ASSUME NEW r \in Requests, Cancel(r) \/ Respond(r) PROVE out' \in Seq(Modest)
  <2>1. CASE Cancel(r)
    BY <2>1, CloseIsModest DEF Cancel, Deny
  <2>2. CASE RespondSudo(r)
    BY <2>2, CloseIsModest DEF RespondSudo
  <2>3. CASE RespondPolkit(r)
    BY <2>3, Zenon DEF RespondPolkit
  <2> QED
    BY <1>2, <2>1, <2>2, <2>3 DEF Respond
<1>3. ASSUME NEW r \in Requests, Pam(r) PROVE out' \in Seq(Modest)
  <2>1. CASE Authorized(r)
    BY <2>1, CloseIsModest DEF Authorized, MayWin
  <2>2. CASE OutOfTries(r)
    <3>1. Open(r)
      BY <2>2 DEF OutOfTries, Counts, IInv, Inv, ClosedIsOver
    <3> QED
      BY <2>2, <3>1, CloseIsModest DEF OutOfTries
  <2>3. CASE WrongPassword(r)
    <3>1. PICK e : e = [ev |-> "failed", id |-> r, tries |-> tries[r] + 1]
      OBVIOUS
    <3>2. tries[r] \in Nat /\ tries[r] + 1 < MaxTries /\ out' = Append(out, e)
      BY <2>3, <3>1 DEF WrongPassword, MayRetry, IInv, TypeOK
    <3>3. e \in Event
      BY <3>1, <3>2 DEF Event, EventName
    <3>4. e \in Modest
      BY <3>1, <3>2, <3>3 DEF Modest
    <3> QED
      BY <3>2, <3>4, AppendProperties
  <2>4. CASE SessionAsks(r)
    BY <1>0, <2>4 DEF SessionAsks, EventName
  <2>5. CASE ReaderAsks(r) \/ ReaderFails(r)
    BY <1>0, <2>5 DEF ReaderAsks, ReaderFails, EventName
  <2>6. CASE FingerInfo(r)
    BY <1>0, <2>6 DEF FingerInfo, EventName
  <2>7. CASE PamSays(r)
    BY <1>0, <2>7 DEF PamSays, EventName
  <2>8. CASE LeftReaderEnds(r)
    BY <2>8, Zenon DEF LeftReaderEnds
  <2> QED
    BY <1>3, <2>1, <2>2, <2>3, <2>4, <2>5, <2>6, <2>7, <2>8 DEF Pam
<1>4. CASE Crash \/ UNCHANGED vars
  BY <1>4, Zenon DEF Crash, Gone, vars
<1>7. CASE Shutdown
  <2>1. \A r \in Requests : Ev("close", r) \in Modest /\ Ev("active", r) \in Modest
    BY ModestLines DEF EventName
  <2>2. Farewell(queue) \in Seq(Modest)
    BY <2>1, FarewellOut DEF IInv, TypeOK
  <2> QED
    BY <1>7, <2>2, ConcatProperties DEF Shutdown
<1>5. CASE Start
  BY <1>5, ModestLines DEF Start
<1>6. CASE Drain
  BY <1>6, HeadTailProperties DEF Drain
<1> QED
  BY <1>1, <1>2, <1>3, <1>4, <1>5, <1>6, <1>7, Zenon DEF Next

\* What the shell keeps besides its list.
ShellTypes ==
    /\ stage \in {"ask", "verifying", "wrong"}
    /\ promptReady \in BOOLEAN /\ onFactor \in BOOLEAN /\ running \in BOOLEAN
    /\ shellTries \in 0..MaxTries - 1
    /\ promptFor \subseteq Requests
    /\ crashes \in 0..MaxCrashes

LEMMA EventsKeepTypes ==
    ASSUME ShellTypes, NEW e \in Modest, OnEvent(e), UNCHANGED <<running, crashes>>
    PROVE  ShellTypes'
<1> USE DEF ShellTypes
<1>0. e \in Event /\ (e.ev = "failed" => e.tries < MaxTries)
  BY DEF Modest
<1>1. e.ev \in {"prompt", "failed"} => e.id \in Requests /\ e.tries \in Nat
  BY <1>0 DEF Event
<1>2. CASE e.ev = "request" /\ OnRequest(e)
  BY <1>2, Zenon DEF OnRequest
<1>3. CASE e.ev = "active" /\ OnActive(e)
  <2>1. 0 \in 0..MaxTries - 1
    BY AuthAssumption
  <2> QED
    BY <1>3, <2>1, Zenon DEF OnActive
<1>4. CASE e.ev = "prompt" /\ OnPrompt(e)
  BY <1>1, <1>4 DEF OnPrompt
<1>5. CASE OnFactor(e)
  <2>1. onFactor' \in BOOLEAN
    BY <1>5, Zenon DEF OnFactor
  <2> QED
    BY <1>5, <2>1, Zenon DEF OnFactor
<1>6. CASE e.ev = "failed" /\ OnFailed(e)
  <2>1. e.tries \in 0..MaxTries - 1
    BY <1>0, <1>1, <1>6, AuthAssumption
  <2> QED
    BY <1>6, <2>1 DEF OnFailed
<1>7. CASE e.ev = "close" /\ OnClose(e)
  BY <1>7, Zenon DEF OnClose
<1>8. CASE UNCHANGED shellVars
  BY <1>8, Zenon DEF shellVars
<1> QED
  BY <1>2, <1>3, <1>4, <1>5, <1>6, <1>7, <1>8 DEF OnEvent

TellsModestly == out \in Seq(Modest)

LEMMA StepKeepsTypes ==
    ASSUME ShellTypes, out \in Seq(Modest), [SysNext]_sysVars
    PROVE  ShellTypes'
<1>1. CASE ShellReads
  <2>1. Head(out) \in Modest /\ OnEvent(Head(out)) /\ UNCHANGED <<running, crashes>>
    BY <1>1, HeadTailProperties DEF ShellReads, Drain
  <2> QED
    BY <2>1, EventsKeepTypes
<1>2. CASE Submit
  BY <1>2, Zenon DEF ShellTypes, Submit
<1>3. CASE OnExited
  BY <1>3, Zenon DEF ShellTypes, OnExited
<1>4. CASE Restart
  BY <1>4, Zenon DEF ShellTypes, Restart, shellVars
<1>5. CASE DaemonDies
  <2>1. crashes' \in 0..MaxCrashes
    BY <1>5, SystemAssumption DEF ShellTypes, DaemonDies
  <2> QED
    BY <1>5, <2>1, Zenon DEF ShellTypes, DaemonDies, shellVars
<1>6. CASE \/ \E r \in Requests : CallerActs(r) \/ PamAsks(r) \/ PamElse(r)
           \/ DaemonReads \/ CancelPrompt \/ UNCHANGED sysVars
  <2>1. UNCHANGED <<shellVars, running, crashes>>
    BY <1>6, Zenon DEF CallerActs, PamAsks, PamElse, DaemonReads, CancelPrompt, sysVars
  <2> QED
    BY <2>1, Zenon DEF ShellTypes, shellVars
<1> QED
  BY <1>1, <1>2, <1>3, <1>4, <1>5, <1>6, Zenon DEF SysNext

\* The joined system's state has its type: in particular no prompt is ever
\* drawn with as many failures as the daemon closes it for.
THEOREM SysTypeCorrect == SysSpec => []SysTypeOK
<1>1. SysInit => ShellTypes /\ TellsModestly
  <2> SUFFICES ASSUME SysInit PROVE ShellTypes /\ TellsModestly
    OBVIOUS
  <2>1. TellsModestly
    BY ModestLines DEF SysInit, Init, TellsModestly
  <2>2. 0 \in 0..MaxTries - 1 /\ 0 \in 0..MaxCrashes
    BY AuthAssumption, SystemAssumption
  <2>3. ShellTypes
    BY <2>2, Zenon DEF SysInit, ShellTypes
  <2> QED
    BY <2>1, <2>3
<1>2. IInv /\ ShellTypes /\ TellsModestly /\ [SysNext]_sysVars => ShellTypes' /\ TellsModestly'
  BY StepKeepsTypes, SysStepIsDaemonStep, StepIsModest DEF TellsModestly
<1>3. IInv /\ ViewInv /\ ShellTypes => SysTypeOK
  BY Zenon DEF IInv, ViewInv, PipesOK, ShellTypes, SysTypeOK
<1>4. SysSpec => [](ShellTypes /\ TellsModestly)
  BY <1>1, <1>2, SysInvariance, PTL DEF SysSpec
<1> QED
  BY <1>3, <1>4, SysInvariance, PTL
=============================================================================
