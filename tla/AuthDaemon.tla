---------------------------- MODULE AuthDaemon ----------------------------
(* bin/c7-authd: the system half of the shell's one password prompt.  Two   *)
(* kinds of caller queue here, polkitd (BeginAuthentication on the system   *)
(* bus) and sudo -A (bin/c7-askpass on a unix socket).  Every handler runs  *)
(* to completion on the GLib main loop, so each is one action; the PAM      *)
(* stacks behind libpolkit-agent, polkitd, the sudo processes and the shell *)
(* are the environment.  The daemon here has a shell that reads its lines;  *)
(* AuthOrphan has what becomes of it, and of its callers, without one.      *)
(*                                                                          *)
(* A request has two PAM session slots.  `session` is the conversation that *)
(* takes the password, `reader` is TRUE while req.reader names a session    *)
(* that is still listening on the fingerprint sensor.  Dropping the last    *)
(* reference to a PolkitAgent.Session finalizes it and kills its helper, so *)
(* overwriting the session slot ends the conversation it held.  A reader    *)
(* left on a closed request is in a reference cycle (session, closure,      *)
(* request) and lives until Python's collector happens to run.              *)
(*                                                                          *)
(* An operator named X_slip is X with a plausible slip in it.  No           *)
(* specification uses it: with it in the place of X a property must fail.   *)
EXTENDS Naturals, Sequences, SequencesExt

CONSTANTS Polkit,    \* requests that come from polkitd
          Sudo,      \* requests that come from c7-askpass
          MaxTries,  \* MAX_TRIES
          MaxOut     \* lines the stdout pipe holds before a write blocks

Requests == Polkit \cup Sudo

ASSUME AuthAssumption ==
    /\ Polkit \cap Sudo = {}
    /\ MaxTries \in Nat \ {0}
    /\ MaxOut \in Nat

VARIABLES up,       \* the daemon process is running
          queue,    \* Daemon.queue, head first
          status,   \* where each request stands; the end of it once closed
          held,     \* req.invocation or req.conn is not None
          session,  \* req.session and how far its conversation has got
          reader,   \* req.reader is a live session
          pending,  \* req.pending_prompt of a polkit request; no one reads a sudo's
          tries,    \* req.tries
          out       \* event lines written and not yet read by the shell

vars == <<up, queue, status, held, session, reader, pending, tries, out>>

Status == {"new", "open", "granted", "refused", "lost"}
Stage == {"none", "started", "asking", "answered"}
EventName == {"request", "active", "prompt", "factor", "factorend", "info",
              "pamerror", "failed", "close"}
Event == [ev : EventName, id : Requests, tries : Nat] \cup {[ev |-> "ready"]}

Ev(name, r) == [ev |-> name, id |-> r, tries |-> 0]

TypeOK ==
    /\ up \in BOOLEAN
    /\ queue \in Seq(Requests)
    /\ status \in [Requests -> Status]
    /\ held \in [Requests -> BOOLEAN]
    /\ session \in [Requests -> Stage]
    /\ reader \in [Requests -> BOOLEAN]
    /\ pending \in [Requests -> BOOLEAN]
    /\ tries \in [Requests -> Nat]
    /\ out \in Seq(Event)

Init ==
    /\ up = TRUE
    /\ queue = <<>>
    /\ status = [r \in Requests |-> "new"]
    /\ held = [r \in Requests |-> FALSE]
    /\ session = [r \in Requests |-> "none"]
    /\ reader = [r \in Requests |-> FALSE]
    /\ pending = [r \in Requests |-> FALSE]
    /\ tries = [r \in Requests |-> 0]
    /\ out = <<[ev |-> "ready"]>>

Room == up /\ Len(out) <= MaxOut
Open(r) == status[r] = "open"
Live(r) == session[r] # "none" \/ reader[r]

(* A PAM stack that has asked waits for its answer and says nothing else.   *)
Talking(r) == session[r] \in {"started", "answered"} \/ reader[r]

----------------------------------------------------------------------------
(* The queue: push, activate, close. *)

HeadIsPolkit(q) == q # <<>> /\ q[1] \in Polkit

(* begin_session on the head of q, the rest of s as it is. *)
Begun(q, s) == IF HeadIsPolkit(q) THEN [s EXCEPT ![q[1]] = "started"] ELSE s
Unasked_slip(q, p) == p
Unasked(q, p) == IF HeadIsPolkit(q) THEN [p EXCEPT ![q[1]] = FALSE] ELSE p
Activation(q) == IF q = <<>> THEN <<>> ELSE <<Ev("active", q[1])>>

Starts_slip(r) == <<r>>
Starts(r) == IF queue = <<>> THEN <<r>> ELSE <<>>

(* A prompt is queued, and started at once when nothing is in front of it.  *)
(* `after` is what the caller of push emits next.                           *)
Push(r, after) ==
    /\ queue' = Append(queue, r)
    /\ status' = [status EXCEPT ![r] = "open"]
    /\ held' = [held EXCEPT ![r] = TRUE]
    /\ session' = Begun(Starts(r), session)
    /\ pending' = Unasked(Starts(r), pending)
    /\ out' = out \o <<Ev("request", r)>> \o Activation(Starts(r)) \o after
    /\ UNCHANGED <<up, reader, tries>>

Left_slip(r) == Tail(queue)
Left(r) == RemoveFirst(queue, r)

Dropped(r) == [session EXCEPT ![r] = "none"]

(* A request leaves the queue, and whoever is at its front then is          *)
(* activated, even when that is the request that was at the front before.   *)
(* No one reads pending_prompt once its request has closed: it is cleared.  *)
Close(r, outcome) ==
    /\ queue' = Left(r)
    /\ status' = [status EXCEPT ![r] = outcome]
    /\ session' = Begun(Left(r), Dropped(r))
    /\ pending' = Unasked(Left(r), [pending EXCEPT ![r] = FALSE])
    /\ out' = out \o <<Ev("close", r)>> \o Activation(Left(r))

(* The caller's reply: _finish_polkit, the D-Bus error, or the askpass line *)
(* after which the socket is closed.                                        *)
Answer_slip(r) == UNCHANGED held
Answer(r) == held' = [held EXCEPT ![r] = FALSE]

----------------------------------------------------------------------------
(* Callers. *)

BeginAuthentication(r) ==
    /\ Room /\ r \in Polkit /\ status[r] = "new"
    /\ Push(r, <<>>)

(* No identity this session can authenticate as: answered, never queued. *)
BeginRefused(r) ==
    /\ Room /\ r \in Polkit /\ status[r] = "new"
    /\ status' = [status EXCEPT ![r] = "refused"]
    /\ UNCHANGED <<up, queue, held, session, reader, pending, tries, out>>

(* The prompt event follows the push whether or not the request is at the   *)
(* head.                                                                    *)
AskpassRequest(r) ==
    /\ Room /\ r \in Sudo /\ status[r] = "new"
    /\ Push(r, <<Ev("prompt", r)>>)

(* A client of another user, one that says nothing for ten seconds, hangs   *)
(* up or is not understood: its socket is closed and nothing is queued.     *)
AskpassDropped(r) ==
    /\ up /\ r \in Sudo /\ status[r] = "new"
    /\ status' = [status EXCEPT ![r] = "refused"]
    /\ UNCHANGED <<up, queue, held, session, reader, pending, tries, out>>

(* deny() and CancelAuthentication: both sessions are dropped first and     *)
(* then cancelled, so the "completed" that cancel() emits synchronously is  *)
(* no one's, and the caller is answered before the prompt closes.           *)
Deny(r) ==
    /\ Open(r)
    /\ Answer(r)
    /\ Close(r, "refused")
    /\ reader' = [reader EXCEPT ![r] = FALSE]
    /\ UNCHANGED <<up, tries>>

CancelAuthentication(r) == Room /\ r \in Polkit /\ Deny(r)

----------------------------------------------------------------------------
(* Commands from the shell.  One for a request no longer queued is ignored. *)

Cancel(r) == Room /\ Deny(r)

RespondSudo(r) ==
    /\ r \in Sudo /\ Open(r)
    /\ Answer(r)
    /\ Close(r, "granted")
    /\ UNCHANGED <<up, reader, tries>>

RespondPolkit(r) ==
    /\ r \in Polkit /\ Open(r) /\ pending[r] /\ session[r] # "none"
    /\ pending' = [pending EXCEPT ![r] = FALSE]
    /\ session' = [session EXCEPT ![r] = "answered"]
    /\ UNCHANGED <<up, queue, status, held, reader, tries, out>>

Respond(r) == Room /\ (RespondSudo(r) \/ RespondPolkit(r))

(* The handler leaves the daemon as it was. *)
Ignores(r) ==
    \/ ~Open(r)
    \/ r \in Polkit /\ ~(pending[r] /\ session[r] # "none")

----------------------------------------------------------------------------
(* Signals of the PAM sessions. *)

(* begin_session for a request that goes on. *)
Fresh_slip(r) == [session EXCEPT ![r] = "none"]
Fresh(r) == [session EXCEPT ![r] = "started"]

(* "request" from the password session. *)
SessionAsks(r) ==
    /\ Room /\ session[r] \in {"started", "answered"}
    /\ session' = [session EXCEPT ![r] = "asking"]
    /\ pending' = [pending EXCEPT ![r] = TRUE]
    /\ out' = Append(out, Ev("prompt", r))
    /\ UNCHANGED <<up, queue, status, held, reader, tries>>

(* "request" from the reader: its stack fell through to the password the    *)
(* other session is asking for, so it is retired.                           *)
ReaderAsks(r) ==
    /\ Room /\ reader[r]
    /\ reader' = [reader EXCEPT ![r] = FALSE]
    /\ out' = Append(out, Ev("factorend", r))
    /\ UNCHANGED <<up, queue, status, held, session, pending, tries>>

(* "show-info" that names the sensor.  The session it comes from becomes    *)
(* the reader if there is none, and a fresh one starts for the password.    *)
(* With the lid shut on a dock the shell is not told.                       *)
FingerInfo(r) ==
    /\ Room /\ Talking(r)
    /\ \E hidden \in BOOLEAN :
          out' = IF hidden THEN out ELSE Append(out, Ev("factor", r))
    /\ IF reader[r]
         THEN UNCHANGED <<session, reader, pending>>
         ELSE /\ reader' = [reader EXCEPT ![r] = TRUE]
              /\ session' = Fresh(r)
              /\ pending' = [pending EXCEPT ![r] = FALSE]
    /\ UNCHANGED <<up, queue, status, held, tries>>

(* Any other "show-info", and "show-error". *)
PamSays(r) ==
    /\ Room /\ Talking(r)
    /\ \E name \in {"info", "pamerror"} : out' = Append(out, Ev(name, r))
    /\ UNCHANGED <<up, queue, status, held, session, reader, pending, tries>>

MayWin(r) == Open(r) /\ Talking(r)

(* "completed" with authorization, from either session: the race's loser is *)
(* cancelled and not counted.                                               *)
Authorized(r) ==
    /\ Room /\ MayWin(r)
    /\ Answer(r)
    /\ Close(r, "granted")
    /\ reader' = [reader EXCEPT ![r] = FALSE]
    /\ UNCHANGED <<up, tries>>

(* "completed" without authorization from the reader: the password session  *)
(* carries on.                                                              *)
ReaderFails(r) ==
    /\ Room /\ Open(r) /\ reader[r]
    /\ reader' = [reader EXCEPT ![r] = FALSE]
    /\ out' = Append(out, Ev("factorend", r))
    /\ UNCHANGED <<up, queue, status, held, session, pending, tries>>

Counts_slip(r) == Live(r)
Counts(r) == session[r] # "none"

MayRetry(r) == tries[r] + 1 < MaxTries

(* "completed" without authorization from the password session: a wrong     *)
(* password is counted, and a Session being single-shot, tried again.       *)
WrongPassword(r) ==
    /\ Room /\ Counts(r) /\ MayRetry(r)
    /\ tries' = [tries EXCEPT ![r] = @ + 1]
    /\ session' = Fresh(r)
    /\ pending' = [pending EXCEPT ![r] = FALSE]
    /\ out' = Append(out, [ev |-> "failed", id |-> r, tries |-> tries[r] + 1])
    /\ UNCHANGED <<up, queue, status, held, reader>>

(* The last try: handed back to the caller.  The reader is left as it is.   *)
OutOfTries(r) ==
    /\ Room /\ Counts(r) /\ ~MayRetry(r)
    /\ tries' = [tries EXCEPT ![r] = @ + 1]
    /\ Answer(r)
    /\ Close(r, "refused")
    /\ UNCHANGED <<up, reader>>

(* What becomes of a reader its request left behind: it completes, which    *)
(* the handler ignores, or the collector finalizes it.                      *)
LeftReaderEnds(r) ==
    /\ up /\ ~Open(r) /\ reader[r]
    /\ reader' = [reader EXCEPT ![r] = FALSE]
    /\ UNCHANGED <<up, queue, status, held, session, pending, tries, out>>

----------------------------------------------------------------------------
(* The process.  Its end releases whoever still waits, by an answer or by   *)
(* the kernel closing the sockets and the bus name vanishing.  PAM helpers  *)
(* die with their pipes.                                                    *)

Ended(outcome) ==
    /\ up
    /\ up' = FALSE
    /\ queue' = <<>>
    /\ status' = [r \in Requests |-> IF Open(r) THEN outcome ELSE status[r]]
    /\ held' = [r \in Requests |-> FALSE]
    /\ session' = [r \in Requests |-> "none"]
    /\ reader' = [r \in Requests |-> FALSE]
    /\ pending' = [r \in Requests |-> FALSE]
    /\ tries' = [r \in Requests |-> 0]

(* What shutdown() says on its way through q: each request closes, and the  *)
(* one behind it is activated before it is refused in its turn.             *)
Farewell(q) ==
    [k \in 1..2 * Len(q) - 1 |->
        IF k % 2 = 1 THEN Ev("close", q[(k + 1) \div 2]) ELSE Ev("active", q[k \div 2 + 1])]

(* An interrupt, or an end of file on stdin alone as in tests/test-authd.sh:*)
(* with stdout still read everybody is refused, and the loop is left.       *)
Shutdown ==
    /\ Room
    /\ Ended("refused")
    /\ out' = out \o Farewell(queue)

Gone(outcome) == Ended(outcome) /\ UNCHANGED out
Crash == Gone("lost")

Start ==
    /\ ~up
    /\ up' = TRUE
    /\ out' = <<[ev |-> "ready"]>>
    /\ UNCHANGED <<queue, status, held, session, reader, pending, tries>>

Caller(r) == BeginAuthentication(r) \/ BeginRefused(r) \/ AskpassRequest(r)
             \/ AskpassDropped(r) \/ CancelAuthentication(r)

Pam(r) == SessionAsks(r) \/ ReaderAsks(r) \/ FingerInfo(r) \/ PamSays(r)
          \/ Authorized(r) \/ ReaderFails(r) \/ WrongPassword(r)
          \/ OutOfTries(r) \/ LeftReaderEnds(r)

(* The shell taking a line off the pipe. *)
Drain ==
    /\ out # <<>>
    /\ out' = Tail(out)
    /\ UNCHANGED <<up, queue, status, held, session, reader, pending, tries>>

Next ==
    \/ \E r \in Requests : Caller(r) \/ Pam(r) \/ Cancel(r) \/ Respond(r)
    \/ Shutdown \/ Crash \/ Start
    \/ Drain

Spec == Init /\ [][Next]_vars

(* The shell goes on reading. *)
ReadSpec == Spec /\ WF_vars(Drain)

----------------------------------------------------------------------------
(* Properties. *)

(* The queue holds each open request once and nothing else, so a command or *)
(* a CancelAuthentication always finds the request it names and a closed    *)
(* one can never be found again (find, by_cookie, close).                   *)
QueueIsTheOpenRequests ==
    /\ \A i, j \in DOMAIN queue : queue[i] = queue[j] => i = j
    /\ \A r \in Requests : Open(r) <=> \E i \in DOMAIN queue : queue[i] = r

(* No caller is left hanging and none is answered early: a caller waits for *)
(* its answer exactly as long as its prompt is queued, whichever of the     *)
(* answer, the finger, the cancel, the last try or the end of the process   *)
(* ends it, as long as the daemon is heard (AuthOrphan has the rest).       *)
CallersWaitOnlyWhileQueued == \A r \in Requests : held[r] <=> Open(r)

(* A request behind the head is un-initiated: no PAM session of it runs.    *)
OnlyTheHeadConverses ==
    \A i \in DOMAIN queue : i > 1 => ~Live(queue[i])

(* A head that polkit is waiting on always has a password conversation      *)
(* running, with or without a reader beside it: no chain of retirements,    *)
(* retries and re-activations leaves it with none to answer.                *)
HeadIsBeingAsked ==
    HeadIsPolkit(queue) => session[queue[1]] # "none"

(* A secret goes only to a conversation that has asked for one and has not  *)
(* been answered: pending_prompt survives no change of session.             *)
SecretsOnlyWhenAsked ==
    \A r \in Requests : pending[r] <=> session[r] = "asking"

(* The count of wrong passwords stays under the limit while the prompt is   *)
(* up, and a prompt is refused by its own failures only at the limit.       *)
TriesBounded ==
    \A r \in Requests : tries[r] <= MaxTries /\ (Open(r) => tries[r] < MaxTries)

(* A closed request keeps no password session, and a new one has none yet.  *)
ClosedIsOver == \A r \in Requests : ~Open(r) => session[r] = "none"

Inv == /\ QueueIsTheOpenRequests
       /\ CallersWaitOnlyWhileQueued
       /\ OnlyTheHeadConverses
       /\ HeadIsBeingAsked
       /\ SecretsOnlyWhenAsked
       /\ TriesBounded
       /\ ClosedIsOver

(* What Inv leans on: a request that has not come yet has left nothing      *)
(* behind, and a sudo request never gets a PAM session of the daemon's own. *)
NewIsUntouched ==
    \A r \in Requests : status[r] = "new" => ~reader[r] /\ tries[r] = 0
SudoHasNoPam == \A r \in Sudo : ~Live(r)

IInv == TypeOK /\ Inv /\ NewIsUntouched /\ SudoHasNoPam

(* An answered caller stays answered: no step reopens a request, turns a    *)
(* refusal into a grant, or grants one that was not open.                   *)
VerdictsAreFinal ==
    [][\A r \in Requests :
          /\ status[r] \in {"granted", "refused", "lost"} => status'[r] = status[r]
          /\ status'[r] = "granted" /\ status[r] # "granted" => Open(r)]_vars

(* Neither a cancel nor a finger that wins is ever counted as a wrong       *)
(* password: the count of a request grows only while its password session   *)
(* runs, by one; below the limit the prompt stays up, and at the limit it   *)
(* is refused, never granted (_on_completed).                               *)
OnlyFailuresAreCounted ==
    [][\A r \in Requests : tries'[r] > tries[r] =>
          /\ tries'[r] = tries[r] + 1
          /\ session[r] # "none"
          /\ status'[r] = IF tries'[r] < MaxTries THEN "open" ELSE "refused"]_vars

(* The header of c7-authd: "Only the head of the queue is ever              *)
(* authenticating: a second request sits un-initiated until the first       *)
(* closes, so there is never more than one live PAM conversation".  A       *)
(* request's own reader and password count as one.                          *)
OneRequestConverses ==
    \A r, s \in Requests : Live(r) /\ Live(s) => r = s

(* "A fresh head: everything the previous one accumulated is not ours"      *)
(* (AuthService on "active"): an open head that goes on being the head      *)
(* keeps the answer it has been given until PAM, and nothing else, moves    *)
(* its conversation on.                                                     *)
HeadKeepsItsConversation ==
    [][\A r \in Requests :
          /\ HeadIsPolkit(queue) /\ HeadIsPolkit(queue')
          /\ queue[1] = r /\ queue'[1] = r
          /\ queue' # queue
          => session'[r] = session[r]]_vars
============================================================================
