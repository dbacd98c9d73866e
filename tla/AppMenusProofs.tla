-------------------------- MODULE AppMenusProofs --------------------------
(* Proofs about AppMenus for every set of applications, bars and windows.   *)
EXTENDS AppMenus, TLAPS

\* What the daemon and the shell hold of the bars.
BookTypes ==
    /\ windows \in [Windows -> Bars \cup {None}]
    /\ byPid \in [Pids -> Bars \cup {None}]
    /\ menus \in [Pids -> Bar \cup {None}]
    /\ gen \in [Pids -> Nat]
    /\ shown \subseteq Bars \X Menus
    /\ pending \subseteq Pids
    /\ view \in [Pids -> Bar \cup {None}]

\* A process that is adopted has a bar of a running application.
AdoptedRun == \A p \in Pids : byPid[p] # None => SenderOf[byPid[p]] \in running
RegisteredRun == \A w \in Windows : windows[w] # None => SenderOf[windows[w]] \in running

Books == BookTypes /\ ReleasedIsEmpty /\ ServedIsAdopted /\ ViewMirrors /\ AdoptedRun
             /\ RegisteredRun

Flags ==
    /\ alive \in BOOLEAN /\ owned \in BOOLEAN /\ rival \in BOOLEAN
    /\ enabled \in BOOLEAN /\ linked \in BOOLEAN

Others ==
    /\ scanning \subseteq Senders
    /\ calls \in [Senders -> Seq(Call)]
    /\ running \subseteq Senders
    /\ exported \subseteq Bars
    /\ content \in [Bars -> [Menus -> Contents]]
    /\ manner \in Manners
    /\ cmds \in Seq(BOOLEAN)
    /\ events \in Nat

IInv == Books /\ Flags /\ Others /\ ExportersRun

\* What stays while the daemon handles a message about a bar.
Around == <<owned, windows, running, linked, manner>>

LEMMA ConstantFacts ==
    /\ None \notin Bars /\ None \notin Bar
    /\ \A b \in Bars : SenderOf[b] \in Senders /\ Process(b) \in Pids
    /\ \A s \in Senders : PidOf[s] \in Pids
    /\ 1 \in Menus
  BY MenuAssumption DEF Process, Menus

LEMMA NothingTypes ==
    /\ Nothing \in [Pids -> {None}]
    /\ Nowhere \in [Windows -> {None}]
    /\ Empty \in Bar
  BY DEF Nothing, Nowhere, Empty, Bar

LEMMA HandsOffKeeps ==
    ASSUME Books, HandsOff, UNCHANGED Around
    PROVE  Books'
  BY DEF Books, BookTypes, ReleasedIsEmpty, ServedIsAdopted, ViewMirrors, AdoptedRun,
         RegisteredRun, HandsOff, Around

\* Adopting a bar takes the name and a connection that is there.
LEMMA AdoptKeeps ==
    ASSUME Books, NEW b \in Bars, Adopt(b), UNCHANGED Around
    PROVE  Books'
  <1> USE ConstantFacts
  <1>1. CASE HandsOff
    BY <1>1, HandsOffKeeps
  <1>2. CASE ~HandsOff
    <2>1. /\ owned /\ SenderOf[b] \in running
          /\ byPid' = [byPid EXCEPT ![Process(b)] = b]
          /\ shown' = ShownWithout({b})
          /\ pending' = pending \cup {Process(b)}
          /\ UNCHANGED <<gen, menus, view>>
      BY <1>2 DEF Adopt
    <2>2. Process(b) \in Pids
      OBVIOUS
    <2> HIDE DEF Process
    <2>3. BookTypes'
      BY <2>1, <2>2 DEF Books, BookTypes, ShownWithout, Around
    <2>4. ReleasedIsEmpty' /\ ViewMirrors' /\ RegisteredRun'
      BY <2>1 DEF Books, ReleasedIsEmpty, ViewMirrors, RegisteredRun, Around
    <2>5. ServedIsAdopted' /\ AdoptedRun'
      BY <2>1, <2>2 DEF Books, BookTypes, ServedIsAdopted, AdoptedRun, Around
    <2>6. QED
      BY <2>3, <2>4, <2>5 DEF Books
  <1>3. QED
    BY <1>1, <1>2

\* Withdrawing what was published keeps the view equal to the cache.
LEMMA WithdrawalKeepsView ==
    ASSUME Books, NEW P \in SUBSET Pids, UNCHANGED <<linked, manner>>,
           menus' = [p \in Pids |-> IF p \in P THEN None ELSE menus[p]],
           Publish({p \in P : menus[p] # None}, Nothing)
    PROVE  ViewMirrors' /\ view' \in [Pids -> Bar \cup {None}]
  <1> DEFINE Q == {p \in P : menus[p] # None}
  <1>1. view' = [p \in Pids |-> IF linked /\ p \in Q THEN None ELSE view[p]]
    BY DEF Publish, Nothing
  <1>2. view' \in [Pids -> Bar \cup {None}]
    BY <1>1 DEF Books, BookTypes
  <1>3. ASSUME linked', manner' # "sloppy"
        PROVE  view' = menus'
    <2>1. view = menus /\ linked
      BY <1>3 DEF Books, ViewMirrors
    <2>2. \A p \in Pids : view'[p] = menus'[p]
      BY <1>1, <2>1
    <2>3. QED
      BY <1>1, <2>2
  <1>4. ASSUME ~linked'
        PROVE  view' = Nothing
    <2>1. view = Nothing /\ ~linked
      BY <1>4 DEF Books, ViewMirrors
    <2>2. QED
      BY <1>1, <2>1 DEF Nothing
  <1>5. QED
    BY <1>2, <1>3, <1>4 DEF ViewMirrors

\* drop() leaves nothing of a process.
LEMMA DropKeeps ==
    ASSUME Books, NEW P \in SUBSET Pids, Drop(P), UNCHANGED <<owned, linked, manner>>
    PROVE  /\ (windows' \in [Windows -> Bars \cup {None}]) => BookTypes'
           /\ UNCHANGED windows \/ windows' = Nowhere => ReleasedIsEmpty'
           /\ ServedIsAdopted' /\ ViewMirrors'
           /\ UNCHANGED running => AdoptedRun'
  <1> USE ConstantFacts
  <1>1. ViewMirrors' /\ view' \in [Pids -> Bar \cup {None}]
    BY WithdrawalKeepsView DEF Drop
  <1>2. (windows' \in [Windows -> Bars \cup {None}]) => BookTypes'
    BY <1>1 DEF Books, BookTypes, Drop, ShownWithout
  <1>3. UNCHANGED windows \/ windows' = Nowhere => ReleasedIsEmpty'
    BY DEF Books, ReleasedIsEmpty, Drop, ShownWithout, Nothing
  <1>4. ServedIsAdopted'
    BY DEF Books, ServedIsAdopted, Drop
  <1>5. UNCHANGED running => AdoptedRun'
    BY DEF Books, AdoptedRun, Drop
  <1>6. QED
    BY <1>1, <1>2, <1>3, <1>4, <1>5

LEMMA RescheduleKeeps ==
    ASSUME Books, NEW b \in Bars, Reschedule(b), UNCHANGED Around
    PROVE  Books'
  <1>1. Process(b) \in Pids
    BY ConstantFacts
  <1>2. QED
    BY <1>1 DEF Books, BookTypes, ReleasedIsEmpty, ServedIsAdopted, ViewMirrors, AdoptedRun,
                RegisteredRun, Reschedule, Around

LEMMA LayoutKeeps ==
    ASSUME Books, NEW b \in Bars, OnLayoutUpdated(b), UNCHANGED Around
    PROVE  Books'
  BY AdoptKeeps, RescheduleKeeps DEF OnLayoutUpdated

\* Publishing the menus of one process keeps the view equal to the cache.
LEMMA PublicationKeeps ==
    ASSUME Books, NEW p \in Pids, NEW got \in Bar, byPid[p] # None,
           menus' = [menus EXCEPT ![p] = got], Publish({p}, menus'),
           UNCHANGED <<byPid, gen, shown>>, pending' \subseteq Pids, UNCHANGED Around
    PROVE  Books'
  <1> USE ConstantFacts
  <1>1. view' = [q \in Pids |-> IF linked /\ q = p THEN menus'[q] ELSE view[q]]
    BY DEF Publish
  <1>2. menus' \in [Pids -> Bar \cup {None}]
    BY DEF Books, BookTypes
  <1>3. view' \in [Pids -> Bar \cup {None}]
    BY <1>1, <1>2 DEF Books, BookTypes
  <1>4. ASSUME linked', manner' # "sloppy"
        PROVE  view' = menus'
    <2>1. view = menus /\ linked
      BY <1>4 DEF Books, ViewMirrors, Around
    <2>2. \A q \in Pids : view'[q] = menus'[q]
      BY <1>1, <2>1 DEF Books, BookTypes
    <2>3. QED
      BY <1>2, <1>3, <2>2
  <1>5. ASSUME ~linked'
        PROVE  view' = Nothing
    <2>1. view = Nothing /\ ~linked
      BY <1>5 DEF Books, ViewMirrors, Around
    <2>2. QED
      BY <1>1, <2>1 DEF Nothing
  <1>6. BookTypes'
    BY <1>2, <1>3 DEF Books, BookTypes, Around
  <1>7. owned
    BY DEF Books, ReleasedIsEmpty, Nothing
  <1>8. QED
    BY <1>4, <1>5, <1>6, <1>7 DEF Books, ReleasedIsEmpty, ServedIsAdopted, ViewMirrors, AdoptedRun,
                              RegisteredRun, BookTypes, Around

\* A payload that is applied in part is not told; then the bar is read again.
LEMMA PropsKeep ==
    ASSUME Books, NEW b \in Bars, NEW m \in Menus, NEW v \in Contents, NEW more \in BOOLEAN,
           OnProps(b, m, v, more), more => manner = "sloppy", UNCHANGED Around
    PROVE  Books'
  <1> DEFINE p == Process(b)
             got == [menus[p] EXCEPT ![m] = v]
  <1> USE ConstantFacts
  <1>1. CASE byPid[p] # b /\ Adopt(b)
    BY <1>1, AdoptKeeps
  <1>2. CASE Reschedule(b)
    BY <1>2, RescheduleKeeps
  <1>3. CASE /\ byPid[p] = b /\ Cached(p, m)
             /\ menus' = [menus EXCEPT ![p][m] = v]
             /\ \/ more /\ pending' = pending \cup {p} /\ UNCHANGED view
                \/ ~more /\ Publish({p}, menus') /\ UNCHANGED pending
             /\ UNCHANGED <<byPid, gen, shown>>
    <2>1. p \in Pids /\ byPid[p] # None
      BY <1>3
    <2>2. menus[p] \in Bar
      BY <1>3, <2>1 DEF Cached, Books, BookTypes
    <2>3. got \in Bar /\ menus' = [menus EXCEPT ![p] = got]
      BY <1>3, <2>1, <2>2 DEF Bar
    <2>4. CASE ~more
      <3>1. Publish({p}, menus') /\ UNCHANGED <<byPid, gen, shown, pending>>
        BY <1>3, <2>4
      <3>2. pending' \subseteq Pids
        BY <3>1 DEF Books, BookTypes
      <3> HIDE DEF p, got
      <3>3. QED
        BY <2>1, <2>3, <3>1, <3>2, PublicationKeeps
    <2>5. CASE more
      <3>1. pending' = pending \cup {p} /\ UNCHANGED <<byPid, gen, shown, view>>
        BY <1>3, <2>5
      <3>2. manner = "sloppy"
        BY <2>5
      <3> HIDE DEF p, got
      <3>3. owned
        BY <2>1 DEF Books, ReleasedIsEmpty, Nothing
      <3>4. BookTypes'
        BY <2>1, <2>3, <3>1 DEF Books, BookTypes, Around
      <3>5. ServedIsAdopted' /\ AdoptedRun' /\ RegisteredRun' /\ ReleasedIsEmpty'
        BY <2>1, <2>3, <3>1, <3>3
        DEF Books, BookTypes, ServedIsAdopted, AdoptedRun, RegisteredRun, ReleasedIsEmpty, Around
      <3>6. ViewMirrors'
        BY <3>1, <3>2 DEF Books, ViewMirrors, Around
      <3>7. QED
        BY <3>4, <3>5, <3>6 DEF Books
    <2>6. QED
      BY <2>4, <2>5
  <1>4. QED
    BY <1>1, <1>2, <1>3 DEF OnProps

-----------------------------------------------------------------------------
(* Refreshes.                                                               *)

LEMMA CallTypes ==
    ASSUME NEW c \in Call
    PROVE  /\ c.bar \in Bars /\ c.menu \in Menus /\ c.got \in Bar
           /\ \A at \in {"root", "show", "kids"}, m \in Menus, got \in Bar :
                [c EXCEPT !.got = got] \in Call /\ [c EXCEPT !.at = at, !.menu = m] \in Call
  BY DEF Call

LEMMA SendsTypes ==
    ASSUME calls \in [Senders -> Seq(Call)], NEW s \in Senders, calls[s] # <<>>
    PROVE  /\ Head(calls[s]) \in Call
           /\ Ends(s) => calls' \in [Senders -> Seq(Call)]
           /\ \A c \in Call : Sends(s, c) => calls' \in [Senders -> Seq(Call)]
  <1>1. calls[s] \in Seq(Call)
    OBVIOUS
  <1>2. Head(calls[s]) \in Call /\ Tail(calls[s]) \in Seq(Call)
    BY <1>1
  <1>3. ASSUME NEW c \in Call
        PROVE  Append(Tail(calls[s]), c) \in Seq(Call)
    BY <1>2
  <1>4. QED
    BY <1>2, <1>3 DEF Ends, Sends

\* A chain is current only while its bar is adopted, hence while the name is
\* owned.
LEMMA CurrentIsServed ==
    ASSUME Books, NEW c \in Call, Current(c)
    PROVE  Process(c.bar) \in Pids /\ byPid[Process(c.bar)] # None /\ owned
  <1>1. c.bar \in Bars /\ Process(c.bar) \in Pids
    BY CallTypes, ConstantFacts
  <1>2. QED
    BY <1>1, ConstantFacts DEF Current, Books, ReleasedIsEmpty, Nothing

LEMMA AskKeeps ==
    ASSUME Books, Others, NEW s \in Senders, calls[s] # <<>>, NEW c \in Call, Current(c),
           NEW m \in Menus, Ask(s, c, m), UNCHANGED Around
    PROVE  Books' /\ calls' \in [Senders -> Seq(Call)]
  <1>1. owned /\ c.bar \in Bars
    BY CurrentIsServed, CallTypes
  <1>2. Books'
    BY <1>1 DEF Ask, Books, BookTypes, ReleasedIsEmpty, ServedIsAdopted, ViewMirrors, AdoptedRun,
                RegisteredRun, Around
  <1>3. calls' \in [Senders -> Seq(Call)]
    <2> DEFINE at == IF <<c.bar, m>> \in shown THEN "kids" ELSE "show"
    <2>1. at \in {"root", "show", "kids"}
      OBVIOUS
    <2> HIDE DEF at
    <2>2. [c EXCEPT !.at = at, !.menu = m] \in Call
      BY <2>1, CallTypes
    <2>3. Sends(s, [c EXCEPT !.at = at, !.menu = m])
      BY DEF Ask, at
    <2>4. QED
      BY <2>2, <2>3, SendsTypes DEF Others
  <1>4. QED
    BY <1>2, <1>3

LEMMA ApplyKeeps ==
    ASSUME Books, NEW p \in Pids, byPid[p] # None, NEW got \in Bar, Apply(p, got),
           UNCHANGED Around
    PROVE  Books'
  <1>1. CASE menus[p] = got /\ UNCHANGED <<menus, view>>
    <2>1. HandsOff
      BY <1>1 DEF Apply, HandsOff
    <2>2. QED
      BY <2>1, HandsOffKeeps
  <1>2. CASE menus' = [menus EXCEPT ![p] = got] /\ Publish({p}, menus')
    <2>1. UNCHANGED <<byPid, gen, shown>> /\ pending' \subseteq Pids
      BY DEF Apply, Books, BookTypes
    <2>2. QED
      BY <1>2, <2>1, PublicationKeeps
  <1>3. QED
    BY <1>1, <1>2 DEF Apply

LEMMA RootKeeps ==
    ASSUME Books, Others, NEW s \in Senders, calls[s] # <<>>, NEW ok \in BOOLEAN,
           RootDone(s, Head(calls[s]), ok), UNCHANGED Around
    PROVE  Books' /\ calls' \in [Senders -> Seq(Call)]
  <1> DEFINE c == Head(calls[s])
  <1>1. c \in Call
    BY SendsTypes DEF Others
  <1> HIDE DEF c
  <1>2. CASE Ends(s) /\ HandsOff
    BY <1>2, SendsTypes, HandsOffKeeps DEF Others
  <1>3. CASE Current(c) /\ Ends(s) /\ Drop({Process(c.bar)})
    <2>1. {Process(c.bar)} \in SUBSET Pids
      BY <1>1, <1>3, CurrentIsServed
    <2>2. UNCHANGED windows /\ windows' \in [Windows -> Bars \cup {None}] /\ RegisteredRun'
      BY DEF Around, Books, BookTypes, RegisteredRun
    <2>3. BookTypes' /\ ReleasedIsEmpty' /\ ServedIsAdopted' /\ ViewMirrors' /\ AdoptedRun'
      BY <1>3, <2>1, <2>2, DropKeeps DEF Around
    <2>4. calls' \in [Senders -> Seq(Call)]
      BY <1>3, SendsTypes DEF Others
    <2>5. QED
      BY <2>2, <2>3, <2>4 DEF Books
  <1>4. CASE Current(c) /\ Ask(s, c, 1)
    BY <1>1, <1>4, AskKeeps, ConstantFacts
  <1>5. QED
    BY <1>2, <1>3, <1>4 DEF RootDone, c

LEMMA KidsKeep ==
    ASSUME Books, Others, NEW s \in Senders, calls[s] # <<>>,
           NEW rows \in Contents \cup {Blank}, KidsDone(s, Head(calls[s]), rows),
           UNCHANGED Around
    PROVE  Books' /\ calls' \in [Senders -> Seq(Call)]
  <1> DEFINE c == Head(calls[s])
             got == [c.got EXCEPT ![c.menu] = rows]
             next == [c EXCEPT !.got = got]
  <1>1. c \in Call
    BY SendsTypes DEF Others
  <1>2. c.bar \in Bars /\ c.menu \in Menus /\ c.got \in Bar
    BY <1>1, CallTypes
  <1>3. got \in Bar
    BY <1>2 DEF Bar
  <1>4. next \in Call /\ next.bar = c.bar /\ next.gen = c.gen
    BY <1>1, <1>3, CallTypes DEF Call
  <1>5. KidsDone(s, c, rows) <=>
          \/ ~Current(c) /\ Ends(s) /\ HandsOff
          \/ Current(c) /\ c.menu < MenuCount /\ Ask(s, next, c.menu + 1)
          \/ Current(c) /\ c.menu = MenuCount /\ Ends(s) /\ Apply(Process(c.bar), got)
    BY DEF KidsDone
  <1>6. KidsDone(s, c, rows)
    OBVIOUS
  <1> HIDE DEF c, got, next
  <1>7. CASE ~Current(c) /\ Ends(s) /\ HandsOff
    BY <1>7, SendsTypes, HandsOffKeeps DEF Others
  <1>8. CASE Current(c) /\ c.menu < MenuCount /\ Ask(s, next, c.menu + 1)
    <2>1. Current(next)
      BY <1>4, <1>8 DEF Current
    <2>2. c.menu + 1 \in Menus
      BY <1>2, <1>8, MenuAssumption DEF Menus
    <2>3. QED
      BY <1>4, <1>8, <2>1, <2>2, AskKeeps
  <1>9. CASE Current(c) /\ c.menu = MenuCount /\ Ends(s) /\ Apply(Process(c.bar), got)
    <2>1. Process(c.bar) \in Pids /\ byPid[Process(c.bar)] # None
      BY <1>1, <1>9, CurrentIsServed
    <2>2. Books'
      BY <1>3, <1>9, <2>1, ApplyKeeps
    <2>3. QED
      BY <1>9, <2>2, SendsTypes DEF Others
  <1>10. QED
    BY <1>5, <1>6, <1>7, <1>8, <1>9

LEMMA AnswersKeep ==
    ASSUME IInv, NEW s \in Senders, Answers(s) \/ Fails(s)
    PROVE  Books' /\ calls' \in [Senders -> Seq(Call)]
  <1> DEFINE c == Head(calls[s])
  <1>1. /\ Books /\ Others /\ calls[s] # <<>> /\ UNCHANGED Around
        /\ s \in Senders
    BY DEF IInv, Answers, Fails, Around, appVars, shellVars
  <1>2. c \in Call /\ c.bar \in Bars /\ c.menu \in Menus
    BY <1>1, SendsTypes, CallTypes DEF Others
  <1>3. content[c.bar][c.menu] \in Contents \cup {Blank}
    BY <1>1, <1>2 DEF Others
  <1>4. CASE \E ok \in BOOLEAN : RootDone(s, c, ok)
    BY <1>1, <1>4, RootKeeps
  <1>5. CASE \E rows \in Contents \cup {Blank} : KidsDone(s, c, rows)
    BY <1>1, <1>5, KidsKeep
  <1>6. CASE ShowDone(s, c) /\ (HandsOff \/ OnLayoutUpdated(c.bar))
    <2> HIDE DEF c
    <2>1. [c EXCEPT !.at = "kids"] \in Call
      BY <1>2 DEF Call
    <2>2. calls' \in [Senders -> Seq(Call)]
      BY <1>1, <1>6, <2>1, SendsTypes DEF ShowDone, Others
    <2>3. Books'
      BY <1>1, <1>2, <1>6, HandsOffKeeps, LayoutKeeps
    <2>4. QED
      BY <2>2, <2>3
  <1>7. QED
    BY <1>3, <1>4, <1>5, <1>6 DEF Answers, Fails

LEMMA HeardKeeps ==
    ASSUME IInv, NEW b \in Bars, Export(b) \/ Change(b)
    PROVE  Books'
  <1>1. Books /\ UNCHANGED Around
    BY DEF IInv, Export, Change, Around, shellVars
  <1>2. CASE HandsOff \/ OnLayoutUpdated(b)
    BY <1>1, <1>2, HandsOffKeeps, LayoutKeeps
  <1>3. CASE \E m \in Menus, v \in Contents : OnProps(b, m, v, FALSE)
    BY <1>1, <1>3, PropsKeep
  <1>4. CASE manner = "sloppy" /\ \E m \in Menus, v \in Contents : OnProps(b, m, v, TRUE)
    BY <1>1, <1>4, PropsKeep
  <1>5. QED
    BY <1>2, <1>3, <1>4 DEF Export, Change, Heard

LEMMA RegistersKeep ==
    ASSUME IInv, NEW w \in Windows, Registers(w)
    PROVE  Books'
  <1>1. /\ Books /\ ExportersRun /\ owned /\ exported \subseteq Bars
        /\ UNCHANGED <<owned, running, linked, manner>>
    BY DEF IInv, Others, Registers, appVars, shellVars
  <1>2. ASSUME NEW b \in exported, OnRegister(w, b)
        PROVE  Books'
    <2>1. b \in Bars /\ SenderOf[b] \in running /\ windows' = [windows EXCEPT ![w] = b]
      BY <1>1, <1>2 DEF ExportersRun, OnRegister
    <2>2. /\ windows' \in [Windows -> Bars \cup {None}]
          /\ RegisteredRun'
      BY <1>1, <2>1 DEF Books, BookTypes, RegisteredRun
    <2>3. Process(b) \in Pids /\ Adopt(b)
      BY <1>2, <2>1, ConstantFacts DEF OnRegister
    <2>4. BookTypes'
      BY <1>1, <2>1, <2>2, <2>3 DEF Adopt, HandsOff, Books, BookTypes, ShownWithout
    <2>5. ReleasedIsEmpty' /\ ViewMirrors'
      BY <1>1, <2>3 DEF Adopt, HandsOff, Books, ReleasedIsEmpty, ViewMirrors
    <2>6. ServedIsAdopted' /\ AdoptedRun'
      BY <1>1, <2>1, <2>3, ConstantFacts
      DEF Adopt, HandsOff, Books, BookTypes, ServedIsAdopted, AdoptedRun
    <2>7. QED
      BY <2>2, <2>4, <2>5, <2>6 DEF Books
  <1>3. CASE OnUnregister(w)
    <2> DEFINE P == {p \in Pids : byPid[p] = windows[w]}
    <2>1. windows' = [windows EXCEPT ![w] = None] /\ (HandsOff \/ Drop(P))
      BY <1>3 DEF OnUnregister
    <2>2. windows' \in [Windows -> Bars \cup {None}] /\ RegisteredRun'
      BY <1>1, <2>1 DEF Books, BookTypes, RegisteredRun
    <2>3. CASE HandsOff
      BY <1>1, <2>2, <2>3
      DEF HandsOff, Books, BookTypes, ReleasedIsEmpty, ServedIsAdopted, ViewMirrors, AdoptedRun
    <2>4. CASE Drop(P)
      <3>1. BookTypes' /\ ServedIsAdopted' /\ ViewMirrors' /\ AdoptedRun'
        BY <1>1, <2>2, <2>4, DropKeeps
      <3>2. ReleasedIsEmpty'
        BY <1>1 DEF ReleasedIsEmpty
      <3>3. QED
        BY <2>2, <3>1, <3>2 DEF Books
    <2>5. QED
      BY <2>1, <2>3, <2>4
  <1>4. QED
    BY <1>2, <1>3 DEF Registers

LEMMA LeavingKeeps ==
    ASSUME IInv, NEW s \in Senders, AppLeaves(s)
    PROVE  Books'
  <1> DEFINE P == {p \in Pids : byPid[p] # None /\ SenderOf[byPid[p]] = s}
  <1>1. /\ Books /\ Drop(P) /\ running' = running \ {s} /\ P \in SUBSET Pids
        /\ UNCHANGED <<owned, linked, manner>>
        /\ windows' = [w \in Windows |->
             IF windows[w] # None /\ SenderOf[windows[w]] = s THEN None ELSE windows[w]]
    BY DEF IInv, AppLeaves, OnNameLost, shellVars
  <1>2. windows' \in [Windows -> Bars \cup {None}] /\ RegisteredRun'
    BY <1>1 DEF Books, BookTypes, RegisteredRun
  <1>3. BookTypes' /\ ServedIsAdopted' /\ ViewMirrors'
    BY <1>1, <1>2, DropKeeps
  <1>4. AdoptedRun'
    BY <1>1 DEF Books, AdoptedRun, Drop
  <1>5. ASSUME ~owned
        PROVE  windows' = Nowhere /\ Drop(P) => ReleasedIsEmpty'
    BY <1>1, DropKeeps
  <1>6. ASSUME ~owned
        PROVE  windows' = Nowhere
    BY <1>1, <1>6 DEF Books, ReleasedIsEmpty, Nowhere
  <1>7. ReleasedIsEmpty'
    BY <1>1, <1>5, <1>6 DEF ReleasedIsEmpty
  <1>8. QED
    BY <1>2, <1>3, <1>4, <1>7 DEF Books

LEMMA ReadingKeeps ==
    ASSUME IInv, DaemonReads
    PROVE  Books'
  <1>1. Books /\ Flags /\ UNCHANGED <<running, linked, manner>>
    BY DEF IInv, DaemonReads, appVars
  <1>2. CASE Acquire /\ HandsOff /\ UNCHANGED windows
    <2>1. owned' = owned \/ owned' = TRUE
      BY <1>2 DEF Acquire
    <2>2. QED
      BY <1>1, <1>2, <2>1 DEF HandsOff, Books, BookTypes, ReleasedIsEmpty, ServedIsAdopted,
                              ViewMirrors, AdoptedRun, RegisteredRun
  <1>3. CASE ~owned /\ HandsOff /\ UNCHANGED <<owned, windows>>
    BY <1>1, <1>3, HandsOffKeeps DEF Around
  <1>4. CASE owned /\ Release
    <2>1. /\ windows' = Nowhere /\ byPid' = Nothing /\ menus' = Nothing /\ shown' = {}
          /\ gen' = [p \in Pids |-> 0] /\ UNCHANGED pending
          /\ Publish({p \in Pids : menus[p] # None}, Nothing)
      BY <1>4 DEF Release
    <2>2. menus' = [p \in Pids |-> IF p \in Pids THEN None ELSE menus[p]]
      BY <2>1 DEF Nothing
    <2>3. ViewMirrors' /\ view' \in [Pids -> Bar \cup {None}]
      <3> DEFINE P == Pids
      <3>1. menus' = [p \in Pids |-> IF p \in P THEN None ELSE menus[p]]
        BY <2>2
      <3>2. Publish({p \in P : menus[p] # None}, Nothing) /\ P \in SUBSET Pids
        BY <2>1
      <3> HIDE DEF P
      <3>3. QED
        BY <1>1, <3>1, <3>2, WithdrawalKeepsView
    <2>4. BookTypes'
      BY <1>1, <2>1, <2>3, NothingTypes DEF Books, BookTypes
    <2>5. ReleasedIsEmpty'
      BY <2>1, <2>3 DEF ReleasedIsEmpty, Nothing, Nowhere
    <2>6. ServedIsAdopted' /\ AdoptedRun' /\ RegisteredRun'
      BY <2>1 DEF ServedIsAdopted, AdoptedRun, RegisteredRun, Nothing, Nowhere
    <2>7. QED
      BY <2>3, <2>4, <2>5, <2>6 DEF Books
  <1>5. QED
    BY <1>2, <1>3, <1>4 DEF DaemonReads, Release

LEMMA ScanKeeps ==
    ASSUME IInv, NEW s \in Senders, ScanAnswered(s)
    PROVE  Books'
  <1> DEFINE bars == {b \in exported : SenderOf[b] = s}
             p == PidOf[s]
  <1>1. /\ Books /\ UNCHANGED Around /\ UNCHANGED <<menus, gen, view>> /\ p \in Pids
        /\ bars \subseteq Bars
    BY ConstantFacts DEF IInv, Others, ScanAnswered, Around, appVars, shellVars
  <1>2. CASE UNCHANGED <<byPid, shown, pending>>
    BY <1>1, <1>2, HandsOffKeeps DEF HandsOff
  <1>3. ASSUME NEW first \in bars, NEW last \in bars, owned, s \in running,
               byPid' = [byPid EXCEPT ![p] = last],
               shown' = ShownWithout(IF first = byPid[p] THEN bars \ {first} ELSE bars),
               pending' = pending \cup {p}
        PROVE  Books'
    <2>1. last \in Bars /\ SenderOf[last] \in running
      BY <1>1, <1>3
    <2> HIDE DEF bars, p
    <2>2. BookTypes'
      BY <1>1, <1>3, <2>1 DEF Books, BookTypes, ShownWithout, Around
    <2>3. ReleasedIsEmpty' /\ ViewMirrors' /\ RegisteredRun'
      BY <1>1, <1>3 DEF Books, ReleasedIsEmpty, ViewMirrors, RegisteredRun, Around
    <2>4. ServedIsAdopted' /\ AdoptedRun'
      BY <1>1, <1>3, <2>1, ConstantFacts
      DEF Books, BookTypes, ServedIsAdopted, AdoptedRun, Around
    <2>5. QED
      BY <2>2, <2>3, <2>4 DEF Books
  <1>4. QED
    BY <1>2, <1>3 DEF ScanAnswered

LEMMA SupersededTypes ==
    ASSUME NEW queue \in Seq(Call), NEW p
    PROVE  Superseded(queue, p) \in Seq(Call)
  <1> DEFINE e(i) == IF Process(queue[i].bar) = p THEN [queue[i] EXCEPT !.newest = FALSE]
                     ELSE queue[i]
  <1>1. \A i \in 1..Len(queue) : e(i) \in Call
    <2>1. \A i \in 1..Len(queue) : queue[i] \in Call
      OBVIOUS
    <2>2. \A c \in Call : [c EXCEPT !.newest = FALSE] \in Call
      BY DEF Call
    <2>3. QED
      BY <2>1, <2>2
  <1>2. Superseded(queue, p) = [i \in 1..Len(queue) |-> e(i)]
    BY DEF Superseded
  <1> HIDE DEF e
  <1>3. QED
    BY <1>1, <1>2

LEMMA FireKeeps ==
    ASSUME IInv, NEW p \in Pids, Fire(p)
    PROVE  Books' /\ calls' \in [Senders -> Seq(Call)]
  <1>1. /\ Books /\ UNCHANGED Around /\ UNCHANGED <<byPid, menus, shown, view>>
        /\ pending' = pending \ {p} /\ calls \in [Senders -> Seq(Call)]
    BY DEF IInv, Others, Fire, Around, appVars, shellVars
  <1>2. gen' \in [Pids -> Nat]
    BY <1>1 DEF Fire, Books, BookTypes
  <1>3. Books'
    BY <1>1, <1>2 DEF Books, BookTypes, ReleasedIsEmpty, ServedIsAdopted, ViewMirrors, AdoptedRun,
                      RegisteredRun, Around
  <1>4. ASSUME byPid[p] # None
        PROVE  Root(p) \in Call
    BY <1>1, <1>4, NothingTypes, ConstantFacts DEF Root, Call, Books, BookTypes
  <1>5. calls' \in [Senders -> Seq(Call)]
    <2>1. CASE UNCHANGED calls
      BY <1>1, <2>1
    <2>2. CASE /\ byPid[p] # None
               /\ calls' = [s \in Senders |->
                    IF s = SenderOf[byPid[p]] THEN Append(Superseded(calls[s], p), Root(p))
                    ELSE Superseded(calls[s], p)]
      <3>1. ASSUME NEW s \in Senders
            PROVE  /\ Superseded(calls[s], p) \in Seq(Call)
                   /\ Append(Superseded(calls[s], p), Root(p)) \in Seq(Call)
        BY <1>1, <1>4, <2>2, SupersededTypes
      <3>2. QED
        BY <2>2, <3>1
    <2>3. QED
      BY <2>1, <2>2 DEF Fire
  <1>6. QED
    BY <1>3, <1>5

\* The daemon's end takes the books and the link with it.
LEMMA DeathKeeps ==
    ASSUME IInv, DaemonDies
    PROVE  Books'
  <1>1. BookTypes'
    BY NothingTypes DEF DaemonDies, LinkGone, BookTypes
  <1>2. ReleasedIsEmpty' /\ ServedIsAdopted' /\ ViewMirrors' /\ AdoptedRun' /\ RegisteredRun'
    BY DEF DaemonDies, LinkGone, ReleasedIsEmpty, ServedIsAdopted, ViewMirrors, AdoptedRun,
           RegisteredRun, Nothing, Nowhere
  <1>3. QED
    BY <1>1, <1>2 DEF Books

LEMMA LinkKeeps ==
    ASSUME IInv, Connect \/ LinkBreaks
    PROVE  Books'
  <1>1. /\ Books /\ UNCHANGED <<bookVars, owned, running, manner>>
        /\ \/ linked' = TRUE /\ view' = menus
           \/ linked' = FALSE /\ view' = Nothing
    BY DEF IInv, Connect, LinkBreaks, LinkGone, appVars
  <1>2. view' \in [Pids -> Bar \cup {None}]
    BY <1>1, NothingTypes DEF Books, BookTypes
  <1>3. QED
    BY <1>1, <1>2 DEF Books, BookTypes, ReleasedIsEmpty, ServedIsAdopted, ViewMirrors, AdoptedRun,
                      RegisteredRun, bookVars

LEMMA BooksKeep ==
    ASSUME IInv, [Next]_vars
    PROVE  Books'
  <1>1. CASE Switch \/ RivalComes \/ UNCHANGED vars
    <2>1. HandsOff /\ UNCHANGED Around
      BY <1>1 DEF Switch, RivalComes, HandsOff, Around, vars, bookVars, appVars, shellVars
    <2>2. QED
      BY <2>1, HandsOffKeeps DEF IInv
  <1>2. CASE DaemonStarts
    BY <1>2 DEF DaemonStarts, IInv, Books, BookTypes, ReleasedIsEmpty, ServedIsAdopted,
                ViewMirrors, AdoptedRun, RegisteredRun, bookVars, appVars, shellVars
  <1>3. QED
    BY <1>1, <1>2, ReadingKeeps, LinkKeeps, DeathKeeps, ScanKeeps, LeavingKeeps, AnswersKeep,
       RegistersKeep, FireKeeps, HeardKeeps
    DEF Next

-----------------------------------------------------------------------------
(* The rest of the state, and the theorems.                                 *)

LEMMA FlagsKeep ==
    ASSUME Flags, [Next]_vars, cmds \in Seq(BOOLEAN)
    PROVE  Flags'
  <1> USE DEF Flags
  <1>1. CASE DaemonReads
    <2>1. alive' \in BOOLEAN /\ rival' \in BOOLEAN /\ enabled' \in BOOLEAN /\ linked' \in BOOLEAN
      BY <1>1, Zenon DEF DaemonReads
    <2>2. owned' = owned \/ owned' = TRUE \/ owned' = FALSE
      BY <1>1, Zenon DEF DaemonReads, Acquire, Release
    <2>3. QED
      BY <2>1, <2>2, Zenon
  <1>2. CASE Connect \/ LinkBreaks \/ RivalComes
    BY <1>2, Zenon DEF Connect, LinkBreaks, LinkGone, RivalComes, shellVars
  <1>3. CASE Switch
    <2>1. enabled' = TRUE \/ enabled' = FALSE
      BY <1>3, Zenon DEF Switch
    <2>2. QED
      BY <1>3, <2>1, Zenon DEF Switch
  <1>4. CASE DaemonDies \/ DaemonStarts
    BY <1>4, Zenon DEF DaemonDies, DaemonStarts, LinkGone, shellVars
  <1>5. CASE \E s \in Senders : ScanAnswered(s) \/ AppLeaves(s) \/ Answers(s) \/ Fails(s)
    BY <1>5, Zenon DEF ScanAnswered, AppLeaves, Answers, Fails, shellVars
  <1>6. CASE \E w \in Windows : Registers(w)
    BY <1>6, Zenon DEF Registers, shellVars
  <1>7. CASE \E p \in Pids : Fire(p)
    BY <1>7, Zenon DEF Fire, shellVars
  <1>8. CASE \E b \in Bars : Export(b) \/ Change(b)
    BY <1>8, Zenon DEF Export, Change, shellVars
  <1>9. CASE UNCHANGED vars
    BY <1>9, Zenon DEF vars, shellVars
  <1>10. QED
    BY <1>1, <1>2, <1>3, <1>4, <1>5, <1>6, <1>7, <1>8, <1>9 DEF Next

LEMMA CommandsKeep ==
    ASSUME Flags, cmds \in Seq(BOOLEAN), [Next]_vars
    PROVE  cmds' \in Seq(BOOLEAN)
  <1>1. CASE cmds' = Tail(cmds) /\ cmds # <<>>
    BY <1>1
  <1>2. CASE UNCHANGED cmds
    BY <1>2
  <1>3. CASE cmds' = <<>>
    BY <1>3
  <1>4. ASSUME NEW on \in BOOLEAN, cmds' = Append(cmds, on) \/ cmds' = <<on>>
        PROVE  cmds' \in Seq(BOOLEAN)
    <2>1. Append(cmds, on) \in Seq(BOOLEAN) /\ <<on>> \in Seq(BOOLEAN)
      OBVIOUS
    <2>2. QED
      BY <1>4, <2>1, Zenon
  <1>5. CASE Switch
    <2>1. (~enabled) \in BOOLEAN
      BY Zenon
    <2>2. cmds' = Append(cmds, ~enabled) \/ cmds' = cmds
      BY <1>5 DEF Switch
    <2>3. QED
      BY <1>2, <1>4, <2>1, <2>2
  <1>6. CASE Connect
    <2>1. enabled \in BOOLEAN
      BY DEF Flags
    <2>2. cmds' = <<enabled>>
      BY <1>6 DEF Connect
    <2>3. QED
      BY <1>4, <2>1, <2>2
  <1>7. CASE DaemonReads
    BY <1>1, <1>7 DEF DaemonReads
  <1>8. CASE LinkBreaks \/ DaemonDies
    BY <1>3, <1>8 DEF LinkBreaks, DaemonDies, LinkGone
  <1>9. CASE RivalComes \/ DaemonStarts \/ UNCHANGED vars
    BY <1>2, <1>9 DEF RivalComes, DaemonStarts, vars, shellVars
  <1>10. CASE \E s \in Senders : ScanAnswered(s) \/ AppLeaves(s) \/ Answers(s) \/ Fails(s)
    BY <1>2, <1>10 DEF ScanAnswered, AppLeaves, Answers, Fails, shellVars
  <1>11. CASE \E w \in Windows : Registers(w)
    BY <1>2, <1>11 DEF Registers, shellVars
  <1>12. CASE \E p \in Pids : Fire(p)
    BY <1>2, <1>12 DEF Fire, shellVars
  <1>13. CASE \E b \in Bars : Export(b) \/ Change(b)
    BY <1>2, <1>13 DEF Export, Change, shellVars
  <1>14. QED
    BY <1>5, <1>6, <1>7, <1>8, <1>9, <1>10, <1>11, <1>12, <1>13 DEF Next

LEMMA CallsKeep ==
    ASSUME IInv, [Next]_vars
    PROVE  calls' \in [Senders -> Seq(Call)]
  <1>1. calls \in [Senders -> Seq(Call)]
    BY DEF IInv, Others
  <1>2. CASE UNCHANGED calls
    BY <1>1, <1>2
  <1>3. CASE DaemonDies
    BY <1>3 DEF DaemonDies, Quiet
  <1>4. CASE \E s \in Senders : Answers(s) \/ Fails(s)
    BY <1>4, AnswersKeep
  <1>5. CASE \E p \in Pids : Fire(p)
    BY <1>5, FireKeeps
  <1>6. CASE DaemonReads \/ Switch \/ Connect \/ LinkBreaks \/ DaemonStarts \/ RivalComes
    BY <1>2, <1>6 DEF DaemonReads, Switch, Connect, LinkBreaks, DaemonStarts, RivalComes
  <1>7. CASE \E s \in Senders : ScanAnswered(s) \/ AppLeaves(s)
    BY <1>2, <1>7 DEF ScanAnswered, AppLeaves
  <1>8. CASE \E w \in Windows : Registers(w)
    BY <1>2, <1>8 DEF Registers
  <1>9. CASE \E b \in Bars : Export(b) \/ Change(b)
    BY <1>2, <1>9 DEF Export, Change
  <1>10. CASE UNCHANGED vars
    BY <1>2, <1>10 DEF vars
  <1>11. QED
    BY <1>3, <1>4, <1>5, <1>6, <1>7, <1>8, <1>9, <1>10 DEF Next

\* What is outside the daemon.
World ==
    /\ scanning \subseteq Senders
    /\ running \subseteq Senders
    /\ exported \subseteq Bars
    /\ content \in [Bars -> [Menus -> Contents]]
    /\ manner \in Manners
    /\ events \in Nat
    /\ ExportersRun

LEMMA WorldKeeps ==
    ASSUME World, [Next]_vars
    PROVE  World'
  <1> USE DEF World, ExportersRun
  <1>1. CASE DaemonReads
    BY <1>1 DEF DaemonReads, Acquire, appVars
  <1>2. CASE Switch \/ Connect \/ LinkBreaks \/ RivalComes
    BY <1>2 DEF Switch, Connect, LinkBreaks, RivalComes, Happens, appVars
  <1>3. CASE DaemonDies \/ DaemonStarts
    BY <1>3 DEF DaemonDies, DaemonStarts, Happens, appVars
  <1>4. CASE \E s \in Senders : Answers(s) \/ Fails(s)
    <2>1. UNCHANGED events \/ Happens
      BY <1>4, Zenon DEF Answers, Fails
    <2>2. UNCHANGED scanning /\ UNCHANGED appVars
      BY <1>4, Zenon DEF Answers, Fails
    <2>3. QED
      BY <2>1, <2>2 DEF Happens, appVars
  <1>5. CASE \E s \in Senders : ScanAnswered(s) \/ AppLeaves(s)
    BY <1>5 DEF ScanAnswered, AppLeaves, Happens, appVars
  <1>6. CASE \E w \in Windows : Registers(w)
    BY <1>6 DEF Registers, Happens, appVars
  <1>7. CASE \E p \in Pids : Fire(p)
    BY <1>7 DEF Fire, appVars
  <1>8. CASE \E b \in Bars : Export(b)
    BY <1>8 DEF Export, Happens
  <1>9. ASSUME NEW b \in Bars, Change(b)
        PROVE  World'
    <2>1. Happens /\ UNCHANGED <<scanning, running, exported, manner>>
      BY <1>9, Zenon DEF Change
    <2>2. \E m \in Menus, v \in Contents : content' = [content EXCEPT ![b][m] = v]
      BY <1>9, Zenon DEF Change
    <2>3. content' \in [Bars -> [Menus -> Contents]]
      BY <2>2
    <2>4. QED
      BY <2>1, <2>3 DEF Happens
  <1>10. CASE UNCHANGED vars
    BY <1>10 DEF vars, appVars
  <1>11. QED
    BY <1>1, <1>2, <1>3, <1>4, <1>5, <1>6, <1>7, <1>8, <1>9, <1>10 DEF Next

LEMMA OthersKeep ==
    ASSUME IInv, [Next]_vars
    PROVE  Others' /\ ExportersRun'
  <1>1. World'
    BY WorldKeeps DEF IInv, Others, World
  <1>2. cmds' \in Seq(BOOLEAN)
    BY CommandsKeep DEF IInv, Others
  <1>3. QED
    BY <1>1, <1>2, CallsKeep DEF World, Others

LEMMA InitHolds == Init => IInv
  <1> SUFFICES ASSUME Init
               PROVE  IInv
    OBVIOUS
  <1>1. Flags
    BY Zenon DEF Init, Flags
  <1>2. Books
    BY NothingTypes DEF Init, Books, BookTypes, ReleasedIsEmpty, ServedIsAdopted, ViewMirrors,
                        AdoptedRun, RegisteredRun, Nothing, Nowhere
  <1>3. Others /\ ExportersRun
    <2>1. enabled \in BOOLEAN /\ <<enabled>> \in Seq(BOOLEAN)
      BY <1>1 DEF Flags
    <2>2. Quiet \in [Senders -> Seq(Call)]
      BY DEF Quiet
    <2>3. (CHOOSE v \in Contents : TRUE) \in Contents
      BY MenuAssumption
    <2>4. QED
      BY <2>1, <2>2, <2>3, MenuAssumption DEF Init, Others, ExportersRun
  <1>4. QED
    BY <1>1, <1>2, <1>3 DEF IInv

\* The inductive invariant.  What relates the books to the world (a bar has a
\* running application) is needed for what a registration may bring in.
THEOREM Invariance == Spec => []IInv
  <1>1. IInv /\ [Next]_vars => IInv'
    <2> SUFFICES ASSUME IInv, [Next]_vars
                 PROVE  IInv'
      OBVIOUS
    <2>1. Flags'
      BY FlagsKeep DEF IInv, Others
    <2>2. QED
      BY <2>1, BooksKeep, OthersKeep DEF IInv
  <1>2. QED
    BY <1>1, InitHolds, PTL DEF Spec

\* Every variable keeps its type.
THEOREM TypeCorrect == Spec => []TypeOK
  <1>1. IInv => TypeOK
    BY DEF IInv, Books, BookTypes, Flags, Others, TypeOK
  <1>2. QED
    BY <1>1, Invariance, PTL

\* A registrar that was given up serves nobody: no refresh, timer, signal or
\* late answer of before brings a menu back.
THEOREM NothingWithoutTheName == Spec => []ReleasedIsEmpty
  <1>1. IInv => ReleasedIsEmpty
    BY DEF IInv, Books
  <1>2. QED
    BY <1>1, Invariance, PTL

\* No refresh brings the menus of a process back that has been dropped.
THEOREM DroppedStaysDropped == Spec => []ServedIsAdopted
  <1>1. IInv => ServedIsAdopted
    BY DEF IInv, Books
  <1>2. QED
    BY <1>1, Invariance, PTL

\* What the shell has read is the daemon's cache.
THEOREM ShellFollowsTheCache == Spec => []ViewMirrors
  <1>1. IInv => ViewMirrors
    BY DEF IInv, Books
  <1>2. QED
    BY <1>1, Invariance, PTL

\* A connection that has left the bus is nowhere in the books.
THEOREM GoneForGood == Spec => []GoneLeavesNothing
  <1>1. IInv => GoneLeavesNothing
    BY DEF IInv, Books, AdoptedRun, RegisteredRun, GoneLeavesNothing
  <1>2. QED
    BY <1>1, Invariance, PTL

-----------------------------------------------------------------------------
(* What is served is true (SettledIsTrue).  Refreshes of one bar overlap:   *)
(* the wait for AboutToShow lets a later one overtake an earlier.  But the  *)
(* answers come in the order of the calls, so one refresh, the leader, has  *)
(* read only what the bar still holds, and whoever publishes behind it      *)
(* would have to be further behind.  All the operators here speak of one    *)
(* bar b, its process's generation g and what it holds, k, so that they can *)
(* be said of the next state too.                                           *)

Mine(c, b, g) == c.bar = b /\ c.gen = g

Level(c) == IF c.at = "root" THEN 0 ELSE c.menu

\* No refresh that goes on without a signal is behind n.
Ahead(q, n, b, g) ==
    \A i \in 1..Len(q) : i # n /\ Mine(q[i], b, g) /\ q[i].at # "show" =>
        Level(q[i]) > Level(q[n]) \/ (Level(q[i]) = Level(q[n]) /\ i < n)

ReadRight(c, k) == \A m \in Menus : m < c.menu => c.got[m] = k[m]

Leads(q, n, b, g, k) == Mine(q[n], b, g) /\ ReadRight(q[n], k) /\ Ahead(q, n, b, g)

Led(q, b, g, k) == \E n \in 1..Len(q) : Leads(q, n, b, g, k)

OnlyShows(q, b, g) == \A i \in 1..Len(q) : Mine(q[i], b, g) => q[i].at = "show"

WillBeTrue(q, b, g, k, rows) == Led(q, b, g, k) \/ (rows = k /\ OnlyShows(q, b, g))

TrueOf(p) ==
    \/ byPid[p] = None \/ p \in pending
    \/ WillBeTrue(calls[SenderOf[byPid[p]]], byPid[p], gen[p], content[byPid[p]], menus[p])

AllTrue == manner = "plain" => \A p \in Pids : TrueOf(p)

LEMMA TailFacts ==
    ASSUME NEW q \in Seq(Call), q # <<>>
    PROVE  /\ Len(q) \in Nat \ {0} /\ Len(Tail(q)) = Len(q) - 1
           /\ \A i \in 1..Len(Tail(q)) : i + 1 \in 1..Len(q) /\ Tail(q)[i] = q[i + 1]
           /\ \A i \in 1..Len(q) : i # 1 => i - 1 \in 1..Len(Tail(q)) /\ Tail(q)[i - 1] = q[i]
           /\ Head(q) = q[1] /\ 1 \in 1..Len(q)
           /\ \A i \in 1..Len(q) : q[i] \in Call
  <1>1. Len(q) \in Nat /\ Len(q) > 0
    OBVIOUS
  <1>2. \A i \in 1..(Len(q) - 1) : Tail(q)[i] = q[i + 1]
    OBVIOUS
  <1>3. Len(Tail(q)) = Len(q) - 1
    OBVIOUS
  <1>4. QED
    BY <1>1, <1>2, <1>3

LEMMA AppendFacts ==
    ASSUME NEW t \in Seq(Call), NEW c \in Call
    PROVE  /\ Append(t, c) \in Seq(Call) /\ Len(Append(t, c)) = Len(t) + 1
           /\ Append(t, c)[Len(t) + 1] = c
           /\ \A i \in 1..Len(t) : Append(t, c)[i] = t[i]
  OBVIOUS

LEMMA LevelTypes ==
    ASSUME NEW c \in Call
    PROVE  Level(c) \in Int /\ Level(c) >= 0 /\ Level(c) <= MenuCount /\ c.menu \in Int
           /\ (c.at # "root" => Level(c) = c.menu)
  BY MenuAssumption DEF Level, Call, Menus

\* A leader that is not the first stays one when the first is gone.
LEMMA LeaderStays ==
    ASSUME NEW q \in Seq(Call), q # <<>>, NEW b, NEW g, NEW k, NEW n \in 1..Len(q), n # 1,
           Leads(q, n, b, g, k)
    PROVE  n - 1 \in 1..Len(Tail(q)) /\ Leads(Tail(q), n - 1, b, g, k)
  <1>1. n - 1 \in 1..Len(Tail(q)) /\ Tail(q)[n - 1] = q[n]
    BY TailFacts
  <1>2. Mine(Tail(q)[n - 1], b, g) /\ ReadRight(Tail(q)[n - 1], k)
    BY <1>1 DEF Leads
  <1>3. ASSUME NEW i \in 1..Len(Tail(q)), i # n - 1, Mine(Tail(q)[i], b, g), Tail(q)[i].at # "show"
        PROVE  \/ Level(Tail(q)[i]) > Level(Tail(q)[n - 1])
               \/ Level(Tail(q)[i]) = Level(Tail(q)[n - 1]) /\ i < n - 1
    <2>1. i + 1 \in 1..Len(q) /\ Tail(q)[i] = q[i + 1] /\ i + 1 # n
      BY <1>3, TailFacts
    <2>2. Level(q[i + 1]) > Level(q[n]) \/ (Level(q[i + 1]) = Level(q[n]) /\ i + 1 < n)
      BY <1>3, <2>1 DEF Leads, Ahead
    <2>3. QED
      BY <1>1, <2>1, <2>2
  <1>4. Ahead(Tail(q), n - 1, b, g)
    BY <1>3 DEF Ahead
  <1>5. QED
    BY <1>1, <1>2, <1>4 DEF Leads

\* What is over and was of another time or bar is not missed.
LEMMA StrangerEnds ==
    ASSUME NEW q \in Seq(Call), q # <<>>, NEW b, NEW g, NEW k, NEW rows,
           ~Mine(Head(q), b, g), WillBeTrue(q, b, g, k, rows)
    PROVE  WillBeTrue(Tail(q), b, g, k, rows)
  <1>1. CASE Led(q, b, g, k)
    <2>1. PICK n \in 1..Len(q) : Leads(q, n, b, g, k)
      BY <1>1 DEF Led
    <2>2. n # 1
      BY <2>1, TailFacts DEF Leads
    <2>3. QED
      BY <2>1, <2>2, LeaderStays DEF WillBeTrue, Led
  <1>2. CASE rows = k /\ OnlyShows(q, b, g)
    <2>1. OnlyShows(Tail(q), b, g)
      BY <1>2, TailFacts DEF OnlyShows
    <2>2. QED
      BY <1>2, <2>1 DEF WillBeTrue
  <1>3. QED
    BY <1>1, <1>2 DEF WillBeTrue

\* Nobody but the leader is as far back as the leader, so the first is not.
LEMMA FirstIsAhead ==
    ASSUME NEW q \in Seq(Call), q # <<>>, NEW b, NEW g, NEW k, NEW n \in 1..Len(q), n # 1,
           Leads(q, n, b, g, k), Mine(Head(q), b, g), Head(q).at # "show"
    PROVE  Level(Head(q)) >= Level(q[n])
  <1>1. Head(q) = q[1] /\ 1 \in 1..Len(q) /\ q[1] \in Call /\ q[n] \in Call
    BY TailFacts
  <1>2. Level(q[1]) > Level(q[n]) \/ Level(q[1]) = Level(q[n])
    BY <1>1 DEF Leads, Ahead
  <1>3. QED
    BY <1>1, <1>2, LevelTypes

\* One that goes on without waiting for a signal has a leader.
LEMMA GoerIsLed ==
    ASSUME NEW q \in Seq(Call), q # <<>>, NEW b, NEW g, NEW k, NEW rows,
           Mine(Head(q), b, g), Head(q).at # "show", WillBeTrue(q, b, g, k, rows)
    PROVE  Led(q, b, g, k)
  BY TailFacts DEF WillBeTrue, OnlyShows

\* A refresh that goes on goes to the end, and one menu further.
LEMMA GoesOn ==
    ASSUME NEW q \in Seq(Call), q # <<>>, NEW b, NEW g, NEW k, NEW rows, NEW c \in Call,
           Mine(Head(q), b, g), Head(q).at # "show", WillBeTrue(q, b, g, k, rows),
           Mine(c, b, g), c.at # "root", c.menu = Level(Head(q)) + 1,
           ReadRight(Head(q), k) /\ Leads(q, 1, b, g, k) => ReadRight(c, k)
    PROVE  WillBeTrue(Append(Tail(q), c), b, g, k, rows)
  <1> DEFINE r == Append(Tail(q), c)
             z == Len(q)
  <1>1. /\ z \in Nat \ {0} /\ Len(r) = z /\ r[z] = c
        /\ \A i \in 1..z : i # z => i \in 1..Len(Tail(q)) /\ r[i] = Tail(q)[i]
    <2>1. Tail(q) \in Seq(Call) /\ Len(Tail(q)) = z - 1 /\ z \in Nat \ {0}
      BY TailFacts
    <2> DEFINE y == Len(Tail(q))
    <2>2. y = z - 1 /\ z \in Nat \ {0}
      BY <2>1
    <2> HIDE DEF z, y
    <2>3. y + 1 = z /\ \A i \in 1..z : i # z => i \in 1..y
      BY <2>2
    <2> USE DEF y
    <2>4. QED
      BY <2>1, <2>2, <2>3, AppendFacts
  <1>2. PICK n \in 1..z : Leads(q, n, b, g, k)
    BY GoerIsLed DEF Led
  <1>3. Level(c) = Level(Head(q)) + 1 /\ Level(c) \in Int /\ Level(Head(q)) \in Int
        /\ Head(q) = q[1] /\ 1 \in 1..z
    BY LevelTypes, TailFacts
  <1> HIDE DEF r, z
  <1>4. CASE n = 1
    <2>1. ReadRight(c, k)
      BY <1>2, <1>3, <1>4 DEF Leads
    <2>2. ASSUME NEW i \in 1..Len(r), i # z, Mine(r[i], b, g), r[i].at # "show"
          PROVE  Level(r[i]) > Level(r[z]) \/ (Level(r[i]) = Level(r[z]) /\ i < z)
      <3>1. i + 1 \in 1..Len(q) /\ r[i] = q[i + 1] /\ q[i + 1] \in Call /\ i < z
        BY <1>1, <2>2, TailFacts
      <3>2. Level(q[i + 1]) > Level(q[1])
        BY <1>2, <1>4, <2>2, <3>1 DEF Leads, Ahead
      <3>3. Level(q[i + 1]) \in Int
        BY <3>1, LevelTypes
      <3>4. Level(q[i + 1]) >= Level(c)
        BY <1>3, <3>2, <3>3
      <3>5. QED
        BY <1>1, <1>3, <3>1, <3>3, <3>4
    <2>3. Leads(r, z, b, g, k)
      BY <1>1, <2>1, <2>2 DEF Leads, Ahead
    <2>4. QED
      BY <1>1, <2>3 DEF WillBeTrue, Led, r
  <1>5. CASE n # 1
    <2>1. n - 1 \in 1..Len(Tail(q)) /\ Leads(Tail(q), n - 1, b, g, k)
      BY <1>2, <1>5, LeaderStays DEF z
    <2>2. Level(Head(q)) >= Level(q[n]) /\ q[n] \in Call /\ Level(q[n]) \in Int
      BY <1>2, <1>5, FirstIsAhead, TailFacts, LevelTypes DEF z
    <2>3. n - 1 \in 1..Len(r) /\ r[n - 1] = Tail(q)[n - 1] /\ Tail(q)[n - 1] = q[n] /\ n - 1 # z
      BY <1>1, <1>5, <2>1, TailFacts
    <2>4. ASSUME NEW i \in 1..Len(r), i # n - 1, Mine(r[i], b, g), r[i].at # "show"
          PROVE  Level(r[i]) > Level(r[n - 1]) \/ (Level(r[i]) = Level(r[n - 1]) /\ i < n - 1)
      <3>1. CASE i = z
        BY <1>1, <1>3, <2>2, <2>3, <3>1
      <3>2. CASE i # z
        BY <1>1, <2>1, <2>3, <2>4, <3>2 DEF Leads, Ahead
      <3>3. QED
        BY <3>1, <3>2
    <2>5. Leads(r, n - 1, b, g, k)
      BY <2>1, <2>3, <2>4 DEF Leads, Ahead
    <2>6. QED
      BY <2>3, <2>5 DEF WillBeTrue, Led, r
  <1>6. QED
    BY <1>4, <1>5

\* The last answer of a refresh makes the cache true if it leads; if not, the
\* leader is still to come.
LEMMA Publishes ==
    ASSUME NEW q \in Seq(Call), q # <<>>, NEW b, NEW g, NEW k, NEW rows, NEW got,
           Mine(Head(q), b, g), Head(q).at = "kids", Head(q).menu = MenuCount,
           WillBeTrue(q, b, g, k, rows), Leads(q, 1, b, g, k) => got = k
    PROVE  WillBeTrue(Tail(q), b, g, k, got)
  <1>1. PICK n \in 1..Len(q) : Leads(q, n, b, g, k)
    BY GoerIsLed DEF Led
  <1>2. CASE n # 1
    BY <1>1, <1>2, LeaderStays DEF WillBeTrue, Led
  <1>3. CASE n = 1
    <2>1. Head(q) = q[1] /\ q[1] \in Call /\ Level(q[1]) = MenuCount
      BY TailFacts DEF Level
    <2>2. ASSUME NEW i \in 1..Len(Tail(q)), Mine(Tail(q)[i], b, g), Tail(q)[i].at # "show"
          PROVE  FALSE
      <3>1. i + 1 \in 1..Len(q) /\ Tail(q)[i] = q[i + 1] /\ q[i + 1] \in Call /\ i + 1 # 1
        BY TailFacts
      <3>2. Level(q[i + 1]) > Level(q[1])
        BY <1>1, <1>3, <2>2, <3>1 DEF Leads, Ahead
      <3>3. QED
        BY <2>1, <3>1, <3>2, LevelTypes, MenuAssumption
    <2>3. OnlyShows(Tail(q), b, g)
      BY <2>2 DEF OnlyShows
    <2>4. QED
      BY <1>1, <1>3, <2>3 DEF WillBeTrue
  <1>4. QED
    BY <1>2, <1>3

\* A refresh that starts leads.
LEMMA StarterLeads ==
    ASSUME NEW q \in Seq(Call), NEW b, NEW g, NEW k, NEW rows, NEW c \in Call,
           Mine(c, b, g), c.at = "root", c.menu = 1
    PROVE  WillBeTrue(Append(q, c), b, g, k, rows)
  <1> DEFINE r == Append(q, c)
             z == Len(q) + 1
  <1>1. z \in 1..Len(r) /\ r[z] = c /\ Len(r) = z
    OBVIOUS
  <1>2. \A i \in 1..Len(r) : r[i] \in Call /\ (i # z => i < z)
    OBVIOUS
  <1> HIDE DEF r, z
  <1>3. ReadRight(c, k)
    BY DEF ReadRight, Menus
  <1>4. Level(c) = 0
    BY DEF Level
  <1>5. Ahead(r, z, b, g)
    BY <1>1, <1>2, <1>4, LevelTypes DEF Ahead
  <1>6. QED
    BY <1>1, <1>3, <1>5 DEF WillBeTrue, Led, Leads, r

\* `newest` plays no part in it.
LEMMA HistoryIsNothing ==
    ASSUME NEW q \in Seq(Call), NEW p, NEW b, NEW g, NEW k, NEW rows,
           WillBeTrue(q, b, g, k, rows)
    PROVE  WillBeTrue(Superseded(q, p), b, g, k, rows)
  <1> DEFINE r == Superseded(q, p)
  <1>1. Len(r) = Len(q)
    BY DEF Superseded
  <1>2. \A i \in 1..Len(q) : /\ r[i].at = q[i].at /\ r[i].bar = q[i].bar /\ r[i].gen = q[i].gen
                             /\ r[i].menu = q[i].menu /\ r[i].got = q[i].got
    <2>1. \A i \in 1..Len(q) : q[i] \in Call
      OBVIOUS
    <2>2. QED
      BY <2>1 DEF Superseded, Call
  <1> HIDE DEF r
  <1>3. \A i \in 1..Len(q) : Level(r[i]) = Level(q[i]) /\ (Mine(r[i], b, g) <=> Mine(q[i], b, g))
    BY <1>2 DEF Level, Mine
  <1>4. \A n \in 1..Len(q) : Leads(q, n, b, g, k) => Leads(r, n, b, g, k)
    BY <1>1, <1>2, <1>3 DEF Leads, ReadRight, Ahead
  <1>5. OnlyShows(q, b, g) => OnlyShows(r, b, g)
    BY <1>1, <1>2, <1>3 DEF OnlyShows
  <1>6. QED
    BY <1>1, <1>4, <1>5 DEF WillBeTrue, Led, r

\* A refresh waits for the connection that exports its bar, a process is booked
\* for a bar of its own, and the name is the daemon's.
OfSender(q, s) == \A i \in 1..Len(q) : SenderOf[q[i].bar] = s
Homes == \A s \in Senders : OfSender(calls[s], s)
Booked == \A p \in Pids : byPid[p] # None => Process(byPid[p]) = p
Awake == owned => alive

Truth == Homes /\ Booked /\ Awake /\ AllTrue

\* What a handler does to the books of p: they are closed, or p is to be read
\* again, or they are left alone.
Handled(p) ==
    \/ byPid'[p] = None
    \/ p \in pending' /\ (byPid'[p] = byPid[p] \/ Process(byPid'[p]) = p)
    \/ pending \subseteq pending' /\ byPid'[p] = byPid[p] /\ gen'[p] = gen[p] /\ menus'[p] = menus[p]

HandledAll == \A p \in Pids : Handled(p)

LEMMA LeavingAlone == HandsOff => HandledAll
  BY DEF HandsOff, HandledAll, Handled

LEMMA Dropping ==
    ASSUME BookTypes, NEW P, Drop(P)
    PROVE  HandledAll
  BY DEF BookTypes, Drop, HandledAll, Handled

LEMMA Adopting ==
    ASSUME BookTypes, NEW b \in Bars, Adopt(b)
    PROVE  HandledAll
  <1>1. CASE HandsOff
    BY <1>1, LeavingAlone
  <1>2. CASE /\ byPid' = [byPid EXCEPT ![Process(b)] = b]
             /\ pending' = pending \cup {Process(b)}
             /\ UNCHANGED <<gen, menus>>
    <2>1. \A p \in Pids : p # Process(b) => byPid'[p] = byPid[p]
      BY <1>2 DEF BookTypes
    <2>2. \A p \in Pids : p = Process(b) => byPid'[p] = b
      BY <1>2 DEF BookTypes
    <2>3. QED
      BY <1>2, <2>1, <2>2 DEF HandledAll, Handled
  <1>3. QED
    BY <1>1, <1>2 DEF Adopt

\* A bar that is booked is read again when it says that it has changed.
LEMMA Hearing ==
    ASSUME BookTypes, NEW b \in Bars, OnLayoutUpdated(b)
    PROVE  HandledAll /\ (byPid[Process(b)] = b => Process(b) \in pending')
  <1>1. CASE byPid[Process(b)] # b /\ Adopt(b)
    BY <1>1, Adopting
  <1>2. CASE Reschedule(b)
    BY <1>2 DEF Reschedule, HandledAll, Handled
  <1>3. QED
    BY <1>1, <1>2 DEF OnLayoutUpdated

LEMMA StaysTrue ==
    ASSUME NEW p \in Pids, TrueOf(p), Handled(p),
           byPid[p] # None => /\ calls'[SenderOf[byPid[p]]] = calls[SenderOf[byPid[p]]]
                              /\ content'[byPid[p]] = content[byPid[p]]
    PROVE  TrueOf(p)'
  BY DEF TrueOf, Handled

LEMMA ReadingHandles ==
    ASSUME BookTypes, DaemonReads
    PROVE  HandledAll
  <1>1. CASE HandsOff
    BY <1>1, LeavingAlone
  <1>2. CASE byPid' = Nothing
    BY <1>2 DEF Nothing, HandledAll, Handled
  <1>3. HandsOff \/ byPid' = Nothing
    BY Zenon DEF DaemonReads, Release
  <1>4. QED
    BY <1>1, <1>2, <1>3

LEMMA ScanHandles ==
    ASSUME BookTypes, exported \subseteq Bars, NEW s \in Senders, ScanAnswered(s)
    PROVE  HandledAll
  <1>1. UNCHANGED <<menus, gen>>
    BY DEF ScanAnswered
  <1>2. CASE UNCHANGED <<byPid, shown, pending>>
    BY <1>1, <1>2 DEF HandledAll, Handled
  <1>3. ASSUME NEW last \in Bars, SenderOf[last] = s, byPid' = [byPid EXCEPT ![PidOf[s]] = last],
               pending' = pending \cup {PidOf[s]}
        PROVE  HandledAll
    <2>1. Process(last) = PidOf[s]
      BY <1>3 DEF Process
    <2>2. \A p \in Pids : byPid'[p] = IF p = PidOf[s] THEN last ELSE byPid[p]
      BY <1>3 DEF BookTypes
    <2>3. QED
      BY <1>1, <1>3, <2>1, <2>2 DEF HandledAll, Handled
  <1>4. CASE \E last \in exported : /\ SenderOf[last] = s
                                    /\ byPid' = [byPid EXCEPT ![PidOf[s]] = last]
                                    /\ pending' = pending \cup {PidOf[s]}
    BY <1>3, <1>4
  <1>5. QED
    BY <1>2, <1>4 DEF ScanAnswered

LEMMA RegistrationHandles ==
    ASSUME BookTypes, exported \subseteq Bars, NEW w \in Windows, Registers(w)
    PROVE  HandledAll
  <1>1. CASE \E b \in exported : Adopt(b)
    BY <1>1, Adopting
  <1>2. CASE HandsOff \/ \E P \in SUBSET Pids : Drop(P)
    BY <1>2, LeavingAlone, Dropping
  <1>3. QED
    BY <1>1, <1>2 DEF Registers, OnRegister, OnUnregister

\* The steps that answer no call and start no refresh.
OtherStep ==
    \/ DaemonReads \/ Switch \/ Connect \/ LinkBreaks \/ DaemonStarts \/ RivalComes
    \/ (\E s \in Senders : ScanAnswered(s) \/ AppLeaves(s))
    \/ (\E w \in Windows : Registers(w))
    \/ UNCHANGED vars

LEMMA OtherStepsHandle ==
    ASSUME IInv, OtherStep
    PROVE  HandledAll
  <1>1. BookTypes /\ exported \subseteq Bars
    BY DEF IInv, Books, Others
  <1>2. CASE UNCHANGED bookVars
    BY <1>2 DEF bookVars, HandledAll, Handled
  <1>3. CASE Switch \/ Connect \/ LinkBreaks \/ DaemonStarts \/ RivalComes \/ UNCHANGED vars
    BY <1>2, <1>3, Zenon DEF Switch, Connect, LinkBreaks, DaemonStarts, RivalComes, vars
  <1>4. ASSUME NEW s \in Senders, AppLeaves(s)
        PROVE  HandledAll
    BY <1>1, <1>4, Dropping DEF AppLeaves, OnNameLost
  <1>5. QED
    BY <1>1, <1>3, <1>4, ReadingHandles, ScanHandles, RegistrationHandles DEF OtherStep

LEMMA OtherStepsLeave ==
    ASSUME OtherStep
    PROVE  UNCHANGED calls /\ UNCHANGED content
  <1>1. CASE DaemonReads \/ Switch \/ Connect \/ LinkBreaks \/ DaemonStarts \/ RivalComes
    BY <1>1, Zenon DEF DaemonReads, Switch, Connect, LinkBreaks, DaemonStarts, RivalComes, appVars
  <1>2. CASE \E s \in Senders : ScanAnswered(s) \/ AppLeaves(s)
    BY <1>2, Zenon DEF ScanAnswered, AppLeaves, appVars
  <1>3. CASE \E w \in Windows : Registers(w)
    BY <1>3, Zenon DEF Registers, appVars
  <1>4. CASE UNCHANGED vars
    BY <1>4, Zenon DEF vars, appVars
  <1>5. QED
    BY <1>1, <1>2, <1>3, <1>4 DEF OtherStep

\* A menu that changes is read again.
LEMMA ChangesAreRead ==
    ASSUME IInv, Truth, manner = "plain", NEW b \in Bars, Export(b) \/ Change(b)
    PROVE  \A p \in Pids : TrueOf(p)'
  <1>1. BookTypes /\ (~owned => byPid = Nothing)
    BY DEF IInv, Books, ReleasedIsEmpty
  <1>2. UNCHANGED calls
    BY DEF Export, Change
  <1>3. Heard(OnLayoutUpdated(b)) /\ \A d \in Bars : d # b => content'[d] = content[d]
    BY DEF Export, Change, IInv, Others
  <1>4. HandledAll
    BY <1>1, <1>3, LeavingAlone, Hearing DEF Heard
  <1>5. ASSUME NEW p \in Pids
        PROVE  TrueOf(p)'
    <2>1. CASE byPid[p] = b
      <3>1. owned /\ Process(b) = p
        BY <1>1, <2>1, ConstantFacts DEF Truth, Booked, Nothing
      <3>2. alive
        BY <3>1 DEF Truth, Awake
      <3>3. p \in pending'
        BY <1>1, <1>3, <2>1, <3>1, <3>2, Hearing DEF Heard
      <3>4. QED
        BY <3>3 DEF TrueOf
    <2>2. CASE byPid[p] # b
      <3>1. TrueOf(p) /\ Handled(p)
        BY <1>4 DEF Truth, AllTrue, HandledAll
      <3>2. byPid[p] # None => content'[byPid[p]] = content[byPid[p]]
        BY <1>1, <1>3, <2>2 DEF BookTypes
      <3>3. QED
        BY <1>2, <3>1, <3>2, StaysTrue
    <2>3. QED
      BY <2>1, <2>2
  <1>6. QED
    BY <1>5

\* What happens at connection s is nothing to a process booked elsewhere.
LEMMA Elsewhere ==
    ASSUME IInv, NEW p \in Pids, TrueOf(p), Handled(p), NEW s \in Senders, NEW queue,
           calls' = [calls EXCEPT ![s] = queue], UNCHANGED content,
           byPid[p] # None => SenderOf[byPid[p]] # s
    PROVE  TrueOf(p)'
  <1>1. byPid[p] # None => SenderOf[byPid[p]] \in Senders
    BY ConstantFacts DEF IInv, Books, BookTypes
  <1>2. byPid[p] # None => calls'[SenderOf[byPid[p]]] = calls[SenderOf[byPid[p]]]
    BY <1>1 DEF IInv, Others
  <1>3. QED
    BY <1>2, StaysTrue

LEMMA FiringIsTrue ==
    ASSUME IInv, Truth, manner = "plain", NEW p \in Pids, Fire(p), NEW x \in Pids
    PROVE  TrueOf(x)'
  <1>1. /\ BookTypes /\ calls \in [Senders -> Seq(Call)]
        /\ UNCHANGED <<byPid, menus, content>> /\ pending' = pending \ {p} /\ TrueOf(x)
        /\ content \in [Bars -> [Menus -> Contents]]
    BY DEF IInv, Books, Others, Fire, appVars, Truth, AllTrue
  <1>2. CASE byPid[x] = None
    BY <1>1, <1>2 DEF TrueOf
  <1>3. CASE byPid[x] # None
    <2> DEFINE b == byPid[x]
               s == SenderOf[b]
               q == calls[s]
               k == content[b]
    <2>1. b \in Bars /\ s \in Senders /\ q \in Seq(Call) /\ Process(b) = x /\ PidOf[s] = x
      BY <1>1, <1>3, ConstantFacts DEF BookTypes, Truth, Booked, Process
    <2>2. CASE x = p
      <3>1. /\ gen'[p] = gen[p] + 1 /\ calls'[s] = Append(Superseded(q, p), Root(p))
        BY <1>1, <1>3, <2>1, <2>2 DEF Fire, BookTypes
      <3>2. Root(p) \in Call /\ Mine(Root(p), b, gen[p] + 1) /\ Root(p).at = "root" /\ Root(p).menu = 1
        BY <1>1, <1>3, <2>1, <2>2, NothingTypes, ConstantFacts DEF Root, Call, BookTypes, Mine
      <3>3. Superseded(q, p) \in Seq(Call)
        BY <2>1, SupersededTypes
      <3>4. WillBeTrue(Append(Superseded(q, p), Root(p)), b, gen[p] + 1, k, menus[p])
        BY <3>2, <3>3, StarterLeads
      <3>5. QED
        BY <1>1, <2>2, <3>1, <3>4 DEF TrueOf
    <2>3. CASE x # p
      <3>1. gen'[x] = gen[x] /\ (x \in pending' <=> x \in pending)
        BY <1>1, <2>3 DEF Fire, BookTypes
      <3>2. calls'[s] = q \/ calls'[s] = Superseded(q, p)
        <4>1. byPid[p] # None => PidOf[SenderOf[byPid[p]]] = p
          BY DEF Truth, Booked, Process
        <4>2. byPid[p] # None => s # SenderOf[byPid[p]]
          BY <2>1, <2>3, <4>1
        <4>3. QED
          BY <1>1, <2>1, <4>2 DEF Fire
      <3>3. CASE x \in pending
        BY <3>1, <3>3 DEF TrueOf
      <3>4. CASE x \notin pending
        <4>1. WillBeTrue(q, b, gen[x], k, menus[x])
          BY <1>1, <1>3, <3>4 DEF TrueOf
        <4>2. WillBeTrue(Superseded(q, p), b, gen[x], k, menus[x])
          BY <2>1, <4>1, HistoryIsNothing
        <4>3. WillBeTrue(calls'[s], b, gen[x], k, menus[x])
          BY <3>2, <4>1, <4>2
        <4>4. QED
          BY <1>1, <3>1, <4>3 DEF TrueOf
      <3>5. QED
        BY <3>3, <3>4
    <2>4. QED
      BY <2>2, <2>3
  <1>4. QED
    BY <1>2, <1>3

LEMMA HeadIsHome ==
    ASSUME Others, Homes, NEW s \in Senders, calls[s] # <<>>
    PROVE  /\ calls[s] \in Seq(Call) /\ Head(calls[s]) \in Call /\ Head(calls[s]).bar \in Bars
           /\ SenderOf[Head(calls[s]).bar] = s
           /\ Process(Head(calls[s]).bar) = PidOf[s] /\ PidOf[s] \in Pids
  <1>1. calls[s] \in Seq(Call)
    BY DEF Others
  <1>2. 1 \in 1..Len(calls[s]) /\ Head(calls[s]) = calls[s][1] /\ calls[s][1] \in Call
    BY <1>1, TailFacts
  <1>3. SenderOf[calls[s][1].bar] = s
    BY <1>2 DEF Homes, OfSender
  <1>4. calls[s][1].bar \in Bars
    BY <1>2 DEF Call
  <1>5. QED
    BY <1>1, <1>2, <1>3, <1>4, ConstantFacts DEF Process

\* Without applications that break calls off, a call fails at a connection that
\* is gone, and with it its bar.
LEMMA FailingIsTrue ==
    ASSUME IInv, Truth, manner = "plain", NEW s \in Senders, Fails(s), NEW x \in Pids
    PROVE  TrueOf(x)'
  <1> DEFINE c == Head(calls[s])
  <1>1. /\ BookTypes /\ Others /\ calls[s] # <<>> /\ s \notin running /\ UNCHANGED content
        /\ AdoptedRun
    BY DEF IInv, Books, Fails, appVars
  <1>2. c \in Call /\ c.bar \in Bars /\ SenderOf[c.bar] = s /\ Process(c.bar) \in Pids
    BY <1>1, HeadIsHome, ConstantFacts DEF Truth
  <1> HIDE DEF c
  <1>3. ~Current(c)
    BY <1>1, <1>2, ConstantFacts DEF Current, AdoptedRun
  <1>4. HandsOff /\ \E queue : calls' = [calls EXCEPT ![s] = queue]
    BY <1>3 DEF Fails, RootDone, ShowDone, KidsDone, Ends, Sends, c
  <1>5. HandledAll
    BY <1>4, LeavingAlone
  <1>6. byPid[x] # None => SenderOf[byPid[x]] # s
    BY <1>1 DEF AdoptedRun
  <1>7. TrueOf(x) /\ Handled(x)
    BY <1>5 DEF HandledAll, Truth, AllTrue
  <1>8. QED
    BY <1>1, <1>4, <1>5, <1>6, <1>7, Elsewhere

\* The answer to AboutToShow brings a signal; whoever is booked at the
\* connection is read again.
LEMMA ShowingIsTrue ==
    ASSUME IInv, Truth, manner = "plain", NEW s \in Senders, calls[s] # <<>>, s \in running,
           ShowDone(s, Head(calls[s])), OnLayoutUpdated(Head(calls[s]).bar), UNCHANGED content,
           NEW x \in Pids
    PROVE  TrueOf(x)'
  <1> DEFINE c == Head(calls[s])
  <1>1. BookTypes /\ Others /\ (~owned => byPid = Nothing)
    BY DEF IInv, Books, ReleasedIsEmpty
  <1>2. c \in Call /\ c.bar \in Bars /\ SenderOf[c.bar] = s /\ Process(c.bar) = PidOf[s]
    BY <1>1, HeadIsHome DEF Truth
  <1>3. \E queue : calls' = [calls EXCEPT ![s] = queue]
    BY DEF ShowDone, Sends
  <1>4. OnLayoutUpdated(c.bar)
    OBVIOUS
  <1> HIDE DEF c
  <1>5. HandledAll /\ (byPid[PidOf[s]] = c.bar => PidOf[s] \in pending')
    BY <1>1, <1>2, <1>4, Hearing
  <1>6. TrueOf(x) /\ Handled(x)
    BY <1>5 DEF HandledAll, Truth, AllTrue
  <1>7. CASE byPid[x] # None => SenderOf[byPid[x]] # s
    BY <1>3, <1>5, <1>6, <1>7, Elsewhere
  <1>8. CASE byPid[x] # None /\ SenderOf[byPid[x]] = s
    <2>1. x = PidOf[s]
      BY <1>8 DEF Truth, Booked, Process
    <2>2. owned
      BY <1>1, <1>8 DEF Nothing
    <2>3. byPid[x] # c.bar => x \in pending'
      BY <1>2, <1>4, <2>1, <2>2 DEF OnLayoutUpdated, Adopt
    <2>4. x \in pending'
      BY <1>5, <2>1, <2>3
    <2>5. QED
      BY <1>5, <2>4 DEF TrueOf
  <1>9. QED
    BY <1>7, <1>8

\* An answer to a refresh that has been superseded.
LEMMA LateIsTrue ==
    ASSUME IInv, Truth, manner = "plain", NEW s \in Senders, calls[s] # <<>>,
           ~Current(Head(calls[s])), Ends(s), HandsOff, UNCHANGED content, NEW x \in Pids
    PROVE  TrueOf(x)'
  <1>1. BookTypes /\ Others /\ HandledAll
    BY LeavingAlone DEF IInv, Books
  <1>2. TrueOf(x) /\ Handled(x)
    BY <1>1 DEF HandledAll, Truth, AllTrue
  <1>3. CASE byPid[x] # None => SenderOf[byPid[x]] # s
    BY <1>1, <1>2, <1>3, Elsewhere DEF Ends
  <1>4. CASE /\ byPid[x] # None /\ SenderOf[byPid[x]] = s
             /\ x \notin pending
    <2> DEFINE q == calls[s]
    <2>1. q \in Seq(Call) /\ Process(Head(q).bar) = PidOf[s] /\ x = PidOf[s]
      BY <1>1, <1>4, HeadIsHome DEF Truth, Booked, Process
    <2>2. ~Mine(Head(q), byPid[x], gen[x])
      BY <2>1 DEF Current, Mine
    <2>3. WillBeTrue(q, byPid[x], gen[x], content[byPid[x]], menus[x])
      BY <1>2, <1>4 DEF TrueOf
    <2>4. WillBeTrue(Tail(q), byPid[x], gen[x], content[byPid[x]], menus[x])
      BY <2>1, <2>2, <2>3, StrangerEnds
    <2>5. calls'[s] = Tail(q)
      BY <1>1 DEF Ends, Others
    <2>6. QED
      BY <1>1, <1>4, <2>4, <2>5 DEF HandsOff, TrueOf
  <1>5. CASE x \in pending
    BY <1>1, <1>5 DEF HandsOff, TrueOf
  <1>6. QED
    BY <1>1, <1>3, <1>4, <1>5

\* A refresh that is current goes on to the next menu.
LEMMA AskingIsTrue ==
    ASSUME IInv, Truth, manner = "plain", NEW s \in Senders, calls[s] # <<>>,
           Current(Head(calls[s])), Head(calls[s]).at # "show", NEW c \in Call, NEW m \in Menus,
           c.bar = Head(calls[s]).bar, c.gen = Head(calls[s]).gen,
           m = Level(Head(calls[s])) + 1,
           ReadRight(Head(calls[s]), content[c.bar]) =>
               \A i \in Menus : i < m => c.got[i] = content[c.bar][i],
           Ask(s, c, m), UNCHANGED content, NEW x \in Pids
    PROVE  TrueOf(x)'
  <1> DEFINE at == IF <<c.bar, m>> \in shown THEN "kids" ELSE "show"
             d == [c EXCEPT !.at = at, !.menu = m]
             q == calls[s]
  <1>1. BookTypes /\ Others /\ UNCHANGED <<byPid, gen, menus, pending>>
    BY DEF IInv, Books, Ask
  <1>2. HandledAll
    BY <1>1 DEF HandledAll, Handled
  <1>3. calls' = [calls EXCEPT ![s] = Append(Tail(@), d)]
    BY DEF Ask, Sends
  <1>4. at \in {"kids", "show"}
    OBVIOUS
  <1> HIDE DEF at
  <1>5. /\ d \in Call /\ d.bar = c.bar /\ d.gen = c.gen /\ d.at # "root" /\ d.menu = m
        /\ d.got = c.got
    BY <1>4 DEF Call
  <1> HIDE DEF d
  <1>6. TrueOf(x) /\ Handled(x)
    BY <1>2 DEF HandledAll, Truth, AllTrue
  <1>7. CASE byPid[x] # None => SenderOf[byPid[x]] # s
    BY <1>2, <1>3, <1>6, <1>7, Elsewhere
  <1>8. CASE x \in pending
    BY <1>1, <1>2, <1>8 DEF TrueOf
  <1>9. CASE /\ byPid[x] # None /\ SenderOf[byPid[x]] = s
             /\ x \notin pending
    <2> DEFINE k == content[byPid[x]]
    <2>1. q \in Seq(Call) /\ Process(Head(q).bar) = PidOf[s] /\ x = PidOf[s]
      BY <1>1, <1>9, HeadIsHome DEF Truth, Booked, Process
    <2>2. Mine(Head(q), byPid[x], gen[x]) /\ Mine(d, byPid[x], gen[x])
      BY <1>5, <2>1 DEF Current, Mine
    <2>3. WillBeTrue(q, byPid[x], gen[x], k, menus[x])
      BY <1>6, <1>9 DEF TrueOf
    <2>4. ReadRight(Head(q), k) => ReadRight(d, k)
      BY <1>5, <2>2 DEF ReadRight, Mine
    <2>5. WillBeTrue(Append(Tail(q), d), byPid[x], gen[x], k, menus[x])
      BY <1>5, <2>1, <2>2, <2>3, <2>4, GoesOn
    <2>6. calls'[s] = Append(Tail(q), d)
      BY <1>1, <1>3 DEF Others
    <2>7. QED
      BY <1>1, <1>2, <1>9, <2>5, <2>6 DEF TrueOf
  <1>10. QED
    BY <1>2, <1>7, <1>8, <1>9

\* The last answer of a current refresh is published.
LEMMA ApplyingIsTrue ==
    ASSUME IInv, Truth, manner = "plain", NEW s \in Senders, calls[s] # <<>>,
           Current(Head(calls[s])), Head(calls[s]).at = "kids", Head(calls[s]).menu = MenuCount,
           NEW got \in Bar, Ends(s), Apply(Process(Head(calls[s]).bar), got),
           ReadRight(Head(calls[s]), content[Head(calls[s]).bar])
               => got = content[Head(calls[s]).bar],
           UNCHANGED content, NEW x \in Pids
    PROVE  TrueOf(x)'
  <1> DEFINE q == calls[s]
             p == Process(Head(calls[s]).bar)
  <1>1. BookTypes /\ Others /\ UNCHANGED <<byPid, gen, pending>> /\ TrueOf(x)
    BY DEF IInv, Books, Apply, Truth, AllTrue
  <1>2. q \in Seq(Call) /\ p = PidOf[s] /\ p \in Pids /\ calls'[s] = Tail(q)
    BY <1>1, HeadIsHome DEF Truth, Others, Ends
  <1>3. menus'[p] = got /\ \A y \in Pids : y # p => menus'[y] = menus[y]
    BY <1>1, <1>2 DEF Apply, BookTypes
  <1>4. CASE x = p /\ byPid[x] = Head(q).bar /\ x \notin pending
    <2> DEFINE k == content[byPid[x]]
    <2>1. SenderOf[byPid[x]] = s /\ byPid[x] # None
      BY <1>1, <1>4, HeadIsHome, ConstantFacts DEF Truth
    <2>2. Mine(Head(q), byPid[x], gen[x])
      BY <1>4 DEF Current, Mine
    <2>3. WillBeTrue(q, byPid[x], gen[x], k, menus[x])
      BY <1>1, <1>4, <2>1 DEF TrueOf
    <2>4. Leads(q, 1, byPid[x], gen[x], k) => got = k
      BY <1>2, <1>4, TailFacts DEF Leads
    <2> HIDE DEF k, q
    <2>5. WillBeTrue(Tail(q), byPid[x], gen[x], k, got)
      BY <1>2, <2>2, <2>3, <2>4, Publishes DEF q
    <2>6. QED
      BY <1>1, <1>2, <1>3, <1>4, <2>1, <2>5 DEF TrueOf, k, q
  <1>5. CASE x # p
    <2>1. Handled(x)
      BY <1>1, <1>3, <1>5 DEF Handled
    <2>2. byPid[x] # None => SenderOf[byPid[x]] # s
      BY <1>2, <1>5 DEF Truth, Booked, Process
    <2>3. QED
      BY <1>1, <2>1, <2>2, Elsewhere DEF Ends
  <1>6. CASE x \in pending
    BY <1>1, <1>6 DEF TrueOf
  <1>7. QED
    BY <1>1, <1>4, <1>5, <1>6 DEF Current

LEMMA RootIsTrue ==
    ASSUME IInv, Truth, manner = "plain", NEW s \in Senders, calls[s] # <<>>,
           Head(calls[s]).at = "root", RootDone(s, Head(calls[s]), TRUE), UNCHANGED content,
           NEW x \in Pids
    PROVE  TrueOf(x)'
  <1> DEFINE c == Head(calls[s])
  <1>1. c \in Call
    BY HeadIsHome DEF IInv, Truth
  <1>2. CASE ~Current(c) /\ Ends(s) /\ HandsOff
    BY <1>2, LateIsTrue
  <1>3. CASE Current(c) /\ Ask(s, c, 1)
    <2>1. 1 \in Menus /\ 1 = Level(c) + 1 /\ \A i \in Menus : ~(i < 1)
      BY MenuAssumption DEF Menus, Level
    <2>2. QED
      BY <1>1, <1>3, <2>1, AskingIsTrue
  <1>4. QED
    BY <1>2, <1>3 DEF RootDone

LEMMA KidsAreTrue ==
    ASSUME IInv, Truth, manner = "plain", NEW s \in Senders, calls[s] # <<>>,
           Head(calls[s]).at = "kids", UNCHANGED content, NEW x \in Pids,
           KidsDone(s, Head(calls[s]), content[Head(calls[s]).bar][Head(calls[s]).menu])
    PROVE  TrueOf(x)'
  <1> DEFINE c == Head(calls[s])
             k == content[c.bar]
             got == [c.got EXCEPT ![c.menu] = k[c.menu]]
             next == [c EXCEPT !.got = got]
  <1>1. c \in Call /\ c.bar \in Bars /\ c.menu \in Menus /\ c.got \in Bar
    <2>1. c \in Call
      BY HeadIsHome DEF IInv, Truth
    <2> HIDE DEF c
    <2>2. QED
      BY <2>1 DEF Call
  <1>2. k \in [Menus -> Contents]
    BY <1>1 DEF IInv, Others
  <1>3. \/ ~Current(c) /\ Ends(s) /\ HandsOff
        \/ Current(c) /\ c.menu < MenuCount /\ Ask(s, next, c.menu + 1)
        \/ Current(c) /\ c.menu = MenuCount /\ Ends(s) /\ Apply(Process(c.bar), got)
    BY DEF KidsDone
  <1> HIDE DEF c, k
  <1>4. got \in Bar
    BY <1>1, <1>2 DEF Bar
  <1>5. ASSUME ReadRight(c, k)
        PROVE  \A i \in Menus : i < c.menu + 1 => got[i] = k[i]
    <2>1. \A i \in Menus : i < c.menu + 1 => i < c.menu \/ i = c.menu
      BY <1>1 DEF Menus
    <2>2. \A i \in Menus : got[i] = IF i = c.menu THEN k[c.menu] ELSE c.got[i]
      BY <1>1 DEF Bar
    <2> HIDE DEF got
    <2>3. QED
      BY <1>1, <1>5, <2>1, <2>2 DEF ReadRight
  <1> HIDE DEF got
  <1>6. /\ next \in Call /\ next.bar = c.bar /\ next.gen = c.gen /\ next.got = got
    BY <1>1, <1>4 DEF Call
  <1> HIDE DEF next
  <1>7. CASE ~Current(c) /\ Ends(s) /\ HandsOff
    BY <1>7, LateIsTrue DEF c
  <1>8. CASE Current(c) /\ c.menu < MenuCount /\ Ask(s, next, c.menu + 1)
    <2> DEFINE m == c.menu + 1
    <2>1. m \in Menus /\ m = Level(c) + 1
      BY <1>1, <1>8, MenuAssumption DEF Menus, Level, c
    <2> HIDE DEF m
    <2>2. ReadRight(c, content[next.bar]) =>
               \A i \in Menus : i < m => next.got[i] = content[next.bar][i]
      BY <1>5, <1>6 DEF k, m
    <2>3. Ask(s, next, m) /\ Current(c)
      BY <1>8 DEF m
    <2>4. QED
      BY <1>6, <2>1, <2>2, <2>3, AskingIsTrue DEF c
  <1>9. CASE Current(c) /\ c.menu = MenuCount /\ Ends(s) /\ Apply(Process(c.bar), got)
    <2>1. ReadRight(c, k) => got = k
      <3>1. \A i \in Menus : i < c.menu + 1
        BY <1>9, MenuAssumption DEF Menus
      <3>2. QED
        BY <1>2, <1>4, <1>5, <3>1 DEF Bar
    <2>2. QED
      BY <1>4, <1>9, <2>1, ApplyingIsTrue DEF c, k
  <1>10. QED
    BY <1>3, <1>7, <1>8, <1>9

LEMMA AnsweringIsTrue ==
    ASSUME IInv, Truth, manner = "plain", NEW s \in Senders, Answers(s), NEW x \in Pids
    PROVE  TrueOf(x)'
  <1>1. calls[s] # <<>> /\ s \in running /\ UNCHANGED content
    BY DEF Answers, appVars
  <1>2. CASE Head(calls[s]).at = "root" /\ RootDone(s, Head(calls[s]), TRUE)
    BY <1>1, <1>2, RootIsTrue
  <1>3. CASE ShowDone(s, Head(calls[s])) /\ OnLayoutUpdated(Head(calls[s]).bar)
    BY <1>1, <1>3, ShowingIsTrue
  <1>4. CASE /\ Head(calls[s]).at = "kids"
             /\ KidsDone(s, Head(calls[s]), content[Head(calls[s]).bar][Head(calls[s]).menu])
    BY <1>1, <1>4, KidsAreTrue
  <1>5. QED
    BY <1>2, <1>3, <1>4 DEF Answers

LEMMA AllStaysTrue ==
    ASSUME IInv, Truth, [Next]_vars, manner = "plain", NEW x \in Pids
    PROVE  TrueOf(x)'
  <1>1. CASE OtherStep
    <2>1. TrueOf(x) /\ Handled(x)
      BY <1>1, OtherStepsHandle DEF HandledAll, Truth, AllTrue
    <2>2. QED
      BY <1>1, <2>1, OtherStepsLeave, StaysTrue
  <1>2. CASE DaemonDies
    BY <1>2 DEF DaemonDies, TrueOf, Nothing
  <1>3. CASE \E s \in Senders : Answers(s) \/ Fails(s)
    BY <1>3, AnsweringIsTrue, FailingIsTrue
  <1>4. CASE \E p \in Pids : Fire(p)
    BY <1>4, FiringIsTrue
  <1>5. CASE \E b \in Bars : Export(b) \/ Change(b)
    BY <1>5, ChangesAreRead
  <1>6. QED
    BY <1>1, <1>2, <1>3, <1>4, <1>5 DEF Next, OtherStep

\* A process is booked for a bar of its own, or as before.
StillBooked == \A p \in Pids : byPid'[p] # None => byPid'[p] = byPid[p] \/ Process(byPid'[p]) = p

LEMMA HandledIsBooked == HandledAll => StillBooked
  BY DEF HandledAll, Handled, StillBooked

LEMMA BooksStayOwn ==
    ASSUME IInv, [Next]_vars
    PROVE  StillBooked
  <1>1. BookTypes /\ Others
    BY DEF IInv, Books
  <1>2. CASE UNCHANGED byPid
    BY <1>2 DEF StillBooked
  <1>3. CASE HandledAll
    BY <1>3, HandledIsBooked
  <1>4. CASE DaemonDies
    BY <1>4 DEF DaemonDies, Nothing, StillBooked
  <1>5. ASSUME NEW s \in Senders, Answers(s) \/ Fails(s)
        PROVE  StillBooked
    <2> DEFINE b == Head(calls[s]).bar
    <2>1. b \in Bars
      BY <1>1, <1>5, SendsTypes DEF Answers, Fails, Others, Call
    <2>2. UNCHANGED byPid \/ Drop({Process(b)}) \/ OnLayoutUpdated(b)
      BY <1>5, Zenon DEF Answers, Fails, RootDone, KidsDone, Ask, Apply, HandsOff
    <2> HIDE DEF b
    <2>3. QED
      BY <1>1, <1>2, <1>3, <2>1, <2>2, Dropping, Hearing
  <1>6. ASSUME NEW b \in Bars, Export(b) \/ Change(b)
        PROVE  StillBooked
    <2>1. UNCHANGED byPid \/ OnLayoutUpdated(b) \/ Adopt(b)
      BY <1>6, Zenon DEF Export, Change, Heard, OnProps, Reschedule, HandsOff
    <2>2. QED
      BY <1>1, <1>2, <1>3, <2>1, Hearing, Adopting
  <1>7. CASE \E p \in Pids : Fire(p)
    BY <1>2, <1>7 DEF Fire
  <1>8. CASE OtherStep
    BY <1>3, <1>8, OtherStepsHandle
  <1>9. QED
    BY <1>4, <1>5, <1>6, <1>7, <1>8 DEF Next, OtherStep

LEMMA SendsHome ==
    ASSUME Others, Homes, NEW s \in Senders, calls[s] # <<>>
    PROVE  /\ Ends(s) => Homes'
           /\ \A c \in Call : c.bar = Head(calls[s]).bar /\ Sends(s, c) => Homes'
  <1>1. calls[s] \in Seq(Call) /\ SenderOf[Head(calls[s]).bar] = s
    BY HeadIsHome
  <1>2. OfSender(Tail(calls[s]), s)
    BY <1>1, TailFacts DEF Homes, OfSender
  <1>3. ASSUME NEW queue, calls' = [calls EXCEPT ![s] = queue], OfSender(queue, s)
        PROVE  Homes'
    BY <1>3 DEF Homes, Others
  <1>4. ASSUME NEW c \in Call, c.bar = Head(calls[s]).bar
        PROVE  OfSender(Append(Tail(calls[s]), c), s)
    <2> DEFINE t == Tail(calls[s])
    <2>1. t \in Seq(Call) /\ OfSender(t, s)
      BY <1>1, <1>2
    <2> HIDE DEF t
    <2>2. \A i \in 1..(Len(t) + 1) : i \in 1..Len(t) \/ i = Len(t) + 1
      BY <2>1
    <2>3. OfSender(Append(t, c), s)
      BY <1>1, <1>4, <2>1, <2>2, AppendFacts DEF OfSender
    <2>4. QED
      BY <2>3 DEF t
  <1>5. QED
    BY <1>2, <1>3, <1>4 DEF Ends, Sends

LEMMA AskingIsHome ==
    ASSUME Others, Homes, NEW s \in Senders, calls[s] # <<>>, NEW c \in Call, NEW m \in Menus,
           c.bar = Head(calls[s]).bar, Ask(s, c, m)
    PROVE  Homes'
  <1> DEFINE at == IF <<c.bar, m>> \in shown THEN "kids" ELSE "show"
             d == [c EXCEPT !.at = at, !.menu = m]
  <1>1. at \in {"root", "show", "kids"} /\ Sends(s, d)
    BY DEF Ask
  <1> HIDE DEF at
  <1>2. d \in Call /\ d.bar = c.bar
    BY <1>1 DEF Call
  <1> HIDE DEF d
  <1>3. QED
    BY <1>1, <1>2, SendsHome

LEMMA AnsweringIsHome ==
    ASSUME IInv, Homes, NEW s \in Senders, Answers(s) \/ Fails(s)
    PROVE  Homes'
  <1> DEFINE c == Head(calls[s])
  <1>1. Others /\ calls[s] # <<>>
    BY DEF IInv, Answers, Fails
  <1>2. c \in Call
    BY <1>1, SendsTypes DEF Others
  <1>3. content[c.bar][c.menu] \in Contents \cup {Blank}
    BY <1>1, <1>2 DEF Others, Call
  <1>4. \/ Ends(s) \/ Ask(s, c, 1) \/ ShowDone(s, c)
        \/ \E rows \in Contents \cup {Blank} :
              c.menu < MenuCount /\ Ask(s, [c EXCEPT !.got = [c.got EXCEPT ![c.menu] = rows]], c.menu + 1)
    BY <1>3, Zenon DEF Answers, Fails, RootDone, KidsDone
  <1> HIDE DEF c
  <1>5. CASE Ends(s)
    BY <1>1, <1>5, SendsHome
  <1>6. CASE Ask(s, c, 1)
    BY <1>1, <1>2, <1>6, AskingIsHome, ConstantFacts DEF c
  <1>7. CASE ShowDone(s, c)
    <2> DEFINE d == [c EXCEPT !.at = "kids"]
    <2>1. d \in Call /\ d.bar = c.bar /\ Sends(s, d)
      BY <1>2, <1>7 DEF ShowDone, Call
    <2> HIDE DEF d
    <2>2. QED
      BY <1>1, <2>1, SendsHome DEF c
  <1>8. ASSUME NEW rows \in Contents \cup {Blank}, c.menu < MenuCount,
               Ask(s, [c EXCEPT !.got = [c.got EXCEPT ![c.menu] = rows]], c.menu + 1)
        PROVE  Homes'
    <2> DEFINE got == [c.got EXCEPT ![c.menu] = rows]
               d == [c EXCEPT !.got = got]
               m == c.menu + 1
    <2>1. c.menu \in Menus /\ c.got \in Bar
      BY <1>2 DEF Call
    <2>2. got \in Bar /\ m \in Menus
      BY <1>8, <2>1, MenuAssumption DEF Bar, Menus
    <2> HIDE DEF got, m
    <2>3. d \in Call /\ d.bar = c.bar
      BY <1>2, <2>2 DEF Call
    <2>4. Ask(s, d, m)
      BY <1>8 DEF got, m
    <2> HIDE DEF d
    <2>5. QED
      BY <1>1, <2>2, <2>3, <2>4, AskingIsHome DEF c
  <1>9. QED
    BY <1>4, <1>5, <1>6, <1>7, <1>8

LEMMA FiringIsHome ==
    ASSUME IInv, Homes, NEW p \in Pids, Fire(p)
    PROVE  Homes'
  <1>1. calls \in [Senders -> Seq(Call)] /\ BookTypes
    BY DEF IInv, Others, Books
  <1>2. ASSUME NEW s \in Senders
        PROVE  Superseded(calls[s], p) \in Seq(Call) /\ OfSender(Superseded(calls[s], p), s)
    <2>1. calls[s] \in Seq(Call)
      BY <1>1
    <2>2. Len(Superseded(calls[s], p)) = Len(calls[s])
      BY <2>1 DEF Superseded
    <2>3. \A i \in 1..Len(calls[s]) : Superseded(calls[s], p)[i].bar = calls[s][i].bar
      <3>1. \A i \in 1..Len(calls[s]) : calls[s][i] \in Call
        BY <2>1
      <3>2. QED
        BY <3>1 DEF Superseded, Call
    <2>4. QED
      BY <2>1, <2>2, <2>3, SupersededTypes DEF Homes, OfSender
  <1>3. CASE UNCHANGED calls
    BY <1>3 DEF Homes
  <1>4. CASE /\ byPid[p] # None
             /\ calls' = [s \in Senders |->
                  IF s = SenderOf[byPid[p]] THEN Append(Superseded(calls[s], p), Root(p))
                  ELSE Superseded(calls[s], p)]
    <2>1. Root(p) \in Call /\ Root(p).bar = byPid[p]
      BY <1>1, <1>4, NothingTypes, ConstantFacts DEF Root, Call, BookTypes
    <2>2. ASSUME NEW s \in Senders, s = SenderOf[byPid[p]]
          PROVE  OfSender(Append(Superseded(calls[s], p), Root(p)), s)
      <3> DEFINE t == Superseded(calls[s], p)
      <3>1. t \in Seq(Call) /\ OfSender(t, s)
        BY <1>2
      <3> HIDE DEF t
      <3>2. \A i \in 1..(Len(t) + 1) : i \in 1..Len(t) \/ i = Len(t) + 1
        BY <3>1
      <3>3. OfSender(Append(t, Root(p)), s)
        BY <2>1, <2>2, <3>1, <3>2, AppendFacts DEF OfSender
      <3>4. QED
        BY <3>3 DEF t
    <2>3. QED
      BY <1>2, <1>4, <2>2 DEF Homes
  <1>5. QED
    BY <1>3, <1>4 DEF Fire

LEMMA CallsStayHome ==
    ASSUME IInv, Homes, [Next]_vars
    PROVE  Homes'
  <1>1. CASE UNCHANGED calls
    BY <1>1 DEF Homes
  <1>2. CASE DaemonDies
    BY <1>2 DEF DaemonDies, Quiet, Homes, OfSender
  <1>3. CASE \E s \in Senders : Answers(s) \/ Fails(s)
    BY <1>3, AnsweringIsHome
  <1>4. CASE \E p \in Pids : Fire(p)
    BY <1>4, FiringIsHome
  <1>5. CASE \E b \in Bars : Export(b) \/ Change(b)
    BY <1>1, <1>5 DEF Export, Change
  <1>6. CASE OtherStep
    BY <1>1, <1>6, OtherStepsLeave
  <1>7. QED
    BY <1>2, <1>3, <1>4, <1>5, <1>6 DEF Next, OtherStep

\* A daemon that has the name runs.
LEMMA OwnerIsAwake ==
    ASSUME Awake, [Next]_vars
    PROVE  Awake'
  <1>1. CASE DaemonReads
    <2>1. alive /\ UNCHANGED alive
      BY <1>1, Zenon DEF DaemonReads
    <2>2. QED
      BY <2>1, Zenon DEF Awake
  <1>2. CASE DaemonDies \/ DaemonStarts
    BY <1>2 DEF DaemonDies, DaemonStarts, Awake
  <1>3. CASE UNCHANGED alive /\ UNCHANGED owned
    BY <1>3, Zenon DEF Awake
  <1>4. CASE Switch \/ Connect \/ LinkBreaks \/ RivalComes \/ UNCHANGED vars
    BY <1>3, <1>4, Zenon DEF Switch, Connect, LinkBreaks, RivalComes, vars
  <1>5. CASE \E s \in Senders : ScanAnswered(s) \/ AppLeaves(s) \/ Answers(s) \/ Fails(s)
    BY <1>3, <1>5, Zenon DEF ScanAnswered, AppLeaves, Answers, Fails
  <1>6. CASE \E w \in Windows : Registers(w)
    BY <1>3, <1>6, Zenon DEF Registers
  <1>7. CASE \E p \in Pids : Fire(p)
    BY <1>3, <1>7, Zenon DEF Fire
  <1>8. CASE \E b \in Bars : Export(b) \/ Change(b)
    BY <1>3, <1>8, Zenon DEF Export, Change
  <1>9. QED
    BY <1>1, <1>2, <1>4, <1>5, <1>6, <1>7, <1>8 DEF Next

LEMMA MannersStay ==
    ASSUME [Next]_vars
    PROVE  manner' = manner
  <1>1. CASE DaemonReads \/ DaemonDies \/ DaemonStarts \/ Switch \/ Connect
    BY <1>1, Zenon DEF DaemonReads, DaemonDies, DaemonStarts, Switch, Connect, appVars
  <1>2. CASE LinkBreaks \/ RivalComes \/ UNCHANGED vars
    BY <1>2, Zenon DEF LinkBreaks, RivalComes, vars, appVars
  <1>3. CASE \E s \in Senders : ScanAnswered(s) \/ AppLeaves(s) \/ Answers(s) \/ Fails(s)
    BY <1>3, Zenon DEF ScanAnswered, AppLeaves, Answers, Fails, appVars
  <1>4. CASE \E w \in Windows : Registers(w)
    BY <1>4, Zenon DEF Registers, appVars
  <1>5. CASE \E p \in Pids : Fire(p)
    BY <1>5, Zenon DEF Fire, appVars
  <1>6. CASE \E b \in Bars : Export(b) \/ Change(b)
    BY <1>6, Zenon DEF Export, Change, appVars
  <1>7. QED
    BY <1>1, <1>2, <1>3, <1>4, <1>5, <1>6 DEF Next

\* The inductive invariant of what is served.
THEOREM TruthHolds == Spec => []Truth
  <1>1. Init => Truth
    BY DEF Init, Truth, Homes, OfSender, Quiet, Booked, Awake, AllTrue, TrueOf, Nothing
  <1>2. IInv /\ Truth /\ [Next]_vars => Truth'
    <2> SUFFICES ASSUME IInv, Truth, [Next]_vars
                 PROVE  Truth'
      OBVIOUS
    <2>1. Homes'
      BY CallsStayHome DEF Truth
    <2>2. Awake'
      BY OwnerIsAwake DEF Truth
    <2>3. Booked'
      BY BooksStayOwn DEF Truth, Booked, StillBooked
    <2>4. AllTrue'
      BY AllStaysTrue, MannersStay DEF AllTrue
    <2>5. QED
      BY <2>1, <2>2, <2>3, <2>4 DEF Truth
  <1>3. QED
    BY <1>1, <1>2, Invariance, PTL DEF Spec

\* A process that no refresh is due for and none is under way is served what its
\* bar holds, however refreshes, signals and changes of hands overlap.
THEOREM SettledProcessesAreServedRight == Spec => []SettledIsTrue
  <1>1. IInv /\ Truth => SettledIsTrue
    <2> SUFFICES ASSUME IInv, Truth, manner = "plain", NEW p \in Pids, byPid[p] # None,
                        ~Unsettled(p)
                 PROVE  menus[p] = content[byPid[p]]
      BY DEF SettledIsTrue, ServedRight
    <2> DEFINE q == calls[SenderOf[byPid[p]]]
    <2>1. WillBeTrue(q, byPid[p], gen[p], content[byPid[p]], menus[p])
      BY DEF Truth, AllTrue, TrueOf, Unsettled
    <2>2. Process(byPid[p]) = p /\ \A i \in 1..Len(q) : ~Current(q[i])
      BY DEF Truth, Booked, Unsettled
    <2>3. \A i \in 1..Len(q) : ~Mine(q[i], byPid[p], gen[p])
      BY <2>2 DEF Current, Mine
    <2> HIDE DEF q
    <2>4. QED
      BY <2>1, <2>3 DEF WillBeTrue, Led, Leads
  <1>2. QED
    BY <1>1, Invariance, TruthHolds, PTL

-----------------------------------------------------------------------------
(* Who is the registrar.  The last line under way to the daemon is the      *)
(* setting as it is now; a daemon that is linked is alive, and there is     *)
(* never a second registrar.                                                *)

Latest(q) == q[Len(q)]

LastSaid == cmds # <<>> => linked /\ Latest(cmds) = enabled
OneRegistrar == (linked => alive) /\ (rival => ~owned)

Ruled == LastSaid /\ OneRegistrar /\ SettingRules

LEMMA LatestOfTail ==
    ASSUME NEW S, NEW q \in Seq(S), q # <<>>
    PROVE  /\ Tail(q) # <<>> => Latest(Tail(q)) = Latest(q)
           /\ Tail(q) = <<>> => Latest(q) = Head(q)
  <1>1. Len(q) \in Nat /\ Len(q) > 0 /\ Len(Tail(q)) = Len(q) - 1 /\ Head(q) = q[1]
    OBVIOUS
  <1>2. \A i \in 1..(Len(q) - 1) : Tail(q)[i] = q[i + 1]
    OBVIOUS
  <1>3. Tail(q) = <<>> <=> Len(Tail(q)) = 0
    <2>1. Tail(q) \in Seq(S)
      OBVIOUS
    <2> DEFINE t == Tail(q)
    <2> HIDE DEF t
    <2>2. t \in Seq(S) => (t = <<>> <=> Len(t) = 0)
      OBVIOUS
    <2>3. QED
      BY <2>1, <2>2 DEF t
  <1>4. ASSUME Tail(q) # <<>>
        PROVE  Latest(Tail(q)) = Latest(q)
    <2>1. Len(q) - 1 \in 1..(Len(q) - 1) /\ (Len(q) - 1) + 1 = Len(q)
      BY <1>1, <1>3, <1>4
    <2>2. Tail(q)[Len(q) - 1] = q[Len(q)]
      BY <1>2, <2>1
    <2>3. QED
      BY <1>1, <2>2 DEF Latest
  <1>5. ASSUME Tail(q) = <<>>
        PROVE  Latest(q) = Head(q)
    <2>1. Len(q) = 1
      BY <1>1, <1>3, <1>5
    <2>2. QED
      BY <1>1, <2>1 DEF Latest
  <1>6. QED
    BY <1>4, <1>5

LEMMA LatestOfAppend ==
    ASSUME NEW q \in Seq(BOOLEAN), NEW on \in BOOLEAN
    PROVE  /\ Append(q, on) # <<>> /\ Latest(Append(q, on)) = on
           /\ <<on>> # <<>> /\ Latest(<<on>>) = on
  <1>1. /\ Len(Append(q, on)) = Len(q) + 1 /\ Append(q, on)[Len(q) + 1] = on
        /\ Len(<<on>>) = 1 /\ <<on>>[1] = on /\ <<on>> # <<>>
    OBVIOUS
  <1>2. QED
    BY <1>1 DEF Latest

\* Steps that neither say nor do anything about it.
LEMMA RuledStays ==
    ASSUME Ruled, UNCHANGED <<alive, owned, rival, enabled, linked, cmds>>
    PROVE  Ruled'
  BY Zenon DEF Ruled, LastSaid, OneRegistrar, SettingRules, Latest

LEMMA ReadingRules ==
    ASSUME Ruled, Flags, cmds \in Seq(BOOLEAN), DaemonReads
    PROVE  Ruled'
  <1>1. /\ cmds # <<>> /\ cmds' = Tail(cmds) /\ UNCHANGED <<alive, rival, enabled, linked>>
        /\ alive
    BY Zenon DEF DaemonReads, shellVars
  <1>2. LastSaid'
    <2>1. cmds' # <<>> => Latest(cmds') = Latest(cmds)
      BY <1>1, LatestOfTail
    <2>2. QED
      BY <1>1, <2>1, Zenon DEF Ruled, LastSaid
  <1>3. Acquire \/ Release
    BY Zenon DEF DaemonReads
  <1>4. OneRegistrar'
    <2>1. CASE UNCHANGED owned
      BY <1>1, <2>1, Zenon DEF Ruled, OneRegistrar
    <2>2. CASE owned' = TRUE /\ ~rival
      BY <1>1, <2>2, Zenon DEF Ruled, OneRegistrar
    <2>3. CASE owned' = FALSE
      BY <1>1, <2>3, Zenon DEF Ruled, OneRegistrar
    <2>4. QED
      BY <1>3, <2>1, <2>2, <2>3, Zenon DEF Acquire, Release
  <1>5. ASSUME cmds' = <<>>
        PROVE  owned' <=> enabled' /\ ~rival'
    <2>1. Head(cmds) = enabled
      <3>1. Latest(cmds) = Head(cmds)
        BY <1>1, <1>5, LatestOfTail
      <3>2. QED
        BY <1>1, <3>1, Zenon DEF Ruled, LastSaid
    <2>2. CASE enabled
      <3>1. Acquire
        BY <2>1, <2>2, Zenon DEF DaemonReads
      <3>2. owned' \/ rival
        BY <3>1 DEF Acquire
      <3>3. QED
        BY <1>1, <1>4, <2>2, <3>2, Zenon DEF OneRegistrar
    <2>3. CASE ~enabled
      <3>1. Release
        BY <2>1, <2>3, Zenon DEF DaemonReads
      <3>2. ~owned'
        BY <3>1, Zenon DEF Release
      <3>3. QED
        BY <1>1, <2>3, <3>2, Zenon
    <2>4. QED
      BY <2>2, <2>3, Zenon
  <1>6. QED
    BY <1>2, <1>4, <1>5, Zenon DEF Ruled, SettingRules

LEMMA SayingRules ==
    ASSUME Ruled, Flags, cmds \in Seq(BOOLEAN), Switch \/ Connect
    PROVE  Ruled'
  <1>1. CASE Switch
    <2>1. UNCHANGED <<alive, owned, rival, linked>> /\ enabled' = ~enabled
      BY <1>1, Zenon DEF Switch
    <2>2. enabled' \in BOOLEAN
      BY <2>1, Zenon
    <2>3. CASE linked
      <3>1. cmds' = Append(cmds, enabled')
        BY <1>1, <2>1, <2>3, Zenon DEF Switch
      <3>2. cmds' # <<>> /\ Latest(cmds') = enabled'
        BY <2>2, <3>1, LatestOfAppend
      <3>3. QED
        BY <2>1, <2>3, <3>2, Zenon DEF Ruled, LastSaid, OneRegistrar, SettingRules
    <2>4. CASE ~linked
      <3>1. cmds' = cmds
        BY <1>1, <2>4, Zenon DEF Switch
      <3>2. QED
        BY <2>1, <2>4, <3>1, Zenon DEF Ruled, LastSaid, OneRegistrar, SettingRules, Latest
    <2>5. QED
      BY <2>3, <2>4, Zenon
  <1>2. CASE Connect
    <2>1. /\ UNCHANGED <<alive, owned, rival, enabled>> /\ alive /\ linked' = TRUE
          /\ cmds' = <<enabled>>
      BY <1>2, Zenon DEF Connect
    <2>2. enabled \in BOOLEAN
      BY Zenon DEF Flags
    <2>3. cmds' # <<>> /\ Latest(cmds') = enabled
      BY <2>1, <2>2, LatestOfAppend
    <2>4. QED
      BY <2>1, <2>3, Zenon DEF Ruled, LastSaid, OneRegistrar, SettingRules
  <1>3. QED
    BY <1>1, <1>2, Zenon

LEMMA RuledKeeps == IInv /\ Ruled /\ [Next]_vars => Ruled'
  <1> SUFFICES ASSUME IInv, Ruled, [Next]_vars
               PROVE  Ruled'
    OBVIOUS
  <1>1. Flags /\ cmds \in Seq(BOOLEAN)
    BY DEF IInv, Others
  <1>2. CASE DaemonReads
    BY <1>1, <1>2, ReadingRules
  <1>3. CASE Switch \/ Connect
    BY <1>1, <1>3, SayingRules
  <1>4. CASE LinkBreaks \/ DaemonDies
    <2>1. linked' = FALSE /\ cmds' = <<>> /\ rival' = rival
      BY <1>4, Zenon DEF LinkBreaks, DaemonDies, LinkGone
    <2>2. owned' = FALSE \/ owned' = owned
      BY <1>4, Zenon DEF LinkBreaks, DaemonDies
    <2>3. rival' => ~owned'
      BY <2>1, <2>2 DEF Ruled, OneRegistrar
    <2>4. QED
      BY <2>1, <2>3, Zenon DEF Ruled, LastSaid, OneRegistrar, SettingRules
  <1>5. CASE DaemonStarts
    BY <1>5, Zenon DEF DaemonStarts, shellVars, Ruled, LastSaid, OneRegistrar, SettingRules,
                       Latest
  <1>6. CASE RivalComes
    BY <1>6, Zenon DEF RivalComes, shellVars, Ruled, LastSaid, OneRegistrar, SettingRules, Latest
  <1>7. CASE \E s \in Senders : ScanAnswered(s) \/ AppLeaves(s) \/ Answers(s) \/ Fails(s)
    <2>1. UNCHANGED <<alive, owned, rival, enabled, linked, cmds>>
      BY <1>7, Zenon DEF ScanAnswered, AppLeaves, Answers, Fails, shellVars
    <2>2. QED
      BY <2>1, RuledStays
  <1>8. CASE \E w \in Windows : Registers(w)
    <2>1. UNCHANGED <<alive, owned, rival, enabled, linked, cmds>>
      BY <1>8, Zenon DEF Registers, shellVars
    <2>2. QED
      BY <2>1, RuledStays
  <1>9. CASE \E p \in Pids : Fire(p)
    <2>1. UNCHANGED <<alive, owned, rival, enabled, linked, cmds>>
      BY <1>9, Zenon DEF Fire, shellVars
    <2>2. QED
      BY <2>1, RuledStays
  <1>10. CASE \E b \in Bars : Export(b) \/ Change(b)
    <2>1. UNCHANGED <<alive, owned, rival, enabled, linked, cmds>>
      BY <1>10, Zenon DEF Export, Change, shellVars
    <2>2. QED
      BY <2>1, RuledStays
  <1>11. CASE UNCHANGED vars
    <2>1. UNCHANGED <<alive, owned, rival, enabled, linked, cmds>>
      BY <1>11, Zenon DEF vars, shellVars
    <2>2. QED
      BY <2>1, RuledStays
  <1>12. QED
    BY <1>2, <1>3, <1>4, <1>5, <1>6, <1>7, <1>8, <1>9, <1>10, <1>11 DEF Next

\* What the daemon has read of the setting is the setting: a switch, a broken
\* link or a new daemon leaves either a line under way that says it or a daemon
\* that does it (pushRegistrar, onLinkedChanged, set_registrar).
THEOREM TheSettingRules == Spec => []SettingRules
  <1>1. Init => Ruled
    <2> SUFFICES ASSUME Init
                 PROVE  Ruled
      OBVIOUS
    <2>1. /\ cmds = <<enabled>> /\ alive = TRUE /\ owned = TRUE /\ rival = FALSE
          /\ linked = TRUE /\ enabled \in BOOLEAN
      BY Zenon DEF Init
    <2>2. <<enabled>> # <<>> /\ Latest(<<enabled>>) = enabled
      <3>1. <<>> \in Seq(BOOLEAN)
        OBVIOUS
      <3>2. QED
        BY <2>1, <3>1, LatestOfAppend
    <2>3. QED
      BY <2>1, <2>2, Zenon DEF Ruled, LastSaid, OneRegistrar, SettingRules, Latest
  <1>2. Ruled => SettingRules
    BY Zenon DEF Ruled
  <1>3. QED
    BY <1>1, <1>2, RuledKeeps, Invariance, PTL DEF Spec
=============================================================================
