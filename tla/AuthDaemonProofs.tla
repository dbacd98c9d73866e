-------------------------- MODULE AuthDaemonProofs --------------------------
(* Proofs about AuthDaemon, and about AuthOrphan, where its shell may die,  *)
(* for every set of requests, every MAX_TRIES and every pipe size.          *)
EXTENDS AuthOrphan, SequenceTheorems, TLAPS

(* list.remove: what is left when the one occurrence of an element goes.    *)
LEMMA RemoveFirstShifts ==
    ASSUME NEW S, NEW q \in Seq(S), NEW i \in 1..Len(q),
           \A j, k \in 1..Len(q) : q[j] = q[k] => j = k
    PROVE  /\ RemoveFirst(q, q[i]) \in Seq(S)
           /\ Len(RemoveFirst(q, q[i])) = Len(q) - 1
           /\ \A j \in 1..Len(q) - 1 :
                 RemoveFirst(q, q[i])[j] = IF j < i THEN q[j] ELSE q[j + 1]
  <1> DEFINE I == {j \in 1..Len(q) : q[j] = q[i]}
  <1>1. I = {i}
    OBVIOUS
  <1>2. Min(I) = i
    BY <1>1 DEF Min
  <1>3. SelectInSeq(q, LAMBDA v : v = q[i]) = i
    BY <1>1, <1>2 DEF SelectInSeq
  <1>4. RemoveFirst(q, q[i]) = RemoveAt(q, i)
    BY <1>3 DEF RemoveFirst
  <1> DEFINE a == SubSeq(q, 1, i - 1)
             b == SubSeq(q, i + 1, Len(q))
  <1>5. /\ a \in Seq(S) /\ Len(a) = i - 1
        /\ \A j \in 1..i - 1 : a[j] = q[j]
    OBVIOUS
  <1>6. /\ b \in Seq(S) /\ Len(b) = Len(q) - i
        /\ \A j \in 1..Len(q) - i : b[j] = q[i + j]
    OBVIOUS
  <1>7. /\ a \o b \in Seq(S) /\ Len(a \o b) = Len(q) - 1
        /\ \A j \in 1..Len(q) - 1 :
              (a \o b)[j] = IF j < i THEN q[j] ELSE q[j + 1]
    <2> HIDE DEF a, b
    <2>1. a \o b \in Seq(S) /\ Len(a \o b) = Len(q) - 1
      BY <1>5, <1>6, ConcatProperties
    <2>2. ASSUME NEW j \in 1..Len(q) - 1
          PROVE  (a \o b)[j] = IF j < i THEN q[j] ELSE q[j + 1]
      <3>1. CASE j < i
        BY <1>5, <1>6, <3>1
      <3>2. CASE ~(j < i)
        <4>1. (a \o b)[j] = b[j - (i - 1)]
          BY <1>5, <1>6, <3>2
        <4>2. j - (i - 1) \in 1..Len(q) - i /\ i + (j - (i - 1)) = j + 1
          BY <3>2
        <4>3. QED
          BY <1>6, <3>2, <4>1, <4>2
      <3>3. QED
        BY <3>1, <3>2
    <2>3. QED
      BY <2>1, <2>2
  <1>8. QED
    BY <1>4, <1>7 DEF RemoveAt

(* What close() leaves in the queue: everyone else, in the same order.      *)
LEMMA LeftProperties ==
    ASSUME TypeOK, QueueIsTheOpenRequests, NEW r \in Requests, Open(r)
    PROVE  /\ Left(r) \in Seq(Requests)
           /\ \A j, k \in DOMAIN Left(r) : Left(r)[j] = Left(r)[k] => j = k
           /\ \A x \in Requests : (\E j \in DOMAIN Left(r) : Left(r)[j] = x)
                                     <=> Open(x) /\ x # r
           /\ \A j \in DOMAIN Left(r) : j > 1 =>
                 \E k \in DOMAIN queue : k > 1 /\ queue[k] = Left(r)[j]
  <1>1. PICK i \in 1..Len(queue) : queue[i] = r
    BY DEF TypeOK, QueueIsTheOpenRequests
  <1> DEFINE q2 == Left(r)
  <1>2. /\ q2 \in Seq(Requests)
        /\ Len(q2) = Len(queue) - 1
        /\ \A j \in 1..Len(queue) - 1 :
              q2[j] = IF j < i THEN queue[j] ELSE queue[j + 1]
    <2>1. /\ queue \in Seq(Requests)
          /\ \A j, k \in 1..Len(queue) : queue[j] = queue[k] => j = k
      BY DEF TypeOK, QueueIsTheOpenRequests
    <2>2. QED
      BY <1>1, <2>1, RemoveFirstShifts DEF Left
  <1>3. /\ queue \in Seq(Requests) /\ Len(queue) \in Nat
        /\ DOMAIN queue = 1..Len(queue) /\ DOMAIN q2 = 1..Len(queue) - 1
    BY <1>2 DEF TypeOK
  <1> HIDE DEF q2
  <1>4. \A j, k \in DOMAIN q2 : q2[j] = q2[k] => j = k
    <2>1. SUFFICES ASSUME NEW j \in 1..Len(queue) - 1, NEW k \in 1..Len(queue) - 1,
                          q2[j] = q2[k]
                   PROVE  j = k
      BY <1>3
    <2>2. \A m, n \in 1..Len(queue) : queue[m] = queue[n] => m = n
      BY <1>3 DEF QueueIsTheOpenRequests
    <2> DEFINE at(n) == IF n < i THEN n ELSE n + 1
    <2>3. /\ q2[j] = queue[at(j)] /\ at(j) \in 1..Len(queue)
          /\ q2[k] = queue[at(k)] /\ at(k) \in 1..Len(queue)
      BY <1>2, <1>3
    <2>4. at(j) = at(k)
      BY <2>1, <2>2, <2>3
    <2>5. QED
      BY <1>3, <2>4
  <1>5. ASSUME NEW x \in Requests
        PROVE  (\E j \in DOMAIN q2 : q2[j] = x) <=> Open(x) /\ x # r
    <2>1. \A m, n \in 1..Len(queue) : queue[m] = queue[n] => m = n
      BY <1>3 DEF QueueIsTheOpenRequests
    <2>2. Open(x) <=> \E m \in 1..Len(queue) : queue[m] = x
      BY <1>3 DEF QueueIsTheOpenRequests
    <2>3. ASSUME NEW j \in 1..Len(queue) - 1, q2[j] = x
          PROVE  Open(x) /\ x # r
      <3>1. PICK m \in 1..Len(queue) : m # i /\ q2[j] = queue[m]
        BY <1>2, <1>3
      <3>2. QED
        BY <1>1, <2>1, <2>2, <2>3, <3>1
    <2>4. ASSUME Open(x), x # r
          PROVE  \E j \in 1..Len(queue) - 1 : q2[j] = x
      <3>1. PICK m \in 1..Len(queue) : queue[m] = x
        BY <2>2, <2>4
      <3>2. CASE m < i
        <4>1. m \in 1..Len(queue) - 1
          BY <1>3, <3>2
        <4>2. QED
          BY <1>2, <3>1, <3>2, <4>1
      <3>3. CASE m > i
        <4>1. m - 1 \in 1..Len(queue) - 1 /\ ~(m - 1 < i) /\ (m - 1) + 1 = m
          BY <1>3, <3>3
        <4>2. QED
          BY <1>2, <3>1, <4>1
      <3>4. QED
        BY <1>1, <1>3, <2>4, <3>1, <3>2, <3>3
    <2>5. QED
      BY <1>3, <2>3, <2>4
  <1>6. \A j \in DOMAIN q2 : j > 1 =>
           \E k \in DOMAIN queue : k > 1 /\ queue[k] = q2[j]
    <2>1. SUFFICES ASSUME NEW j \in 1..Len(queue) - 1, j > 1
                   PROVE  \E k \in 1..Len(queue) : k > 1 /\ queue[k] = q2[j]
      BY <1>3
    <2>2. CASE j < i
      BY <1>2, <1>3, <2>1, <2>2
    <2>3. CASE ~(j < i)
      <3>1. j + 1 \in 1..Len(queue) /\ j + 1 > 1 /\ q2[j] = queue[j + 1]
        BY <1>2, <1>3, <2>1, <2>3
      <3>2. QED
        BY <3>1
    <2>4. QED
      BY <2>2, <2>3
  <1>7. QED
    BY <1>2, <1>4, <1>5, <1>6 DEF q2

(* The lines a step adds to the pipe are events. *)
LEMMA EventsOut ==
    ASSUME TypeOK, NEW r \in Requests, NEW name \in EventName
    PROVE  /\ <<Ev(name, r)>> \in Seq(Event)
           /\ Append(out, Ev(name, r)) \in Seq(Event)
  <1>1. Ev(name, r) \in Event
    BY DEF Ev, Event
  <1>2. QED
    BY <1>1, AppendProperties DEF TypeOK

LEMMA ActivationOut ==
    ASSUME NEW q \in Seq(Requests)
    PROVE  Activation(q) \in Seq(Event)
  <1>1. CASE q = <<>>
    BY <1>1 DEF Activation
  <1>2. CASE q # <<>>
    <2>1. q[1] \in Requests
      BY <1>2
    <2>2. Ev("active", q[1]) \in Event
      BY <2>1 DEF Ev, Event, EventName
    <2>3. QED
      BY <1>2, <2>2 DEF Activation
  <1>3. QED
    BY <1>1, <1>2

(* close() keeps the invariant, whichever outcome it is called with,        *)
(* whether or not the caller has dropped the reader and counted a failure.  *)
LEMMA CloseKeeps ==
    ASSUME IInv, NEW r \in Requests, Open(r),
           NEW outcome \in {"granted", "refused"},
           Answer(r), Close(r, outcome),
           \/ reader' = reader
           \/ reader' = [reader EXCEPT ![r] = FALSE],
           \/ tries' = tries
           \/ tries' = [tries EXCEPT ![r] = @ + 1],
           up' = up
    PROVE  IInv'
  <1> USE DEF IInv, Inv
  <1> DEFINE q2 == Left(r)
  <1>1. /\ q2 \in Seq(Requests)
        /\ \A j, k \in DOMAIN q2 : q2[j] = q2[k] => j = k
        /\ \A x \in Requests : (\E j \in DOMAIN q2 : q2[j] = x)
                                  <=> Open(x) /\ x # r
        /\ \A j \in DOMAIN q2 : j > 1 =>
              \E k \in DOMAIN queue : k > 1 /\ queue[k] = q2[j]
    BY LeftProperties
  <1>2. /\ queue' = q2
        /\ status' = [status EXCEPT ![r] = outcome]
        /\ session' = Begun(q2, [session EXCEPT ![r] = "none"])
        /\ pending' = Unasked(q2, [pending EXCEPT ![r] = FALSE])
        /\ out' = out \o <<Ev("close", r)>> \o Activation(q2)
    BY DEF Close, Dropped
  <1> HIDE DEF q2
  <1>3. /\ session \in [Requests -> Stage] /\ pending \in [Requests -> BOOLEAN]
        /\ status \in [Requests -> Status] /\ held \in [Requests -> BOOLEAN]
        /\ reader \in [Requests -> BOOLEAN] /\ tries \in [Requests -> Nat]
        /\ out \in Seq(Event)
    BY DEF TypeOK
  <1>4. HeadIsPolkit(q2) => /\ q2[1] \in Requests /\ q2[1] \in Polkit
                            /\ Open(q2[1]) /\ q2[1] # r
    <2>1. SUFFICES ASSUME HeadIsPolkit(q2)
                   PROVE  /\ q2[1] \in Requests /\ q2[1] \in Polkit
                          /\ Open(q2[1]) /\ q2[1] # r
      OBVIOUS
    <2>2. 1 \in DOMAIN q2 /\ q2[1] \in Requests /\ q2[1] \in Polkit
      BY <1>1, <2>1 DEF HeadIsPolkit
    <2>3. QED
      BY <1>1, <2>2
  <1>5. \A x \in Requests :
           /\ session'[x] = IF HeadIsPolkit(q2) /\ x = q2[1] THEN "started"
                            ELSE IF x = r THEN "none" ELSE session[x]
           /\ pending'[x] = IF (HeadIsPolkit(q2) /\ x = q2[1]) \/ x = r
                              THEN FALSE ELSE pending[x]
    BY <1>2, <1>3, <1>4 DEF Begun, Unasked
  <1>6. \A x \in Requests :
           /\ status'[x] = IF x = r THEN outcome ELSE status[x]
           /\ held'[x] = IF x = r THEN FALSE ELSE held[x]
           /\ reader'[x] => reader[x]
           /\ x # r => tries'[x] = tries[x]
           /\ tries'[x] \in Nat /\ tries'[x] <= tries[x] + 1
    BY <1>2, <1>3 DEF Answer
  <1>7. TypeOK'
    <2>1. session' \in [Requests -> Stage] /\ pending' \in [Requests -> BOOLEAN]
      BY <1>2, <1>3, <1>4 DEF Begun, Unasked, Stage
    <2>2. /\ status' \in [Requests -> Status] /\ held' \in [Requests -> BOOLEAN]
          /\ reader' \in [Requests -> BOOLEAN] /\ tries' \in [Requests -> Nat]
      <3>1. status' \in [Requests -> Status]
        BY <1>2, <1>3 DEF Status
      <3>2. held' \in [Requests -> BOOLEAN] /\ reader' \in [Requests -> BOOLEAN]
        BY <1>3 DEF Answer
      <3>3. tries' \in [Requests -> Nat]
        <4>1. CASE tries' = tries
          BY <1>3, <4>1
        <4>2. CASE tries' = [tries EXCEPT ![r] = @ + 1]
          BY <1>3, <4>2
        <4>3. QED
          BY <4>1, <4>2
      <3>4. QED
        BY <3>1, <3>2, <3>3
    <2>3. out' \in Seq(Event)
      <3>1. "close" \in EventName
        BY DEF EventName
      <3>2. out \o <<Ev("close", r)>> \in Seq(Event)
        BY <1>3, <3>1, EventsOut, ConcatProperties
      <3>3. QED
        BY <1>1, <1>2, <3>2, ActivationOut, ConcatProperties
    <2>4. QED
      BY <1>1, <1>2, <2>1, <2>2, <2>3 DEF TypeOK
  <1>8. QueueIsTheOpenRequests'
    <2>1. \A x \in Requests : Open(x) /\ x # r <=> status'[x] = "open"
      BY <1>6 DEF Open
    <2>2. \A x \in Requests :
             (\E j \in DOMAIN queue' : queue'[j] = x) <=> status'[x] = "open"
      BY <1>1, <1>2, <2>1
    <2>3. \A j, k \in DOMAIN queue' : queue'[j] = queue'[k] => j = k
      BY <1>1, <1>2
    <2>4. QED
      BY <2>2, <2>3 DEF QueueIsTheOpenRequests, Open
  <1>9. CallersWaitOnlyWhileQueued'
    BY <1>6 DEF CallersWaitOnlyWhileQueued, Open
  <1>10. OnlyTheHeadConverses'
    <2>1. SUFFICES ASSUME NEW j \in DOMAIN q2, j > 1
                   PROVE  session'[q2[j]] = "none" /\ ~reader'[q2[j]]
      BY <1>2 DEF OnlyTheHeadConverses, Live
    <2>2. q2[j] \in Requests /\ ~Live(q2[j])
      BY <1>1, <2>1 DEF OnlyTheHeadConverses
    <2>3. ~(HeadIsPolkit(q2) /\ q2[j] = q2[1])
      <3>1. q2 # <<>> => 1 \in DOMAIN q2
        BY <1>1
      <3>2. QED
        BY <1>1, <2>1, <3>1 DEF HeadIsPolkit
    <2>4. QED
      BY <1>5, <1>6, <2>2, <2>3 DEF Live
  <1>11. HeadIsBeingAsked'
    BY <1>2, <1>4, <1>5 DEF HeadIsBeingAsked
  <1>12. SecretsOnlyWhenAsked'
    BY <1>4, <1>5 DEF SecretsOnlyWhenAsked
  <1>13. TriesBounded'
    <2>1. SUFFICES ASSUME NEW x \in Requests
                   PROVE  /\ tries'[x] <= MaxTries
                          /\ status'[x] = "open" => tries'[x] < MaxTries
      BY DEF TriesBounded, Open
    <2>2. /\ tries[x] <= MaxTries /\ (status[x] = "open" => tries[x] < MaxTries)
          /\ tries[x] \in Nat /\ MaxTries \in Nat
      BY <1>3, AuthAssumption DEF TriesBounded, Open
    <2>3. CASE x = r
      <3>1. status'[x] # "open" /\ tries[x] < MaxTries
        BY <1>6, <2>2, <2>3 DEF Open
      <3>2. tries'[x] \in Nat /\ tries'[x] <= tries[x] + 1
        BY <1>6
      <3>3. QED
        BY <2>2, <3>1, <3>2
    <2>4. CASE x # r
      BY <1>6, <2>2, <2>4
    <2>5. QED
      BY <2>3, <2>4
  <1>14. ClosedIsOver'
    <2>1. SUFFICES ASSUME NEW x \in Requests, status'[x] # "open"
                   PROVE  session'[x] = "none"
      BY DEF ClosedIsOver, Open
    <2>2. HeadIsPolkit(q2) => x # q2[1]
      BY <1>4, <1>6, <2>1 DEF Open
    <2>3. x # r => session[x] = "none"
      BY <1>6, <2>1 DEF ClosedIsOver, Open
    <2>4. QED
      BY <1>5, <2>2, <2>3
  <1>15. NewIsUntouched'
    BY <1>6 DEF NewIsUntouched, Open
  <1>16. SudoHasNoPam'
    BY <1>4, <1>5, <1>6, AuthAssumption DEF SudoHasNoPam, Live, Requests
  <1>17. QED
    BY <1>7, <1>8, <1>9, <1>10, <1>11, <1>12, <1>13, <1>14, <1>15, <1>16

(* A request that is queued is behind everybody else. *)
LEMMA JoinsTheQueue ==
    ASSUME TypeOK, QueueIsTheOpenRequests, NEW r \in Requests, status[r] = "new",
           queue' = Append(queue, r), status' = [status EXCEPT ![r] = "open"]
    PROVE  /\ QueueIsTheOpenRequests'
           /\ Len(queue') = Len(queue) + 1 /\ queue'[Len(queue) + 1] = r
           /\ \A j \in 1..Len(queue) : queue'[j] = queue[j] /\ queue[j] # r
           /\ DOMAIN queue' = 1..Len(queue) + 1 /\ DOMAIN queue = 1..Len(queue)
           /\ queue' \in Seq(Requests) /\ Len(queue) \in Nat
  <1>1. status \in [Requests -> Status] /\ queue \in Seq(Requests)
    BY DEF TypeOK
  <1>2. \A x \in Requests : status'[x] = IF x = r THEN "open" ELSE status[x]
    BY <1>1
  <1>3. /\ Len(queue') = Len(queue) + 1 /\ queue'[Len(queue) + 1] = r
        /\ \A j \in 1..Len(queue) : queue'[j] = queue[j] /\ queue[j] # r
        /\ DOMAIN queue' = 1..Len(queue) + 1 /\ DOMAIN queue = 1..Len(queue)
        /\ queue' \in Seq(Requests) /\ Len(queue) \in Nat
    <2>1. /\ Len(queue') = Len(queue) + 1 /\ queue'[Len(queue) + 1] = r
          /\ \A j \in 1..Len(queue) : queue'[j] = queue[j]
          /\ queue' \in Seq(Requests) /\ Len(queue) \in Nat
      BY <1>1, AppendProperties
    <2>2. \A j \in 1..Len(queue) : queue[j] # r
      <3>1. ~\E j \in DOMAIN queue : queue[j] = r
        BY DEF QueueIsTheOpenRequests, Open
      <3>2. QED
        BY <1>1, <3>1
    <2>3. QED
      BY <1>1, <2>1, <2>2
  <1>4. QueueIsTheOpenRequests'
    <2>1. \A j, k \in DOMAIN queue : queue[j] = queue[k] => j = k
      BY DEF QueueIsTheOpenRequests
    <2>2. \A j, k \in DOMAIN queue' : queue'[j] = queue'[k] => j = k
      BY <1>3, <2>1
    <2>3. \A x \in Requests : status[x] = "open" <=> \E j \in DOMAIN queue : queue[j] = x
      BY DEF QueueIsTheOpenRequests, Open
    <2>4. ASSUME NEW x \in Requests
          PROVE  status'[x] = "open" <=> \E j \in DOMAIN queue' : queue'[j] = x
      <3>1. CASE x = r
        <4>1. Len(queue) + 1 \in DOMAIN queue'
          BY <1>3
        <4>2. status'[x] = "open"
          BY <1>2, <3>1
        <4>3. QED
          BY <1>3, <3>1, <4>1, <4>2
      <3>2. CASE x # r
        <4>1. status'[x] = "open" <=> \E j \in 1..Len(queue) : queue[j] = x
          BY <1>2, <1>3, <2>3, <3>2
        <4>2. (\E j \in 1..Len(queue) : queue[j] = x)
                 => \E j \in 1..Len(queue) + 1 : queue'[j] = x
          <5>1. \A j \in 1..Len(queue) : j \in 1..Len(queue) + 1
            BY <1>3
          <5>2. QED
            BY <1>3, <5>1
        <4>3. ASSUME NEW j \in 1..Len(queue) + 1, queue'[j] = x
              PROVE  \E k \in 1..Len(queue) : queue[k] = x
          <5>1. j \in 1..Len(queue)
            BY <1>3, <3>2, <4>3
          <5>2. QED
            BY <1>3, <4>3, <5>1
        <4>4. QED
          BY <1>3, <4>1, <4>2, <4>3
      <3>3. QED
        BY <3>1, <3>2
    <2>5. QED
      BY <2>2, <2>4 DEF QueueIsTheOpenRequests, Open
  <1>5. QED
    BY <1>3, <1>4

(* push() keeps the invariant: a request that comes to an empty queue       *)
(* starts its conversation, one that comes to another stays un-initiated.   *)
LEMMA PushKeeps ==
    ASSUME IInv, NEW r \in Requests, status[r] = "new",
           NEW after \in Seq(Event), Push(r, after)
    PROVE  IInv'
  <1> USE DEF IInv, Inv
  <1> DEFINE q1 == Starts(r)
  <1>1. /\ session \in [Requests -> Stage] /\ pending \in [Requests -> BOOLEAN]
        /\ status \in [Requests -> Status] /\ held \in [Requests -> BOOLEAN]
        /\ reader \in [Requests -> BOOLEAN] /\ tries \in [Requests -> Nat]
        /\ out \in Seq(Event) /\ queue \in Seq(Requests)
    BY DEF TypeOK
  <1>2. /\ q1 \in Seq(Requests)
        /\ HeadIsPolkit(q1) => q1[1] = r /\ queue = <<>> /\ r \in Polkit
        /\ queue = <<>> /\ r \in Polkit => HeadIsPolkit(q1)
    BY DEF Starts, HeadIsPolkit
  <1>3. /\ queue' = Append(queue, r)
        /\ status' = [status EXCEPT ![r] = "open"]
        /\ held' = [held EXCEPT ![r] = TRUE]
        /\ session' = Begun(q1, session)
        /\ pending' = Unasked(q1, pending)
        /\ out' = out \o <<Ev("request", r)>> \o Activation(q1) \o after
        /\ up' = up /\ reader' = reader /\ tries' = tries
    BY DEF Push
  <1> HIDE DEF q1
  <1>4. \A x \in Requests :
           /\ session'[x] = IF HeadIsPolkit(q1) /\ x = r THEN "started"
                            ELSE session[x]
           /\ pending'[x] = IF HeadIsPolkit(q1) /\ x = r THEN FALSE
                            ELSE pending[x]
           /\ status'[x] = IF x = r THEN "open" ELSE status[x]
           /\ held'[x] = IF x = r THEN TRUE ELSE held[x]
    BY <1>1, <1>2, <1>3 DEF Begun, Unasked
  <1>5. /\ QueueIsTheOpenRequests'
        /\ Len(queue') = Len(queue) + 1 /\ queue'[Len(queue) + 1] = r
        /\ \A j \in 1..Len(queue) : queue'[j] = queue[j] /\ queue[j] # r
        /\ DOMAIN queue' = 1..Len(queue) + 1 /\ DOMAIN queue = 1..Len(queue)
        /\ queue' \in Seq(Requests) /\ Len(queue) \in Nat
    BY <1>3, JoinsTheQueue
  <1>6. TypeOK'
    <2>1. session' \in [Requests -> Stage] /\ pending' \in [Requests -> BOOLEAN]
      BY <1>1, <1>2, <1>3 DEF Begun, Unasked, Stage
    <2>2. status' \in [Requests -> Status] /\ held' \in [Requests -> BOOLEAN]
      BY <1>1, <1>3 DEF Status
    <2>3. out' \in Seq(Event)
      <3>1. "request" \in EventName
        BY DEF EventName
      <3>2. out \o <<Ev("request", r)>> \in Seq(Event)
        BY <1>1, <3>1, EventsOut, ConcatProperties
      <3>3. Activation(q1) \in Seq(Event)
        BY <1>2, ActivationOut
      <3>4. QED
        BY <1>3, <3>2, <3>3, ConcatProperties
    <2>4. QED
      BY <1>1, <1>3, <1>5, <2>1, <2>2, <2>3 DEF TypeOK
  <1>7. QueueIsTheOpenRequests'
    BY <1>5
  <1>8. CallersWaitOnlyWhileQueued'
    BY <1>4 DEF CallersWaitOnlyWhileQueued, Open
  <1>9. session[r] = "none" /\ ~reader[r] /\ tries[r] = 0 /\ ~pending[r]
    BY DEF ClosedIsOver, NewIsUntouched, SecretsOnlyWhenAsked, Open
  <1>10. OnlyTheHeadConverses'
    <2>1. SUFFICES ASSUME NEW j \in DOMAIN queue', j > 1
                   PROVE  session'[queue'[j]] = "none" /\ ~reader'[queue'[j]]
      BY DEF OnlyTheHeadConverses, Live
    <2>2. queue # <<>> /\ ~HeadIsPolkit(q1)
      BY <1>1, <1>2, <1>5, <2>1
    <2>3. CASE j = Len(queue) + 1
      BY <1>3, <1>4, <1>5, <1>9, <2>2, <2>3
    <2>4. CASE j # Len(queue) + 1
      <3>1. j \in 1..Len(queue) /\ queue'[j] = queue[j] /\ queue[j] \in Requests
        BY <1>1, <1>5, <2>1, <2>4
      <3>2. ~Live(queue[j])
        BY <1>5, <2>1, <3>1 DEF OnlyTheHeadConverses
      <3>3. QED
        BY <1>3, <1>4, <2>2, <3>1, <3>2 DEF Live
    <2>5. QED
      BY <2>3, <2>4
  <1>11. HeadIsBeingAsked'
    <2>1. CASE queue = <<>>
      <3>1. queue'[1] = r
        BY <1>5, <2>1
      <3>2. r \in Polkit => session'[r] = "started"
        BY <1>2, <1>4, <2>1
      <3>3. QED
        BY <3>1, <3>2 DEF HeadIsBeingAsked, HeadIsPolkit
    <2>2. CASE queue # <<>>
      <3>1. queue'[1] = queue[1] /\ queue[1] # r /\ queue[1] \in Requests
        BY <1>1, <1>5, <2>2
      <3>2. QED
        BY <1>4, <2>2, <3>1 DEF HeadIsBeingAsked, HeadIsPolkit
    <2>3. QED
      BY <2>1, <2>2
  <1>12. SecretsOnlyWhenAsked'
    BY <1>4 DEF SecretsOnlyWhenAsked
  <1>13. TriesBounded'
    BY <1>3, <1>4, <1>9, AuthAssumption DEF TriesBounded, Open
  <1>14. ClosedIsOver'
    BY <1>4 DEF ClosedIsOver, Open
  <1>15. NewIsUntouched'
    BY <1>3, <1>4 DEF NewIsUntouched
  <1>16. SudoHasNoPam'
    BY <1>2, <1>3, <1>4, AuthAssumption DEF SudoHasNoPam, Live, Requests
  <1>17. QED
    BY <1>6, <1>7, <1>8, <1>10, <1>11, <1>12, <1>13, <1>14, <1>15, <1>16

(* What holds of the daemon whether or not it is heard. *)
Base == /\ TypeOK
        /\ QueueIsTheOpenRequests /\ OnlyTheHeadConverses /\ SecretsOnlyWhenAsked
        /\ TriesBounded /\ ClosedIsOver /\ NewIsUntouched /\ SudoHasNoPam

LEMMA InvIsBaseAndMore ==
    IInv <=> Base /\ CallersWaitOnlyWhileQueued /\ HeadIsBeingAsked
  BY Zenon DEF IInv, Inv, Base

(* A step that leaves the queue alone keeps this much when it touches only  *)
(* the conversations of one request, and either that request has a password *)
(* session and stays under the limit, or the step does no more than let go  *)
(* of its reader.                                                           *)
LEMMA TalkKeepsBase ==
    ASSUME Base, TypeOK', NEW r \in Requests,
           UNCHANGED <<queue, status>>,
           \A x \in Requests : x # r =>
              /\ session'[x] = session[x] /\ pending'[x] = pending[x]
              /\ tries'[x] = tries[x] /\ reader'[x] = reader[x],
           pending'[r] <=> session'[r] = "asking",
           \/ session[r] # "none" /\ tries'[r] < MaxTries
           \/ /\ session'[r] = session[r] /\ tries'[r] = tries[r]
              /\ reader'[r] => reader[r]
    PROVE  Base'
  <1> USE DEF Base
  <1>1. session[r] # "none" => Open(r) /\ r \notin Sudo
    BY DEF ClosedIsOver, SudoHasNoPam, Live
  <1>2. QueueIsTheOpenRequests'
    BY DEF QueueIsTheOpenRequests, Open
  <1>3. \A x \in Requests : ~Live(x) /\ session[x] = "none" =>
           session'[x] = "none" /\ ~reader'[x]
    BY DEF Live
  <1>4. OnlyTheHeadConverses'
    <2>1. SUFFICES ASSUME NEW j \in DOMAIN queue, j > 1
                   PROVE  session'[queue[j]] = "none" /\ ~reader'[queue[j]]
      BY DEF OnlyTheHeadConverses, Live
    <2>2. queue[j] \in Requests /\ ~Live(queue[j])
      BY <2>1 DEF OnlyTheHeadConverses, TypeOK
    <2>3. QED
      BY <1>3, <2>2 DEF Live
  <1>5. SecretsOnlyWhenAsked'
    BY DEF SecretsOnlyWhenAsked
  <1>6. TriesBounded'
    <2>1. SUFFICES ASSUME NEW x \in Requests
                   PROVE  /\ tries'[x] <= MaxTries
                          /\ status'[x] = "open" => tries'[x] < MaxTries
      BY DEF TriesBounded, Open
    <2>2. tries[x] <= MaxTries /\ (status[x] = "open" => tries[x] < MaxTries)
      BY DEF TriesBounded, Open
    <2>3. tries'[x] \in Nat /\ MaxTries \in Nat
      BY AuthAssumption DEF TypeOK
    <2>4. QED
      BY <2>2, <2>3
  <1>7. ClosedIsOver'
    BY <1>1 DEF ClosedIsOver, Open
  <1>8. NewIsUntouched'
    BY <1>1 DEF NewIsUntouched, Open
  <1>9. SudoHasNoPam'
    BY <1>1 DEF SudoHasNoPam, Live, Requests
  <1>10. QED
    BY <1>2, <1>4, <1>5, <1>6, <1>7, <1>8, <1>9

(* And the whole invariant, when the session it had has a successor.        *)
LEMMA TalkKeeps ==
    ASSUME IInv, TypeOK', NEW r \in Requests,
           UNCHANGED <<queue, status, held>>,
           \A x \in Requests : x # r =>
              /\ session'[x] = session[x] /\ pending'[x] = pending[x]
              /\ tries'[x] = tries[x] /\ reader'[x] = reader[x],
           pending'[r] <=> session'[r] = "asking",
           \/ /\ session[r] # "none" /\ session'[r] # "none"
              /\ tries'[r] < MaxTries
           \/ /\ session'[r] = session[r] /\ tries'[r] = tries[r]
              /\ reader'[r] => reader[r]
    PROVE  IInv'
  <1>1. Base /\ CallersWaitOnlyWhileQueued /\ HeadIsBeingAsked
    BY InvIsBaseAndMore
  <1>2. Base'
    BY <1>1, TalkKeepsBase
  <1>3. CallersWaitOnlyWhileQueued'
    BY <1>1 DEF CallersWaitOnlyWhileQueued, Open
  <1>4. HeadIsBeingAsked'
    <2>1. SUFFICES ASSUME HeadIsPolkit(queue)
                   PROVE  session'[queue[1]] # "none"
      BY DEF HeadIsBeingAsked, HeadIsPolkit
    <2>2. queue[1] \in Requests /\ session[queue[1]] # "none"
      BY <1>1, <2>1 DEF HeadIsBeingAsked, HeadIsPolkit, Requests
    <2>3. QED
      BY <2>2
  <1>5. QED
    BY <1>2, <1>3, <1>4 DEF Base, IInv, Inv

(* A request that is turned away is never queued. *)
LEMMA TurnedAwayKeeps ==
    ASSUME IInv, NEW r \in Requests, status[r] = "new",
           status' = [status EXCEPT ![r] = "refused"],
           UNCHANGED <<up, queue, held, session, reader, pending, tries, out>>
    PROVE  IInv'
  <1> USE DEF IInv, Inv
  <1>1. \A x \in Requests :
           status'[x] = IF x = r THEN "refused" ELSE status[x]
    BY DEF TypeOK
  <1>2. \A x \in Requests : Open(x) <=> status'[x] = "open"
    BY <1>1 DEF Open
  <1>3. TypeOK'
    BY DEF TypeOK, Status
  <1>4. QueueIsTheOpenRequests' /\ CallersWaitOnlyWhileQueued'
    BY <1>2 DEF QueueIsTheOpenRequests, CallersWaitOnlyWhileQueued, Open
  <1>5. OnlyTheHeadConverses' /\ HeadIsBeingAsked' /\ SecretsOnlyWhenAsked'
    BY DEF OnlyTheHeadConverses, HeadIsBeingAsked, SecretsOnlyWhenAsked,
           HeadIsPolkit, Live
  <1>6. TriesBounded' /\ ClosedIsOver'
    BY <1>2 DEF TriesBounded, ClosedIsOver, Open
  <1>7. NewIsUntouched' /\ SudoHasNoPam'
    BY <1>1 DEF NewIsUntouched, SudoHasNoPam, Live
  <1>8. QED
    BY <1>3, <1>4, <1>5, <1>6, <1>7

(* The end of the process leaves nothing and nobody. *)
LEMMA EndKeeps ==
    ASSUME TypeOK, NEW outcome \in {"refused", "lost"}, Ended(outcome),
           out' \in Seq(Event)
    PROVE  IInv'
  <1> USE DEF IInv, Inv
  <1>1. \A x \in Requests :
           /\ status'[x] = IF Open(x) THEN outcome ELSE status[x]
           /\ ~held'[x] /\ session'[x] = "none" /\ ~reader'[x]
           /\ ~pending'[x] /\ tries'[x] = 0
    BY DEF Ended
  <1>2. queue' = <<>> /\ up' = FALSE
    BY DEF Ended
  <1>3. TypeOK'
    <2>1. status' \in [Requests -> Status]
      <3>1. \A x \in Requests :
               (IF Open(x) THEN outcome ELSE status[x]) \in Status
        BY DEF TypeOK, Status
      <3>2. QED
        BY <3>1 DEF Ended
    <2>2. /\ held' \in [Requests -> BOOLEAN] /\ reader' \in [Requests -> BOOLEAN]
          /\ pending' \in [Requests -> BOOLEAN]
          /\ session' \in [Requests -> Stage] /\ tries' \in [Requests -> Nat]
      BY DEF Ended, Stage
    <2>3. queue' \in Seq(Requests) /\ out' \in Seq(Event) /\ up' \in BOOLEAN
      <3>1. queue' \in Seq(Requests)
        BY <1>2
      <3>2. up' \in BOOLEAN
        BY <1>2, Zenon
      <3>3. QED
        BY <3>1, <3>2
    <2>4. QED
      BY <2>1, <2>2, <2>3 DEF TypeOK
  <1>4. \A x \in Requests : status'[x] # "open"
    BY <1>1 DEF Open
  <1>5. QueueIsTheOpenRequests' /\ CallersWaitOnlyWhileQueued'
    BY <1>1, <1>2, <1>4 DEF QueueIsTheOpenRequests, CallersWaitOnlyWhileQueued, Open
  <1>6. OnlyTheHeadConverses' /\ HeadIsBeingAsked' /\ SecretsOnlyWhenAsked'
    BY <1>1, <1>2 DEF OnlyTheHeadConverses, HeadIsBeingAsked,
                      SecretsOnlyWhenAsked, HeadIsPolkit
  <1>7. TriesBounded' /\ ClosedIsOver'
    BY <1>1, <1>4, AuthAssumption DEF TriesBounded, ClosedIsOver, Open
  <1>8. NewIsUntouched' /\ SudoHasNoPam'
    BY <1>1 DEF NewIsUntouched, SudoHasNoPam, Live, Requests
  <1>9. QED
    BY <1>3, <1>5, <1>6, <1>7, <1>8

LEMMA GoneKeeps ==
    ASSUME TypeOK, NEW outcome \in {"refused", "lost"}, Gone(outcome)
    PROVE  IInv'
  BY EndKeeps DEF Gone, TypeOK

(* What a daemon says that shuts down: closes and activations. *)
LEMMA FarewellOut ==
    ASSUME NEW S, NEW q \in Seq(Requests),
           \A x \in Requests : Ev("close", x) \in S /\ Ev("active", x) \in S
    PROVE  Farewell(q) \in Seq(S)
  <1>1. ASSUME NEW i \in 1..Len(q)
        PROVE  Ev("close", q[i]) \in S /\ Ev("active", q[i]) \in S
    <2>1. q[i] \in Requests
      OBVIOUS
    <2>2. QED
      BY <2>1
  <1>2. CASE Len(q) = 0
    <2>1. Farewell(q) = [k \in 1..0 |-> Ev("close", q[1])]
      <3>1. 1..2 * Len(q) - 1 = {} /\ 1..0 = {}
        BY <1>2
      <3>2. QED
        BY <3>1 DEF Farewell
    <2>2. QED
      BY <2>1
  <1>3. CASE Len(q) # 0
    <2> DEFINE n == 2 * Len(q) - 1
    <2>1. Len(q) \in Nat /\ n \in Nat
      BY <1>3
    <2>2. ASSUME NEW k \in 1..n
          PROVE  (IF k % 2 = 1 THEN Ev("close", q[(k + 1) \div 2])
                  ELSE Ev("active", q[k \div 2 + 1])) \in S
      <3>1. CASE k % 2 = 1
        <4>1. (k + 1) \div 2 \in 1..Len(q)
          BY <2>1
        <4>2. QED
          BY <1>1, <3>1, <4>1
      <3>2. CASE k % 2 # 1
        <4>1. k \div 2 + 1 \in 1..Len(q)
          BY <2>1
        <4>2. QED
          BY <1>1, <3>2, <4>1
      <3>3. QED
        BY <3>1, <3>2
    <2>3. Farewell(q) \in [1..n -> S]
      BY <2>2 DEF Farewell
    <2>4. QED
      BY <2>1, <2>3
  <1>4. QED
    BY <1>2, <1>3

LEMMA ShutdownKeeps ==
    ASSUME TypeOK, Shutdown
    PROVE  IInv'
  <1>1. Ended("refused") /\ out' = out \o Farewell(queue)
    BY DEF Shutdown
  <1>2. out' \in Seq(Event)
    <2>1. \A x \in Requests : Ev("close", x) \in Event /\ Ev("active", x) \in Event
      BY DEF Ev, Event, EventName
    <2>2. Farewell(queue) \in Seq(Event)
      BY <2>1, FarewellOut DEF TypeOK
    <2>3. QED
      BY <1>1, <2>2, ConcatProperties DEF TypeOK
  <1>3. QED
    BY <1>1, <1>2, EndKeeps

(* A daemon that has just started has nobody queued. *)
LEMMA InitHolds == Init => IInv
  <1> SUFFICES ASSUME Init
               PROVE  IInv
    OBVIOUS
  <1>1. TypeOK
    <2>1. out \in Seq(Event)
      BY DEF Init, Event
    <2>2. QED
      BY <2>1 DEF Init, TypeOK, Status, Stage
  <1>2. Inv
    BY AuthAssumption
       DEF Init, Inv, QueueIsTheOpenRequests, CallersWaitOnlyWhileQueued,
           OnlyTheHeadConverses, HeadIsBeingAsked, SecretsOnlyWhenAsked,
           TriesBounded, ClosedIsOver, HeadIsPolkit, Open
  <1>3. NewIsUntouched /\ SudoHasNoPam
    BY DEF Init, NewIsUntouched, SudoHasNoPam, Live, Requests
  <1>4. QED
    BY <1>1, <1>2, <1>3 DEF IInv

(* A caller coming, turned away, or taking its request back. *)
LEMMA CallerKeeps ==
    ASSUME IInv, NEW r \in Requests, Caller(r)
    PROVE  IInv'
  <1>1. CASE BeginAuthentication(r)
    BY <1>1, PushKeeps, EmptySeq DEF BeginAuthentication
  <1>2. CASE BeginRefused(r)
    BY <1>2, TurnedAwayKeeps DEF BeginRefused
  <1>3. CASE AskpassRequest(r)
    <2>1. <<Ev("prompt", r)>> \in Seq(Event)
      BY EventsOut DEF IInv, EventName
    <2>2. QED
      BY <1>3, <2>1, PushKeeps DEF AskpassRequest
  <1>4. CASE AskpassDropped(r)
    BY <1>4, TurnedAwayKeeps DEF AskpassDropped
  <1>5. CASE CancelAuthentication(r)
    BY <1>5, CloseKeeps DEF CancelAuthentication, Deny
  <1>6. QED
    BY <1>1, <1>2, <1>3, <1>4, <1>5 DEF Caller

(* A command from the shell. *)
LEMMA CommandKeeps ==
    ASSUME IInv, NEW r \in Requests, Cancel(r) \/ Respond(r)
    PROVE  IInv'
  <1>1. CASE Cancel(r)
    BY <1>1, CloseKeeps DEF Cancel, Deny
  <1>2. CASE RespondSudo(r)
    BY <1>2, CloseKeeps DEF RespondSudo
  <1>3. CASE RespondPolkit(r)
    <2>1. TypeOK'
      BY <1>3 DEF RespondPolkit, IInv, TypeOK, Stage
    <2>2. /\ session'[r] = "answered" /\ pending'[r] = FALSE
          /\ tries'[r] < MaxTries
      BY <1>3 DEF RespondPolkit, IInv, Inv, TypeOK, TriesBounded
    <2>3. \A x \in Requests : x # r =>
             /\ session'[x] = session[x] /\ pending'[x] = pending[x]
             /\ tries'[x] = tries[x] /\ reader'[x] = reader[x]
      BY <1>3 DEF RespondPolkit, IInv, TypeOK
    <2>4. session[r] # "none" /\ UNCHANGED <<queue, status, held>>
      BY <1>3 DEF RespondPolkit
    <2>5. session'[r] # "none" /\ (pending'[r] <=> session'[r] = "asking")
      BY <2>2
    <2>6. QED
      BY <2>1, <2>2, <2>3, <2>4, <2>5, TalkKeeps
  <1>4. QED
    BY <1>1, <1>2, <1>3 DEF Respond

(* A signal of a PAM session, from either slot of a request. *)
LEMMA PamKeeps ==
    ASSUME IInv, NEW r \in Requests, Pam(r)
    PROVE  IInv'
  <1>1. /\ session \in [Requests -> Stage] /\ pending \in [Requests -> BOOLEAN]
        /\ reader \in [Requests -> BOOLEAN] /\ tries \in [Requests -> Nat]
        /\ out \in Seq(Event)
    BY DEF IInv, TypeOK
  <1>2. \A name \in EventName : Append(out, Ev(name, r)) \in Seq(Event)
    BY EventsOut DEF IInv
  <1>3. \A x \in Requests : pending[x] <=> session[x] = "asking"
    BY DEF IInv, Inv, SecretsOnlyWhenAsked
  <1>4. session[r] # "none" => Open(r) /\ tries[r] < MaxTries
    BY DEF IInv, Inv, ClosedIsOver, TriesBounded
  <1>5. CASE SessionAsks(r)
    <2>1. TypeOK'
      BY <1>2, <1>5 DEF SessionAsks, IInv, TypeOK, Stage, EventName
    <2>2. \A x \in Requests : x # r =>
             /\ session'[x] = session[x] /\ pending'[x] = pending[x]
             /\ tries'[x] = tries[x] /\ reader'[x] = reader[x]
      BY <1>1, <1>5 DEF SessionAsks
    <2>3. session'[r] = "asking" /\ pending'[r] = TRUE /\ tries'[r] = tries[r]
      BY <1>1, <1>5 DEF SessionAsks
    <2>4. session[r] # "none" /\ UNCHANGED <<queue, status, held>>
      BY <1>5 DEF SessionAsks
    <2>5. session'[r] # "none" /\ (pending'[r] <=> session'[r] = "asking")
          /\ tries'[r] < MaxTries
      BY <1>4, <2>3, <2>4
    <2>6. QED
      BY <2>1, <2>2, <2>4, <2>5, TalkKeeps
  <1>6. CASE ReaderAsks(r) \/ (ReaderFails(r))
    <2>1. /\ reader' = [reader EXCEPT ![r] = FALSE]
          /\ out' = Append(out, Ev("factorend", r))
          /\ UNCHANGED <<up, queue, status, held, session, pending, tries>>
      BY <1>6 DEF ReaderAsks, ReaderFails
    <2>2. TypeOK'
      BY <1>2, <2>1 DEF IInv, TypeOK, EventName
    <2>3. \A x \in Requests : reader'[x] => reader[x]
      BY <1>1, <2>1
    <2>4. \A x \in Requests : x # r => reader'[x] = reader[x]
      BY <1>1, <2>1
    <2>5. QED
      BY <1>3, <2>1, <2>2, <2>3, <2>4, TalkKeeps
  <1>7. CASE FingerInfo(r)
    <2>1. UNCHANGED <<up, queue, status, held, tries>>
          /\ (out' = out \/ out' = Append(out, Ev("factor", r)))
      BY <1>7 DEF FingerInfo
    <2>2. CASE reader[r]
      <3>1. UNCHANGED <<session, reader, pending>>
        BY <1>7, <2>2 DEF FingerInfo
      <3>2. TypeOK'
        BY <1>2, <2>1, <3>1 DEF IInv, TypeOK, EventName
      <3>3. QED
        BY <1>3, <2>1, <2>2, <3>1, <3>2, TalkKeeps
    <2>3. CASE ~reader[r]
      <3>1. /\ reader' = [reader EXCEPT ![r] = TRUE]
            /\ session' = [session EXCEPT ![r] = "started"]
            /\ pending' = [pending EXCEPT ![r] = FALSE]
        BY <1>7, <2>3 DEF FingerInfo, Fresh
      <3>2. TypeOK'
        BY <1>2, <2>1, <3>1 DEF IInv, TypeOK, Stage, EventName
      <3>3. \A x \in Requests : x # r =>
               /\ session'[x] = session[x] /\ pending'[x] = pending[x]
               /\ tries'[x] = tries[x] /\ reader'[x] = reader[x]
        BY <1>1, <2>1, <3>1
      <3>4. session'[r] = "started" /\ pending'[r] = FALSE
        BY <1>1, <3>1
      <3>5. session[r] # "none"
        BY <1>7, <2>3 DEF FingerInfo, Talking
      <3>6. session'[r] # "none" /\ (pending'[r] <=> session'[r] = "asking")
            /\ tries'[r] < MaxTries
        BY <1>4, <2>1, <3>4, <3>5
      <3>7. QED
        BY <2>1, <3>2, <3>3, <3>5, <3>6, TalkKeeps
    <2>4. QED
      BY <2>2, <2>3
  <1>8. CASE PamSays(r)
    <2>1. /\ UNCHANGED <<up, queue, status, held, session, reader, pending, tries>>
          /\ \E name \in {"info", "pamerror"} : out' = Append(out, Ev(name, r))
      BY <1>8 DEF PamSays
    <2>2. TypeOK'
      BY <1>2, <2>1 DEF IInv, TypeOK, EventName
    <2>3. QED
      BY <1>3, <2>1, <2>2, TalkKeeps
  <1>9. CASE Authorized(r)
    BY <1>9, CloseKeeps DEF Authorized, MayWin
  <1>10. CASE WrongPassword(r)
    <2>1. /\ tries' = [tries EXCEPT ![r] = @ + 1]
          /\ session' = [session EXCEPT ![r] = "started"]
          /\ pending' = [pending EXCEPT ![r] = FALSE]
          /\ out' = Append(out, [ev |-> "failed", id |-> r, tries |-> tries[r] + 1])
          /\ UNCHANGED <<up, queue, status, held, reader>>
      BY <1>10 DEF WrongPassword, Fresh
    <2>2. TypeOK'
      <3>1. [ev |-> "failed", id |-> r, tries |-> tries[r] + 1] \in Event
        BY <1>1 DEF Event, EventName
      <3>2. out' \in Seq(Event)
        BY <1>1, <2>1, <3>1, AppendProperties
      <3>3. session' \in [Requests -> Stage] /\ tries' \in [Requests -> Nat]
        BY <1>1, <2>1 DEF Stage
      <3>4. pending' \in [Requests -> BOOLEAN]
        BY <1>1, <2>1
      <3>5. QED
        BY <2>1, <3>2, <3>3, <3>4 DEF IInv, TypeOK
    <2>3. \A x \in Requests : x # r =>
             /\ session'[x] = session[x] /\ pending'[x] = pending[x]
             /\ tries'[x] = tries[x] /\ reader'[x] = reader[x]
      BY <1>1, <2>1
    <2>4. session'[r] = "started" /\ pending'[r] = FALSE
      BY <1>1, <2>1
    <2>5. tries'[r] < MaxTries /\ session[r] # "none"
      BY <1>1, <1>10, <2>1 DEF WrongPassword, MayRetry, Counts
    <2>6. session'[r] # "none" /\ (pending'[r] <=> session'[r] = "asking")
      BY <2>4
    <2>7. QED
      BY <2>1, <2>2, <2>3, <2>5, <2>6, TalkKeeps
  <1>11. CASE OutOfTries(r)
    <2>1. Open(r)
      BY <1>4, <1>11 DEF OutOfTries, Counts
    <2>2. QED
      BY <1>11, <2>1, CloseKeeps DEF OutOfTries
  <1>12. CASE LeftReaderEnds(r)
    <2>1. /\ reader' = [reader EXCEPT ![r] = FALSE]
          /\ UNCHANGED <<up, queue, status, held, session, pending, tries, out>>
      BY <1>12 DEF LeftReaderEnds
    <2>2. TypeOK'
      BY <2>1 DEF IInv, TypeOK
    <2>3. \A x \in Requests : reader'[x] => reader[x]
      BY <1>1, <2>1
    <2>4. \A x \in Requests : x # r => reader'[x] = reader[x]
      BY <1>1, <2>1
    <2>5. QED
      BY <1>3, <2>1, <2>2, <2>3, <2>4, TalkKeeps
  <1>13. QED
    BY <1>5, <1>6, <1>7, <1>8, <1>9, <1>10, <1>11, <1>12 DEF Pam

(* What the invariant says does not depend on the pipe or on `up`. *)
LEMMA PipeKeeps ==
    ASSUME IInv, TypeOK',
           UNCHANGED <<queue, status, held, session, reader, pending, tries>>
    PROVE  IInv'
  BY DEF IInv, Inv, QueueIsTheOpenRequests, CallersWaitOnlyWhileQueued,
         OnlyTheHeadConverses, HeadIsBeingAsked, SecretsOnlyWhenAsked,
         TriesBounded, ClosedIsOver, NewIsUntouched, SudoHasNoPam,
         HeadIsPolkit, Open, Live

(* Every step keeps the invariant. *)
LEMMA StepKeeps == IInv /\ [Next]_vars => IInv'
  <1> SUFFICES ASSUME IInv, [Next]_vars
               PROVE  IInv'
    OBVIOUS
  <1>1. ASSUME NEW r \in Requests, Caller(r) \/ Pam(r) \/ Cancel(r) \/ Respond(r)
        PROVE  IInv'
    BY <1>1, CallerKeeps, PamKeeps, CommandKeeps
  <1>2. CASE Shutdown
    BY <1>2, ShutdownKeeps DEF IInv
  <1>3. CASE Crash
    BY <1>3, GoneKeeps DEF Crash, IInv
  <1>4. CASE Start
    <2>1. <<[ev |-> "ready"]>> \in Seq(Event)
      BY DEF Event
    <2>2. TypeOK'
      BY <1>4, <2>1 DEF Start, IInv, TypeOK
    <2>3. QED
      BY <1>4, <2>2, PipeKeeps DEF Start
  <1>5. CASE Drain
    <2>1. Tail(out) \in Seq(Event)
      BY <1>5, HeadTailProperties DEF Drain, IInv, TypeOK
    <2>2. TypeOK'
      BY <1>5, <2>1 DEF Drain, IInv, TypeOK
    <2>3. QED
      BY <1>5, <2>2, PipeKeeps DEF Drain
  <1>6. CASE UNCHANGED vars
    <2>1. TypeOK'
      BY <1>6 DEF vars, IInv, TypeOK
    <2>2. QED
      BY <1>6, <2>1, PipeKeeps DEF vars
  <1>7. QED
    BY <1>1, <1>2, <1>3, <1>4, <1>5, <1>6 DEF Next

(* Every run of the daemon, with any number of requests of either kind,     *)
(* keeps the whole invariant.                                               *)
THEOREM Invariance == Spec => []IInv
  <1>1. QED
    BY InitHolds, StepKeeps, PTL DEF Spec

(* What one step can do to a request: bring it in or turn it away, close    *)
(* it, or nothing.                                                          *)
LEMMA StatusSteps ==
    ASSUME IInv, [Next]_vars, NEW x \in Requests
    PROVE  \/ status'[x] = status[x]
           \/ status[x] = "new" /\ status'[x] \in {"open", "refused"}
           \/ Open(x)
  <1>1. status \in [Requests -> Status]
    BY DEF IInv, TypeOK
  <1>2. ASSUME NEW r \in Requests, Caller(r)
        PROVE  \/ status'[x] = status[x]
               \/ status[x] = "new" /\ status'[x] \in {"open", "refused"}
               \/ Open(x)
    BY <1>1, <1>2 DEF Caller, BeginAuthentication, BeginRefused, AskpassRequest,
       AskpassDropped, CancelAuthentication, Deny, Push, Close
  <1>3. ASSUME NEW r \in Requests, Pam(r)
        PROVE  status'[x] = status[x] \/ Open(x)
    <2>1. CASE Authorized(r)
      BY <1>1, <2>1 DEF Authorized, MayWin, Close
    <2>2. CASE OutOfTries(r)
      <3>1. Open(r)
        BY <2>2 DEF OutOfTries, Counts, IInv, Inv, ClosedIsOver
      <3>2. QED
        BY <1>1, <2>2, <3>1 DEF OutOfTries, Close
    <2>3. CASE \/ SessionAsks(r) \/ ReaderAsks(r) \/ FingerInfo(r) \/ PamSays(r)
               \/ ReaderFails(r) \/ WrongPassword(r) \/ LeftReaderEnds(r)
      BY <2>3 DEF SessionAsks, ReaderAsks, FingerInfo, PamSays, ReaderFails,
                  WrongPassword, LeftReaderEnds
    <2>4. QED
      BY <1>3, <2>1, <2>2, <2>3 DEF Pam
  <1>4. ASSUME NEW r \in Requests, Cancel(r) \/ Respond(r)
        PROVE  status'[x] = status[x] \/ Open(x)
    BY <1>1, <1>4 DEF Cancel, Deny, Respond, RespondSudo, RespondPolkit, Close
  <1>5. CASE Shutdown \/ Crash
    BY <1>5 DEF Shutdown, Crash, Gone, Ended
  <1>6. CASE Start \/ Drain \/ UNCHANGED vars
    BY <1>6 DEF Start, Drain, vars
  <1>7. QED
    BY <1>2, <1>3, <1>4, <1>5, <1>6 DEF Next

(* Only a password session that goes wrong, or a new process, changes a     *)
(* count.                                                                   *)
LEMMA TriesSteps ==
    ASSUME IInv, [Next]_vars, NEW x \in Requests, tries'[x] > tries[x]
    PROVE  /\ tries'[x] = tries[x] + 1
           /\ session[x] # "none"
           /\ status'[x] = IF tries'[x] < MaxTries THEN "open" ELSE "refused"
  <1>1. /\ tries \in [Requests -> Nat] /\ status \in [Requests -> Status]
        /\ session[x] # "none" => status[x] = "open"
    BY DEF IInv, Inv, TypeOK, ClosedIsOver, Open
  <1>2. tries' # tries
    BY <1>1
  <1>3. PICK r \in Requests : WrongPassword(r) \/ OutOfTries(r) \/ Shutdown \/ Crash
    BY <1>2 DEF Next, Caller, BeginAuthentication, BeginRefused, AskpassRequest,
       AskpassDropped, CancelAuthentication, Deny, Push, Cancel, Respond,
       RespondSudo, RespondPolkit, Pam, SessionAsks, ReaderAsks, FingerInfo,
       PamSays, Authorized, ReaderFails, LeftReaderEnds, Start, Drain, vars
  <1>4. ~Shutdown /\ ~Crash
    BY <1>1 DEF Shutdown, Crash, Gone, Ended
  <1>5. CASE WrongPassword(r)
    <2>1. x = r /\ tries'[x] = tries[x] + 1 /\ session[x] # "none" /\ status' = status
          /\ tries[x] + 1 < MaxTries
      BY <1>1, <1>5 DEF WrongPassword, Counts, MayRetry
    <2>2. QED
      BY <1>1, <2>1
  <1>6. CASE OutOfTries(r)
    <2>1. x = r /\ tries'[x] = tries[x] + 1 /\ session[x] # "none"
          /\ status' = [status EXCEPT ![r] = "refused"] /\ ~(tries[x] + 1 < MaxTries)
      BY <1>1, <1>6 DEF OutOfTries, Counts, Close, MayRetry
    <2>2. QED
      BY <1>1, <2>1
  <1>7. QED
    BY <1>3, <1>4, <1>5, <1>6

----------------------------------------------------------------------------
(* The daemon whose shell may die (AuthOrphan).  As long as it is heard its *)
(* invariant is the one above; from then on every handler that is cut off   *)
(* keeps Base, and lets nobody wait whom it has answered.                   *)

LEMMA HeardInvIs ==
    ASSUME shell = "here"
    PROVE  OrphanInv <=> IInv
  <1>1. NobodyWaitsUnqueued <=> CallersWaitOnlyWhileQueued
    BY DEF NobodyWaitsUnqueued, CallersWaitOnlyWhileQueued
  <1>2. QED
    BY <1>1 DEF OrphanInv, HeardHeadIsAsked, IInv, Inv

LEMMA OrphanInvIs ==
    OrphanInv <=> /\ Base /\ shell \in {"here", "gone", "noticed"}
                  /\ NobodyWaitsUnqueued /\ HeardHeadIsAsked
  BY Zenon DEF OrphanInv, Base

(* What Base says does not depend on who waits, or on the pipe. *)
LEMMA PipeKeepsBase ==
    ASSUME Base, TypeOK', UNCHANGED <<queue, status, session, reader, pending, tries>>
    PROVE  Base'
  BY DEF Base, QueueIsTheOpenRequests, OnlyTheHeadConverses, SecretsOnlyWhenAsked,
         TriesBounded, ClosedIsOver, NewIsUntouched, SudoHasNoPam, Open, Live

(* A request that is queued and not activated has no conversation. *)
LEMMA QueuesUnheardKeeps ==
    ASSUME Base, NobodyWaitsUnqueued, NEW r \in Requests, QueuesUnheard(r)
    PROVE  Base' /\ NobodyWaitsUnqueued'
  <1> USE DEF Base
  <1>1. /\ queue' = Append(queue, r) /\ status[r] = "new"
        /\ status' = [status EXCEPT ![r] = "open"] /\ held' = [held EXCEPT ![r] = TRUE]
        /\ UNCHANGED <<up, session, reader, pending, tries, out>>
        /\ UNCHANGED shell
    BY DEF QueuesUnheard, Unheard
  <1>2. /\ QueueIsTheOpenRequests'
        /\ Len(queue') = Len(queue) + 1 /\ queue'[Len(queue) + 1] = r
        /\ \A j \in 1..Len(queue) : queue'[j] = queue[j] /\ queue[j] # r
        /\ DOMAIN queue' = 1..Len(queue) + 1 /\ DOMAIN queue = 1..Len(queue)
        /\ queue' \in Seq(Requests) /\ Len(queue) \in Nat
    BY <1>1, JoinsTheQueue
  <1>3. status \in [Requests -> Status] /\ held \in [Requests -> BOOLEAN]
    BY DEF TypeOK
  <1>4. \A x \in Requests :
           /\ status'[x] = IF x = r THEN "open" ELSE status[x]
           /\ held'[x] = IF x = r THEN TRUE ELSE held[x]
    BY <1>1, <1>3
  <1>5. session[r] = "none" /\ ~reader[r] /\ tries[r] = 0
    BY <1>1 DEF ClosedIsOver, NewIsUntouched, Open
  <1>6. TypeOK'
    <2>1. status' \in [Requests -> Status] /\ held' \in [Requests -> BOOLEAN]
      BY <1>1, <1>3 DEF Status
    <2>2. QED
      BY <1>1, <1>2, <2>1 DEF TypeOK
  <1>7. OnlyTheHeadConverses'
    <2>1. SUFFICES ASSUME NEW j \in 1..Len(queue) + 1, j > 1
                   PROVE  session[queue'[j]] = "none" /\ ~reader[queue'[j]]
      BY <1>1, <1>2 DEF OnlyTheHeadConverses, Live
    <2>2. CASE j = Len(queue) + 1
      BY <1>2, <1>5, <2>2
    <2>3. CASE j # Len(queue) + 1
      <3>1. j \in 1..Len(queue) /\ queue'[j] = queue[j]
        BY <1>2, <2>1, <2>3
      <3>2. QED
        BY <1>2, <2>1, <3>1 DEF OnlyTheHeadConverses, Live
    <2>4. QED
      BY <2>2, <2>3
  <1>8. SecretsOnlyWhenAsked' /\ SudoHasNoPam'
    BY <1>1 DEF SecretsOnlyWhenAsked, SudoHasNoPam, Live
  <1>9. TriesBounded' /\ ClosedIsOver' /\ NewIsUntouched'
    BY <1>1, <1>4, <1>5, AuthAssumption DEF TriesBounded, ClosedIsOver, NewIsUntouched, Open
  <1>10. NobodyWaitsUnqueued'
    BY <1>1, <1>4 DEF NobodyWaitsUnqueued, Open
  <1>11. QED
    BY <1>2, <1>6, <1>7, <1>8, <1>9, <1>10

(* close() up to its line: the caller has been answered, and nobody's turn  *)
(* comes.                                                                   *)
LEMMA CloseUnheardKeeps ==
    ASSUME Base, NobodyWaitsUnqueued, NEW r \in Requests, Open(r),
           NEW outcome \in {"granted", "refused"},
           Answer(r), CloseUnheard(r, outcome),
           \/ reader' = reader
           \/ reader' = [reader EXCEPT ![r] = FALSE],
           \/ tries' = tries
           \/ tries' = [tries EXCEPT ![r] = @ + 1],
           UNCHANGED <<up, out>>, shell # "here", shell' # "here"
    PROVE  Base' /\ NobodyWaitsUnqueued'
  <1> USE DEF Base
  <1> DEFINE q2 == Left(r)
  <1>1. /\ q2 \in Seq(Requests)
        /\ \A j, k \in DOMAIN q2 : q2[j] = q2[k] => j = k
        /\ \A x \in Requests : (\E j \in DOMAIN q2 : q2[j] = x)
                                  <=> Open(x) /\ x # r
        /\ \A j \in DOMAIN q2 : j > 1 =>
              \E k \in DOMAIN queue : k > 1 /\ queue[k] = q2[j]
    BY LeftProperties
  <1>2. /\ queue' = q2
        /\ status' = [status EXCEPT ![r] = outcome]
        /\ session' = [session EXCEPT ![r] = "none"]
        /\ pending' = [pending EXCEPT ![r] = FALSE]
        /\ held' = [held EXCEPT ![r] = FALSE]
    BY DEF CloseUnheard, Dropped, Answer
  <1> HIDE DEF q2
  <1>3. /\ session \in [Requests -> Stage] /\ pending \in [Requests -> BOOLEAN]
        /\ status \in [Requests -> Status] /\ held \in [Requests -> BOOLEAN]
        /\ reader \in [Requests -> BOOLEAN] /\ tries \in [Requests -> Nat]
    BY DEF TypeOK
  <1>4. \A x \in Requests :
           /\ session'[x] = IF x = r THEN "none" ELSE session[x]
           /\ pending'[x] = IF x = r THEN FALSE ELSE pending[x]
           /\ status'[x] = IF x = r THEN outcome ELSE status[x]
           /\ held'[x] = IF x = r THEN FALSE ELSE held[x]
           /\ reader'[x] => reader[x]
           /\ x # r => tries'[x] = tries[x]
           /\ tries'[x] \in Nat /\ tries'[x] <= tries[x] + 1
    BY <1>2, <1>3
  <1>5. TypeOK'
    <2>1. session' \in [Requests -> Stage] /\ pending' \in [Requests -> BOOLEAN]
      BY <1>2, <1>3 DEF Stage
    <2>2. status' \in [Requests -> Status] /\ held' \in [Requests -> BOOLEAN]
      BY <1>2, <1>3 DEF Status
    <2>3. reader' \in [Requests -> BOOLEAN]
      BY <1>3
    <2>4. tries' \in [Requests -> Nat]
      <3>1. CASE tries' = tries
        BY <1>3, <3>1
      <3>2. CASE tries' = [tries EXCEPT ![r] = @ + 1]
        BY <1>3, <3>2
      <3>3. QED
        BY <3>1, <3>2
    <2>5. QED
      BY <1>1, <1>2, <2>1, <2>2, <2>3, <2>4 DEF TypeOK
  <1>6. QueueIsTheOpenRequests'
    <2>1. \A x \in Requests : Open(x) /\ x # r <=> status'[x] = "open"
      BY <1>4 DEF Open
    <2>2. \A x \in Requests :
             (\E j \in DOMAIN queue' : queue'[j] = x) <=> status'[x] = "open"
      BY <1>1, <1>2, <2>1
    <2>3. \A j, k \in DOMAIN queue' : queue'[j] = queue'[k] => j = k
      BY <1>1, <1>2
    <2>4. QED
      BY <2>2, <2>3 DEF QueueIsTheOpenRequests, Open
  <1>7. OnlyTheHeadConverses'
    <2>1. SUFFICES ASSUME NEW j \in DOMAIN q2, j > 1
                   PROVE  session'[q2[j]] = "none" /\ ~reader'[q2[j]]
      BY <1>2 DEF OnlyTheHeadConverses, Live
    <2>2. q2[j] \in Requests /\ ~Live(q2[j])
      BY <1>1, <2>1 DEF OnlyTheHeadConverses
    <2>3. QED
      BY <1>4, <2>2 DEF Live
  <1>8. SecretsOnlyWhenAsked'
    BY <1>4 DEF SecretsOnlyWhenAsked
  <1>9. TriesBounded'
    <2>1. SUFFICES ASSUME NEW x \in Requests
                   PROVE  /\ tries'[x] <= MaxTries
                          /\ status'[x] = "open" => tries'[x] < MaxTries
      BY DEF TriesBounded, Open
    <2>2. /\ tries[x] <= MaxTries /\ (status[x] = "open" => tries[x] < MaxTries)
          /\ tries[x] \in Nat /\ MaxTries \in Nat
      BY <1>3, AuthAssumption DEF TriesBounded, Open
    <2>3. CASE x = r
      <3>1. status'[x] # "open" /\ tries[x] < MaxTries
        BY <1>4, <2>2, <2>3 DEF Open
      <3>2. tries'[x] \in Nat /\ tries'[x] <= tries[x] + 1
        BY <1>4
      <3>3. QED
        BY <2>2, <3>1, <3>2
    <2>4. CASE x # r
      BY <1>4, <2>2, <2>4
    <2>5. QED
      BY <2>3, <2>4
  <1>10. ClosedIsOver' /\ NewIsUntouched' /\ SudoHasNoPam'
    BY <1>4 DEF ClosedIsOver, NewIsUntouched, SudoHasNoPam, Live, Open, Requests
  <1>11. NobodyWaitsUnqueued'
    BY <1>4 DEF NobodyWaitsUnqueued, Open
  <1>12. QED
    BY <1>5, <1>6, <1>7, <1>8, <1>9, <1>10, <1>11

LEMMA DenyUnheardKeeps ==
    ASSUME Base, NobodyWaitsUnqueued, NEW r \in Requests, DenyUnheard(r),
           UNCHANGED <<up, out>>, shell # "here", shell' # "here"
    PROVE  Base' /\ NobodyWaitsUnqueued'
  BY CloseUnheardKeeps DEF DenyUnheard

(* A request that is turned away is never queued. *)
LEMMA TurnedAwayKeepsBase ==
    ASSUME Base, NEW r \in Requests, status[r] = "new",
           status' = [status EXCEPT ![r] = "refused"],
           UNCHANGED <<up, queue, held, session, reader, pending, tries, out>>
    PROVE  Base'
  <1> USE DEF Base
  <1>1. \A x \in Requests :
           status'[x] = IF x = r THEN "refused" ELSE status[x]
    BY DEF TypeOK
  <1>2. \A x \in Requests : Open(x) <=> status'[x] = "open"
    BY <1>1 DEF Open
  <1>3. TypeOK'
    BY DEF TypeOK, Status
  <1>4. QueueIsTheOpenRequests' /\ TriesBounded' /\ ClosedIsOver'
    BY <1>2 DEF QueueIsTheOpenRequests, TriesBounded, ClosedIsOver, Open
  <1>5. OnlyTheHeadConverses' /\ SecretsOnlyWhenAsked'
    BY DEF OnlyTheHeadConverses, SecretsOnlyWhenAsked, Live
  <1>6. NewIsUntouched' /\ SudoHasNoPam'
    BY <1>1 DEF NewIsUntouched, SudoHasNoPam, Live
  <1>7. QED
    BY <1>3, <1>4, <1>5, <1>6

(* Who waits does not change with a conversation. *)
LEMMA TalkKeepsWaiting ==
    ASSUME NobodyWaitsUnqueued, UNCHANGED <<status, held, shell>>
    PROVE  NobodyWaitsUnqueued'
  BY DEF NobodyWaitsUnqueued, Open

LEMMA CallerUnheardKeeps ==
    ASSUME OrphanInv, NEW r \in Requests, CallerUnheard(r)
    PROVE  Base' /\ NobodyWaitsUnqueued'
  <1>1. Base /\ NobodyWaitsUnqueued
    BY OrphanInvIs
  <1>2. CASE QueuesUnheard(r)
    BY <1>1, <1>2, QueuesUnheardKeeps
  <1>3. CASE RefusesUnheard(r)
    <2>1. /\ status[r] = "new" /\ r \in Polkit /\ held' = [held EXCEPT ![r] = TRUE]
          /\ UNCHANGED <<queue, status, session, reader, pending, tries>>
          /\ UNCHANGED <<up, out, shell>> /\ shell # "here"
      BY <1>3 DEF RefusesUnheard, Unheard
    <2>2. held \in [Requests -> BOOLEAN]
      BY <1>1 DEF Base, TypeOK
    <2>3. TypeOK'
      BY <1>1, <2>1, <2>2 DEF Base, TypeOK
    <2>4. \A x \in Requests : held'[x] = IF x = r THEN TRUE ELSE held[x]
      BY <2>1, <2>2
    <2>5. NobodyWaitsUnqueued'
      BY <1>1, <2>1, <2>4 DEF NobodyWaitsUnqueued, Open
    <2>6. QED
      BY <1>1, <2>1, <2>3, <2>5, PipeKeepsBase
  <1>4. CASE Unheard /\ AskpassDropped(r)
    <2>1. /\ status[r] = "new" /\ r \in Sudo
          /\ status' = [status EXCEPT ![r] = "refused"]
          /\ UNCHANGED <<up, queue, held, session, reader, pending, tries, out>>
          /\ UNCHANGED shell
      BY <1>4 DEF Unheard, AskpassDropped
    <2>2. Base'
      BY <1>1, <2>1, TurnedAwayKeepsBase
    <2>3. \A x \in Requests : status'[x] = IF x = r THEN "refused" ELSE status[x]
      BY <1>1, <2>1 DEF Base, TypeOK
    <2>4. r \notin Polkit
      BY <2>1, AuthAssumption
    <2>5. ~held[r]
      BY <1>1, <2>1, <2>4 DEF NobodyWaitsUnqueued, Open
    <2>6. NobodyWaitsUnqueued'
      BY <1>1, <2>1, <2>3, <2>5 DEF NobodyWaitsUnqueued, Open
    <2>7. QED
      BY <2>2, <2>6
  <1>5. CASE Unheard /\ r \in Polkit /\ DenyUnheard(r)
    <2>1. UNCHANGED <<up, out>> /\ shell # "here" /\ shell' # "here"
      BY <1>5 DEF Unheard
    <2>2. QED
      BY <1>1, <1>5, <2>1, DenyUnheardKeeps
  <1>6. QED
    BY <1>2, <1>3, <1>4, <1>5 DEF CallerUnheard

(* A command that was on its way when the shell went. *)
LEMMA CommandUnheardKeeps ==
    ASSUME OrphanInv, NEW r \in Requests, CommandUnheard(r)
    PROVE  Base' /\ NobodyWaitsUnqueued'
  <1>1. Base /\ NobodyWaitsUnqueued
    BY OrphanInvIs
  <1>2. UNCHANGED <<up, out, shell>> /\ shell # "here" /\ shell' # "here"
    BY DEF CommandUnheard, Unheard
  <1>3. CASE DenyUnheard(r)
    BY <1>1, <1>2, <1>3, DenyUnheardKeeps
  <1>4. CASE RespondSudoUnheard(r)
    BY <1>1, <1>2, <1>4, CloseUnheardKeeps DEF RespondSudoUnheard
  <1>5. CASE RespondPolkit(r)
    <2>1. TypeOK'
      BY <1>1, <1>5 DEF RespondPolkit, Base, TypeOK, Stage
    <2>2. /\ session'[r] = "answered" /\ pending'[r] = FALSE
          /\ tries'[r] < MaxTries
      BY <1>1, <1>5 DEF RespondPolkit, Base, TypeOK, TriesBounded
    <2>3. \A x \in Requests : x # r =>
             /\ session'[x] = session[x] /\ pending'[x] = pending[x]
             /\ tries'[x] = tries[x] /\ reader'[x] = reader[x]
      BY <1>1, <1>5 DEF RespondPolkit, Base, TypeOK
    <2>4. session[r] # "none" /\ UNCHANGED <<queue, status, held>>
      BY <1>5 DEF RespondPolkit
    <2>5. pending'[r] <=> session'[r] = "asking"
      BY <2>2
    <2>6. Base'
      BY <1>1, <2>1, <2>2, <2>3, <2>4, <2>5, TalkKeepsBase
    <2>7. QED
      BY <1>1, <1>2, <2>4, <2>6, TalkKeepsWaiting
  <1>6. QED
    BY <1>3, <1>4, <1>5 DEF CommandUnheard

(* A signal of a PAM session whose line nobody reads. *)
LEMMA PamUnheardKeeps ==
    ASSUME OrphanInv, NEW r \in Requests, PamUnheard(r)
    PROVE  Base' /\ NobodyWaitsUnqueued'
  <1>1. Base /\ NobodyWaitsUnqueued
    BY OrphanInvIs
  <1>2. UNCHANGED <<up, out, shell>> /\ shell # "here" /\ shell' # "here"
    BY DEF PamUnheard, Unheard
  <1>3. /\ session \in [Requests -> Stage] /\ pending \in [Requests -> BOOLEAN]
        /\ reader \in [Requests -> BOOLEAN] /\ tries \in [Requests -> Nat]
    BY <1>1 DEF Base, TypeOK
  <1>4. session[r] # "none" => Open(r) /\ tries[r] < MaxTries
    BY <1>1 DEF Base, ClosedIsOver, TriesBounded
  <1>5. CASE AsksUnheard(r)
    <2>1. TypeOK'
      BY <1>1, <1>2, <1>5 DEF AsksUnheard, Base, TypeOK, Stage
    <2>2. \A x \in Requests : x # r =>
             /\ session'[x] = session[x] /\ pending'[x] = pending[x]
             /\ tries'[x] = tries[x] /\ reader'[x] = reader[x]
      BY <1>3, <1>5 DEF AsksUnheard
    <2>3. session'[r] = "asking" /\ pending'[r] = TRUE /\ tries'[r] = tries[r]
      BY <1>3, <1>5 DEF AsksUnheard
    <2>4. session[r] # "none" /\ UNCHANGED <<queue, status, held>>
      BY <1>5 DEF AsksUnheard
    <2>5. (pending'[r] <=> session'[r] = "asking") /\ tries'[r] < MaxTries
      BY <1>4, <2>3, <2>4
    <2>6. Base'
      BY <1>1, <2>1, <2>2, <2>4, <2>5, TalkKeepsBase
    <2>7. QED
      BY <1>1, <1>2, <2>4, <2>6, TalkKeepsWaiting
  <1>6. CASE ReaderEndsUnheard(r)
    <2>1. /\ reader' = [reader EXCEPT ![r] = FALSE]
          /\ UNCHANGED <<queue, status, held, session, pending, tries>>
      BY <1>6 DEF ReaderEndsUnheard
    <2>2. TypeOK'
      BY <1>1, <1>2, <2>1 DEF Base, TypeOK
    <2>3. \A x \in Requests : reader'[x] => reader[x]
      BY <1>3, <2>1
    <2>4. \A x \in Requests : x # r => reader'[x] = reader[x]
      BY <1>3, <2>1
    <2>5. pending[r] <=> session[r] = "asking"
      BY <1>1 DEF Base, SecretsOnlyWhenAsked
    <2>6. Base'
      BY <1>1, <2>1, <2>2, <2>3, <2>4, <2>5, TalkKeepsBase
    <2>7. QED
      BY <1>1, <1>2, <2>1, <2>6, TalkKeepsWaiting
  <1>7. CASE FingerUnheard(r)
    <2>1. /\ Talking(r) /\ ~reader[r]
          /\ reader' = [reader EXCEPT ![r] = TRUE]
          /\ pending' = [pending EXCEPT ![r] = FALSE]
          /\ UNCHANGED <<queue, status, held, tries>>
      BY <1>7 DEF FingerUnheard
    <2>2. PICK stage \in {"none", "started"} : session' = [session EXCEPT ![r] = stage]
      BY <1>7 DEF FingerUnheard, Fresh, Dropped
    <2>3. TypeOK'
      BY <1>1, <1>2, <2>1, <2>2 DEF Base, TypeOK, Stage
    <2>4. \A x \in Requests : x # r =>
             /\ session'[x] = session[x] /\ pending'[x] = pending[x]
             /\ tries'[x] = tries[x] /\ reader'[x] = reader[x]
      BY <1>3, <2>1, <2>2
    <2>5. session'[r] # "asking" /\ pending'[r] = FALSE /\ tries'[r] = tries[r]
      BY <1>3, <2>1, <2>2
    <2>6. session[r] # "none"
      BY <2>1 DEF Talking
    <2>7. (pending'[r] <=> session'[r] = "asking") /\ tries'[r] < MaxTries
      BY <1>4, <2>5, <2>6
    <2>8. Base'
      BY <1>1, <2>1, <2>3, <2>4, <2>6, <2>7, TalkKeepsBase
    <2>9. QED
      BY <1>1, <1>2, <2>1, <2>8, TalkKeepsWaiting
  <1>8. CASE AuthorizedUnheard(r)
    BY <1>1, <1>2, <1>8, CloseUnheardKeeps DEF AuthorizedUnheard, MayWin
  <1>9. CASE WrongPasswordUnheard(r)
    <2>1. /\ session[r] # "none" /\ MayRetry(r)
          /\ tries' = [tries EXCEPT ![r] = @ + 1]
          /\ session' = [session EXCEPT ![r] = "none"]
          /\ pending' = [pending EXCEPT ![r] = FALSE]
          /\ UNCHANGED <<queue, status, held, reader>>
      BY <1>9 DEF WrongPasswordUnheard, Counts, Dropped
    <2>2. TypeOK'
      <3>1. session' \in [Requests -> Stage] /\ pending' \in [Requests -> BOOLEAN]
        BY <1>3, <2>1 DEF Stage
      <3>2. tries' \in [Requests -> Nat]
        BY <1>3, <2>1
      <3>3. QED
        BY <1>1, <1>2, <2>1, <3>1, <3>2 DEF Base, TypeOK
    <2>3. \A x \in Requests : x # r =>
             /\ session'[x] = session[x] /\ pending'[x] = pending[x]
             /\ tries'[x] = tries[x] /\ reader'[x] = reader[x]
      BY <1>3, <2>1
    <2>4. session'[r] = "none" /\ pending'[r] = FALSE
      BY <1>3, <2>1
    <2>5. tries'[r] < MaxTries
      BY <1>3, <2>1 DEF MayRetry
    <2>6. pending'[r] <=> session'[r] = "asking"
      BY <2>4
    <2>7. Base'
      BY <1>1, <2>1, <2>2, <2>3, <2>5, <2>6, TalkKeepsBase
    <2>8. QED
      BY <1>1, <1>2, <2>1, <2>7, TalkKeepsWaiting
  <1>10. CASE OutOfTriesUnheard(r)
    <2>1. Open(r)
      BY <1>4, <1>10 DEF OutOfTriesUnheard, Counts
    <2>2. QED
      BY <1>1, <1>2, <1>10, <2>1, CloseUnheardKeeps DEF OutOfTriesUnheard
  <1>11. QED
    BY <1>5, <1>6, <1>7, <1>8, <1>9, <1>10 DEF PamUnheard

(* The end of file: the head is refused, and nobody else. *)
LEMMA EofKeeps ==
    ASSUME OrphanInv, Eof
    PROVE  Base' /\ NobodyWaitsUnqueued'
  <1>1. Base /\ NobodyWaitsUnqueued
    BY OrphanInvIs
  <1>2. queue[1] \in Requests
    <2>1. queue \in Seq(Requests) /\ queue # <<>>
      BY <1>1 DEF Base, TypeOK, Eof
    <2>2. QED
      BY <2>1
  <1>3. UNCHANGED <<up, out>> /\ shell # "here" /\ shell' # "here" /\ DenyUnheard(queue[1])
    BY DEF Eof
  <1>4. QED
    BY <1>1, <1>2, <1>3, DenyUnheardKeeps

(* The end of the process, whoever is there to start another. *)
LEMMA IInvGivesOrphanInv ==
    ASSUME IInv', shell' \in {"here", "gone", "noticed"}
    PROVE  OrphanInv'
  <1>1. Base' /\ CallersWaitOnlyWhileQueued' /\ HeadIsBeingAsked'
    BY Zenon DEF IInv, Inv, Base
  <1>2. NobodyWaitsUnqueued'
    BY <1>1 DEF NobodyWaitsUnqueued, CallersWaitOnlyWhileQueued, Open
  <1>3. HeardHeadIsAsked'
    BY <1>1, Zenon DEF HeardHeadIsAsked
  <1>4. QED
    BY <1>1, <1>2, <1>3, Zenon DEF OrphanInv, Base

(* Where nobody hears the daemon nothing is asked of its head. *)
LEMMA DeafKeeps ==
    ASSUME Base', NobodyWaitsUnqueued', shell' \in {"gone", "noticed"}
    PROVE  OrphanInv'
  <1>1. shell' # "here" /\ shell' \in {"here", "gone", "noticed"}
    OBVIOUS
  <1>2. HeardHeadIsAsked'
    BY <1>1, Zenon DEF HeardHeadIsAsked
  <1>3. QED
    BY <1>1, <1>2, Zenon DEF OrphanInv, Base

LEMMA OrphanStepKeeps == OrphanInv /\ [OrphanNext]_orphanVars => OrphanInv'
  <1> SUFFICES ASSUME OrphanInv, [OrphanNext]_orphanVars
               PROVE  OrphanInv'
    OBVIOUS
  <1>1. Base /\ NobodyWaitsUnqueued /\ shell \in {"here", "gone", "noticed"}
    BY OrphanInvIs
  <1>2. CASE Heard
    <2>1. IInv /\ Next /\ shell' = "here"
      BY <1>2, HeardInvIs DEF Heard
    <2>2. IInv'
      BY <2>1, StepKeeps
    <2>3. QED
      BY <2>1, <2>2, IInvGivesOrphanInv
  <1>3. CASE ShellGoes
    <2>1. /\ UNCHANGED <<up, queue, status, held, session, reader, pending, tries>>
          /\ out' = <<>> /\ shell' = "gone" /\ shell = "here"
      BY <1>3 DEF ShellGoes
    <2>2. TypeOK'
      BY <1>1, <2>1 DEF Base, TypeOK
    <2>3. Base'
      BY <1>1, <2>1, <2>2, PipeKeepsBase
    <2>4. NobodyWaitsUnqueued'
      BY <1>1, <2>1 DEF NobodyWaitsUnqueued, Open
    <2>5. QED
      BY <2>1, <2>3, <2>4, DeafKeeps
  <1>4. ASSUME NEW r \in Requests, CallerUnheard(r) \/ CommandUnheard(r) \/ PamUnheard(r)
        PROVE  OrphanInv'
    <2>1. Base' /\ NobodyWaitsUnqueued'
      BY <1>4, CallerUnheardKeeps, CommandUnheardKeeps, PamUnheardKeeps
    <2>2. shell' = shell /\ shell # "here"
      <3>1. CASE CallerUnheard(r)
        BY <3>1 DEF CallerUnheard, QueuesUnheard, RefusesUnheard, Unheard
      <3>2. CASE CommandUnheard(r)
        BY <3>2 DEF CommandUnheard, Unheard
      <3>3. CASE PamUnheard(r)
        BY <3>3 DEF PamUnheard, Unheard
      <3>4. QED
        BY <1>4, <3>1, <3>2, <3>3
    <2>3. QED
      BY <1>1, <2>1, <2>2, DeafKeeps
  <1>5. CASE Eof
    BY <1>5, EofKeeps, DeafKeeps DEF Eof
  <1>6. CASE EofOnNobody \/ OrphanDies
    <2>1. shell' = "here" /\ (Gone("refused") \/ Gone("lost")) /\ TypeOK
      BY <1>1, <1>6 DEF EofOnNobody, OrphanDies, Crash, Base
    <2>2. IInv'
      BY <2>1, GoneKeeps
    <2>3. QED
      BY <2>1, <2>2, IInvGivesOrphanInv
  <1>7. CASE UNCHANGED orphanVars
    <2>1. UNCHANGED <<up, queue, status, held, session, reader, pending, tries, out>>
          /\ UNCHANGED shell
      BY <1>7 DEF orphanVars, vars
    <2>2. TypeOK'
      BY <1>1, <2>1 DEF Base, TypeOK
    <2>3. Base' /\ NobodyWaitsUnqueued'
      BY <1>1, <2>1, <2>2, PipeKeepsBase, TalkKeepsWaiting
    <2>4. HeardHeadIsAsked'
      BY <2>1 DEF OrphanInv, HeardHeadIsAsked, HeadIsBeingAsked, HeadIsPolkit
    <2>5. QED
      BY <1>1, <2>1, <2>3, <2>4, Zenon DEF OrphanInv, Base
  <1>8. QED
    BY <1>2, <1>3, <1>4, <1>5, <1>6, <1>7 DEF OrphanNext

(* Every run of the daemon, with any number of requests of either kind and  *)
(* a shell that may die at any moment, keeps the whole invariant.           *)
THEOREM OrphanInvariance == OrphanSpec => []OrphanInv
  <1>1. OrphanInit => OrphanInv
    BY InitHolds, HeardInvIs DEF OrphanInit
  <1>2. QED
    BY <1>1, OrphanStepKeeps, PTL DEF OrphanSpec

(* The daemon's state has its type. *)
THEOREM TypeCorrect == OrphanSpec => []TypeOK
  <1>1. OrphanInv => TypeOK
    BY DEF OrphanInv
  <1>2. QED
    BY <1>1, OrphanInvariance, PTL

(* Who is queued has not been answered, and who has been granted, refused   *)
(* or lost does not wait, wherever a dead shell cuts a handler off.         *)
THEOREM NobodyLeftHanging == OrphanSpec => []NobodyWaitsUnqueued
  <1>1. OrphanInv => NobodyWaitsUnqueued
    BY DEF OrphanInv
  <1>2. QED
    BY <1>1, OrphanInvariance, PTL

(* The queue holds exactly the open requests, each once, and a request that *)
(* has closed keeps no password session.                                    *)
THEOREM QueueIsSound == OrphanSpec => []QueueIsTheOpenRequests /\ []ClosedIsOver
  <1>1. OrphanInv => QueueIsTheOpenRequests /\ ClosedIsOver
    BY DEF OrphanInv
  <1>2. QED
    BY <1>1, OrphanInvariance, PTL

(* A request behind the head has no conversation: it sits un-initiated.     *)
THEOREM HeadAloneAsks == OrphanSpec => []OnlyTheHeadConverses
  <1>1. OrphanInv => OnlyTheHeadConverses
    BY DEF OrphanInv
  <1>2. QED
    BY <1>1, OrphanInvariance, PTL

(* With a shell, a head that polkit waits on has a conversation to answer,  *)
(* whatever chain of closes, retries and retired readers made it the head.  *)
THEOREM HeadHasAConversation == OrphanSpec => []HeardHeadIsAsked
  <1>1. OrphanInv => HeardHeadIsAsked
    BY DEF OrphanInv
  <1>2. QED
    BY <1>1, OrphanInvariance, PTL

(* A secret is passed on only to a conversation that has asked for one.     *)
THEOREM SecretsAreAsked == OrphanSpec => []SecretsOnlyWhenAsked
  <1>1. OrphanInv => SecretsOnlyWhenAsked
    BY DEF OrphanInv
  <1>2. QED
    BY <1>1, OrphanInvariance, PTL

(* A prompt stays up for fewer than MAX_TRIES wrong passwords. *)
THEOREM TriesAreBounded == OrphanSpec => []TriesBounded
  <1>1. OrphanInv => TriesBounded
    BY DEF OrphanInv
  <1>2. QED
    BY <1>1, OrphanInvariance, PTL

(* What a handler that is cut off can do to a request, and to its count.    *)
LEMMA UnheardSteps ==
    ASSUME Base, NEW r \in Requests, NEW x \in Requests,
           CallerUnheard(r) \/ CommandUnheard(r) \/ PamUnheard(r)
    PROVE  /\ \/ status'[x] = status[x]
              \/ status[x] = "new" /\ status'[x] \in {"open", "refused"}
              \/ Open(x)
           /\ tries'[x] > tries[x] =>
                 /\ tries'[x] = tries[x] + 1
                 /\ session[x] # "none"
                 /\ status'[x] = IF tries'[x] < MaxTries THEN "open" ELSE "refused"
  <1>1. /\ status \in [Requests -> Status] /\ tries \in [Requests -> Nat]
        /\ MaxTries \in Nat
        /\ \A y \in Requests : session[y] # "none" => Open(y)
    BY AuthAssumption DEF Base, TypeOK, ClosedIsOver
  <1>2. CASE CallerUnheard(r)
    BY <1>1, <1>2 DEF CallerUnheard, QueuesUnheard, RefusesUnheard, AskpassDropped,
       DenyUnheard, CloseUnheard
  <1>3. CASE CommandUnheard(r)
    BY <1>1, <1>3 DEF CommandUnheard, DenyUnheard, RespondSudoUnheard, RespondPolkit,
       CloseUnheard
  <1>4. CASE PamUnheard(r)
    <2>1. CASE AsksUnheard(r) \/ ReaderEndsUnheard(r) \/ FingerUnheard(r)
      BY <1>1, <2>1 DEF AsksUnheard, ReaderEndsUnheard, FingerUnheard
    <2>2. CASE AuthorizedUnheard(r)
      BY <1>1, <2>2 DEF AuthorizedUnheard, MayWin, CloseUnheard
    <2>3. CASE WrongPasswordUnheard(r)
      <3>1. /\ Open(r) /\ session[r] # "none" /\ tries[r] + 1 < MaxTries
            /\ tries' = [tries EXCEPT ![r] = @ + 1] /\ status' = status
        BY <1>1, <2>3 DEF WrongPasswordUnheard, Counts, MayRetry
      <3>2. QED
        BY <1>1, <3>1 DEF Open
    <2>4. CASE OutOfTriesUnheard(r)
      <3>1. /\ Open(r) /\ session[r] # "none" /\ ~(tries[r] + 1 < MaxTries)
            /\ tries' = [tries EXCEPT ![r] = @ + 1]
            /\ status' = [status EXCEPT ![r] = "refused"]
        BY <1>1, <2>4 DEF OutOfTriesUnheard, Counts, MayRetry, CloseUnheard
      <3>2. QED
        BY <1>1, <3>1
    <2>5. QED
      BY <1>4, <2>1, <2>2, <2>3, <2>4 DEF PamUnheard
  <1>5. QED
    BY <1>2, <1>3, <1>4

(* And what any step can do. *)
LEMMA OrphanSteps ==
    ASSUME OrphanInv, [OrphanNext]_orphanVars, NEW x \in Requests
    PROVE  /\ \/ status'[x] = status[x]
              \/ status[x] = "new" /\ status'[x] \in {"open", "refused"}
              \/ Open(x)
           /\ tries'[x] > tries[x] =>
                 /\ tries'[x] = tries[x] + 1
                 /\ session[x] # "none"
                 /\ status'[x] = IF tries'[x] < MaxTries THEN "open" ELSE "refused"
  <1>1. Base /\ status \in [Requests -> Status] /\ tries \in [Requests -> Nat]
    BY OrphanInvIs DEF Base, TypeOK
  <1>2. CASE Heard
    <2>1. IInv /\ [Next]_vars
      BY <1>2, HeardInvIs DEF Heard
    <2>2. QED
      BY <2>1, StatusSteps, TriesSteps
  <1>3. ASSUME NEW r \in Requests, CallerUnheard(r) \/ CommandUnheard(r) \/ PamUnheard(r)
        PROVE  /\ \/ status'[x] = status[x]
                  \/ status[x] = "new" /\ status'[x] \in {"open", "refused"}
                  \/ Open(x)
               /\ tries'[x] > tries[x] =>
                     /\ tries'[x] = tries[x] + 1
                     /\ session[x] # "none"
                     /\ status'[x] = IF tries'[x] < MaxTries THEN "open" ELSE "refused"
    BY <1>1, <1>3, UnheardSteps
  <1>4. CASE Eof
    <2>1. queue[1] \in Requests
      BY <1>1, <1>4 DEF Base, TypeOK, Eof
    <2>2. tries' = tries
          /\ \E r \in Requests : Open(r) /\ status' = [status EXCEPT ![r] = "refused"]
      BY <1>4, <2>1 DEF Eof, DenyUnheard, CloseUnheard
    <2>3. QED
      BY <1>1, <2>2
  <1>5. CASE EofOnNobody \/ OrphanDies
    <2>1. /\ tries' = [r \in Requests |-> 0]
          /\ \E o \in {"refused", "lost"} :
                status' = [r \in Requests |-> IF Open(r) THEN o ELSE status[r]]
      BY <1>5 DEF EofOnNobody, OrphanDies, Crash, Gone, Ended
    <2>2. QED
      BY <1>1, <2>1
  <1>6. CASE ShellGoes \/ UNCHANGED orphanVars
    <2>1. status' = status /\ tries' = tries
      BY <1>6 DEF ShellGoes, orphanVars, vars
    <2>2. QED
      BY <1>1, <2>1
  <1>7. QED
    BY <1>2, <1>3, <1>4, <1>5, <1>6 DEF OrphanNext

(* An answered caller stays answered, and only an open request is granted.  *)
THEOREM Finality == OrphanSpec => VerdictsAreFinal
  <1>1. OrphanInv /\ [OrphanNext]_orphanVars =>
           [\A r \in Requests :
               /\ status[r] \in {"granted", "refused", "lost"} => status'[r] = status[r]
               /\ status'[r] = "granted" /\ status[r] # "granted" => Open(r)]_vars
    BY OrphanSteps DEF Open
  <1>2. QED
    BY <1>1, OrphanInvariance, PTL DEF OrphanSpec, VerdictsAreFinal

(* A cancel or a finger that wins is never counted as a wrong password, and *)
(* it takes exactly MAX_TRIES of those to be refused.                       *)
THEOREM FailuresAreCounted == OrphanSpec => OnlyFailuresAreCounted
  <1>1. OrphanInv /\ [OrphanNext]_orphanVars =>
           [\A r \in Requests : tries'[r] > tries[r] =>
               /\ tries'[r] = tries[r] + 1
               /\ session[r] # "none"
               /\ status'[r] = IF tries'[r] < MaxTries THEN "open" ELSE "refused"]_vars
    BY OrphanSteps
  <1>2. QED
    BY <1>1, OrphanInvariance, PTL DEF OrphanSpec, OnlyFailuresAreCounted
=============================================================================
