--------------------------- MODULE GreeterProofs ---------------------------
(* Proofs about the greeter, for every set of users and all limits: a       *)
(* secret leaves the greeter once, and a counter that has reached its limit *)
(* keeps the card locked, neither of which depends on what greetd sends;    *)
(* the client pairs every reply with the request greetd answers by it; and  *)
(* to a person who waits for answers no question is lost.                   *)
EXTENDS Greeter, TLAPS, SequenceTheorems

(* SpentOnce is not inductive: a fresh secret must differ from all that     *)
(* were spent.  Every secret made so far carries the number of a past press.*)
Numbered ==
    /\ presses \in Nat
    /\ pending = NoSecret \/ (pending.n \in Nat /\ pending.n > 0 /\ pending.n <= presses)
    /\ \A s \in spent : s.n \in Nat /\ s.n > 0 /\ s.n <= presses

SecretInv == Numbered /\ SpentOnce

Locks ==
    /\ attempt \in Nat
    /\ cooldown \in 0..CooldownSeconds
    /\ LockedOut

(* The steps that can make, move or spend a secret are Login, a question    *)
(* and the resets; the others leave presses, pending and spent alone.       *)
LEMMA SecretSteps ==
    ASSUME SecretInv, [Next]_vars
    PROVE  SecretInv'
<1> USE DEF SecretInv, Numbered, SpentOnce, NoSecret
<1>0. Typed.n = presses + 1 /\ Typed # NoSecret
    BY DEF Typed
<1>1. CASE Login
    <2>1. presses' = presses + 1 /\ presses' \in Nat
        BY <1>1 DEF Login
    <2>2. CASE pending' \in {Typed, NoSecret} /\ spent' = spent
        BY <1>0, <2>1, <2>2
    <2>3. CASE pending' = pending /\ spent' = spent \cup {Typed}
        <3>1. pending # Typed
            BY <1>0
        <3>2. \A s \in spent' : s.n \in Nat /\ s.n > 0 /\ s.n <= presses'
            BY <1>0, <2>1, <2>3
        <3>3. pending' \notin spent'
            BY <3>1, <2>3
        <3> QED BY <2>1, <2>3, <3>2, <3>3
    <2> QED BY <1>1, <2>2, <2>3 DEF Login
<1>2. CASE OnQuestion
    <2>1. presses' = presses
        BY <1>2 DEF OnQuestion, OnReply, cardVars
    <2>2. CASE pending # NoSecret /\ pending' = NoSecret /\ spent' = spent \cup {pending}
        <3>1. \A s \in spent' : s.n \in Nat /\ s.n > 0 /\ s.n <= presses
            BY <2>2
        <3>2. NoSecret \notin spent'
            BY <3>1
        <3> QED BY <2>1, <2>2, <3>1, <3>2
    <2>3. CASE pending' = pending /\ spent' = spent
        BY <2>1, <2>3
    <2> QED BY <1>2, <2>2, <2>3 DEF OnQuestion, Spend
<1>3. CASE ResetConversation /\ presses' = presses /\ spent' = spent
    BY <1>3 DEF ResetConversation
<1>4. CASE UNCHANGED <<presses, pending, spent>>
    BY <1>4
<1>5. ASSUME OnSuccess \/ OnError \/ OnInfo \/ OnErrorMessage
      PROVE  presses' = presses /\ spent' = spent /\ (ResetConversation \/ pending' = pending)
    BY <1>5 DEF OnSuccess, OnError, OnInfo, OnErrorMessage, OnReply, cardVars, talkVars
<1>6. ASSUME MoveUser \/ CooldownTick \/ Greetd \/ UNCHANGED vars
      PROVE  UNCHANGED <<presses, pending, spent>>
    BY <1>6 DEF MoveUser, CooldownTick, Greetd, vars, cardVars, talkVars
<1> QED
    BY <1>1, <1>2, <1>3, <1>4, <1>5, <1>6 DEF Next, Client

(* The counter grows with the lockout set in the same step, and falls to    *)
(* zero in the step that ends the lockout.                                  *)
LEMMA LockSteps ==
    ASSUME Locks, [Next]_vars
    PROVE  Locks'
<1> USE GreeterAssumption DEF Locks, LockedOut
<1>1. ASSUME LoginFailed, done' = done
      PROVE  Locks'
    BY <1>1 DEF LoginFailed
<1>2. CASE CooldownTick
    BY <1>2 DEF CooldownTick
<1>3. CASE OnSuccess
    BY <1>3 DEF OnSuccess, lockVars
<1>4. CASE UNCHANGED lockVars /\ done' = done
    BY <1>4 DEF lockVars
<1>5. ASSUME OnError \/ OnErrorMessage \/ OnQuestion \/ OnInfo
      PROVE  done' = done /\ (LoginFailed \/ UNCHANGED lockVars)
    BY <1>5 DEF OnError, OnErrorMessage, OnQuestion, OnInfo, OnReply
<1>6. ASSUME Login \/ MoveUser \/ Greetd \/ UNCHANGED vars
      PROVE  UNCHANGED lockVars /\ done' = done
    BY <1>6 DEF Login, MoveUser, Greetd, vars, lockVars
<1> QED
    BY <1>1, <1>2, <1>3, <1>4, <1>5, <1>6 DEF Next, Client

(* A secret that was typed leaves the greeter at most once, whatever greetd *)
(* asks, refuses or repeats: Main.qml clears it before it answers.          *)
THEOREM SecretsLeaveOnce == Spec => []SpentOnce
<1>1. Init => SecretInv
    BY DEF Init, SecretInv, Numbered, SpentOnce, NoSecret
<1>2. SecretInv /\ [Next]_vars => SecretInv'
    BY SecretSteps
<1>3. SecretInv => SpentOnce
    BY DEF SecretInv
<1> QED
    BY <1>1, <1>2, <1>3, PTL DEF Spec

(* After MaxAttempts failures the card stays locked until the counter has   *)
(* been set back, failures that arrive during the lockout included.         *)
THEOREM LockoutHolds == Spec => []LockedOut
<1>1. Init => Locks
    BY GreeterAssumption DEF Init, Locks, LockedOut
<1>2. Locks /\ [Next]_vars => Locks'
    BY LockSteps
<1>3. Locks => LockedOut
    BY DEF Locks
<1> QED
    BY <1>1, <1>2, <1>3, PTL DEF Spec

-----------------------------------------------------------------------------
(* Types, and the pairing of replies with requests.                         *)

\* What was asked is what has been answered, then what greetd has yet to take,
\* in order.
Pairs(asked, answers, sent) ==
    /\ Len(asked) = Len(answers) + Len(sent)
    /\ \A i \in 1..Len(answers) : asked[i] = answers[i].to
    /\ \A i \in 1..Len(sent) : asked[Len(answers) + i] = sent[i].type

\* The same as RepliesPair, put together from its elements.
LEMMA PairsIsPairing ==
    ASSUME NEW a \in Seq(Kind), NEW b \in Seq(Reply), NEW c \in Seq(Request), Pairs(a, b, c)
    PROVE  a = [i \in DOMAIN b |-> b[i].to] \o Types(c)
<1> DEFINE p == [i \in DOMAIN b |-> b[i].to]
           q == Types(c)
<1>1. DOMAIN b = 1..Len(b) /\ DOMAIN c = 1..Len(c) /\ Len(a) \in Nat /\ Len(b) \in Nat /\ Len(c) \in Nat
    OBVIOUS
<1>2. p \in Seq(Kind) /\ Len(p) = Len(b) /\ \A i \in 1..Len(b) : p[i] = b[i].to
    <2>1. \A i \in 1..Len(b) : b[i].to \in Kind
        <3>1. \A i \in 1..Len(b) : b[i] \in Reply
            OBVIOUS
        <3> QED
            BY <3>1 DEF Reply
    <2>2. p = [i \in 1..Len(b) |-> b[i].to]
        BY <1>1
    <2> HIDE DEF p
    <2> QED
        BY <1>1, <2>1, <2>2
<1>3. q \in Seq(Kind) /\ Len(q) = Len(c) /\ \A i \in 1..Len(c) : q[i] = c[i].type
    <2>1. \A i \in 1..Len(c) : c[i].type \in Kind
        <3>1. \A i \in 1..Len(c) : c[i] \in Request
            OBVIOUS
        <3> QED
            BY <3>1 DEF Request
    <2>2. q = [i \in 1..Len(c) |-> c[i].type]
        BY <1>1 DEF Types
    <2> HIDE DEF q
    <2> QED
        BY <1>1, <2>1, <2>2
<1> HIDE DEF p, q
<1>a. p \in Seq(Kind) /\ q \in Seq(Kind)
    BY <1>2, <1>3
<1>b. /\ p \o q \in Seq(Kind) /\ Len(p \o q) = Len(p) + Len(q)
      /\ \A i \in 1..Len(p) + Len(q) :
            (p \o q)[i] = IF i <= Len(p) THEN p[i] ELSE q[i - Len(p)]
    BY <1>a, ConcatProperties
<1>4. /\ p \o q \in Seq(Kind) /\ Len(p \o q) = Len(b) + Len(c)
      /\ \A i \in 1..Len(b) + Len(c) :
            (p \o q)[i] = IF i <= Len(b) THEN p[i] ELSE q[i - Len(b)]
    BY <1>2, <1>3, <1>b
<1>5. Len(a) = Len(p \o q)
    BY <1>4 DEF Pairs
<1>6. ASSUME NEW i \in 1..Len(a) PROVE a[i] = (p \o q)[i]
    <2>1. CASE i <= Len(b)
        <3>1. i \in 1..Len(b)
            BY <1>1, <2>1
        <3> QED
            BY <1>1, <1>2, <1>4, <2>1, <3>1 DEF Pairs
    <2>2. CASE ~(i <= Len(b))
        <3>1. i - Len(b) \in 1..Len(c) /\ Len(b) + (i - Len(b)) = i /\ i \in 1..Len(b) + Len(c)
            BY <1>1, <2>2 DEF Pairs
        <3>2. a[Len(b) + (i - Len(b))] = c[i - Len(b)].type
            BY <3>1 DEF Pairs
        <3> QED
            BY <1>3, <1>4, <2>2, <3>1, <3>2
    <2> QED
        BY <2>1, <2>2
<1>7. a = p \o q
    <2>1. a \in Seq(Kind) /\ p \o q \in Seq(Kind)
        BY <1>4
    <2> QED
        BY <1>5, <1>6, <2>1, SeqEqual
<1> QED
    BY <1>7 DEF p, q

\* greetd takes a request and replies to it.
LEMMA ReplyPairs ==
    ASSUME NEW a \in Seq(Kind), NEW b \in Seq(Reply), NEW c \in Seq(Request), Pairs(a, b, c),
           c # <<>>, NEW r \in Reply, r.to = c[1].type
    PROVE  Pairs(a, Append(b, r), Tail(c))
<1> DEFINE x == Append(b, r)
           y == Tail(c)
<1>1. /\ Len(a) \in Nat /\ Len(b) \in Nat /\ Len(c) \in Nat /\ Len(c) > 0
      /\ Len(x) = Len(b) + 1 /\ x[Len(b) + 1] = r /\ \A i \in 1..Len(b) : x[i] = b[i]
      /\ Len(y) = Len(c) - 1 /\ \A i \in 1..Len(y) : y[i] = c[i + 1]
    <2>1. /\ Len(a) \in Nat /\ Len(b) \in Nat /\ Len(c) \in Nat /\ Len(c) > 0
          /\ Len(y) = Len(c) - 1 /\ \A i \in 1..Len(y) : y[i] = c[i + 1]
        OBVIOUS
    <2>2. Len(x) = Len(b) + 1 /\ x[Len(b) + 1] = r /\ \A i \in 1..Len(b) : x[i] = b[i]
        OBVIOUS
    <2> QED
        BY <2>1, <2>2
<1> HIDE DEF x, y
<1>2. a[Len(b) + 1] = c[1].type
    <2>1. 1 \in 1..Len(c)
        BY <1>1
    <2> QED
        BY <2>1 DEF Pairs
<1>3. ASSUME NEW i \in 1..Len(x) PROVE a[i] = x[i].to
    <2>1. i \in 1..Len(b) \/ i = Len(b) + 1
        BY <1>1
    <2> QED
        BY <1>1, <1>2, <2>1 DEF Pairs
<1>4. ASSUME NEW i \in 1..Len(y) PROVE a[Len(x) + i] = y[i].type
    <2>1. i + 1 \in 1..Len(c) /\ Len(x) + i = Len(b) + (i + 1)
        BY <1>1
    <2>2. a[Len(b) + (i + 1)] = c[i + 1].type
        BY <2>1 DEF Pairs
    <2> QED
        BY <1>1, <2>1, <2>2
<1>5. Pairs(a, x, y)
    BY <1>1, <1>3, <1>4 DEF Pairs
<1> QED
    BY <1>5 DEF x, y

\* The client pairs a reply with the request at the head.
LEMMA ReadPairs ==
    ASSUME NEW a \in Seq(Kind), NEW b \in Seq(Reply), NEW c \in Seq(Request), Pairs(a, b, c),
           b # <<>>
    PROVE  a # <<>> /\ Tail(a) \in Seq(Kind) /\ Pairs(Tail(a), Tail(b), c)
<1> DEFINE x == Tail(a)
           y == Tail(b)
<1>1. Len(a) \in Nat /\ Len(b) \in Nat /\ Len(c) \in Nat /\ Len(b) > 0
    OBVIOUS
<1>2. Len(a) > 0 /\ a # <<>>
    BY <1>1 DEF Pairs
<1>3. /\ x \in Seq(Kind) /\ Len(x) = Len(a) - 1 /\ \A i \in 1..Len(x) : x[i] = a[i + 1]
      /\ Len(y) = Len(b) - 1 /\ \A i \in 1..Len(y) : y[i] = b[i + 1]
    BY <1>2
<1> HIDE DEF x, y
<1>4. ASSUME NEW i \in 1..Len(y) PROVE x[i] = y[i].to
    <2>1. i + 1 \in 1..Len(b) /\ i \in 1..Len(x)
        BY <1>1, <1>3 DEF Pairs
    <2> QED
        BY <1>3, <2>1 DEF Pairs
<1>5. ASSUME NEW i \in 1..Len(c) PROVE x[Len(y) + i] = c[i].type
    <2>1. Len(y) + i \in 1..Len(x) /\ Len(y) + i + 1 = Len(b) + i
        BY <1>1, <1>3 DEF Pairs
    <2>2. x[Len(y) + i] = a[Len(b) + i]
        BY <1>3, <2>1
    <2> QED
        BY <2>2 DEF Pairs
<1>6. Pairs(x, y, c)
    BY <1>1, <1>3, <1>4, <1>5 DEF Pairs
<1> QED
    BY <1>2, <1>3, <1>6 DEF x, y

\* The client sends.
LEMMA SendPairs ==
    ASSUME NEW a \in Seq(Kind), NEW b \in Seq(Reply), NEW c \in Seq(Request), Pairs(a, b, c),
           NEW m \in Seq(Request)
    PROVE  /\ a \o Types(m) \in Seq(Kind) /\ c \o m \in Seq(Request)
           /\ Pairs(a \o Types(m), b, c \o m)
<1> DEFINE t == Types(m)
           x == a \o t
           y == c \o m
<1>1. t \in Seq(Kind) /\ Len(t) = Len(m) /\ \A i \in 1..Len(m) : t[i] = m[i].type
    <2>1. \A i \in 1..Len(m) : m[i].type \in Kind
        <3>1. \A i \in 1..Len(m) : m[i] \in Request
            OBVIOUS
        <3> QED
            BY <3>1 DEF Request
    <2>2. t = [i \in 1..Len(m) |-> m[i].type]
        BY DEF Types
    <2> HIDE DEF t
    <2> QED
        BY <2>1, <2>2
<1> HIDE DEF t
<1>a. t \in Seq(Kind)
    BY <1>1
<1>b. /\ x \in Seq(Kind) /\ Len(x) = Len(a) + Len(t)
      /\ \A i \in 1..Len(a) + Len(t) : x[i] = IF i <= Len(a) THEN a[i] ELSE t[i - Len(a)]
    BY <1>a, ConcatProperties
<1> HIDE DEF x
<1>2. /\ x \in Seq(Kind) /\ Len(x) = Len(a) + Len(m)
      /\ \A i \in 1..Len(a) + Len(m) : x[i] = IF i <= Len(a) THEN a[i] ELSE t[i - Len(a)]
    BY <1>1, <1>b
<1>3. /\ y \in Seq(Request) /\ Len(y) = Len(c) + Len(m)
      /\ \A i \in 1..Len(c) + Len(m) : y[i] = IF i <= Len(c) THEN c[i] ELSE m[i - Len(c)]
    BY ConcatProperties
<1>4. Len(a) \in Nat /\ Len(b) \in Nat /\ Len(c) \in Nat /\ Len(m) \in Nat /\ Len(a) = Len(b) + Len(c)
    BY DEF Pairs
<1> HIDE DEF x, y
<1>5. ASSUME NEW i \in 1..Len(b) PROVE x[i] = b[i].to
    <2>1. i \in 1..Len(a) + Len(m) /\ i <= Len(a)
        BY <1>4
    <2> QED
        BY <1>2, <2>1 DEF Pairs
<1>6. ASSUME NEW i \in 1..Len(y) PROVE x[Len(b) + i] = y[i].type
    <2>0. i \in 1..Len(c) + Len(m) /\ Len(b) + i \in 1..Len(a) + Len(m)
        BY <1>3, <1>4
    <2>1. CASE i <= Len(c)
        <3>1. Len(b) + i <= Len(a) /\ i \in 1..Len(c)
            BY <1>4, <2>0, <2>1
        <3> QED
            BY <1>2, <1>3, <2>0, <2>1, <3>1 DEF Pairs
    <2>2. CASE ~(i <= Len(c))
        <3>1. /\ ~(Len(b) + i <= Len(a)) /\ i - Len(c) \in 1..Len(m)
              /\ Len(b) + i - Len(a) = i - Len(c)
            BY <1>4, <2>0, <2>2
        <3>2. x[Len(b) + i] = t[Len(b) + i - Len(a)]
            BY <1>2, <2>0, <3>1
        <3>3. y[i] = m[i - Len(c)]
            BY <1>3, <2>0, <2>2
        <3>4. t[i - Len(c)] = m[i - Len(c)].type
            BY <1>1, <3>1
        <3> QED
            BY <3>1, <3>2, <3>3, <3>4
    <2> QED
        BY <2>1, <2>2
<1>7. Pairs(x, b, y)
    BY <1>2, <1>3, <1>4, <1>5, <1>6 DEF Pairs
<1> QED
    BY <1>2, <1>3, <1>7 DEF x, y, t

\* The streams, the card's side of the conversation, and with the counters of
\* Locks the whole state.
Channel ==
    /\ inflight \in Seq(Kind) /\ wire \in Seq(Request) /\ replies \in Seq(Reply)
    /\ done # "quit" => Pairs(inflight, replies, wire)

Card ==
    /\ card \in Users /\ presses \in 0..MaxLogins
    /\ pending \in Secret \cup {NoSecret} /\ pendingUser \in Users \cup {NoOne}
    /\ remembered \in Users \cup {NoOne}
    /\ done \in {"no", "ready", "quit"}
    /\ session \in [user : Users \cup {NoOne}, at : Stage, asks : 0..MaxAsks]
    /\ spent \subseteq Secret

(* RepliesPair is inductive only with the types of what is in the streams:  *)
(* a reply is paired by taking the head of m_inflight, which must have one. *)
IInv == Channel /\ Card /\ Locks /\ restless \in BOOLEAN /\ awaiting \in BOOLEAN

\* A request that is sent is one greetd knows.
LEMMA Requests ==
    ASSUME NEW type \in Kind, NEW user \in Users \cup {NoOne},
       NEW secret \in Secret \cup {NoSecret}
    PROVE  Req(type, user, secret) \in Request
BY DEF Req, Request

\* The lists of requests that are sent.
LEMMA OneOrTwo ==
    ASSUME NEW r \in Request, NEW s \in Request
    PROVE  <<r>> \in Seq(Request) /\ <<r, s>> \in Seq(Request)
OBVIOUS

LEMMA SendKeeps ==
    ASSUME Channel, NEW m \in Seq(Request), Send(m), UNCHANGED <<replies, done>>,
       done # "quit"
    PROVE  Channel'
BY SendPairs DEF Channel, Send, SendAfter

LEMMA HeadAndTail ==
    ASSUME NEW S, NEW q \in Seq(S), q # <<>>
    PROVE  q[1] \in S /\ Head(q) = q[1] /\ Tail(q) \in Seq(S)
OBVIOUS

\* What each step does to the three streams.
LEMMA ReplyKeeps ==
    ASSUME Channel, wire # <<>>, NEW type \in {"success", "error", "question", "info",
       "error message"},
           Replied(type), wire' = Tail(wire), UNCHANGED <<inflight, done>>
    PROVE  Channel'
<1>1. wire[1] \in Request /\ Head(wire) = wire[1] /\ Tail(wire) \in Seq(Request)
    <2>1. wire \in Seq(Request)
        BY DEF Channel
    <2> QED
        BY <2>1, HeadAndTail
<1>2. wire[1].type \in Kind
    BY <1>1 DEF Request
<1> DEFINE r == [type |-> type, to |-> wire[1].type]
<1>3. r \in Reply /\ r.to = wire[1].type
    BY <1>2 DEF Reply
<1>4. replies' = Append(replies, r)
    BY <1>1 DEF Replied
<1> HIDE DEF r
<1>5. replies' \in Seq(Reply)
    <2>1. replies \in Seq(Reply)
        BY DEF Channel
    <2>2. Append(replies, r) \in Seq(Reply)
        BY <1>3, <2>1, AppendProperties
    <2> QED
        BY <1>4, <2>2
<1>6. ASSUME done # "quit" PROVE Pairs(inflight, Append(replies, r), Tail(wire))
    BY <1>3, <1>6, ReplyPairs DEF Channel
<1> QED
    BY <1>1, <1>4, <1>5, <1>6 DEF Channel

LEMMA ReadKeeps ==
    ASSUME Channel, NEW type, OnReply(type)
    PROVE  /\ Paired \in Seq(Kind) /\ replies' \in Seq(Reply)
           /\ Pairs(Paired, replies', wire) /\ Request1 \in Kind
<1>1. done # "quit" /\ replies # <<>> /\ replies' = Tail(replies)
    BY DEF OnReply
<1>2. /\ inflight \in Seq(Kind) /\ replies \in Seq(Reply) /\ wire \in Seq(Request)
      /\ Pairs(inflight, replies, wire)
    BY <1>1 DEF Channel
<1>3. inflight # <<>> /\ Tail(inflight) \in Seq(Kind) /\ Pairs(Tail(inflight),
   Tail(replies), wire)
    BY <1>1, <1>2, ReadPairs
<1>4. Head(inflight) \in Kind /\ Tail(replies) \in Seq(Reply)
    BY <1>1, <1>2, <1>3
<1> QED
    BY <1>1, <1>3, <1>4 DEF Paired, Request1

LEMMA ReadAnswers ==
    ASSUME Channel, NEW type, OnReply(type), NEW m \in Seq(Request), SendAfter(Paired, m)
    PROVE  Channel'
<1>1. /\ Paired \in Seq(Kind) /\ replies' \in Seq(Reply) /\ wire \in Seq(Request)
      /\ Pairs(Paired, replies', wire)
    BY ReadKeeps DEF Channel
<1>2. /\ Paired \o Types(m) \in Seq(Kind) /\ wire \o m \in Seq(Request)
      /\ Pairs(Paired \o Types(m), replies', wire \o m)
    BY <1>1, SendPairs
<1> QED
    BY <1>1, <1>2 DEF Channel, SendAfter

LEMMA ReadOnly ==
    ASSUME Channel, NEW type, OnReply(type), inflight' = Paired, wire' = wire
    PROVE  Channel'
BY ReadKeeps DEF Channel

\* The five handlers of a reply.
LEMMA ClientKeeps ==
    ASSUME IInv, Client
    PROVE  Channel'
<1>1. CASE OnQuestion
    <2>1. CASE pending # NoSecret
        <3>1. <<Req("post_auth_message_response", NoOne, pending)>> \in Seq(Request)
            BY Requests, OneOrTwo DEF IInv, Card, Kind
        <3> QED
            BY <1>1, <2>1, <3>1, ReadAnswers DEF OnQuestion, IInv
    <2>2. CASE pending = NoSecret
        BY <1>1, <2>2, ReadOnly DEF OnQuestion, IInv, Ask
    <2> QED
        BY <2>1, <2>2
<1>a. <<Req("post_auth_message_response", NoOne, NoSecret)>> \in Seq(Request)
    BY Requests, OneOrTwo DEF Kind
<1>b. <<Req("start_session", NoOne, NoSecret)>> \in Seq(Request)
    BY Requests, OneOrTwo DEF Kind
<1>2. CASE OnInfo
    BY <1>2, <1>a, ReadAnswers DEF OnInfo, Acknowledge, IInv
<1>3. CASE OnErrorMessage
    BY <1>3, <1>a, ReadAnswers DEF OnErrorMessage, Acknowledge, IInv
<1>4. CASE OnSuccess
    BY <1>4, <1>b, ReadAnswers, ReadOnly DEF OnSuccess, IInv
<1>5. CASE OnError
    BY <1>5, ReadOnly DEF OnError, IInv
<1> QED
    BY <1>1, <1>2, <1>3, <1>4, <1>5 DEF Client

\* PAM has one message less to send.
LEMMA OneLess == ASSUME NEW n \in 0..MaxAsks, n # 0 PROVE n - 1 \in 0..MaxAsks
<1>1. MaxAsks \in Nat
    BY GreeterAssumption
<1> QED
    BY <1>1

\* What becomes of a session when PAM has the word is a session.
LEMMA PamTypes ==
    ASSUME NEW s \in [user : Users \cup {NoOne}, at : Stage, asks : 0..MaxAsks],
           NEW t \in PamGoesOn(s)
    PROVE  /\ t \in [user : Users \cup {NoOne}, at : Stage, asks : 0..MaxAsks]
           /\ Says(t) \in {"success", "error", "question", "info", "error message"}
<1>1. \A u \in [user : Users \cup {NoOne}, at : Stage, asks : 0..MaxAsks] :
          Says(u) \in {"success", "error", "question", "info", "error message"}
    BY DEF Says, Stage
<1>2. t \in [user : Users \cup {NoOne}, at : Stage, asks : 0..MaxAsks]
    <2>1. CASE t = [s EXCEPT !.at = "rejected"] \/ t = [s EXCEPT !.at = "ready"]
        BY <2>1 DEF Stage
    <2>2. ASSUME s.asks # 0, NEW k \in {"question", "info", "error message"},
                 t = [s EXCEPT !.at = k, !.asks = @ - 1]
          PROVE  t \in [user : Users \cup {NoOne}, at : Stage, asks : 0..MaxAsks]
        <3>0. s.asks \in 0..MaxAsks
            OBVIOUS
        <3>a. s.asks # 0
            BY <2>2
        <3>1. s.asks - 1 \in 0..MaxAsks
            BY <3>0, <3>a, OneLess
        <3>2. k \in Stage
            BY DEF Stage
        <3> QED
            BY <2>2, <3>1, <3>2
    <2> QED
        BY <2>1, <2>2 DEF PamGoesOn
<1> QED
    BY <1>1, <1>2

\* greetd's four requests.
LEMMA GreetdKeeps ==
    ASSUME IInv, Greetd
    PROVE  Channel' /\ session' \in [user : Users \cup {NoOne}, at : Stage, asks : 0..MaxAsks]
<1> DEFINE Session == [user : Users \cup {NoOne}, at : Stage, asks : 0..MaxAsks]
           Answer == {"success", "error", "question", "info", "error message"}
<1> SUFFICES ASSUME TRUE PROVE session' \in Session /\ \E type \in Answer : Replied(type)
    <2>1. ASSUME NEW type \in Answer, Replied(type), wire # <<>> PROVE Channel'
        BY <2>1, ReplyKeeps DEF IInv, Greetd
    <2>2. wire # <<>>
        BY DEF Greetd, Create, Post, CancelSession, StartSession
    <2> QED
        BY <2>1, <2>2
<1>1. session \in Session /\ NoSession \in Session
    <2>1. session \in Session
        BY DEF IInv, Card
    <2>2. 0 \in 0..MaxAsks /\ "rejected" \in Stage
        BY GreeterAssumption DEF Stage
    <2> QED
        BY <2>1, <2>2 DEF NoSession
<1>2. CASE Create
    <2>1. Head(wire) \in Request
        BY <1>2 DEF Create, IInv, Channel
    <2>2. [user |-> Head(wire).user, at |-> "rejected", asks |-> MaxAsks] \in Session
        BY <2>1, GreeterAssumption DEF Request, Stage
    <2> DEFINE first == [user |-> Head(wire).user, at |-> "rejected", asks |-> MaxAsks]
    <2>3. CASE \E s \in PamGoesOn(first) : session' = s /\ Replied(Says(s))
        <3>1. PICK s \in PamGoesOn(first) : session' = s /\ Replied(Says(s))
            BY <2>3
        <3> HIDE DEF first
        <3>2. s \in Session /\ Says(s) \in Answer
            BY <2>2, PamTypes DEF first
        <3> QED
            BY <3>1, <3>2
    <2>4. CASE Replied("error") /\ UNCHANGED session
        BY <1>1, <2>4
    <2> QED
        BY <1>2, <2>3, <2>4, Zenon DEF Create
<1>3. CASE Post
    <2>3. CASE \E s \in PamGoesOn(session) : session' = s /\ Replied(Says(s))
        <3>1. PICK s \in PamGoesOn(session) : session' = s /\ Replied(Says(s))
            BY <2>3
        <3>2. s \in Session /\ Says(s) \in Answer
            BY <1>1, PamTypes
        <3> QED
            BY <3>1, <3>2
    <2>4. CASE Replied("error") /\ UNCHANGED session
        BY <1>1, <2>4
    <2> QED
        BY <1>3, <2>3, <2>4, Zenon DEF Post
<1>4. CASE CancelSession
    BY <1>1, <1>4 DEF CancelSession
<1>5. CASE StartSession
    BY <1>1, <1>5 DEF StartSession
<1> QED
    BY <1>2, <1>3, <1>4, <1>5 DEF Greetd

\* The press of Enter.
LEMMA LoginKeeps ==
    ASSUME IInv, Login
    PROVE  Channel' /\ Card'
<1>1. card \in Users /\ presses \in Nat /\ presses + 1 \in 1..MaxLogins /\ presses' = presses + 1
    BY GreeterAssumption DEF IInv, Card, Login
<1>2. Typed \in Secret
    BY <1>1 DEF Typed, Secret
<1>3. Channel'
    <2>1. CASE Send(<<Req("post_auth_message_response", NoOne, Typed)>>)
        <3>1. <<Req("post_auth_message_response", NoOne, Typed)>> \in Seq(Request)
            BY <1>2, Requests, OneOrTwo DEF Kind
        <3> QED
            BY <2>1, <3>1, SendKeeps DEF Login, IInv
    <2>2. CASE Send(<<Req("cancel_session", NoOne, NoSecret), Req("create_session", card,
       NoSecret)>>)
        <3>1. Req("cancel_session", NoOne, NoSecret) \in Request /\ Req("create_session",
           card, NoSecret) \in Request
            BY <1>1, Requests DEF Kind
        <3>2. <<Req("cancel_session", NoOne, NoSecret), Req("create_session", card,
           NoSecret)>> \in Seq(Request)
            BY <3>1, OneOrTwo
        <3> QED
            BY <2>2, <3>2, SendKeeps DEF Login, IInv
    <2> QED
        BY <2>1, <2>2 DEF Login
<1>4. Card'
    BY <1>1, <1>2 DEF IInv, Card, Login
<1> QED
    BY <1>3, <1>4

\* What the handlers do to the card's side.
LEMMA CardKeeps ==
    ASSUME IInv, Client
    PROVE  Card'
<1>1. /\ UNCHANGED <<card, presses, session>>
      /\ pending' \in {pending, NoSecret}
      /\ pendingUser' \in {pendingUser, NoOne}
      /\ remembered' \in {remembered, pendingUser}
      /\ done' \in {done, "ready", "quit"}
    BY DEF Client, OnQuestion, OnInfo, OnErrorMessage, OnSuccess, OnError, OnReply, cardVars,
       talkVars, ResetConversation, Remember, Spend
<1>2. spent' = spent \/ (pending # NoSecret /\ spent' = spent \cup {pending})
    BY DEF Client, OnQuestion, OnInfo, OnErrorMessage, OnSuccess, OnError
<1> QED
    BY <1>1, <1>2 DEF IInv, Card

LEMMA SwitchesKeep ==
    ASSUME restless \in BOOLEAN, awaiting \in BOOLEAN, [Next]_vars
    PROVE  restless' \in BOOLEAN /\ awaiting' \in BOOLEAN
<1>1. CASE Login
    BY <1>1, Zenon DEF Login
<1>2. CASE MoveUser \/ CooldownTick \/ Greetd \/ UNCHANGED vars
    BY <1>2, Zenon DEF MoveUser, CooldownTick, Greetd, vars, cardVars, talkVars
<1>3. CASE Client
    BY <1>3, Zenon DEF Client, OnQuestion, OnInfo, OnErrorMessage, OnSuccess, OnError,
       OnReply,
       cardVars, talkVars, ResetConversation, Ask
<1> QED
    BY <1>1, <1>2, <1>3 DEF Next

\* No step breaks the invariant, and it holds at first.
LEMMA IInvKeeps == IInv /\ [Next]_vars => IInv'
<1> SUFFICES ASSUME IInv, [Next]_vars PROVE IInv'
    OBVIOUS
<1>1. Locks' /\ restless' \in BOOLEAN /\ awaiting' \in BOOLEAN
    BY LockSteps, SwitchesKeep DEF IInv
<1>2. Channel' /\ Card'
    <2>1. CASE Login
        BY <2>1, LoginKeeps
    <2>2. CASE MoveUser
        BY <2>2 DEF MoveUser, IInv, Channel, Card, greetdVars, talkVars
    <2>3. CASE CooldownTick
        BY <2>3 DEF CooldownTick, IInv, Channel, Card, greetdVars, talkVars, cardVars
    <2>4. CASE Greetd
        <3>1. UNCHANGED <<card, presses, pending, pendingUser, remembered, done, spent>>
            BY <2>4 DEF Greetd, cardVars, talkVars
        <3> QED
            BY <2>4, <3>1, GreetdKeeps DEF IInv, Card
    <2>5. CASE Client
        BY <2>5, ClientKeeps, CardKeeps
    <2>6. CASE UNCHANGED vars
        BY <2>6 DEF vars, IInv, Channel, Card, greetdVars, talkVars, cardVars
    <2> QED
        BY <2>1, <2>2, <2>3, <2>4, <2>5, <2>6 DEF Next
<1> QED
    BY <1>1, <1>2 DEF IInv

LEMMA Initially == Init => IInv
<1> SUFFICES ASSUME Init PROVE IInv
    OBVIOUS
<1>1. Locks
    BY GreeterAssumption DEF Init, Locks, LockedOut
<1>2. Pairs(inflight, replies, wire)
    <2>1. Len(inflight) = 0 /\ Len(replies) = 0 /\ Len(wire) = 0
        BY DEF Init
    <2> QED
        BY <2>1 DEF Pairs
<1>3. <<>> \in Seq(Kind) /\ <<>> \in Seq(Request) /\ <<>> \in Seq(Reply)
    OBVIOUS
<1>4. Channel
    BY <1>2, <1>3 DEF Init, Channel
<1>5. Card
    BY GreeterAssumption DEF Init, Card, NoSession, Stage
<1>6. restless \in BOOLEAN /\ awaiting \in BOOLEAN
    BY Zenon DEF Init
<1> QED
    BY <1>1, <1>4, <1>5, <1>6 DEF IInv

(* The greeter's state keeps its type, and the client and greetd agree on   *)
(* what is under way.                                                       *)
THEOREM Invariance == Spec => []IInv
    BY Initially, IInvKeeps, PTL DEF Spec

(* Every variable keeps its type.                                           *)
THEOREM TypeCorrect == Spec => []TypeOK
<1>1. IInv => TypeOK
    BY DEF IInv, Channel, Card, Locks, TypeOK
<1> QED
    BY <1>1, Invariance, PTL

(* Every reply is paired with the request it answers, however many are      *)
(* under way and whatever greetd answers (GreetdClient.onReadyRead).        *)
THEOREM RepliesArePaired == Spec => []RepliesPair
<1>1. IInv => RepliesPair
    BY PairsIsPairing DEF IInv, Channel, RepliesPair
<1> QED
    BY <1>1, Invariance, PTL

-----------------------------------------------------------------------------
(* Somebody who waits for answers.  One thing is under way at a time: two   *)
(* requests that open a conversation, one that carries it on, or the reply. *)

\* The last reply says where the session of greetd is.
Word == replies[Len(replies)].type = Says(session)

\* The first reply is to the cancel and says nothing.
Cancelled ==
    /\ replies[1].to = "cancel_session"
    /\ replies[1].type \in {"success", "error"}

AtRest == Len(wire) = 0 /\ Len(replies) = 0 /\ done # "ready" /\ (done = "quit" => session.at = "ready")

Opening ==
    /\ Len(wire) = 2 /\ Len(replies) = 0
    /\ wire[1].type = "cancel_session" /\ wire[2].type = "create_session"
    /\ wire[2].user = pendingUser

Creating ==
    /\ Len(wire) = 1
    /\ wire[1].type = "create_session" /\ wire[1].user = pendingUser
    /\ session = NoSession
    /\ Len(replies) = 0 \/ (Len(replies) = 1 /\ Cancelled)

Created ==
    /\ Len(wire) = 0 /\ Len(replies) = 2
    /\ Cancelled /\ replies[2].to = "create_session"
    /\ Word

Answering ==
    /\ Len(wire) = 1 /\ Len(replies) = 0
    /\ wire[1].type = "post_auth_message_response"
    /\ Asking

Heard ==
    /\ Len(wire) = 0 /\ Len(replies) = 1
    /\ replies[1].to \in {"create_session", "post_auth_message_response"}
    /\ Word

Starting ==
    /\ done = "ready" /\ session.at = "ready"
    /\ Len(wire) = 1 /\ Len(replies) = 0
    /\ wire[1].type = "start_session"

Started ==
    /\ done = "ready" /\ session.at = "ready"
    /\ Len(wire) = 0 /\ Len(replies) = 1
    /\ replies[1].to = "start_session" /\ replies[1].type = "success"

Talks == done = "no" /\ (Opening \/ Creating \/ Created \/ Answering \/ Heard)

Course == AtRest \/ Talks \/ Starting \/ Started

\* Whose conversation it is.
Whose ==
    IF done = "no"
      THEN Opening \/ session.at = "rejected" \/ session.user = pendingUser
      ELSE remembered = session.user

\* The card waits for an answer while PAM does, and not otherwise.
QuestionUp == Len(wire) = 0 /\ Len(replies) = 0 /\ session.at = "question"
Asked == awaiting <=> QuestionUp

OneAtATime == ~restless => Course /\ Whose /\ Asked

\* Lengths and ends of the streams.
LEMMA Ends ==
    ASSUME NEW S, NEW q \in Seq(S)
    PROVE  /\ Len(q) \in Nat /\ (Len(q) = 0 <=> q = <<>>)
           /\ q # <<>> => /\ Head(q) = q[1] /\ Tail(q) \in Seq(S) /\ Len(Tail(q)) = Len(q) - 1
                          /\ \A i \in 1..Len(q) - 1 : Tail(q)[i] = q[i + 1]
OBVIOUS

LEMMA EmptyThen ==
    ASSUME NEW S, NEW q \in Seq(S), Len(q) = 0, NEW m \in Seq(S)
    PROVE  q \o m = m
OBVIOUS

\* greetd takes a request and replies.
LEMMA Taken ==
    ASSUME Channel, NEW type, Replied(type), wire # <<>>, wire' = Tail(wire)
    PROVE  /\ Head(wire) = wire[1]
           /\ Len(wire) \in Nat /\ Len(wire') = Len(wire) - 1
           /\ Len(wire) = 2 => wire'[1] = wire[2]
           /\ Len(replies) \in Nat /\ Len(replies') = Len(replies) + 1
           /\ replies'[Len(replies) + 1] = [type |-> type, to |-> wire[1].type]
           /\ Len(replies) = 1 => replies'[1] = replies[1]
<1>1. wire \in Seq(Request) /\ replies \in Seq(Reply)
    BY DEF Channel
<1>2. /\ Head(wire) = wire[1] /\ Len(wire) \in Nat /\ Len(wire') = Len(wire) - 1
      /\ Len(wire) = 2 => wire'[1] = wire[2]
    BY <1>1, Ends
<1>3. replies' = Append(replies, [type |-> type, to |-> wire[1].type])
    BY <1>2 DEF Replied
<1>4. Len(replies) \in Nat
    BY <1>1
<1> QED
    BY <1>1, <1>2, <1>3, <1>4

\* The client reads a reply.
LEMMA Read ==
    ASSUME Channel, NEW type, OnReply(type)
    PROVE  /\ replies[1].type = type /\ Request1 = replies[1].to
           /\ Len(wire) \in Nat /\ Len(replies) \in Nat /\ Len(replies) > 0
           /\ Len(replies') = Len(replies) - 1
           /\ Len(replies) = 2 => replies'[1] = replies[2]
<1>1. /\ wire \in Seq(Request) /\ replies \in Seq(Reply) /\ inflight \in Seq(Kind)
      /\ Pairs(inflight, replies, wire) /\ replies # <<>>
    BY DEF Channel, OnReply
<1>2. /\ Len(replies) \in Nat /\ Len(replies) > 0 /\ Head(replies) = replies[1]
      /\ Len(Tail(replies)) = Len(replies) - 1 /\ Len(wire) \in Nat
      /\ Len(replies) = 2 => Tail(replies)[1] = replies[2]
    BY <1>1, Ends
<1>3. inflight[1] = replies[1].to /\ inflight # <<>>
    BY <1>1, <1>2, ReadPairs DEF Pairs
<1>4. Head(inflight) = inflight[1]
    BY <1>1, <1>3, Ends
<1> QED
    BY <1>2, <1>3, <1>4 DEF OnReply, Request1

\* What is sent with nothing else on the wire.
LEMMA SendsOne ==
    ASSUME Channel, Len(wire) = 0, NEW r \in Request, NEW a, SendAfter(a, <<r>>)
    PROVE  Len(wire') = 1 /\ wire'[1] = r
<1>1. wire' = <<r>>
    BY OneOrTwo, EmptyThen DEF Channel, SendAfter
<1> QED
    BY <1>1

\* PAM goes on with the same user.
LEMMA PamSays ==
    ASSUME NEW s \in [user : Users \cup {NoOne}, at : Stage, asks : 0..MaxAsks],
           NEW t \in PamGoesOn(s)
    PROVE  t.user = s.user
BY DEF PamGoesOn

\* What each reply tells of the session.
LEMMA SaysWhat ==
    ASSUME session.at \in Stage
    PROVE  /\ Says(session) = "success" <=> session.at = "ready"
           /\ Says(session) = "error" <=> session.at = "rejected"
           /\ Says(session) \in {"question", "info", "error message"} => session.at = Says(session)
BY DEF Says, Stage

\* With nothing under way the person may press Enter: to answer, or to begin.
LEMMA LoginTurn ==
    ASSUME IInv, Course, Whose, Asked, ~restless, Login
    PROVE  Course' /\ Whose' /\ Asked'
<1>1. /\ done # "quit" /\ Calm /\ UNCHANGED <<replies, session, done>>
      /\ card \in Users /\ presses \in Nat /\ presses + 1 \in 1..MaxLogins
    BY GreeterAssumption DEF Login, IInv, Card
<1>2. /\ inflight \in Seq(Kind) /\ replies \in Seq(Reply) /\ wire \in Seq(Request)
      /\ Pairs(inflight, replies, wire)
    BY <1>1 DEF IInv, Channel
<1>3. Len(wire) = 0 /\ Len(replies) = 0
    <2>1. Len(inflight) = 0 /\ Len(wire) \in Nat /\ Len(replies) \in Nat
        BY <1>1, <1>2 DEF Calm
    <2> QED
        BY <1>2, <2>1 DEF Pairs
<1>4. AtRest /\ done = "no"
    BY <1>1, <1>3 DEF Course, Talks, Opening, Creating, Created, Answering, Heard, Starting,
       Started, AtRest, IInv, Card
<1>5. CASE awaiting /\ awaiting' = FALSE /\ Send(<<Req("post_auth_message_response", NoOne, Typed)>>)
           /\ UNCHANGED pendingUser
    <2>1. session.at = "question"
        BY <1>5, Zenon DEF Asked, QuestionUp
    <2>2. Req("post_auth_message_response", NoOne, Typed) \in Request
        BY <1>1, Requests DEF Kind, Typed, Secret
    <2>3. Len(wire') = 1 /\ wire'[1].type = "post_auth_message_response"
        BY <1>3, <1>5, <2>2, SendsOne DEF Send, IInv, Req
    <2>4. Answering' /\ ~QuestionUp'
        BY <1>1, <1>3, <2>1, <2>3 DEF Answering, Asking, QuestionUp
    <2>5. Course'
        BY <1>1, <1>4, <2>4 DEF Course, Talks
    <2>6. Whose'
        BY <1>1, <1>3, <1>4, <1>5, <2>1 DEF Whose, Opening
    <2>7. Asked'
        BY <1>5, <2>4, Zenon DEF Asked
    <2> QED
        BY <2>5, <2>6, <2>7
<1>6. CASE ~awaiting /\ UNCHANGED awaiting /\ pendingUser' = card
           /\ Send(<<Req("cancel_session", NoOne, NoSecret), Req("create_session", card, NoSecret)>>)
    <2> DEFINE c == Req("cancel_session", NoOne, NoSecret)
               d == Req("create_session", card, NoSecret)
    <2>1. c \in Request /\ d \in Request /\ <<c, d>> \in Seq(Request)
        BY <1>1, Requests, OneOrTwo DEF Kind
    <2>2. c.type = "cancel_session" /\ d.type = "create_session" /\ d.user = card
        BY DEF Req
    <2> HIDE DEF c, d
    <2>3. wire' = <<c, d>>
        BY <1>2, <1>3, <1>6, <2>1, EmptyThen DEF Send, SendAfter, c, d
    <2>4. Opening' /\ ~QuestionUp'
        BY <1>1, <1>3, <1>6, <2>2, <2>3 DEF Opening, QuestionUp
    <2>5. Course' /\ Whose'
        BY <1>1, <1>4, <2>4 DEF Course, Talks, Whose
    <2>6. Asked'
        BY <1>6, <2>4, Zenon DEF Asked
    <2> QED
        BY <2>5, <2>6
<1> QED
    BY <1>5, <1>6, Zenon DEF Login

\* Of greetd's four requests each has its time.
LEMMA GreetdTurn ==
    ASSUME IInv, Course, Whose, Greetd
    PROVE  Course' /\ Whose' /\ ~QuestionUp /\ ~QuestionUp'
<1>1. wire # <<>> /\ wire' = Tail(wire) /\ UNCHANGED <<pendingUser, remembered, done>>
    BY DEF Greetd, Create, Post, CancelSession, StartSession, talkVars
<1>2. Channel /\ session \in [user : Users \cup {NoOne}, at : Stage, asks : 0..MaxAsks]
    BY DEF IInv, Card
<1>3. Len(wire) \in Nat /\ Len(wire) > 0 /\ Head(wire) = wire[1]
    <2>1. wire \in Seq(Request)
        BY <1>2 DEF Channel
    <2> QED
        BY <1>1, <2>1, Ends
<1>4. ~QuestionUp
    BY <1>3 DEF QuestionUp
<1>5. ASSUME NEW type, Replied(type) PROVE ~QuestionUp'
    <2>1. Len(replies) \in Nat /\ Len(replies') = Len(replies) + 1
        BY <1>1, <1>2, <1>5, Taken
    <2> QED
        BY <2>1 DEF QuestionUp
<1>6. CASE Talks /\ Opening
    <2>1. CancelSession
        BY <1>3, <1>6 DEF Opening, Greetd, Create, Post, StartSession, CancelSession
    <2>2. PICK type \in {"success", "error"} : Replied(type)
        BY <2>1 DEF CancelSession
    <2>3. session' = NoSession
        BY <2>1 DEF CancelSession
    <2>4. /\ Len(wire') = 1 /\ wire'[1] = wire[2] /\ Len(replies') = 1
          /\ replies'[1] = [type |-> type, to |-> wire[1].type]
        BY <1>1, <1>2, <1>6, <2>2, Taken DEF Opening
    <2>5. Creating'
        BY <1>1, <1>6, <2>3, <2>4 DEF Opening, Creating, Cancelled
    <2> QED
        BY <1>1, <1>4, <1>5, <1>6, <2>2, <2>3, <2>5 DEF Course, Talks, Whose, NoSession
<1>7. CASE Talks /\ Creating
    <2>1. Create
        BY <1>3, <1>7 DEF Creating, Greetd, Create, Post, StartSession, CancelSession
    <2> DEFINE first == [user |-> wire[1].user, at |-> "rejected", asks |-> MaxAsks]
    <2>2. PICK s \in PamGoesOn(first) : session' = s /\ Replied(Says(s))
        BY <1>3, <1>7, <2>1 DEF Creating, Create
    <2>3. first \in [user : Users \cup {NoOne}, at : Stage, asks : 0..MaxAsks]
        <3>1. wire[1] \in Request
            BY <1>2, <1>3 DEF Channel
        <3> QED
            BY <3>1, GreeterAssumption DEF Request, Stage
    <2>4. session'.user = wire[1].user
        BY <2>2, <2>3, PamSays
    <2> HIDE DEF first
    <2>5. /\ Len(wire') = 0 /\ Len(replies) \in Nat /\ Len(replies') = Len(replies) + 1
          /\ replies'[Len(replies) + 1] = [type |-> Says(s), to |-> "create_session"]
          /\ Len(replies) = 1 => replies'[1] = replies[1]
        BY <1>1, <1>2, <1>7, <2>2, Taken DEF Creating
    <2>6. Word'
        BY <2>2, <2>5 DEF Word, Says
    <2>7. Heard' \/ Created'
        <3>1. CASE Len(replies) = 0
            BY <2>5, <2>6, <3>1 DEF Heard
        <3>2. CASE Len(replies) = 1 /\ Cancelled
            <4>1. Len(replies') = 2 /\ replies'[1] = replies[1] /\ replies'[2].to = "create_session"
                BY <2>5, <3>2
            <4> QED
                BY <2>5, <2>6, <3>2, <4>1 DEF Created, Cancelled
        <3> QED
            BY <1>7, <3>1, <3>2 DEF Creating
    <2>8. session'.user = pendingUser'
        BY <1>1, <1>7, <2>4 DEF Creating
    <2> QED
        BY <1>1, <1>4, <1>5, <1>7, <2>2, <2>7, <2>8 DEF Course, Talks, Whose
<1>8. CASE Talks /\ Answering
    <2>1. Post
        BY <1>3, <1>8 DEF Answering, Greetd, Create, Post, StartSession, CancelSession
    <2>2. PICK s \in PamGoesOn(session) : session' = s /\ Replied(Says(s))
        BY <1>8, <2>1 DEF Answering, Post
    <2>3. session'.user = session.user
        BY <1>2, <2>2, PamSays
    <2>4. /\ Len(wire') = 0 /\ Len(replies') = 1
          /\ replies'[1] = [type |-> Says(s), to |-> "post_auth_message_response"]
        BY <1>1, <1>2, <1>8, <2>2, Taken DEF Answering
    <2>5. Word' /\ Heard'
        BY <2>2, <2>4 DEF Word, Says, Heard
    <2>6. session'.user = pendingUser'
        BY <1>1, <1>8, <2>3 DEF Answering, Opening, Asking, Whose, Talks
    <2> QED
        BY <1>1, <1>4, <1>5, <1>8, <2>2, <2>5, <2>6 DEF Course, Talks, Whose
<1>9. CASE Starting
    <2>1. StartSession
        BY <1>3, <1>9 DEF Starting, Greetd, Create, Post, StartSession, CancelSession
    <2>2. Replied("success") /\ session' = session
        BY <1>9, <2>1 DEF StartSession, Starting
    <2>3. /\ Len(wire') = 0 /\ Len(replies') = 1
          /\ replies'[1] = [type |-> "success", to |-> "start_session"]
        BY <1>1, <1>2, <1>9, <2>2, Taken DEF Starting
    <2>4. Started'
        BY <1>1, <1>9, <2>2, <2>3 DEF Starting, Started
    <2> QED
        BY <1>1, <1>4, <1>5, <1>9, <2>2, <2>4 DEF Course, Starting, Whose
<1> QED
    BY <1>3, <1>6, <1>7, <1>8, <1>9 DEF Course, AtRest, Talks, Created, Heard, Started

\* The reply to the cancel is passed over.
LEMMA CancelSkips ==
    ASSUME IInv, Client, Cancelled
    PROVE  UNCHANGED <<wire, awaiting, pending, pendingUser, remembered, done, session>>
<1>1. Channel
    BY DEF IInv
<1>h. replies = <<>> \/ Head(replies) = replies[1]
    <2>1. replies \in Seq(Reply)
        BY <1>1 DEF Channel
    <2> QED
        BY <2>1, Ends
<1>2. ASSUME NEW type, OnReply(type)
      PROVE  type \in {"success", "error"} /\ Request1 = "cancel_session" /\ session' = session
    BY <1>1, <1>2, Read DEF Cancelled, OnReply
<1>3. OnSuccess \/ OnError
    <2>a. ~OnReply("question") /\ ~OnReply("info") /\ ~OnReply("error message")
        BY <1>h DEF Cancelled, OnReply
    <2>1. ~OnQuestion /\ ~OnInfo /\ ~OnErrorMessage
        BY <2>a, Zenon DEF OnQuestion, OnInfo, OnErrorMessage
    <2> QED
        BY <2>1 DEF Client
<1>4. CASE OnSuccess
    BY <1>2, <1>4 DEF OnSuccess, talkVars
<1>5. CASE OnError
    BY <1>2, <1>5 DEF OnError, talkVars
<1> QED
    BY <1>3, <1>4, <1>5

\* PAM's word is heard: an answer leaves, the card is asked, the session
\* starts, or that is the end of it.
LEMMA WordTurn ==
    ASSUME IInv, Talks, Heard, Whose, Client
    PROVE  /\ Course' /\ Whose'
           /\ \/ awaiting' = TRUE /\ QuestionUp'
              \/ (awaiting' = FALSE \/ awaiting' = awaiting) /\ ~QuestionUp'
<1>1. Channel /\ session.at \in Stage
    BY DEF IInv, Card
<1>2. /\ done = "no" /\ Len(wire) = 0 /\ Len(replies) = 1
      /\ session.at = "rejected" \/ session.user = pendingUser
    BY DEF Talks, Heard, Whose, Opening
<1>3. ASSUME NEW type, OnReply(type)
      PROVE  /\ type = Says(session) /\ Len(replies') = 0 /\ session' = session
             /\ Request1 \in {"create_session", "post_auth_message_response"}
    BY <1>1, <1>2, <1>3, Read DEF Heard, Word, OnReply
<1>4. ASSUME NEW r \in Request, SendAfter(Paired, <<r>>)
      PROVE  Len(wire') = 1 /\ wire'[1] = r
    BY <1>1, <1>2, <1>4, SendsOne
<1>5. ASSUME NEW secret \in Secret \cup {NoSecret}, Asking, session' = session, Len(replies') = 0,
             SendAfter(Paired, <<Req("post_auth_message_response", NoOne, secret)>>),
             UNCHANGED <<pendingUser, remembered, done>>
      PROVE  Course' /\ Whose' /\ ~QuestionUp'
    <2>1. Req("post_auth_message_response", NoOne, secret) \in Request
        BY Requests DEF Kind
    <2>2. Len(wire') = 1 /\ wire'[1].type = "post_auth_message_response"
        BY <1>4, <1>5, <2>1 DEF Req
    <2>a. Asking' /\ Len(replies') = 0
        BY <1>5 DEF Asking
    <2>3. Answering' /\ ~QuestionUp'
        BY <2>a, <2>2 DEF Answering, QuestionUp
    <2> QED
        BY <1>2, <1>5, <2>3 DEF Course, Talks, Whose
<1>6. CASE OnQuestion
    <2>1. session.at = "question" /\ Len(replies') = 0 /\ session' = session
        BY <1>1, <1>3, <1>6, SaysWhat DEF OnQuestion
    <2>2. UNCHANGED <<pendingUser, remembered, done>>
        BY <1>6 DEF OnQuestion
    <2>3. CASE pending # NoSecret
        <3>1. SendAfter(Paired, <<Req("post_auth_message_response", NoOne, pending)>>)
              /\ awaiting' = awaiting
            BY <1>6, <2>3 DEF OnQuestion
        <3>2. pending \in Secret \cup {NoSecret}
            BY DEF IInv, Card
        <3>3. Course' /\ Whose' /\ ~QuestionUp'
            BY <1>5, <2>1, <2>2, <3>1, <3>2 DEF Asking
        <3> QED
            BY <3>1, <3>3
    <2>4. CASE pending = NoSecret
        <3>1. awaiting' = TRUE /\ wire' = wire
            BY <1>6, <2>4 DEF OnQuestion, Ask
        <3>2. AtRest' /\ QuestionUp'
            BY <1>2, <2>1, <2>2, <3>1 DEF AtRest, QuestionUp
        <3>3. Whose'
            BY <1>2, <2>1, <2>2 DEF Whose
        <3> QED
            BY <3>1, <3>2, <3>3 DEF Course
    <2> QED
        BY <2>3, <2>4
<1>7. CASE OnInfo \/ OnErrorMessage
    <2>1. OnReply("info") \/ OnReply("error message")
        BY <1>7 DEF OnInfo, OnErrorMessage
    <2>2. Asking /\ Len(replies') = 0 /\ session' = session
        BY <1>1, <1>3, <2>1, SaysWhat DEF Asking
    <2>3. /\ UNCHANGED <<pendingUser, remembered, done, awaiting>>
          /\ SendAfter(Paired, <<Req("post_auth_message_response", NoOne, NoSecret)>>)
        BY <1>7 DEF OnInfo, OnErrorMessage, Acknowledge, talkVars
    <2>4. Course' /\ Whose' /\ ~QuestionUp'
        BY <1>5, <2>2, <2>3
    <2> QED
        BY <2>3, <2>4
<1>8. CASE OnSuccess
    <2>1. session.at = "ready" /\ Len(replies') = 0 /\ session' = session
        BY <1>1, <1>3, <1>8, SaysWhat DEF OnSuccess
    <2>2. /\ remembered' = pendingUser /\ awaiting' = FALSE /\ done' = "ready"
          /\ SendAfter(Paired, <<Req("start_session", NoOne, NoSecret)>>)
        BY <1>3, <1>8 DEF OnSuccess, Remember, ResetConversation
    <2>3. Req("start_session", NoOne, NoSecret) \in Request
        BY Requests DEF Kind
    <2>4. Len(wire') = 1 /\ wire'[1].type = "start_session"
        BY <1>4, <2>2, <2>3 DEF Req
    <2>5. Starting' /\ ~QuestionUp' /\ Whose'
        BY <1>2, <2>1, <2>2, <2>4 DEF Starting, QuestionUp, Whose
    <2> QED
        BY <2>2, <2>5 DEF Course
<1>9. CASE OnError
    <2>1. session.at = "rejected" /\ Len(replies') = 0 /\ session' = session
        BY <1>1, <1>3, <1>9, SaysWhat DEF OnError
    <2>2. awaiting' = FALSE /\ UNCHANGED <<wire, remembered, done>>
        BY <1>3, <1>9 DEF OnError, ResetConversation
    <2>3. AtRest' /\ ~QuestionUp' /\ Whose'
        BY <1>2, <2>1, <2>2 DEF AtRest, QuestionUp, Whose
    <2> QED
        BY <2>2, <2>3 DEF Course
<1> QED
    BY <1>6, <1>7, <1>8, <1>9 DEF Client

\* The session has started.
LEMMA StartedTurn ==
    ASSUME IInv, Started, Whose, Client
    PROVE  /\ Course' /\ Whose' /\ ~QuestionUp'
           /\ UNCHANGED <<wire, awaiting, pending>> /\ done' = "quit"
<1>1. Channel
    BY DEF IInv
<1>h. replies = <<>> \/ Head(replies) = replies[1]
    <2>1. replies \in Seq(Reply)
        BY <1>1 DEF Channel
    <2> QED
        BY <2>1, Ends
<1>2. ASSUME NEW type, OnReply(type)
      PROVE  /\ type = "success" /\ Request1 = "start_session"
             /\ Len(replies') = 0 /\ session' = session
    BY <1>1, <1>2, Read DEF Started, OnReply
<1>3. OnSuccess
    <2>a. ~OnReply("question") /\ ~OnReply("info") /\ ~OnReply("error message") /\ ~OnReply("error")
        BY <1>h DEF Started, OnReply
    <2>1. ~OnQuestion /\ ~OnInfo /\ ~OnErrorMessage /\ ~OnError
        BY <2>a, Zenon DEF OnQuestion, OnInfo, OnErrorMessage, OnError
    <2> QED
        BY <2>1 DEF Client
<1>4. Len(replies') = 0 /\ session' = session /\ Request1 = "start_session"
    BY <1>2, <1>3 DEF OnSuccess
<1>5. done' = "quit" /\ UNCHANGED <<awaiting, remembered, wire, pending>>
    BY <1>3, <1>4 DEF OnSuccess, talkVars
<1> QED
    BY <1>4, <1>5 DEF Started, Course, AtRest, Whose, QuestionUp

LEMMA ClientTurn ==
    ASSUME IInv, Course, Whose, Client
    PROVE  /\ Course' /\ Whose' /\ ~QuestionUp
           /\ \/ awaiting' = TRUE /\ QuestionUp'
              \/ (awaiting' = FALSE \/ awaiting' = awaiting) /\ ~QuestionUp'
<1>1. Channel
    BY DEF IInv
<1>2. PICK type : OnReply(type)
    BY DEF Client, OnQuestion, OnInfo, OnErrorMessage, OnSuccess, OnError
<1>3. /\ Len(replies) \in Nat /\ Len(replies) > 0 /\ Len(replies') = Len(replies) - 1
      /\ Len(replies) = 2 => replies'[1] = replies[2]
    BY <1>1, <1>2, Read
<1>4. ~QuestionUp
    BY <1>3 DEF QuestionUp
<1>5. CASE Talks /\ Creating
    <2>1. Len(replies) = 1 /\ Cancelled
        BY <1>3, <1>5 DEF Creating
    <2>2. UNCHANGED <<wire, awaiting, pendingUser, remembered, done, session>>
        BY <2>1, CancelSkips
    <2>3. Creating'
        BY <1>3, <1>5, <2>1, <2>2 DEF Creating
    <2>4. Course' /\ Whose' /\ ~QuestionUp'
        BY <1>5, <2>2, <2>3 DEF Course, Talks, Whose, Creating, NoSession, QuestionUp
    <2> QED
        BY <1>4, <2>2, <2>4
<1>6. CASE Talks /\ Created
    <2>1. Len(replies) = 2 /\ Cancelled
        BY <1>6 DEF Created
    <2>2. UNCHANGED <<wire, awaiting, pendingUser, remembered, done, session>>
        BY <2>1, CancelSkips
    <2>3. Len(replies') = 1 /\ replies'[1] = replies[2]
        BY <1>3, <2>1
    <2>4. Heard'
        BY <1>6, <2>2, <2>3 DEF Created, Heard, Word, Says
    <2>5. Course' /\ Whose' /\ ~QuestionUp'
        BY <1>6, <2>2, <2>3, <2>4 DEF Course, Talks, Whose, Created, Opening, QuestionUp
    <2> QED
        BY <1>4, <2>2, <2>5
<1>7. CASE Talks /\ Heard
    BY <1>4, <1>7, WordTurn
<1>8. CASE Started
    BY <1>4, <1>8, StartedTurn
<1>9. ~AtRest /\ ~Opening /\ ~Answering /\ ~Starting
    BY <1>3 DEF AtRest, Opening, Answering, Starting
<1> QED
    BY <1>5, <1>6, <1>7, <1>8, <1>9, Zenon DEF Course, Talks

LEMMA OneAtATimeKeeps == IInv /\ OneAtATime /\ [Next]_vars => OneAtATime'
<1> SUFFICES ASSUME IInv, OneAtATime, [Next]_vars PROVE OneAtATime'
    OBVIOUS
<1>0. restless' = restless
    BY Zenon DEF Next, Login, MoveUser, CooldownTick, Greetd, Client, OnQuestion, OnInfo,
       OnErrorMessage, OnSuccess, OnError, OnReply, vars, cardVars
<1> SUFFICES ASSUME ~restless PROVE Course' /\ Whose' /\ Asked'
    BY <1>0, Zenon DEF OneAtATime
<1>1. Course /\ Whose /\ Asked
    BY Zenon DEF OneAtATime
<1>2. CASE Login
    BY <1>1, <1>2, LoginTurn
<1>3. CASE UNCHANGED <<wire, replies, session, pendingUser, remembered, done, awaiting>>
    <2>1. Course' /\ Whose' /\ (QuestionUp' <=> QuestionUp)
        BY <1>1, <1>3 DEF Course, Whose, QuestionUp, AtRest, Talks, Opening, Creating, Created,
           Answering, Heard, Starting, Started, Cancelled, Word, Says, Asking
    <2> QED
        BY <1>1, <1>3, <2>1, Zenon DEF Asked
<1>4. CASE Greetd
    <2>1. Course' /\ Whose' /\ ~QuestionUp /\ ~QuestionUp'
        BY <1>1, <1>4, GreetdTurn
    <2>2. awaiting' = awaiting
        BY <1>4, Zenon DEF Greetd, talkVars
    <2> QED
        BY <1>1, <2>1, <2>2, Zenon DEF Asked
<1>5. CASE Client
    <2>1. /\ Course' /\ Whose' /\ ~QuestionUp
          /\ \/ awaiting' = TRUE /\ QuestionUp'
             \/ (awaiting' = FALSE \/ awaiting' = awaiting) /\ ~QuestionUp'
        BY <1>1, <1>5, ClientTurn
    <2>2. CASE awaiting' = TRUE /\ QuestionUp'
        BY <2>1, <2>2, Zenon DEF Asked
    <2>3. CASE awaiting' = FALSE /\ ~QuestionUp'
        BY <2>1, <2>3, Zenon DEF Asked
    <2>4. CASE awaiting' = awaiting /\ ~QuestionUp'
        BY <1>1, <2>1, <2>4, Zenon DEF Asked
    <2> QED
        BY <2>1, <2>2, <2>3, <2>4, Zenon
<1>6. CASE MoveUser \/ CooldownTick \/ UNCHANGED vars
    <2>1. UNCHANGED <<wire, replies, session, pendingUser, remembered, done, awaiting>>
        BY <1>6, Zenon DEF MoveUser, CooldownTick, vars, greetdVars, talkVars
    <2> QED
        BY <1>3, <2>1
<1> QED
    BY <1>2, <1>4, <1>5, <1>6 DEF Next

LEMMA OneAtATimeAtFirst == Init => OneAtATime
<1> SUFFICES ASSUME Init PROVE OneAtATime
    OBVIOUS
<1>1. Course /\ Whose /\ ~QuestionUp
    BY DEF Init, Course, AtRest, Whose, QuestionUp, NoSession
<1>2. awaiting = FALSE
    BY Zenon DEF Init
<1> QED
    BY <1>1, <1>2, Zenon DEF OneAtATime, Asked

LEMMA Patience == Spec => []OneAtATime
    BY Invariance, OneAtATimeAtFirst, OneAtATimeKeeps, PTL DEF Spec

(* Who waits for answers finds every question PAM waits on up on the card,  *)
(* with the next Enter taken for the answer (Main.qml, onAuthMessage).      *)
THEOREM QuestionsAreUp == Spec => []QuestionsReachTheCard
<1>1. IInv /\ OneAtATime => QuestionsReachTheCard
    <2> SUFFICES ASSUME IInv, OneAtATime, ~restless, session.at = "question", Calm
                 PROVE  awaiting
        BY Zenon DEF QuestionsReachTheCard
    <2>1. Course /\ Asked
        BY Zenon DEF OneAtATime
    <2>2. done # "quit"
        BY <2>1 DEF Course, AtRest, Talks, Starting, Started
    <2>3. QuestionUp
        <3>1. /\ inflight \in Seq(Kind) /\ replies \in Seq(Reply) /\ wire \in Seq(Request)
              /\ Pairs(inflight, replies, wire)
            BY <2>2 DEF IInv, Channel
        <3>2. Len(inflight) = 0 /\ Len(wire) \in Nat /\ Len(replies) \in Nat
            BY <3>1 DEF Calm
        <3> QED
            BY <3>1, <3>2 DEF Pairs, QuestionUp
    <2> QED
        BY <2>1, <2>3, Zenon DEF Asked
<1> QED
    BY <1>1, Invariance, Patience, PTL

(* The user remembered for the next boot is the one whose session starts,   *)
(* if the person waits for answers (Main.qml, onAuthSuccess).               *)
THEOREM TheRightOneIsRemembered == Spec => []RemembersWhoLoggedIn
<1>1. OneAtATime => RemembersWhoLoggedIn
    BY DEF OneAtATime, Whose, RemembersWhoLoggedIn
<1> QED
    BY <1>1, Patience, PTL

-----------------------------------------------------------------------------
(* Whose secrets: to somebody who waits, the user on the card is the one    *)
(* the conversation is about, until it is over.                             *)

\* A secret on the wire answers the session that asks.
OnTheWire ==
    \A i \in 1..Len(wire) : wire[i].secret # NoSecret =>
        Answering /\ wire[i].secret.user = session.user

InHand ==
    /\ pending # NoSecret => Talks /\ pending.user = pendingUser
    /\ Talks \/ awaiting = TRUE => card = pendingUser
    /\ OnTheWire

Owned == ~restless => InHand

\* With nothing under way and before the session starts.
LEMMA CalmIsRest ==
    ASSUME IInv, Course, Calm, done # "quit"
    PROVE  AtRest /\ done = "no" /\ ~Talks /\ Len(wire) = 0 /\ Len(replies) = 0
<1>1. /\ inflight \in Seq(Kind) /\ replies \in Seq(Reply) /\ wire \in Seq(Request)
      /\ Pairs(inflight, replies, wire)
    BY DEF IInv, Channel
<1>2. Len(wire) = 0 /\ Len(replies) = 0
    <2>1. Len(inflight) = 0 /\ Len(wire) \in Nat /\ Len(replies) \in Nat
        BY <1>1 DEF Calm
    <2> QED
        BY <1>1, <2>1 DEF Pairs
<1>3. ~Talks /\ ~Starting /\ ~Started
    BY <1>2 DEF Talks, Opening, Creating, Created, Answering, Heard, Starting, Started
<1> QED
    BY <1>2, <1>3 DEF Course, AtRest, IInv, Card

\* A conversation goes on as long as something of it is under way.
LEMMA TalksWhile ==
    ASSUME Course
    PROVE  /\ Talks => done = "no" /\ ~AtRest
           /\ done = "no" /\ ~AtRest => Talks
<1>1. Talks => ~AtRest
    BY DEF Talks, AtRest, Opening, Creating, Created, Answering, Heard
<1> QED
    BY <1>1 DEF Course, Talks, Starting, Started

LEMMA LoginOwns ==
    ASSUME IInv, Course, Whose, Asked, InHand, ~restless, Login
    PROVE  InHand'
<1>1. /\ done = "no" /\ done' = done /\ AtRest /\ ~Talks /\ Len(wire) = 0 /\ Len(replies) = 0
      /\ UNCHANGED <<card, replies, session>> /\ card \in Users
      /\ presses \in Nat /\ presses + 1 \in 1..MaxLogins
    BY CalmIsRest, GreeterAssumption DEF Login, IInv, Card
<1>2. pending = NoSecret
    BY <1>1 DEF InHand
<1>3. Typed \in Secret /\ Typed.user = card
    BY <1>1 DEF Typed, Secret
<1>4. CASE awaiting /\ Send(<<Req("post_auth_message_response", NoOne, Typed)>>)
           /\ UNCHANGED <<pending, pendingUser>>
    <2>1. session.at = "question" /\ awaiting = TRUE
        BY <1>4, Zenon DEF Asked, QuestionUp, IInv
    <2>2. session.user = card /\ card = pendingUser
        BY <1>1, <2>1 DEF Whose, Opening, InHand
    <2>3. Req("post_auth_message_response", NoOne, Typed) \in Request
        BY <1>3, Requests DEF Kind
    <2>4. Len(wire') = 1 /\ wire'[1] = Req("post_auth_message_response", NoOne, Typed)
        BY <1>1, <1>4, <2>3, SendsOne DEF Send, IInv
    <2>5. Answering'
        BY <1>1, <2>1, <2>4 DEF Answering, Asking, Req
    <2>6. OnTheWire'
        BY <1>1, <1>3, <2>2, <2>4, <2>5 DEF OnTheWire, Req
    <2> QED
        BY <1>1, <1>2, <1>4, <2>2, <2>6 DEF InHand
<1>5. CASE /\ pending' \in {Typed, NoSecret} /\ pendingUser' = card
           /\ Send(<<Req("cancel_session", NoOne, NoSecret), Req("create_session", card, NoSecret)>>)
    <2> DEFINE c == Req("cancel_session", NoOne, NoSecret)
               d == Req("create_session", card, NoSecret)
    <2>1. c \in Request /\ d \in Request /\ <<c, d>> \in Seq(Request)
        BY <1>1, Requests, OneOrTwo DEF Kind
    <2>2. /\ c.type = "cancel_session" /\ d.type = "create_session" /\ d.user = card
          /\ c.secret = NoSecret /\ d.secret = NoSecret
        BY DEF Req
    <2> HIDE DEF c, d
    <2>3. wire \in Seq(Request)
        BY DEF IInv, Channel
    <2>4. wire' = <<c, d>>
        BY <1>1, <1>5, <2>1, <2>3, EmptyThen DEF Send, SendAfter, c, d
    <2>5. Talks'
        BY <1>1, <1>5, <2>2, <2>4 DEF Opening, Talks
    <2>6. OnTheWire'
        BY <2>2, <2>4 DEF OnTheWire
    <2> QED
        BY <1>1, <1>3, <1>5, <2>5, <2>6 DEF InHand
<1> QED
    BY <1>4, <1>5, Zenon DEF Login

LEMMA GreetdOwns ==
    ASSUME IInv, Course, Whose, InHand, Greetd
    PROVE  InHand'
<1>1. /\ wire # <<>> /\ wire' = Tail(wire)
      /\ UNCHANGED <<card, pending, pendingUser, done, awaiting>>
    BY DEF Greetd, Create, Post, CancelSession, StartSession, talkVars, cardVars
<1>2. wire \in Seq(Request) /\ Channel
    BY DEF IInv, Channel
<1>3. PICK type : Replied(type)
    BY DEF Greetd, Create, Post, CancelSession, StartSession
<1>4. /\ Len(wire) \in Nat /\ Len(wire) > 0 /\ Len(wire') = Len(wire) - 1
      /\ Len(wire) = 2 => wire'[1] = wire[2]
      /\ Len(replies) \in Nat /\ Len(replies') = Len(replies) + 1
    <2>1. Len(wire) > 0
        BY <1>1, <1>2
    <2> QED
        BY <1>1, <1>2, <1>3, <2>1, Taken
<1>5. Course' /\ ~AtRest /\ ~AtRest'
    BY <1>4, GreetdTurn DEF AtRest
<1>6. Talks' <=> Talks
    <2>1. Course' => (Talks' => done' = "no" /\ ~AtRest') /\ (done' = "no" /\ ~AtRest' => Talks')
        <3>1. Talks' => ~AtRest'
            BY DEF Talks, AtRest, Opening, Creating, Created, Answering, Heard
        <3> QED
            BY <3>1 DEF Course, Talks, Starting, Started
    <2> QED
        BY <1>1, <1>5, <2>1, TalksWhile
<1>7. OnTheWire'
    <2> SUFFICES ASSUME NEW i \in 1..Len(wire'), wire'[i].secret # NoSecret
                 PROVE  FALSE
        BY DEF OnTheWire
    <2>1. Len(wire) = 2
        BY <1>4, <1>5 DEF Course, Talks, Opening, Creating, Created, Answering, Heard, Starting,
           Started
    <2>2. i = 1 /\ wire[2].secret # NoSecret /\ 2 \in 1..Len(wire)
        BY <1>4, <2>1
    <2> QED
        BY <2>1, <2>2 DEF InHand, OnTheWire, Answering
<1> QED
    BY <1>1, <1>6, <1>7 DEF InHand

\* What the client reads next.
LEMMA ReadsWhat ==
    ASSUME IInv, Course, Client
    PROVE  \/ Talks /\ Heard
           \/ Talks /\ Cancelled /\ (Creating \/ Created)
           \/ Started
<1>1. PICK type : OnReply(type)
    BY DEF Client, OnQuestion, OnInfo, OnErrorMessage, OnSuccess, OnError
<1>2. Len(replies) \in Nat /\ Len(replies) > 0
    BY <1>1, Read DEF IInv
<1>3. ~AtRest /\ ~Opening /\ ~Answering /\ ~Starting
    BY <1>2 DEF AtRest, Opening, Answering, Starting
<1>4. Creating \/ Created => Cancelled
    BY <1>2 DEF Creating, Created
<1> QED
    BY <1>3, <1>4, Zenon DEF Course, Talks

\* PAM's word: the secret leaves for the session it is for, or is dropped.
LEMMA WordOwns ==
    ASSUME IInv, Talks, Heard, Whose, InHand, Client
    PROVE  InHand'
<1>1. Channel /\ session.at \in Stage /\ card' = card /\ session' = session
      /\ pending \in Secret \cup {NoSecret}
    BY DEF IInv, Card, Client, OnQuestion, OnInfo, OnErrorMessage, OnSuccess, OnError, OnReply,
           cardVars
<1>2. /\ done = "no" /\ Len(wire) = 0 /\ Len(replies) = 1 /\ card = pendingUser
      /\ session.at = "rejected" \/ session.user = pendingUser
    BY DEF Talks, Heard, Whose, Opening, InHand
<1>3. ASSUME NEW type, OnReply(type)
      PROVE  /\ type = Says(session) /\ Len(replies') = 0
             /\ Request1 \in {"create_session", "post_auth_message_response"}
    BY <1>1, <1>2, <1>3, Read DEF Heard, Word, OnReply
<1>4. ASSUME NEW secret \in Secret \cup {NoSecret}, Asking, Len(replies') = 0,
             SendAfter(Paired, <<Req("post_auth_message_response", NoOne, secret)>>),
             done' = done, secret # NoSecret => secret.user = session.user
      PROVE  Talks' /\ OnTheWire'
    <2>1. Req("post_auth_message_response", NoOne, secret) \in Request
        BY Requests DEF Kind
    <2>2. Len(wire') = 1 /\ wire'[1] = Req("post_auth_message_response", NoOne, secret)
        BY <1>1, <1>2, <1>4, <2>1, SendsOne
    <2>3. Asking'
        BY <1>1, <1>4 DEF Asking
    <2>4. Answering'
        BY <1>4, <2>2, <2>3 DEF Answering, Req
    <2> QED
        BY <1>1, <1>2, <1>4, <2>2, <2>4 DEF Talks, OnTheWire, Req
<1>5. CASE OnQuestion
    <2>1. session.at = "question" /\ Len(replies') = 0 /\ UNCHANGED <<pendingUser, done>>
        BY <1>1, <1>3, <1>5, SaysWhat DEF OnQuestion
    <2>2. CASE pending # NoSecret
        <3>1. /\ SendAfter(Paired, <<Req("post_auth_message_response", NoOne, pending)>>)
              /\ pending' = NoSecret
            BY <1>5, <2>2 DEF OnQuestion, Spend
        <3>2. pending.user = session.user
            BY <1>2, <2>1, <2>2 DEF InHand
        <3>3. OnTheWire'
            BY <1>1, <1>4, <2>1, <3>1, <3>2 DEF Asking
        <3> QED
            BY <1>1, <1>2, <2>1, <3>1, <3>3 DEF InHand
    <2>3. CASE pending = NoSecret
        <3>1. pending' = pending /\ wire' = wire
            BY <1>5, <2>3 DEF OnQuestion, Ask
        <3>2. OnTheWire'
            BY <1>2, <3>1 DEF OnTheWire
        <3> QED
            BY <1>1, <1>2, <2>1, <2>3, <3>1, <3>2 DEF InHand
    <2> QED
        BY <2>2, <2>3
<1>6. CASE OnInfo \/ OnErrorMessage
    <2>1. OnReply("info") \/ OnReply("error message")
        BY <1>6 DEF OnInfo, OnErrorMessage
    <2>2. Asking /\ Len(replies') = 0
        BY <1>1, <1>3, <2>1, SaysWhat DEF Asking
    <2>3. /\ UNCHANGED <<pending, pendingUser, done>>
          /\ SendAfter(Paired, <<Req("post_auth_message_response", NoOne, NoSecret)>>)
        BY <1>6 DEF OnInfo, OnErrorMessage, Acknowledge, talkVars
    <2>4. Talks' /\ OnTheWire'
        BY <1>4, <2>2, <2>3
    <2> QED
        BY <1>1, <1>2, <2>3, <2>4 DEF InHand
<1>7. CASE OnSuccess
    <2>1. /\ pending' = NoSecret /\ awaiting' = FALSE /\ done' = "ready"
          /\ SendAfter(Paired, <<Req("start_session", NoOne, NoSecret)>>)
        BY <1>3, <1>7 DEF OnSuccess, ResetConversation
    <2>2. Req("start_session", NoOne, NoSecret) \in Request
        BY Requests DEF Kind
    <2>3. Len(wire') = 1 /\ wire'[1] = Req("start_session", NoOne, NoSecret)
        BY <1>1, <1>2, <2>1, <2>2, SendsOne
    <2>4. OnTheWire' /\ ~Talks'
        BY <2>1, <2>3 DEF OnTheWire, Req, Talks
    <2> QED
        BY <2>1, <2>4 DEF InHand
<1>8. CASE OnError
    <2>1. pending' = NoSecret /\ awaiting' = FALSE /\ wire' = wire /\ Len(replies') = 0
        BY <1>3, <1>8 DEF OnError, ResetConversation
    <2>2. OnTheWire' /\ ~Talks'
        BY <1>2, <2>1 DEF OnTheWire, Talks, Opening, Creating, Created, Answering, Heard
    <2> QED
        BY <2>1, <2>2 DEF InHand
<1> QED
    BY <1>5, <1>6, <1>7, <1>8 DEF Client

LEMMA ClientOwns ==
    ASSUME IInv, Course, Whose, Asked, InHand, Client
    PROVE  InHand'
<1>1. card' = card
    BY DEF Client, OnQuestion, OnInfo, OnErrorMessage, OnSuccess, OnError, OnReply, cardVars
<1>2. CASE Talks /\ Heard
    BY <1>2, WordOwns
<1>3. CASE Talks /\ Cancelled /\ (Creating \/ Created)
    <2>1. UNCHANGED <<wire, awaiting, pending, pendingUser, done, session>>
        BY <1>3, CancelSkips
    <2>2. ~Answering
        <3>1. PICK type : OnReply(type)
            BY DEF Client, OnQuestion, OnInfo, OnErrorMessage, OnSuccess, OnError
        <3>2. Len(replies) > 0 /\ Len(replies) \in Nat
            BY <3>1, Read DEF IInv
        <3> QED
            BY <3>2 DEF Answering
    <2>3. OnTheWire'
        BY <2>1, <2>2 DEF InHand, OnTheWire
    <2>4. Talks'
        <3>1. ~AtRest'
            <4>1. PICK type : OnReply(type)
                BY DEF Client, OnQuestion, OnInfo, OnErrorMessage, OnSuccess, OnError
            <4>2. Len(replies') = Len(replies) - 1
                BY <4>1, Read DEF IInv
            <4> QED
                BY <1>3, <2>1, <4>2 DEF AtRest, Creating, Created
        <3>2. Course' /\ done' = "no"
            BY <1>3, <2>1, ClientTurn DEF Talks
        <3> QED
            BY <3>1, <3>2 DEF Course, Starting, Started
    <2> QED
        BY <1>1, <1>3, <2>1, <2>3, <2>4 DEF InHand
<1>4. CASE Started
    <2>1. /\ ~Talks /\ pending = NoSecret /\ Len(wire) = 0 /\ replies[1].to = "start_session"
          /\ replies[1].type = "success"
        BY <1>4 DEF Started, Talks, InHand
    <2>2. awaiting = FALSE
        <3>1. ~QuestionUp
            BY <1>4 DEF Started, QuestionUp
        <3> QED
            BY <3>1, Zenon DEF Asked, IInv
    <2>3. UNCHANGED <<wire, awaiting, pending>> /\ done' = "quit"
        BY <1>4, StartedTurn
    <2>4. OnTheWire' /\ ~Talks'
        BY <2>1, <2>3 DEF OnTheWire, Talks
    <2> QED
        BY <2>1, <2>2, <2>3, <2>4 DEF InHand
<1> QED
    BY <1>2, <1>3, <1>4, ReadsWhat

LEMMA OwnedKeeps == IInv /\ OneAtATime /\ Owned /\ [Next]_vars => Owned'
<1> SUFFICES ASSUME IInv, OneAtATime, Owned, [Next]_vars PROVE Owned'
    OBVIOUS
<1>0. restless' = restless
    BY Zenon DEF Next, Login, MoveUser, CooldownTick, Greetd, Client, OnQuestion, OnInfo,
       OnErrorMessage, OnSuccess, OnError, OnReply, vars, cardVars
<1> SUFFICES ASSUME ~restless PROVE InHand'
    BY <1>0, Zenon DEF Owned
<1>1. Course /\ Whose /\ Asked /\ InHand
    BY Zenon DEF OneAtATime, Owned
<1>2. CASE Login
    BY <1>1, <1>2, LoginOwns
<1>3. CASE MoveUser
    <2>1. Calm /\ ~awaiting /\ done # "quit"
        BY <1>3, Zenon DEF MoveUser
    <2>2. UNCHANGED <<wire, replies, session, pending, pendingUser, done, awaiting>>
        BY <1>3, Zenon DEF MoveUser, greetdVars, talkVars
    <2>3. ~Talks /\ Len(wire) = 0
        BY <1>1, <2>1, CalmIsRest
    <2>4. awaiting # TRUE
        BY <2>1, Zenon DEF IInv
    <2>5. ~Talks' /\ OnTheWire'
        BY <2>2, <2>3 DEF Talks, Opening, Creating, Created, Answering, Heard, Cancelled, Word,
           Says, Asking, OnTheWire
    <2> QED
        BY <1>1, <2>2, <2>3, <2>4, <2>5 DEF InHand
<1>4. CASE UNCHANGED <<card, wire, replies, session, pending, pendingUser, done, awaiting>>
    BY <1>1, <1>4 DEF InHand, OnTheWire, Talks, Opening, Creating, Created, Answering, Heard,
       Cancelled, Word, Says, Asking
<1>5. CASE CooldownTick \/ UNCHANGED vars
    <2>1. UNCHANGED <<card, wire, replies, session, pending, pendingUser, done, awaiting>>
        BY <1>5, Zenon DEF CooldownTick, vars, cardVars, greetdVars, talkVars
    <2> QED
        BY <1>4, <2>1
<1>6. CASE Greetd
    BY <1>1, <1>6, GreetdOwns
<1>7. CASE Client
    BY <1>1, <1>7, ClientOwns
<1> QED
    BY <1>2, <1>3, <1>5, <1>6, <1>7 DEF Next

LEMMA OwnedHolds == Spec => []Owned
<1>1. Init => Owned
    <2> SUFFICES ASSUME Init PROVE InHand
        BY DEF Owned
    <2>1. awaiting # TRUE
        BY Zenon DEF Init
    <2>2. pending = NoSecret /\ Len(wire) = 0 /\ ~Talks
        BY DEF Init, Talks, Opening, Creating, Created, Answering, Heard
    <2>3. OnTheWire
        BY <2>2 DEF OnTheWire
    <2> QED
        BY <2>1, <2>2, <2>3 DEF InHand
<1> QED
    BY <1>1, OwnedKeeps, Invariance, Patience, PTL DEF Spec

(* An answer is for the user whose session asks, if the person waits for    *)
(* answers (beginLogin, onAuthMessage): what GreeterMoved shows to fail     *)
(* needs keys that are pressed while a conversation is under way.           *)
THEOREM AnswersReachTheirUser == Spec => []AnswersMeetTheirUser
<1>1. IInv /\ Owned => AnswersMeetTheirUser
    <2> SUFFICES ASSUME IInv, Owned, ~restless, wire # <<>>, Head(wire).secret # NoSecret
                 PROVE  session.user = Head(wire).secret.user
        BY DEF AnswersMeetTheirUser, AnswersTheirUser
    <2>1. wire \in Seq(Request)
        BY DEF IInv, Channel
    <2>2. Head(wire) = wire[1] /\ 1 \in 1..Len(wire)
        BY <2>1
    <2>3. OnTheWire
        BY Zenon DEF Owned, InHand
    <2> QED
        BY <2>2, <2>3 DEF OnTheWire
<1> QED
    BY <1>1, Invariance, OwnedHolds, PTL

(* No secret outlives its conversation (pendingSecret), if the person waits *)
(* for answers.                                                             *)
THEOREM SecretsDoNotLinger == Spec => []NoSecretLeftOver
<1>1. IInv /\ OneAtATime /\ Owned => NoSecretLeftOver
    <2> SUFFICES ASSUME IInv, OneAtATime, Owned, ~restless, pending # NoSecret
                 PROVE  ~Calm /\ pending.user = pendingUser
        BY DEF NoSecretLeftOver
    <2>1. Course /\ InHand
        BY Zenon DEF OneAtATime, Owned
    <2>2. Talks /\ pending.user = pendingUser
        BY <2>1 DEF InHand
    <2>3. done # "quit"
        BY <2>2 DEF Talks
    <2> QED
        BY <2>1, <2>2, <2>3, CalmIsRest
<1> QED
    BY <1>1, Invariance, Patience, OwnedHolds, PTL
=============================================================================
