------------------------------ MODULE Greeter ------------------------------
(* The login greeter: greetd.cpp (the client of greetd's socket), Main.qml  *)
(* (the conversation) and the attempt counter and lockout of the card,      *)
(* Greeter.qml.  Requests and replies are two FIFO streams; a reply names   *)
(* no request, the client pairs them by order.  greetd takes one request at *)
(* a time and may sit on it for as long as PAM does, and meanwhile the card *)
(* takes keys.  What greetd and PAM do is the environment.                  *)
(*                                                                          *)
(* A secret is the press of Enter it was typed for and the user who was on  *)
(* the card then.  Suspend, layouts, sessions and the texts of messages are *)
(* left out.  An operator named X_slip is X with a plausible slip in it; no *)
(* specification uses it.                                                   *)
EXTENDS Naturals, Sequences

CONSTANTS Users,
          MaxAttempts,     \* Greeter.maxAttempts
          CooldownSeconds,
          MaxLogins,       \* bound on the presses of Enter
          MaxAsks          \* bound on the messages of one PAM conversation

ASSUME GreeterAssumption ==
    /\ Users # {}
    /\ MaxAttempts \in Nat \ {0}
    /\ CooldownSeconds \in Nat \ {0}
    /\ MaxLogins \in Nat
    /\ MaxAsks \in Nat

VARIABLES card,        \* the user on the card
          restless,    \* the person presses keys while a conversation is under way
          presses,     \* secrets typed so far
          pending,     \* Main.qml's pendingSecret
          pendingUser,
          awaiting,    \* Main.qml's awaitingResponse
          attempt, cooldown,
          remembered,  \* lastUserStore
          done,        \* "no", "ready" after authSuccess, "quit" after sessionStarted
          inflight,    \* GreetdClient.m_inflight
          wire,        \* requests greetd has not taken
          replies,     \* replies the client has not read
          session,     \* greetd's session: whose, what it waits for, messages left
          spent        \* secrets that have left the greeter

cardVars == <<restless, card, presses>>
lockVars == <<attempt, cooldown>>
talkVars == <<pending, pendingUser, awaiting>>
greetdVars == <<wire, replies, session>>
vars == <<cardVars, lockVars, talkVars, remembered, done, inflight, greetdVars, spent>>

NoOne == "no one"
Secret == [user : Users, n : 1..MaxLogins]
NoSecret == [user |-> NoOne, n |-> 0]

Kind == {"cancel_session", "create_session", "post_auth_message_response", "start_session"}

\* A request: for whom it opens a session, or the answer it brings.
Request == [type : Kind, user : Users \cup {NoOne}, secret : Secret \cup {NoSecret}]
Reply == [type : {"success", "error", "question", "info", "error message"}, to : Kind]

Req(type, user, secret) == [type |-> type, user |-> user, secret |-> secret]

\* What a session waits for: the answer to a question or the nod to a
\* message; or it is ready to start, or has been rejected.
Stage == {"question", "info", "error message", "ready", "rejected"}
NoSession == [user |-> NoOne, at |-> "rejected", asks |-> 0]

TypeOK ==
    /\ card \in Users /\ restless \in BOOLEAN
    /\ presses \in 0..MaxLogins
    /\ pending \in Secret \cup {NoSecret}
    /\ pendingUser \in Users \cup {NoOne}
    /\ awaiting \in BOOLEAN
    /\ attempt \in Nat
    /\ cooldown \in 0..CooldownSeconds
    /\ remembered \in Users \cup {NoOne}
    /\ done \in {"no", "ready", "quit"}
    /\ inflight \in Seq(Kind)
    /\ wire \in Seq(Request)
    /\ replies \in Seq(Reply)
    /\ session \in [user : Users \cup {NoOne}, at : Stage, asks : 0..MaxAsks]
    /\ spent \subseteq Secret

Init ==
    /\ card \in Users /\ restless \in BOOLEAN
    /\ presses = 0
    /\ pending = NoSecret /\ pendingUser = NoOne /\ awaiting = FALSE
    /\ attempt = 0 /\ cooldown = 0
    /\ remembered = NoOne
    /\ done = "no"
    /\ inflight = <<>> /\ wire = <<>> /\ replies = <<>>
    /\ session = NoSession
    /\ spent = {}

-----------------------------------------------------------------------------
(* GreetdClient.send: the type is remembered, the request is written.       *)

Types(reqs) == [i \in DOMAIN reqs |-> reqs[i].type]

SendAfter(pairs, reqs) ==
    /\ inflight' = pairs \o Types(reqs)
    /\ wire' = wire \o reqs

Send(reqs) == SendAfter(inflight, reqs)

-----------------------------------------------------------------------------
(* The card: Enter, another user, the lockout timer.                        *)

Calm == inflight = <<>>

Typed == [user |-> card, n |-> presses + 1]

\* Greeter.login and Main.beginLogin.
Login ==
    /\ done # "quit"
    /\ cooldown = 0
    /\ restless \/ Calm
    /\ presses < MaxLogins
    /\ presses' = presses + 1
    /\ \/ /\ awaiting
          /\ awaiting' = FALSE
          /\ Send(<<Req("post_auth_message_response", NoOne, Typed)>>)
          /\ spent' = spent \cup {Typed}
          /\ UNCHANGED <<pending, pendingUser>>
       \/ /\ ~awaiting
          /\ pending' \in {Typed, NoSecret}   \* an empty field is no secret
          /\ pendingUser' = card
          /\ Send(<<Req("cancel_session", NoOne, NoSecret), Req("create_session", card, NoSecret)>>)
          /\ UNCHANGED <<awaiting, spent>>
    /\ UNCHANGED <<restless, card, lockVars, remembered, done, replies, session>>

\* moveUser changes the card and leaves the conversation as it is.
MoveUser ==
    /\ done # "quit"
    /\ restless \/ (Calm /\ ~awaiting)
    /\ \E u \in Users \ {card} : card' = u
    /\ UNCHANGED <<restless, presses, lockVars, talkVars, remembered, done, inflight, greetdVars, spent>>

\* slip: the lockout ends and the counter stays where it was
CooldownTick_slip ==
    /\ done # "quit"
    /\ cooldown > 0
    /\ cooldown' = cooldown - 1
    /\ UNCHANGED <<cardVars, attempt, talkVars, remembered, done, inflight, greetdVars, spent>>

CooldownTick ==
    /\ done # "quit"
    /\ cooldown > 0
    /\ cooldown' = cooldown - 1
    /\ attempt' = IF cooldown = 1 THEN 0 ELSE attempt
    /\ UNCHANGED <<cardVars, talkVars, remembered, done, inflight, greetdVars, spent>>

LoginFailed ==
    /\ attempt' = attempt + 1
    /\ cooldown' = IF attempt + 1 >= MaxAttempts THEN CooldownSeconds ELSE cooldown

ResetConversation ==
    /\ pending' = NoSecret
    /\ pendingUser' = NoOne
    /\ awaiting' = FALSE

-----------------------------------------------------------------------------
(* greetd takes its next request.                                           *)

\* Where the conversation goes from here, when PAM has the word.
PamGoesOn(s) == {[s EXCEPT !.at = "rejected"], [s EXCEPT !.at = "ready"]}
            \cup IF s.asks = 0 THEN {}
                 ELSE {[s EXCEPT !.at = k, !.asks = @ - 1] : k \in {"question", "info", "error message"}}

Says(s) == CASE s.at = "ready" -> "success"
             [] s.at = "rejected" -> "error"
             [] OTHER -> s.at

Asking == session.at \in {"question", "info", "error message"}

Replied(type) == replies' = Append(replies, [type |-> type, to |-> Head(wire).type])

\* A session that was rejected stays until it is cancelled.
Create ==
    /\ wire # <<>> /\ Head(wire).type = "create_session"
    /\ \/ /\ session = NoSession
          /\ \E s \in PamGoesOn([user |-> Head(wire).user, at |-> "rejected", asks |-> MaxAsks]) :
                session' = s /\ Replied(Says(s))
       \/ /\ session # NoSession
          /\ Replied("error")
          /\ UNCHANGED session

Post ==
    /\ wire # <<>> /\ Head(wire).type = "post_auth_message_response"
    /\ \/ /\ Asking
          /\ \E s \in PamGoesOn(session) : session' = s /\ Replied(Says(s))
       \/ /\ ~Asking
          /\ Replied("error")
          /\ UNCHANGED session

CancelSession ==
    /\ wire # <<>> /\ Head(wire).type = "cancel_session"
    /\ session' = NoSession
    /\ \E type \in {"success", "error"} : Replied(type)

StartSession ==
    /\ wire # <<>> /\ Head(wire).type = "start_session"
    /\ Replied(IF session.at = "ready" THEN "success" ELSE "error")
    /\ UNCHANGED session

Greetd ==
    /\ Create \/ Post \/ CancelSession \/ StartSession
    /\ wire' = Tail(wire)
    /\ UNCHANGED <<cardVars, lockVars, talkVars, remembered, done, inflight, spent>>

-----------------------------------------------------------------------------
(* GreetdClient.onReadyRead and the handlers it reaches.                    *)

\* slip: a reply to a cancel is passed over before it is paired
Paired_slip == IF Head(inflight) = "cancel_session" THEN inflight ELSE Tail(inflight)

\* m_inflight once the reply at the head has been paired.
Paired == Tail(inflight)

Request1 == Head(inflight)

OnReply(type) ==
    /\ done # "quit"
    /\ replies # <<>> /\ Head(replies).type = type
    /\ replies' = Tail(replies)
    /\ UNCHANGED <<cardVars, session>>

\* slip: the secret is kept for the next prompt
Spend_slip == UNCHANGED pending

\* Cleared before it is sent.
Spend == pending' = NoSecret

\* slip: the card is asked and the next Enter is not taken for the answer
Ask_silent == UNCHANGED <<awaiting, wire>> /\ inflight' = Paired

Ask == awaiting' = TRUE /\ inflight' = Paired /\ UNCHANGED wire

\* A question: the pending secret, once; otherwise the card is asked.
OnQuestion ==
    /\ OnReply("question")
    /\ \/ /\ pending # NoSecret
          /\ Spend
          /\ SendAfter(Paired, <<Req("post_auth_message_response", NoOne, pending)>>)
          /\ spent' = spent \cup {pending}
          /\ UNCHANGED awaiting
       \/ /\ pending = NoSecret
          /\ Ask
          /\ UNCHANGED <<pending, spent>>
    /\ UNCHANGED <<lockVars, pendingUser, remembered, done>>

\* slip: what is no question is not answered
Acknowledge_slip == inflight' = Paired /\ UNCHANGED wire

Acknowledge == SendAfter(Paired, <<Req("post_auth_message_response", NoOne, NoSecret)>>)

OnInfo ==
    /\ OnReply("info")
    /\ Acknowledge
    /\ UNCHANGED <<lockVars, talkVars, remembered, done, spent>>

OnErrorMessage ==
    /\ OnReply("error message")
    /\ LoginFailed
    /\ Acknowledge
    /\ UNCHANGED <<talkVars, remembered, done, spent>>

\* slip: after the conversation has been reset
Remember_slip == remembered' = NoOne

Remember == remembered' = pendingUser

\* authSuccess: create_session and post_auth_message_response alone say so.
OnSuccess ==
    /\ OnReply("success")
    /\ \/ /\ Request1 \in {"create_session", "post_auth_message_response"}
          /\ Remember
          /\ ResetConversation
          /\ cooldown' = 0
          /\ done' = "ready"
          /\ SendAfter(Paired, <<Req("start_session", NoOne, NoSecret)>>)
          /\ UNCHANGED attempt
       \/ /\ Request1 = "start_session"
          /\ done' = "quit"
          /\ inflight' = Paired
          /\ UNCHANGED <<lockVars, talkVars, remembered, wire>>
       \/ /\ Request1 = "cancel_session"
          /\ inflight' = Paired
          /\ UNCHANGED <<lockVars, talkVars, remembered, done, wire>>
    /\ UNCHANGED spent

OnError ==
    /\ OnReply("error")
    /\ inflight' = Paired
    /\ \/ /\ Request1 # "cancel_session"
          /\ ResetConversation
          /\ LoginFailed
       \/ /\ Request1 = "cancel_session"
          /\ UNCHANGED <<lockVars, talkVars>>
    /\ UNCHANGED <<remembered, done, wire, spent>>

Client == OnQuestion \/ OnInfo \/ OnErrorMessage \/ OnSuccess \/ OnError

-----------------------------------------------------------------------------
Next == Login \/ MoveUser \/ CooldownTick \/ Greetd \/ Client

Spec == Init /\ [][Next]_vars

(* greetd and the client go on; nothing is asked of the person.             *)
FairSpec == Spec /\ WF_vars(Greetd) /\ WF_vars(Client)

-----------------------------------------------------------------------------
(* Properties.                                                              *)

\* Every reply is paired with the request it answers, however many requests
\* are under way: m_inflight is the replies to come, then the requests.
RepliesPair ==
    done # "quit" => inflight = [i \in DOMAIN replies |-> replies[i].to] \o Types(wire)

\* A secret leaves the greeter once: it is not handed back to the next prompt.
SpentOnce == pending \notin spent

\* The card that has counted MaxAttempts failures is locked, until the
\* lockout that follows has run its time.
LockedOut == attempt >= MaxAttempts => cooldown > 0 \/ done # "no"

\* If the person waits for answers: with nothing under way, a question PAM waits
\* on is up on the card, and the next Enter answers it.
QuestionsReachTheCard == ~restless /\ session.at = "question" /\ Calm => awaiting

\* An answer meets a question of the user it was typed for.  beginLogin:
\* "so clear any conversation left half-finished by an earlier attempt", which
\* it does not when that conversation waits and another user is on the card.
AnswersTheirUser ==
    wire # <<>> /\ Head(wire).secret # NoSecret => session.user = Head(wire).secret.user

\* That run of events needs a person who presses keys while a conversation is
\* under way: to one who waits for answers, an answer that is on its way belongs
\* to the user whose session asks for it (onAuthMessage, beginLogin).
AnswersMeetTheirUser == ~restless => AnswersTheirUser

\* If the person waits for answers, a secret is kept only while a conversation is
\* under way, and only for the user it was typed for: none is left over for the
\* prompt of a later conversation (pendingSecret).
NoSecretLeftOver ==
    ~restless /\ pending # NoSecret => ~Calm /\ pending.user = pendingUser

\* If the person waits for answers, the user remembered for the next boot is the
\* one whose session starts.
RemembersWhoLoggedIn == ~restless /\ done = "quit" => remembered = session.user

\* And a secret that was typed is used or dropped: no conversation waits for the
\* greeter while the greeter waits for it.
SecretsAreUsed == (~restless /\ pending # NoSecret) ~> (pending = NoSecret)
=============================================================================
