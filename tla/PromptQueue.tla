---------------------------- MODULE PromptQueue ----------------------------
(* What the password prompt promises its callers, without the daemon, the  *)
(* shell, the pipes between them or PAM: callers queue in the order they   *)
(* come, each is told exactly once how it ended, and only the one at the   *)
(* front of the queue is ever granted anything.                            *)
EXTENDS Sequences, SequencesExt

CONSTANT Callers

VARIABLES line,     \* the callers waiting, first come first
          verdict   \* what each has been told

pqVars == <<line, verdict>>

Undecided == {"new", "open"}

PQInit ==
    /\ line = <<>>
    /\ verdict = [c \in Callers |-> "new"]

Arrive(c) ==
    /\ verdict[c] = "new"
    /\ line' = Append(line, c)
    /\ verdict' = [verdict EXCEPT ![c] = "open"]

(* Turned away without a prompt. *)
TurnAway(c) ==
    /\ verdict[c] = "new"
    /\ verdict' = [verdict EXCEPT ![c] = "refused"]
    /\ UNCHANGED line

(* Only the caller everyone can see on the screen. *)
Grant(c) ==
    /\ line # <<>> /\ line[1] = c
    /\ line' = Tail(line)
    /\ verdict' = [verdict EXCEPT ![c] = "granted"]

(* A caller may be refused, or withdraw, wherever it stands. *)
Refuse(c) ==
    /\ verdict[c] = "open"
    /\ line' = RemoveFirst(line, c)
    /\ verdict' = [verdict EXCEPT ![c] = "refused"]

(* The prompt goes away under everyone waiting. *)
LoseAll ==
    /\ line' = <<>>
    /\ \E how \in {"refused", "lost"} :
          verdict' = [c \in Callers |->
                         IF verdict[c] = "open" THEN how ELSE verdict[c]]

PQNext ==
    \/ \E c \in Callers : Arrive(c) \/ TurnAway(c) \/ Grant(c) \/ Refuse(c)
    \/ LoseAll

PQSpec == PQInit /\ [][PQNext]_pqVars
============================================================================
