--------------------------- MODULE OrderlyUpdate ---------------------------
(* What an update run promises the person who starts it, without the       *)
(* processes, the pipe and the dry runs: nothing is touched before it is   *)
(* allowed, sources are brought up one at a time in their order, nothing   *)
(* is touched once a run is over or one of its sources has failed, and     *)
(* what is reported is what happened.                                      *)
EXTENDS Naturals

CONSTANTS Sources, Releases,
          Before(_, _)   \* the order in which sources must be brought up

VARIABLES stage,  \* where the run stands, or how it has ended
          todo,   \* sources it has yet to bring up
          have,   \* release the machine has of each
          told    \* what was reported of the last run

ouVars == <<stage, todo, have, told>>

Endings == {"ok", "failed", "aborted"}

OUInit ==
    /\ stage = "idle"
    /\ todo = {}
    /\ have \in [Sources -> Releases]
    /\ told = "none"

Begin ==
    /\ stage = "idle"
    /\ stage' = "asking"
    /\ told' = "none"
    /\ UNCHANGED <<todo, have>>

(* The person lets it work on some of the sources. *)
Allow ==
    /\ stage = "asking"
    /\ stage' = "working"
    /\ todo' \in SUBSET Sources
    /\ UNCHANGED <<have, told>>

Install(s) ==
    /\ stage = "working"
    /\ s \in todo
    /\ \A t \in todo : t # s => Before(s, t)
    /\ todo' = todo \ {s}
    /\ \E r \in Releases : have' = [have EXCEPT ![s] = r]
    /\ UNCHANGED <<stage, told>>

(* One source fails, and the others are left as they are. *)
Break ==
    /\ stage = "working"
    /\ stage' = "broken"
    /\ todo' = {}
    /\ UNCHANGED <<have, told>>

GiveUp ==
    /\ stage = "broken"
    /\ stage' = "failed"
    /\ UNCHANGED <<todo, have, told>>

Complete ==
    /\ stage = "working"
    /\ todo = {}
    /\ stage' = "ok"
    /\ UNCHANGED <<todo, have, told>>

(* Refused, or called off. *)
Cease ==
    /\ stage \in {"asking", "working", "broken"}
    /\ stage' = "aborted"
    /\ todo' = {}
    /\ UNCHANGED <<have, told>>

Report ==
    /\ stage \in Endings
    /\ told' = stage
    /\ stage' = "idle"
    /\ UNCHANGED <<todo, have>>

OUNext ==
    \/ Begin \/ Allow \/ Break \/ GiveUp \/ Complete \/ Cease \/ Report
    \/ \E s \in Sources : Install(s)

OUSpec == OUInit /\ [][OUNext]_ouVars
============================================================================
