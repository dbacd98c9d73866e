--------------------------- MODULE MCAuthDaemon ---------------------------
(* A small instance of c7-authd: two polkit requests, so that one can wait  *)
(* behind the other, and one sudo request that can be in either place.      *)
EXTENDS AuthOrphan, TLC

CONSTANTS p1, p2, s1

MCPolkit == {p1, p2}
MCSudo == {s1}
MCSymmetry == Permutations(MCPolkit)
============================================================================
