--------------------------- MODULE MCAuthSystem ---------------------------
(* c7-authd and AuthService over their two pipes.  Two requests are enough  *)
(* for one to wait behind the other; which two is the cfg's choice.         *)
EXTENDS AuthSystem, TLC

CONSTANTS p1, p2, s1

OnePolkit == {p1}
TwoPolkit == {p1, p2}
OneSudo == {s1}
NoSudo == {}
============================================================================
