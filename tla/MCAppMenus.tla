---------------------------- MODULE MCAppMenus ----------------------------
(* One application with two menu bars, for TLC.                             *)
EXTENDS AppMenus

CONSTANTS app, b1, b2

OneSender == [b \in {b1, b2} |-> app]
OneProcess == [s \in {app} |-> app]
AllManners == {"plain", "patching", "sloppy"}
=============================================================================
