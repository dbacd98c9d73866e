--------------------------- MODULE MCMenuLayout ---------------------------
(* One menu with a row and a separator, another with a row; labels that say *)
(* the same, and one that says nothing.                                     *)
EXTENDS MenuLayout

MCTops == {1, 2}
MCRows == {3, 4, 5}
MCOf == [r \in MCRows |-> IF r = 5 THEN 2 ELSE 1]
MCLabels == {"Save", "_Save", "Open", " "}
MCClean == [l \in MCLabels |-> IF l = " " THEN "none" ELSE IF l = "Open" THEN "open" ELSE "save"]
MCShortcuts == {<<>>, <<"s", "F2">>}

Plain == [label |-> "Save", shortcut |-> <<>>, enabled |-> TRUE, visible |-> TRUE]
Full == [id \in 1..5 |-> Plain]
MCLayouts == {Full, [Full EXCEPT ![2].visible = FALSE], [Full EXCEPT ![3].label = "Open"]}

Set(id, keys, node) == [id |-> id, keys |-> keys, to |-> node]
Open == [Plain EXCEPT !.label = "Open", !.enabled = FALSE]
Short == [Plain EXCEPT !.label = "_Save", !.shortcut = <<"s", "F2">>]
Hidden == [Plain EXCEPT !.label = " ", !.visible = FALSE]

MCPaired == {Set(1, {"label", "enabled"}, Open), Set(1, {"label"}, Hidden),
             Set(3, {"label", "shortcut"}, Short), Set(3, {"visible"}, Hidden),
             Set(5, {"enabled"}, Open)}
MCEntries == MCPaired \cup {Set(3, {"label", "enabled"}, Open), Set(4, {"enabled"}, Open)}
MCPayloads == {<<e>> : e \in MCEntries}
         \cup {p \in {<<e, f>> : e, f \in MCPaired} : p[1].id # p[2].id}
=============================================================================
