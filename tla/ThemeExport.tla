---------------------------- MODULE ThemeExport ----------------------------
(* scripts/c7shell-theme-export.py: one look of the shell written into the  *)
(* files of everybody else.  Most of these files have other writers too, so *)
(* the script reads them, sets its own keys and moves a new file into       *)
(* place; a run is a sequence of such steps, and the process may be killed  *)
(* between any two of them.                                                 *)
(*                                                                          *)
(* A look (accent, theme, cursor) is a number; a key holds the look it was  *)
(* written for, or 0 where the file has no such key.  The colours that are  *)
(* computed from a look are left out.                                       *)
EXTENDS Integers, Sequences

\* What main() writes, in its order: which key of which file, and how.  The
\* two settings.ini of GTK are one file here.
Plan == << [file |-> "kdeglobals",   key |-> "colours", how |-> "merge"],
           [file |-> "scheme",       key |-> "colours", how |-> "overwrite"],
           [file |-> "settings.ini", key |-> "dark",    how |-> "merge"],
           [file |-> "gsettings",    key |-> "dark",    how |-> "replace"],
           [file |-> "hyprlock",     key |-> "colours", how |-> "replace"],
           [file |-> "imv",          key |-> "colours", how |-> "merge"],
           [file |-> "kcminputrc",   key |-> "cursor",  how |-> "merge"],
           [file |-> "settings.ini", key |-> "cursor",  how |-> "merge"] >>

Steps == 1..Len(Plan)
Files == {Plan[i].file : i \in Steps}
Shared == {Plan[i].file : i \in {j \in Steps : Plan[j].how = "merge"}}
Keys == {"colours", "dark", "cursor", "foreign"}
File == [Keys -> Nat]
Blank == [k \in Keys |-> 0]

CONSTANT Unreadable  \* the sets of files that may be beyond the parser

ASSUME ExportAssumption == Unreadable \subseteq SUBSET Shared

VARIABLES
  broken,      \* files that are no KConfig files: the parser raises
  disk,        \* the files
  step,        \* of the plan; 0 when the script does not run, past it when it tells
  hand,        \* what a merge has read: no file, or one
  look,        \* what the script read of appearance.json
  cursorLook,  \* what it read the second time, for the cursor
  apps,        \* the look that running applications were last told of
  theirs,      \* history: what others wrote last into a file
  trodden      \* history: files that somebody wrote while a merge had them in hand

exportVars == <<broken, disk, step, hand, look, cursorLook, apps, theirs, trodden>>

ExportTypes ==
    /\ broken \in Unreadable
    /\ disk \in [Files -> File]
    /\ step \in 0..Len(Plan) + 1
    /\ hand \subseteq File
    /\ look \in Nat /\ cursorLook \in Nat /\ apps \in Nat
    /\ theirs \in [Files -> Nat]
    /\ trodden \subseteq Shared

\* A desktop the shell has not exported to yet; the shared files have keys of
\* their own.
ExportInit ==
    /\ broken \in Unreadable
    /\ disk = [f \in Files |-> [Blank EXCEPT !["foreign"] = IF f \in Shared THEN 1 ELSE 0]]
    /\ step = 0 /\ hand = {} /\ look = 0 /\ cursorLook = 0 /\ apps = 0
    /\ theirs = [f \in Files |-> IF f \in Shared THEN 1 ELSE 0]
    /\ trodden = {}

\* main() starts: read_appearance().
ExportStarts(json) ==
    /\ step = 0
    /\ step' = 1 /\ look' = json
    /\ UNCHANGED <<broken, disk, hand, cursorLook, apps, theirs, trodden>>

Now == Plan[step]
Running == step \in Steps

\* What a key is set to.
Value == IF Now.key = "cursor" THEN cursorLook ELSE look

\* A file that is read as if it were empty.
MergeReads_slip(json) ==
    /\ Running /\ Now.how = "merge" /\ hand = {} /\ Now.file \notin broken
    /\ hand' = {Blank}
    /\ cursorLook' = IF Now.file = "kcminputrc" THEN json ELSE cursorLook
    /\ UNCHANGED <<broken, disk, step, look, apps, theirs, trodden>>

\* merge_ini() and write_gtk_settings(), first half.  Before the first cursor
\* file main() has read appearance.json again.
MergeReads(json) ==
    /\ Running /\ Now.how = "merge" /\ hand = {} /\ Now.file \notin broken
    /\ hand' = {disk[Now.file]}
    /\ cursorLook' = IF Now.file = "kcminputrc" THEN json ELSE cursorLook
    /\ UNCHANGED <<broken, disk, step, look, apps, theirs, trodden>>

\* The parser raises, and nobody catches it: what comes later is not written.
ReadRaises ==
    /\ Running /\ Now.how = "merge" /\ Now.file \in broken
    /\ step' = 0
    /\ UNCHANGED <<broken, disk, hand, look, cursorLook, apps, theirs, trodden>>

\* Second half: the keys are set, and the new file moved into place.
MergeMoves ==
    /\ Running
    /\ \E file \in hand : disk' = [disk EXCEPT ![Now.file] = [file EXCEPT ![Now.key] = Value]]
    /\ hand' = {}
    /\ step' = step + 1
    /\ UNCHANGED <<broken, look, cursorLook, apps, theirs, trodden>>

\* write_hyprlock_palette(), a file of its own moved into place, and
\* write_gsettings(), which sets a key.
Replaces ==
    /\ Running /\ Now.how = "replace"
    /\ disk' = [disk EXCEPT ![Now.file][Now.key] = Value]
    /\ step' = step + 1
    /\ UNCHANGED <<broken, hand, look, cursorLook, apps, theirs, trodden>>

\* write_scheme(): truncated, then written.
Overwrites ==
    /\ Running /\ Now.how = "overwrite"
    /\ \/ /\ disk[Now.file] # Blank
          /\ disk' = [disk EXCEPT ![Now.file] = Blank]
          /\ UNCHANGED step
       \/ /\ disk[Now.file] = Blank
          /\ disk' = [disk EXCEPT ![Now.file][Now.key] = Value]
          /\ step' = step + 1
    /\ UNCHANGED <<broken, hand, look, cursorLook, apps, theirs, trodden>>

\* notify(): a running application reads kdeglobals when it is told.
Notifies ==
    /\ step = Len(Plan) + 1
    /\ step' = 0
    /\ apps' = disk["kdeglobals"]["colours"]
    /\ UNCHANGED <<broken, disk, hand, look, cursorLook, theirs, trodden>>

\* A temporary file that is left behind is overwritten next time.
Killed ==
    /\ step' = 0 /\ hand' = {}
    /\ UNCHANGED <<broken, disk, look, cursorLook, apps, theirs, trodden>>

\* Another program sets a key of its own, the way KConfig does.
Foreign(f) ==
    /\ disk' = [disk EXCEPT ![f]["foreign"] = @ + 1]
    /\ theirs' = [theirs EXCEPT ![f] = disk[f]["foreign"] + 1]
    /\ trodden' = IF Running /\ hand # {} /\ Now.file = f THEN trodden \cup {f}
                  ELSE trodden \ {f}
    /\ UNCHANGED <<broken, step, hand, look, cursorLook, apps>>

Exporter(json) ==
    MergeReads(json) \/ ReadRaises \/ MergeMoves \/ Replaces \/ Overwrites \/ Notifies
=============================================================================
