---------------------------- MODULE Appearance ----------------------------
(* Services/AppearanceStore.qml with the two scripts it runs.  Every change *)
(* of the look or of the wallpaper is in appearance.json; a timer that      *)
(* coalesces changes runs the exporter, another sends the wallpaper to      *)
(* hyprpaper, and the file chooser is one way to choose it.                 *)
(*                                                                          *)
(* The shell's own copy of appearance.json and the file are one variable    *)
(* here: FileView saves at once and tells of it later.  The geometry that   *)
(* is evaluated in the compositor (applyNow) is left out.                   *)
EXTENDS ThemeExport, FileChooser

CONSTANTS MaxEvents  \* bound on what people, other programs and failures do

ASSUME AppearanceAssumption ==
    /\ None \notin Pictures /\ Elsewhere \notin Pictures \cup {None}
    /\ Pictures # {} /\ MaxEvents \in Nat

VARIABLES
  json,       \* appearance.json: the look, by its number
  wallpaper,  \* and the wallpaper
  changed,    \* the file has changed and FileView has not reloaded it
  export,     \* desktopExport.running
  push,       \* wallpaperApply.running
  paper,      \* what the running hyprctl sends to hyprpaper, or None
  screen,     \* what hyprpaper draws
  choice,     \* history: what the person chose last
  missed,     \* history: a wallpaper came due while another was being sent
  events

shellVars == <<json, wallpaper, changed, export, push, paper, screen, choice, missed>>
vars == <<exportVars, chooserVars, shellVars, events>>

TypeOK ==
    /\ ExportTypes /\ ChooserTypes
    /\ json \in Nat
    /\ wallpaper \in Pictures /\ choice \in Pictures
    /\ screen \in Pictures \cup {None} /\ paper \in Pictures \cup {None}
    /\ changed \in BOOLEAN /\ export \in BOOLEAN /\ push \in BOOLEAN /\ missed \in BOOLEAN
    /\ events \in Nat

\* The store has been loaded: onLoaded and onWallpaperChanged.
Init ==
    /\ ExportInit /\ ChooserInit
    /\ json = 1 /\ wallpaper \in Pictures
    /\ changed = FALSE /\ export = TRUE /\ push = TRUE
    /\ paper = None /\ screen = None
    /\ choice = wallpaper /\ missed = FALSE
    /\ events = 0

Happens == events < MaxEvents /\ events' = events + 1

-----------------------------------------------------------------------------
(* The look, and its export.                                                *)

\* A settings page assigns to values, or somebody edits the file; the binding's
\* own handler runs in the first case.
LookChanges ==
    /\ Happens
    /\ json' = json + 1
    /\ changed' = TRUE
    /\ export' \in {export, TRUE}
    /\ UNCHANGED <<exportVars, chooserVars, wallpaper, push, paper, screen, choice, missed>>

\* onFileChanged and onLoaded.
Reloads ==
    /\ changed
    /\ changed' = FALSE
    /\ export' = TRUE
    /\ UNCHANGED <<exportVars, chooserVars, json, wallpaper, push, paper, screen, choice, missed,
                   events>>

\* A change that comes due while an export runs is dropped.
ExportDue_slip ==
    /\ export
    /\ export' = FALSE
    /\ IF step # 0 THEN UNCHANGED exportVars ELSE ExportStarts(json)
    /\ UNCHANGED <<chooserVars, json, wallpaper, changed, push, paper, screen, choice, missed,
                   events>>

\* desktopExport: put off while an export runs.
ExportDue ==
    /\ export /\ step = 0
    /\ export' = FALSE
    /\ ExportStarts(json)
    /\ UNCHANGED <<chooserVars, json, wallpaper, changed, push, paper, screen, choice, missed,
                   events>>

ExportGoesOn ==
    /\ Exporter(json)
    /\ UNCHANGED <<chooserVars, shellVars, events>>

OthersWrite ==
    /\ Happens
    /\ \E f \in Shared : Foreign(f)
    /\ UNCHANGED <<chooserVars, shellVars>>

-----------------------------------------------------------------------------
(* The wallpaper.                                                           *)

\* A pick that is on its way will be the last word.
PickUnderWay ==
    \/ response /\ answer \in Pictures
    \/ helper = "ended" /\ out.code = 0

\* A person sets it in the settings; onWallpaperChanged.
WallpaperSet ==
    /\ Happens
    /\ \E p \in Pictures \ {wallpaper} :
         /\ wallpaper' = p
         /\ choice' = IF PickUnderWay THEN choice ELSE p
    /\ changed' = TRUE /\ push' = TRUE
    /\ UNCHANGED <<exportVars, chooserVars, json, export, paper, screen, missed>>

\* wallpaperApply.
PushDue ==
    /\ push
    /\ push' = FALSE
    /\ \/ paper # None /\ missed' = TRUE /\ UNCHANGED paper
       \/ paper = None /\ paper' = wallpaper /\ missed' = FALSE
    /\ UNCHANGED <<exportVars, chooserVars, json, wallpaper, changed, export, screen, choice,
                   events>>

\* hyprpaper draws it and hyprctl exits.
PaperDone ==
    /\ paper # None
    /\ screen' = paper /\ paper' = None
    /\ UNCHANGED <<exportVars, chooserVars, json, wallpaper, changed, export, push, choice,
                   missed, events>>

\* browseWallpaper().
Browse ==
    /\ Happens
    /\ Choose
    /\ UNCHANGED <<exportVars, shellVars>>

\* The person answers the dialog.
DialogAnswered ==
    /\ DialogEnds
    /\ choice' = IF answer' \in Pictures /\ heard THEN answer' ELSE choice
    /\ UNCHANGED <<exportVars, json, wallpaper, changed, export, push, paper, screen, missed,
                   events>>

PortalGoes ==
    /\ Happens
    /\ PortalLost
    /\ UNCHANGED <<exportVars, shellVars>>

ChooserGoesOn ==
    /\ PortalOpens \/ Helper
    /\ UNCHANGED <<exportVars, shellVars, events>>

\* The exit status is not looked at.
ChooserExits_slip ==
    /\ helper = "ended"
    /\ Reaped
    /\ wallpaper' = out.path
    /\ changed' = TRUE /\ push' = TRUE
    /\ UNCHANGED <<exportVars, json, export, paper, screen, choice, missed, events>>

\* chooser.onExited: only status 0 carries a path.
ChooserExits ==
    /\ helper = "ended"
    /\ Reaped
    /\ \/ /\ out.code = 0 /\ out.path # wallpaper
          /\ wallpaper' = out.path
          /\ changed' = TRUE /\ push' = TRUE
       \/ /\ out.code # 0 \/ out.path = wallpaper
          /\ UNCHANGED <<wallpaper, changed, push>>
    /\ UNCHANGED <<exportVars, json, export, paper, screen, choice, missed, events>>

-----------------------------------------------------------------------------
\* The shell is restarted and its processes with it; then it loads the store.
ShellRestarts ==
    /\ Happens
    /\ Killed /\ Reaped
    /\ changed' = FALSE /\ export' = TRUE /\ push' = TRUE
    /\ paper' = None /\ choice' = wallpaper /\ missed' = FALSE
    /\ UNCHANGED <<json, wallpaper, screen>>

Next ==
    \/ LookChanges \/ Reloads \/ ExportDue \/ ExportGoesOn \/ OthersWrite
    \/ WallpaperSet \/ PushDue \/ PaperDone
    \/ Browse \/ DialogAnswered \/ PortalGoes \/ ChooserGoesOn \/ ChooserExits
    \/ ShellRestarts

Spec == Init /\ [][Next]_vars

(* Timers go off, processes go on, a file that changed is noticed.  Nobody  *)
(* has to change anything or to answer the dialog.                          *)
Fairness ==
    /\ WF_vars(Reloads) /\ WF_vars(ExportDue) /\ WF_vars(ExportGoesOn)
    /\ WF_vars(PushDue) /\ WF_vars(PaperDone)
    /\ WF_vars(ChooserGoesOn) /\ WF_vars(ChooserExits)

FairSpec == Spec /\ Fairness

-----------------------------------------------------------------------------
(* Properties.                                                              *)

\* "Set groups in a KConfig file, leaving every other key in it alone", however
\* often a run is killed, unless somebody wrote between the read and the move.
OtherKeysKept == \A f \in Shared \ trodden : disk[f]["foreign"] = theirs[f]

\* Every consumer has the look l that comes before a file that cannot be read.
Reached(i) == \A j \in Steps : j <= i => Plan[j].file \notin broken
Exported(l) ==
    /\ \A i \in Steps : Reached(i) => disk[Plan[i].file][Plan[i].key] = l
    /\ broken = {} => apps = l

\* When nothing is due the desktop has the shell's look, whatever changed or was
\* killed while it was being exported (desktopExport, main); a file that is no
\* KConfig file stops the export there.
QuietIsExported == step = 0 /\ ~export /\ ~changed => Exported(json)

\* Unless a pick is on its way the wallpaper is what was chosen last: a cancelled
\* dialog, a remote file and a portal that fails leave it (onExited), and so
\* does a dialog that is open while the settings page sets another.
ChoiceHolds == ~PickUnderWay => wallpaper = choice

\* When no push is due and none runs, the screen has the wallpaper, whatever was
\* set, picked or restarted meanwhile (wallpaperApply), unless it came due while
\* another was being sent.
QuietIsDrawn == ~push /\ paper = None /\ ~missed => screen = wallpaper

\* An answer that the person gave is never lost on a helper that still waits for
\* it, the dialog being closed even before OpenFile has returned (choose()).
AnswerIsInHand ==
    ours /\ helper \in {"calling", "waiting"} /\ request = "closed" =>
        response \/ (helper = "calling" /\ reply = "error")

\* A look in the end reaches everybody, and the wallpaper the screen, unless it
\* came due while another was sent.
DesktopFollows == <>[](Exported(json) /\ (missed \/ screen = wallpaper))

\* A dialog that was answered gives the button back, if the portal uses the
\* path the helper listens to first (request_path).
BrowseEnds == request = "closed" /\ ours ~> helper = "off"

\* A wallpaper in the end is drawn.
WallpaperFollows == <>[](screen = wallpaper)

\* "leaving every other key in it alone", whoever else writes.
OtherKeysAlwaysKept == \A f \in Shared : disk[f]["foreign"] = theirs[f]

\* The portal's own path is listened to "rather than assume".
AnyBrowseEnds == request = "closed" ~> helper = "off"
=============================================================================
