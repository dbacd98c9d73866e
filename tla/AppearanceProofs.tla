-------------------------- MODULE AppearanceProofs --------------------------
(* Proofs about Appearance, for any set of pictures and any number of       *)
(* events: the exporter leaves other programs' keys alone, a desktop with   *)
(* nothing due has the shell's look, and the wallpaper is the one chosen    *)
(* last.  Each of the three has an invariant of its own; the types need the *)
(* third.                                                                   *)
EXTENDS Appearance, TLAPS

\* What the proofs use of Plan.
PlanFacts ==
    /\ Len(Plan) = 8 /\ Steps = 1..8
    /\ \A i \in Steps :
         /\ Plan[i].file \in Files /\ Plan[i].key \in Keys \ {"foreign"}
         /\ Plan[i].how = "merge" => Plan[i].file \in Shared
         /\ Plan[i].how = "overwrite" =>
              Plan[i].file \notin Shared /\ \A j \in Steps \ {i} : Plan[j].file # Plan[i].file
         /\ Plan[i].key = "cursor" <=> i \in {7, 8}
         /\ Plan[i].file = "kcminputrc" <=> i = 7
         /\ \A j \in Steps \ {i} : Plan[i].file # Plan[j].file \/ Plan[i].key # Plan[j].key
    /\ Plan[1].file = "kdeglobals" /\ Plan[1].key = "colours"
    /\ Plan[7].how = "merge" /\ Plan[8].how = "merge"
    /\ Shared \subseteq Files

LEMMA PlanIsGood == PlanFacts
<1>1. Len(Plan) = 8 /\ Steps = 1..8
  BY DEF Plan, Steps
<1>2. /\ Plan[1] = [file |-> "kdeglobals", key |-> "colours", how |-> "merge"]
      /\ Plan[2] = [file |-> "scheme", key |-> "colours", how |-> "overwrite"]
      /\ Plan[3] = [file |-> "settings.ini", key |-> "dark", how |-> "merge"]
      /\ Plan[4] = [file |-> "gsettings", key |-> "dark", how |-> "replace"]
      /\ Plan[5] = [file |-> "hyprlock", key |-> "colours", how |-> "replace"]
      /\ Plan[6] = [file |-> "imv", key |-> "colours", how |-> "merge"]
      /\ Plan[7] = [file |-> "kcminputrc", key |-> "cursor", how |-> "merge"]
      /\ Plan[8] = [file |-> "settings.ini", key |-> "cursor", how |-> "merge"]
  BY DEF Plan
<1>3. ASSUME NEW i \in Steps
      PROVE  \/ i = 1 \/ i = 2 \/ i = 3 \/ i = 4 \/ i = 5 \/ i = 6 \/ i = 7 \/ i = 8
  BY <1>1
<1>4. Shared = {Plan[1].file, Plan[3].file, Plan[6].file, Plan[7].file, Plan[8].file}
  BY <1>1, <1>2, <1>3 DEF Shared
<1>5. Shared \subseteq Files
  BY <1>1, <1>4 DEF Files
<1>6. \A i \in Steps : Plan[i].file \in Files /\ Plan[i].key \in Keys \ {"foreign"}
  BY <1>1, <1>2, <1>3 DEF Files, Keys
<1>7. \A i \in Steps : Plan[i].how = "merge" => Plan[i].file \in Shared
  BY DEF Shared
<1>8. \A i \in Steps : Plan[i].how = "overwrite" =>
        Plan[i].file \notin Shared /\ \A j \in Steps \ {i} : Plan[j].file # Plan[i].file
  BY <1>2, <1>3, <1>4
<1>9. \A i \in Steps :
        /\ Plan[i].key = "cursor" <=> i \in {7, 8}
        /\ Plan[i].file = "kcminputrc" <=> i = 7
  BY <1>2, <1>3
<1>10. \A i \in Steps : \A j \in Steps \ {i} :
         Plan[i].file # Plan[j].file \/ Plan[i].key # Plan[j].key
  <2> SUFFICES ASSUME NEW i \in Steps, NEW j \in Steps, i # j
               PROVE  Plan[i].file # Plan[j].file \/ Plan[i].key # Plan[j].key
    OBVIOUS
  <2> QED
    BY <1>2, <1>3
<1> QED
  BY <1>1, <1>2, <1>5, <1>6, <1>7, <1>8, <1>9, <1>10 DEF PlanFacts

-----------------------------------------------------------------------------
(* The exporter: what a run has written so far, and what it has in hand.    *)

\* Nothing is due: what appearance.json says has been read.
Fresh == ~export /\ ~changed

\* The script has read appearance.json for the cursor.
CursorRead == step \in {8, 9} \/ (step = 7 /\ hand # {})

\* A merge holds the file as it is, but for the keys of others.
HandGood ==
    hand # {} =>
      /\ step \in Steps /\ Plan[step].how = "merge" /\ Plan[step].file \notin broken
      /\ \A h \in hand : \A k \in Keys \ {"foreign"} : h[k] = disk[Plan[step].file][k]

\* What has been written in this run.
Written(n) == \A i \in Steps : i < n => disk[Plan[i].file][Plan[i].key] = json

ExportGood ==
    /\ HandGood
    /\ Fresh =>
         /\ step # 0 => look = json
         /\ CursorRead => cursorLook = json
         /\ Written(step)
         /\ step = 0 => Exported(json)

\* The keys of others, on disk and in hand.
OthersGood ==
    /\ OtherKeysKept
    /\ hand # {} =>
         /\ step \in Steps /\ Plan[step].how = "merge"
         /\ Plan[step].file \notin trodden =>
              \A h \in hand : h["foreign"] = theirs[Plan[step].file]

LEMMA MergeReadsKeeps ==
    ASSUME ExportTypes, json \in Nat, ExportGood, OthersGood, MergeReads(json),
           UNCHANGED <<json, export, changed>>
    PROVE  ExportTypes' /\ ExportGood' /\ OthersGood'
<1> USE PlanIsGood DEF PlanFacts, MergeReads, Now, Running
<1>1. ExportTypes'
  BY DEF ExportTypes
<1>2. HandGood'
  BY DEF ExportTypes, ExportGood, HandGood
<1>3. ASSUME Fresh' PROVE (step' # 0 => look' = json') /\ (CursorRead' => cursorLook' = json')
  BY <1>3 DEF ExportTypes, ExportGood, HandGood, Fresh, CursorRead
<1>4. ASSUME Fresh' PROVE Written(step)'
  BY <1>3, <1>4 DEF ExportTypes, ExportGood, HandGood, Fresh, CursorRead, Written
<1>5. ASSUME Fresh', step' = 0 PROVE Exported(json)'
  BY <1>5 DEF ExportTypes, ExportGood, Fresh, Exported, Reached, Written
<1>6. OthersGood'
  BY DEF ExportTypes, OthersGood, OtherKeysKept
<1> QED
  BY <1>1, <1>2, <1>3, <1>4, <1>5, <1>6 DEF ExportGood

LEMMA MergeMovesKeeps ==
    ASSUME ExportTypes, json \in Nat, ExportGood, OthersGood, MergeMoves,
           UNCHANGED <<json, export, changed>>
    PROVE  ExportTypes' /\ ExportGood' /\ OthersGood'
<1> USE PlanIsGood DEF PlanFacts, MergeMoves, Now, Running
<1>1. ExportTypes'
  BY DEF ExportTypes, Value, File
<1>2. HandGood'
  BY DEF ExportTypes, ExportGood, HandGood, Value, File
<1>3. ASSUME Fresh' PROVE (step' # 0 => look' = json') /\ (CursorRead' => cursorLook' = json')
  BY <1>3 DEF ExportTypes, ExportGood, HandGood, Fresh, CursorRead, Value, File
<1>4. ASSUME Fresh' PROVE Written(step)'
  BY <1>3, <1>4 DEF ExportTypes, ExportGood, HandGood, Fresh, CursorRead, Written, Value, File
<1>5. ASSUME Fresh', step' = 0 PROVE Exported(json)'
  BY <1>5 DEF ExportTypes, ExportGood, Fresh, Exported, Reached, Written, Value, File
<1>6. OthersGood'
  BY DEF ExportTypes, OthersGood, OtherKeysKept, Value, File
<1> QED
  BY <1>1, <1>2, <1>3, <1>4, <1>5, <1>6 DEF ExportGood

LEMMA ReplacesKeeps ==
    ASSUME ExportTypes, json \in Nat, ExportGood, OthersGood, Replaces,
           UNCHANGED <<json, export, changed>>
    PROVE  ExportTypes' /\ ExportGood' /\ OthersGood'
<1> USE PlanIsGood DEF PlanFacts, Replaces, Now, Running
<1>1. ExportTypes'
  BY DEF ExportTypes, Value, File
<1>2. HandGood'
  BY DEF ExportTypes, ExportGood, HandGood, Value, File
<1>3. ASSUME Fresh' PROVE (step' # 0 => look' = json') /\ (CursorRead' => cursorLook' = json')
  BY <1>3 DEF ExportTypes, ExportGood, HandGood, Fresh, CursorRead, Value, File
<1>4. ASSUME Fresh' PROVE Written(step)'
  BY <1>3, <1>4 DEF ExportTypes, ExportGood, HandGood, Fresh, CursorRead, Written, Value, File
<1>5. ASSUME Fresh', step' = 0 PROVE Exported(json)'
  BY <1>5 DEF ExportTypes, ExportGood, Fresh, Exported, Reached, Written, Value, File
<1>6. OthersGood'
  BY DEF ExportTypes, OthersGood, OtherKeysKept, Value, File
<1> QED
  BY <1>1, <1>2, <1>3, <1>4, <1>5, <1>6 DEF ExportGood

LEMMA OverwritesKeeps ==
    ASSUME ExportTypes, json \in Nat, ExportGood, OthersGood, Overwrites,
           UNCHANGED <<json, export, changed>>
    PROVE  ExportTypes' /\ ExportGood' /\ OthersGood'
<1> USE PlanIsGood DEF PlanFacts, Overwrites, Now, Running
<1>1. ExportTypes'
  <2>1. Blank \in File /\ Value \in Nat
    BY DEF ExportTypes, Value, File, Blank
  <2> HIDE DEF Value
  <2>2. CASE disk' = [disk EXCEPT ![Plan[step].file] = Blank]
    BY <2>1, <2>2 DEF ExportTypes
  <2>3. CASE disk' = [disk EXCEPT ![Plan[step].file][Plan[step].key] = Value]
    <3>1. disk[Plan[step].file] \in File
      BY DEF ExportTypes
    <3>2. [disk[Plan[step].file] EXCEPT ![Plan[step].key] = Value] \in File
      BY <2>1, <3>1 DEF File
    <3>3. disk' \in [Files -> File]
      BY <2>3, <3>2 DEF ExportTypes
    <3> QED
      BY <3>3 DEF ExportTypes
  <2> QED
    BY <2>2, <2>3
<1>2. HandGood'
  BY DEF ExportTypes, ExportGood, HandGood, Value, File, Blank
<1>3. ASSUME Fresh' PROVE (step' # 0 => look' = json') /\ (CursorRead' => cursorLook' = json')
  BY <1>3 DEF ExportTypes, ExportGood, HandGood, Fresh, CursorRead, Value, File, Blank
<1>4. ASSUME Fresh' PROVE Written(step)'
  BY <1>3, <1>4 DEF ExportTypes, ExportGood, HandGood, Fresh, CursorRead, Written, Value, File, Blank
<1>5. ASSUME Fresh', step' = 0 PROVE Exported(json)'
  BY <1>5 DEF ExportTypes, ExportGood, Fresh, Exported, Reached, Written, Value, File, Blank
<1>6. OthersGood'
  <2>1. \A f \in Shared : disk'[f] = disk[f]
    BY DEF ExportTypes
  <2>2. hand = {}
    BY DEF ExportGood, HandGood
  <2> QED
    BY <2>1, <2>2 DEF OthersGood, OtherKeysKept
<1> QED
  BY <1>1, <1>2, <1>3, <1>4, <1>5, <1>6 DEF ExportGood

LEMMA NotifiesKeeps ==
    ASSUME ExportTypes, json \in Nat, ExportGood, OthersGood, Notifies,
           UNCHANGED <<json, export, changed>>
    PROVE  ExportTypes' /\ ExportGood' /\ OthersGood'
<1> USE PlanIsGood DEF PlanFacts, Notifies
<1>1. ExportTypes'
  BY DEF ExportTypes, File
<1>2. HandGood'
  BY DEF ExportTypes, ExportGood, HandGood
<1>3. ASSUME Fresh' PROVE (step' # 0 => look' = json') /\ (CursorRead' => cursorLook' = json')
  BY <1>3 DEF ExportTypes, ExportGood, HandGood, Fresh, CursorRead
<1>4. ASSUME Fresh' PROVE Written(step)'
  BY <1>3, <1>4 DEF ExportTypes, ExportGood, HandGood, Fresh, CursorRead, Written
<1>5. ASSUME Fresh', step' = 0 PROVE Exported(json)'
  BY <1>5 DEF ExportTypes, ExportGood, Fresh, Exported, Reached, Written
<1>6. OthersGood'
  BY DEF ExportTypes, OthersGood, OtherKeysKept
<1> QED
  BY <1>1, <1>2, <1>3, <1>4, <1>5, <1>6 DEF ExportGood

LEMMA ReadRaisesKeeps ==
    ASSUME ExportTypes, json \in Nat, ExportGood, OthersGood, ReadRaises,
           UNCHANGED <<json, export, changed>>
    PROVE  ExportTypes' /\ ExportGood' /\ OthersGood'
<1> USE PlanIsGood DEF PlanFacts, ReadRaises, Now, Running
<1>1. ExportTypes'
  BY DEF ExportTypes
<1>2. hand = {}
  BY DEF ExportGood, HandGood
<1>3. HandGood' /\ OthersGood'
  BY <1>2 DEF HandGood, OthersGood, OtherKeysKept
<1>4. ASSUME Fresh' PROVE Exported(json)'
  <2>1. \A i \in Steps : Reached(i) => i < step
    BY DEF Reached, ExportTypes
  <2> QED
    BY <1>4, <2>1 DEF ExportGood, Fresh, Written, Exported, Reached
<1> QED
  BY <1>1, <1>2, <1>3, <1>4 DEF ExportGood, Fresh, CursorRead, Written

LEMMA ExporterKeeps ==
    ASSUME ExportTypes, json \in Nat, ExportGood, OthersGood, Exporter(json),
           UNCHANGED <<json, export, changed>>
    PROVE  ExportTypes' /\ ExportGood' /\ OthersGood'
  BY MergeReadsKeeps, ReadRaisesKeeps, MergeMovesKeeps, ReplacesKeeps, OverwritesKeeps, NotifiesKeeps
     DEF Exporter

\* A key of another program is not one of ours.
LEMMA ForeignKeeps ==
    ASSUME ExportTypes, json \in Nat, ExportGood, OthersGood, NEW f \in Shared, Foreign(f),
           UNCHANGED <<json, export, changed>>
    PROVE  ExportTypes' /\ ExportGood' /\ OthersGood'
<1> USE PlanIsGood DEF PlanFacts, Foreign
<1>1. ExportTypes'
  BY DEF ExportTypes, File, Keys
<1>2. HandGood'
  BY DEF ExportTypes, ExportGood, HandGood, File
<1>3. ASSUME Fresh' PROVE (step' # 0 => look' = json') /\ (CursorRead' => cursorLook' = json')
  BY <1>3 DEF ExportTypes, ExportGood, Fresh, CursorRead
<1>4. ASSUME Fresh' PROVE Written(step)'
  BY <1>4 DEF ExportTypes, ExportGood, Fresh, Written, File
<1>5. ASSUME Fresh', step' = 0 PROVE Exported(json)'
  BY <1>5 DEF ExportTypes, ExportGood, Fresh, Exported, Reached, File
<1>6. OthersGood'
  BY DEF ExportTypes, OthersGood, OtherKeysKept, File, Keys, Now, Running
<1> QED
  BY <1>1, <1>2, <1>3, <1>4, <1>5, <1>6 DEF ExportGood

\* A run starts with the look that is due.
LEMMA ExportStartsKeeps ==
    ASSUME ExportTypes, json \in Nat, ExportGood, OthersGood, ExportStarts(json),
           UNCHANGED <<json, changed>>
    PROVE  ExportTypes' /\ ExportGood' /\ OthersGood'
<1> USE PlanIsGood DEF PlanFacts, ExportStarts
<1>1. ExportTypes'
  BY DEF ExportTypes
<1>2. ExportGood'
  BY DEF ExportTypes, ExportGood, HandGood, Fresh, CursorRead, Written
<1>3. OthersGood'
  BY DEF ExportTypes, OthersGood, OtherKeysKept, HandGood, ExportGood
<1> QED
  BY <1>1, <1>2, <1>3

\* A run that is killed is repeated.
LEMMA KilledKeeps ==
    ASSUME ExportTypes, ExportGood, OthersGood, Killed, export'
    PROVE  ExportTypes' /\ ExportGood' /\ OthersGood'
<1> USE PlanIsGood DEF PlanFacts, Killed
<1>1. ExportTypes'
  BY DEF ExportTypes, File
<1>2. ExportGood' /\ OthersGood'
  BY DEF ExportTypes, ExportGood, OthersGood, OtherKeysKept, HandGood, Fresh
<1> QED
  BY <1>1, <1>2

\* Nothing of the exporter moves, and nothing becomes fresh.
LEMMA ExportStays ==
    ASSUME ExportTypes, ExportGood, OthersGood, UNCHANGED exportVars,
           (UNCHANGED <<json, export, changed>>) \/ export' \/ changed'
    PROVE  ExportTypes' /\ ExportGood' /\ OthersGood'
<1> USE DEF exportVars
<1>1. ExportTypes'
  BY DEF ExportTypes
<1>2. HandGood' /\ OthersGood'
  BY DEF ExportGood, HandGood, OthersGood, OtherKeysKept
<1>3. ExportGood'
  BY <1>2 DEF ExportGood, Fresh, CursorRead, Written, Exported, Reached
<1> QED
  BY <1>1, <1>2, <1>3

-----------------------------------------------------------------------------
(* The wallpaper: a dialog that is open, and a pick that is on its way.     *)

ChooserGood ==
    /\ helper = "off" => request = "none" /\ ~response
    /\ helper = "ended" => request = "closed" /\ ~response
    /\ response => request = "closed"
    /\ reply = "error" => request = "closed" /\ ~response
    /\ helper = "ended" /\ out.code = 0 => out.path \in Pictures

\* The person's last word is the pick, or the wallpaper.
LastWord ==
    /\ response /\ answer \in Pictures => choice = answer
    /\ helper = "ended" /\ out.code = 0 => choice = out.path
    /\ ChoiceHolds

IInv == TypeOK /\ ExportGood /\ OthersGood /\ ChooserGood /\ LastWord

\* TypeOK by its parts.
DialogTypes ==
    /\ helper \in {"off", "calling", "waiting", "ended"}
    /\ request \in {"none", "called", "open", "closed", "lost"}
    /\ reply \in {"none", "handle", "error"}
    /\ answer \in Answers
    /\ out \in [code : 0..2, path : Answers]

StoreTypes ==
    /\ json \in Nat /\ events \in Nat
    /\ wallpaper \in Pictures /\ choice \in Pictures
    /\ screen \in Pictures \cup {None} /\ paper \in Pictures \cup {None}

Flags ==
    /\ ours \in BOOLEAN /\ heard \in BOOLEAN /\ response \in BOOLEAN
    /\ changed \in BOOLEAN /\ export \in BOOLEAN /\ push \in BOOLEAN /\ missed \in BOOLEAN

LEMMA TypeParts == TypeOK <=> ExportTypes /\ DialogTypes /\ StoreTypes /\ Flags
  BY Zenon DEF TypeOK, ChooserTypes, DialogTypes, StoreTypes, Flags

LEMMA Initially == Init => IInv
<1> SUFFICES ASSUME Init PROVE IInv
  OBVIOUS
<1> USE PlanIsGood, AppearanceAssumption DEF PlanFacts
<1>1. ExportTypes
  <2>1. Blank \in File /\ \A f \in Files : [Blank EXCEPT !["foreign"] = 1] \in File
    BY DEF Blank, File, Keys
  <2>2. \A f \in Files : disk[f] \in File
    BY DEF Init, ExportInit, Blank, File, Keys
  <2> QED
    BY <2>2 DEF Init, ExportInit, ExportTypes
<1>2. DialogTypes /\ StoreTypes
  BY DEF Init, ChooserInit, DialogTypes, StoreTypes, Answers, Silent
<1>6. Flags
  BY Zenon DEF Init, ExportInit, ChooserInit, Flags
<1>3. ExportGood
  BY DEF Init, ExportInit, ExportGood, HandGood, Fresh
<1>4. OthersGood
  BY DEF Init, ExportInit, OthersGood, OtherKeysKept, Blank, Keys
<1>5. ChooserGood /\ LastWord
  BY DEF Init, ChooserInit, ChooserGood, LastWord, ChoiceHolds, Silent
<1> QED
  BY <1>1, <1>2, <1>3, <1>4, <1>5, <1>6, TypeParts DEF IInv

\* The chooser, whatever the exporter does.
LEMMA ChooserGoesOnKeeps ==
    ASSUME DialogTypes, StoreTypes, ChooserGood, LastWord, ChooserGoesOn
    PROVE  DialogTypes' /\ StoreTypes' /\ ChooserGood' /\ LastWord'
<1> USE AppearanceAssumption DEF ChooserGoesOn, shellVars
<1>1. StoreTypes'
  BY DEF StoreTypes
<1>2. CASE PortalOpens
  BY <1>2 DEF PortalOpens, DialogTypes, ChooserGood, LastWord, ChoiceHolds, PickUnderWay,
              StoreTypes
<1>3. CASE Replied
  <2> USE <1>3 DEF Replied, Ends
  <2>1. DialogTypes'
    BY DEF DialogTypes, Answers
  <2>2. ChooserGood'
    BY DEF ChooserGood
  <2>3. LastWord'
    BY DEF ChooserGood, LastWord, ChoiceHolds, PickUnderWay
  <2> QED
    BY <1>1, <2>1, <2>2, <2>3
<1>4. CASE OnResponse
  BY <1>4 DEF OnResponse, Ends, DialogTypes, ChooserGood, LastWord, ChoiceHolds, PickUnderWay,
              StoreTypes, Answers
<1> QED
  BY <1>1, <1>2, <1>3, <1>4 DEF Helper

LEMMA DialogAnsweredKeeps ==
    ASSUME DialogTypes, StoreTypes, ChooserGood, LastWord, DialogAnswered
    PROVE  DialogTypes' /\ StoreTypes' /\ ChooserGood' /\ LastWord'
<1> USE AppearanceAssumption DEF DialogAnswered, DialogEnds
<1>1. DialogTypes'
  BY DEF DialogTypes
<1>2. StoreTypes'
  BY DEF StoreTypes
<1>3. ChooserGood'
  BY DEF DialogTypes, ChooserGood
<1>4. LastWord'
  BY DEF DialogTypes, ChooserGood, LastWord, ChoiceHolds, PickUnderWay
<1> QED
  BY <1>1, <1>2, <1>3, <1>4

LEMMA ChooserExitsKeeps ==
    ASSUME DialogTypes, StoreTypes, ChooserGood, LastWord, ChooserExits
    PROVE  DialogTypes' /\ StoreTypes' /\ ChooserGood' /\ LastWord'
<1> USE AppearanceAssumption DEF ChooserExits, Reaped, Silent
<1>1. DialogTypes'
  BY DEF DialogTypes, Answers
<1>2. StoreTypes'
  BY DEF StoreTypes, ChooserGood
<1>3. ChooserGood' /\ LastWord'
  BY DEF ChooserGood, LastWord, ChoiceHolds, PickUnderWay
<1> QED
  BY <1>1, <1>2, <1>3

LEMMA BrowseKeeps ==
    ASSUME DialogTypes, StoreTypes, ChooserGood, LastWord, Browse
    PROVE  DialogTypes' /\ StoreTypes' /\ ChooserGood' /\ LastWord'
<1> USE AppearanceAssumption DEF Browse, Choose, Silent, Happens, shellVars
<1>1. StoreTypes'
  BY DEF StoreTypes
<1>2. DialogTypes'
  BY DEF DialogTypes, Answers
<1>3. ChooserGood' /\ LastWord'
  BY DEF ChooserGood, LastWord, ChoiceHolds, PickUnderWay
<1> QED
  BY <1>1, <1>2, <1>3

LEMMA PortalGoesKeeps ==
    ASSUME DialogTypes, StoreTypes, ChooserGood, LastWord, PortalGoes
    PROVE  DialogTypes' /\ StoreTypes' /\ ChooserGood' /\ LastWord'
<1> USE AppearanceAssumption DEF PortalGoes, PortalLost, Happens, shellVars
<1>1. StoreTypes'
  BY DEF StoreTypes
<1>2. DialogTypes'
  BY DEF DialogTypes
<1>3. ChooserGood' /\ LastWord'
  BY DEF ChooserGood, LastWord, ChoiceHolds, PickUnderWay
<1> QED
  BY <1>1, <1>2, <1>3

LEMMA ShellRestartsKeeps ==
    ASSUME DialogTypes, StoreTypes, ChooserGood, LastWord, ShellRestarts
    PROVE  DialogTypes' /\ StoreTypes' /\ ChooserGood' /\ LastWord'
<1> USE AppearanceAssumption DEF ShellRestarts, Reaped, Silent, Happens
<1>1. DialogTypes'
  BY DEF DialogTypes, Answers
<1>2. StoreTypes'
  BY DEF StoreTypes
<1>3. ChooserGood' /\ LastWord'
  BY DEF ChooserGood, LastWord, ChoiceHolds, PickUnderWay
<1> QED
  BY <1>1, <1>2, <1>3

\* The dialog does not see the rest of the store.
LEMMA DialogStays ==
    ASSUME DialogTypes, ChooserGood, UNCHANGED chooserVars
    PROVE  DialogTypes' /\ ChooserGood'
  BY DEF DialogTypes, ChooserGood, chooserVars

LEMMA WallpaperSetKeeps ==
    ASSUME DialogTypes, StoreTypes, ChooserGood, LastWord, WallpaperSet
    PROVE  DialogTypes' /\ StoreTypes' /\ ChooserGood' /\ LastWord'
<1> USE DEF WallpaperSet, Happens
<1>1. StoreTypes'
  BY DEF StoreTypes
<1>2. LastWord'
  BY DEF chooserVars, ChooserGood, LastWord, ChoiceHolds, PickUnderWay
<1> QED
  BY <1>1, <1>2, DialogStays

\* What chooses nothing.
LEMMA OthersKeep ==
    ASSUME DialogTypes, StoreTypes, ChooserGood, LastWord,
           UNCHANGED <<chooserVars, wallpaper, choice>>, json' \in Nat, events' \in Nat,
           screen' \in Pictures \cup {None}, paper' \in Pictures \cup {None}
    PROVE  DialogTypes' /\ StoreTypes' /\ ChooserGood' /\ LastWord'
<1>1. StoreTypes'
  BY DEF StoreTypes
<1>2. LastWord'
  BY DEF chooserVars, LastWord, ChoiceHolds, PickUnderWay
<1> QED
  BY <1>1, <1>2, DialogStays

LEMMA FlagsKeep == Flags /\ [Next]_vars => Flags'
<1> SUFFICES ASSUME Flags, [Next]_vars PROVE Flags'
  OBVIOUS
<1> USE DEF Flags, shellVars, chooserVars
<1>1. CASE LookChanges \/ Reloads \/ ExportDue \/ ExportGoesOn \/ OthersWrite
  BY <1>1, Zenon DEF LookChanges, Reloads, ExportDue, ExportGoesOn, OthersWrite
<1>2. CASE WallpaperSet \/ PushDue \/ PaperDone
  BY <1>2, Zenon DEF WallpaperSet, PushDue, PaperDone
<1>3. CASE Browse \/ DialogAnswered \/ PortalGoes
  BY <1>3, Zenon DEF Browse, Choose, DialogAnswered, DialogEnds, PortalGoes, PortalLost
<1>4. CASE ChooserGoesOn
  BY <1>4, Zenon DEF ChooserGoesOn, PortalOpens, Helper, Replied, OnResponse
<1>5. CASE ChooserExits
  BY <1>5, Zenon DEF ChooserExits, Reaped
<1>6. CASE ShellRestarts
  BY <1>6, Zenon DEF ShellRestarts, Reaped
<1>7. CASE UNCHANGED vars
  BY <1>7, Zenon DEF vars
<1> QED
  BY <1>1, <1>2, <1>3, <1>4, <1>5, <1>6, <1>7, Zenon DEF Next

-----------------------------------------------------------------------------
LEMMA StepsKeep == IInv /\ [Next]_vars => IInv'
<1> SUFFICES ASSUME IInv, [Next]_vars PROVE IInv'
  OBVIOUS
<1>1. ExportTypes /\ DialogTypes /\ StoreTypes /\ ExportGood /\ OthersGood /\ ChooserGood
        /\ LastWord /\ json \in Nat /\ Flags
  BY TypeParts DEF IInv, StoreTypes
<1>2. ExportTypes' /\ ExportGood' /\ OthersGood'
  <2>1. CASE LookChanges
    BY <1>1, <2>1, ExportStays DEF LookChanges
  <2>2. CASE Reloads
    BY <1>1, <2>2, ExportStays DEF Reloads
  <2>3. CASE ExportDue
    BY <1>1, <2>3, ExportStartsKeeps DEF ExportDue
  <2>4. CASE ExportGoesOn
    BY <1>1, <2>4, ExporterKeeps DEF ExportGoesOn, shellVars
  <2>5. CASE OthersWrite
    BY <1>1, <2>5, ForeignKeeps DEF OthersWrite, shellVars
  <2>6. CASE WallpaperSet
    BY <1>1, <2>6, ExportStays DEF WallpaperSet
  <2>7. CASE PushDue \/ PaperDone
    BY <1>1, <2>7, ExportStays DEF PushDue, PaperDone
  <2>8. CASE Browse \/ DialogAnswered \/ PortalGoes \/ ChooserGoesOn
    BY <1>1, <2>8, ExportStays DEF Browse, DialogAnswered, PortalGoes, ChooserGoesOn, shellVars
  <2>9. CASE ChooserExits
    BY <1>1, <2>9, ExportStays DEF ChooserExits
  <2>10. CASE ShellRestarts
    BY <1>1, <2>10, KilledKeeps DEF ShellRestarts
  <2>11. CASE UNCHANGED vars
    BY <1>1, <2>11, ExportStays DEF vars, shellVars
  <2> QED
    BY <2>1, <2>2, <2>3, <2>4, <2>5, <2>6, <2>7, <2>8, <2>9, <2>10, <2>11 DEF Next
<1>3. DialogTypes' /\ StoreTypes' /\ ChooserGood' /\ LastWord'
  <2> USE <1>1 DEF StoreTypes, Happens, shellVars
  <2>1. CASE LookChanges
    BY <2>1, OthersKeep DEF LookChanges
  <2>2. CASE Reloads
    BY <2>2, OthersKeep DEF Reloads
  <2>3. CASE ExportDue
    BY <2>3, OthersKeep DEF ExportDue
  <2>4. CASE ExportGoesOn
    BY <2>4, OthersKeep DEF ExportGoesOn
  <2>5. CASE OthersWrite
    BY <2>5, OthersKeep DEF OthersWrite
  <2>6. CASE PushDue
    BY <2>6, OthersKeep DEF PushDue
  <2>7. CASE PaperDone
    BY <2>7, OthersKeep DEF PaperDone
  <2>8. CASE UNCHANGED vars
    BY <2>8, OthersKeep DEF vars
  <2> HIDE DEF StoreTypes
  <2> QED
    BY <2>1, <2>2, <2>3, <2>4, <2>5, <2>6, <2>7, <2>8, WallpaperSetKeeps, ChooserGoesOnKeeps,
       DialogAnsweredKeeps, ChooserExitsKeeps, BrowseKeeps, PortalGoesKeeps,
       ShellRestartsKeeps DEF Next
<1>4. Flags'
  BY <1>1, FlagsKeep
<1>5. TypeOK'
  BY <1>2, <1>3, <1>4, Zenon DEF TypeOK, ChooserTypes, DialogTypes, StoreTypes, Flags
<1> QED
  BY <1>2, <1>3, <1>5 DEF IInv

\* The strengthening is an invariant.
THEOREM Invariance == Spec => []IInv
  BY Initially, StepsKeep, PTL DEF Spec

\* Every variable keeps its type; the wallpaper is always a picture, whatever
\* the dialog ends with (onExited).
THEOREM TypeCorrect == Spec => []TypeOK
<1>1. IInv => TypeOK
  BY DEF IInv
<1> QED
  BY <1>1, Invariance, PTL

\* merge_ini() leaves the keys of others alone, for any number of exports that
\* are killed anywhere, unless somebody writes between its read and its move.
THEOREM OthersAreLeftAlone == Spec => []OtherKeysKept
<1>1. IInv => OtherKeysKept
  BY DEF IInv, OthersGood
<1> QED
  BY <1>1, Invariance, PTL

\* When nothing is due, every file and every running application has the
\* shell's look (desktopExport and main()).
THEOREM QuietDesktopIsExported == Spec => []QuietIsExported
<1>1. IInv => QuietIsExported
  BY DEF IInv, ExportGood, QuietIsExported, Fresh
<1> QED
  BY <1>1, Invariance, PTL

\* The wallpaper is the one chosen last, in the settings or in the dialog.
THEOREM ChoiceIsKept == Spec => []ChoiceHolds
<1>1. IInv => ChoiceHolds
  BY DEF IInv, LastWord
<1> QED
  BY <1>1, Invariance, PTL

-----------------------------------------------------------------------------
(* What is under way: the wallpaper that hyprpaper does not have yet, and   *)
(* the answer that the helper has not heard yet.                            *)

\* A wallpaper that is not on the screen is due, or on its way, or has been
\* missed.
PaperUnderWay ==
    \/ push \/ missed
    \/ paper # None /\ paper = wallpaper
    \/ paper = None /\ screen = wallpaper

\* The portal answers a call that has not returned; with a path of its choice
\* that is the helper's too, the helper listens before there is an answer.
Listening ==
    /\ request = "called" => helper = "calling" /\ reply = "none"
    /\ ours /\ helper \in {"calling", "waiting"} => heard
    /\ AnswerIsInHand

Underway == PaperUnderWay /\ Listening

LEMMA PaperMoves ==
    ASSUME StoreTypes, PaperUnderWay, [Next]_vars
    PROVE  PaperUnderWay'
<1> USE AppearanceAssumption DEF PaperUnderWay, StoreTypes, shellVars
<1>1. CASE UNCHANGED <<wallpaper, push, missed, paper, screen>>
  BY <1>1
<1>2. CASE LookChanges \/ Reloads \/ ExportDue \/ ExportGoesOn \/ OthersWrite
  BY <1>1, <1>2, Zenon DEF LookChanges, Reloads, ExportDue, ExportGoesOn, OthersWrite
<1>3. CASE Browse \/ DialogAnswered \/ PortalGoes \/ ChooserGoesOn
  BY <1>1, <1>3, Zenon DEF Browse, DialogAnswered, PortalGoes, ChooserGoesOn
<1>4. CASE WallpaperSet
  BY <1>4 DEF WallpaperSet
<1>5. CASE PushDue
  BY <1>5 DEF PushDue
<1>6. CASE PaperDone
  BY <1>6 DEF PaperDone
<1>7. CASE ChooserExits
  BY <1>7 DEF ChooserExits
<1>8. CASE ShellRestarts
  BY <1>8 DEF ShellRestarts
<1>9. CASE UNCHANGED vars
  BY <1>1, <1>9, Zenon DEF vars
<1> QED
  BY <1>2, <1>3, <1>4, <1>5, <1>6, <1>7, <1>8, <1>9 DEF Next

LEMMA ChooserListens ==
    ASSUME DialogTypes, ChooserGood, Listening, UNCHANGED chooserVars \/ Choose \/ DialogEnds
               \/ PortalLost \/ PortalOpens \/ Replied \/ OnResponse \/ Reaped
    PROVE  Listening'
<1> USE DEF Listening, AnswerIsInHand
<1>1. CASE UNCHANGED chooserVars
  BY <1>1 DEF chooserVars
<1>2. CASE Choose \/ Reaped
  BY <1>2 DEF Choose, Reaped
<1>3. CASE DialogEnds
  BY <1>3 DEF DialogEnds, DialogTypes
<1>4. CASE PortalLost \/ PortalOpens
  BY <1>4 DEF PortalLost, PortalOpens
<1>5. CASE Replied
  BY <1>5 DEF Replied, Ends, DialogTypes, ChooserGood
<1>6. CASE OnResponse
  BY <1>6 DEF OnResponse, Ends
<1> QED
  BY <1>1, <1>2, <1>3, <1>4, <1>5, <1>6

LEMMA ChooserSteps ==
    ASSUME [Next]_vars
    PROVE  UNCHANGED chooserVars \/ Choose \/ DialogEnds
               \/ PortalLost \/ PortalOpens \/ Replied \/ OnResponse \/ Reaped
  BY Zenon DEF Next, vars, LookChanges, Reloads, ExportDue, ExportGoesOn, OthersWrite,
               WallpaperSet, PushDue, PaperDone, Browse, DialogAnswered, PortalGoes,
               ChooserGoesOn, Helper, ChooserExits, ShellRestarts

LEMMA UnderwayHolds == Spec => []Underway
<1>1. Init => Underway
  <2> SUFFICES ASSUME Init PROVE Underway
    OBVIOUS
  <2>1. PaperUnderWay
    BY DEF Init, PaperUnderWay
  <2>2. Listening
    BY DEF Init, ChooserInit, Listening, AnswerIsInHand
  <2> QED
    BY <2>1, <2>2 DEF Underway
<1>2. IInv /\ Underway /\ [Next]_vars => Underway'
  <2> SUFFICES ASSUME IInv, Underway, [Next]_vars PROVE Underway'
    OBVIOUS
  <2>1. StoreTypes /\ DialogTypes /\ ChooserGood
    BY TypeParts DEF IInv
  <2>2. PaperUnderWay'
    BY <2>1, PaperMoves DEF Underway
  <2>3. Listening'
    BY <2>1, ChooserSteps, ChooserListens DEF Underway
  <2> QED
    BY <2>2, <2>3 DEF Underway
<1> QED
  BY <1>1, <1>2, Invariance, PTL DEF Spec

\* The screen has the wallpaper whenever nothing is due or on its way: what a
\* later push does not find is only what came due during an earlier one.
THEOREM QuietDesktopIsDrawn == Spec => []QuietIsDrawn
<1>1. Underway => QuietIsDrawn
  BY DEF Underway, PaperUnderWay, QuietIsDrawn
<1> QED
  BY <1>1, UnderwayHolds, PTL

\* The helper that still waits for an answer that was given has it in its queue.
THEOREM AnswersAreHeard == Spec => []AnswerIsInHand
<1>1. Underway => AnswerIsInHand
  BY DEF Underway, Listening
<1> QED
  BY <1>1, UnderwayHolds, PTL
=============================================================================
