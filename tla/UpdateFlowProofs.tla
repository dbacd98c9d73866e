-------------------------- MODULE UpdateFlowProofs --------------------------
(* Proofs about UpdateFlow for every set of sources and number of releases. *)
EXTENDS UpdateFlow, TLAPS, FiniteSetTheorems

\* The shell has a run exactly while there is one, or its exit to be told of.
RunIsKnown == running <=> at # "off"

\* Past the dialog there is a session, alive or dead.
PastTheDialog == at \in {"between", "busy", "collecting"} => session \in {"open", "dead"}

\* A list of releases that names only what the machine does not have yet.
Fresh(list) == \A s \in Source : list[s] > 0 => list[s] > have[s]

\* With the dropdown's button alone, no run meets a dry run: whatever a dry
\* run has seen is still so when it tells it.
DropdownAlone ==
    ~FromWizard =>
        /\ wizard # "approve"
        /\ running => dry = "off"
        /\ dry \in {"looked", "told"} => Fresh(saw)
        /\ FreshVerdict

Rest == RunIsKnown /\ CheckingIsBacked /\ PastTheDialog /\ DropdownAlone

IInv == TypeOK /\ Rest

\* What a line of the pipe may be.
LEMMA LineKinds ==
    ASSUME NEW line \in Line
    PROVE  /\ line[1] = "phase" => line[2] \in Source /\ line[3] \in {"running", "done", "failed"}
           /\ line[1] = "done" => line[2] \in {"ok", "failed"}
  BY DEF Line

LEMMA InitHolds == Init => IInv
  <1> SUFFICES ASSUME Init
               PROVE  IInv
    OBVIOUS
  <1> USE UpdateAssumption
  <1>1. Flags
    BY Zenon DEF Init, Flags
  <1>2. Types
    BY DEF Init, Types, Nothing, Releases, Line
  <1>3. Rest
    BY DEF Init, Rest, RunIsKnown, CheckingIsBacked, PastTheDialog, DropdownAlone, FreshVerdict
  <1>4. QED
    BY <1>1, <1>2, <1>3 DEF IInv, TypeOK

LEMMA FlagsKeep == Flags /\ [Next]_vars => Flags'
  <1> SUFFICES ASSUME Flags, [Next]_vars
               PROVE  Flags'
    OBVIOUS
  <1> USE DEF Flags
  <1>1. CASE ArchUpdateCheck
    BY <1>1, Zenon DEF ArchUpdateCheck, Pending, vars, machine, dryVars, viewVars, runVars, c7upVars
  <1>2. CASE SessionDies
    BY <1>2, Zenon DEF SessionDies, vars, machine, dryVars, viewVars, runVars, c7upVars
  <1>3. CASE UpdateClicked
    BY <1>3, Zenon DEF UpdateClicked, Apply, vars, machine, dryVars, viewVars, runVars, c7upVars
  <1>4. CASE ReviewClicked
    BY <1>4, Zenon DEF ReviewClicked, vars, machine, dryVars, viewVars, runVars, c7upVars
  <1>5. CASE RetryClicked
    BY <1>5, Zenon DEF RetryClicked, vars, machine, dryVars, viewVars, runVars, c7upVars
  <1>6. CASE WizardUpdates
    BY <1>6, Zenon DEF WizardUpdates, Apply, vars, machine, dryVars, viewVars, runVars, c7upVars
  <1>7. CASE WizardCloses
    BY <1>7, Zenon DEF WizardCloses, vars, machine, dryVars, viewVars, runVars, c7upVars
  <1>8. CASE Abort
    BY <1>8, Zenon DEF Abort, Dies, Survives, vars, machine, dryVars, viewVars, runVars, c7upVars
  <1>9. CASE Check
    BY <1>9, Zenon DEF Check, Refresh, MayRefresh, vars, machine, dryVars, viewVars, runVars,
        c7upVars
  <1>10. CASE Look
    BY <1>10, Zenon DEF Look, Pending, vars, machine, dryVars, viewVars, runVars, c7upVars
  <1>11. CASE LookFails
    BY <1>11, Zenon DEF LookFails, vars, machine, dryVars, viewVars, runVars, c7upVars
  <1>12. CASE Tell
    BY <1>12, Zenon DEF Tell, vars, machine, dryVars, viewVars, runVars, c7upVars
  <1>13. CASE Count
    BY <1>13, Zenon DEF Count, C7upKeeps, Emit, vars, machine, dryVars, viewVars, runVars, c7upVars
  <1>14. CASE Granted
    BY <1>14, Zenon DEF Granted, C7upKeeps, Emit, vars, machine, dryVars, viewVars, runVars,
        c7upVars
  <1>15. CASE Refused
    BY <1>15, Zenon DEF Refused, C7upKeeps, Emit, vars, machine, dryVars, viewVars, runVars,
        c7upVars
  <1>16. CASE PhaseDone
    BY <1>16, Zenon DEF PhaseDone, C7upKeeps, Emit, vars, machine, dryVars, viewVars, runVars,
        c7upVars
  <1>17. CASE PhaseFailed
    BY <1>17, Zenon DEF PhaseFailed, C7upKeeps, Emit, vars, machine, dryVars, viewVars, runVars,
        c7upVars
  <1>18. CASE EndsFailed
    BY <1>18, Zenon DEF EndsFailed, C7upKeeps, Emit, vars, machine, dryVars, viewVars, runVars,
        c7upVars
  <1>19. CASE Collect
    BY <1>19, Zenon DEF Collect, C7upKeeps, vars, machine, dryVars, viewVars, runVars, c7upVars
  <1>20. CASE EndsWell
    BY <1>20, Zenon DEF EndsWell, C7upKeeps, Emit, vars, machine, dryVars, viewVars, runVars,
        c7upVars
  <1>21. CASE Tick
    BY <1>21, Zenon DEF Tick, Refresh, MayRefresh, vars, machine, dryVars, viewVars, runVars,
        c7upVars
  <1>22. CASE VerdictRead
    BY <1>22, Zenon DEF VerdictRead, vars, machine, dryVars, viewVars, runVars, c7upVars
  <1>23. CASE VerdictFailed
    BY <1>23, Zenon DEF VerdictFailed, vars, machine, dryVars, viewVars, runVars, c7upVars
  <1>24. CASE RunLine
    BY <1>24, Zenon DEF RunLine, vars, machine, dryVars, viewVars, runVars, c7upVars
  <1>25. CASE RunExited
    BY <1>25, Zenon DEF RunExited, Forget, Outcome, vars, machine, dryVars, viewVars, runVars,
        c7upVars
  <1>26. ASSUME NEW s \in Source, Publish(s) PROVE Flags'
    BY <1>26, Zenon DEF Publish, vars, machine, dryVars, viewVars, runVars, c7upVars
  <1>27. ASSUME NEW s \in Source, PhaseStarts(s) PROVE Flags'
    BY <1>27, Zenon DEF PhaseStarts, C7upKeeps, Emit, MayStart, vars, machine, dryVars,
        viewVars, runVars, c7upVars
  <1>28. CASE UNCHANGED vars
    BY <1>28, Zenon DEF vars, machine, dryVars, viewVars, runVars, c7upVars
  <1>29. QED
    BY <1>1, <1>2, <1>3, <1>4, <1>5, <1>6, <1>7, <1>8, <1>9, <1>10, <1>11, <1>12, <1>13, <1>14,
        <1>15, <1>16, <1>17, <1>18, <1>19, <1>20, <1>21, <1>22, <1>23, <1>24, <1>25, <1>26,
        <1>27, <1>28 DEF Next, World, User, DryRun, Run, Shell

LEMMA TypesKeep == TypeOK /\ [Next]_vars => Types'
  <1> SUFFICES ASSUME TypeOK, [Next]_vars
               PROVE  Types'
    OBVIOUS
  <1> USE UpdateAssumption DEF TypeOK, Types, Releases, Nothing, Line, Rank
  <1>1. CASE ArchUpdateCheck
    <2>1. files' \subseteq Source
      BY <1>1 DEF ArchUpdateCheck, Pending
    <2>2. QED
      BY <1>1, <2>1 DEF ArchUpdateCheck, machine, dryVars, viewVars, runVars, c7upVars
  <1>2. CASE SessionDies
    BY <1>2 DEF SessionDies, vars, machine, dryVars, viewVars, runVars, c7upVars
  <1>3. CASE UpdateClicked
    BY <1>3 DEF UpdateClicked, Apply, vars, machine, dryVars, viewVars, runVars, c7upVars
  <1>4. CASE ReviewClicked
    BY <1>4 DEF ReviewClicked, vars, machine, dryVars, viewVars, runVars, c7upVars
  <1>5. CASE RetryClicked
    BY <1>5 DEF RetryClicked, vars, machine, dryVars, viewVars, runVars, c7upVars
  <1>6. CASE WizardUpdates
    BY <1>6 DEF WizardUpdates, Apply, vars, machine, dryVars, viewVars, runVars, c7upVars
  <1>7. CASE WizardCloses
    BY <1>7 DEF WizardCloses, vars, machine, dryVars, viewVars, runVars, c7upVars
  <1>8. CASE Abort
    BY <1>8 DEF Abort, Dies, Survives, vars, machine, dryVars, viewVars, runVars, c7upVars
  <1>9. CASE Check
    BY <1>9 DEF Check, Refresh, MayRefresh, vars, machine, dryVars, viewVars, runVars, c7upVars
  <1>10. CASE Look
    BY <1>10 DEF Look, Pending, vars, machine, dryVars, viewVars, runVars, c7upVars
  <1>11. CASE LookFails
    BY <1>11 DEF LookFails, vars, machine, dryVars, viewVars, runVars, c7upVars
  <1>12. CASE Tell
    BY <1>12 DEF Tell, vars, machine, dryVars, viewVars, runVars, c7upVars
  <1>13. CASE Count
    BY <1>13 DEF Count, C7upKeeps, Emit, vars, machine, dryVars, viewVars, runVars, c7upVars
  <1>14. CASE Granted
    BY <1>14 DEF Granted, C7upKeeps, Emit, vars, machine, dryVars, viewVars, runVars, c7upVars
  <1>15. CASE Refused
    BY <1>15 DEF Refused, C7upKeeps, Emit, vars, machine, dryVars, viewVars, runVars, c7upVars
  <1>16. CASE PhaseDone
    BY <1>16 DEF PhaseDone, C7upKeeps, Emit, vars, machine, dryVars, viewVars, runVars, c7upVars
  <1>17. CASE PhaseFailed
    BY <1>17 DEF PhaseFailed, C7upKeeps, Emit, vars, machine, dryVars, viewVars, runVars, c7upVars
  <1>18. CASE EndsFailed
    BY <1>18 DEF EndsFailed, C7upKeeps, Emit, vars, machine, dryVars, viewVars, runVars, c7upVars
  <1>19. CASE Collect
    BY <1>19 DEF Collect, C7upKeeps, vars, machine, dryVars, viewVars, runVars, c7upVars
  <1>20. CASE EndsWell
    BY <1>20 DEF EndsWell, C7upKeeps, Emit, vars, machine, dryVars, viewVars, runVars, c7upVars
  <1>21. CASE Tick
    BY <1>21 DEF Tick, Refresh, MayRefresh, vars, machine, dryVars, viewVars, runVars, c7upVars
  <1>22. CASE VerdictRead
    BY <1>22 DEF VerdictRead, vars, machine, dryVars, viewVars, runVars, c7upVars
  <1>23. CASE VerdictFailed
    BY <1>23 DEF VerdictFailed, vars, machine, dryVars, viewVars, runVars, c7upVars
  <1>24. CASE RunLine
    <2>1. Head(pipe) \in Line /\ Tail(pipe) \in Seq(Line)
      BY <1>24 DEF RunLine
    <2> HIDE DEF Line
    <2> DEFINE line == Head(pipe)
    <2>2. /\ line[1] = "phase" => line[2] \in Source /\ line[3] \in {"running", "done", "failed"}
          /\ line[1] = "done" => line[2] \in {"ok", "failed"}
      BY <2>1, LineKinds
    <2>3. \/ phases' = phases
          \/ line[1] = "phase" /\ phases' = [phases EXCEPT ![line[2]] = line[3]]
      BY <1>24 DEF RunLine
    <2>4. \/ result' = result
          \/ line[1] = "done" /\ result' = line[2]
      BY <1>24 DEF RunLine
    <2> HIDE DEF line
    <2>5. phases' \in [Source -> {"none", "running", "done", "failed"}]
      BY <2>2, <2>3
    <2>6. result' \in {"none", "ok", "failed", "aborted"}
      BY <2>2, <2>4
    <2>7. QED
      BY <1>24, <2>1, <2>5, <2>6 DEF RunLine, machine, dryVars, viewVars, c7upVars
  <1>25. CASE RunExited
    BY <1>25 DEF RunExited, Forget, Outcome, vars, machine, dryVars, viewVars, runVars, c7upVars
  <1>26. ASSUME NEW s \in Source, Publish(s) PROVE Types'
    BY <1>26 DEF Publish, vars, machine, dryVars, viewVars, runVars, c7upVars
  <1>27. ASSUME NEW s \in Source, PhaseStarts(s) PROVE Types'
    <2>1. <<"phase", s, "running">> \in Line
      OBVIOUS
    <2> HIDE DEF Line
    <2>2. pipe' \in Seq(Line)
      BY <1>27, <2>1 DEF PhaseStarts, Emit
    <2>3. QED
      BY <1>27, <2>2 DEF PhaseStarts, C7upKeeps, MayStart, machine, dryVars, viewVars, runVars
  <1>28. CASE UNCHANGED vars
    BY <1>28 DEF vars, machine, dryVars, viewVars, runVars, c7upVars
  <1>29. QED
    BY <1>1, <1>2, <1>3, <1>4, <1>5, <1>6, <1>7, <1>8, <1>9, <1>10, <1>11, <1>12, <1>13, <1>14,
        <1>15, <1>16, <1>17, <1>18, <1>19, <1>20, <1>21, <1>22, <1>23, <1>24, <1>25, <1>26,
        <1>27, <1>28 DEF Next, World, User, DryRun, Run, Shell

LEMMA RestKeeps == IInv /\ [Next]_vars => Rest'
  <1> SUFFICES ASSUME TypeOK, Rest, [Next]_vars
               PROVE  Rest'
    BY DEF IInv
  <1> USE UpdateAssumption DEF TypeOK, Types, Releases, Nothing, Rest, RunIsKnown,
      CheckingIsBacked, PastTheDialog, DropdownAlone, FreshVerdict, Fresh
  <1>1. CASE ArchUpdateCheck
    BY <1>1 DEF ArchUpdateCheck, Pending, vars, machine, dryVars, viewVars, runVars, c7upVars
  <1>2. CASE SessionDies
    BY <1>2 DEF SessionDies, vars, machine, dryVars, viewVars, runVars, c7upVars
  <1>3. CASE UpdateClicked
    BY <1>3 DEF UpdateClicked, Apply, vars, machine, dryVars, viewVars, runVars, c7upVars
  <1>4. CASE ReviewClicked
    BY <1>4 DEF ReviewClicked, vars, machine, dryVars, viewVars, runVars, c7upVars
  <1>5. CASE RetryClicked
    BY <1>5 DEF RetryClicked, vars, machine, dryVars, viewVars, runVars, c7upVars
  <1>6. CASE WizardUpdates
    BY <1>6 DEF WizardUpdates, Apply, vars, machine, dryVars, viewVars, runVars, c7upVars
  <1>7. CASE WizardCloses
    BY <1>7 DEF WizardCloses, vars, machine, dryVars, viewVars, runVars, c7upVars
  <1>8. CASE Abort
    BY <1>8 DEF Abort, Dies, Survives, vars, machine, dryVars, viewVars, runVars, c7upVars
  <1>9. CASE Check
    BY <1>9 DEF Check, Refresh, MayRefresh, vars, machine, dryVars, viewVars, runVars, c7upVars
  <1>10. CASE Look
    BY <1>10 DEF Look, Pending, vars, machine, dryVars, viewVars, runVars, c7upVars
  <1>11. CASE LookFails
    BY <1>11 DEF LookFails, vars, machine, dryVars, viewVars, runVars, c7upVars
  <1>12. CASE Tell
    BY <1>12 DEF Tell, vars, machine, dryVars, viewVars, runVars, c7upVars
  <1>13. CASE Count
    BY <1>13 DEF Count, C7upKeeps, Emit, vars, machine, dryVars, viewVars, runVars, c7upVars
  <1>14. CASE Granted
    BY <1>14 DEF Granted, C7upKeeps, Emit, vars, machine, dryVars, viewVars, runVars, c7upVars
  <1>15. CASE Refused
    BY <1>15 DEF Refused, C7upKeeps, Emit, vars, machine, dryVars, viewVars, runVars, c7upVars
  <1>16. CASE PhaseDone
    BY <1>16 DEF PhaseDone, C7upKeeps, Emit, vars, machine, dryVars, viewVars, runVars, c7upVars
  <1>17. CASE PhaseFailed
    BY <1>17 DEF PhaseFailed, C7upKeeps, Emit, vars, machine, dryVars, viewVars, runVars, c7upVars
  <1>18. CASE EndsFailed
    BY <1>18 DEF EndsFailed, C7upKeeps, Emit, vars, machine, dryVars, viewVars, runVars, c7upVars
  <1>19. CASE Collect
    BY <1>19 DEF Collect, C7upKeeps, vars, machine, dryVars, viewVars, runVars, c7upVars
  <1>20. CASE EndsWell
    BY <1>20 DEF EndsWell, C7upKeeps, Emit, vars, machine, dryVars, viewVars, runVars, c7upVars
  <1>21. CASE Tick
    BY <1>21 DEF Tick, Refresh, MayRefresh, vars, machine, dryVars, viewVars, runVars, c7upVars
  <1>22. CASE VerdictRead
    BY <1>22 DEF VerdictRead, vars, machine, dryVars, viewVars, runVars, c7upVars
  <1>23. CASE VerdictFailed
    BY <1>23 DEF VerdictFailed, vars, machine, dryVars, viewVars, runVars, c7upVars
  <1>24. CASE RunLine
    BY <1>24 DEF RunLine, vars, machine, dryVars, viewVars, runVars, c7upVars
  <1>25. CASE RunExited
    BY <1>25 DEF RunExited, Forget, Outcome, vars, machine, dryVars, viewVars, runVars, c7upVars
  <1>26. ASSUME NEW s \in Source, Publish(s) PROVE Rest'
    BY <1>26 DEF Publish, vars, machine, dryVars, viewVars, runVars, c7upVars
  <1>27. ASSUME NEW s \in Source, PhaseStarts(s) PROVE Rest'
    BY <1>27 DEF PhaseStarts, C7upKeeps, Emit, MayStart, vars, machine, dryVars, viewVars,
        runVars, c7upVars
  <1>28. CASE UNCHANGED vars
    BY <1>28 DEF vars, machine, dryVars, viewVars, runVars, c7upVars
  <1>29. QED
    BY <1>1, <1>2, <1>3, <1>4, <1>5, <1>6, <1>7, <1>8, <1>9, <1>10, <1>11, <1>12, <1>13, <1>14,
        <1>15, <1>16, <1>17, <1>18, <1>19, <1>20, <1>21, <1>22, <1>23, <1>24, <1>25, <1>26,
        <1>27, <1>28 DEF Next, World, User, DryRun, Run, Shell
(* The inductive invariant.                                                 *)
THEOREM Invariance == Spec => []IInv
  <1>1. IInv /\ [Next]_vars => IInv'
    BY FlagsKeep, TypesKeep, RestKeeps DEF IInv, TypeOK
  <1>2. QED
    BY InitHolds, <1>1, PTL DEF Spec

(* Every variable keeps its type.                                           *)
THEOREM TypeCorrect == Spec => []TypeOK
  BY Invariance, PTL DEF IInv

(* "checking..." always has something behind it that will take it down, and *)
(* no dry run works with the flag down (refresh, apply, runProc.onExited).  *)
THEOREM CheckingBacked == Spec => []CheckingIsBacked
  <1>1. IInv => CheckingIsBacked
    BY DEF IInv, Rest
  <1>2. QED
    BY Invariance, <1>1, PTL

(* As long as runs are started from the dropdown alone, whose button waits  *)
(* for the dry run, the verdict on screen lists nothing the machine has.    *)
THEOREM FreshFromTheDropdown == ASSUME ~FromWizard PROVE Spec => []FreshVerdict
  <1>1. IInv => FreshVerdict
    BY DEF IInv, Rest, DropdownAlone
  <1>2. QED
    BY Invariance, <1>1, PTL

(* Nothing is installed before root's dialog was answered (do_run).         *)
THEOREM NothingUnauthorised == Spec => Authorised
  <1>1. ASSUME IInv, [Next]_vars
        PROVE  [have' # have => session \in {"open", "dead"}]_vars
    <2>1. PhaseDone => session \in {"open", "dead"}
      BY <1>1 DEF PhaseDone, IInv, Rest, PastTheDialog
    <2>2. ASSUME have' # have
          PROVE  PhaseDone \/ UNCHANGED vars
      BY <1>1, <2>2 DEF Next, World, User, DryRun, Run, Shell, Publish, ArchUpdateCheck,
          SessionDies,
         UpdateClicked, ReviewClicked, RetryClicked, WizardUpdates, WizardCloses, Abort, Apply,
             Check, Tick,
         Look, LookFails, Tell, Count, Granted, Refused, PhaseStarts, PhaseFailed, EndsFailed,
             Collect,
         EndsWell, VerdictRead, VerdictFailed, RunLine, RunExited, machine
    <2>3. QED
      BY <2>1, <2>2
  <1>2. QED
    BY Invariance, <1>1, PTL DEF Spec, Authorised

-----------------------------------------------------------------------------
(* The story a run tells: what the shell shows of it, the lines it has yet  *)
(* to read included.  The shell lags by any number of lines, so none of the *)
(* three properties below is inductive without the pipe: each conjunct says *)
(* of the picture and of the lines to come what the property says of the    *)
(* picture alone.                                                           *)

\* What c7up has printed and the shell has not read yet.
Said(line) == \E i \in 1..Len(pipe) : pipe[i] = line
NoAuthFrom(n) == \A i \in 1..Len(pipe) : i >= n => pipe[i][1] # "auth"

\* The shell's picture of the dialog, and what the pipe will still make of it.
AuthStory ==
    /\ at \in {"off", "counting"} => pipe = <<>> /\ ~awaiting
    /\ at = "asking" => \/ pipe = <<>> /\ awaiting
                        \/ Len(pipe) = 1 /\ pipe[1] = <<"auth", "waiting">> /\ ~awaiting
    /\ at \in {"between", "busy", "collecting"} =>
          \/ ~awaiting /\ NoAuthFrom(1)
          \/ /\ awaiting /\ NoAuthFrom(2)
             /\ Len(pipe) > 0 /\ pipe[1] = <<"auth", "granted">>
          \/ /\ ~awaiting /\ NoAuthFrom(3)
             /\ Len(pipe) > 1
             /\ pipe[1] = <<"auth", "waiting">> /\ pipe[2] = <<"auth", "granted">>

\* The sources whose phase has begun.
Begun == plan \ left

\* A phase that has not begun has no row and no line.
OthersUntold ==
    \A s \in Source : s \notin Begun =>
        /\ phases[s] = "none"
        /\ \A i \in 1..Len(pipe) : pipe[i][1] = "phase" => pipe[i][2] # s

\* They begin in the order of their ranks.
InOrder ==
    /\ \A s \in Begun : \A t \in left : Rank[s] < Rank[t]
    /\ at = "busy" => now \in Begun /\ \A s \in Begun : Rank[s] <= Rank[now]
    /\ at # "busy" => now = "none"
    /\ at = "counting" => Begun = {}
    /\ at = "collecting" => left = {} /\ ~failed

\* None begins after one that failed.
FailedIsLast ==
    \A s \in Source : phases[s] = "failed" \/ Said(<<"phase", s, "failed">>) =>
        /\ failed /\ at # "busy"
        /\ \A t \in Begun : Rank[t] <= Rank[s]

\* A phase that is through has said so, and that is the last said of it.
DoneIsTold ==
    \A s \in Begun : s # now /\ ~failed => phases[s] = "done" \/ Said(<<"phase", s, "done">>)
DoneIsLast ==
    /\ \A i, j \in 1..Len(pipe) :
          /\ pipe[i][1] = "phase" /\ pipe[i][3] = "done"
          /\ pipe[j][1] = "phase" /\ pipe[j][2] = pipe[i][2]
          => j <= i
    /\ \A s \in Source : phases[s] = "done" =>
          \A i \in 1..Len(pipe) : pipe[i][1] = "phase" => pipe[i][2] # s
    /\ at = "busy" => phases[now] # "done" /\ ~Said(<<"phase", now, "done">>)

\* Success is only said when nothing is left and nothing has failed.
OkIsEarned ==
    result = "ok" \/ Said(<<"done", "ok">>) => at \in {"gone", "off"} /\ left = {} /\ ~failed

Story ==
    /\ AuthStory /\ OthersUntold /\ InOrder /\ FailedIsLast
    /\ DoneIsTold /\ DoneIsLast /\ OkIsEarned

\* What a line more, or one less, does to the pipe.
LEMMA Emits ==
    ASSUME TypeOK, NEW line, Emit(line)
    PROVE  /\ Len(pipe) \in Nat /\ Len(pipe') = Len(pipe) + 1
           /\ \A i \in 1..Len(pipe) : pipe'[i] = pipe[i]
           /\ pipe'[Len(pipe) + 1] = line
  <1>1. pipe \in Seq(Line)
    BY DEF TypeOK, Types
  <1> QED
    BY <1>1 DEF Emit

\* Each index and each line of the longer pipe.
LEMMA Grows ==
    ASSUME TypeOK, NEW line, Emit(line)
    PROVE  /\ \A i \in 1..Len(pipe) : i \in 1..Len(pipe') /\ pipe'[i] = pipe[i]
           /\ \A i \in 1..Len(pipe') : i \in 1..Len(pipe) \/ i = Len(pipe) + 1
           /\ Len(pipe) + 1 \in 1..Len(pipe')
           /\ \A m : Said(m)' <=> Said(m) \/ m = line
  <1>1. /\ \A i \in 1..Len(pipe) : i \in 1..Len(pipe') /\ pipe'[i] = pipe[i]
        /\ \A i \in 1..Len(pipe') : i \in 1..Len(pipe) \/ i = Len(pipe) + 1
        /\ Len(pipe) + 1 \in 1..Len(pipe') /\ pipe'[Len(pipe) + 1] = line
    BY Emits
  <1> QED
    BY <1>1 DEF Said

\* A line with nothing to say of the dialog, from one past it.
LEMMA AuthHolds ==
    ASSUME TypeOK, AuthStory, NEW line, Emit(line), line[1] # "auth",
           at \in {"between", "busy", "collecting"},
           at' \notin {"off", "counting", "asking"}, awaiting' = awaiting
    PROVE  AuthStory'
  <1>1. /\ Len(pipe) \in Nat /\ Len(pipe') = Len(pipe) + 1
        /\ \A i \in 1..Len(pipe) : pipe'[i] = pipe[i]
        /\ \A i \in 1..Len(pipe') : i \in 1..Len(pipe) \/ i = Len(pipe) + 1
        /\ pipe'[Len(pipe) + 1][1] # "auth"
    BY Emits, Grows
  <1>2. ASSUME NEW n \in Nat, NoAuthFrom(n) PROVE NoAuthFrom(n)'
    BY <1>1, <1>2 DEF NoAuthFrom
  <1>3. /\ Len(pipe) > 0 => pipe'[1] = pipe[1] /\ Len(pipe') > 0
        /\ Len(pipe) > 1 => pipe'[2] = pipe[2] /\ Len(pipe') > 1
    BY <1>1
  <1>4. 1 \in Nat /\ 2 \in Nat /\ 3 \in Nat
    OBVIOUS
  <1>5. NoAuthFrom(1) => NoAuthFrom(1)'
    BY <1>2, <1>4
  <1>6. NoAuthFrom(2) => NoAuthFrom(2)'
    BY <1>2, <1>4
  <1>7. NoAuthFrom(3) => NoAuthFrom(3)'
    BY <1>2, <1>4
  <1> QED
    BY <1>3, <1>5, <1>6, <1>7 DEF AuthStory

\* A line about a phase that has begun, or about none.
LEMMA UntoldHolds ==
    ASSUME TypeOK, OthersUntold, NEW line, Emit(line), phases' = phases,
           Begun \subseteq Begun', line[1] = "phase" => line[2] \in Begun'
    PROVE  OthersUntold'
  <1>1. /\ \A i \in 1..Len(pipe) : pipe'[i] = pipe[i]
        /\ \A i \in 1..Len(pipe') : i \in 1..Len(pipe) \/ i = Len(pipe) + 1
        /\ pipe'[Len(pipe) + 1] = line
    BY Emits, Grows
  <1> QED
    BY <1>1 DEF OthersUntold

\* A phase that comes through is told of.
LEMMA ToldHolds ==
    ASSUME TypeOK, DoneIsTold, NEW line, Emit(line), phases' = phases,
           \A s \in Begun' : s # now' /\ ~failed' =>
              (s \in Begun /\ s # now /\ ~failed) \/ line = <<"phase", s, "done">>
    PROVE  DoneIsTold'
  <1>1. \A m : Said(m)' <=> Said(m) \/ m = line
    BY Grows
  <1> QED
    BY <1>1 DEF DoneIsTold

\* A line about a phase that is not through.
LEMMA LastHolds ==
    ASSUME TypeOK, DoneIsLast, NEW line, Emit(line), phases' = phases,
           line[1] = "phase" => phases[line[2]] # "done" /\ ~Said(<<"phase", line[2], "done">>),
           at' = "busy" => phases[now'] # "done" /\ ~Said(<<"phase", now', "done">>)
                           /\ line # <<"phase", now', "done">>
    PROVE  DoneIsLast'
  <1>1. /\ \A i \in 1..Len(pipe) : pipe'[i] = pipe[i]
        /\ \A i \in 1..Len(pipe') : i \in 1..Len(pipe) \/ i = Len(pipe) + 1
        /\ pipe'[Len(pipe) + 1] = line /\ Len(pipe) \in Nat
    BY Emits, Grows
  <1>2. \A m : Said(m)' <=> Said(m) \/ m = line
    BY Grows
  <1>3. \A i \in 1..Len(pipe) : pipe[i] \in Line
    BY DEF TypeOK, Types
  <1>4. \A i \in 1..Len(pipe) : pipe[i][1] = "phase" /\ pipe[i][3] = "done"
                                  => Said(<<"phase", pipe[i][2], "done">>)
    <2>1. ASSUME NEW i \in 1..Len(pipe), pipe[i][1] = "phase", pipe[i][3] = "done"
          PROVE  pipe[i] = <<"phase", pipe[i][2], "done">>
      BY <1>3, <2>1 DEF Line
    <2> QED
      BY <2>1 DEF Said
  <1>5. ASSUME NEW i \in 1..Len(pipe'), NEW j \in 1..Len(pipe'),
               pipe'[i][1] = "phase", pipe'[i][3] = "done",
               pipe'[j][1] = "phase", pipe'[j][2] = pipe'[i][2]
        PROVE  j <= i
    <2>1. CASE i = Len(pipe) + 1
      BY <1>1, <2>1
    <2>2. CASE i \in 1..Len(pipe) /\ j = Len(pipe) + 1
      BY <1>1, <1>4, <1>5, <2>2
    <2>3. CASE i \in 1..Len(pipe) /\ j \in 1..Len(pipe)
      BY <1>1, <1>5, <2>3 DEF DoneIsLast
    <2> QED
      BY <1>1, <2>1, <2>2, <2>3
  <1>6. \A s \in Source : phases[s] = "done" =>
           \A i \in 1..Len(pipe') : pipe'[i][1] = "phase" => pipe'[i][2] # s
    BY <1>1 DEF DoneIsLast
  <1>7. at' = "busy" => phases'[now'] # "done" /\ ~Said(<<"phase", now, "done">>)'
    BY <1>2
  <1> QED
    BY <1>5, <1>6, <1>7 DEF DoneIsLast

\* The shell reads a line.
LEMMA Reads ==
    ASSUME TypeOK, RunLine
    PROVE  /\ Len(pipe) \in Nat /\ Len(pipe) > 0 /\ Len(pipe') = Len(pipe) - 1
           /\ \A i \in 1..Len(pipe') : i + 1 \in 1..Len(pipe) /\ pipe'[i] = pipe[i + 1]
           /\ pipe[1] \in Line
           /\ \/ pipe[1][1] = "auth" /\ UNCHANGED <<phases, result>>
                 /\ awaiting' = (pipe[1][2] = "waiting")
              \/ pipe[1][1] = "phase" /\ UNCHANGED <<awaiting, result>>
                 /\ phases' = [phases EXCEPT ![pipe[1][2]] = pipe[1][3]]
              \/ pipe[1][1] = "done" /\ UNCHANGED <<awaiting, phases>>
                 /\ result' = pipe[1][2]
           /\ UNCHANGED <<at, plan, left, now, failed>>
  <1>1. pipe \in Seq(Line) /\ pipe # <<>> /\ pipe' = Tail(pipe)
    BY DEF TypeOK, Types, RunLine
  <1>2. Head(pipe) = pipe[1] /\ pipe[1] \in Line
    BY <1>1
  <1>3. /\ Len(pipe) \in Nat /\ Len(pipe) > 0 /\ Len(pipe') = Len(pipe) - 1
        /\ \A i \in 1..Len(pipe') : pipe'[i] = pipe[i + 1]
    BY <1>1
  <1>4. \A i \in 1..Len(pipe') : i + 1 \in 1..Len(pipe)
    BY <1>3
  <1>5. UNCHANGED <<at, plan, left, now, failed>>
    BY DEF RunLine, c7upVars
  <1> QED
    BY <1>2, <1>3, <1>4, <1>5, Zenon DEF RunLine

\* What is still to be read afterwards.
LEMMA Shrinks ==
    ASSUME TypeOK, RunLine
    PROVE  /\ \A m : Said(m)' => Said(m)
           /\ \A m : Said(m) => Said(m)' \/ m = pipe[1]
  <1>1. /\ Len(pipe) \in Nat /\ Len(pipe) > 0 /\ Len(pipe') = Len(pipe) - 1
        /\ \A i \in 1..Len(pipe') : i + 1 \in 1..Len(pipe) /\ pipe'[i] = pipe[i + 1]
    BY Reads
  <1>2. ASSUME NEW i \in 1..Len(pipe), i # 1
        PROVE  i - 1 \in 1..Len(pipe') /\ pipe'[i - 1] = pipe[i]
    BY <1>1, <1>2
  <1> QED
    BY <1>1, <1>2 DEF Said

\* Ranks tell the sources apart.
LEMMA RankFacts == \A s, t \in Source : Rank[s] \in Nat /\ (Rank[s] = Rank[t] => s = t)
  BY UpdateAssumption DEF Rank

\* What c7up prints and does, action by action.
LEMMA CountKeeps ==
    ASSUME TypeOK, Story, Count
    PROVE  Story'
  <1>1. Emit(<<"auth", "waiting">>)
    BY DEF Count
  <1>2. /\ Len(pipe) \in Nat /\ Len(pipe') = Len(pipe) + 1
        /\ \A i \in 1..Len(pipe) : pipe'[i] = pipe[i]
        /\ pipe'[Len(pipe) + 1] = <<"auth", "waiting">>
    BY <1>1, Emits
  <1>g. \A m : Said(m)' <=> Said(m) \/ m = <<"auth", "waiting">>
    BY <1>1, Grows
  <1>h. UNCHANGED <<phases, result, awaiting>>
    BY DEF Count, C7upKeeps, runVars
  <1>3. AuthStory'
    BY <1>2, <1>h DEF Count, Story, AuthStory, NoAuthFrom
  <1>4. OthersUntold'
    BY <1>1, <1>h, UntoldHolds DEF Types, TypeOK, Count, Story, InOrder, Begun
  <1>5. InOrder'
    BY RankFacts DEF TypeOK, Types, Count, Story, InOrder, Begun
  <1>6. FailedIsLast'
    BY <1>g, <1>h DEF Count, Story, FailedIsLast, InOrder, Begun
  <1>7. DoneIsTold'
    BY <1>1, <1>h, ToldHolds DEF Types, TypeOK, Count, Story, InOrder, Begun
  <1>8. DoneIsLast'
    BY <1>1, <1>h, LastHolds DEF Count, Story, DoneIsLast
  <1>9. OkIsEarned'
    BY <1>g, <1>h DEF Count, Story, OkIsEarned, InOrder
  <1> QED
    BY <1>3, <1>4, <1>5, <1>6, <1>7, <1>8, <1>9 DEF Story

LEMMA GrantedKeeps ==
    ASSUME TypeOK, Story, Granted
    PROVE  Story'
  <1>1. Emit(<<"auth", "granted">>)
    BY DEF Granted
  <1>2. /\ Len(pipe) \in Nat /\ Len(pipe') = Len(pipe) + 1
        /\ \A i \in 1..Len(pipe) : pipe'[i] = pipe[i]
        /\ pipe'[Len(pipe) + 1] = <<"auth", "granted">>
    BY <1>1, Emits
  <1>g. \A m : Said(m)' <=> Said(m) \/ m = <<"auth", "granted">>
    BY <1>1, Grows
  <1>h. UNCHANGED <<phases, result, awaiting>>
    BY DEF Granted, C7upKeeps, runVars
  <1>3. AuthStory'
    BY <1>2, <1>h DEF Granted, Story, AuthStory, NoAuthFrom
  <1>4. OthersUntold'
    BY <1>1, <1>h, UntoldHolds DEF Types, TypeOK, Granted, Story, InOrder, Begun
  <1>5. InOrder'
    BY RankFacts DEF TypeOK, Types, Granted, Story, InOrder, Begun
  <1>6. FailedIsLast'
    BY <1>g, <1>h DEF Granted, Story, FailedIsLast, InOrder, Begun
  <1>7. DoneIsTold'
    BY <1>1, <1>h, ToldHolds DEF Types, TypeOK, Granted, Story, InOrder, Begun
  <1>8. DoneIsLast'
    BY <1>1, <1>h, LastHolds DEF Granted, Story, DoneIsLast
  <1>9. OkIsEarned'
    BY <1>g, <1>h DEF Granted, Story, OkIsEarned, InOrder
  <1> QED
    BY <1>3, <1>4, <1>5, <1>6, <1>7, <1>8, <1>9 DEF Story

LEMMA RefusedKeeps ==
    ASSUME TypeOK, Story, Refused
    PROVE  Story'
  <1>1. Emit(<<"auth", "denied">>)
    BY DEF Refused
  <1>2. /\ Len(pipe) \in Nat /\ Len(pipe') = Len(pipe) + 1
        /\ \A i \in 1..Len(pipe) : pipe'[i] = pipe[i]
        /\ pipe'[Len(pipe) + 1] = <<"auth", "denied">>
    BY <1>1, Emits
  <1>g. \A m : Said(m)' <=> Said(m) \/ m = <<"auth", "denied">>
    BY <1>1, Grows
  <1>h. UNCHANGED <<phases, result, awaiting>>
    BY DEF Refused, C7upKeeps, runVars
  <1>3. AuthStory'
    BY <1>2, <1>h DEF Refused, Story, AuthStory, NoAuthFrom
  <1>4. OthersUntold'
    BY <1>1, <1>h, UntoldHolds DEF Types, TypeOK, Refused, Story, InOrder, Begun
  <1>5. InOrder'
    BY RankFacts DEF TypeOK, Types, Refused, Story, InOrder, Begun
  <1>6. FailedIsLast'
    BY <1>g, <1>h DEF Refused, Story, FailedIsLast, InOrder, Begun
  <1>7. DoneIsTold'
    BY <1>1, <1>h, ToldHolds DEF Types, TypeOK, Refused, Story, InOrder, Begun
  <1>8. DoneIsLast'
    BY <1>1, <1>h, LastHolds DEF Refused, Story, DoneIsLast
  <1>9. OkIsEarned'
    BY <1>g, <1>h DEF Refused, Story, OkIsEarned, InOrder
  <1> QED
    BY <1>3, <1>4, <1>5, <1>6, <1>7, <1>8, <1>9 DEF Story

LEMMA PhaseDoneKeeps ==
    ASSUME TypeOK, Story, PhaseDone
    PROVE  Story'
  <1>1. Emit(<<"phase", now, "done">>)
    BY DEF PhaseDone
  <1>2. /\ Len(pipe) \in Nat /\ Len(pipe') = Len(pipe) + 1
        /\ \A i \in 1..Len(pipe) : pipe'[i] = pipe[i]
        /\ pipe'[Len(pipe) + 1] = <<"phase", now, "done">>
    BY <1>1, Emits
  <1>g. \A m : Said(m)' <=> Said(m) \/ m = <<"phase", now, "done">>
    BY <1>1, Grows
  <1>h. UNCHANGED <<phases, result, awaiting>>
    BY DEF PhaseDone, C7upKeeps, runVars
  <1>3. AuthStory'
    BY <1>1, <1>h, AuthHolds DEF PhaseDone, Story
  <1>4. OthersUntold'
    BY <1>1, <1>h, UntoldHolds DEF Types, TypeOK, PhaseDone, Story, InOrder, Begun
  <1>5. InOrder'
    BY RankFacts DEF TypeOK, Types, PhaseDone, Story, InOrder, Begun
  <1>6. FailedIsLast'
    BY <1>g, <1>h DEF PhaseDone, Story, FailedIsLast, InOrder, Begun
  <1>7. DoneIsTold'
    BY <1>1, <1>h, ToldHolds DEF Types, TypeOK, PhaseDone, Story, InOrder, Begun
  <1>8. DoneIsLast'
    BY <1>1, <1>h, LastHolds DEF PhaseDone, Story, DoneIsLast
  <1>9. OkIsEarned'
    BY <1>g, <1>h DEF PhaseDone, Story, OkIsEarned, InOrder
  <1> QED
    BY <1>3, <1>4, <1>5, <1>6, <1>7, <1>8, <1>9 DEF Story

LEMMA PhaseFailedKeeps ==
    ASSUME TypeOK, Story, PhaseFailed
    PROVE  Story'
  <1>1. Emit(<<"phase", now, "failed">>)
    BY DEF PhaseFailed
  <1>2. /\ Len(pipe) \in Nat /\ Len(pipe') = Len(pipe) + 1
        /\ \A i \in 1..Len(pipe) : pipe'[i] = pipe[i]
        /\ pipe'[Len(pipe) + 1] = <<"phase", now, "failed">>
    BY <1>1, Emits
  <1>g. \A m : Said(m)' <=> Said(m) \/ m = <<"phase", now, "failed">>
    BY <1>1, Grows
  <1>h. UNCHANGED <<phases, result, awaiting>>
    BY DEF PhaseFailed, C7upKeeps, runVars
  <1>3. AuthStory'
    BY <1>1, <1>h, AuthHolds DEF PhaseFailed, Story
  <1>4. OthersUntold'
    BY <1>1, <1>h, UntoldHolds DEF Types, TypeOK, PhaseFailed, Story, InOrder, Begun
  <1>5. InOrder'
    BY RankFacts DEF TypeOK, Types, PhaseFailed, Story, InOrder, Begun
  <1>6. FailedIsLast'
    BY <1>g, <1>h DEF PhaseFailed, Story, FailedIsLast, InOrder, Begun
  <1>7. DoneIsTold'
    BY <1>1, <1>h, ToldHolds DEF Types, TypeOK, PhaseFailed, Story, InOrder, Begun
  <1>8. DoneIsLast'
    BY <1>1, <1>h, LastHolds DEF PhaseFailed, Story, DoneIsLast
  <1>9. OkIsEarned'
    BY <1>g, <1>h DEF PhaseFailed, Story, OkIsEarned, InOrder
  <1> QED
    BY <1>3, <1>4, <1>5, <1>6, <1>7, <1>8, <1>9 DEF Story

LEMMA EndsFailedKeeps ==
    ASSUME TypeOK, Story, EndsFailed
    PROVE  Story'
  <1>1. Emit(<<"done", "failed">>)
    BY DEF EndsFailed
  <1>2. /\ Len(pipe) \in Nat /\ Len(pipe') = Len(pipe) + 1
        /\ \A i \in 1..Len(pipe) : pipe'[i] = pipe[i]
        /\ pipe'[Len(pipe) + 1] = <<"done", "failed">>
    BY <1>1, Emits
  <1>g. \A m : Said(m)' <=> Said(m) \/ m = <<"done", "failed">>
    BY <1>1, Grows
  <1>h. UNCHANGED <<phases, result, awaiting>>
    BY DEF EndsFailed, C7upKeeps, runVars
  <1>3. AuthStory'
    BY <1>2, <1>h DEF EndsFailed, Story, AuthStory, NoAuthFrom
  <1>4. OthersUntold'
    BY <1>1, <1>h, UntoldHolds DEF Types, TypeOK, EndsFailed, Story, InOrder, Begun
  <1>5. InOrder'
    BY RankFacts DEF TypeOK, Types, EndsFailed, Story, InOrder, Begun
  <1>6. FailedIsLast'
    BY <1>g, <1>h DEF EndsFailed, Story, FailedIsLast, InOrder, Begun
  <1>7. DoneIsTold'
    BY <1>1, <1>h, ToldHolds DEF Types, TypeOK, EndsFailed, Story, InOrder, Begun
  <1>8. DoneIsLast'
    BY <1>1, <1>h, LastHolds DEF EndsFailed, Story, DoneIsLast
  <1>9. OkIsEarned'
    BY <1>g, <1>h DEF EndsFailed, Story, OkIsEarned, InOrder
  <1> QED
    BY <1>3, <1>4, <1>5, <1>6, <1>7, <1>8, <1>9 DEF Story

LEMMA EndsWellKeeps ==
    ASSUME TypeOK, Story, EndsWell
    PROVE  Story'
  <1>1. Emit(<<"done", "ok">>)
    BY DEF EndsWell
  <1>2. /\ Len(pipe) \in Nat /\ Len(pipe') = Len(pipe) + 1
        /\ \A i \in 1..Len(pipe) : pipe'[i] = pipe[i]
        /\ pipe'[Len(pipe) + 1] = <<"done", "ok">>
    BY <1>1, Emits
  <1>g. \A m : Said(m)' <=> Said(m) \/ m = <<"done", "ok">>
    BY <1>1, Grows
  <1>h. UNCHANGED <<phases, result, awaiting>>
    BY DEF EndsWell, C7upKeeps, runVars
  <1>3. AuthStory'
    BY <1>2, <1>h DEF EndsWell, Story, AuthStory, NoAuthFrom
  <1>4. OthersUntold'
    BY <1>1, <1>h, UntoldHolds DEF Types, TypeOK, EndsWell, Story, InOrder, Begun
  <1>5. InOrder'
    BY RankFacts DEF TypeOK, Types, EndsWell, Story, InOrder, Begun
  <1>6. FailedIsLast'
    BY <1>g, <1>h DEF EndsWell, Story, FailedIsLast, InOrder, Begun
  <1>7. DoneIsTold'
    BY <1>1, <1>h, ToldHolds DEF Types, TypeOK, EndsWell, Story, InOrder, Begun
  <1>8. DoneIsLast'
    BY <1>1, <1>h, LastHolds DEF EndsWell, Story, DoneIsLast
  <1>9. OkIsEarned'
    BY <1>g, <1>h DEF EndsWell, Story, OkIsEarned, InOrder
  <1> QED
    BY <1>3, <1>4, <1>5, <1>6, <1>7, <1>8, <1>9 DEF Story

LEMMA StartKeeps ==
    ASSUME TypeOK, Story, NEW s \in Source, PhaseStarts(s)
    PROVE  Story'
  <1>1. Emit(<<"phase", s, "running">>)
    BY DEF PhaseStarts
  <1>2. /\ Len(pipe) \in Nat /\ Len(pipe') = Len(pipe) + 1
        /\ \A i \in 1..Len(pipe) : pipe'[i] = pipe[i]
        /\ pipe'[Len(pipe) + 1] = <<"phase", s, "running">>
    BY <1>1, Emits
  <1>b. /\ s \in left /\ at' = "busy" /\ now' = s /\ UNCHANGED <<phases, failed>>
        /\ Begun' = Begun \cup {s} /\ s \notin Begun /\ now = "none" /\ "none" \notin Begun
    BY UpdateAssumption DEF PhaseStarts, MayStart, C7upKeeps, runVars, Begun, TypeOK, Types,
       Story, InOrder, Rank
  <1>u. phases[s] = "none" /\ ~Said(<<"phase", s, "done">>)
    BY <1>b DEF Story, OthersUntold, Said
  <1>g. \A m : Said(m)' <=> Said(m) \/ m = <<"phase", s, "running">>
    BY <1>1, Grows
  <1>h. UNCHANGED <<phases, result, awaiting>>
    BY DEF PhaseStarts, C7upKeeps, runVars
  <1>3. AuthStory'
    BY <1>1, <1>h, AuthHolds DEF PhaseStarts, MayStart, Story
  <1>4. OthersUntold'
    BY <1>1, <1>h, UntoldHolds DEF Types, TypeOK, PhaseStarts, MayStart, Story, InOrder, Begun
  <1>5. InOrder'
    BY RankFacts DEF TypeOK, Types, PhaseStarts, MayStart, Story, InOrder, Begun
  <1>6. FailedIsLast'
    BY <1>b, <1>g, <1>h DEF PhaseStarts, MayStart, Story, FailedIsLast
  <1>7. DoneIsTold'
    BY <1>1, <1>b, ToldHolds DEF Story
  <1>8. DoneIsLast'
    BY <1>1, <1>b, <1>u, LastHolds DEF Story
  <1>9. OkIsEarned'
    BY <1>g, <1>h DEF PhaseStarts, MayStart, Story, OkIsEarned, InOrder
  <1> QED
    BY <1>3, <1>4, <1>5, <1>6, <1>7, <1>8, <1>9 DEF Story

\* The shell reads what was said: no more is known and no less is to come.
LEMMA LineKeeps ==
    ASSUME TypeOK, Story, RunLine
    PROVE  Story'
  <1> DEFINE line == pipe[1]
  <1>1. /\ Len(pipe) \in Nat /\ Len(pipe) > 0 /\ Len(pipe') = Len(pipe) - 1
        /\ \A i \in 1..Len(pipe') : i + 1 \in 1..Len(pipe) /\ pipe'[i] = pipe[i + 1]
        /\ \/ line[1] = "auth" /\ UNCHANGED <<phases, result>>
              /\ awaiting' = (line[2] = "waiting")
           \/ line[1] = "phase" /\ UNCHANGED <<awaiting, result>>
              /\ phases' = [phases EXCEPT ![line[2]] = line[3]]
           \/ line[1] = "done" /\ UNCHANGED <<awaiting, phases>>
              /\ result' = line[2]
        /\ UNCHANGED <<at, plan, left, now, failed>>
    BY Reads, Zenon
  <1>2. /\ line[1] = "phase" => line = <<"phase", line[2], line[3]>> /\ line[2] \in Source
        /\ line[1] = "done" => line = <<"done", line[2]>>
    BY Reads DEF Line
  <1>s. Said(line)
    BY <1>1 DEF Said
  <1>t. /\ \A m : Said(m)' => Said(m)
        /\ \A m : Said(m) => Said(m)' \/ m = line
    BY Shrinks
  <1>p. phases \in [Source -> {"none", "running", "done", "failed"}]
    BY DEF TypeOK, Types
  <1> HIDE DEF line
  <1>q. \A s \in Source : phases'[s] = phases[s] \/ line = <<"phase", s, phases'[s]>>
    BY <1>1, <1>2, <1>p
  <1>3. AuthStory'
    <2>1. ASSUME NEW n \in Nat, NoAuthFrom(n + 1) PROVE NoAuthFrom(n)'
      BY <1>1, <2>1 DEF NoAuthFrom
    <2>2. NoAuthFrom(2) => NoAuthFrom(1)'
      <3>1. 1 \in Nat /\ 1 + 1 = 2
        OBVIOUS
      <3> QED
        BY <2>1, <3>1
    <2>3. NoAuthFrom(3) => NoAuthFrom(2)'
      <3>1. 2 \in Nat /\ 2 + 1 = 3
        OBVIOUS
      <3> QED
        BY <2>1, <3>1
    <2>4. NoAuthFrom(1) => line[1] # "auth" /\ NoAuthFrom(1)'
      BY <1>1 DEF NoAuthFrom, line
    <2>5. CASE at \in {"off", "counting"}
      BY <1>1, <2>5 DEF Story, AuthStory
    <2>6. CASE at = "asking"
      <3>1. pipe # <<>> /\ pipe' \in Seq(Line)
        BY <1>1 DEF RunLine, TypeOK, Types
      <3>2. line = <<"auth", "waiting">> /\ Len(pipe) = 1
        BY <2>6, <3>1 DEF Story, AuthStory, line
      <3>3. pipe' = <<>>
        BY <1>1, <3>1, <3>2
      <3>4. awaiting'
        BY <1>1, <3>2
      <3> QED
        BY <1>1, <2>6, <3>3, <3>4 DEF AuthStory
    <2>7. CASE at \in {"between", "busy", "collecting"}
      <3>1. CASE ~awaiting /\ NoAuthFrom(1)
        BY <1>1, <2>4, <2>7, <3>1 DEF AuthStory
      <3>2. CASE awaiting /\ NoAuthFrom(2) /\ line = <<"auth", "granted">>
        BY <1>1, <2>2, <2>7, <3>2 DEF AuthStory
      <3>3. CASE /\ ~awaiting /\ NoAuthFrom(3)
                 /\ Len(pipe) > 1 /\ line = <<"auth", "waiting">>
                 /\ pipe[2] = <<"auth", "granted">>
        <4>0. Len(pipe') > 0 /\ pipe'[1] = pipe[2]
          BY <1>1, <3>3
        <4>1. awaiting'
          BY <1>1, <3>3
        <4> QED
          BY <1>1, <2>3, <2>7, <3>3, <4>0, <4>1 DEF AuthStory
      <3> QED
        BY <2>7, <3>1, <3>2, <3>3 DEF Story, AuthStory, line
    <2>8. CASE at = "gone"
      BY <1>1, <2>8 DEF AuthStory
    <2> QED
      BY <2>5, <2>6, <2>7, <2>8 DEF TypeOK, Types
  <1>4. OthersUntold'
    <2>1. \A s \in Source : s \notin Begun => (line[1] = "phase" => line[2] # s)
      BY <1>1 DEF Story, OthersUntold, line
    <2> QED
      BY <1>1, <1>q, <2>1, <1>2 DEF Story, OthersUntold, Begun
  <1>5. InOrder'
    BY <1>1 DEF Story, InOrder, Begun
  <1>6. FailedIsLast'
    BY <1>1, <1>q, <1>s, <1>t DEF Story, FailedIsLast, Begun
  <1>7. DoneIsTold'
    <2>1. ASSUME NEW s \in Begun, s # now, ~failed
          PROVE  phases'[s] = "done" \/ Said(<<"phase", s, "done">>)'
      <3>0. s \in Source
        BY DEF Begun, TypeOK, Types
      <3>1. CASE phases[s] = "done"
        BY <1>1, <1>q, <1>2, <3>0, <3>1 DEF Story, DoneIsLast, line
      <3>2. CASE Said(<<"phase", s, "done">>)
        <4>1. CASE line = <<"phase", s, "done">>
          BY <1>1, <1>p, <3>0, <4>1
        <4> QED
          BY <1>t, <3>2, <4>1
      <3> QED
        BY <2>1, <3>1, <3>2 DEF Story, DoneIsTold
    <2> QED
      BY <1>1, <2>1 DEF DoneIsTold, Begun
  <1>8. DoneIsLast'
    <2>1. ASSUME NEW i \in 1..Len(pipe'), NEW j \in 1..Len(pipe'),
                 pipe'[i][1] = "phase", pipe'[i][3] = "done",
                 pipe'[j][1] = "phase", pipe'[j][2] = pipe'[i][2]
          PROVE  j <= i
      <3>1. j + 1 <= i + 1
        BY <1>1, <2>1 DEF Story, DoneIsLast
      <3> QED
        BY <1>1, <3>1
    <2>2. ASSUME NEW s \in Source, phases'[s] = "done",
                 NEW i \in 1..Len(pipe'), pipe'[i][1] = "phase", pipe'[i][2] = s
          PROVE  FALSE
      <3>1. i + 1 \in 1..Len(pipe) /\ pipe[i + 1][1] = "phase" /\ pipe[i + 1][2] = s
        BY <1>1, <2>2
      <3>2. CASE phases[s] = "done"
        BY <3>1, <3>2 DEF Story, DoneIsLast
      <3>3. CASE line = <<"phase", s, "done">>
        <4>1. 1 \in 1..Len(pipe) /\ line[1] = "phase" /\ line[3] = "done" /\ line[2] = s
          BY <1>1, <3>3
        <4>2. i + 1 <= 1
          BY <3>1, <4>1 DEF Story, DoneIsLast, line
        <4> QED
          BY <1>1, <4>2
      <3> QED
        BY <1>q, <2>2, <3>2, <3>3
    <2>3. at' = "busy" => phases'[now'] # "done" /\ ~Said(<<"phase", now, "done">>)'
      <3>1. ASSUME at = "busy"
            PROVE  phases'[now] # "done" /\ ~Said(<<"phase", now, "done">>)'
        <4>1. now \in Source /\ phases[now] # "done" /\ ~Said(<<"phase", now, "done">>)
          BY <3>1 DEF Story, DoneIsLast, TypeOK, Types
        <4>2. phases'[now] # "done"
          <5>1. CASE phases'[now] = phases[now]
            BY <4>1, <5>1
          <5>2. CASE line = <<"phase", now, phases'[now]>>
            BY <1>s, <4>1, <5>2
          <5> QED
            BY <1>q, <4>1, <5>1, <5>2
        <4> QED
          BY <1>1, <1>t, <4>1, <4>2
      <3> QED
        BY <1>1, <3>1
    <2> QED
      BY <2>1, <2>2, <2>3 DEF DoneIsLast
  <1>9. OkIsEarned'
    BY <1>1, <1>2, <1>s, <1>t DEF Story, OkIsEarned
  <1> QED
    BY <1>3, <1>4, <1>5, <1>6, <1>7, <1>8, <1>9 DEF Story

\* The rest of the system.
LEMMA SameStory ==
    ASSUME Story, UNCHANGED <<at, plan, left, now, failed, pipe, phases, result, awaiting>>
    PROVE  Story'
  BY DEF Story, AuthStory, OthersUntold, InOrder, FailedIsLast, DoneIsTold, DoneIsLast,
     OkIsEarned,
     Begun, NoAuthFrom, Said

LEMMA ApplyKeeps ==
    ASSUME TypeOK, Story, at = "off", Apply
    PROVE  Story'
  <1>1. pipe' = <<>> /\ Len(pipe') = 0 /\ \A i \in 1..Len(pipe') : FALSE
    BY DEF Story, AuthStory, Apply
  <1> QED
    BY <1>1 DEF Apply, Story, AuthStory, OthersUntold, InOrder, FailedIsLast, DoneIsTold,
       DoneIsLast, OkIsEarned, Begun, NoAuthFrom, Said, TypeOK, Types

\* Bash dies where it stands, and the shell has not been told.
LEMMA DiesKeeps ==
    ASSUME TypeOK, Story, Dies, UNCHANGED <<pipe, phases, result, awaiting>>
    PROVE  Story'
  <1>1. AuthStory'
    BY DEF Dies, Story, InOrder, AuthStory, Begun, NoAuthFrom, Said, TypeOK, Types
  <1>2. OthersUntold'
    BY DEF Dies, Story, InOrder, OthersUntold, Begun, NoAuthFrom, Said, TypeOK, Types
  <1>3. InOrder'
    BY DEF Dies, Story, InOrder, Begun, NoAuthFrom, Said, TypeOK, Types
  <1>4. FailedIsLast'
    BY DEF Dies, Story, InOrder, FailedIsLast, Begun, NoAuthFrom, Said, TypeOK, Types
  <1>5. DoneIsTold'
    BY DEF Dies, Story, InOrder, DoneIsTold, Begun, NoAuthFrom, Said, TypeOK, Types
  <1>6. DoneIsLast'
    BY DEF Dies, Story, InOrder, DoneIsLast, Begun, NoAuthFrom, Said, TypeOK, Types
  <1>7. OkIsEarned'
    BY DEF Dies, Story, InOrder, OkIsEarned, Begun, NoAuthFrom, Said, TypeOK, Types
  <1> QED
    BY <1>1, <1>2, <1>3, <1>4, <1>5, <1>6, <1>7 DEF Story

LEMMA CollectKeeps ==
    ASSUME TypeOK, Story, Collect
    PROVE  Story'
  <1>1. AuthStory'
    BY DEF Collect, C7upKeeps, runVars, Story, InOrder, AuthStory, Begun, NoAuthFrom, Said,
       TypeOK, Types
  <1>2. OthersUntold'
    BY DEF Collect, C7upKeeps, runVars, Story, InOrder, OthersUntold, Begun, NoAuthFrom,
       Said, TypeOK, Types
  <1>3. InOrder'
    BY DEF Collect, C7upKeeps, runVars, Story, InOrder, Begun, NoAuthFrom, Said, TypeOK, Types
  <1>4. FailedIsLast'
    BY DEF Collect, C7upKeeps, runVars, Story, InOrder, FailedIsLast, Begun, NoAuthFrom,
       Said, TypeOK, Types
  <1>5. DoneIsTold'
    BY DEF Collect, C7upKeeps, runVars, Story, InOrder, DoneIsTold, Begun, NoAuthFrom, Said,
       TypeOK, Types
  <1>6. DoneIsLast'
    BY DEF Collect, C7upKeeps, runVars, Story, InOrder, DoneIsLast, Begun, NoAuthFrom, Said,
       TypeOK, Types
  <1>7. OkIsEarned'
    BY DEF Collect, C7upKeeps, runVars, Story, InOrder, OkIsEarned, Begun, NoAuthFrom, Said,
       TypeOK, Types
  <1> QED
    BY <1>1, <1>2, <1>3, <1>4, <1>5, <1>6, <1>7 DEF Story

LEMMA ExitKeeps ==
    ASSUME TypeOK, Story, RunExited
    PROVE  Story'
  <1>1. result' = "ok" => result = "ok"
    BY DEF RunExited, Outcome
  <1> QED
    BY <1>1 DEF RunExited, Story, AuthStory, OthersUntold, InOrder, FailedIsLast,
       DoneIsTold, DoneIsLast, OkIsEarned, Begun, NoAuthFrom, Said, TypeOK, Types

LEMMA StoryStarts == Init => Story
  <1> SUFFICES ASSUME Init PROVE Story
    OBVIOUS
  <1>1. Len(pipe) = 0 /\ \A i \in 1..Len(pipe) : FALSE
    BY DEF Init
  <1> QED
    BY <1>1 DEF Init, Story, AuthStory, OthersUntold, InOrder, FailedIsLast, DoneIsTold,
       DoneIsLast, OkIsEarned, Begun, NoAuthFrom, Said

\* A run starts only when the one before it is over, and the other steps that
\* touch its story are c7up's own or the shell's reading of it.
LEMMA StoryKeeps == IInv /\ Story /\ [Next]_vars => Story'
  <1> SUFFICES ASSUME IInv, Story, [Next]_vars PROVE Story'
    OBVIOUS
  <1> USE DEF IInv
  <1>0. ~running => at = "off"
    BY DEF Rest, RunIsKnown, TypeOK, Flags
  <1>1. CASE UpdateClicked \/ WizardUpdates
    <2>1. CASE Apply
      BY <1>0, <2>1, ApplyKeeps DEF Apply
    <2>2. CASE UNCHANGED <<runVars, c7upVars, pipe>>
      BY <2>2, SameStory DEF runVars, c7upVars
    <2> QED
      BY <1>1, <2>1, <2>2, Zenon DEF UpdateClicked, WizardUpdates
  <1>2. CASE Abort
    <2>1. UNCHANGED <<pipe, phases, result, awaiting>>
      BY <1>2 DEF Abort
    <2>2. CASE Survives
      BY <2>1, <2>2, SameStory DEF Survives, c7upVars
    <2> QED
      BY <1>2, <2>1, <2>2, DiesKeeps DEF Abort
  <1>3. CASE Count \/ Granted \/ Refused \/ PhaseDone \/ PhaseFailed \/ EndsFailed
             \/ Collect \/ EndsWell \/ RunLine \/ RunExited
    BY <1>3, CountKeeps, GrantedKeeps, RefusedKeeps, PhaseDoneKeeps, PhaseFailedKeeps,
       EndsFailedKeeps, CollectKeeps, EndsWellKeeps, LineKeeps, ExitKeeps
  <1>4. ASSUME NEW s \in Source, PhaseStarts(s) PROVE Story'
    BY <1>4, StartKeeps
  <1>5. CASE \/ ArchUpdateCheck \/ SessionDies \/ ReviewClicked \/ RetryClicked \/ WizardCloses
             \/ Check \/ Look \/ LookFails \/ Tell \/ Tick \/ VerdictRead \/ VerdictFailed
             \/ (\E s \in Source : Publish(s)) \/ UNCHANGED vars
    <2>1. UNCHANGED <<at, plan, left, now, failed, pipe, phases, result, awaiting>>
      BY <1>5 DEF ArchUpdateCheck, SessionDies, ReviewClicked, RetryClicked, WizardCloses,
         Check, Look, LookFails, Tell, Tick, VerdictRead, VerdictFailed, Publish, vars,
         runVars, c7upVars
    <2> QED
      BY <2>1, SameStory
  <1> QED
    BY <1>1, <1>2, <1>3, <1>4, <1>5, Zenon DEF Next, World, User, DryRun, Run, Shell

LEMMA StoryHolds == Spec => [](IInv /\ Story)
  <1>1. Init => Story
    BY StoryStarts
  <1>2. IInv /\ Story /\ [Next]_vars => Story'
    BY StoryKeeps
  <1> QED
    BY <1>1, <1>2, Invariance, PTL DEF Spec

(* The shell shows "waiting for authorisation" exactly when c7up waits,     *)
(* once it has read what c7up has printed.                                  *)
THEOREM AuthViewIsTrue == Spec => []AuthViewTruthful
  <1>1. ASSUME IInv, Story, pipe = <<>>, at # "gone"
        PROVE  awaiting <=> at = "asking"
    <2>1. Len(pipe) = 0
      BY <1>1
    <2>2. CASE at = "asking"
      BY <1>1, <2>1, <2>2 DEF Story, AuthStory
    <2>3. CASE at # "asking"
      BY <1>1, <2>1, <2>3 DEF Story, AuthStory, IInv, TypeOK, Types
    <2> QED
      BY <2>2, <2>3
  <1>2. IInv /\ Story => AuthViewTruthful
    BY <1>1 DEF AuthViewTruthful
  <1> QED
    BY <1>2, StoryHolds, PTL

(* No phase runs over one that failed, whatever the shell has read of the   *)
(* run so far.                                                              *)
THEOREM NothingOverAFailure == Spec => []NoPartialUpgrade
  <1>1. ASSUME IInv, Story, NEW s \in Source, NEW t \in Source,
               phases[s] = "failed", Rank[s] < Rank[t]
        PROVE  phases[t] = "none"
    <2>0. Rank[s] \in Nat /\ Rank[t] \in Nat
      BY RankFacts
    <2>1. t \notin Begun
      <3>1. t \in Begun => Rank[t] <= Rank[s]
        BY <1>1 DEF Story, FailedIsLast
      <3> QED
        BY <1>1, <2>0, <3>1
    <2> QED
      BY <1>1, <2>1 DEF Story, OthersUntold
  <1>2. IInv /\ Story => NoPartialUpgrade
    BY <1>1 DEF NoPartialUpgrade
  <1> QED
    BY <1>2, StoryHolds, PTL

(* A run shown as successful has shown as done what it counted, and no more.*)
THEOREM SuccessIsComplete == Spec => []OkMeansAll
  <1>1. ASSUME IInv, Story, ~running, result = "ok"
        PROVE  {s \in Source : phases[s] = "done"} = plan
    <2>1. at = "off" /\ Len(pipe) = 0
      BY <1>1 DEF IInv, Rest, RunIsKnown, Story, AuthStory, TypeOK, Flags
    <2>2. now = "none" /\ left = {} /\ ~failed /\ Begun = plan /\ plan \subseteq Source
      BY <1>1, <2>1 DEF IInv, TypeOK, Types, Story, InOrder, OkIsEarned, Begun
    <2>3. "none" \notin Source
      BY UpdateAssumption DEF Rank
    <2>4. \A s \in plan : phases[s] = "done"
      BY <1>1, <2>1, <2>2, <2>3 DEF Story, DoneIsTold, Said
    <2>5. \A s \in Source : s \notin plan => phases[s] = "none"
      BY <1>1, <2>2 DEF Story, OthersUntold
    <2> QED
      BY <2>2, <2>4, <2>5
  <1>2. IInv /\ Story => OkMeansAll
    BY <1>1 DEF OkMeansAll
  <1> QED
    BY <1>2, StoryHolds, PTL

-----------------------------------------------------------------------------
(* The run keeps the promise of OrderlyUpdate.  Beyond Story, what it takes *)
(* is how the end of a run is told: c7up says it in a line and again in its *)
(* exit code, the shell reads one after the other, and the two must agree.  *)

\* The shell has not been told how the run ended, and the pipe does not tell it.
Unheard == result = "none" /\ \A i \in 1..Len(pipe) : pipe[i][1] # "done"

\* It has been told that the run ended so, or will be, and nothing else.
Heard(how) ==
    /\ result \in {"none", how}
    /\ result = how \/ Said(<<"done", how>>)
    /\ \A i \in 1..Len(pipe) : pipe[i][1] = "done" => pipe[i][2] = how

OutcomeTold ==
    /\ at \notin {"off", "gone"} => Unheard /\ code = 0
    /\ at = "gone" => /\ code = 0 => Heard("ok")
                      /\ code = 1 => Heard("failed")
                      /\ code = 2 => Unheard

\* A source that has failed is the last one c7up works on.
UnfailedSoFar == at \in {"counting", "asking", "busy", "collecting"} => ~failed

Course == OutcomeTold /\ UnfailedSoFar

LEMMA QuietLine ==
    ASSUME TypeOK, Unheard, NEW line, Emit(line), line[1] # "done", result' = result
    PROVE  Unheard'
  <1>1. /\ \A i \in 1..Len(pipe) : pipe'[i] = pipe[i]
        /\ \A i \in 1..Len(pipe') : i \in 1..Len(pipe) \/ i = Len(pipe) + 1
        /\ pipe'[Len(pipe) + 1] = line
    BY Emits, Grows
  <1> QED
    BY <1>1 DEF Unheard

LEMMA LastLine ==
    ASSUME TypeOK, Unheard, NEW how, Emit(<<"done", how>>), result' = result
    PROVE  Heard(how)'
  <1> DEFINE line == <<"done", how>>
  <1>1. /\ \A i \in 1..Len(pipe) : pipe'[i] = pipe[i]
        /\ \A i \in 1..Len(pipe') : i \in 1..Len(pipe) \/ i = Len(pipe) + 1
        /\ pipe'[Len(pipe) + 1] = line
        /\ \A m : Said(m)' <=> Said(m) \/ m = line
    BY Emits, Grows
  <1>2. Said(line)'
    BY <1>1
  <1> QED
    BY <1>1, <1>2 DEF Unheard, Heard

LEMMA UnheardStays ==
    ASSUME TypeOK, RunLine, Unheard
    PROVE  Unheard'
  BY Reads DEF Unheard

LEMMA HeardStays ==
    ASSUME TypeOK, RunLine, NEW how \in {"ok", "failed"}, Heard(how)
    PROVE  Heard(how)'
  <1>1. /\ Len(pipe) \in Nat /\ Len(pipe) > 0
        /\ \A i \in 1..Len(pipe') : i + 1 \in 1..Len(pipe) /\ pipe'[i] = pipe[i + 1]
        /\ pipe[1] \in Line
        /\ result' = result \/ (pipe[1][1] = "done" /\ result' = pipe[1][2])
    BY Reads
  <1>2. \A m : Said(m) => Said(m)' \/ m = pipe[1]
    BY Shrinks
  <1>3. pipe[1] = <<"done", how>> => result' = how
    <2>1. ASSUME pipe[1] = <<"done", how>> PROVE result' = how
      <3>1. pipe[1][1] = "done" /\ pipe[1][2] = how
        BY <2>1
      <3> QED
        BY <3>1, Reads
    <2> QED
      BY <2>1
  <1>4. result' \in {"none", how}
    BY <1>1 DEF Heard
  <1>5. result = how => result' = how
    BY <1>1 DEF Heard
  <1>6. result' = how \/ Said(<<"done", how>>)'
    BY <1>2, <1>3, <1>5 DEF Heard
  <1>7. \A i \in 1..Len(pipe') : pipe'[i][1] = "done" => pipe'[i][2] = how
    BY <1>1 DEF Heard
  <1> QED
    BY <1>4, <1>6, <1>7 DEF Heard

LEMMA SameCourse ==
    ASSUME Course, UNCHANGED <<at, code, failed, pipe, result>>
    PROVE  Course'
  BY DEF Course, OutcomeTold, UnfailedSoFar, Unheard, Heard, Said

LEMMA CourseStarts == Init => Course
  BY DEF Init, Course, OutcomeTold, UnfailedSoFar

\* c7up goes on and says so, or says nothing: no end has been told yet.
LEMMA WorkKeeps ==
    ASSUME IInv, Story, Course,
           \/ Count \/ Granted \/ PhaseDone \/ PhaseFailed \/ Collect
           \/ \E s \in Source : PhaseStarts(s)
    PROVE  Course'
  <1>1. at \notin {"off", "gone"} /\ at' \notin {"off", "gone"} /\ UNCHANGED <<result, code>>
    BY DEF Count, Granted, PhaseDone, PhaseFailed, Collect, PhaseStarts, C7upKeeps, runVars
  <1>2. Unheard /\ code = 0
    BY <1>1 DEF Course, OutcomeTold
  <1>3. Unheard'
    <2>1. ASSUME NEW line, line[1] # "done", Emit(line) PROVE Unheard'
      BY <1>1, <1>2, <2>1, QuietLine DEF IInv
    <2>2. CASE Collect
      BY <1>1, <1>2, <2>2 DEF Collect, Unheard
    <2>3. CASE Count
      BY <2>1, <2>3 DEF Count
    <2>4. CASE Granted
      BY <2>1, <2>4 DEF Granted
    <2>5. CASE PhaseDone
      BY <2>1, <2>5 DEF PhaseDone
    <2>6. CASE PhaseFailed
      BY <2>1, <2>6 DEF PhaseFailed
    <2>7. ASSUME NEW s \in Source, PhaseStarts(s) PROVE Unheard'
      BY <2>1, <2>7 DEF PhaseStarts
    <2> QED
      BY <2>2, <2>3, <2>4, <2>5, <2>6, <2>7
  <1>4. UnfailedSoFar'
    BY DEF Course, UnfailedSoFar, Count, Granted, PhaseDone, PhaseFailed, Collect, PhaseStarts,
       MayStart
  <1> QED
    BY <1>1, <1>2, <1>3, <1>4 DEF Course, OutcomeTold

\* c7up is through: its last line and its exit code agree.
LEMMA EndKeeps ==
    ASSUME IInv, Story, Course, Refused \/ EndsFailed \/ EndsWell
    PROVE  Course'
  <1>0. TypeOK
    BY DEF IInv
  <1>1. at \notin {"off", "gone"} /\ at' = "gone" /\ result' = result
    BY DEF Refused, EndsFailed, EndsWell, C7upKeeps, runVars
  <1>2. Unheard /\ code = 0
    BY <1>1 DEF Course, OutcomeTold
  <1>3. CASE Refused
    <2>1. Emit(<<"auth", "denied">>) /\ code' = 2
      BY <1>3 DEF Refused
    <2>2. Unheard'
      BY <1>0, <1>1, <1>2, <2>1, QuietLine
    <2> QED
      BY <1>1, <2>1, <2>2 DEF Course, OutcomeTold, UnfailedSoFar
  <1>4. CASE EndsFailed
    <2>1. Emit(<<"done", "failed">>) /\ code' = 1
      BY <1>4 DEF EndsFailed
    <2>2. Heard("failed")'
      BY <1>0, <1>1, <1>2, <2>1, LastLine
    <2> QED
      BY <1>1, <2>1, <2>2 DEF Course, OutcomeTold, UnfailedSoFar
  <1>5. CASE EndsWell
    <2>1. Emit(<<"done", "ok">>) /\ code' = 0
      BY <1>2, <1>5 DEF EndsWell
    <2>2. Heard("ok")'
      BY <1>0, <1>1, <1>2, <2>1, LastLine
    <2> QED
      BY <1>1, <2>1, <2>2 DEF Course, OutcomeTold, UnfailedSoFar
  <1> QED
    BY <1>3, <1>4, <1>5

LEMMA CourseKeeps == IInv /\ Story /\ Course /\ [Next]_vars => Course'
  <1> SUFFICES ASSUME IInv, Story, Course, [Next]_vars PROVE Course'
    OBVIOUS
  <1>0. TypeOK /\ (~running => at = "off")
    BY DEF IInv, Rest, RunIsKnown, TypeOK, Flags
  <1>1. CASE UpdateClicked \/ WizardUpdates
    <2>1. CASE Apply
      <3>1. pipe = <<>>
        BY <1>0, <2>1 DEF Apply, Story, AuthStory
      <3>2. pipe' = <<>> /\ at' = "counting" /\ code' = 0 /\ ~failed' /\ result' = "none"
        BY <2>1, <3>1 DEF Apply
      <3> QED
        BY <3>2 DEF Course, OutcomeTold, UnfailedSoFar, Unheard
    <2>2. CASE UNCHANGED <<runVars, c7upVars, pipe>>
      BY <2>2, SameCourse DEF runVars, c7upVars
    <2> QED
      BY <1>1, <2>1, <2>2, Zenon DEF UpdateClicked, WizardUpdates
  <1>2. CASE Abort
    <2>1. UNCHANGED <<pipe, result>>
      BY <1>2 DEF Abort
    <2>2. CASE Survives
      BY <2>1, <2>2, SameCourse DEF Survives, c7upVars
    <2>3. CASE Dies
      BY <2>1, <2>3 DEF Dies, Course, OutcomeTold, UnfailedSoFar, Unheard
    <2> QED
      BY <1>2, <2>2, <2>3 DEF Abort
  <1>3. CASE Count \/ Granted \/ PhaseDone \/ PhaseFailed \/ Collect
             \/ \E s \in Source : PhaseStarts(s)
    BY <1>3, WorkKeeps
  <1>4. CASE Refused \/ EndsFailed \/ EndsWell
    BY <1>4, EndKeeps
  <1>5. CASE RunLine
    <2>1. UNCHANGED <<at, failed, code>>
      BY <1>5 DEF RunLine, c7upVars
    <2>2. /\ Unheard => Unheard'
          /\ Heard("ok") => Heard("ok")'
          /\ Heard("failed") => Heard("failed")'
      BY <1>0, <1>5, UnheardStays, HeardStays
    <2> QED
      BY <2>1, <2>2 DEF Course, OutcomeTold, UnfailedSoFar
  <1>6. CASE RunExited
    BY <1>6 DEF RunExited, Course, OutcomeTold, UnfailedSoFar
  <1>7. CASE \/ ArchUpdateCheck \/ SessionDies \/ ReviewClicked \/ RetryClicked \/ WizardCloses
             \/ Check \/ Look \/ LookFails \/ Tell \/ Tick \/ VerdictRead \/ VerdictFailed
             \/ (\E s \in Source : Publish(s)) \/ UNCHANGED vars
    <2>1. UNCHANGED <<at, code, failed, pipe, result>>
      BY <1>7 DEF ArchUpdateCheck, SessionDies, ReviewClicked, RetryClicked, WizardCloses,
         Check, Look, LookFails, Tell, Tick, VerdictRead, VerdictFailed, Publish, vars,
         runVars, c7upVars
    <2> QED
      BY <2>1, SameCourse
  <1> QED
    BY <1>1, <1>2, <1>3, <1>4, <1>5, <1>6, <1>7, Zenon
    DEF Next, World, User, DryRun, Run, Shell

LEMMA CourseHolds == Spec => [](IInv /\ Story /\ Course)
  BY CourseStarts, CourseKeeps, StoryHolds, PTL DEF Spec

\* Where the run of OrderlyUpdate stands, by where c7up stands.
LEMMA Standing ==
    ASSUME IInv, Course
    PROVE  /\ at = "off" => Stage = "idle"
           /\ at \in {"counting", "asking"} => Stage = "asking"
           /\ at = "between" => AtWork /\ Stage = IF failed THEN "broken" ELSE "working"
           /\ at \in {"busy", "collecting"} => AtWork /\ Stage = IF failed THEN "broken" ELSE "working"
           /\ at = "gone" /\ code = 0 => Stage = "ok"
           /\ at = "gone" /\ code = 1 => Stage = "failed"
           /\ at = "gone" /\ code = 2 => Stage = "aborted"
           /\ ~AtWork \/ failed => Todo = {}
           /\ at = "busy" => now \in Source /\ Todo = left \cup {now}
           /\ at \in {"between", "collecting"} /\ ~failed /\ now = "none" => Todo = left
  BY UpdateAssumption DEF IInv, Rest, TypeOK, Types, PastTheDialog, Course, OutcomeTold,
     UnfailedSoFar, Stage, Ended, Underway, Todo, AtWork, Rank

LEMMA StartMaps == Init => Orderly!OUInit
  <1> SUFFICES ASSUME Init PROVE Orderly!OUInit
    OBVIOUS
  <1>1. at = "off" /\ ~running /\ result = "none" /\ have = Nothing
    BY DEF Init
  <1>2. Stage = "idle" /\ Todo = {} /\ Reported = "none"
    BY <1>1 DEF Stage, Todo, AtWork, Reported
  <1>3. have \in [Source -> Releases]
    BY <1>1, UpdateAssumption DEF Nothing, Releases
  <1> QED
    BY <1>2, <1>3 DEF Orderly!OUInit

\* A step the person who waits for the run does not see.
LEMMA StillMaps ==
    ASSUME UNCHANGED <<Stage, Todo, have, Reported>>
    PROVE  [Orderly!OUNext]_(Orderly!ouVars)
  BY DEF Orderly!ouVars

\* apply(): the run begins by asking.
LEMMA ApplyMaps ==
    ASSUME IInv, Course, ~running, Apply
    PROVE  Orderly!OUNext
  <1>1. at = "off" /\ Stage = "idle" /\ Todo = {}
    BY Standing DEF IInv, Rest, RunIsKnown, TypeOK, Flags, AtWork
  <1>2. at' = "counting" /\ have' = have /\ running'
    BY DEF Apply, machine
  <1>3. Stage' = "asking" /\ Todo' = {}
    BY <1>2 DEF Stage, Underway, Todo, AtWork
  <1>4. Reported' = "none"
    BY <1>2 DEF Reported
  <1>5. Orderly!Begin
    BY <1>1, <1>2, <1>3, <1>4 DEF Orderly!Begin
  <1> QED
    BY <1>5 DEF Orderly!OUNext

\* SIGINT in the script, or a refused dialog.
LEMMA CeaseMaps ==
    ASSUME IInv, Course, at \in {"counting", "asking", "between", "collecting"},
           at' = "gone", code' = 2, UNCHANGED <<have, running, result>>
    PROVE  Orderly!OUNext
  <1>1. Stage \in {"asking", "working", "broken"}
    BY Standing
  <1>2. Stage' = "aborted" /\ Todo' = {}
    BY DEF Stage, Ended, Todo, AtWork
  <1>3. Reported' = Reported
    BY DEF Reported
  <1>4. Orderly!Cease
    BY <1>1, <1>2, <1>3 DEF Orderly!Cease
  <1> QED
    BY <1>4 DEF Orderly!OUNext

\* Root's session is open: what was counted may be worked on.
LEMMA GrantedMaps ==
    ASSUME IInv, Course, Granted
    PROVE  Orderly!OUNext
  <1>1. at = "asking" /\ ~failed /\ Stage = "asking"
    BY Standing DEF Granted, Course, UnfailedSoFar
  <1>2. at' = "between" /\ session' = "open" /\ ~failed'
        /\ UNCHANGED <<have, left, now, running, result>>
    BY <1>1 DEF Granted, C7upKeeps, runVars
  <1>3. Stage' = "working"
    BY <1>2 DEF Stage, Underway, AtWork
  <1>4. Todo' \in SUBSET Source
    BY <1>2 DEF Todo, IInv, TypeOK, Types
  <1>5. Reported' = Reported
    BY <1>2 DEF Reported
  <1>6. Orderly!Allow
    BY <1>1, <1>2, <1>3, <1>4, <1>5 DEF Orderly!Allow
  <1> QED
    BY <1>6 DEF Orderly!OUNext

\* A phase that comes through has brought up the source that was first in turn.
LEMMA PhaseDoneMaps ==
    ASSUME IInv, Story, Course, PhaseDone
    PROVE  Orderly!OUNext
  <1>1. at = "busy" /\ ~failed /\ Stage = "working" /\ Todo = left \cup {now} /\ now \in Source
    BY Standing DEF PhaseDone, Course, UnfailedSoFar
  <1>2. at' = "between" /\ ~failed' /\ now' = "none"
        /\ have' = [have EXCEPT ![now] = release[now]]
        /\ UNCHANGED <<left, session, running, result>>
    BY <1>1 DEF PhaseDone, C7upKeeps, runVars
  <1>3. now \notin left /\ \A t \in left : Rank[now] < Rank[t]
    BY <1>1 DEF Story, InOrder, Begun
  <1>4. "none" \notin Source
    BY UpdateAssumption DEF Rank
  <1>5. AtWork /\ AtWork'
    BY <1>1, <1>2, Standing DEF AtWork
  <1>6. Stage' = "working"
    BY <1>2, <1>5 DEF Stage, Underway
  <1>7. Todo' = left
    BY <1>2, <1>4, <1>5 DEF Todo
  <1>8. left = Todo \ {now}
    BY <1>1, <1>3
  <1>9. release[now] \in Releases
    BY <1>1 DEF IInv, TypeOK, Types
  <1>10. \A t \in Todo : t # now => RankedBefore(now, t)
    BY <1>1, <1>3 DEF RankedBefore
  <1>11. Reported' = Reported
    BY <1>2 DEF Reported
  <1>12. Orderly!Install(now)
    BY <1>1, <1>2, <1>6, <1>7, <1>8, <1>9, <1>10, <1>11 DEF Orderly!Install
  <1> QED
    BY <1>1, <1>12 DEF Orderly!OUNext

LEMMA PhaseFailedMaps ==
    ASSUME IInv, Course, PhaseFailed
    PROVE  Orderly!OUNext
  <1>1. at = "busy" /\ ~failed /\ AtWork /\ Stage = "working"
    BY Standing DEF PhaseFailed, Course, UnfailedSoFar
  <1>2. at' = "between" /\ failed' /\ UNCHANGED <<have, session, running, result>>
    BY DEF PhaseFailed, C7upKeeps, runVars
  <1>3. Stage' = "broken" /\ Todo' = {}
    BY <1>1, <1>2 DEF Stage, Underway, Todo, AtWork
  <1>4. Reported' = Reported
    BY <1>2 DEF Reported
  <1>5. Orderly!Break
    BY <1>1, <1>2, <1>3, <1>4 DEF Orderly!Break
  <1> QED
    BY <1>5 DEF Orderly!OUNext

LEMMA EndsFailedMaps ==
    ASSUME IInv, Course, EndsFailed
    PROVE  Orderly!OUNext
  <1>1. Stage = "broken" /\ Todo = {}
    BY Standing DEF EndsFailed
  <1>2. at' = "gone" /\ code' = 1 /\ UNCHANGED <<have, running, result>>
    BY DEF EndsFailed, C7upKeeps, runVars
  <1>3. Stage' = "failed" /\ Todo' = {}
    BY <1>2 DEF Stage, Ended, Todo, AtWork
  <1>4. Reported' = Reported
    BY <1>2 DEF Reported
  <1>5. Orderly!GiveUp
    BY <1>1, <1>2, <1>3, <1>4 DEF Orderly!GiveUp
  <1> QED
    BY <1>5 DEF Orderly!OUNext

LEMMA EndsWellMaps ==
    ASSUME IInv, Story, Course, EndsWell
    PROVE  Orderly!OUNext
  <1>1. at = "collecting" /\ ~failed /\ left = {} /\ now = "none" /\ code = 0
    BY DEF EndsWell, Story, InOrder, Course, OutcomeTold
  <1>2. Stage = "working" /\ Todo = {}
    BY <1>1, Standing
  <1>3. at' = "gone" /\ code' = 0 /\ UNCHANGED <<have, running, result>>
    BY <1>1 DEF EndsWell, C7upKeeps, runVars
  <1>4. Stage' = "ok" /\ Todo' = {}
    BY <1>3 DEF Stage, Ended, Todo, AtWork
  <1>5. Reported' = Reported
    BY <1>3 DEF Reported
  <1>6. Orderly!Complete
    BY <1>2, <1>3, <1>4, <1>5 DEF Orderly!Complete
  <1> QED
    BY <1>6 DEF Orderly!OUNext

\* runProc.onExited: the pipe has been read, so line and exit code agree.
LEMMA ExitMaps ==
    ASSUME IInv, Course, RunExited
    PROVE  Orderly!OUNext
  <1>1. at = "gone" /\ Len(pipe) = 0 /\ code \in 0..2
    BY DEF RunExited, IInv, TypeOK, Types
  <1>2. Outcome = Stage
    <2>1. CASE code = 0
      BY <1>1, <2>1, Standing DEF Course, OutcomeTold, Heard, Said, Outcome
    <2>2. CASE code = 1
      BY <1>1, <2>2, Standing DEF Course, OutcomeTold, Heard, Said, Outcome
    <2>3. CASE code = 2
      BY <1>1, <2>3, Standing DEF Course, OutcomeTold, Unheard, Outcome
    <2> QED
      BY <1>1, <2>1, <2>2, <2>3
  <1>3. Stage \in {"ok", "failed", "aborted"} /\ Todo = {}
    BY <1>1, Standing DEF AtWork
  <1>4. at' = "off" /\ ~running' /\ result' = Outcome /\ have' = have
    BY DEF RunExited, machine
  <1>5. Stage' = "idle" /\ Todo' = {} /\ Reported' = Outcome
    BY <1>4 DEF Stage, Todo, AtWork, Reported
  <1>6. Orderly!Report
    BY <1>2, <1>3, <1>4, <1>5 DEF Orderly!Report, Orderly!Endings
  <1> QED
    BY <1>6 DEF Orderly!OUNext

\* The steps of the run that change nothing for whoever waits for it.
LEMMA QuietMaps ==
    ASSUME IInv, Story, Course,
           \/ Count \/ Collect \/ RunLine \/ SessionDies \/ \E s \in Source : PhaseStarts(s)
    PROVE  UNCHANGED <<Stage, Todo, have, Reported>>
  <1>1. CASE Count
    <2>1. Stage = "asking" /\ Todo = {}
      BY <1>1, Standing DEF Count, AtWork
    <2>2. at' = "asking" /\ UNCHANGED <<have, running, result>>
      BY <1>1 DEF Count, C7upKeeps, runVars
    <2> QED
      BY <2>1, <2>2 DEF Stage, Underway, Todo, AtWork, Reported
  <1>2. CASE Collect
    <2>1. at = "between" /\ ~failed /\ at' = "collecting"
          /\ UNCHANGED <<have, left, now, failed, session, running, result>>
      BY <1>2 DEF Collect, C7upKeeps, runVars
    <2> QED
      BY <2>1 DEF Stage, Underway, Todo, AtWork, Reported
  <1>3. CASE RunLine
    <2>1. UNCHANGED <<have, at, left, now, failed, code, session, running>>
      BY <1>3 DEF RunLine, machine, c7upVars
    <2>2. running
      BY <1>3 DEF RunLine, Story, AuthStory, IInv, Rest, RunIsKnown
    <2> QED
      BY <2>1, <2>2 DEF Stage, Ended, Underway, Todo, AtWork, Reported
  <1>4. CASE SessionDies
    <2>1. /\ session = "open" /\ session' = "dead"
          /\ UNCHANGED <<have, at, left, now, failed, code, running, result>>
      BY <1>4 DEF SessionDies, machine, runVars
    <2> QED
      BY <2>1 DEF Stage, Ended, Underway, Todo, AtWork, Reported
  <1>5. ASSUME NEW s \in Source, PhaseStarts(s)
        PROVE  UNCHANGED <<Stage, Todo, have, Reported>>
    <2>1. at = "between" /\ ~failed /\ s \in left /\ now = "none"
      BY <1>5 DEF PhaseStarts, MayStart, Story, InOrder
    <2>2. at' = "busy" /\ ~failed' /\ now' = s /\ left' = left \ {s}
          /\ UNCHANGED <<have, session, running, result>>
      BY <1>5, <2>1 DEF PhaseStarts, C7upKeeps, runVars
    <2>3. AtWork /\ AtWork'
      BY <2>1, <2>2, Standing DEF AtWork
    <2>4. Stage' = Stage
      BY <2>1, <2>2, <2>3 DEF Stage, Underway
    <2>5. Todo = left /\ Todo' = (left \ {s}) \cup {s}
      BY <2>1, <2>2, <2>3, Standing DEF Todo
    <2>6. Todo' = Todo
      BY <2>1, <2>5
    <2> QED
      BY <2>2, <2>4, <2>6 DEF Reported
  <1> QED
    BY <1>1, <1>2, <1>3, <1>4, <1>5

LEMMA StepMaps ==
    IInv /\ Story /\ Course /\ [Next]_vars => [Orderly!OUNext]_(Orderly!ouVars)
  <1> SUFFICES ASSUME IInv, Story, Course, [Next]_vars
               PROVE  [Orderly!OUNext]_(Orderly!ouVars)
    OBVIOUS
  <1>1. CASE UNCHANGED <<have, at, left, now, failed, code, session, running, result>>
    <2>1. UNCHANGED <<Stage, Todo, have, Reported>>
      BY <1>1 DEF Stage, Ended, Underway, Todo, AtWork, Reported
    <2> QED
      BY <2>1, StillMaps
  <1>2. CASE Orderly!OUNext
    BY <1>2
  <1>3. CASE UpdateClicked \/ WizardUpdates
    <2>1. \/ ~running /\ Apply
          \/ UNCHANGED <<have, at, left, now, failed, code, session, running, result>>
      BY <1>3 DEF UpdateClicked, WizardUpdates, Apply, machine, runVars, c7upVars
    <2> QED
      BY <1>1, <1>2, <2>1, ApplyMaps
  <1>4. CASE Abort
    <2>1. UNCHANGED <<have, running, result>>
      BY <1>4 DEF Abort, machine
    <2>2. CASE Dies
      BY <1>2, <2>1, <2>2, CeaseMaps DEF Dies
    <2>3. CASE Survives
      BY <1>1, <2>1, <2>3 DEF Survives, c7upVars
    <2> QED
      BY <1>4, <2>2, <2>3 DEF Abort
  <1>5. CASE Refused
    <2>1. at = "asking" /\ at' = "gone" /\ code' = 2 /\ UNCHANGED <<have, running, result>>
      BY <1>5 DEF Refused, C7upKeeps, runVars
    <2> QED
      BY <1>2, <2>1, CeaseMaps
  <1>6. CASE Granted \/ PhaseDone \/ PhaseFailed \/ EndsFailed \/ EndsWell \/ RunExited
    BY <1>2, <1>6, GrantedMaps, PhaseDoneMaps, PhaseFailedMaps, EndsFailedMaps, EndsWellMaps,
       ExitMaps
  <1>7. CASE \/ Count \/ Collect \/ RunLine \/ SessionDies \/ \E s \in Source : PhaseStarts(s)
    BY <1>7, QuietMaps, StillMaps
  <1>8. CASE \/ ArchUpdateCheck \/ ReviewClicked \/ RetryClicked \/ WizardCloses
             \/ Check \/ Look \/ LookFails \/ Tell \/ Tick \/ VerdictRead \/ VerdictFailed
             \/ (\E s \in Source : Publish(s)) \/ UNCHANGED vars
    <2>1. UNCHANGED <<have, at, left, now, failed, code, session, running, result>>
      BY <1>8 DEF ArchUpdateCheck, ReviewClicked, RetryClicked, WizardCloses, Check, Look,
         LookFails, Tell, Tick, VerdictRead, VerdictFailed, Publish, vars, machine, runVars,
         c7upVars
    <2> QED
      BY <1>1, <2>1
  <1> QED
    BY <1>3, <1>4, <1>5, <1>6, <1>7, <1>8, Zenon DEF Next, World, User, DryRun, Run, Shell

(* c7up, its root session, the pipe and the shell together keep the promise *)
(* of OrderlyUpdate for every set of sources: whatever is refused, fails,   *)
(* dies or is aborted, and however late the shell reads, sources are        *)
(* brought up in order and by leave alone, and what is reported happened.   *)
THEOREM OrderIsKept == Spec => KeepsOrder
  <1>1. Init => Orderly!OUInit
    BY StartMaps
  <1>2. IInv /\ Story /\ Course /\ [Next]_vars => [Orderly!OUNext]_(Orderly!ouVars)
    BY StepMaps
  <1> QED
    BY <1>1, <1>2, CourseHolds, PTL DEF Spec, KeepsOrder, Orderly!OUSpec

-----------------------------------------------------------------------------
(* A run winds down.                                                        *)

\* The sources that are left are finitely many.
LEMMA SourcesAreFew ==
    /\ IsFiniteSet(Source) /\ Cardinality(Source) \in Nat
    /\ \A S \in SUBSET Source : Cardinality(S) \in Nat /\ Cardinality(S) <= Cardinality(Source)
    /\ \A S \in SUBSET Source : \A s \in S : Cardinality(S \ {s}) = Cardinality(S) - 1
  <1>1. IsFiniteSet({} \cup {"pacman"} \cup {"aur"} \cup {"flatpak"})
    BY FS_EmptySet, FS_AddElement
  <1>2. Source \subseteq {} \cup {"pacman"} \cup {"aur"} \cup {"flatpak"}
    BY UpdateAssumption DEF Rank
  <1>3. IsFiniteSet(Source)
    BY <1>1, <1>2, FS_Subset
  <1>4. ASSUME NEW S \in SUBSET Source
        PROVE  IsFiniteSet(S) /\ Cardinality(S) <= Cardinality(Source)
    BY <1>3, FS_Subset
  <1>5. ASSUME NEW S \in SUBSET Source, NEW s \in S
        PROVE  Cardinality(S \ {s}) = Cardinality(S) - 1
    BY <1>4, FS_RemoveElement
  <1> QED
    BY <1>3, <1>4, <1>5, FS_CardinalityType

\* What is ahead, by where c7up stands.
LEMMA AheadThere ==
    /\ at = "counting" => StepsAhead = 2 * Cardinality(Source) + 4
    /\ at = "asking" => StepsAhead = 2 * Cardinality(left) + 3
    /\ at = "between" => StepsAhead = 2 * Cardinality(left) + 2
    /\ at = "busy" => StepsAhead = 2 * Cardinality(left) + 3
    /\ at = "collecting" => StepsAhead = 1
    /\ at = "gone" => StepsAhead = 0
  BY DEF StepsAhead, PhasesAhead

LEMMA AheadThen ==
    /\ at' = "asking" => StepsAhead' = 2 * Cardinality(left') + 3
    /\ at' = "between" => StepsAhead' = 2 * Cardinality(left') + 2
    /\ at' = "busy" => StepsAhead' = 2 * Cardinality(left') + 3
    /\ at' = "collecting" => StepsAhead' = 1
    /\ at' = "gone" => StepsAhead' = 0
  BY DEF StepsAhead, PhasesAhead

\* Each step of c7up takes it on.
LEMMA StepsGoOn ==
    ASSUME IInv, Run \/ Dies, files \subseteq Source
    PROVE  StepsAhead \in Nat /\ StepsAhead' \in Nat /\ StepsAhead' < StepsAhead
  <1>1. left \subseteq Source
    BY DEF IInv, TypeOK, Types
  <1>2. Cardinality(left) \in Nat /\ Cardinality(Source) \in Nat /\ Cardinality(files) \in Nat
        /\ Cardinality(files) <= Cardinality(Source)
    BY <1>1, SourcesAreFew
  <1>3. CASE Count
    BY <1>2, <1>3, AheadThere, AheadThen DEF Count
  <1>4. CASE Granted \/ Refused
    BY <1>2, <1>4, AheadThere, AheadThen DEF Granted, Refused
  <1>5. CASE PhaseDone \/ PhaseFailed
    BY <1>2, <1>5, AheadThere, AheadThen DEF PhaseDone, PhaseFailed
  <1>6. CASE EndsFailed \/ Collect \/ EndsWell
    BY <1>2, <1>6, AheadThere, AheadThen DEF EndsFailed, Collect, EndsWell
  <1>7. ASSUME NEW s \in Source, PhaseStarts(s)
        PROVE  StepsAhead \in Nat /\ StepsAhead' \in Nat /\ StepsAhead' < StepsAhead
    <2>1. at = "between" /\ at' = "busy" /\ s \in left /\ left' = left \ {s}
      BY <1>7 DEF PhaseStarts, MayStart
    <2>2. Cardinality(left') = Cardinality(left) - 1 /\ Cardinality(left') \in Nat
      BY <1>1, <2>1, SourcesAreFew
    <2> QED
      BY <1>2, <2>1, <2>2, AheadThere, AheadThen
  <1>8. CASE Dies
    BY <1>2, <1>8, AheadThere, AheadThen DEF Dies
  <1> QED
    BY <1>3, <1>4, <1>5, <1>6, <1>7, <1>8 DEF Run

\* And says at most one line.
LEMMA SaysLittle ==
    ASSUME IInv, Run
    PROVE  Len(pipe) \in Nat /\ Len(pipe') \in Nat /\ Len(pipe') <= Len(pipe) + 1
  <1>1. TypeOK
    BY DEF IInv
  <1>2. pipe' = pipe \/ \E line : Emit(line)
    BY Zenon DEF Run, Count, Granted, Refused, PhaseDone, PhaseFailed, EndsFailed, Collect, EndsWell,
                 PhaseStarts
  <1>3. ASSUME NEW line, Emit(line)
        PROVE  Len(pipe) \in Nat /\ Len(pipe') = Len(pipe) + 1
    BY <1>1, <1>3, Emits
  <1>4. Len(pipe) \in Nat
    BY <1>1 DEF TypeOK, Types
  <1> QED
    BY <1>2, <1>3, <1>4

\* The other steps leave the run where it is, begin one or end one.
LEMMA OtherSteps ==
    ASSUME IInv, [Next]_vars, running, running'
    PROVE  \/ UNCHANGED <<at, left, pipe>>
           \/ Run
           \/ Dies /\ UNCHANGED pipe
           \/ RunLine
  <1>1. CASE World
    BY <1>1, Zenon DEF World, ArchUpdateCheck, SessionDies, Publish, c7upVars
  <1>2. CASE UpdateClicked
    BY <1>2, Zenon DEF UpdateClicked, Apply
  <1>3. CASE ReviewClicked \/ RetryClicked \/ WizardCloses
    BY <1>3, Zenon DEF ReviewClicked, RetryClicked, WizardCloses, c7upVars
  <1>4. CASE WizardUpdates
    BY <1>4, Zenon DEF WizardUpdates, c7upVars
  <1>5. CASE Abort
    BY <1>5, Zenon DEF Abort, Survives, c7upVars
  <1>6. CASE Check \/ DryRun
    BY <1>6, Zenon DEF Check, DryRun, Look, LookFails, Tell, c7upVars
  <1>7. CASE Tick \/ VerdictRead \/ VerdictFailed
    BY <1>7, Zenon DEF Tick, VerdictRead, VerdictFailed, c7upVars
  <1>8. CASE RunExited
    BY <1>8, Zenon DEF RunExited
  <1>9. CASE UNCHANGED vars
    BY <1>9, Zenon DEF vars, c7upVars
  <1> QED
    BY <1>1, <1>2, <1>3, <1>4, <1>5, <1>6, <1>7, <1>8, <1>9, Zenon DEF Next, User, Shell

(* Every step of c7up and every line that is read brings the end of the run *)
(* nearer (do_run, abort, runProc.stdout): a run of n sources is over after *)
(* at most 4n + 8 of them.  That some step can be taken is what RunEnds is  *)
(* model-checked for.                                                       *)
THEOREM RunsAreFinite == Spec => RunsWindDown
  <1>1. ASSUME IInv, [Next]_vars, running, running', <<at, pipe>>' # <<at, pipe>>
        PROVE  Fuel' < Fuel
    <2>1. pipe \in Seq(Line) /\ files \subseteq Source
      BY <1>1 DEF IInv, TypeOK, Types
    <2>2. Len(pipe) \in Nat
      BY <2>1
    <2>3. CASE Run
      BY <1>1, <2>1, <2>3, StepsGoOn, SaysLittle DEF Fuel
    <2>4. CASE Dies /\ UNCHANGED pipe
      BY <1>1, <2>1, <2>2, <2>4, StepsGoOn DEF Fuel
    <2>5. CASE RunLine
      <3>1. UNCHANGED <<at, left>> /\ pipe # <<>> /\ pipe' = Tail(pipe)
        BY <2>5 DEF RunLine, c7upVars
      <3>2. StepsAhead' = StepsAhead /\ StepsAhead \in Nat
        <4>1. left \subseteq Source /\ at # "off"
          BY <1>1 DEF IInv, TypeOK, Types, Rest, RunIsKnown
        <4>2. Cardinality(left) \in Nat /\ Cardinality(Source) \in Nat
          BY <4>1, SourcesAreFew
        <4>3. StepsAhead' = StepsAhead
          BY <3>1 DEF StepsAhead, PhasesAhead
        <4>4. at \in {"counting", "asking", "between", "busy", "collecting", "gone"}
          BY <1>1, <4>1 DEF IInv, TypeOK, Types
        <4> QED
          BY <4>2, <4>3, <4>4, AheadThere
      <3>3. Len(pipe') = Len(pipe) - 1
        BY <2>1, <3>1
      <3> QED
        BY <2>2, <3>2, <3>3 DEF Fuel
    <2> QED
      BY <1>1, <2>3, <2>4, <2>5, OtherSteps
  <1>2. IInv /\ [Next]_vars =>
          [running /\ running' /\ <<at, pipe>>' # <<at, pipe>> => Fuel' < Fuel]_vars
    BY <1>1
  <1> QED
    BY <1>2, Invariance, PTL DEF Spec, RunsWindDown
=============================================================================
