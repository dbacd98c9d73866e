---------------------------- MODULE UpdateFlow ----------------------------
(* The update flow: Services/UpdatesService.qml in the shell's process, and *)
(* the processes it starts: `c7up verdict` (the dry run), `c7up run` with   *)
(* its root session, and through that session pacman and the AUR helper.    *)
(* The shell sees a run only as lines in a pipe followed by an exit code,   *)
(* so it lags behind; the dry run and the run share arch-update's state     *)
(* files, and nothing serialises the two once both are going.               *)
(*                                                                          *)
(* What is pending is abstracted to one number per source: the release last *)
(* published upstream against the one the machine has.  Package lists,      *)
(* decisions, progress counts, log lines and the step-3 lists (pacnew files,*)
(* services, orphans) ride on the same events and are left out.  The last   *)
(* line of a dry run and its exit reach the shell in one step.              *)
(*                                                                          *)
(* An operator named X_slip is X with a plausible slip in it; no            *)
(* specification uses it.                                                   *)
EXTENDS Naturals, Sequences, FiniteSets

CONSTANTS Source,     \* the sources in use, of "pacman", "aur" and "flatpak"
          MaxRelease, \* bound on the releases published per source
          FromWizard, \* the user may press the wizard's own update button
          MayDie      \* the root session may be killed from outside

Rank == [pacman |-> 1, aur |-> 2, flatpak |-> 3]

ASSUME UpdateAssumption ==
    /\ Source \subseteq DOMAIN Rank
    /\ MaxRelease \in Nat \ {0}
    /\ FromWizard \in BOOLEAN
    /\ MayDie \in BOOLEAN

VARIABLES
    release,   \* last release published upstream, by source
    have,      \* release the machine has
    files,     \* sources whose last_updates_check_* file is not empty
    dry,       \* how far `c7up verdict` has got
    saw,       \* what it found: the pending release by source, 0 for none
    known,     \* UpdatesService.verdict !== null
    listed,    \* the releases that verdict lists
    checking, checkError, running,
    awaiting,  \* UpdatesService.awaitingAuth
    phases, result,
    timer,     \* refreshAfterRun is running
    wizard,    \* the update wizard: closed, at step 1, at step 2, failure view
    aborting,  \* the user has pressed abort in this run
    at,        \* where `c7up run` stands
    plan,      \* sources it counted something for
    left,      \* those whose phase is still to come
    now,       \* source of the phase that runs
    failed, code,
    session,   \* its root session
    pipe       \* lines it has printed and the shell has not read

machine == <<release, have>>
dryVars == <<dry, saw>>
viewVars == <<known, listed, checking, checkError, timer>>
runVars == <<running, awaiting, phases, result, aborting>>
c7upVars == <<at, plan, left, now, failed, code, session>>
vars == <<machine, files, dryVars, viewVars, runVars, wizard, c7upVars, pipe>>

Releases == 0..MaxRelease
Nothing == [s \in Source |-> 0]
Pending == {s \in Source : have[s] < release[s]}

Line == ({"auth"} \X {"waiting", "granted", "denied"})
        \cup ({"phase"} \X Source \X {"running", "done", "failed"})
        \cup ({"done"} \X {"ok", "failed"})

Flags ==
    /\ known \in BOOLEAN
    /\ checking \in BOOLEAN /\ checkError \in BOOLEAN /\ timer \in BOOLEAN
    /\ running \in BOOLEAN /\ awaiting \in BOOLEAN
    /\ aborting \in BOOLEAN /\ failed \in BOOLEAN

Types ==
    /\ release \in [Source -> Releases]
    /\ have \in [Source -> Releases]
    /\ files \subseteq Source
    /\ dry \in {"off", "looking", "looked", "told", "failed"}
    /\ saw \in [Source -> Releases]
    /\ listed \in [Source -> Releases]
    /\ phases \in [Source -> {"none", "running", "done", "failed"}]
    /\ result \in {"none", "ok", "failed", "aborted"}
    /\ wizard \in {"closed", "approve", "run", "failure"}
    /\ at \in {"off", "counting", "asking", "between", "busy", "collecting", "gone"}
    /\ plan \subseteq Source
    /\ left \subseteq plan
    /\ now \in Source \cup {"none"}
    /\ at = "busy" => now \in Source
    /\ code \in 0..2
    /\ session \in {"none", "asking", "open", "dead"}
    /\ pipe \in Seq(Line)

TypeOK == Flags /\ Types

Init ==
    /\ release \in [Source -> 0..1]
    /\ have = Nothing
    /\ files \in SUBSET Source   \* as the last boot left them
    /\ dry = "off" /\ saw = Nothing
    /\ known = FALSE /\ listed = Nothing
    /\ checking = FALSE /\ checkError = FALSE
    /\ running = FALSE /\ awaiting = FALSE
    /\ phases = [s \in Source |-> "none"]
    /\ result = "none"
    /\ timer = FALSE /\ aborting = FALSE
    /\ wizard = "closed"
    /\ at = "off" /\ plan = {} /\ left = {} /\ now = "none"
    /\ failed = FALSE /\ code = 0
    /\ session = "none"
    /\ pipe = <<>>

-----------------------------------------------------------------------------
(* The world: new releases, and arch-update's own timer, which writes the   *)
(* state files from a check of its own.                                     *)

Publish(s) ==
    /\ release[s] < MaxRelease
    /\ release' = [release EXCEPT ![s] = @ + 1]
    /\ UNCHANGED <<have, files, dryVars, viewVars, runVars, wizard, c7upVars, pipe>>

ArchUpdateCheck ==
    /\ files # Pending
    /\ files' = Pending
    /\ UNCHANGED <<machine, dryVars, viewVars, runVars, wizard, c7upVars, pipe>>

-----------------------------------------------------------------------------
(* refresh() and the dry run it starts.                                     *)

\* slip: guarded on the flag instead of the process
MayRefresh_slip == ~checking /\ ~running

\* refresh(): TRUE when it goes past its guard.
MayRefresh == dry = "off" /\ ~running

Refresh ==
    /\ timer' = FALSE
    /\ checking' = TRUE
    /\ checkError' = FALSE
    /\ dry' = "looking"
    /\ UNCHANGED <<saw, known, listed>>

\* The 60 s and 30 min timers, "check now" and the dropdown's icon.
Check ==
    /\ MayRefresh
    /\ Refresh
    /\ UNCHANGED <<machine, files, runVars, wizard, c7upVars, pipe>>

\* refreshAfterRun fires once; a refresh() that returns early is not retried.
Tick ==
    /\ timer
    /\ IF MayRefresh
         THEN Refresh
         ELSE timer' = FALSE /\ UNCHANGED <<dryVars, known, listed, checking, checkError>>
    /\ UNCHANGED <<machine, files, runVars, wizard, c7upVars, pipe>>

\* checkupdates, the helper's -Qua and flatpak remote-ls.
Look ==
    /\ dry = "looking"
    /\ dry' = "looked"
    /\ saw' = [s \in Source |-> IF s \in Pending THEN release[s] ELSE 0]
    /\ UNCHANGED <<machine, files, viewVars, runVars, wizard, c7upVars, pipe>>

LookFails ==
    /\ dry = "looking"
    /\ dry' = "failed"
    /\ UNCHANGED <<machine, files, saw, viewVars, runVars, wizard, c7upVars, pipe>>

\* The state files are written before the verdict line.
Tell ==
    /\ dry = "looked"
    /\ dry' = "told"
    /\ files' = {s \in Source : saw[s] > 0}
    /\ UNCHANGED <<machine, saw, viewVars, runVars, wizard, c7upVars, pipe>>

VerdictRead ==
    /\ dry = "told"
    /\ known' = TRUE
    /\ listed' = saw
    /\ checking' = FALSE
    /\ dry' = "off" /\ saw' = Nothing
    /\ UNCHANGED <<machine, files, checkError, timer, runVars, wizard, c7upVars, pipe>>

VerdictFailed ==
    /\ dry = "failed"
    /\ checkError' = TRUE
    /\ checking' = FALSE
    /\ dry' = "off"
    /\ UNCHANGED <<machine, files, saw, known, listed, timer, runVars, wizard, c7upVars, pipe>>

-----------------------------------------------------------------------------
(* apply(), abort() and the views they are reached from.                    *)

Total == known /\ listed # Nothing

\* slip: the rows of the last run are left standing
Apply_slip ==
    /\ ~running
    /\ running' = TRUE
    /\ awaiting' = FALSE
    /\ result' = "none"
    /\ aborting' = FALSE
    /\ at' = "counting" /\ plan' = {} /\ left' = {} /\ now' = "none"
    /\ failed' = FALSE /\ code' = 0
    /\ session' = "none"
    /\ UNCHANGED <<machine, files, dryVars, viewVars, phases, pipe>>

Apply ==
    /\ ~running
    /\ running' = TRUE
    /\ awaiting' = FALSE
    /\ phases' = [s \in Source |-> "none"]
    /\ result' = "none"
    /\ aborting' = FALSE
    /\ at' = "counting" /\ plan' = {} /\ left' = {} /\ now' = "none"
    /\ failed' = FALSE /\ code' = 0
    /\ session' = "none"
    /\ UNCHANGED <<machine, files, dryVars, viewVars, pipe>>

\* The dropdown's one button, on a clean verdict.
UpdateClicked ==
    /\ Total /\ ~checking
    /\ Apply
    /\ UNCHANGED wizard

\* The same button on a verdict that needs a decision.
ReviewClicked ==
    /\ FromWizard
    /\ Total /\ ~checking /\ ~running
    /\ wizard' = "approve"
    /\ UNCHANGED <<machine, files, dryVars, viewVars, runVars, c7upVars, pipe>>

\* "retry" in the failure view leads back to step 1.
RetryClicked ==
    /\ FromWizard
    /\ wizard = "failure"
    /\ wizard' = "approve"
    /\ UNCHANGED <<machine, files, dryVars, viewVars, runVars, c7upVars, pipe>>

\* Step 1's button; apply() does nothing while a run is on, the step changes all the same.
WizardUpdates ==
    /\ wizard = "approve"
    /\ wizard' = "run"
    /\ IF running THEN UNCHANGED <<machine, files, dryVars, viewVars, runVars, c7upVars, pipe>>
                  ELSE Apply

WizardCloses ==
    /\ wizard \in {"approve", "failure"}
    /\ wizard' = "closed"
    /\ UNCHANGED <<machine, files, dryVars, viewVars, runVars, c7upVars, pipe>>

\* SIGINT to the bash that runs c7up, and to it alone.  It dies of it where
\* it is reading or substituting a command; while it waits for a pipeline
\* whose commands do not die of SIGINT themselves, it carries on as before.
Dies ==
    /\ at \in {"counting", "asking", "between", "collecting"}
    /\ at' = "gone"
    /\ code' = 2
    /\ session' = "none"
    /\ UNCHANGED <<plan, left, now, failed>>

Survives ==
    /\ at \in {"between", "busy", "gone"}
    /\ UNCHANGED c7upVars

Abort ==
    /\ running
    /\ aborting' = TRUE
    /\ Dies \/ Survives
    /\ UNCHANGED <<machine, files, dryVars, viewVars, running, awaiting, phases, result, wizard, pipe>>

-----------------------------------------------------------------------------
(* c7up run.                                                                *)

C7upKeeps == UNCHANGED <<release, dryVars, viewVars, runVars, wizard>>

Emit(line) == pipe' = Append(pipe, line)

\* The counts come from the state files, and root is asked for in any case.
Count ==
    /\ at = "counting"
    /\ at' = "asking"
    /\ plan' = files /\ left' = files
    /\ session' = "asking"
    /\ Emit(<<"auth", "waiting">>)
    /\ UNCHANGED <<have, files, now, failed, code>>
    /\ C7upKeeps

\* The reply to ping.
Granted ==
    /\ at = "asking" /\ session = "asking"
    /\ at' = "between"
    /\ session' = "open"
    /\ Emit(<<"auth", "granted">>)
    /\ UNCHANGED <<have, files, plan, left, now, failed, code>>
    /\ C7upKeeps

\* slip: the refusal is reported and the run goes on without a session
Refused_slip ==
    /\ at = "asking" /\ session = "asking"
    /\ at' = "between"
    /\ session' = "none"
    /\ Emit(<<"auth", "denied">>)
    /\ UNCHANGED <<have, files, plan, left, now, failed, code>>
    /\ C7upKeeps

\* slip: the reply fifo is opened for writing too, so no end of file comes
Refused_blind ==
    /\ at = "asking" /\ session = "asking"
    /\ session' = "none"
    /\ UNCHANGED <<have, files, at, plan, left, now, failed, code, pipe>>
    /\ C7upKeeps

\* End of file instead of a reply: return 2.
Refused ==
    /\ at = "asking" /\ session = "asking"
    /\ at' = "gone"
    /\ code' = 2
    /\ session' = "none"
    /\ Emit(<<"auth", "denied">>)
    /\ UNCHANGED <<have, files, plan, left, now, failed>>
    /\ C7upKeeps

\* slip: the guard on the failure is missing
MayStart_slip(s) == s \in left /\ \A t \in left : Rank[s] <= Rank[t]

\* No phase follows a failed one.
MayStart(s) == ~failed /\ s \in left /\ \A t \in left : Rank[s] <= Rank[t]

PhaseStarts(s) ==
    /\ at = "between"
    /\ MayStart(s)
    /\ at' = "busy"
    /\ now' = s
    /\ left' = left \ {s}
    /\ Emit(<<"phase", s, "running">>)
    /\ UNCHANGED <<have, files, plan, failed, code, session>>
    /\ C7upKeeps

\* pacman and the AUR helper install through the session, flatpak without it.
PhaseDone ==
    /\ at = "busy"
    /\ now = "flatpak" \/ session = "open"
    /\ at' = "between"
    /\ have' = [have EXCEPT ![now] = release[now]]
    /\ files' = files \ {now}
    /\ now' = "none"
    /\ Emit(<<"phase", now, "done">>)
    /\ UNCHANGED <<plan, left, failed, code, session>>
    /\ C7upKeeps

PhaseFailed ==
    /\ at = "busy"
    /\ at' = "between"
    /\ failed' = TRUE
    /\ now' = "none"
    /\ Emit(<<"phase", now, "failed">>)
    /\ UNCHANGED <<have, files, plan, left, code, session>>
    /\ C7upKeeps

\* {"ev":"done","ok":false}, return 1.
EndsFailed ==
    /\ at = "between"
    /\ failed
    /\ at' = "gone"
    /\ code' = 1
    /\ session' = "none"
    /\ Emit(<<"done", "failed">>)
    /\ UNCHANGED <<have, files, plan, left, now, failed>>
    /\ C7upKeeps

\* The step-3 lists: pacdiff, the service check, the orphans.
Collect ==
    /\ at = "between"
    /\ ~failed /\ left = {}
    /\ at' = "collecting"
    /\ UNCHANGED <<have, files, plan, left, now, failed, code, session, pipe>>
    /\ C7upKeeps

EndsWell ==
    /\ at = "collecting"
    /\ at' = "gone"
    /\ session' = "none"
    /\ Emit(<<"done", "ok">>)
    /\ UNCHANGED <<have, files, plan, left, now, failed, code>>
    /\ C7upKeeps

\* Root is killed, or the session's interpreter crashes.
SessionDies ==
    /\ MayDie
    /\ session = "open"
    /\ session' = "dead"
    /\ UNCHANGED <<machine, files, dryVars, viewVars, runVars, wizard,
                   at, plan, left, now, failed, code, pipe>>

\* bin/c7up-sudo opens the reply fifo for reading, and no one will ever open
\* it for writing: the helper's install waits for ever.
Hung == now = "aur" /\ session = "dead"

-----------------------------------------------------------------------------
(* runProc in the shell.                                                    *)

RunLine ==
    /\ pipe # <<>>
    /\ pipe' = Tail(pipe)
    /\ LET line == Head(pipe) IN
       \/ /\ line[1] = "auth"
          /\ awaiting' = (line[2] = "waiting")
          /\ UNCHANGED <<phases, result>>
       \/ /\ line[1] = "phase"
          /\ phases' = [phases EXCEPT ![line[2]] = line[3]]
          /\ UNCHANGED <<awaiting, result>>
       \/ /\ line[1] = "done"
          /\ result' = line[2]
          /\ UNCHANGED <<awaiting, phases>>
    /\ UNCHANGED <<machine, files, dryVars, viewVars, running, aborting, wizard, c7upVars>>

\* What the run is taken to have come to, when c7up did not say.
Outcome == IF result # "none" THEN result ELSE IF code = 2 THEN "aborted" ELSE "failed"

\* slip: the verdict from before the run is left standing
Forget_slip ==
    /\ UNCHANGED <<known, listed>>
    /\ checking' = TRUE
    /\ checkError' = FALSE
    /\ timer' = TRUE

\* slip: the next dry run is left to the 30 min timer
Forget_once ==
    /\ known' = FALSE /\ listed' = Nothing
    /\ checking' = TRUE
    /\ checkError' = FALSE
    /\ UNCHANGED timer

Forget ==
    /\ known' = FALSE /\ listed' = Nothing
    /\ checking' = TRUE
    /\ checkError' = FALSE
    /\ timer' = TRUE

\* slip: awaitingAuth is left to the next "auth" line
RunExited_slip ==
    /\ at = "gone" /\ pipe = <<>>
    /\ at' = "off"
    /\ running' = FALSE
    /\ result' = Outcome
    /\ wizard' = CASE Outcome = "failed" -> "failure"
                   [] Outcome = "ok" -> "closed"
                   [] OTHER -> wizard
    /\ Forget
    /\ UNCHANGED <<machine, files, dryVars, awaiting, phases, aborting,
                   plan, left, now, failed, code, session, pipe>>

\* The shell has read the pipe to its end before it is told of the exit.
RunExited ==
    /\ at = "gone" /\ pipe = <<>>
    /\ at' = "off"
    /\ running' = FALSE
    /\ awaiting' = FALSE
    /\ result' = Outcome
    /\ wizard' = CASE Outcome = "failed" -> "failure"
                   [] Outcome = "ok" -> "closed"
                   [] OTHER -> wizard
    /\ Forget
    /\ UNCHANGED <<machine, files, dryVars, phases, aborting,
                   plan, left, now, failed, code, session, pipe>>

-----------------------------------------------------------------------------
World == ArchUpdateCheck \/ SessionDies \/ \E s \in Source : Publish(s)

User == UpdateClicked \/ ReviewClicked \/ RetryClicked \/ WizardUpdates \/ WizardCloses \/ Abort

DryRun == Look \/ LookFails \/ Tell

Run == Count \/ Granted \/ Refused \/ PhaseDone \/ PhaseFailed \/ EndsFailed \/ Collect \/ EndsWell
       \/ \E s \in Source : PhaseStarts(s)

Shell == Tick \/ VerdictRead \/ VerdictFailed \/ RunLine \/ RunExited

Next == World \/ User \/ Check \/ DryRun \/ Run \/ Shell

Spec == Init /\ [][Next]_vars

(* Each process goes on, the dialog is answered or dismissed, and the 2 s   *)
(* timer fires.  Nothing is asked of the 30 min timer or of the user, and   *)
(* nothing of a helper that waits on a dead session.                        *)
Fairness ==
    /\ WF_vars(DryRun)
    /\ WF_vars(Run /\ ~Hung)
    /\ WF_vars(RunLine) /\ WF_vars(RunExited)
    /\ WF_vars(Tick) /\ WF_vars(VerdictRead \/ VerdictFailed)

FairSpec == Spec /\ Fairness

-----------------------------------------------------------------------------
(* Properties.                                                              *)

\* The verdict on screen after a run lists nothing the machine already has:
\* runProc.onExited drops the list the run was started from, and no dry run
\* from before the run may bring it back.
FreshVerdict == known /\ ~running => \A s \in Source : listed[s] > 0 => listed[s] > have[s]

\* "checking..." is never on the screen for good: behind the flag there is
\* a dry run, a timer that will start one, or a run whose end restarts it.
\* And no dry run works with the flag down, which would enable the button.
CheckingIsBacked ==
    /\ checking => dry # "off" \/ timer \/ running
    /\ dry # "off" => checking \/ running

\* The "waiting for authorisation" view is up exactly when c7up is waiting,
\* once the shell has caught up with it; an abort or a refusal takes it down.
AuthViewTruthful == pipe = <<>> /\ at # "gone" => (awaiting <=> at = "asking")

\* The rows of the progress view tell the story of this run: no phase runs
\* over one that failed, since an AUR package built against a half-applied
\* system is the partial upgrade the flow exists to avoid.
NoPartialUpgrade ==
    \A s, t \in Source : phases[s] = "failed" /\ Rank[s] < Rank[t] => phases[t] = "none"

\* A run that reports success has shown as done every source it counted
\* something for, and no other.
OkMeansAll == ~running /\ result = "ok" => {s \in Source : phases[s] = "done"} = plan

\* Nothing is installed, flatpak's share included, in a run whose prompt was
\* refused or not yet answered.
Authorised == [][have' # have => session \in {"open", "dead"}]_vars

(* c7up, its session, the pipe and the shell together keep the promise of   *)
(* OrderlyUpdate.  A run is at work only while the root session it asked    *)
(* for has been granted, and the panel says "ok" only of a run that brought *)
(* up all it set out to, however late its lines are read.                   *)
AtWork == at \in {"between", "busy", "collecting"} /\ session \in {"open", "dead"}

Ended == <<"ok", "failed", "aborted">>[code + 1]

Underway == IF ~AtWork THEN "asking" ELSE IF failed THEN "broken" ELSE "working"

Stage == IF at = "off" THEN "idle" ELSE IF at = "gone" THEN Ended ELSE Underway

Todo == IF AtWork /\ ~failed THEN left \cup ({now} \cap Source) ELSE {}

RankedBefore(s, t) == Rank[s] < Rank[t]

\* What the panel makes of the last run; nothing while one is under way.
Reported == IF running THEN "none" ELSE result

Orderly == INSTANCE OrderlyUpdate
           WITH Sources <- Source, Before <- RankedBefore,
                stage <- Stage, todo <- Todo, told <- Reported
KeepsOrder == Orderly!OUSpec

\* How many steps c7up can still take in this run, and with the lines the shell
\* has yet to read how many steps both can.
PhasesAhead ==
    IF at = "counting" THEN Cardinality(Source)
    ELSE IF at \in {"asking", "between", "busy"} THEN Cardinality(left) ELSE 0

StepsAhead ==
    2 * PhasesAhead + [counting |-> 4, asking |-> 3, between |-> 2, busy |-> 3,
                       collecting |-> 1, gone |-> 0, off |-> 0][at]

Fuel == 2 * StepsAhead + Len(pipe)

\* A run cannot go on for ever, nor round in circles (do_run, runProc): whatever
\* c7up does, is made to do by an abort, or says, and whatever the shell reads,
\* brings the end nearer.
RunsWindDown ==
    [][running /\ running' /\ <<at, pipe>>' # <<at, pipe>> => Fuel' < Fuel]_vars

\* Every run comes to an end, and its view with it.
RunEnds == running ~> ~running

\* After a run the panel comes back from "checking..." to a verdict or an
\* error by itself, without the 30 min timer, unless another run starts.
VerdictReturns == (checking /\ ~running) ~> (running \/ (~checking /\ (known \/ checkError)))

(* What the source says of the program and a run refutes.                   *)

\* UpdatesService.qml on a run without a result: "Aborted, or c7up died
\* before it could say anything.  Either way the transaction was rolled back".
AbortRolledBack == ~running /\ result = "aborted" => \A s \in Source : phases[s] # "done"

\* The failure view: "transaction rolled back - no files written".
FailureWroteNothing == wizard = "failure" /\ ~running => \A s \in Source : phases[s] # "done"

\* abort(): "pacman traps it and rolls the transaction back, which is the
\* whole promise of the abort button": nothing is installed after the click.
AbortHeeded == [][aborting => have' = have]_vars
=============================================================================
