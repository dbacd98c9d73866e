# Verification of c7shell

c7shell is a desktop shell for Hyprland: a Quickshell (QML) process draws the
bar, the panels and the prompts, and a set of Python daemons, Bash tools and a
C++ greeter do the work that needs another process, another user or root.
Paths below are relative to `src/`. This directory holds TLA+ modules of the
parts in which several processes act on each other's stale pictures, TLC
configurations that check them, and TLAPS proofs.

    tlc -config AuthDaemon.cfg MCAuthDaemon        # a run
    tlapm AuthDaemonProofs.tla                      # the proofs

## 1. Inventory

| Component | State it keeps | Operations | Talks to |
|---|---|---|---|
| **Authentication daemon** `bin/c7-authd`, `bin/c7-askpass` | queue of requests; per request: password session, fingerprint session, held reply, pending prompt, tries | BeginAuthentication, CancelAuthentication, askpass request, respond, cancel, five PAM signals, EOF | polkitd (system bus), PAM helpers, sudo (unix socket), the shell (stdin/stdout) |
| **Prompt service** `Services/AuthService.qml`, `Modules/Auth` | list of requests, stage, live field, tries, finger, whether the daemon runs, restart attempts | nine events, submit, cancel, exit, restart timer, fallback agent | the daemon's two pipes |
| **Update flow** `bin/c7up`, `bin/c7up-root`, `bin/c7up-sudo`, `Services/UpdatesService.qml`, `Modules/Updates` | verdict, checking, running, phase lists, root session over two FIFOs, state files | dry run, apply, abort, refresh timer, pacnew and orphan clean-up | pacman, paru, flatpak, pkexec |
| **Greeter** `greetd-greeter`, `sddm/themes/c7shell/Greeter.qml` | requests in flight, pending secret, awaiting a response, attempts, cooldown | login, answer, auth message, success, error, cancel, change of user | greetd's socket |
| **Application menus** `scripts/c7shell-appmenud.py`, `Services/AppMenuService.qml` | registrations, adopted bars and their menus by process, generations of refreshes, debounce timers, clients; the shell's copy | register, scan, adopt, refresh, patch, publish, release and take the name | the applications' menu objects (session bus), the shell (unix socket) |
| **Appearance and theme export** `Services/AppearanceStore.qml`, `scripts/c7shell-theme-export.py` | appearance.json, the coalescing timers, the processes they run; the files of a dozen other programs | change of look, wallpaper, export, push | KDE, GTK, hyprlock, imv, hyprpaper, the file chooser |
| **File chooser portal** `scripts/c7shell-filechooser.py` | one request and the path its answer comes on | OpenFile, Response, exit status | xdg-desktop-portal, the store that starts it |
| **Capture and recording** `Services/{Capture,Recording,Screenshare}Service.qml`, `scripts/c7shell-crop.py` | countdown, frozen frame, recorder running | shoot, freeze, crop, discard, start, stop | grim, recorder |
| **Brightness** `Services/BrightnessService.qml` | rows of panels, queue of ddcutil jobs, job running | probe, set, step, re-read | ddcutil, brightnessctl |
| **Notifications** `Services/NotifServer.qml` | tracked list, pop-ups, outbox of actions | receive, act, dismiss, clear | D-Bus applications |
| **Displays** `Services/DisplayService.qml`, `hypr/conf/displays.lua` | current layout, staged edits, debounce | stage, commit, revert, enable, persist | hyprctl, a file |
| **Power** `Services/{Tuned,Power,Battery,EyeSaver}Service.qml`, `bin/c7power-root` | profile, applying, automatic latch | switch, battery events | tuned, pkexec |
| **Fingerprint enrolment** `Services/FingerprintService.qml` | fingers, stage of enrolment | enrol, cancel, delete | fprintd tools |
| **Upgrade and set-up** `bin/c7shell-{upgrade,setup,bootstrap,doctor}` | manifest of configuration files | hand-over, three-way copy, restart of the shell | git, files |
| **Lock and supervision** `bin/c7shell-{lock,session}` | which locker, restart budget | lock, fall back, restart | hyprlock, the compositor |
| **Networking, audio, media, OSD, popovers, launcher, settings, palette generator, plugin, compositor config** | bindings over other services, views, pure functions | | |

What is hard in each, and what makes it correct:

* **Authentication.** Two kinds of caller and two PAM conversations per request
  interleave with the commands of a person who sees an older state. Correct:
  every caller is answered exactly once, by the prompt that was on the screen;
  only the head of the queue converses; a secret goes only to a conversation
  that asked; the two processes agree on the queue.
* **Updates.** A dry run in flight when the real run starts, a run aborted
  half-way, a root session that dies, lists reloaded while a reload runs.
  Correct: what the panel shows is never older than the last run; an aborted or
  denied run leaves nothing marked as done.
* **Greeter.** Replies are paired to requests by order alone; a second login or
  another user while a reply is outstanding. Correct: a secret answers the
  prompt of the user it was typed for; the cooldown holds.
* **Application menus.** A menu bar is read by a chain of calls, one menu at a
  time, while the application changes it, leaves, or exports another bar, and the
  name is taken or given up. Correct: what is served and drawn is what the
  application has once it is quiet, and nothing outlives an application or the name.
* **Appearance.** Changes coalesced by timers, an exporter that can be killed
  between any two files, files that others write too, a dialog open while the
  setting changes. Correct: nothing of other programs is lost, every consumer ends up
  with the look that was chosen, and the last choice wins.
* **Brightness, notifications, displays, capture, power.** Queued jobs and deferred
  callbacks that act on what has changed since they were scheduled.
* **Supervision.** Restart budgets and fallbacks; two instances overlapping.

`PROJECT.json` lists the hazards with the line where each bites.

## 2. Modules

| Module | What it is | Built on |
|---|---|---|
| `AuthDaemon` | `bin/c7-authd` with its callers and PAM sessions | |
| `AuthOrphan` | the same when the shell it talks to dies | `AuthDaemon` |
| `PromptQueue` | abstract: what the prompt promises its callers | |
| `AuthSystem` | the daemon, `AuthService.qml` and the pipes between them | `AuthDaemon`; implements `PromptQueue` |
| `OrderlyUpdate` | abstract: what an update run promises the person who starts it | |
| `UpdateFlow` | `UpdatesService.qml`, `c7up verdict`, `c7up run`, the root session | implements `OrderlyUpdate` |
| `Greeter` | `greetd.cpp`, `Main.qml`, lockout of `Greeter.qml` | |
| `AppMenus` | `c7shell-appmenud.py` and `AppMenuService.qml` over the socket | |
| `MenuLayout` | what the menu daemon makes of a layout, and how it patches that | |
| `ThemeExport`, `FileChooser` | the two scripts the appearance store runs | |
| `Appearance` | `AppearanceStore.qml` with both | `ThemeExport`, `FileChooser` |
| `Crop` | the arithmetic of `c7shell-crop.py`, with theorems on it | TLAPS |
| `...Proofs` | theorems on the module they are named after | that module, TLAPS; `AuthSystemProofs` also on `AuthDaemonProofs` and WellFoundedInduction, `UpdateFlowProofs` on FiniteSetTheorems |
| `MC...` | small sets for TLC | |

In every module an operator named `X_slip` (or `X_` and another word, where
one operator has two) is `X` with a plausible slip in it. No specification uses
it: with it in the place of `X` the property named beside it in `PROJECT.json`
fails, which shows that the property says something about that piece of code.

### AuthDaemon

The GLib main loop runs one handler at a time, so a handler is an action,
from its guard to the last line it writes.

| State | Code |
|---|---|
| `queue`, `status`, `held` | `Daemon.queue`; open, or how it ended; `req.invocation` / `req.conn` not yet answered |
| `session`, `reader`, `pending`, `tries` | `req.session` and how far PAM has got, `req.reader`, `req.pending_prompt`, `req.tries` |
| `out` | lines written to stdout that the shell has not read |

`BeginAuthentication`, `BeginRefused`, `CancelAuthentication` are the D-Bus
methods; `AskpassRequest`, `AskpassDropped` the unix socket; `Respond*` and
`Cancel` the commands; `SessionAsks` to `LeftReaderEnds` the signals `request`,
`show-info`, `show-error` and `completed` of the two kinds of PAM session;
`Shutdown` is `shutdown()` with somebody to read its lines (an interrupt, or an end of file
on stdin alone), `Crash` and `Start` the process. `Close`
holds all that `Daemon.close()` does, the activation of the next head included.

A request stands for one authentication: it arrives once. The contents of
secrets, prompts and messages are left out, and so is who the identity is,
except that there may be none (`BeginRefused`). A `PolkitAgent.Session` whose
last reference goes is finalized and its helper killed; a reader left on a
closed request is kept alive by a reference cycle until the collector runs
(`LeftReaderEnds`). A handler that would write waits for room in the pipe
(`Room`, `MaxOut`).

### AuthOrphan

The shell has both ends of the daemon's pipes, so with the shell goes the reader of stdout. From
then on the flush in `emit()` (`c7-authd:189`) and the one in `log()` raise `BrokenPipeError`. Nothing catches it: the
handler ends at its first line, with what it has done so far, and the main loop goes on. `shell` says
whether there is one (`here`), whether it is `gone` with the end of file not yet dispatched, or whether that
has been `noticed` with the daemon still running. An action `...Unheard` is the part of a handler of
`AuthDaemon` before its first line: a request is queued and not activated, a caller is
answered and the next one in line not begun, a failure is counted and not retried. Handlers without
a line (an answer to PAM, a dropped client) are whole.

`Eof` is `shutdown()` with somebody queued: the loop over the queue answers the head, whose
`close` line ends it; the others stay queued, the socket stays, `loop.quit()` is not reached. With nobody
queued it leaves (`EofOnNobody`). The commands read before the end of file are dispatched
before it, each from an idle source of its own. What ends such a daemon is a signal (`OrphanDies`), and only
then is there a shell again: two daemons side by side are not modelled. The socket file is not modelled either.

`AuthSystem` is built on `AuthDaemon`, with a shell that lives.

### AuthSystem and PromptQueue

`AuthSystem` adds the shell's state (`requests`, `stage`, `promptReady`, `tries`,
`onFactor`, `running`), the commands on their way (`cmds`), a crash with the
notice of it and the restart. `ShellReads` takes one line through
`AuthService.onEvent`, `DaemonReads` one command through `Daemon.handle`.
`promptFor` and the field `fresh` of a command are history, used by properties
only. The lines of a dead daemon are read before its exit is told
(`Process.onExited` follows the end of the stream).

`PromptQueue` says what polkit and sudo rely on: callers queue in order, each
is told once how it ended, and only the one in front is granted. `KeepsPromise`
says that `AuthSystem` implements it with `line <- queue, verdict <- status`.
That is not so for the daemon alone, which answers any sudo request a command
names: it takes the shell, which only ever names the head of a list that lags.

### UpdateFlow

What is pending is one number per source: the release last published against
the one the machine has. That is what the properties tell apart; package lists,
decisions, counts and log lines ride on the same events.

| State | Code |
|---|---|
| `known`, `listed`, `checking`, `checkError`, `timer` | `verdict`, `checking`, `checkError`, `refreshAfterRun.running` |
| `running`, `awaiting`, `phases`, `result`, `wizard` | the same names in `UpdatesService`; the wizard's step |
| `dry`, `saw` | the `c7up verdict` process and what it found |
| `at`, `plan`, `left`, `now`, `failed`, `code`, `session` | the `c7up run` process and its root session |
| `files` | arch-update's state files, which both processes write and the run counts by |
| `pipe` | lines of the run that the shell has not read |

`Refresh` is `refresh()` with its reset, `Look`/`Tell`/`VerdictRead` the dry run
from its look at the system to the parsed line; `Apply` is `apply()` and is reached
from the dropdown (`UpdateClicked`), which waits for `checking`, and from the
wizard (`WizardUpdates`), which does not. `Count` to `EndsWell` follow `do_run`.
`RunLine` and `RunExited` are `runProc`'s two handlers.

`Abort` is SIGINT to the bash that runs `c7up` and sets no trap. Bash acts on it
at once in `read` and in a command substitution, and after a foreground
pipeline only if the pipeline died of SIGINT itself; so `Dies` and `Survives` are
both possible where the script does both, and only `Survives` while a phase runs.
`SessionDies` is the death of root's interpreter; `Hung` is `c7up-sudo` opening a
FIFO no one will write to.

`OrderlyUpdate` leaves out the processes, the pipe and the dry runs: a run is allowed
before it touches anything, brings sources up one at a time in their order, touches nothing
after a failure or its end, and is reported as it ended. `KeepsOrder` says that `UpdateFlow`
implements it. `Stage` is where `c7up` stands, or, once it is gone, the ending its exit status and
lines will be read as; `Todo` is what it has left with the source it works on; `Reported` is the
result of the panel once the run is over. A run that root's death or an abort ends, and the
lines that are read after, are steps of it or leave it alone.

### Greeter

| State | Code |
|---|---|
| `inflight` | `GreetdClient::m_inflight` |
| `pending`, `pendingUser`, `awaiting` | `pendingSecret`, `pendingUser`, `awaitingResponse` of `Main.qml` |
| `card`, `attempt`, `cooldown` | the selected user and the two counters of `Greeter.qml` |
| `remembered`, `done` | `lastUserStore`; whether the greeter has logged in or quit |
| `wire`, `replies`, `session` | the two directions of the socket and greetd's session (environment) |

`Login` is `login()` with `beginLogin()`, `MoveUser` is `moveUser()`, `CooldownTick` the
timer; the `On...` actions are `onReadyRead` taking one reply through to the handler in
`Main.qml`. A secret is the user on the card and the number of the press it was
typed for. greetd is modelled from the way the client uses it: one request at a
time, one reply to each, a session that was rejected stays until it is
cancelled, and PAM may ask, tell or decide as it likes. `restless` is fixed at the start and
says what kind of person sits there: one who presses keys whenever the card
takes them, or one who waits until the conversation is calm.

### AppMenus

| State | Code |
|---|---|
| `alive`, `owned`, `rival` | the process; `Daemon.owned`; another registrar on the bus |
| `windows`, `byPid`, `menus`, `gen`, `shown` | the dictionaries of `Daemon` of these names |
| `pending`, `scanning`, `calls` | debounce timers; Introspect calls that are out; the refreshes that wait for a reply, per connection in the order of their calls |
| `running`, `exported`, `content`, `manner` | the applications (environment) |
| `enabled`, `linked`, `cmds`, `view` | the setting, the socket and what is on it, `AppMenuService.menuMap` |

`Registers` is RegisterWindow, `ScanAnswered` an application found by introspection,
`Fire` the debounce timer with the start of `refresh()`, `Answers` and `Fails` one step of its
chain (`root`: GetLayout of the bar; `show`: AboutToShow of a menu; `kids`: its
layout), up to `apply()` and the publish. `AppLeaves` is NameOwnerChanged, `DaemonReads`
a registrar line with the name taken or released and everything dropped, `RivalComes` the loss of the
name. `Switch`, `Connect`, `LinkBreaks` are the shell's. `Change` is an application changing a
menu, which it tells in one of three manners: `LayoutUpdated`, a payload that is
patched, or a payload that is given up after some of it was applied.

A bus connection is first in, first out, replies and signals alike; so an
application's signal and the callback that hears of it are one step. What
one menu holds is a value; `MenuLayout` opens it up.

### MenuLayout

`Menus(layout)` is `build_menus()` with `top_levels`, `menu_entry`, `as_item`, `shortcut` and
`clean_label` (a constant function: which labels look the same is the instance's
choice, what they look like does not matter). `ApplyEntry` and `GiveUp` are one turn of
the loop of `apply_props()`, `Take` one signal. `Refresh` is the timer that starts a chain; `RootRead`
and `KidsRead` are its answers, the menu bar and then the rows of one menu after the other, collected in
`snap`; the last one calls `apply()` with its comparison (`Apply`). A refresh that comes due starts the
chain over, as the generation makes it do.

Signals and answers come over one connection in the order they were sent, so the application's change and
what the daemon does on its signal are one step, and an answer has the layout of the moment it is taken in. What
can happen in between is that the application changes a menu *after* the chain has read it and *before*
`apply()`. If that is told by `LayoutUpdated`, or by a payload that is given up, a refresh is due and the chain is overtaken. If
it is a payload that is patched, nothing is due, and `apply()` puts the older rows over the patch and publishes
them: `late` is history and says that this has happened to the refresh under way or last done. `RestIsTrue` and
`ShellShowsTheApp` except it, and `RestIsAlwaysTrue`, which does not, is violated.

`read` is history too: the layout with the changes that have been
taken in, so that "what a refetch at this point would have given" can be said.

### ThemeExport, FileChooser, Appearance

A look (accent, theme, cursor) is a number and a key of a file holds the
number it was written for. `Plan` is what `main()` writes, in order, with the manner of
each file: `merge` reads a KConfig or ini file, sets its keys and moves a new file into
place, in two steps between which others may write and at which the process may be killed; `overwrite` truncates
first; `replace` is atomic. A file that is beyond the parser ends the run there.
`trodden` is history: files somebody wrote between a read and its move.

`FileChooser` is one call of the portal: the helper listens on the path it can
predict, calls OpenFile, and listens on another path if the reply names one. The
portal (environment) answers, goes away, or fails in any order with that.

`Appearance` adds the store: `LookChanges`, `Reloads`, `ExportDue` (which puts itself off
while an export runs), `WallpaperSet`, `PushDue` (which does not), `Browse`, `ChooserExits`,
and a restart of the shell that takes its processes with it. `choice` is history: what the
person chose last.

## 3. Runs

| Run | Instance | States, time | Shows |
|---|---|---|---|
| `daemon` | two polkit, one sudo request, `MaxTries` 3, a pipe read before the next handler writes, symmetry over the polkit requests, a shell that may die at any moment | 10 thousand, 4 s | five invariants of queue, callers, head and secrets, with a shell and without; that only a failure is counted, and that the count ends the prompt when it is at the limit and not before |
| `system` | one polkit, one sudo request, `MaxTries` 2, a crash, two commands under way | 98 thousand, 30 s | the shell's list catches up with the daemon's, its field is live whenever PAM waits, one answer per prompt, the refinement of `PromptQueue`; every caller is answered |
| `update` | three sources, one release each, session may die | 1.8 million, 1.5 min | panel flags and rows are true, no phase after a failed one, success means all, the refinement of `OrderlyUpdate` (nothing before the dialog, one source at a time and in order) |
| `update_dropdown` | two sources, two releases, dropdown only, session lives | 91 thousand, 20 s | the verdict is fresh; every run ends; the panel returns to a verdict |
| `greeter` | two users, two attempts, two seconds, three presses, two messages | 930 thousand, 1.5 min | pairing, one use per secret, lockout under any keys; for a person who waits, no wait on both sides, the right user remembered, secrets used |
| `app_menus` | one application with two bars of two menus, one window, three refreshes under way, two outside events | 270 thousand, 40 s | nothing without the name, the shell mirrors the cache, nothing of an application that left, a process no refresh is due for is served the truth; in the end the truth is served and the switch obeyed |
| `appearance` | two pictures, `imv`'s file readable or not, two outside events | 370 thousand, 1.5 min | other keys kept, a quiet desktop has the look, the last choice holds; in the end everybody has it, and a dialog ends |
| `menu_layout` | two menus, one of a row and a separator and one of a row, four labels of which two look the same and one is empty, payloads of one and two entries, three changes | 360 thousand, 30 s | patching is fetching; unless a fetch has overwritten a patch, rest is true and in the end the shell has what the application has; the shell has what the daemon has |

`CHECK_DEADLOCK FALSE` everywhere but in `AuthDaemon.cfg`: requests are used up, the greeter quits,
releases and changes end, and a system with nothing to do may stop. The type
invariants are theorems (section 4) and not checked again in the runs.

The remaining runs state what a comment of the repository says of the
program, and TLC finds the behaviour that refutes it (`findings` in `PROJECT.json`):

| Run | The code |
|---|---|
| `update_stale_verdict` | a retry from the wizard races the dry run of the failed run before it, and the old list comes back (`UpdatesService.qml:139`) |
| `greeter_moved` | what is typed for one user answers the waiting prompt of another (`Main.qml:56`) |
| `menus_half_applied` | a payload that is given up half-way has patched the cache; the refetch equals it and is not published (`c7shell-appmenud.py:501`) |
| `wallpaper_lost` | a wallpaper that comes due while the one before is being sent is never sent (`AppearanceStore.qml:232`) |

More statements are defined in the modules. They fail when added to a
configuration, and each is worth a look beside the code:

| Statement | Configuration | Because |
|---|---|---|
| `HeadKeepsItsConversation` | `AuthDaemon.cfg` | closing a request *behind* the head activates the head again and restarts its conversation (`c7-authd:224`) |
| `OneRequestConverses` | `AuthDaemon.cfg` | the last wrong password leaves the request's fingerprint reader running (`c7-authd:511`) |
| `EofFreesEverybody` | `AuthDaemon.cfg` | the end of file comes when the reader of stdout is gone too: the first `close` line of `shutdown()` raises, and the callers behind the head stay queued (`c7-authd:628`; the comment at 262 and the test, which writes stdout to a file, say otherwise) |
| `OutlivesNoShell` | `AuthDaemon.cfg` | for the same reason `loop.quit()` is not reached, and the daemon outlives the shell |
| `SudoFieldGoesLive` | `AuthSystem.cfg` | a sudo request that had to wait is drawn with a field that never goes live (`c7-authd:607`) |
| `FieldBelongsToTheHead` | `AuthSystem.cfg` | the early prompt of a queued sudo request makes the field of the request in front live (`AuthService.qml:118`) |
| `AnswersItsOwnPrompt` | `AuthSystem.cfg` | an answer that crosses a restarted conversation meets the next prompt |
| `AbortHeeded` | `UpdateFlow.cfg` | an abort during a phase is not acted on until the phase is through (`c7up:472`) |
| `AbortRolledBack`, `FailureWroteNothing` | `UpdateFlow.cfg` | the phases before stay installed |
| `RunEnds` with `MayDie = TRUE` | `UpdateDropdown.cfg` | the AUR helper waits on the dead session for ever (`c7up-sudo:45`) |
| `OnlyTheNewestPublishes` | `AppMenus.cfg` | `drop()` forgets the generation, and a chain from before passes for a new one (`c7shell-appmenud.py:361`) |
| `PatchesSurvive` | `AppMenus.cfg` | a patch to a menu that the refresh in flight has already read is overwritten by the older rows of that refresh, and nothing reads the menu again (`c7shell-appmenud.py:461`) |
| `RestIsAlwaysTrue` | `MenuLayout.cfg` | the same, row by row |
| `PatchIsAlwaysRefetch` | `MenuLayout.cfg` | a menu whose label is patched away stays in the cache; fetching would leave it out |
| `OtherKeysAlwaysKept` | `Appearance.cfg` | a key written between the exporter's read and its move is lost |
| `AnyBrowseEnds` | `Appearance.cfg` | a portal that chooses its own path may answer on it before the helper listens there |

### Bounds

* *Requests.* The daemon's properties speak of a head, a request behind it and
  one more that arrives or leaves: three requests, of both kinds. With the shell
  and pipes around it two are enough for every crossing of a command with a
  close. Symmetry is used only where no liveness is checked.
* *`MaxTries`* 3 as in the code in `daemon`; 2 in `system`, which is one retry and the last try.
* *`MaxOut`* 0 still lets a handler write all its lines (the pipe is written when it
  is empty, and filled by at most four lines); 1 adds a second handler's.
* *`MaxCrashes`* 1, *`MaxCmds`* 2: a crash with commands on their way, an answer followed by a cancel.
* *Sources and releases.* Three sources with one release give every order of
  success and failure; two releases are needed for a verdict that is out of date
  but not empty, and two sources suffice for that.
* *Greeter.* Two users, so that one is not the other; two attempts and two seconds,
  so that a failure meets a running lockout; three presses (`MaxLogins`) and
  two messages in a PAM conversation (`MaxAsks`): a press on top of one under way, and one after.
* *Menus.* Two bars of one process compete for its place; two menus make a chain
  that can be overtaken in the middle; `MaxCalls` 3 is a refresh overtaken twice;
  `MaxEvents` 2 gives a release and a return, or an application that leaves and comes back.
* *Layouts.* Two menus with rows, so that one can change while the chain reads the other, a row and a separator; payloads of two
  entries are needed to be given up half-way; three changes give one that makes a refresh due, one
  between its answers and one more.
* *Appearance.* Two pictures, so that one is not the other; two outside events (a
  change, a foreign write, a dialog, a restart, a portal that goes): every pair of them at every point of a run of the exporter.

### Fairness

* `Delivery` (AuthSystem): a pipe with lines in it is read, the exit is noticed, the
  restart timer fires: the event loops of both processes. Commands are
  dispatched from an idle source, which gets its turn whenever PAM's signals
  leave a gap, hence strong. `ImpatientSpec` adds a person who at last cancels
  what stays on the screen, also strong, since the bound `MaxCmds` can take the
  key away; nothing else ends a prompt. PAM is asked for nothing.
* `UpdateFlow`: each process goes on, the dialog is answered or dismissed, the 2 s
  timer fires. Nothing is asked of the 30 min timer, of the user, or of a
  helper that waits on a dead session (`Run /\ ~Hung`).
* `Greeter`: greetd handles what it is sent (in the model PAM always decides after at most
  `MaxAsks` messages) and the client reads. No key press is assumed.
* `AppMenus`: the daemon's loop and the shell's turn, timers go off, and a call is
  answered or fails, as every D-Bus call does after its timeout. Nothing is
  asked of applications, the person or a rival.
* `MenuLayout`: the daemon goes on, its debounce timer goes off and its calls are answered (one that fails is in `AppMenus`).
* `Appearance`: timers go off, a changed file is noticed, the exporter and hyprctl go on
  (hyprpaper draws what it is sent), and OpenFile returns or raises. Nobody has to answer
  a dialog.

## 4. Proofs

`tlapm` checks every step of the seven proof modules and of `Crop`, for all values of the
constants that satisfy the module's assumption. In every module but `Crop` the theorems rest on an inductive
invariant `IInv`; what follows says what had to be added to the properties to
make it inductive, and why.

* **AuthDaemon, AuthOrphan** (`AuthAssumption`: the two kinds of request are disjoint,
  `MaxTries` is positive). With a shell the invariants are proved together as
  `IInv`. They are not inductive by themselves: that a request which arrives has
  no reader and no failures yet needs `NewIsUntouched`, and that only polkit
  requests have PAM sessions, which makes "the head is being asked" survive a
  sudo head, needs `SudoHasNoPam`. Both are part of `IInv`. The argument has two
  hinges, `CloseKeeps` and `PushKeeps`: whatever request leaves or arrives, the new
  front of the queue is begun and no one else is. `LeftProperties` and
  `RemoveFirstShifts` say what removing an element does to a sequence without
  repetitions. Without a shell the second half of the hinge is missing, and what is left is `Base`: `IInv` less
  the head's conversation and the callers. `CloseUnheardKeeps` shows that a handler cut off at its line
  keeps that, and that it has answered whom it closed. `OrphanInv` joins the two: it is `IInv` as long as there is a shell (`HeardInvIs`).
  `OrphanInvariance`, `TypeCorrect`, `QueueIsSound`, `NobodyLeftHanging`, `HeadAloneAsks`,
  `HeadHasAConversation`, `SecretsAreAsked`, `TriesAreBounded` are about runs in which the shell may die; `Finality` and
  `FailuresAreCounted` are action properties of them, proved one action at a time (`StatusSteps`, `TriesSteps`, `UnheardSteps`), the second
  with the bound on the tries: what is refused has failed exactly `MaxTries` times.
  `NobodyLeftHanging` does not say that everybody is answered in the end, which without a shell is false (`EofFreesEverybody`).
* **AuthSystem.** `SystemRunsTheDaemon`: each step of the joined system is a step of the
  daemon or leaves it alone, so what `AuthDaemonProofs` has of `Spec` holds in it
  (`NobodyLeftHangingInTheSystem`, by `Invariance`, is what it says of the callers: a shell that lives leaves nobody waiting unqueued). `PromiseKept` is the refinement of
  `PromptQueue`, for any number of requests, crashes and pipes of any size. Its core is
  that a sudo request which is granted is the head, although the command that grants
  it was sent by a shell with an older list. `ViewInv` says why: a command under way names a
  request the shell had in front of its list; everything in front of that in the
  daemon's queue is announced before it (`AnnouncedInOrder`, `ListedInOrder`), so what is not in front any
  more has been closed and what has been closed is not answered (`FrontIsNamed`). The
  rest of `ViewInv` says that each request is announced, listed and closed once
  and in that order, that a request still to come is named nowhere, and that a
  dead daemon's requests are nowhere once its exit is noticed (`DownIsEmpty`).
  `AnswersAreSingle` needs `Answered`: while an answer that counts is under way, its request has
  no prompt in the pipe or on the screen (`AnsweredLast`), so that there is nothing to answer again.
  `FieldIsLive` needs `Asked`: the prompt of a head PAM waits for is in the pipe with nothing
  behind it that resets the field, or on the screen with nothing in the pipe that does, or answered by
  a command under way (`HeadIsAsked`). An answer is addressed to the right request because a
  field with no reset to come is drawn for the front of the queue (`ShownIsTheFront`): a line that
  changed the front is followed by an `active` (`FrontIsTold`), and whoever is closed and still listed has
  `close` to come (`ClosedIsTold`).
  `ViewsAgree` is about a fold over the pipe, and an induction over its length cannot be taken from the
  library. `ReadsTo` says instead that there is a list of what the shell passes through (`Passes`),
  which a line more only extends. `ReadingIsFolding` shows once that this is the fold: if some prefix were
  read differently there would be a shortest one (`WFMin` on a set in the place of the predicate), and its
  last line contradicts that. `SysTypeCorrect` needs that no line tells of `MaxTries` failures (`Modest`),
  since the shell shows whatever number it reads.
* **UpdateFlow** (`UpdateAssumption`). `IInv` adds to the type invariant what relates
  the shell's flags to the processes: a run that is not over is known to the shell
  (`RunIsKnown`), past the dialog there is a session (`PastTheDialog`), and without the
  wizard no run and dry run are ever under way together (`DropdownAlone`).
  `CheckingBacked` and `NothingUnauthorised` hold without assumption on the user;
  `FreshFromTheDropdown` is proved under `~FromWizard`, and the run
  `update_stale_verdict` shows that it is false without. What the panel says of a run
  needs `Story`, an invariant of the lines that are in the pipe: `Said` is what the shell will
  show of a source once it has read them, and `Story` relates that to where the script is
  (told what began, `InOrder`, a failure last, a success only if earned). `AuthViewIsTrue`,
  `NothingOverAFailure` and `SuccessIsComplete` are then what `Story` says of an empty pipe.
  `OrderIsKept` is the refinement of `OrderlyUpdate`. It adds to these that the ending `c7up` came to is the
  one that will be read (`OutcomeTold`: the last line said so, or nothing was said and the status
  stands for it), and that it works on nothing after a failure (`UnfailedSoFar`).
  `RunsAreFinite` is a measure: `Fuel` counts what `c7up` can still do and the lines in the pipe, and each
  step of either spends some. A run of *n* sources is over after at most 4*n* + 8 of them.
* **Greeter** (`GreeterAssumption`). `SecretsLeaveOnce` needs the numbering of secrets by
  presses (`Numbered`): a secret just typed differs from all that left.
  `LockoutHolds` relates counter and timer. Neither uses anything about greetd.
  `RepliesArePaired` needs the shape of the channel: what the greeter has in flight is the
  replies to come, then the requests on the wire (`Pairs`), both sequences of their types (`Channel`).
  For a person who waits for answers one thing is under way at a time (`OneAtATime`): `Course` lists the
  eight forms the two streams have then, `Whose` says whose conversation it is and `Asked` that the card
  waits exactly when PAM does. `QuestionsAreUp` and `TheRightOneIsRemembered` are read off it.
  `InHand` follows a secret: what is kept is for the user whose conversation is under way, what is
  on the wire answers the session that asks. `AnswersReachTheirUser` and `SecretsDoNotLinger` are that.
  The first is the statement the run `greeter_moved` refutes, for the person who waits: it takes a key
  pressed during a conversation to give one user's secret to another's.
* **AppMenus** (`MenuAssumption`). `NothingWithoutTheName`, `GoneForGood` and `ShellFollowsTheCache` are
  proved together: no menus without the name needs that what is served is adopted
  (`ServedIsAdopted`), and an adopted bar's application runs only if exported bars have running applications (`ExportersRun`),
  since a late answer to a scan adopts what it finds. `DroppedStaysDropped` is that part by
  itself: no chain still under way brings the menus of a dropped process back.
  `SettledProcessesAreServedRight` needs an argument of its own (`Truth`), since the comment that only the
  newest refresh publishes is false: `drop()` forgets the generation. What holds is that answers come in the order of the calls, so of the refreshes
  in flight for a process one leads (`Led`): what it has read is what the bar still has, and nothing
  behind it may publish. Around it, a refresh waits for the connection that exports its bar (`Homes`), a process is
  booked for a bar of its own (`Booked`), and each handler closes a process's books, makes a refresh
  due, or leaves them alone (`Handled`).
  `TheSettingRules` needs that the last registrar line under way is the setting as it is now (`LastSaid`)
  and that there is one registrar at most (`OneRegistrar`).
* **MenuLayout** (`LayoutAssumption`). `PatchingIsFetching` is the point of the module:
  `TopPatch` and `RowPatch` show for each kind of entry that patching commutes with `Menus`, so the
  patched cache is what `build_menus()` would give. `ShellIsTold` relates the cache to what was published last.
  `RestIsTheApps` needs `Told`: the payload at hand has the application's values (`WorkTrue`); where what the daemon read
  differs from the application, that payload mentions the property, or a refresh is due or under way (`ReadTrue`); and
  the same for the part of the layout that the chain has collected, up to the rows it has still to ask for (`SnapTrue`).
  Both allow for `late`: a patch to what is collected breaks `SnapTrue`, and that is the exception the theorem has.
* **Appearance** (`AppearanceAssumption`, `ExportAssumption`). Three arguments with an
  invariant each: `OthersGood` (what a merge has in hand holds the others' keys as they are, unless somebody wrote since), `ExportGood` (what the plan has passed holds the look the script read, and that is the
  store's unless an export is due), `LastWord` (where the choice is while a dialog, its
  response or its exit status is under way). They give `OthersAreLeftAlone`,
  `QuietDesktopIsExported` and `ChoiceIsKept`. Two more are about what is under way:
  `PaperUnderWay` says where a wallpaper is that the screen does not have, `Listening` that the helper
  hears the path before a portal that uses it can answer. They give `QuietDesktopIsDrawn` and `AnswersAreHeard`.
* **Crop.** For every frame and selection what is cut lies in the frame and is not empty
  (`CutIsInTheFrame`), a selection that starts on the frame is cut where it was drawn
  (`CutIsWhatWasDrawn`), and one that starts before it is moved in and not shortened (`CutIsMovedIn`).

Seven of the theorems above (`AnswersReachTheirUser`, `SecretsDoNotLinger`, `TheSettingRules`, `RunsAreFinite`, `QuietDesktopIsDrawn`, `AnswersAreHeard`, `TriesAreBounded`)
state properties that are defined in the modules and in no run: each holds in the configuration
of its module when it is added there. All but the first and the last are what a liveness property that
the runs do check needs to be safe:

| Checked by TLC | Proved |
|---|---|
| `RunEnds` | no run goes round in circles (`RunsAreFinite`) |
| `SecretsAreUsed` | at rest no secret is left (`SecretsDoNotLinger`) |
| `SwitchObeyed` | with all commands read, the setting rules (`TheSettingRules`) |
| `ServesTheTruth` | with nothing due and nothing under way, the truth is served (`SettledProcessesAreServedRight`) |
| `ShellShowsTheApp` | at rest, the daemon has what the application has unless a fetch overwrote a patch (`RestIsTheApps`), and the shell what the daemon has (`ShellIsTold`) |
| `DesktopFollows` | at rest, every consumer has the look and the wallpaper (`QuietDesktopIsExported`, `QuietDesktopIsDrawn`) |
| `BrowseEnds` | an answer is never out of the helper's hearing (`AnswersAreHeard`) |
| `EveryCallerIsAnswered` | who is asked has a live field (`FieldIsLive`), and who waits is queued (`NobodyLeftHangingInTheSystem`) |

Only model-checked is what is left of these, that the quiet state comes at all: the prover handles
neither fairness nor `ENABLED`. The same goes for `VerdictReturns`, beside which `CheckingBacked` says that
a panel that is checking has somebody who will tell it.

## 5. Not modelled

* *Authentication:* the socket file, registering as the polkit agent and binding the socket while
  an older daemon shuts down, the restart's backoff and fallback agent, a sudo
  killed while it waits (nothing in the daemon notices). `PamSays` is left out of
  `AuthSystem`, where its lines change nothing kept.
* *Updates:* the step-3 lists and the verbs that work on them, decisions and skipped packages,
  progress counts, the file formats.
* *Greeter:* suspend and power actions, the choice of session and layout, an empty manual
  name (`login()` returns), the hint for repeated messages.
* *Menus:* the shell's choice of the focused window, clicks (`trigger` and the positional path
  of a row, which change nothing in the daemon), bars below the top level of a scanned
  connection, icons and submenus, the self-tests.
* *Appearance:* which colours go where and how they are computed, the settings the
  compositor evaluates (`applyNow`), the lists of fonts and icons. `write_gsettings` is a best effort in the
  code and always succeeds in the model; a shell that restarts is assumed to take the exporter with it; and `appearance.json` is
  one variable for the file and the store's copy, which is written at once. `gen-palette-qml.py` is a build-time text
  transformation without state.
* *Capture:* the countdown, the freeze and the recorder's start.
* *Everything else* in the inventory (brightness, notifications, displays, power,
  fingerprints, upgrade, supervision): the control in them is real, but it is QML and
  Bash of the same shape as what is modelled (a timer, a process, a late answer), and the
  behaviours above weigh more. See each component's note in `PROJECT.json`.

## 6. Plan

What a next step would take, in this order:

1. `AuthRestart`: two daemons overlapping, the agent's name and the socket path handed over,
   backoff and fallback on the third failed start.
2. `BrightnessQueue`: jobs by row against probes that rebuild the rows; at most one
   `ddcutil`, writes coalesced, the last write wins.
3. `UpdateLists`: pacnew and orphan lists reloaded while a reload runs, the verbs of `c7up-root`
   step by step; composed with `UpdateFlow`.
4. `Profiles`, `DisplayStaging`, `NotifyOutbox`, `Capture`: one small module each.
5. `UpgradeManifest` and `ShellSupervisor`: the hand-over, and the restart budget.
