---------------------------- MODULE AuthSystem ----------------------------
(* c7-authd (AuthDaemon) and its only reader, Services/AuthService.qml,     *)
(* joined by two pipes: event lines on the daemon's stdout (`out`) and      *)
(* commands on its stdin (`cmds`).  Each end acts on what it has read, so   *)
(* the shell's picture of the queue lags the daemon's and a command may     *)
(* name a request that has closed meanwhile.                                *)
EXTENDS AuthDaemon

CONSTANTS MaxCrashes,  \* how many times the daemon dies in one behaviour
          MaxCmds      \* how many commands may be under way

ASSUME SystemAssumption == MaxCrashes \in Nat /\ MaxCmds \in Nat \ {0}

VARIABLES cmds,         \* command lines written and not yet dispatched
          requests,     \* AuthService.requests, head first
          stage,        \* "ask", "verifying" or "wrong"
          promptReady,  \* the field is live
          shellTries,   \* AuthService.tries
          onFactor,     \* the print is drawn
          running,      \* daemon.running, as the shell sees it
          promptFor,    \* history: whose "prompt" event last set promptReady
          crashes

shellVars == <<requests, stage, promptReady, shellTries, onFactor, promptFor>>
sysVars == <<vars, cmds, shellVars, running, crashes>>

Command == [cmd : {"respond", "cancel"}, id : Requests, fresh : BOOLEAN]

SysTypeOK ==
    /\ TypeOK
    /\ cmds \in Seq(Command)
    /\ requests \in Seq(Requests)
    /\ stage \in {"ask", "verifying", "wrong"}
    /\ promptReady \in BOOLEAN
    /\ shellTries \in 0..MaxTries - 1
    /\ onFactor \in BOOLEAN
    /\ running \in BOOLEAN
    /\ promptFor \subseteq Requests
    /\ crashes \in 0..MaxCrashes

SysInit ==
    /\ Init
    /\ cmds = <<>>
    /\ requests = <<>>
    /\ stage = "ask"
    /\ promptReady = FALSE
    /\ shellTries = 0
    /\ onFactor = FALSE
    /\ running = TRUE
    /\ promptFor = {}
    /\ crashes = 0

Active == requests # <<>>
Current_slip == Last(requests)
Current == requests[1]

----------------------------------------------------------------------------
(* The shell reads one event line: AuthService.onEvent.  Of the events that *)
(* carry an id only "request" and "close" look at it.                       *)

OnRequest(e) ==
    /\ requests' = Append(requests, e.id)
    /\ UNCHANGED <<stage, promptReady, shellTries, onFactor, promptFor>>

OnActive(e) ==
    /\ stage' = "ask"
    /\ shellTries' = 0
    /\ promptReady' = FALSE
    /\ onFactor' = FALSE
    /\ UNCHANGED <<requests, promptFor>>

OnPrompt_slip(e) ==
    /\ promptReady' = (stage # "verifying")
    /\ stage' = IF shellTries > 0 THEN "wrong" ELSE "ask"
    /\ promptFor' = {e.id}
    /\ UNCHANGED <<requests, shellTries, onFactor>>
OnPrompt(e) ==
    /\ promptReady' = TRUE
    /\ stage' = IF shellTries > 0 THEN "wrong" ELSE "ask"
    /\ promptFor' = {e.id}
    /\ UNCHANGED <<requests, shellTries, onFactor>>

OnFactor(e) ==
    /\ onFactor' = (e.ev = "factor")
    /\ UNCHANGED <<requests, stage, promptReady, shellTries, promptFor>>

OnFailed(e) ==
    /\ shellTries' = e.tries
    /\ stage' = "wrong"
    /\ promptReady' = FALSE
    /\ UNCHANGED <<requests, onFactor, promptFor>>

OnClose_slip(e) ==
    /\ requests' = Tail(requests)
    /\ UNCHANGED <<stage, promptReady, shellTries, onFactor, promptFor>>
(* filter(): an id is in the list once.                                     *)
OnClose(e) ==
    /\ requests' = RemoveFirst(requests, e.id)
    /\ UNCHANGED <<stage, promptReady, shellTries, onFactor, promptFor>>

OnEvent(e) ==
    \/ e.ev = "request" /\ OnRequest(e)
    \/ e.ev = "active" /\ OnActive(e)
    \/ e.ev = "prompt" /\ OnPrompt(e)
    \/ e.ev \in {"factor", "factorend"} /\ OnFactor(e)
    \/ e.ev = "failed" /\ OnFailed(e)
    \/ e.ev = "close" /\ OnClose(e)
    \/ e.ev = "ready" /\ UNCHANGED shellVars

ShellReads ==
    /\ Drain
    /\ OnEvent(Head(out))
    /\ UNCHANGED <<cmds, running, crashes>>

(* The person at the keyboard.  A command is written only while the daemon  *)
(* runs.  `fresh` records, for the properties, whether the prompt being     *)
(* answered is the last one the daemon has raised for the request.          *)
Send(name, fresh) ==
    IF running
      THEN cmds' = Append(cmds, [cmd |-> name, id |-> Current, fresh |-> fresh])
      ELSE UNCHANGED cmds

PromptOnItsWay(r) == \E i \in DOMAIN out : out[i].ev = "prompt" /\ out[i].id = r

Submit_slip ==
    /\ Active /\ promptReady /\ stage # "verifying" /\ Len(cmds) < MaxCmds
    /\ Send("respond", promptFor = {Current} /\ ~PromptOnItsWay(Current))
    /\ UNCHANGED <<vars, shellVars, running, crashes>>
Submit ==
    /\ Active /\ promptReady /\ stage # "verifying" /\ Len(cmds) < MaxCmds
    /\ stage' = "verifying"
    /\ promptReady' = FALSE
    /\ Send("respond", promptFor = {Current} /\ ~PromptOnItsWay(Current))
    /\ UNCHANGED <<vars, requests, shellTries, onFactor, promptFor, running, crashes>>

CancelPrompt ==
    /\ Active /\ Len(cmds) < MaxCmds
    /\ Send("cancel", TRUE)
    /\ UNCHANGED <<vars, shellVars, running, crashes>>

----------------------------------------------------------------------------
(* The daemon dispatches one command line: Daemon.handle, which finds the   *)
(* request in the queue or leaves everything as it is.                      *)

Handle(r, cmd) ==
    \/ cmd = "cancel" /\ Cancel(r)
    \/ cmd = "respond" /\ Respond(r)

Dispatch(c) ==
    \/ \E r \in Requests : r = c.id /\ Handle(r, c.cmd)
    \/ /\ Room /\ UNCHANGED vars
       /\ IF c.cmd = "cancel" THEN ~Open(c.id) ELSE Ignores(c.id)

DaemonReads ==
    /\ cmds # <<>>
    /\ Dispatch(Head(cmds))
    /\ cmds' = Tail(cmds)
    /\ UNCHANGED <<shellVars, running, crashes>>

(* A new prompt makes every answer still in the pipe an answer to an older  *)
(* one.                                                                     *)
PamAsks(r) ==
    /\ SessionAsks(r)
    /\ cmds' = [i \in DOMAIN cmds |->
                   IF cmds[i].id = r THEN [cmds[i] EXCEPT !.fresh = FALSE]
                                     ELSE cmds[i]]
    /\ UNCHANGED <<shellVars, running, crashes>>

(* PamSays is left out: its lines change nothing kept here on either side.  *)
PamElse(r) ==
    /\ \/ ReaderAsks(r) \/ FingerInfo(r) \/ Authorized(r)
       \/ ReaderFails(r) \/ WrongPassword(r) \/ OutOfTries(r)
       \/ LeftReaderEnds(r)
    /\ UNCHANGED <<cmds, shellVars, running, crashes>>

CallerActs(r) == Caller(r) /\ UNCHANGED <<cmds, shellVars, running, crashes>>

----------------------------------------------------------------------------
(* The daemon dies, the shell is told once its last lines are read, and the *)
(* restart timer starts another.                                            *)

DaemonDies ==
    /\ crashes < MaxCrashes
    /\ Crash
    /\ crashes' = crashes + 1
    /\ cmds' = <<>>
    /\ UNCHANGED <<shellVars, running>>

OnExited_slip ==
    /\ ~up /\ running /\ out = <<>>
    /\ running' = FALSE
    /\ cmds' = <<>>
    /\ UNCHANGED <<vars, shellVars, crashes>>
OnExited ==
    /\ ~up /\ running /\ out = <<>>
    /\ running' = FALSE
    /\ cmds' = <<>>
    /\ requests' = <<>>
    /\ UNCHANGED <<vars, stage, promptReady, shellTries, onFactor, promptFor, crashes>>

Restart ==
    /\ ~running
    /\ Start
    /\ running' = TRUE
    /\ UNCHANGED <<cmds, shellVars, crashes>>

SysNext ==
    \/ \E r \in Requests : CallerActs(r) \/ PamAsks(r) \/ PamElse(r)
    \/ DaemonReads \/ ShellReads
    \/ Submit \/ CancelPrompt
    \/ DaemonDies \/ OnExited \/ Restart

SysSpec == SysInit /\ [][SysNext]_sysVars

----------------------------------------------------------------------------
(* Fairness.  Both pipes are read as long as there is something in them,    *)
(* the exit of the daemon is noticed and the restart timer fires.  A        *)
(* command is dispatched from an idle source, which runs whenever the main  *)
(* loop has nothing else to do; PAM, which mostly waits, leaves it that     *)
(* moment again and again (strong fairness).                                *)
Delivery == /\ WF_sysVars(ShellReads)
            /\ SF_sysVars(DaemonReads)
            /\ WF_sysVars(OnExited)
            /\ WF_sysVars(Restart)

FairSpec == SysSpec /\ Delivery

(* A person who gives up on whatever stays on the screen.  Strong, because  *)
(* MaxCmds takes the Esc away while answers fill the pipe.                  *)
ImpatientSpec == FairSpec /\ SF_sysVars(CancelPrompt)

----------------------------------------------------------------------------
(* Properties. *)

(* The two processes never disagree about the queue for longer than the     *)
(* lines between them: reading what is in the pipe turns the shell's list   *)
(* into the daemon's, in the daemon's order ("Head first, exactly as the    *)
(* daemon ordered it").                                                     *)
ReadOne(view, e) ==
    IF e.ev = "request" THEN Append(view, e.id)
    ELSE IF e.ev = "close" THEN RemoveFirst(view, e.id)
    ELSE view

ViewCatchesUp ==
    up /\ running => FoldLeft(ReadOne, requests, out) = queue

(* Once both pipes are empty a polkit conversation that waits for an answer *)
(* has a live field: no dropped or crossed answer leaves the prompt saying  *)
(* "Checking" to someone PAM is waiting for.                                *)
FieldLiveWhenAsked ==
    up /\ out = <<>> /\ cmds = <<>> /\ HeadIsPolkit(queue) /\ pending[queue[1]]
        => promptReady /\ stage # "verifying"

(* One answer per prompt: never two answers to one request in the pipe that *)
(* both count as answers to its last prompt.                                *)
OneAnswerPerPrompt ==
    \A i, j \in DOMAIN cmds :
        /\ cmds[i].cmd = "respond" /\ cmds[j].cmd = "respond"
        /\ cmds[i].fresh /\ cmds[j].fresh
        /\ cmds[i].id = cmds[j].id
        => i = j

(* The joined system keeps the promise of PromptQueue: although the daemon  *)
(* takes an answer for any sudo request it holds, and commands cross with   *)
(* closes, only the front of the queue is ever granted.                     *)
Promise == INSTANCE PromptQueue
               WITH Callers <- Requests, line <- queue, verdict <- status
KeepsPromise == Promise!PQSpec

(* Whoever gives up on what is on the screen gets rid of it: every caller   *)
(* is answered in the end, those behind the head and those that wait when   *)
(* the daemon dies included.                                                *)
EveryCallerIsAnswered == \A r \in Requests : Open(r) ~> ~Open(r)

(* bin/c7-authd: "A sudo prompt has no PAM conversation of its own to wait  *)
(* for: the field is live the moment it is drawn."  A sudo request on the   *)
(* screen is, sooner or later, one that can be typed into.                  *)
OnScreen(r) == Active /\ Current = r
SudoFieldGoesLive ==
    \A r \in Sudo : OnScreen(r) ~> (promptReady \/ ~OnScreen(r))

(* tests/auth-qml-test.qml: "One prompt on screen; the second waits, and    *)
(* does not steal the field from the one being answered."  A live field was *)
(* made live by the prompt of the request it is drawn for.                  *)
FieldBelongsToTheHead ==
    Active /\ promptReady /\ out = <<>> => promptFor = {Current}

(* bin/c7-authd, respond(): a secret must not answer "the NEXT prompt with  *)
(* a secret typed for this one".                                            *)
AnswersItsOwnPrompt ==
    [][\A r \in Polkit : session[r] = "asking" /\ session'[r] = "answered"
          => Head(cmds).fresh]_sysVars
============================================================================
