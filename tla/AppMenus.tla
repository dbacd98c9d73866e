----------------------------- MODULE AppMenus -----------------------------
(* scripts/c7shell-appmenud.py, the registrar of application menus, and     *)
(* Services/AppMenuService.qml, which shows what it publishes.  The daemon  *)
(* runs one GLib callback at a time, so a callback is an action.  It reads  *)
(* a menu bar by a chain of asynchronous D-Bus calls, one menu at a time,   *)
(* while signals about that bar go on arriving; a generation per process    *)
(* id tells a chain that it has been superseded.                            *)
(*                                                                          *)
(* A menu bar is a (sender, path) pair; what one of its menus holds is a    *)
(* value here (MenuLayout has the shapes).  An application's messages reach *)
(* the daemon in the order it sent them, replies included, so what it does  *)
(* and the callback that hears of it are one action: nothing the daemon     *)
(* does in between can tell.  The socket is a stream that the shell reads   *)
(* to its end; `view` is its menuMap when it has.  Clicks are left out:     *)
(* they change nothing in the daemon.                                       *)
(*                                                                          *)
(* An operator named X_slip is X with a plausible slip in it; no            *)
(* specification uses it.                                                   *)
EXTENDS Integers, Sequences

CONSTANTS Bars, Senders, Pids, Windows,
          SenderOf,   \* the connection that exports a bar
          PidOf,      \* the process behind a connection
          AtFirst,    \* bars that exist when the daemon comes
          Contents,   \* what a menu can hold
          None, Blank,
          Manners,    \* how the applications may behave
          MenuCount,  \* menus of every bar
          MaxCalls,   \* bound on the refreshes in flight at a connection
          MaxEvents   \* bound on what happens to the daemon from outside

Menus == 1..MenuCount
Process(b) == PidOf[SenderOf[b]]
Bar == [Menus -> Contents \cup {Blank}]

ASSUME MenuAssumption ==
    /\ SenderOf \in [Bars -> Senders]
    /\ PidOf \in [Senders -> Pids]
    /\ None \notin Bars \cup Bar
    /\ AtFirst \subseteq Bars /\ Contents # {} /\ Blank \notin Contents
    /\ Manners \subseteq {"plain", "patching", "sloppy"}
    /\ MenuCount \in Nat \ {0} /\ MaxCalls \in Nat /\ MaxEvents \in Nat

VARIABLES
  alive,      \* the daemon runs
  owned,      \* Daemon.owned
  windows,    \* Daemon.windows: the bar registered for a window id
  byPid,      \* Daemon.by_pid
  menus,      \* Daemon.menus
  gen,        \* Daemon.gen; 0 where there is no entry
  shown,      \* Daemon.shown: (bar, menu) sent AboutToShow
  pending,    \* pids with a debounce timer
  scanning,   \* connections whose Introspect is outstanding
  calls,      \* per connection: the refreshes that wait for it, in the order of their calls
  running,    \* connections on the bus
  exported,   \* bars that exist
  content,    \* what their menus hold
  manner,     \* how the applications behave
  rival,      \* another registrar holds the name
  enabled,    \* ShellStore.globalMenu
  linked,     \* the shell is a client of the daemon
  cmds,       \* registrar lines under way to the daemon
  view,       \* AppMenuService.menuMap
  events      \* outside events so far

bookVars == <<windows, byPid, menus, gen, shown, pending>>
appVars == <<running, exported, content, manner>>
shellVars == <<enabled, linked, cmds>>
vars == <<alive, owned, bookVars, scanning, calls, appVars, rival, shellVars, view, events>>

Empty == [m \in Menus |-> Blank]
Nothing == [p \in Pids |-> None]
Nowhere == [w \in Windows |-> None]

Quiet == [s \in Senders |-> <<>>]

\* A refresh that waits: for what, of which menu; what it has so far.  `newest`
\* is history: no later refresh of the process has started.
Call == [at : {"root", "show", "kids"}, bar : Bars, gen : Nat, menu : Menus, got : Bar,
         newest : BOOLEAN]

TypeOK ==
    /\ alive \in BOOLEAN /\ owned \in BOOLEAN /\ rival \in BOOLEAN
    /\ enabled \in BOOLEAN /\ linked \in BOOLEAN
    /\ windows \in [Windows -> Bars \cup {None}]
    /\ byPid \in [Pids -> Bars \cup {None}]
    /\ menus \in [Pids -> Bar \cup {None}]
    /\ gen \in [Pids -> Nat]
    /\ shown \subseteq Bars \X Menus
    /\ pending \subseteq Pids
    /\ scanning \subseteq Senders
    /\ calls \in [Senders -> Seq(Call)]
    /\ running \subseteq Senders
    /\ exported \subseteq Bars
    /\ content \in [Bars -> [Menus -> Contents]]
    /\ manner \in Manners
    /\ cmds \in Seq(BOOLEAN)
    /\ view \in [Pids -> Bar \cup {None}]
    /\ events \in Nat

\* The daemon has just acquired the name, asked everyone on the bus, and
\* accepted the shell.
Init ==
    /\ alive = TRUE /\ owned = TRUE
    /\ windows = Nowhere /\ byPid = Nothing /\ menus = Nothing
    /\ gen = [p \in Pids |-> 0]
    /\ shown = {} /\ pending = {} /\ scanning = Senders
    /\ calls = Quiet
    /\ running = Senders
    /\ exported = AtFirst
    /\ content = [b \in Bars |-> [m \in Menus |-> CHOOSE v \in Contents : TRUE]]
    /\ manner \in Manners
    /\ rival = FALSE
    /\ enabled = TRUE
    /\ linked = TRUE /\ cmds = <<enabled>> /\ view = Nothing
    /\ events = 0

\* What comes from outside is bounded.
Happens == events < MaxEvents /\ events' = events + 1

-----------------------------------------------------------------------------
(* Publishing, forgetting, adopting.                                        *)

\* publish() and ingest(): the menus of the pids in P are now `said`.
Publish(P, said) ==
    view' = [p \in Pids |-> IF linked /\ p \in P THEN said[p] ELSE view[p]]

ShownWithout(bars) == {k \in shown : k[1] \notin bars}

HandsOff == UNCHANGED <<byPid, gen, shown, menus, pending, view>>

\* drop() of each of the pids in P.  A timer stays armed.
Drop(P) ==
    /\ byPid' = [p \in Pids |-> IF p \in P THEN None ELSE byPid[p]]
    /\ gen' = [p \in Pids |-> IF p \in P THEN 0 ELSE gen[p]]
    /\ shown' = ShownWithout({byPid[p] : p \in P})
    /\ menus' = [p \in Pids |-> IF p \in P THEN None ELSE menus[p]]
    /\ Publish({p \in P : menus[p] # None}, Nothing)
    /\ UNCHANGED pending

\* Without the question whether the name is owned.
Adopt_slip(b) ==
    \/ (SenderOf[b] \notin running \/ byPid[Process(b)] = b) /\ HandsOff
    \/ /\ SenderOf[b] \in running /\ byPid[Process(b)] # b
       /\ byPid' = [byPid EXCEPT ![Process(b)] = b]
       /\ shown' = ShownWithout({b})
       /\ pending' = pending \cup {Process(b)}
       /\ UNCHANGED <<gen, menus, view>>

\* adopt(): the newest bar wins its process.  schedule() arms the debounce.
Adopt(b) ==
    \/ /\ ~owned \/ SenderOf[b] \notin running \/ byPid[Process(b)] = b
       /\ HandsOff
    \/ /\ owned /\ SenderOf[b] \in running /\ byPid[Process(b)] # b
       /\ byPid' = [byPid EXCEPT ![Process(b)] = b]
       /\ shown' = ShownWithout({b})
       /\ pending' = pending \cup {Process(b)}
       /\ UNCHANGED <<gen, menus, view>>

-----------------------------------------------------------------------------
(* The registrar: the name, the scan, the window ids.                       *)

\* acquire(): refused while somebody else has the name; scan().
Acquire ==
    \/ /\ owned \/ rival
       /\ UNCHANGED <<owned, scanning>>
    \/ /\ ~owned /\ ~rival
       /\ owned' = TRUE
       /\ scanning' = scanning \cup running

\* Cleared without a word to the shell.
Release_slip ==
    \/ ~owned /\ HandsOff /\ UNCHANGED <<owned, windows>>
    \/ /\ owned
       /\ owned' = FALSE
       /\ windows' = Nowhere /\ byPid' = Nothing /\ menus' = Nothing
       /\ gen' = [p \in Pids |-> 0]
       /\ shown' = {}
       /\ UNCHANGED <<pending, view>>

\* release().
Release ==
    \/ ~owned /\ HandsOff /\ UNCHANGED <<owned, windows>>
    \/ /\ owned
       /\ owned' = FALSE
       /\ windows' = Nowhere /\ byPid' = Nothing /\ menus' = Nothing
       /\ gen' = [p \in Pids |-> 0]
       /\ shown' = {}
       /\ Publish({p \in Pids : menus[p] # None}, Nothing)
       /\ UNCHANGED pending

\* readable(), on_message() and set_registrar().
DaemonReads ==
    /\ alive /\ linked /\ cmds # <<>>
    /\ cmds' = Tail(cmds)
    /\ \/ Head(cmds) /\ Acquire /\ HandsOff /\ UNCHANGED windows
       \/ ~Head(cmds) /\ Release /\ UNCHANGED scanning
    /\ UNCHANGED <<alive, calls, appVars, rival, enabled, linked, events>>

\* found(): the bars below /MenuBar are adopted in the order of the reply, which
\* may be any; one that is held when its turn comes is no news.
\* A peer that does not answer is one for which this never happens.
ScanAnswered(s) ==
    LET bars == {b \in exported : SenderOf[b] = s}
        news == owned /\ s \in running /\ bars \notin {{}, {byPid[PidOf[s]]}}
    IN
    /\ alive /\ s \in scanning
    /\ scanning' = scanning \ {s}
    /\ \/ ~news /\ UNCHANGED <<byPid, shown, pending>>
       \/ /\ news
          /\ \E first, last \in bars :
               /\ first = last => bars = {last}
               /\ byPid' = [byPid EXCEPT ![PidOf[s]] = last]
               /\ shown' = ShownWithout(IF first = byPid[PidOf[s]] THEN bars \ {first} ELSE bars)
          /\ pending' = pending \cup {PidOf[s]}
    /\ UNCHANGED <<alive, owned, windows, menus, gen, calls, appVars, rival, shellVars, view, events>>

\* register().
OnRegister(w, b) ==
    /\ windows' = [windows EXCEPT ![w] = b]
    /\ Adopt(b)

\* unregister(): not while the same menu is up under another id.
OnUnregister(w) ==
    LET left == [windows EXCEPT ![w] = None]
        over == windows[w] # None /\ \A x \in Windows : left[x] # windows[w]
    IN
    /\ windows' = left
    /\ \/ ~over /\ HandsOff
       \/ over /\ Drop({p \in Pids : byPid[p] = windows[w]})

\* The window ids stay.
OnNameLost_slip(s) ==
    /\ Drop({p \in Pids : byPid[p] # None /\ SenderOf[byPid[p]] = s})
    /\ UNCHANGED windows

\* on_name_lost().
OnNameLost(s) ==
    /\ Drop({p \in Pids : byPid[p] # None /\ SenderOf[byPid[p]] = s})
    /\ windows' = [w \in Windows |->
                     IF windows[w] # None /\ SenderOf[windows[w]] = s THEN None ELSE windows[w]]

-----------------------------------------------------------------------------
(* Signals about a bar.                                                     *)

\* Not while a refresh is under way.
Reschedule_slip(b) ==
    /\ pending' = IF calls[SenderOf[b]] = <<>> THEN pending \cup {Process(b)} ELSE pending
    /\ UNCHANGED <<byPid, gen, shown, menus, view>>

Reschedule(b) ==
    /\ pending' = pending \cup {Process(b)}
    /\ UNCHANGED <<byPid, gen, shown, menus, view>>

\* A bar that is known already is left alone.
OnLayoutUpdated_slip(b) == Adopt(b)

\* on_layout_updated() and discover().
OnLayoutUpdated(b) ==
    \/ byPid[Process(b)] # b /\ Adopt(b)
    \/ byPid[Process(b)] = b /\ Reschedule(b)

\* find_item() finds a row of menu m.
Cached(p, m) == IF menus[p] = None THEN FALSE ELSE menus[p][m] # Blank

\* on_items_properties_updated() and apply_props(): a payload whose first
\* entry turns menu m's rows into v and which may go on (`more`) with an entry
\* that the cache cannot express.
OnProps(b, m, v, more) ==
    LET p == Process(b) IN
    \/ byPid[p] # b /\ Adopt(b)
    \/ byPid[p] = b /\ ~Cached(p, m) /\ Reschedule(b)
    \/ /\ byPid[p] = b /\ Cached(p, m)
       /\ menus' = [menus EXCEPT ![p][m] = v]
       /\ \/ more /\ pending' = pending \cup {p} /\ UNCHANGED view
          \/ ~more /\ Publish({p}, menus') /\ UNCHANGED pending
       /\ UNCHANGED <<byPid, gen, shown>>

-----------------------------------------------------------------------------
(* Refreshing: GetLayout of the root, then for each menu AboutToShow, once, *)
(* and GetLayout of its rows.                                               *)

\* A refresh of a process is the newest until the next starts.
Superseded(queue, p) ==
    [i \in 1..Len(queue) |->
       IF Process(queue[i].bar) = p THEN [queue[i] EXCEPT !.newest = FALSE] ELSE queue[i]]

Root(p) == [at |-> "root", bar |-> byPid[p], gen |-> gen[p] + 1, menu |-> 1, got |-> Empty,
            newest |-> TRUE]

\* fire() and refresh().
Fire(p) ==
    /\ alive /\ p \in pending
    /\ pending' = pending \ {p}
    /\ \/ byPid[p] = None /\ UNCHANGED <<gen, calls>>
       \/ /\ byPid[p] # None
          /\ Len(calls[SenderOf[byPid[p]]]) < MaxCalls
          /\ gen' = [gen EXCEPT ![p] = @ + 1]
          /\ calls' = [s \in Senders |->
               IF s = SenderOf[byPid[p]] THEN Append(Superseded(calls[s], p), Root(p))
               ELSE Superseded(calls[s], p)]
    /\ UNCHANGED <<alive, owned, windows, byPid, menus, shown, scanning, appVars, rival,
                   shellVars, view, events>>

\* current().
Current(c) == gen[Process(c.bar)] = c.gen /\ byPid[Process(c.bar)] = c.bar

\* The first call at s is over, and with it the refresh; or the next is sent.
Ends(s) == calls' = [calls EXCEPT ![s] = Tail(@)]
Sends(s, c) == calls' = [calls EXCEPT ![s] = Append(Tail(@), c)]

\* step(): the next menu.  AboutToShow is sent once in the life of a bar.
Ask(s, c, m) ==
    /\ Sends(s, [c EXCEPT !.at = IF <<c.bar, m>> \in shown THEN "kids" ELSE "show", !.menu = m])
    /\ shown' = shown \cup {<<c.bar, m>>}
    /\ UNCHANGED <<byPid, gen, menus, pending, view>>

\* apply(): equal menus are not published again.
Apply(p, got) ==
    /\ \/ menus[p] = got /\ UNCHANGED <<menus, view>>
       \/ /\ menus[p] # got
          /\ menus' = [menus EXCEPT ![p] = got]
          /\ Publish({p}, menus')
    /\ UNCHANGED <<byPid, gen, shown, pending>>

\* got_root(), root_failed().
RootDone(s, c, ok) ==
    \/ ~Current(c) /\ Ends(s) /\ HandsOff
    \/ Current(c) /\ ~ok /\ Ends(s) /\ Drop({Process(c.bar)})
    \/ Current(c) /\ ok /\ Ask(s, c, 1)

\* got_kids(), kids_failed(): a menu that did not answer keeps what the root
\* layout carried, which is nothing.
KidsDone(s, c, rows) ==
    LET got == [c.got EXCEPT ![c.menu] = rows] IN
    \/ ~Current(c) /\ Ends(s) /\ HandsOff
    \/ Current(c) /\ c.menu < MenuCount /\ Ask(s, [c EXCEPT !.got = got], c.menu + 1)
    \/ Current(c) /\ c.menu = MenuCount /\ Ends(s) /\ Apply(Process(c.bar), got)

\* get_kids(), after AboutToShow: no question whether the chain is current.
ShowDone(s, c) == Sends(s, [c EXCEPT !.at = "kids"])

\* CALL_TIMEOUT, or the bus's error for a connection that is gone; an answer
\* that comes later is thrown away.
Fails(s) ==
    LET c == Head(calls[s]) IN
    /\ alive /\ calls[s] # <<>>
    /\ \/ s \notin running /\ UNCHANGED events
       \/ s \in running /\ manner = "sloppy" /\ Happens
    /\ \/ c.at = "root" /\ RootDone(s, c, FALSE)
       \/ c.at = "show" /\ ShowDone(s, c) /\ HandsOff
       \/ c.at = "kids" /\ KidsDone(s, c, Blank)
    /\ UNCHANGED <<alive, owned, windows, scanning, appVars, rival, shellVars>>

\* The application answers; AboutToShow is answered with a signal too.
Answers(s) ==
    LET c == Head(calls[s]) IN
    /\ alive /\ calls[s] # <<>> /\ s \in running
    /\ \/ c.at = "root" /\ RootDone(s, c, TRUE)
       \/ c.at = "show" /\ ShowDone(s, c) /\ OnLayoutUpdated(c.bar)
       \/ c.at = "kids" /\ KidsDone(s, c, content[c.bar][c.menu])
    /\ UNCHANGED <<alive, owned, windows, scanning, appVars, rival, shellVars, events>>

-----------------------------------------------------------------------------
(* What happens outside.                                                    *)

\* A handler runs if there is a daemon to run it.
Heard(Handler) == IF alive THEN Handler ELSE HandsOff

\* A window comes up.  A toolkit exports its bar when somebody has the name.
Export(b) ==
    /\ Happens
    /\ SenderOf[b] \in running /\ b \notin exported /\ (owned \/ rival)
    /\ exported' = exported \cup {b}
    /\ Heard(OnLayoutUpdated(b))
    /\ UNCHANGED <<alive, owned, windows, scanning, calls, running, content, manner, rival,
                   shellVars>>

\* A menu changes, and the application says so in one of its ways.
Change(b) ==
    /\ Happens /\ b \in exported
    /\ \E m \in Menus : \E v \in Contents \ {content[b][m]} :
         /\ content' = [content EXCEPT ![b][m] = v]
         /\ \/ Heard(OnLayoutUpdated(b))
            \/ manner # "plain" /\ Heard(OnProps(b, m, v, FALSE))
            \/ manner = "sloppy" /\ Heard(OnProps(b, m, v, TRUE))
    /\ UNCHANGED <<alive, owned, windows, scanning, calls, running, exported, manner, rival,
                   shellVars>>

\* RegisterWindow and UnregisterWindow, by toolkits that call them, to a
\* registrar that is there.
Registers(w) ==
    /\ Happens /\ owned
    /\ \/ \E b \in exported : OnRegister(w, b)
       \/ OnUnregister(w)
    /\ UNCHANGED <<alive, owned, scanning, calls, appVars, rival, shellVars>>

AppLeaves(s) ==
    /\ Happens /\ s \in running
    /\ running' = running \ {s}
    /\ exported' = {b \in exported : SenderOf[b] # s}
    /\ OnNameLost(s)
    /\ UNCHANGED <<alive, owned, scanning, calls, content, manner, rival, shellVars>>

RivalComes ==
    /\ Happens /\ ~rival /\ ~owned
    /\ rival' = TRUE
    /\ UNCHANGED <<alive, owned, bookVars, scanning, calls, appVars, shellVars, view>>

-----------------------------------------------------------------------------
(* The shell, and the daemon's own end.                                     *)

\* onGlobalMenuChanged and pushRegistrar().
Switch ==
    /\ Happens
    /\ enabled' = ~enabled
    /\ cmds' = IF linked THEN Append(cmds, ~enabled) ELSE cmds
    /\ UNCHANGED <<alive, owned, bookVars, scanning, calls, appVars, rival, linked, view>>

\* The daemon is not told the setting.
Connect_slip ==
    /\ alive /\ ~linked
    /\ linked' = TRUE
    /\ cmds' = <<>>
    /\ view' = menus
    /\ UNCHANGED <<alive, owned, bookVars, scanning, calls, appVars, rival, enabled, events>>

\* The retry timer's new socket: accept() sends the snapshot, onLinkedChanged
\* the setting.
Connect ==
    /\ alive /\ ~linked
    /\ linked' = TRUE
    /\ cmds' = <<enabled>>
    /\ view' = menus
    /\ UNCHANGED <<alive, owned, bookVars, scanning, calls, appVars, rival, enabled, events>>

\* onLinkedChanged, downwards: the shell forgets every menu.
LinkGone == linked' = FALSE /\ cmds' = <<>> /\ view' = Nothing

\* What the daemon has not read is lost: a watch that reports data and the end
\* of the stream together closes the client at once.
LinkBreaks ==
    /\ Happens /\ linked
    /\ LinkGone
    /\ UNCHANGED <<alive, owned, bookVars, scanning, calls, appVars, rival, enabled>>

DaemonDies ==
    /\ Happens /\ alive
    /\ alive' = FALSE /\ owned' = FALSE
    /\ windows' = Nowhere /\ byPid' = Nothing /\ menus' = Nothing
    /\ gen' = [p \in Pids |-> 0]
    /\ shown' = {} /\ pending' = {} /\ scanning' = {} /\ calls' = Quiet
    /\ LinkGone
    /\ UNCHANGED <<appVars, rival, enabled>>

\* run(): without the name it leaves again.
DaemonStarts ==
    /\ ~alive /\ ~rival
    /\ alive' = TRUE /\ owned' = TRUE
    /\ scanning' = running
    /\ UNCHANGED <<bookVars, calls, appVars, rival, shellVars, view, events>>

Next ==
    \/ DaemonReads \/ Switch \/ Connect \/ LinkBreaks \/ DaemonDies \/ DaemonStarts
    \/ RivalComes
    \/ \E s \in Senders : ScanAnswered(s) \/ AppLeaves(s) \/ Answers(s) \/ Fails(s)
    \/ \E w \in Windows : Registers(w)
    \/ \E p \in Pids : Fire(p)
    \/ \E b \in Bars : Export(b) \/ Change(b)

Spec == Init /\ [][Next]_vars

(* The loops of the two processes turn, timers go off, and a call is        *)
(* answered or given up.  Nothing is asked of applications or of the user.  *)
Fairness ==
    /\ WF_vars(DaemonReads) /\ WF_vars(Connect)
    /\ \A p \in Pids : WF_vars(Fire(p))
    /\ \A s \in Senders : WF_vars(Answers(s) \/ Fails(s))

FairSpec == Spec /\ Fairness

-----------------------------------------------------------------------------
(* Properties.                                                              *)

\* Without the name the daemon serves nobody: no chain, timer or signal left
\* over from before brings a menu back (release, adopt, refresh).
ReleasedIsEmpty ==
    ~owned => menus = Nothing /\ byPid = Nothing /\ windows = Nowhere /\ shown = {}

\* Menus that are served belong to a process whose bar is adopted.
ServedIsAdopted == \A p \in Pids : menus[p] # None => byPid[p] # None

\* The shell holds the daemon's cache, unless a payload was half applied
\* (apply_props); and nothing when they are not connected.
ViewMirrors ==
    /\ linked /\ manner # "sloppy" => view = menus
    /\ ~linked => view = Nothing

\* A bar has a running application.
ExportersRun == \A b \in exported : SenderOf[b] \in running

\* A connection that has left is nowhere in the daemon's books (on_name_lost),
\* not even by the late answer to a scan.
GoneLeavesNothing ==
    /\ \A p \in Pids : byPid[p] # None => SenderOf[byPid[p]] \in running
    /\ \A w \in Windows : windows[w] # None => SenderOf[windows[w]] \in running

\* "only the newest one is allowed to publish" (refresh).
OnlyTheNewestPublishes ==
    [][\A s \in Senders :
         /\ alive' /\ calls[s] # <<>> /\ calls'[s] = Tail(calls[s]) /\ ~Head(calls[s]).newest
         => menus' = menus]_vars

\* "the caller refetches instead": the next layout of the bar reaches the shell
\* (apply_props).
RestShowsTheCache == pending = {} /\ calls = Quiet /\ linked => view = menus

\* A refresh of process p is due, or under way and still the current one.
Unsettled(p) ==
    p \in pending \/ \E i \in 1..Len(calls[SenderOf[byPid[p]]]) : Current(calls[SenderOf[byPid[p]]][i])

ServedRight == \A p \in Pids : byPid[p] # None /\ ~Unsettled(p) => menus[p] = content[byPid[p]]

\* However refreshes, signals and changes of hands overlap, a process that no
\* refresh is due for and none is under way is served what its bar holds, if
\* its menus tell of their changes by LayoutUpdated and answer (refresh).
SettledIsTrue == manner = "plain" => ServedRight

\* The same of applications that send ItemsPropertiesUpdated instead: a patch of
\* a menu that the refresh under way has read already is lost (apply).
PatchesSurvive == manner = "patching" => ServedRight

\* AboutToShow is answered by a signal that starts another refresh; that ends,
\* and then the daemon serves what the adopted bar holds, if its menus tell of
\* their changes by LayoutUpdated and answer.
ServesTheTruth ==
    <>[](/\ pending = {} /\ calls = Quiet /\ cmds = <<>>
         /\ manner = "plain" => \A p \in Pids : byPid[p] # None => menus[p] = content[byPid[p]])

\* The setting in the shell decides who draws the menus, unless another
\* registrar has the name (pushRegistrar, set_registrar).
SwitchObeyed == <>[](linked => owned = enabled \/ rival)

\* Whenever the daemon has read all it was told, it is the registrar just if the
\* setting says so and nobody else is, whatever switches, broken links, deaths
\* and restarts came before (set_registrar, onLinkedChanged).
SettingRules == linked /\ cmds = <<>> => (owned <=> enabled /\ ~rival)
=============================================================================
