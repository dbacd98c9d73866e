---------------------------- MODULE MenuLayout ----------------------------
(* scripts/c7shell-appmenud.py, what it makes of one application's menus.   *)
(* build_menus() turns a dbusmenu layout into what the shell draws, and     *)
(* apply_props() patches that in place when the application sends changed   *)
(* properties, entry by entry, so as not to fetch the layout again.  The    *)
(* question of the module is whether the two ways give the same menus.      *)
(*                                                                          *)
(* A fetch is refresh()'s chain of calls: the menu bar, the rows of one menu*)
(* after the other, and only then apply().  Signals and answers come over   *)
(* one connection, in the order the application sent them, so a change and  *)
(* what the daemon does on its signal are one step, and an answer has the   *)
(* layout of the moment it is taken in.  The calls of the chain that fail,  *)
(* AboutToShow and an application that leaves are in AppMenus.              *)
(*                                                                          *)
(* The order of menus and rows, which no step changes, and icons and        *)
(* submenus, which the shell does not draw, are left out: a menu is a       *)
(* function of the ids in it, and the chain takes menus in any order.       *)
EXTENDS Naturals, Sequences

CONSTANTS Tops,        \* top-level menus, by their dbusmenu ids
          Rows,        \* rows of their dropdowns
          Of,          \* the menu a row is in
          Separators,  \* rows that are separators
          Labels, Texts, NoText,  \* labels as sent, and as shown; the empty one
          Clean,       \* clean_label()
          Combos, NoShortcut,     \* key combinations, and none
          Shortcuts,   \* sequences of them
          Layouts,     \* layouts an application may start with
          Payloads,    \* what it may put into one ItemsPropertiesUpdated
          MaxChanges   \* bound on what the application does

Ids == Tops \cup Rows
Keys == {"label", "shortcut", "enabled", "visible"}
Patchable == {"label", "shortcut", "enabled"}

\* "visible" stands for every key the cache does not hold.
Node == [label : Labels, shortcut : Shortcuts, enabled : BOOLEAN, visible : BOOLEAN]
Layout == [Ids -> Node]

\* Changed properties of one node: a node, and the keys of it that count.
Entry == [id : Ids, keys : SUBSET Keys, to : Node]

ASSUME LayoutAssumption ==
    /\ Tops \cap Rows = {}
    /\ Of \in [Rows -> Tops] /\ Separators \subseteq Rows
    /\ Clean \in [Labels -> Texts] /\ NoText \in Texts
    /\ Shortcuts \subseteq Seq(Combos) /\ NoShortcut \notin Combos
    /\ Layouts \subseteq Layout
    /\ Payloads \subseteq Seq(Entry)
    /\ \A p \in Payloads : \A i, j \in DOMAIN p : p[i].id = p[j].id => i = j
    /\ MaxChanges \in Nat

-----------------------------------------------------------------------------
(* The menus of a layout.                                                   *)

\* shortcut(): the first combination, if there is one.
Shown(s) == IF s = <<>> THEN NoShortcut ELSE Head(s)

\* as_item().
Separator == [separator |-> TRUE]
Item(r, node) ==
    IF r \in Separators THEN Separator
    ELSE [label |-> Clean[node.label], shortcut |-> Shown(node.shortcut), enabled |-> node.enabled]

\* top_levels().
Drawn(t, layout) == layout[t].visible /\ Clean[layout[t].label] # NoText

\* menu_entry().
RowsOf(t, layout) == {r \in Rows : Of[r] = t /\ layout[r].visible}

MenuEntry(t, layout) ==
    [label |-> Clean[layout[t].label],
     items |-> [r \in RowsOf(t, layout) |-> Item(r, layout[r])]]

\* build_menus().
Menus(layout) == [t \in {u \in Tops : Drawn(u, layout)} |-> MenuEntry(t, layout)]

\* A layout with an entry's properties in it, as the application has it.
With(node, e) ==
    [label    |-> IF "label" \in e.keys THEN e.to.label ELSE node.label,
     shortcut |-> IF "shortcut" \in e.keys THEN e.to.shortcut ELSE node.shortcut,
     enabled  |-> IF "enabled" \in e.keys THEN e.to.enabled ELSE node.enabled,
     visible  |-> IF "visible" \in e.keys THEN e.to.visible ELSE node.visible]
Changed(layout, e) == [layout EXCEPT ![e.id] = With(@, e)]

-----------------------------------------------------------------------------
VARIABLES
  layout,   \* the application's
  cache,    \* the daemon's menus
  work,     \* entries of a payload that are still to be applied
  dirty,    \* and whether one has been
  stale,    \* a refresh is scheduled
  at,       \* the answer refresh() waits for: the menu bar, rows, or none
  todo,     \* the menus whose rows it does not have yet
  snap,     \* what it has of the layout
  told,     \* the menus last published
  read,     \* history: the layout with the changes that were taken in
  late,     \* history: a patch changed what the refresh already had
  blanked,  \* history: a patch took the text of a menu away
  half,     \* history: a payload was given up after some of it
  changes

chain == <<at, todo, snap>>
vars == <<layout, cache, work, dirty, stale, chain, told, read, late, blanked, half, changes>>

Relaid == <<>>  \* LayoutUpdated, and a payload with removed properties

Init ==
    /\ layout \in Layouts
    /\ work = <<>> /\ dirty = FALSE /\ stale = FALSE
    /\ at = "rest" /\ todo = {} /\ snap = layout
    /\ cache = Menus(layout) /\ told = Menus(layout) /\ read = layout
    /\ late = FALSE /\ blanked = FALSE /\ half = FALSE /\ changes = 0

appVars == <<layout, changes>>

-----------------------------------------------------------------------------
(* The application, and the daemon on its signals.                          *)

\* slip: removed properties are not looked at
Take_slip(p) ==
    /\ work = <<>> /\ work' = p
    /\ UNCHANGED <<cache, dirty, stale, chain, told, read, late, blanked, half>>

\* on_items_properties_updated(), on_layout_updated(): one signal is taken in;
\* what cannot be patched at all is fetched again.
Take(p) ==
    /\ work = <<>> /\ work' = p
    /\ stale' = (stale \/ p = Relaid)
    /\ UNCHANGED <<cache, dirty, chain, told, read, late, blanked, half>>

Sends(p) == changes < MaxChanges /\ changes' = changes + 1 /\ Take(p)

\* It sets properties and sends them.
AppSets ==
    \E p \in Payloads \ {Relaid} :
        /\ Sends(p)
        /\ layout' = [id \in Ids |->
                IF \E i \in DOMAIN p : p[i].id = id
                THEN With(layout[id], p[CHOOSE i \in DOMAIN p : p[i].id = id])
                ELSE layout[id]]

\* It changes a layout at large, or resets properties to their defaults.
AppRelays ==
    /\ \E new \in Layouts : layout' = new
    /\ Sends(Relaid)

-----------------------------------------------------------------------------
(* Patching.                                                                *)

\* find_item(); a separator in the cache has no id.
Cached(id) ==
    IF id \in Tops THEN id \in DOMAIN cache
    ELSE /\ id \notin Separators
         /\ Of[id] \in DOMAIN cache
         /\ id \in DOMAIN cache[Of[id]].items

Expressible(e) == e.keys \subseteq Patchable /\ Cached(e.id)

\* A row's new properties, as the shell shows them.
Patched(item, e) ==
    [label    |-> IF "label" \in e.keys THEN Clean[e.to.label] ELSE item.label,
     shortcut |-> IF "shortcut" \in e.keys THEN Shown(e.to.shortcut) ELSE item.shortcut,
     enabled  |-> IF "enabled" \in e.keys THEN e.to.enabled ELSE item.enabled]

\* slip: a menu is given what rows have
PatchTop_slip(e) ==
    [cache EXCEPT ![e.id] =
        [label   |-> IF "label" \in e.keys THEN Clean[e.to.label] ELSE @.label,
         enabled |-> e.to.enabled,
         items   |-> @.items]]

PatchTop(e) ==
    IF "label" \in e.keys THEN [cache EXCEPT ![e.id].label = Clean[e.to.label]] ELSE cache

PatchRow(e) == [cache EXCEPT ![Of[e.id]].items[e.id] = Patched(@, e)]

\* What the refresh under way will not ask for again.
Fetched(id) == at = "kids" /\ (id \in Tops \/ Of[id] \notin todo)

\* The loop of apply_props(): one entry, and after the last the menus are
\* published.
ApplyEntry ==
    /\ work # <<>> /\ Expressible(Head(work))
    /\ LET e == Head(work) IN
         /\ cache' = IF e.id \in Tops THEN PatchTop(e) ELSE PatchRow(e)
         /\ read' = Changed(read, e)
         /\ late' = (late \/ Fetched(e.id))
         /\ blanked' = (blanked \/ (e.id \in Tops /\ "label" \in e.keys
                                      /\ Clean[e.to.label] = NoText))
    /\ work' = Tail(work)
    /\ IF Tail(work) = <<>>
       THEN dirty' = FALSE /\ told' = cache' /\ half' = FALSE
       ELSE dirty' = TRUE /\ UNCHANGED <<told, half>>
    /\ UNCHANGED <<appVars, stale, chain>>

\* slip: what cannot be patched is passed over
GiveUp_slip ==
    /\ work # <<>> /\ ~Expressible(Head(work))
    /\ work' = <<>> /\ dirty' = FALSE
    /\ half' = (half \/ dirty)
    /\ UNCHANGED <<appVars, cache, stale, chain, told, read, late, blanked>>

\* return False, wherever in the payload it is.
GiveUp ==
    /\ work # <<>> /\ ~Expressible(Head(work))
    /\ work' = <<>> /\ dirty' = FALSE
    /\ stale' = TRUE
    /\ half' = (half \/ dirty)
    /\ UNCHANGED <<appVars, cache, chain, told, read, late, blanked>>

-----------------------------------------------------------------------------
(* Fetching.                                                                *)

\* The timer of schedule() goes off: a chain under way is of an older
\* generation from here on.
Refresh ==
    /\ stale /\ work = <<>>
    /\ stale' = FALSE
    /\ at' = "root" /\ late' = FALSE
    /\ UNCHANGED <<appVars, cache, work, dirty, todo, snap, told, read, blanked, half>>

\* slip: what a patch gave up is not published
Apply_slip(l) ==
    /\ cache' = Menus(l) /\ read' = l /\ blanked' = FALSE
    /\ UNCHANGED <<told, half>>

\* apply(): what did not change is not published.
Apply(l) ==
    /\ cache' = Menus(l) /\ read' = l /\ blanked' = FALSE
    /\ IF cache' = cache THEN UNCHANGED <<told, half>> ELSE told' = cache' /\ half' = FALSE

\* step(): the chain goes on with a next menu, or ends.
Step(l, menus) ==
    /\ snap' = l /\ todo' = menus
    /\ IF menus = {} THEN at' = "rest" /\ Apply(l)
       ELSE at' = "kids" /\ UNCHANGED <<cache, told, read, blanked, half>>
    /\ UNCHANGED <<appVars, work, dirty, stale, late>>

\* got_root(): the menus there are, and their labels.
RootRead ==
    /\ at = "root" /\ work = <<>>
    /\ Step(layout, {t \in Tops : Drawn(t, layout)})

\* A layout with one menu's rows from another.
RowsFrom(l, new, t) == [id \in Ids |-> IF id \in Rows /\ Of[id] = t THEN new[id] ELSE l[id]]

\* got_kids().
KidsRead ==
    /\ at = "kids" /\ work = <<>>
    /\ \E t \in todo : Step(RowsFrom(snap, layout, t), todo \ {t})

Next == AppSets \/ AppRelays \/ ApplyEntry \/ GiveUp \/ Refresh \/ RootRead \/ KidsRead

Spec == Init /\ [][Next]_vars

(* The daemon goes on, its timer goes off, and its calls are answered.      *)
FairSpec ==
    /\ Spec
    /\ WF_vars(ApplyEntry) /\ WF_vars(GiveUp)
    /\ WF_vars(Refresh) /\ WF_vars(RootRead) /\ WF_vars(KidsRead)

-----------------------------------------------------------------------------
(* Properties.                                                              *)

TypeOK ==
    /\ layout \in Layout /\ read \in Layout /\ snap \in Layout
    /\ work \in Seq(Entry) /\ todo \subseteq Tops /\ at \in {"rest", "root", "kids"}
    /\ dirty \in BOOLEAN /\ stale \in BOOLEAN
    /\ late \in BOOLEAN /\ blanked \in BOOLEAN /\ half \in BOOLEAN
    /\ changes \in Nat
    /\ \A t \in DOMAIN cache : t \in Tops /\ cache[t].label \in Texts

\* "without a refetch": patching gives what build_menus() gives for the layout
\* with those changes, unless a patch took a menu's text away.
PatchIsRefetch == ~blanked => cache = Menus(read)

\* The same without exception.
PatchIsAlwaysRefetch == cache = Menus(read)

AtRest == at = "rest" /\ work = <<>> /\ ~stale

\* With no refresh due or under way the daemon has the application's menus,
\* whatever changed between the answers of the chain that fetched them; unless
\* a payload was patched into what that chain had already read, and apply() put
\* the older rows over it.
RestIsTrue == AtRest /\ ~blanked /\ ~late => cache = Menus(layout)

\* The same where the chain may overwrite a patch.
RestIsAlwaysTrue == AtRest /\ ~blanked => cache = Menus(layout)

\* Between two payloads the shell has the daemon's menus, unless one was given
\* up halfway.
ShellHasTheCache == work = <<>> /\ ~half => told = cache

\* An application that leaves its menus alone has them on the screen in the end,
\* unless a patch of it was half given up or overwritten.
ShellShowsTheApp == <>[](blanked \/ half \/ late \/ told = Menus(layout))
=============================================================================
