-------------------------- MODULE MenuLayoutProofs --------------------------
(* Proofs about MenuLayout, for every set of menus, rows and labels and for *)
(* every payload: patching the menus gives what fetching them gives, at rest*)
(* the daemon has the application's menus, and the shell the daemon's.      *)
EXTENDS MenuLayout, TLAPS

-----------------------------------------------------------------------------
(* What a changed property does to a layout, and to the menus of it.        *)

LEMMA WithIs ==
    ASSUME NEW node \in Node, NEW e \in Entry
    PROVE  /\ With(node, e) \in Node
           /\ \A k \in Keys : With(node, e)[k] = IF k \in e.keys THEN e.to[k] ELSE node[k]
  BY DEF With, Node, Entry, Keys

LEMMA ChangedIs ==
    ASSUME NEW l \in Layout, NEW e \in Entry
    PROVE  /\ Changed(l, e) \in Layout
           /\ Changed(l, e)[e.id] = With(l[e.id], e)
           /\ \A id \in Ids \ {e.id} : Changed(l, e)[id] = l[id]
  BY WithIs DEF Changed, Layout, Entry

\* A menu that stays drawn gets its new label and keeps its rows.
LEMMA TopPatch ==
    ASSUME NEW l \in Layout, NEW e \in Entry, e.id \in Tops, e.keys \subseteq Patchable,
           Drawn(e.id, l), "label" \in e.keys => Clean[e.to.label] # NoText
    PROVE  Menus(Changed(l, e)) =
             IF "label" \in e.keys THEN [Menus(l) EXCEPT ![e.id].label = Clean[e.to.label]]
             ELSE Menus(l)
<1> DEFINE m == Changed(l, e)
<1> USE LayoutAssumption
<1>1. m \in Layout /\ m[e.id] = With(l[e.id], e) /\ \A id \in Ids \ {e.id} : m[id] = l[id]
  BY ChangedIs
<1> HIDE DEF m
<1>2. /\ m[e.id].visible = l[e.id].visible
      /\ m[e.id].label = IF "label" \in e.keys THEN e.to.label ELSE l[e.id].label
  BY <1>1 DEF With, Patchable
<1>3. \A r \in Rows : m[r] = l[r]
  BY <1>1 DEF Ids
<1>4. \A t \in Tops : Drawn(t, m) = Drawn(t, l)
  BY <1>1, <1>2 DEF Drawn, Ids
<1>5. \A t \in Tops : RowsOf(t, m) = RowsOf(t, l)
  BY <1>3 DEF RowsOf
<1>6. \A t \in Tops : [r \in RowsOf(t, m) |-> Item(r, m[r])] = [r \in RowsOf(t, l) |-> Item(r, l[r])]
  BY <1>3, <1>5 DEF RowsOf
<1>7. \A t \in Tops \ {e.id} : MenuEntry(t, m) = MenuEntry(t, l)
  BY <1>1, <1>6 DEF MenuEntry, Ids
<1>8. MenuEntry(e.id, m) =
        IF "label" \in e.keys THEN [MenuEntry(e.id, l) EXCEPT !.label = Clean[e.to.label]]
        ELSE MenuEntry(e.id, l)
  BY <1>2, <1>6 DEF MenuEntry
<1>9. Menus(m) = IF "label" \in e.keys THEN [Menus(l) EXCEPT ![e.id].label = Clean[e.to.label]]
                 ELSE Menus(l)
  BY <1>4, <1>7, <1>8 DEF Menus
<1> QED
  BY <1>9 DEF m

LEMMA PatchInEntry ==
    ASSUME NEW label, NEW items, NEW x, NEW e
    PROVE  [[label |-> label, items |-> items] EXCEPT !.items[x] = Patched(@, e)]
             = [label |-> label, items |-> [items EXCEPT ![x] = Patched(@, e)]]
  OBVIOUS

\* A row that is drawn gets its new properties, and nothing else changes.
LEMMA RowPatch ==
    ASSUME NEW l \in Layout, NEW e \in Entry, e.id \in Rows \ Separators,
           e.keys \subseteq Patchable, Drawn(Of[e.id], l), l[e.id].visible
    PROVE  Menus(Changed(l, e)) =
             [Menus(l) EXCEPT ![Of[e.id]].items[e.id] = Patched(@, e)]
<1> DEFINE m == Changed(l, e)
           u == Of[e.id]
<1> USE LayoutAssumption
<1>1. m \in Layout /\ m[e.id] = With(l[e.id], e) /\ \A id \in Ids \ {e.id} : m[id] = l[id]
  BY ChangedIs
<1>2. u \in Tops /\ e.id \notin Tops
  OBVIOUS
<1> HIDE DEF m
<1>3. m[e.id].visible = l[e.id].visible
  <2>1. "visible" \notin e.keys
    BY DEF Patchable
  <2> QED
    BY <1>1, <2>1 DEF With
<1>4. \A t \in Tops : m[t] = l[t] /\ Drawn(t, m) = Drawn(t, l)
  BY <1>1, <1>2 DEF Drawn, Ids
<1>5. \A r \in Rows \ {e.id} : m[r] = l[r]
  BY <1>1 DEF Ids
<1>6. \A t \in Tops : RowsOf(t, m) = RowsOf(t, l)
  BY <1>3, <1>5 DEF RowsOf
<1>7. Item(e.id, m[e.id]) = Patched(Item(e.id, l[e.id]), e)
  BY <1>1 DEF Item, Patched, With
<1>8. \A t \in Tops \ {u} : MenuEntry(t, m) = MenuEntry(t, l)
  <2> SUFFICES ASSUME NEW t \in Tops \ {u} PROVE MenuEntry(t, m) = MenuEntry(t, l)
    OBVIOUS
  <2>1. \A r \in RowsOf(t, l) : m[r] = l[r]
    BY <1>5 DEF RowsOf
  <2> QED
    BY <1>4, <1>6, <2>1 DEF MenuEntry
<1>9. MenuEntry(u, m) = [MenuEntry(u, l) EXCEPT !.items[e.id] = Patched(@, e)]
  <2>1. e.id \in RowsOf(u, l)
    BY DEF RowsOf
  <2>2. [r \in RowsOf(u, m) |-> Item(r, m[r])]
          = [[r \in RowsOf(u, l) |-> Item(r, l[r])] EXCEPT ![e.id] = Patched(@, e)]
    <3>1. \A r \in RowsOf(u, l) \ {e.id} : Item(r, m[r]) = Item(r, l[r])
      BY <1>5 DEF RowsOf
    <3> HIDE DEF u
    <3> QED
      BY <1>6, <1>2, <1>7, <2>1, <3>1
  <2>3. MenuEntry(u, l).items = [r \in RowsOf(u, l) |-> Item(r, l[r])]
    BY DEF MenuEntry
  <2>4. MenuEntry(u, m) = [label |-> Clean[l[u].label],
                           items |-> [MenuEntry(u, l).items EXCEPT ![e.id] = Patched(@, e)]]
    BY <1>2, <1>4, <2>2, <2>3, Zenon DEF MenuEntry
  <2>5. MenuEntry(u, l) = [label |-> Clean[l[u].label], items |-> MenuEntry(u, l).items]
    BY DEF MenuEntry
  <2> HIDE DEF u
  <2> QED
    BY <2>4, <2>5, PatchInEntry
<1>10. Menus(m) = [Menus(l) EXCEPT ![u].items[e.id] = Patched(@, e)]
  <2> HIDE DEF u
  <2>1. u \in DOMAIN Menus(l) /\ Menus(l)[u] = MenuEntry(u, l)
    BY <1>2 DEF Menus, u
  <2>2. Menus(m) = [Menus(l) EXCEPT ![u] = MenuEntry(u, m)]
    BY <1>2, <1>4, <1>8, <2>1 DEF Menus
  <2> QED
    BY <1>9, <2>1, <2>2
<1> QED
  BY <1>10 DEF m

-----------------------------------------------------------------------------
(* The steps of the daemon.                                                 *)

\* The menus are a function of menus, each with a label and rows.
CacheShape ==
    /\ cache = [t \in DOMAIN cache |-> cache[t]]
    /\ \A t \in DOMAIN cache :
         /\ t \in Tops /\ cache[t].label \in Texts
         /\ cache[t] = [label |-> cache[t].label, items |-> cache[t].items]

Types ==
    /\ layout \in Layout /\ read \in Layout /\ snap \in Layout
    /\ work \in Seq(Entry) /\ todo \subseteq Tops /\ at \in {"rest", "root", "kids"}
    /\ changes \in Nat
    /\ CacheShape

Flags ==
    /\ dirty \in BOOLEAN /\ stale \in BOOLEAN
    /\ late \in BOOLEAN /\ blanked \in BOOLEAN /\ half \in BOOLEAN

\* In the middle of a payload the shell has the menus from before it.
ToldInv ==
    /\ work = <<>> => ~dirty
    /\ ~dirty /\ ~half => told = cache

IInv == Types /\ Flags /\ PatchIsRefetch /\ ToldInv

LEMMA TypesGiveTypeOK == Types /\ Flags => TypeOK
  BY DEF Types, Flags, TypeOK, CacheShape

LEMMA MenusShape ==
    ASSUME NEW l \in Layout, cache' = Menus(l)
    PROVE  CacheShape'
<1> USE LayoutAssumption
<1>1. \A t \in Tops : Clean[l[t].label] \in Texts
  BY DEF Layout, Node, Ids
<1> QED
  BY <1>1 DEF CacheShape, Menus, MenuEntry

LEMMA Initially == Init => IInv
<1> SUFFICES ASSUME Init PROVE IInv
  OBVIOUS
<1> USE LayoutAssumption DEF Init
<1>1. \A t \in Tops : Clean[layout[t].label] \in Texts
  BY DEF Layout, Node, Ids
<1>2. CacheShape
  BY <1>1 DEF CacheShape, Menus, MenuEntry
<1>3. Types
  BY <1>2 DEF Types
<1>4. Flags
  BY Zenon DEF Flags
<1> QED
  BY <1>3, <1>4 DEF IInv, PatchIsRefetch, ToldInv

\* What the application changes is a layout again.
LEMMA SentIsLayout ==
    ASSUME layout \in Layout, NEW p \in Payloads, NEW id \in Ids
    PROVE  (IF \E i \in DOMAIN p : p[i].id = id
            THEN With(layout[id], p[CHOOSE i \in DOMAIN p : p[i].id = id])
            ELSE layout[id]) \in Node
<1>1. CASE \E i \in DOMAIN p : p[i].id = id
  <2> DEFINE c == CHOOSE i \in DOMAIN p : p[i].id = id
  <2>1. c \in DOMAIN p
    BY <1>1
  <2>2. p[c] \in Entry
    BY <2>1, LayoutAssumption
  <2> QED
    BY <1>1, <2>2, WithIs DEF Layout
<1>2. CASE ~ \E i \in DOMAIN p : p[i].id = id
  BY <1>2 DEF Layout
<1> QED
  BY <1>1, <1>2

LEMMA AppKeeps ==
    ASSUME IInv, AppSets \/ AppRelays
    PROVE  Types' /\ PatchIsRefetch' /\ ToldInv'
<1> USE LayoutAssumption
<1>0. Payloads \subseteq Seq(Entry) /\ Relaid \in Seq(Entry)
  BY DEF Relaid
<1>1. PICK p \in Seq(Entry) : Sends(p)
  <2>1. CASE AppSets
    BY <1>0, <2>1, Zenon DEF AppSets
  <2>2. CASE AppRelays
    BY <1>0, <2>2, Zenon DEF AppRelays
  <2> QED
    BY <2>1, <2>2
<1>2. /\ work' = p /\ work = <<>> /\ changes' = changes + 1
      /\ UNCHANGED <<cache, dirty, at, todo, snap, told, read, blanked, half>>
  BY <1>1 DEF Sends, Take, chain
<1>3. layout' \in Layout
  <2>1. CASE AppSets
    BY <2>1, SentIsLayout DEF AppSets, IInv, Types, Layout
  <2>2. CASE AppRelays
    BY <2>2 DEF AppRelays
  <2> QED
    BY <2>1, <2>2
<1>4. Types'
  BY <1>2, <1>3 DEF IInv, Types, CacheShape
<1>5. PatchIsRefetch' /\ ToldInv'
  BY <1>2 DEF IInv, PatchIsRefetch, ToldInv
<1> QED
  BY <1>4, <1>5

LEMMA LabelInEntry ==
    ASSUME NEW label, NEW items, NEW x
    PROVE  [[label |-> label, items |-> items] EXCEPT !.label = x]
             = [label |-> x, items |-> items]
  OBVIOUS

\* An entry that is applied is in the menus, so its node is in the layout.
LEMMA ApplyKeeps ==
    ASSUME IInv, ApplyEntry
    PROVE  Types' /\ PatchIsRefetch' /\ ToldInv'
<1> DEFINE e == Head(work)
<1> USE LayoutAssumption
<1>1. e \in Entry /\ Tail(work) \in Seq(Entry)
  BY DEF IInv, Types, ApplyEntry
<1>2. e.keys \subseteq Patchable /\ Cached(e.id) /\ read' = Changed(read, e) /\ work' = Tail(work)
  BY DEF ApplyEntry, Expressible
<1>3. cache' = IF e.id \in Tops THEN PatchTop(e) ELSE PatchRow(e)
  BY DEF ApplyEntry
<1>4. blanked' = (blanked \/ (e.id \in Tops /\ "label" \in e.keys /\ Clean[e.to.label] = NoText))
  BY DEF ApplyEntry
<1>5. e.id \in Ids /\ Clean[e.to.label] \in Texts
  BY <1>1 DEF Entry, Node
<1> HIDE DEF e
<1>6. CacheShape'
  <2> USE DEF CacheShape
  <2>0. CacheShape
    BY DEF IInv, Types
  <2>1. CASE e.id \in Tops /\ "label" \in e.keys
    <3>1. e.id \in DOMAIN cache
      BY <1>2, <2>1 DEF Cached
    <3>2. [cache[e.id] EXCEPT !.label = Clean[e.to.label]]
            = [label |-> Clean[e.to.label], items |-> cache[e.id].items]
      BY <2>0, <3>1, LabelInEntry
    <3>3. cache' = [cache EXCEPT ![e.id] = [label |-> Clean[e.to.label], items |-> cache[e.id].items]]
      BY <1>3, <2>0, <2>1, <3>1, <3>2 DEF PatchTop
    <3>4. /\ cache' = [t \in DOMAIN cache |-> cache'[t]]
          /\ \A t \in DOMAIN cache \ {e.id} : cache'[t] = cache[t]
          /\ cache'[e.id] = [label |-> Clean[e.to.label], items |-> cache[e.id].items]
      BY <3>1, <3>3
    <3> QED
      BY <1>5, <2>0, <2>1, <3>4
  <2>2. CASE e.id \in Tops /\ "label" \notin e.keys
    BY <1>3, <2>0, <2>2 DEF PatchTop
  <2>3. CASE e.id \notin Tops
    <3> DEFINE u == Of[e.id]
               rows == [cache[u].items EXCEPT ![e.id] = Patched(@, e)]
    <3>1. u \in DOMAIN cache
      BY <1>2, <2>3 DEF Cached
    <3>2. [cache[u] EXCEPT !.items[e.id] = Patched(@, e)]
            = [label |-> cache[u].label, items |-> rows]
      BY <2>0, <3>1, PatchInEntry
    <3>3. cache' = [cache EXCEPT ![u].items[e.id] = Patched(@, e)]
      BY <1>3, <2>3 DEF PatchRow
    <3> HIDE DEF rows, u
    <3>4. cache' = [cache EXCEPT ![u] = [label |-> cache[u].label, items |-> rows]]
      BY <2>0, <3>1, <3>2, <3>3
    <3>5. /\ cache' = [t \in DOMAIN cache |-> cache'[t]]
          /\ \A t \in DOMAIN cache \ {u} : cache'[t] = cache[t]
          /\ cache'[u] = [label |-> cache[u].label, items |-> rows]
      BY <3>1, <3>4
    <3> QED
      BY <2>0, <3>1, <3>5
  <2> QED
    BY <2>1, <2>2, <2>3
<1>7. Types'
  BY <1>1, <1>2, <1>6, ChangedIs DEF IInv, Types, ApplyEntry, appVars, chain
<1>8. ASSUME ~blanked' PROVE cache' = Menus(read')
  <2>1. cache = Menus(read) /\ read \in Layout
    BY <1>4, <1>8 DEF IInv, Types, PatchIsRefetch
  <2>2. CASE e.id \in Tops
    <3>1. Drawn(e.id, read)
      BY <1>2, <2>1, <2>2 DEF Cached, Menus
    <3> QED
      BY <1>1, <1>2, <1>3, <1>4, <1>8, <2>1, <2>2, <3>1, TopPatch DEF PatchTop
  <2>3. CASE e.id \in Rows /\ e.id \notin Tops
    <3>1. /\ e.id \notin Separators /\ Of[e.id] \in Tops /\ Drawn(Of[e.id], read)
          /\ e.id \in DOMAIN Menus(read)[Of[e.id]].items
      BY <1>2, <2>1, <2>3 DEF Cached, Menus
    <3>2. Menus(read)[Of[e.id]] = MenuEntry(Of[e.id], read)
      BY <3>1 DEF Menus
    <3>3. read[e.id].visible
      BY <3>1, <3>2 DEF MenuEntry, RowsOf
    <3> QED
      BY <1>1, <1>2, <1>3, <2>1, <2>3, <3>1, <3>3, RowPatch DEF PatchRow
  <2> QED
    BY <1>5, <2>2, <2>3 DEF Ids
<1>9. ToldInv'
  BY DEF IInv, ToldInv, ApplyEntry
<1> QED
  BY <1>7, <1>8, <1>9 DEF PatchIsRefetch

\* The chain goes on with a layout, or ends and has its menus.
LEMMA StepIs ==
    ASSUME IInv, work = <<>>, NEW l \in Layout, NEW menus \in SUBSET Tops, Step(l, menus)
    PROVE  /\ Types' /\ PatchIsRefetch' /\ ToldInv'
           /\ snap' = l /\ todo' = menus
           /\ at' = IF menus = {} THEN "rest" ELSE "kids"
           /\ menus = {} => read' = l
           /\ UNCHANGED <<layout, changes, work, stale, late>>
<1>1. /\ snap' = l /\ todo' = menus /\ at' = IF menus = {} THEN "rest" ELSE "kids"
      /\ UNCHANGED <<layout, changes, work, dirty, stale, late>>
  BY DEF Step, appVars
<1>2. CASE menus = {}
  <2>1. Apply(l)
    BY <1>2 DEF Step
  <2>2. cache' = Menus(l) /\ read' = l
    BY <2>1 DEF Apply
  <2>3. CacheShape'
    BY <2>2, MenusShape
  <2>4. Types'
    BY <1>1, <2>2, <2>3 DEF IInv, Types
  <2>5. ToldInv'
    BY <1>1, <2>1 DEF Apply, IInv, ToldInv
  <2> QED
    BY <1>1, <1>2, <2>2, <2>4, <2>5 DEF PatchIsRefetch
<1>3. CASE menus # {}
  <2>1. UNCHANGED <<cache, told, read, blanked, half>>
    BY <1>3 DEF Step
  <2>2. Types'
    BY <1>1, <2>1 DEF IInv, Types, CacheShape
  <2> QED
    BY <1>1, <1>3, <2>1, <2>2 DEF IInv, PatchIsRefetch, ToldInv
<1> QED
  BY <1>2, <1>3

LEMMA RowsFromIs ==
    ASSUME NEW l \in Layout, NEW new \in Layout, NEW t
    PROVE  /\ RowsFrom(l, new, t) \in Layout
           /\ \A id \in Ids : RowsFrom(l, new, t)[id] =
                 IF id \in Rows /\ Of[id] = t THEN new[id] ELSE l[id]
  BY DEF RowsFrom, Layout

\* Either answer of the chain: what it then has of the layout.
LEMMA AnswerIs ==
    ASSUME IInv, RootRead \/ KidsRead
    PROVE  /\ Types' /\ PatchIsRefetch' /\ ToldInv' /\ work = <<>>
           /\ UNCHANGED <<layout, changes, work, stale, late>>
           /\ at' = IF todo' = {} THEN "rest" ELSE "kids"
           /\ todo' = {} => read' = snap'
           /\ \/ snap' = layout
              \/ /\ at = "kids" /\ snap \in Layout
                 /\ \E t \in todo : todo' = todo \ {t} /\ snap' = RowsFrom(snap, layout, t)
<1>1. CASE RootRead
  <2>1. layout \in Layout /\ {t \in Tops : Drawn(t, layout)} \in SUBSET Tops
    BY DEF IInv, Types
  <2> QED
    BY <1>1, <2>1, StepIs DEF RootRead
<1>2. CASE KidsRead
  <2>1. PICK t \in todo : Step(RowsFrom(snap, layout, t), todo \ {t})
    BY <1>2 DEF KidsRead
  <2>2. todo \ {t} \in SUBSET Tops /\ snap \in Layout /\ layout \in Layout
    BY DEF IInv, Types
  <2>3. RowsFrom(snap, layout, t) \in Layout
    BY <2>2, RowsFromIs
  <2>4. work = <<>> /\ at = "kids"
    BY <1>2 DEF KidsRead
  <2> QED
    BY <2>1, <2>2, <2>3, <2>4, StepIs
<1> QED
  BY <1>1, <1>2

LEMMA OthersKeep ==
    ASSUME IInv, GiveUp \/ Refresh
    PROVE  Types' /\ PatchIsRefetch' /\ ToldInv'
<1>1. CASE GiveUp
  <2>1. Types'
    BY <1>1 DEF GiveUp, appVars, chain, IInv, Types, CacheShape
  <2> QED
    BY <1>1, <2>1 DEF GiveUp, appVars, IInv, PatchIsRefetch, ToldInv
<1>2. CASE Refresh
  <2>1. Types'
    BY <1>2 DEF Refresh, appVars, IInv, Types, CacheShape
  <2> QED
    BY <1>2, <2>1 DEF Refresh, appVars, IInv, PatchIsRefetch, ToldInv
<1> QED
  BY <1>1, <1>2

LEMMA FlagsKeep == Flags /\ [Next]_vars => Flags'
<1> SUFFICES ASSUME Flags, [Next]_vars PROVE Flags'
  OBVIOUS
<1> USE DEF Flags
<1>1. CASE AppSets \/ AppRelays
  <2>1. PICK p : Take(p)
    BY <1>1, Zenon DEF AppSets, AppRelays, Sends
  <2> QED
    BY <2>1, Zenon DEF Take
<1>2. CASE UNCHANGED vars
  BY <1>2, Zenon DEF vars
<1>3. CASE ApplyEntry
  <2>1. late' \in BOOLEAN /\ blanked' \in BOOLEAN /\ stale' \in BOOLEAN
    BY <1>3, Zenon DEF ApplyEntry
  <2>2. dirty' \in BOOLEAN /\ half' \in BOOLEAN
    BY <1>3, Zenon DEF ApplyEntry
  <2> QED
    BY <2>1, <2>2, Zenon
<1>4. CASE GiveUp
  BY <1>4, Zenon DEF GiveUp
<1>5. CASE Refresh
  BY <1>5, Zenon DEF Refresh
<1>6. CASE RootRead \/ KidsRead
  <2>1. PICK l, menus : Step(l, menus)
    BY <1>6, Zenon DEF RootRead, KidsRead
  <2>2. UNCHANGED <<dirty, stale, late>>
    BY <2>1, Zenon DEF Step
  <2>3. Apply(l) \/ UNCHANGED <<blanked, half>>
    BY <2>1, Zenon DEF Step
  <2>4. blanked' \in BOOLEAN /\ half' \in BOOLEAN
    BY <2>3, Zenon DEF Apply
  <2> QED
    BY <2>2, <2>4, Zenon
<1> QED
  BY <1>1, <1>2, <1>3, <1>4, <1>5, <1>6, Zenon DEF Next

LEMMA StepsKeep == IInv /\ [Next]_vars => IInv'
<1> SUFFICES ASSUME IInv, [Next]_vars PROVE IInv'
  OBVIOUS
<1>1. CASE AppSets \/ AppRelays
  BY <1>1, AppKeeps, FlagsKeep DEF IInv
<1>2. CASE ApplyEntry
  BY <1>2, ApplyKeeps, FlagsKeep DEF IInv
<1>3. CASE GiveUp \/ Refresh
  BY <1>3, OthersKeep, FlagsKeep DEF IInv
<1>4. CASE RootRead \/ KidsRead
  BY <1>4, AnswerIs, FlagsKeep DEF IInv
<1>5. CASE UNCHANGED vars
  <2>1. Types' /\ PatchIsRefetch' /\ ToldInv'
    BY <1>5 DEF vars, chain, IInv, Types, CacheShape, PatchIsRefetch, ToldInv
  <2> QED
    BY <2>1, FlagsKeep DEF IInv
<1> QED
  BY <1>1, <1>2, <1>3, <1>4, <1>5 DEF Next

THEOREM Invariance == Spec => []IInv
  BY Initially, StepsKeep, PTL DEF Spec

\* Every variable keeps its type, and every menu's text is a cleaned label.
THEOREM TypeCorrect == Spec => []TypeOK
<1>1. IInv => TypeOK
  BY TypesGiveTypeOK DEF IInv
<1> QED
  BY <1>1, Invariance, PTL

\* apply_props() gives the menus that build_menus() would give for the changed
\* layout, but for a menu whose text it takes away.
THEOREM PatchingIsFetching == Spec => []PatchIsRefetch
<1>1. IInv => PatchIsRefetch
  BY DEF IInv
<1> QED
  BY <1>1, Invariance, PTL

\* The shell has the daemon's menus between two payloads, unless one was given
\* up after some of it had been applied.
THEOREM ShellIsTold == Spec => []ShellHasTheCache
<1>1. IInv => ShellHasTheCache
  BY DEF IInv, ToldInv, ShellHasTheCache
<1> QED
  BY <1>1, Invariance, PTL

-----------------------------------------------------------------------------
(* At rest.  A property whose value the daemon does not have is in the      *)
(* payload at hand, or a refresh is due; one that the chain does not have is*)
(* in the payload at hand, or in rows that are still to be fetched.         *)

Mentions(p, id, k) == \E n \in 1..Len(p) : p[n].id = id /\ k \in p[n].keys

\* What is at hand has the values of the application.
WorkTrue ==
    \A n \in 1..Len(work) : \A k \in work[n].keys :
        work[n].to[k] = layout[work[n].id][k]

ReadTrue ==
    at # "rest" \/ stale \/ late
    \/ \A id \in Ids : \A k \in Keys :
          read[id][k] = layout[id][k] \/ Mentions(work, id, k)

SnapTrue ==
    stale \/ late
    \/ \A id \in Ids : Fetched(id) => \A k \in Keys :
          snap[id][k] = layout[id][k] \/ Mentions(work, id, k)

Told == WorkTrue /\ ReadTrue /\ SnapTrue

LEMMA Elements ==
    ASSUME Types
    PROVE  Len(work) \in Nat /\ \A n \in 1..Len(work) : work[n] \in Entry
  BY DEF Types

\* What an application sets is what its layout then has, and the rest stays.
LEMMA SetIsSent ==
    ASSUME layout \in Layout, NEW p \in Payloads,
           layout' = [id \in Ids |->
                 IF \E i \in DOMAIN p : p[i].id = id
                 THEN With(layout[id], p[CHOOSE i \in DOMAIN p : p[i].id = id])
                 ELSE layout[id]]
    PROVE  /\ \A n \in 1..Len(p) : \A k \in p[n].keys : p[n].to[k] = layout'[p[n].id][k]
           /\ \A id \in Ids : \A k \in Keys :
                 Mentions(p, id, k) \/ layout'[id][k] = layout[id][k]
<1>0. p \in Seq(Entry) /\ DOMAIN p = 1..Len(p) /\ \A n \in 1..Len(p) : p[n] \in Entry
  BY LayoutAssumption
<1>1. \A i, j \in 1..Len(p) : p[i].id = p[j].id => i = j
  BY <1>0, LayoutAssumption
<1>2. ASSUME NEW n \in 1..Len(p)
      PROVE  /\ p[n].id \in Ids /\ p[n].keys \subseteq Keys
             /\ layout'[p[n].id] = With(layout[p[n].id], p[n])
  <2> DEFINE id == p[n].id
             c == CHOOSE i \in DOMAIN p : p[i].id = id
  <2>1. id \in Ids /\ p[n].keys \subseteq Keys
    BY <1>0 DEF Entry
  <2>2. c \in 1..Len(p) /\ p[c].id = p[n].id
    BY <1>0
  <2>3. c = n
    BY <1>1, <2>2
  <2>4. \E i \in DOMAIN p : p[i].id = id
    BY <1>0
  <2>5. layout'[id] = With(layout[id], p[c])
    BY <2>1, <2>4
  <2> QED
    BY <2>1, <2>3, <2>5
<1>3. ASSUME NEW n \in 1..Len(p)
      PROVE  \A k \in Keys : layout'[p[n].id][k]
                = IF k \in p[n].keys THEN p[n].to[k] ELSE layout[p[n].id][k]
  <2>1. layout[p[n].id] \in Node /\ p[n] \in Entry
    BY <1>0, <1>2 DEF Layout
  <2> QED
    BY <1>2, <2>1, WithIs
<1>4. ASSUME NEW id \in Ids, NEW k \in Keys, ~ Mentions(p, id, k)
      PROVE  layout'[id][k] = layout[id][k]
  <2>1. CASE \E n \in 1..Len(p) : p[n].id = id
    BY <1>3, <1>4, <2>1 DEF Mentions
  <2>2. CASE ~ \E n \in 1..Len(p) : p[n].id = id
    BY <1>0, <2>2
  <2> QED
    BY <2>1, <2>2
<1>5. ASSUME NEW n \in 1..Len(p), NEW k \in p[n].keys
      PROVE  p[n].to[k] = layout'[p[n].id][k]
  <2>1. k \in Keys
    BY <1>2
  <2> QED
    BY <1>3, <2>1
<1>6. \A id \in Ids : \A k \in Keys : Mentions(p, id, k) \/ layout'[id][k] = layout[id][k]
  BY <1>4
<1> QED
  BY <1>5, <1>6

LEMMA SetsKeepTold ==
    ASSUME Types, Told, AppSets
    PROVE  Told'
<1>1. PICK p \in Payloads \ {Relaid} :
        /\ Sends(p)
        /\ layout' = [id \in Ids |->
                 IF \E i \in DOMAIN p : p[i].id = id
                 THEN With(layout[id], p[CHOOSE i \in DOMAIN p : p[i].id = id])
                 ELSE layout[id]]
  BY DEF AppSets
<1>2. work = <<>> /\ work' = p /\ UNCHANGED <<at, todo, snap, read, late>>
  BY <1>1 DEF Sends, Take, chain
<1>3. stale => stale'
  BY <1>1, Zenon DEF Sends, Take
<1>4. /\ \A n \in 1..Len(p) : \A k \in p[n].keys : p[n].to[k] = layout'[p[n].id][k]
      /\ \A id \in Ids : \A k \in Keys : Mentions(p, id, k) \/ layout'[id][k] = layout[id][k]
  BY <1>1, SetIsSent DEF Types
<1>5. WorkTrue'
  BY <1>2, <1>4 DEF WorkTrue
<1>6. \A id \in Ids : \A k \in Keys : ~ Mentions(work, id, k)
  BY <1>2 DEF Mentions
<1>7. ReadTrue'
  BY <1>2, <1>3, <1>4, <1>6 DEF Told, ReadTrue
<1>8. \A id : Fetched(id)' = Fetched(id)
  BY <1>2 DEF Fetched
<1>9. SnapTrue'
  BY <1>2, <1>3, <1>4, <1>6, <1>8 DEF Told, SnapTrue
<1> QED
  BY <1>5, <1>7, <1>9 DEF Told

LEMMA ApplyKeepsTold ==
    ASSUME Types, Told, ApplyEntry
    PROVE  Told'
<1> DEFINE e == Head(work)
<1>1. /\ work # <<>> /\ work' = Tail(work) /\ read' = Changed(read, e)
      /\ UNCHANGED <<layout, stale, at, todo, snap>>
  BY DEF ApplyEntry, appVars, chain
<1>2. late' = (late \/ Fetched(e.id))
  BY DEF ApplyEntry
<1>3. work \in Seq(Entry) /\ Len(work) \in Nat /\ read \in Layout
  BY DEF Types
<1>4. /\ Len(work) > 0 /\ Len(work') = Len(work) - 1 /\ e = work[1] /\ e \in Entry
      /\ \A n \in 1..Len(work') : work'[n] = work[n + 1]
  BY <1>1, <1>3
<1> HIDE DEF e
<1>5. WorkTrue'
  <2>1. ASSUME NEW n \in 1..Len(work') PROVE n + 1 \in 1..Len(work) /\ work'[n] = work[n + 1]
    BY <1>3, <1>4
  <2> QED
    BY <1>1, <2>1 DEF Told, WorkTrue
<1>6. ASSUME NEW id, NEW k, Mentions(work, id, k), ~ (id = e.id /\ k \in e.keys)
      PROVE  Mentions(work', id, k)
  <2>1. PICK n \in 1..Len(work) : work[n].id = id /\ k \in work[n].keys
    BY <1>6 DEF Mentions
  <2>2. n # 1
    BY <1>4, <1>6, <2>1
  <2>3. n - 1 \in 1..Len(work') /\ work'[n - 1] = work[n]
    BY <1>3, <1>4, <2>1, <2>2
  <2> QED
    BY <2>1, <2>3 DEF Mentions
<1>7. ReadTrue'
  <2> SUFFICES ASSUME at = "rest", ~stale, ~late, NEW id \in Ids, NEW k \in Keys
               PROVE  read'[id][k] = layout[id][k] \/ Mentions(work', id, k)
    BY <1>1, <1>2 DEF ReadTrue
  <2>1. CASE id = e.id /\ k \in e.keys
    <3>1. read'[id] = With(read[e.id], e) /\ read[e.id] \in Node
      BY <1>1, <1>3, <1>4, <2>1, ChangedIs DEF Layout
    <3>2. read'[id][k] = e.to[k]
      BY <1>4, <2>1, <3>1, WithIs
    <3>3. 1 \in 1..Len(work)
      BY <1>3, <1>4
    <3>4. e.to[k] = layout[e.id][k]
      BY <1>4, <2>1, <3>3 DEF Told, WorkTrue
    <3> QED
      BY <2>1, <3>2, <3>4
  <2>2. CASE ~ (id = e.id /\ k \in e.keys)
    <3>1. read'[id][k] = read[id][k]
      <4>1. CASE id = e.id
        <5>1. read'[id] = With(read[e.id], e) /\ read[e.id] \in Node
          BY <1>1, <1>3, <1>4, <4>1, ChangedIs DEF Layout
        <5> QED
          BY <1>4, <2>2, <4>1, <5>1, WithIs
      <4>2. CASE id # e.id
        BY <1>1, <1>3, <1>4, <4>2, ChangedIs
      <4> QED
        BY <4>1, <4>2
    <3> QED
      BY <1>6, <2>2, <3>1 DEF Told, ReadTrue
  <2> QED
    BY <2>1, <2>2
<1>8. SnapTrue'
  <2>0. \A id : Fetched(id)' = Fetched(id)
    BY <1>1 DEF Fetched
  <2> SUFFICES ASSUME ~stale, ~late, ~Fetched(e.id),
                      NEW id \in Ids, Fetched(id), NEW k \in Keys
               PROVE  snap[id][k] = layout[id][k] \/ Mentions(work', id, k)
    BY <1>1, <1>2, <2>0 DEF SnapTrue
  <2>1. id # e.id
    OBVIOUS
  <2> QED
    BY <1>6, <2>1 DEF Told, SnapTrue
<1> QED
  BY <1>5, <1>7, <1>8 DEF Told

\* What the chain has read is the application's, and at its end so are the menus.
LEMMA AnswerKeepsTold ==
    ASSUME IInv, Told, RootRead \/ KidsRead
    PROVE  Told'
<1>1. /\ work = <<>> /\ UNCHANGED <<layout, work, stale, late>>
      /\ at' = IF todo' = {} THEN "rest" ELSE "kids"
      /\ todo' = {} => read' = snap'
  BY AnswerIs
<1>2. \/ snap' = layout
      \/ /\ at = "kids" /\ snap \in Layout
         /\ \E t \in todo : todo' = todo \ {t} /\ snap' = RowsFrom(snap, layout, t)
  BY AnswerIs
<1>3. WorkTrue'
  BY <1>1 DEF WorkTrue
<1>4. ASSUME ~stale, ~late, NEW id \in Ids, id \in Tops \/ Of[id] \notin todo', NEW k \in Keys
      PROVE  snap'[id][k] = layout[id][k]
  <2>1. CASE snap' = layout
    BY <2>1
  <2>2. CASE /\ at = "kids" /\ snap \in Layout
             /\ \E t \in todo : todo' = todo \ {t} /\ snap' = RowsFrom(snap, layout, t)
    <3>1. PICK t \in todo : todo' = todo \ {t} /\ snap' = RowsFrom(snap, layout, t)
      BY <2>2
    <3>2. snap'[id] = IF id \in Rows /\ Of[id] = t THEN layout[id] ELSE snap[id]
      BY <2>2, <3>1, RowsFromIs DEF IInv, Types
    <3>3. CASE id \in Rows /\ Of[id] = t
      BY <3>2, <3>3
    <3>4. CASE ~ (id \in Rows /\ Of[id] = t)
      <4>1. Fetched(id)
        BY <1>4, <2>2, <3>1, <3>4 DEF Fetched, Ids
      <4>2. ~ Mentions(work, id, k)
        BY <1>1 DEF Mentions
      <4> QED
        BY <1>4, <3>2, <3>4, <4>1, <4>2 DEF Told, SnapTrue
    <3> QED
      BY <3>3, <3>4
  <2> QED
    BY <1>2, <2>1, <2>2
<1>5. SnapTrue'
  <2> SUFFICES ASSUME ~stale', ~late', NEW id \in Ids, Fetched(id)', NEW k \in Keys
               PROVE  snap'[id][k] = layout'[id][k]
    BY DEF SnapTrue
  <2>1. id \in Tops \/ Of[id] \notin todo'
    BY DEF Fetched
  <2> QED
    BY <1>1, <1>4, <2>1
<1>6. ReadTrue'
  <2> SUFFICES ASSUME at' = "rest", ~stale', ~late', NEW id \in Ids, NEW k \in Keys
               PROVE  read'[id][k] = layout'[id][k]
    BY DEF ReadTrue
  <2>1. todo' = {} /\ read' = snap'
    BY <1>1
  <2> QED
    BY <1>1, <1>4, <2>1
<1> QED
  BY <1>3, <1>5, <1>6 DEF Told

LEMMA RestKeepTold ==
    ASSUME Types, Told, AppRelays \/ GiveUp \/ Refresh \/ UNCHANGED vars
    PROVE  Told'
<1>1. CASE AppRelays
  <2>1. work' = <<>> /\ stale'
    BY <1>1, Zenon DEF AppRelays, Sends, Take, Relaid
  <2> QED
    BY <2>1 DEF Told, WorkTrue, ReadTrue, SnapTrue
<1>2. CASE GiveUp
  <2>1. work' = <<>> /\ stale' = TRUE
    BY <1>2 DEF GiveUp
  <2> QED
    BY <2>1 DEF Told, WorkTrue, ReadTrue, SnapTrue
<1>3. CASE Refresh
  <2>1. UNCHANGED <<layout, work>> /\ at' = "root"
    BY <1>3 DEF Refresh, appVars
  <2>2. \A id : ~ Fetched(id)'
    BY <2>1 DEF Fetched
  <2> QED
    BY <2>1, <2>2 DEF Told, WorkTrue, ReadTrue, SnapTrue
<1>4. CASE UNCHANGED vars
  BY <1>4 DEF vars, chain, Told, WorkTrue, ReadTrue, SnapTrue, Fetched
<1> QED
  BY <1>1, <1>2, <1>3, <1>4

\* With no refresh due or under way the daemon's menus are the application's,
\* however the answers of its chain and the application's changes were mixed,
\* unless a payload was patched into what the chain had read already.
THEOREM RestIsTheApps == Spec => []RestIsTrue
<1>1. Init => Told
  BY DEF Init, Told, WorkTrue, ReadTrue, SnapTrue
<1>2. IInv /\ Told /\ [Next]_vars => Told'
  BY SetsKeepTold, ApplyKeepsTold, AnswerKeepsTold, RestKeepTold DEF IInv, Next
<1>3. IInv /\ Told => RestIsTrue
  <2> SUFFICES ASSUME IInv, Told, AtRest, ~blanked, ~late
               PROVE  cache = Menus(layout)
    BY DEF RestIsTrue
  <2>1. at = "rest" /\ ~stale /\ \A id \in Ids : \A k \in Keys : ~ Mentions(work, id, k)
    BY DEF AtRest, Mentions
  <2>2. \A id \in Ids : \A k \in Keys : read[id][k] = layout[id][k]
    BY <2>1 DEF Told, ReadTrue
  <2>3. read \in Layout /\ layout \in Layout
    BY DEF IInv, Types
  <2>4. ASSUME NEW id \in Ids PROVE read[id] = layout[id]
    <3>1. read[id] \in Node /\ layout[id] \in Node
      BY <2>3 DEF Layout
    <3>2. /\ read[id].label = layout[id].label /\ read[id].shortcut = layout[id].shortcut
          /\ read[id].enabled = layout[id].enabled /\ read[id].visible = layout[id].visible
      BY <2>2 DEF Keys
    <3> QED
      BY <3>1, <3>2 DEF Node
  <2>5. read = layout
    BY <2>3, <2>4 DEF Layout
  <2> QED
    BY <2>5 DEF IInv, PatchIsRefetch
<1>4. Spec => []Told
  BY <1>1, <1>2, Invariance, PTL DEF Spec
<1> QED
  BY <1>3, <1>4, Invariance, PTL
=============================================================================
