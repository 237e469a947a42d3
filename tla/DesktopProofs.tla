--------------------------- MODULE DesktopProofs ----------------------------
(***************************************************************************)
(* What the assistant may do on the desktop of its user: the bridge to the *)
(* running Edge with its coordinator (EdgeWorkflow), the launcher that     *)
(* finds the assistant's own browser (EdgeLauncher), and UI automation     *)
(* (WindowsUia). Each part has its own variables and its own invariant;    *)
(* the results hold for all pages, ports, windows and controls, all        *)
(* limits, and any number of steps.                                        *)
(***************************************************************************)
EXTENDS EdgeWorkflow, EdgeLauncher, WindowsUia, FiniteSetTheorems, WellFoundedInduction, TLAPS

-----------------------------------------------------------------------------
(* The bridge. Its operators are functions of what the controller          *)
(* remembers, so that their lemmas are about any such record b.            *)

(* The tables of the controller, with the shape of their entries;          *)
(* references of tabs are the numbers handed out so far.                   *)
BridgeTypes(b) ==
  /\ b = [tabs |-> b.tabs, refs |-> b.refs, selected |-> b.selected,
          elements |-> b.elements, tabCount |-> b.tabCount]
  /\ b.tabCount \in Nat
  /\ b.tabs = [t \in DOMAIN b.tabs |-> b.tabs[t]]
  /\ b.refs = [p \in DOMAIN b.refs |-> b.refs[p]]
  /\ b.elements = [e \in DOMAIN b.elements |-> b.elements[e]]
  /\ DOMAIN b.refs \subseteq Pages
  /\ \A t \in DOMAIN b.tabs :
       /\ t \in 1 .. b.tabCount
       /\ b.tabs[t] = [page |-> b.tabs[t].page, old |-> b.tabs[t].old]

(* A well-formed controller whose tables agree.                            *)
Bridge(b) == BridgeTypes(b) /\ Agree(b)

(* c has no element that b has not.                                        *)
Fewer(c, b) ==
  /\ DOMAIN c.elements \subseteq DOMAIN b.elements
  /\ \A e \in DOMAIN c.elements : c.elements[e] = b.elements[e]

-----------------------------------------------------------------------------

(* A set of numbers that is not empty and finite has a least one.          *)
(* Otherwise the sets of members up to one of them would go on shrinking.  *)
LEMMA HasLeast ==
  ASSUME NEW S, IsFiniteSet(S), S \subseteq Nat, S # {}
  PROVE  \E p \in S : \A q \in S : p <= q
<1> DEFINE UpTo(p) == {q \in S : q <= p}
           Sections == {UpTo(p) : p \in S}
<1>1. IsWellFoundedOn(StrictSubsetOrdering(S), SUBSET S)
  BY FS_StrictSubsetOrderingWellFounded, FS_FiniteSubsetsOfFinite
<1>2. Sections \subseteq SUBSET S /\ Sections # {}
  OBVIOUS
<1>3. PICK D \in Sections : \A E \in Sections : <<E, D>> \notin StrictSubsetOrdering(S)
  BY <1>1, <1>2, WFMin
<1>4. PICK p \in S : D = UpTo(p)
  OBVIOUS
<1>5. ASSUME NEW q \in S, q < p PROVE FALSE
  <2>1. UpTo(q) \in Sections
    OBVIOUS
  <2>2. p \in Nat /\ q \in Nat
    OBVIOUS
  <2>3. UpTo(q) \subseteq UpTo(p)
    <3>1. \A r \in S : r <= q => r <= p
      BY <2>2, <1>5
    <3> QED
      BY <3>1
  <2>4. p \in UpTo(p) /\ p \notin UpTo(q)
    BY <2>2, <1>5
  <2>5. <<UpTo(q), UpTo(p)>> \in StrictSubsetOrdering(S)
    BY <2>3, <2>4 DEF StrictSubsetOrdering
  <2> QED
    BY <2>1, <2>5, <1>3, <1>4
<1> QED
  BY <1>5

(* How many members of a finite set of numbers are at most a given one     *)
(* tells that one: fresh references differ.                                *)
LEMMA RanksDiffer ==
  ASSUME NEW S, IsFiniteSet(S), S \subseteq Nat
  PROVE  /\ \A p \in S : Cardinality({r \in S : r <= p}) \in 1 .. Cardinality(S)
         /\ \A p, q \in S : Cardinality({r \in S : r <= p}) = Cardinality({r \in S : r <= q})
                             => p = q
<1> DEFINE UpTo(p) == {r \in S : r <= p}
<1>1. ASSUME NEW p \in S
      PROVE  IsFiniteSet(UpTo(p)) /\ Cardinality(UpTo(p)) \in 1 .. Cardinality(S)
  <2>1. UpTo(p) \in SUBSET S /\ p \in UpTo(p)
    OBVIOUS
  <2>2. IsFiniteSet(UpTo(p)) /\ Cardinality(UpTo(p)) <= Cardinality(S)
    BY <2>1, FS_Subset
  <2>3. Cardinality(UpTo(p)) \in Nat /\ Cardinality(S) \in Nat /\ Cardinality(UpTo(p)) # 0
    BY <2>1, <2>2, FS_CardinalityType, FS_EmptySet
  <2> QED
    BY <2>2, <2>3
<1>2. ASSUME NEW p \in S, NEW q \in S, p < q PROVE Cardinality(UpTo(p)) # Cardinality(UpTo(q))
  <2>1. UpTo(p) \in SUBSET UpTo(q)
    <3>1. \A r \in S : r <= p => r <= q
      BY <1>2
    <3> QED
      BY <3>1
  <2>2. q \in UpTo(q) /\ q \notin UpTo(p)
    BY <1>2
  <2> QED
    BY <1>1, <2>1, <2>2, FS_Subset
<1>3. \A p, q \in S : p < q \/ q < p \/ p = q
  OBVIOUS
<1> QED
  BY <1>1, <1>2, <1>3

-----------------------------------------------------------------------------

(* Elements can be forgotten without touching a tab.                       *)
LEMMA WithoutElementsKeeps ==
  ASSUME NEW b, Bridge(b), NEW S
  PROVE  LET c == WithoutElements(b, S)
         IN /\ Bridge(c) /\ Fewer(c, b) /\ c.tabs = b.tabs /\ c.refs = b.refs
            /\ c.selected = b.selected /\ c.tabCount = b.tabCount
            /\ DOMAIN c.elements = DOMAIN b.elements \ S
<1> DEFINE c == WithoutElements(b, S)
<1>1. c = [tabs |-> b.tabs, refs |-> b.refs, selected |-> b.selected,
           elements |-> Restrict(b.elements, DOMAIN b.elements \ S), tabCount |-> b.tabCount]
  BY DEF WithoutElements, Bridge, BridgeTypes
<1>2. /\ DOMAIN c.elements = DOMAIN b.elements \ S
      /\ c.elements = [e \in DOMAIN c.elements |-> c.elements[e]]
      /\ \A e \in DOMAIN c.elements : c.elements[e] = b.elements[e]
  BY <1>1 DEF Restrict
<1> HIDE DEF c
<1>3. BridgeTypes(c)
  BY <1>1, <1>2 DEF Bridge, BridgeTypes
<1>4. Agree(c)
  BY <1>1, <1>2 DEF Bridge, Agree
<1>5. Fewer(c, b)
  BY <1>2 DEF Fewer
<1> QED
  BY <1>1, <1>2, <1>3, <1>4, <1>5 DEF Bridge, c

(* The elements of closed pages go.                                        *)
LEMMA PurgedElementsKeeps ==
  ASSUME NEW b, Bridge(b)
  PROVE  /\ Bridge(PurgedElements(b)) /\ Fewer(PurgedElements(b), b)
         /\ PurgedElements(b).tabs = b.tabs /\ PurgedElements(b).selected = b.selected
         /\ PurgedElements(b).tabCount = b.tabCount
         /\ \A e \in DOMAIN PurgedElements(b).elements : Shows(PurgedElements(b).elements[e].page)
BY WithoutElementsKeeps DEF PurgedElements, DeadElements, Fewer

(* A tab takes its page reference, its elements and the selection with it, *)
(* and leaves the other tabs as they are.                                  *)
LEMMA WithoutTabsKeeps ==
  ASSUME NEW b, Bridge(b), NEW S, S \subseteq DOMAIN b.tabs
  PROVE  LET c == WithoutTabs(b, S)
         IN /\ Bridge(c) /\ Fewer(c, b) /\ DOMAIN c.tabs = DOMAIN b.tabs \ S
            /\ \A t \in DOMAIN c.tabs : c.tabs[t] = b.tabs[t]
            /\ c.tabCount = b.tabCount
<1> DEFINE T == UNION {ElementsOf(b, t) : t \in S}
           P == {b.tabs[t].page : t \in S}
           a == WithoutElements(b, T)
           sel == IF b.selected \in S THEN NoRef ELSE b.selected
           c == WithoutTabs(b, S)
<1>1. /\ Bridge(a) /\ Fewer(a, b) /\ a.tabs = b.tabs /\ a.refs = b.refs
      /\ a.selected = b.selected /\ a.tabCount = b.tabCount
      /\ DOMAIN a.elements = DOMAIN b.elements \ T
  BY WithoutElementsKeeps
<1>2. c = [tabs |-> Restrict(b.tabs, DOMAIN b.tabs \ S), refs |-> Restrict(b.refs, DOMAIN b.refs \ P),
           selected |-> sel, elements |-> a.elements, tabCount |-> b.tabCount]
  <2>1. c = [a EXCEPT !.tabs = Restrict(@, DOMAIN @ \ S), !.refs = Restrict(@, DOMAIN @ \ P),
                      !.selected = IF @ \in S THEN NoRef ELSE @]
    BY DEF WithoutTabs
  <2> HIDE DEF a, c, P
  <2> QED
    BY <1>1, <2>1 DEF Bridge, BridgeTypes
<1>3. ASSUME NEW e \in DOMAIN a.elements PROVE a.elements[e].tab \notin S
  <2>1. e \in DOMAIN b.elements /\ e \notin T /\ a.elements[e] = b.elements[e]
    BY <1>1 DEF Fewer
  <2> QED
    BY <2>1 DEF ElementsOf
<1>4. ASSUME NEW t \in DOMAIN b.tabs \ S PROVE b.tabs[t].page \notin P
  BY DEF Bridge, Agree
<1>5. ASSUME NEW p \in DOMAIN b.refs \ P PROVE b.refs[p] \notin S
  BY DEF Bridge, Agree
<1> HIDE DEF c, P, T, a
<1>6. /\ DOMAIN c.tabs = DOMAIN b.tabs \ S /\ c.tabs = [t \in DOMAIN c.tabs |-> c.tabs[t]]
      /\ \A t \in DOMAIN c.tabs : c.tabs[t] = b.tabs[t]
      /\ DOMAIN c.refs = DOMAIN b.refs \ P /\ c.refs = [p \in DOMAIN c.refs |-> c.refs[p]]
      /\ \A p \in DOMAIN c.refs : c.refs[p] = b.refs[p]
      /\ c.elements = a.elements /\ c.selected = sel /\ c.tabCount = b.tabCount
  BY <1>2 DEF Restrict
<1>7. BridgeTypes(c)
  <2>1. c = [tabs |-> c.tabs, refs |-> c.refs, selected |-> c.selected,
             elements |-> c.elements, tabCount |-> c.tabCount]
    BY <1>2
  <2>2. /\ a.elements = [e \in DOMAIN a.elements |-> a.elements[e]]
        /\ b.tabCount \in Nat /\ DOMAIN b.refs \subseteq Pages
        /\ \A t \in DOMAIN b.tabs : /\ t \in 1 .. b.tabCount
                                   /\ b.tabs[t] = [page |-> b.tabs[t].page, old |-> b.tabs[t].old]
    BY <1>1 DEF Bridge, BridgeTypes
  <2> QED
    BY <1>6, <2>1, <2>2 DEF BridgeTypes
<1>8. Agree(c)
  <2>1. ASSUME NEW e \in DOMAIN c.elements
        PROVE  c.elements[e].tab \in DOMAIN c.tabs /\ c.elements[e].page = c.tabs[c.elements[e].tab].page
    BY <1>1, <1>3, <1>6 DEF Bridge, Agree
  <2>2. c.selected \in DOMAIN c.tabs \cup {NoRef}
    BY <1>6 DEF Bridge, Agree
  <2>3. ASSUME NEW t \in DOMAIN c.tabs
        PROVE  c.tabs[t].page \in DOMAIN c.refs /\ c.refs[c.tabs[t].page] = t
    BY <1>4, <1>6 DEF Bridge, Agree
  <2>4. ASSUME NEW p \in DOMAIN c.refs
        PROVE  c.refs[p] \in DOMAIN c.tabs /\ c.tabs[c.refs[p]].page = p
    BY <1>5, <1>6 DEF Bridge, Agree
  <2> QED
    BY <2>1, <2>2, <2>3, <2>4 DEF Agree
<1> QED
  BY <1>1, <1>6, <1>7, <1>8 DEF Bridge, Fewer, c

(* After a purge every tab that is left shows its page.                    *)
LEMMA PurgedKeeps ==
  ASSUME NEW b, Bridge(b)
  PROVE  /\ Bridge(Purged(b)) /\ Fewer(Purged(b), b)
         /\ DOMAIN Purged(b).tabs \subseteq DOMAIN b.tabs
         /\ \A t \in DOMAIN Purged(b).tabs : Shows(Purged(b).tabs[t].page)
         /\ Purged(b).tabCount = b.tabCount
<1> DEFINE a == PurgedElements(b)
           S == {t \in DOMAIN b.tabs : b.tabs[t].old \/ ~Shows(b.tabs[t].page)}
<1>1. Bridge(a) /\ Fewer(a, b) /\ a.tabs = b.tabs /\ a.tabCount = b.tabCount
  BY PurgedElementsKeeps
<1>2. Purged(b) = WithoutTabs(a, S) /\ S \subseteq DOMAIN a.tabs
  BY <1>1 DEF Purged
<1>3. \A t \in DOMAIN b.tabs \ S : Shows(b.tabs[t].page)
  OBVIOUS
<1> HIDE DEF a, S
<1> QED
  BY <1>1, <1>2, <1>3, WithoutTabsKeeps DEF Fewer

(* When every tab shows its page, giving each open page its reference      *)
(* back, or one that was never used, keeps all tabs and makes the table of *)
(* pages and the table of tabs inverse again (_ref_for_page).              *)
LEMMA ReferencedKeeps ==
  ASSUME NEW b, Bridge(b), \A t \in DOMAIN b.tabs : Shows(b.tabs[t].page)
  PROVE  LET c == Referenced(b)
         IN /\ Bridge(c) /\ c.elements = b.elements /\ c.selected = b.selected
            /\ DOMAIN c.refs = OpenPages /\ DOMAIN b.tabs \subseteq DOMAIN c.tabs
<1> DEFINE new == {p \in OpenPages : p \notin DOMAIN b.refs}
           rank(p) == Cardinality({q \in new : q <= p})
           ref(p) == b.tabCount + rank(p)
           known == [p \in OpenPages |-> IF p \in new THEN ref(p) ELSE b.refs[p]]
           page(t) == CHOOSE p \in OpenPages : known[p] = t
           table == [t \in Range(known) |-> [page |-> page(t), old |-> FALSE]]
           c == Referenced(b)
<1>1. IsFiniteSet(new) /\ new \subseteq Nat /\ OpenPages \subseteq Pages
  <2>1. new \in SUBSET Pages
    BY DEF OpenPages
  <2> QED
    BY <2>1, FS_Subset, EdgeAssumption DEF EdgeAssumption, OpenPages
<1>2. b.tabCount \in Nat /\ Cardinality(new) \in Nat
  BY <1>1, FS_CardinalityType DEF Bridge, BridgeTypes
<1>3. /\ \A p \in new : rank(p) \in 1 .. Cardinality(new)
      /\ \A p, q \in new : rank(p) = rank(q) => p = q
  BY <1>1, RanksDiffer
<1>4. c = [tabs |-> table, refs |-> known, selected |-> b.selected, elements |-> b.elements,
           tabCount |-> b.tabCount + Cardinality(new)]
  <2>1. c = [b EXCEPT !.tabs = table, !.refs = known, !.tabCount = @ + Cardinality(new)]
    BY Zenon DEF Referenced
  <2> HIDE DEF c, table, known, new
  <2> QED
    BY <2>1 DEF Bridge, BridgeTypes
<1>5. ASSUME NEW p \in OpenPages \ new
      PROVE  known[p] = b.refs[p] /\ known[p] \in DOMAIN b.tabs /\ b.tabs[known[p]].page = p
             /\ known[p] \in 1 .. b.tabCount
  BY DEF Bridge, BridgeTypes, Agree
<1> HIDE DEF rank
<1>6. ASSUME NEW p \in new
      PROVE  known[p] = b.tabCount + rank(p)
             /\ known[p] \in b.tabCount + 1 .. b.tabCount + Cardinality(new)
  BY <1>2, <1>3
<1>7. ASSUME NEW p \in OpenPages, NEW q \in OpenPages, known[p] = known[q] PROVE p = q
  <2> HIDE DEF known
  <2>1. CASE p \in new /\ q \in new
    BY <1>2, <1>3, <1>6, <1>7, <2>1
  <2>2. CASE p \notin new /\ q \notin new
    BY <1>5, <1>7, <2>2
  <2>3. CASE p \in new /\ q \notin new
    BY <1>2, <1>5, <1>6, <1>7, <2>3
  <2>4. CASE p \notin new /\ q \in new
    BY <1>2, <1>5, <1>6, <1>7, <2>4
  <2> QED
    BY <2>1, <2>2, <2>3, <2>4
<1>8. DOMAIN known = OpenPages /\ known = [p \in OpenPages |-> known[p]]
  OBVIOUS
<1> HIDE DEF known
<1>9. ASSUME NEW p \in OpenPages PROVE page(known[p]) = p
  BY <1>7
<1>10. Range(known) = {known[p] : p \in OpenPages}
  BY <1>8 DEF Range
<1>11. ASSUME NEW t \in DOMAIN b.tabs
       PROVE  /\ t \in Range(known) /\ page(t) = b.tabs[t].page
  <2>1. b.tabs[t].page \in DOMAIN b.refs /\ b.refs[b.tabs[t].page] = t
        /\ b.tabs[t].page \in OpenPages
    BY DEF Bridge, BridgeTypes, Agree, OpenPages
  <2>2. known[b.tabs[t].page] = t
    BY <2>1, <1>5
  <2> QED
    BY <2>1, <2>2, <1>9, <1>10
<1> HIDE DEF new, page, c
<1>12. /\ DOMAIN c.tabs = Range(known) /\ c.tabs = [t \in DOMAIN c.tabs |-> c.tabs[t]]
       /\ \A t \in DOMAIN c.tabs :
            /\ c.tabs[t].page = page(t)
            /\ c.tabs[t] = [page |-> c.tabs[t].page, old |-> c.tabs[t].old]
       /\ c.refs = known /\ c.selected = b.selected /\ c.elements = b.elements
       /\ c.tabCount = b.tabCount + Cardinality(new)
  BY <1>4
<1>13. BridgeTypes(c)
  <2>1. c = [tabs |-> c.tabs, refs |-> c.refs, selected |-> c.selected,
             elements |-> c.elements, tabCount |-> c.tabCount]
    BY <1>4
  <2>2. b.elements = [e \in DOMAIN b.elements |-> b.elements[e]]
    BY DEF Bridge, BridgeTypes
  <2>3. ASSUME NEW t \in DOMAIN c.tabs
        PROVE  t \in 1 .. c.tabCount /\ c.tabs[t] = [page |-> c.tabs[t].page, old |-> c.tabs[t].old]
    <3>1. PICK p \in OpenPages : t = known[p]
      BY <1>10, <1>12
    <3>2. t \in 1 .. c.tabCount
      BY <3>1, <1>2, <1>5, <1>6, <1>12
    <3> QED
      BY <3>2, <1>12
  <2> QED
    BY <1>1, <1>2, <1>8, <1>12, <2>1, <2>2, <2>3 DEF BridgeTypes
<1>14. Agree(c)
  <2>1. ASSUME NEW t \in DOMAIN c.tabs
        PROVE  c.tabs[t].page \in DOMAIN c.refs /\ c.refs[c.tabs[t].page] = t
    <3>1. PICK p \in OpenPages : t = known[p]
      BY <1>10, <1>12
    <3> QED
      BY <3>1, <1>8, <1>9, <1>12
  <2>2. ASSUME NEW p \in DOMAIN c.refs
        PROVE  c.refs[p] \in DOMAIN c.tabs /\ c.tabs[c.refs[p]].page = p
    BY <1>8, <1>9, <1>10, <1>12
  <2>3. c.selected \in DOMAIN c.tabs \cup {NoRef}
    BY <1>11, <1>12 DEF Bridge, Agree
  <2>4. ASSUME NEW e \in DOMAIN c.elements
        PROVE  c.elements[e].tab \in DOMAIN c.tabs
               /\ c.elements[e].page = c.tabs[c.elements[e].tab].page
    <3>1. PICK t \in DOMAIN b.tabs : t = b.elements[e].tab /\ b.elements[e].page = b.tabs[t].page
      BY <1>12 DEF Bridge, Agree
    <3>2. c.elements[e] = b.elements[e]
      BY <1>12
    <3>3. t \in DOMAIN c.tabs /\ c.tabs[t].page = b.tabs[t].page
      BY <1>11, <1>12
    <3> QED
      BY <3>1, <3>2, <3>3
  <2> QED
    BY <2>1, <2>2, <2>3, <2>4 DEF Agree
<1> QED
  BY <1>8, <1>11, <1>12, <1>13, <1>14 DEF Bridge, c

(* Any known tab, or none, can be the selected one.                        *)
LEMMA SelectKeeps ==
  ASSUME NEW b, Bridge(b), NEW t \in DOMAIN b.tabs \cup {NoRef}
  PROVE  LET c == [b EXCEPT !.selected = t]
         IN Bridge(c) /\ c.tabs = b.tabs /\ c.elements = b.elements /\ c.selected = t
            /\ c.tabCount = b.tabCount
<1> DEFINE c == [b EXCEPT !.selected = t]
<1>1. c = [tabs |-> b.tabs, refs |-> b.refs, selected |-> t, elements |-> b.elements,
           tabCount |-> b.tabCount]
  BY DEF Bridge, BridgeTypes
<1> HIDE DEF c
<1>2. BridgeTypes(c)
  BY <1>1 DEF Bridge, BridgeTypes
<1>3. Agree(c)
  BY <1>1 DEF Bridge, Agree
<1> QED
  BY <1>1, <1>2, <1>3 DEF c, Bridge

(* list_tabs keeps the tables in agreement and leaves a tab selected if a  *)
(* page is open.                                                           *)
LEMMA ListedKeeps ==
  ASSUME NEW b, Bridge(b)
  PROVE  /\ Bridge(Listed(b)) /\ Fewer(Listed(b), b)
         /\ OpenPages # {} => Listed(b).selected \in DOMAIN Listed(b).tabs
<1> DEFINE a == Purged(b)
           r == Referenced(a)
           sel == IF r.selected = NoRef THEN FirstTab(r) ELSE r.selected
<1>1. Bridge(a) /\ Fewer(a, b) /\ \A t \in DOMAIN a.tabs : Shows(a.tabs[t].page)
  BY PurgedKeeps
<1> HIDE DEF a
<1>2. Bridge(r) /\ r.elements = a.elements /\ DOMAIN r.refs = OpenPages
  BY <1>1, ReferencedKeeps
<1> HIDE DEF r
<1>3. r.selected \in DOMAIN r.tabs \cup {NoRef}
  BY <1>2 DEF Bridge, Agree
<1>4. OpenPages = {} => FirstTab(r) = NoRef
  BY DEF FirstTab
<1>5. OpenPages # {} => FirstTab(r) \in DOMAIN r.tabs
  <2> SUFFICES ASSUME OpenPages # {} PROVE FirstTab(r) \in DOMAIN r.tabs
    OBVIOUS
  <2>1. OpenPages \in SUBSET Pages /\ OpenPages \subseteq Nat
    BY EdgeAssumption DEF EdgeAssumption, OpenPages
  <2>2. \E p \in OpenPages : \A q \in OpenPages : p <= q
    BY <2>1, HasLeast, FS_Subset, EdgeAssumption DEF EdgeAssumption
  <2>3. PICK p \in OpenPages : FirstTab(r) = r.refs[p]
    BY <2>2 DEF FirstTab
  <2> QED
    BY <2>3, <1>2 DEF Bridge, Agree
<1>6. Listed(b) = [r EXCEPT !.selected = sel]
  BY <1>2 DEF Listed, Bridge, BridgeTypes, r, a
<1>7. sel \in DOMAIN r.tabs \cup {NoRef} /\ (OpenPages # {} => sel \in DOMAIN r.tabs)
  BY <1>3, <1>4, <1>5
<1> HIDE DEF sel
<1> QED
  BY <1>1, <1>2, <1>6, <1>7, SelectKeeps DEF Fewer

(* _selected_page, if it finds a page, finds one that has a tab.           *)
LEMMA LookedKeeps ==
  ASSUME NEW b, Bridge(b), NEW t
  PROVE  /\ Bridge(Looked(b, t)) /\ Fewer(Looked(b, t), b)
         /\ PageFound(b, t) => PageTab(b, t) \in DOMAIN Looked(b, t).tabs
<1>1. Purged(b).selected \in DOMAIN Purged(b).tabs \cup {NoRef}
  BY PurgedKeeps DEF Bridge, Agree
<1> QED
  BY <1>1, PurgedKeeps, ListedKeeps DEF Looked, PageFound, PageTab

(* list_elements replaces the elements of its tab only.                    *)
LEMMA ListedElementsKeeps ==
  ASSUME NEW b, Bridge(b), NEW t \in DOMAIN b.tabs, NEW kind
  PROVE  LET l == ListedElements(b, t, kind)
         IN /\ Bridge(l) /\ l.tabs = b.tabs
            /\ \A e \in DOMAIN l.elements : /\ l.elements[e].tab # t
                                           => e \in DOMAIN b.elements /\ l.elements[e] = b.elements[e]
<1> DEFINE c == WithoutElements(b, ElementsOf(b, t))
           fresh == Fresh(c, t, kind)
           n(e) == Cardinality({d \in fresh : d <= e})
           new == [e \in fresh |-> Entry(b, t, kind, n(e))]
           l == ListedElements(b, t, kind)
<1>1. /\ Bridge(c) /\ Fewer(c, b) /\ c.tabs = b.tabs /\ c.refs = b.refs
      /\ c.selected = b.selected /\ c.tabCount = b.tabCount
  BY WithoutElementsKeeps
<1> HIDE DEF c
<1>2. l = [tabs |-> b.tabs, refs |-> b.refs, selected |-> b.selected,
           elements |-> Over(new, c.elements), tabCount |-> b.tabCount]
  BY <1>1 DEF ListedElements, Cleared, Bridge, BridgeTypes, c
<1>3. \A e \in fresh : new[e].tab = t /\ new[e].page = b.tabs[t].page
  BY DEF Entry
<1>4. DOMAIN new = fresh
  OBVIOUS
<1> HIDE DEF new, fresh, l
<1>5. /\ DOMAIN l.elements = fresh \cup DOMAIN c.elements
      /\ l.elements = [e \in DOMAIN l.elements |-> l.elements[e]]
      /\ \A e \in fresh : l.elements[e] = new[e]
      /\ \A e \in DOMAIN c.elements \ fresh : l.elements[e] = c.elements[e]
  BY <1>2, <1>4 DEF Over
<1>6. /\ l.tabs = b.tabs /\ l.refs = b.refs /\ l.selected = b.selected /\ l.tabCount = b.tabCount
      /\ l = [tabs |-> l.tabs, refs |-> l.refs, selected |-> l.selected,
              elements |-> l.elements, tabCount |-> l.tabCount]
  BY <1>2
<1>7. BridgeTypes(l)
  BY <1>5, <1>6 DEF Bridge, BridgeTypes
<1>8. Agree(l)
  <2>1. ASSUME NEW e \in DOMAIN l.elements
        PROVE  l.elements[e].tab \in DOMAIN b.tabs
               /\ l.elements[e].page = b.tabs[l.elements[e].tab].page
    BY <1>1, <1>3, <1>5 DEF Bridge, Agree
  <2> QED
    BY <1>6, <2>1 DEF Bridge, Agree
<1>9. ASSUME NEW e \in DOMAIN l.elements, l.elements[e].tab # t
      PROVE  e \in DOMAIN b.elements /\ l.elements[e] = b.elements[e]
  BY <1>1, <1>3, <1>5, <1>9 DEF Fewer
<1> QED
  BY <1>6, <1>7, <1>8, <1>9 DEF Bridge, l

-----------------------------------------------------------------------------
(* The coordinator: what a reference means.                                *)

(* As long as the controller knows an element, the hint of the coordinator *)
(* is of that element.                                                     *)
HintsTell ==
  \A e \in DOMAIN hints \cap DOMAIN ctl.elements : hints[e].print = ctl.elements[e].print

(* The click or fill under way is between being found and being recorded.  *)
TaskTypes ==
  task # Idle =>
    /\ task = [at |-> task.at, op |-> task.op, meant |-> task.meant, raced |-> task.raced,
               as |-> task.as, flow |-> task.flow, before |-> task.before,
               verified |-> task.verified]
    /\ task.at \in {"found", "checked", "acted"}

(* If the reference that was found is still known, it is of the same thing *)
(* as what the caller meant.                                               *)
TaskMeans ==
  task # Idle /\ task.as \in DOMAIN ctl.elements =>
    SameThing(task.meant, ctl.elements[task.as].print)

(* An element is in the page, unchanged since it was listed, and may be    *)
(* acted on.                                                               *)
InView(e, op) ==
  /\ e \in DOMAIN ctl.elements
  /\ Attached(ctl.elements[e])
  /\ Fingerprint(Located(ctl.elements[e])) = ctl.elements[e].print
  /\ Permitted(op, Located(ctl.elements[e]))

(* What was checked stays so until a page changes.                         *)
CheckedInView == task.at = "checked" /\ ~task.raced => InView(task.as, task.op)

(* The workflow is a record of status, steps and last verification.        *)
FlowTypes == flow = [status |-> flow.status, steps |-> flow.steps, last |-> flow.last]

(* The inductive invariant of the bridge and its coordinator.              *)
EdgeInv ==
  /\ Bridge(ctl) /\ HintsTell
  /\ TaskTypes /\ TaskMeans /\ CheckedInView /\ ActsOnWhatWasMeant
  /\ FlowTypes /\ CompletedIsVerified

-----------------------------------------------------------------------------

(* Eighty points are reached by the same thing only: with another target   *)
(* both texts have to be the same, without a target one of them, or both   *)
(* similar (workflow.py _recovery_score).                                  *)
LEMMA ScoreTells ==
  ASSUME NEW o, NEW c, NEW allowed, RecoveryScore(o, c, allowed) >= 80
  PROVE  SameThing(o, c)
<1> DEFINE shape == ShapeScore(o, c)
           href == HrefScore(o, c)
           label == TextScore(o.label, c.label, 70, 30)
           placeholder == TextScore(o.placeholder, c.placeholder, 60, 25)
<1>1. shape \in 0 .. 15
  <2> DEFINE same == {i \in 1..3 : o.shape[i] # "" /\ o.shape[i] = c.shape[i]}
  <2>1. same \in SUBSET (1..3)
    OBVIOUS
  <2>3. IsFiniteSet(1..3) /\ Cardinality(1..3) = 3
    <3>1. IsFiniteSet(1..3) /\ Cardinality(1..3) = IF 1 > 3 THEN 0 ELSE 3 - 1 + 1
      BY ONLY FS_Interval, 1 \in Int, 3 \in Int, Zenon
    <3> QED
      BY <3>1
  <2>2. Cardinality(same) \in Nat /\ Cardinality(same) <= 3
    BY <2>1, <2>3, FS_Subset, FS_CardinalityType
  <2> HIDE DEF same
  <2>4. shape = 5 * Cardinality(same)
    BY DEF ShapeScore, same
  <2> QED
    BY <2>2, <2>4
<1>2. o.kind = c.kind /\ 20 + href + label + placeholder + shape >= 80
  BY DEF RecoveryScore
<1>3. \/ href = 0 /\ o.href = ""
      \/ href = 100 /\ o.href # "" /\ c.href = o.href
      \/ href = -80 /\ o.href # ""
  BY DEF HrefScore
<1>4. \/ label = 0
      \/ label = 70 /\ c.label = o.label
      \/ label = 30 /\ Similar(o.label, c.label)
  BY DEF TextScore
<1>5. \/ placeholder = 0
      \/ placeholder = 60 /\ c.placeholder = o.placeholder /\ o.placeholder # {}
      \/ placeholder = 25 /\ Similar(o.placeholder, c.placeholder) /\ o.placeholder # {}
  BY DEF TextScore
<1> HIDE DEF shape, href, label, placeholder
<1>6. /\ href = -80 => label = 70 /\ placeholder = 60
      /\ href = 0 /\ placeholder = 0 => label = 70
      /\ href = 0 => label = 70 \/ placeholder = 60 \/ (label = 30 /\ placeholder = 25)
  <2>1. /\ href \in {0, 100, -80} /\ label \in {0, 30, 70} /\ placeholder \in {0, 25, 60}
    BY <1>3, <1>4, <1>5
  <2> QED
    BY <2>1, <1>1, <1>2
<1> DEFINE sameHref == o.href # "" /\ c.href = o.href
           sameLabel == c.label = o.label
           samePlaceholder == c.placeholder = o.placeholder
           bothSimilar == Similar(o.label, c.label) /\ Similar(o.placeholder, c.placeholder)
<1>7. label = 70 => sameLabel
  BY <1>4
<1>8. /\ placeholder = 60 => samePlaceholder /\ o.placeholder # {}
      /\ o.placeholder = {} => placeholder = 0
  BY <1>5
<1>9. label = 30 /\ placeholder = 25 => bothSimilar
  BY <1>4, <1>5
<1>10. /\ o.href # "" => sameHref \/ (sameLabel /\ samePlaceholder /\ o.placeholder # {})
       /\ o.placeholder = {} => sameHref \/ sameLabel
       /\ sameHref \/ sameLabel \/ samePlaceholder \/ bothSimilar
  <2>1. CASE href = 0 /\ o.href = ""
    BY <1>6, <1>7, <1>8, <1>9, <2>1
  <2>2. CASE o.href # "" /\ c.href = o.href
    BY <2>2
  <2>3. CASE href = -80 /\ o.href # ""
    <3>1. sameLabel /\ samePlaceholder /\ o.placeholder # {}
      BY <1>6, <1>7, <1>8, <2>3
    <3> QED
      BY <3>1
  <2> QED
    BY <1>3, <2>1, <2>2, <2>3
<1> QED
  BY <1>2, <1>10 DEF SameThing

(* What was found as it was listed is the same thing.                      *)
LEMMA ItselfIsTheSame == \A was : SameThing(was, was)
BY DEF SameThing

(* A reference that resolves leads to an element as it was listed; one     *)
(* that does not is forgotten (_resolve_element).                          *)
LEMMA ResolvedKeeps ==
  ASSUME NEW b, Bridge(b), NEW e
  PROVE  /\ Bridge(Resolved(b, e)) /\ Fewer(Resolved(b, e), b)
         /\ Resolvable(b, e) => /\ e \in DOMAIN Resolved(b, e).elements
                                /\ Attached(Resolved(b, e).elements[e])
                                /\ Fingerprint(Located(Resolved(b, e).elements[e]))
                                     = Resolved(b, e).elements[e].print
<1> DEFINE c == PurgedElements(b)
<1>1. Bridge(c) /\ Fewer(c, b)
  BY PurgedElementsKeeps
<1>2. CASE Resolvable(b, e)
  BY <1>1, <1>2 DEF Resolved, Resolvable
<1>3. CASE ~Resolvable(b, e)
  <2>1. Resolved(b, e) = WithoutElements(c, {e})
    BY <1>3 DEF Resolved
  <2> HIDE DEF c
  <2> QED
    BY <1>1, <1>3, <2>1, WithoutElementsKeeps DEF Fewer
<1> QED
  BY <1>2, <1>3

(* What recovery picks scored enough.                                      *)
LEMMA RecoveredIsTheSame ==
  ASSUME NEW l, NEW fresh, NEW o, NEW x \in Recovered(l, fresh, o)
  PROVE  x \in fresh /\ SameThing(o, l.elements[x].print)
<1>1. x \in fresh /\ RecoveryScore(o, l.elements[x].print, Located(l.elements[x]).allowed) >= 80
  BY DEF Recovered
<1> QED
  BY <1>1, ScoreTells

(* get_element finds the element itself or the same thing again, and       *)
(* elements outside the tab that was listed anew stay as they are.         *)
LEMMA DenotedIsTheSame ==
  ASSUME NEW b, Bridge(b), NEW e, NEW d, d = Denoted(b, e)
  PROVE  /\ Bridge(d.b)
         /\ d.seen \subseteq DOMAIN d.b.elements
         /\ \A x \in DOMAIN d.b.elements \ d.seen :
              x \in DOMAIN b.elements /\ d.b.elements[x] = b.elements[x]
         /\ \A x \in d.found :
              /\ x \in DOMAIN d.b.elements
              /\ \/ x = e /\ e \in DOMAIN b.elements /\ d.b.elements[e] = b.elements[e]
                 \/ e \in DOMAIN hints /\ SameThing(hints[e].print, d.b.elements[x].print)
<1> DEFINE r == Resolved(b, e)
           c == Purged(r)
<1>1. Bridge(r) /\ Fewer(r, b) /\ (Resolvable(b, e) => e \in DOMAIN r.elements)
  BY ResolvedKeeps
<1>2. Bridge(c) /\ Fewer(c, b)
  BY <1>1, PurgedKeeps DEF Fewer
<1>3. CASE Resolvable(b, e)
  <2>1. d = [found |-> {e}, b |-> r, seen |-> {e}]
    BY <1>3 DEF Denoted
  <2> HIDE DEF r, c
  <2> QED
    BY <1>1, <1>3, <2>1 DEF Fewer
<1>4. CASE ~Resolvable(b, e) /\ (e \notin DOMAIN hints \/ hints[e].tab \notin DOMAIN c.tabs)
  <2>1. \/ d = [found |-> {}, b |-> r, seen |-> {}]
        \/ d = [found |-> {}, b |-> c, seen |-> {}]
    BY <1>4 DEF Denoted
  <2> HIDE DEF r, c
  <2> QED
    BY <1>1, <1>2, <2>1 DEF Fewer
<1>5. CASE ~Resolvable(b, e) /\ e \in DOMAIN hints /\ hints[e].tab \in DOMAIN c.tabs
  <2> DEFINE tab == hints[e].tab
             kind == hints[e].print.kind
             l == ListedElements(c, tab, kind)
             fresh == ElementsOf(l, tab)
  <2>1. d = [found |-> Recovered(l, fresh, hints[e].print), b |-> l, seen |-> fresh]
    BY <1>5 DEF Denoted
  <2> HIDE DEF c
  <2>2. /\ Bridge(l)
        /\ \A x \in DOMAIN l.elements : /\ l.elements[x].tab # tab
                                       => x \in DOMAIN c.elements /\ l.elements[x] = c.elements[x]
    BY <1>2, <1>5, ListedElementsKeeps
  <2> HIDE DEF l
  <2>3. fresh \subseteq DOMAIN l.elements /\ \A x \in DOMAIN l.elements \ fresh : l.elements[x].tab # tab
    BY DEF ElementsOf
  <2> HIDE DEF fresh
  <2>4. \A x \in Recovered(l, fresh, hints[e].print) :
          x \in fresh /\ SameThing(hints[e].print, l.elements[x].print)
    BY RecoveredIsTheSame
  <2>5. \A x \in DOMAIN l.elements \ fresh : x \in DOMAIN b.elements /\ l.elements[x] = b.elements[x]
    BY <1>2, <2>2, <2>3 DEF Fewer
  <2> QED
    BY <1>5, <2>1, <2>2, <2>3, <2>4, <2>5
<1> QED
  BY <1>3, <1>4, <1>5

-----------------------------------------------------------------------------
(* The calls.                                                              *)

(* The fingerprint is all that matters for being the same thing.           *)
LEMMA PrintTells ==
  ASSUME NEW was, NEW hit, SameThing(was, Fingerprint(hit))
  PROVE  SameThing(was, hit)
BY DEF SameThing, Fingerprint

(* Forgetting elements or hints leaves the others right.                   *)
LEMMA FewerTell ==
  ASSUME HintsTell, Fewer(ctl', ctl),
         \A e \in DOMAIN hints' : e \in DOMAIN hints /\ hints'[e] = hints[e]
  PROVE  HintsTell'
BY DEF HintsTell, Fewer

(* _remember_elements notes the elements as they were just listed.         *)
LEMMA RememberedTell ==
  ASSUME HintsTell, NEW b, NEW S, S \subseteq DOMAIN b.elements,
         \A x \in DOMAIN b.elements \ S : x \in DOMAIN ctl.elements /\ b.elements[x] = ctl.elements[x],
         ctl' = b, hints' = Remembered(b, S)
  PROVE  HintsTell'
<1>1. /\ DOMAIN hints' = S \cup DOMAIN hints
      /\ \A e \in S : hints'[e] = Hint(b, e)
      /\ \A e \in DOMAIN hints \ S : hints'[e] = hints[e]
  BY DEF Remembered, Over
<1>2. ASSUME NEW e \in S PROVE hints'[e].print = b.elements[e].print
  BY <1>1 DEF Hint
<1>3. ASSUME NEW e \in DOMAIN hints' \cap DOMAIN b.elements PROVE hints'[e].print = b.elements[e].print
  BY <1>1, <1>2 DEF HintsTell
<1> QED
  BY <1>3 DEF HintsTell

(* Without a task there is nothing to say of it.                           *)
LEMMA NoTask ==
  ASSUME task' = Idle PROVE TaskTypes' /\ TaskMeans' /\ CheckedInView'
BY DEF TaskTypes, TaskMeans, CheckedInView, Idle

(* A workflow that is not touched stays verified if it was.                *)
LEMMA SameFlow ==
  ASSUME EdgeInv, UNCHANGED flow PROVE FlowTypes' /\ CompletedIsVerified'
BY DEF EdgeInv, FlowTypes, CompletedIsVerified, StepsVerified

(* A recorded step makes the workflow active again, so that it no longer   *)
(* counts as completed.                                                    *)
LEMMA RecordStepKeeps ==
  ASSUME EdgeInv, NEW w, NEW v, RecordStep(w, v) PROVE FlowTypes' /\ CompletedIsVerified'
<1>1. CASE UNCHANGED flow
  BY <1>1, SameFlow
<1>2. CASE flow' = [flow EXCEPT !.steps = Append(@, v), !.status = "active"]
  BY <1>2 DEF EdgeInv, FlowTypes, CompletedIsVerified
<1> QED
  BY <1>1, <1>2 DEF RecordStep

(* A call that is no click or fill keeps the invariant if it keeps tables, *)
(* hints and workflow right.                                               *)
LEMMA CallKeeps ==
  ASSUME EdgeInv, Bridge(ctl'), HintsTell', task' = Idle, UNCHANGED acted,
         FlowTypes' /\ CompletedIsVerified'
  PROVE  EdgeInv'
<1>1. ActsOnWhatWasMeant'
  BY DEF EdgeInv, ActsOnWhatWasMeant
<1> QED
  BY <1>1, NoTask DEF EdgeInv

(* In particular one that only forgets elements.                           *)
LEMMA FewerCallKeeps ==
  ASSUME EdgeInv, Bridge(ctl'), Fewer(ctl', ctl), task' = Idle, UNCHANGED <<hints, acted>>,
         FlowTypes' /\ CompletedIsVerified'
  PROVE  EdgeInv'
BY CallKeeps, FewerTell DEF EdgeInv

(* get_page_info and capture_tab.                                          *)
LEMMA ReadPageKeeps ==
  ASSUME Bridge(ctl), NEW t, ReadPage(t) PROVE Bridge(ctl') /\ Fewer(ctl', ctl)
<1> DEFINE b == Looked(ctl, t)
           tab == PageTab(ctl, t)
<1>1. Bridge(b) /\ Fewer(b, ctl) /\ (PageFound(ctl, t) => tab \in DOMAIN b.tabs)
  BY LookedKeeps
<1>2. (PageFound(ctl, t) /\ ctl' = [b EXCEPT !.selected = tab]) \/ ctl' = b
  BY DEF ReadPage
<1> HIDE DEF b, tab
<1>3. CASE PageFound(ctl, t) /\ ctl' = [b EXCEPT !.selected = tab]
  <2>1. Bridge(ctl') /\ ctl'.elements = b.elements
    BY <1>1, <1>3, SelectKeeps
  <2> QED
    BY <1>1, <2>1 DEF Fewer
<1> QED
  BY <1>1, <1>2, <1>3

(* select_tab.                                                             *)
LEMMA SelectTabKeeps ==
  ASSUME Bridge(ctl), NEW t, SelectTab(t) PROVE Bridge(ctl') /\ Fewer(ctl', ctl)
<1> DEFINE b == Purged(ctl)
<1>1. Bridge(b) /\ Fewer(b, ctl)
  BY PurgedKeeps
<1>2. (t \in DOMAIN b.tabs /\ ctl' = [b EXCEPT !.selected = t]) \/ ctl' = b
  BY DEF SelectTab
<1> HIDE DEF b
<1>3. CASE t \in DOMAIN b.tabs /\ ctl' = [b EXCEPT !.selected = t]
  <2>1. Bridge(ctl') /\ ctl'.elements = b.elements
    BY <1>1, <1>3, SelectKeeps
  <2> QED
    BY <1>1, <2>1 DEF Fewer
<1> QED
  BY <1>1, <1>2, <1>3

(* close_tab, whether the page closes or not.                              *)
LEMMA CloseTabKeeps ==
  ASSUME Bridge(ctl), NEW t, CloseTab(t) PROVE Bridge(ctl') /\ Fewer(ctl', ctl)
<1> DEFINE b == Purged(ctl)
<1>1. Bridge(b) /\ Fewer(b, ctl)
  BY PurgedKeeps
<1>2. ctl' = b \/ (t \in DOMAIN b.tabs /\ ctl' = WithoutTabs(b, {t}))
  BY DEF CloseTab
<1> HIDE DEF b
<1> QED
  BY <1>1, <1>2, WithoutTabsKeeps DEF Fewer

(* A controller that knows nothing is well-formed.                         *)
LEMMA NothingIsKnown ==
  ASSUME NEW n \in Nat, NEW c, c = [NoController EXCEPT !.tabCount = n]
  PROVE  Bridge(c) /\ DOMAIN c.elements = {}
<1>1. c = [tabs |-> <<>>, refs |-> <<>>, selected |-> NoRef, elements |-> <<>>, tabCount |-> n]
  BY DEF NoController
<1>2. /\ DOMAIN c.tabs = {} /\ DOMAIN c.refs = {} /\ DOMAIN c.elements = {}
      /\ c.selected = NoRef /\ c.tabCount = n
  BY <1>1
<1>3. \A f : f = <<>> => f = [x \in DOMAIN f |-> f[x]]
  OBVIOUS
<1>4. /\ c.tabs = [t \in DOMAIN c.tabs |-> c.tabs[t]]
      /\ c.refs = [p \in DOMAIN c.refs |-> c.refs[p]]
      /\ c.elements = [e \in DOMAIN c.elements |-> c.elements[e]]
  BY <1>1, <1>3
<1>5. BridgeTypes(c)
  BY <1>1, <1>2, <1>4 DEF BridgeTypes
<1> QED
  BY <1>2, <1>5 DEF Bridge, Agree

(* The calls on the controller keep the invariant.                         *)
LEMMA ControllerCallKeeps == ASSUME EdgeInv, ControllerCall PROVE EdgeInv'
<1>1. Bridge(ctl)
  BY DEF EdgeInv
<1>2. task' = Idle /\ UNCHANGED <<hints, flow, acted>>
  BY DEF ControllerCall
<1>3. SUFFICES Bridge(ctl') /\ Fewer(ctl', ctl)
  BY <1>2, SameFlow, FewerCallKeeps
<1>4. CASE ListTabs
  BY <1>1, <1>4, ListedKeeps DEF ListTabs
<1>5. CASE Reconnect
  BY <1>1, <1>5 DEF Reconnect, Fewer
<1>6. CASE CloseBridge
  <2>1. ctl' = [NoController EXCEPT !.tabCount = ctl.tabCount] /\ ctl.tabCount \in Nat
    BY <1>1, <1>6 DEF CloseBridge, Bridge, BridgeTypes
  <2> QED
    BY <2>1, NothingIsKnown DEF Fewer
<1>7. ASSUME NEW t, ReadPage(t) \/ CloseTab(t) PROVE Bridge(ctl') /\ Fewer(ctl', ctl)
  BY <1>1, <1>7, ReadPageKeeps, CloseTabKeeps
<1> QED
  BY <1>4, <1>5, <1>6, <1>7 DEF ControllerCall

(* begin_workflow, with a tab or without.                                  *)
LEMMA BeginWorkflowKeeps ==
  ASSUME EdgeInv, NEW t, BeginWorkflow(t) PROVE EdgeInv'
<1> DEFINE b == IF t = NoRef THEN ctl ELSE [Purged(ctl) EXCEPT !.selected = t]
<1>1. Bridge(ctl) /\ task' = Idle /\ UNCHANGED <<hints, acted>>
  BY DEF EdgeInv, BeginWorkflow
<1>2. t # NoRef => t \in DOMAIN Purged(ctl).tabs
  BY DEF BeginWorkflow
<1>3. Bridge(b) /\ Fewer(b, ctl)
  <2>1. Bridge(Purged(ctl)) /\ Fewer(Purged(ctl), ctl)
    BY <1>1, PurgedKeeps
  <2> QED
    BY <1>1, <1>2, <2>1, SelectKeeps DEF Fewer
<1>4. ctl' = Listed(b) /\ flow' = [NoFlow EXCEPT !.status = "active"]
  BY DEF BeginWorkflow
<1> HIDE DEF b
<1>5. Bridge(ctl') /\ Fewer(ctl', ctl)
  BY <1>3, <1>4, ListedKeeps DEF Fewer
<1>6. FlowTypes' /\ CompletedIsVerified'
  BY <1>4 DEF FlowTypes, CompletedIsVerified, NoFlow
<1> QED
  BY <1>1, <1>5, <1>6, FewerCallKeeps

(* verify_workflow notes what it looked at when it succeeds.               *)
LEMMA VerifyWorkflowKeeps ==
  ASSUME EdgeInv, NEW required \in BOOLEAN, NEW page, VerifyWorkflow(required, page) PROVE EdgeInv'
<1>1. Bridge(ctl') /\ Fewer(ctl', ctl) /\ task' = Idle /\ UNCHANGED <<hints, acted>>
  BY ListedKeeps DEF EdgeInv, VerifyWorkflow
<1>2. FlowTypes' /\ CompletedIsVerified'
  <2>1. CASE /\ ChecksPass(required, page)
             /\ flow' = [flow EXCEPT !.status = "completed",
                                     !.last = [count |-> Len(flow.steps), required |-> required]]
    <3>1. required => StepsVerified
      BY <2>1 DEF ChecksPass
    <3>2. /\ flow'.steps = flow.steps /\ flow'.last.count = Len(flow.steps)
          /\ flow'.last.required = required
          /\ flow' = [status |-> flow'.status, steps |-> flow'.steps, last |-> flow'.last]
      BY <2>1 DEF EdgeInv, FlowTypes
    <3> QED
      BY <3>1, <3>2 DEF FlowTypes, CompletedIsVerified, StepsVerified
  <2>2. CASE flow' = [flow EXCEPT !.status = "verification_failed", !.last = NoFlow.last]
    BY <2>2 DEF EdgeInv, FlowTypes, CompletedIsVerified
  <2> QED
    BY <2>1, <2>2 DEF VerifyWorkflow
<1> QED
  BY <1>1, <1>2, FewerCallKeeps

(* list_elements of the coordinator.                                       *)
LEMMA ListElementsKeeps ==
  ASSUME EdgeInv, NEW t, NEW kind, ListElements(t, kind) PROVE EdgeInv'
<1> DEFINE k == Looked(ctl, t)
           tab == PageTab(ctl, t)
           sel == IF t = NoRef THEN tab ELSE k.selected
           b == [k EXCEPT !.selected = sel]
           l == ListedElements(b, tab, kind)
<1>1. task' = Idle /\ UNCHANGED <<flow, acted>> /\ Bridge(ctl) /\ HintsTell
  BY DEF EdgeInv, ListElements
<1>2. Bridge(k) /\ Fewer(k, ctl) /\ (PageFound(ctl, t) => tab \in DOMAIN k.tabs)
  BY <1>1, LookedKeeps
<1>3. CASE ~PageFound(ctl, t)
  BY <1>1, <1>2, <1>3, SameFlow, FewerCallKeeps DEF ListElements
<1>4. CASE PageFound(ctl, t)
  <2>1. ctl' = l /\ hints' = Remembered(l, ElementsOf(l, tab))
    <3>1. [k EXCEPT !.selected = IF t = NoRef THEN tab ELSE @] = b
      BY Zenon
    <3> QED
      BY <1>4, <3>1 DEF ListElements
  <2> HIDE DEF k, tab
  <2>2. sel \in DOMAIN k.tabs \cup {NoRef}
    BY <1>2, <1>4 DEF Bridge, Agree
  <2> HIDE DEF sel
  <2>3. Bridge(b) /\ Fewer(b, ctl) /\ tab \in DOMAIN b.tabs
    BY <1>2, <1>4, <2>2, SelectKeeps DEF Fewer
  <2> HIDE DEF b
  <2>4. /\ Bridge(l)
        /\ \A x \in DOMAIN l.elements : /\ l.elements[x].tab # tab
                                       => x \in DOMAIN b.elements /\ l.elements[x] = b.elements[x]
    BY <2>3, ListedElementsKeeps
  <2> HIDE DEF l
  <2> DEFINE S == ElementsOf(l, tab)
  <2>5. S \subseteq DOMAIN l.elements /\ \A x \in DOMAIN l.elements \ S : l.elements[x].tab # tab
    BY DEF ElementsOf
  <2> HIDE DEF S
  <2>6. \A x \in DOMAIN l.elements \ S : x \in DOMAIN ctl.elements /\ l.elements[x] = ctl.elements[x]
    BY <2>3, <2>4, <2>5 DEF Fewer
  <2>7. HintsTell'
    BY <1>1, <2>1, <2>5, <2>6, RememberedTell DEF S
  <2> QED
    BY <1>1, <2>1, <2>4, <2>7, SameFlow, CallKeeps
<1> QED
  BY <1>3, <1>4

(* get_element of the coordinator.                                         *)
LEMMA GetElementKeeps ==
  ASSUME EdgeInv, NEW e, GetElement(e) PROVE EdgeInv'
<1> DEFINE d == Denoted(ctl, e)
<1>1. /\ task' = Idle /\ UNCHANGED <<flow, acted>> /\ Bridge(ctl) /\ HintsTell
      /\ ctl' = d.b /\ hints' = Remembered(d.b, d.seen)
  BY DEF EdgeInv, GetElement
<1>2. /\ Bridge(d.b) /\ d.seen \subseteq DOMAIN d.b.elements
      /\ \A x \in DOMAIN d.b.elements \ d.seen :
           x \in DOMAIN ctl.elements /\ d.b.elements[x] = ctl.elements[x]
  BY <1>1, DenotedIsTheSame
<1> HIDE DEF d
<1>3. HintsTell'
  BY <1>1, <1>2, RememberedTell
<1> QED
  BY <1>1, <1>2, <1>3, SameFlow, CallKeeps

(* The calls on the coordinator other than clicks and fills.               *)
LEMMA CoordinatorCallKeeps == ASSUME EdgeInv, CoordinatorCall PROVE EdgeInv'
<1>1. ASSUME NEW t, NEW w, SelectTabIn(t, w) PROVE EdgeInv'
  <2>1. Bridge(ctl') /\ Fewer(ctl', ctl) /\ task' = Idle /\ UNCHANGED <<hints, acted>>
    BY <1>1, SelectTabKeeps DEF SelectTabIn, EdgeInv
  <2>2. FlowTypes' /\ CompletedIsVerified'
    BY <1>1, SameFlow, RecordStepKeeps DEF SelectTabIn
  <2> QED
    BY <2>1, <2>2, FewerCallKeeps
<1> QED
  BY <1>1, BeginWorkflowKeeps, VerifyWorkflowKeeps, ListElementsKeeps, GetElementKeeps
  DEF CoordinatorCall

-----------------------------------------------------------------------------
(* Clicks, fills and the browser.                                          *)

(* A click or fill begins with an element that is what was meant.          *)
LEMMA PreflightKeeps ==
  ASSUME EdgeInv, NEW op \in {"click", "fill"}, NEW e, NEW w, Preflight(op, e, w)
  PROVE  EdgeInv'
<1> DEFINE b == IF op = "click" THEN Listed(ctl) ELSE ctl
           d == Denoted(b, e)
           x == CHOOSE y \in d.found : TRUE
           before == IF op = "click" THEN DOMAIN d.b.tabs ELSE {}
<1>1. Bridge(ctl) /\ HintsTell /\ UNCHANGED <<flow, acted>>
  BY DEF EdgeInv, Preflight
<1>2. /\ ctl' = d.b /\ hints' = Remembered(d.b, d.seen)
      /\ \/ task' = Idle
         \/ /\ d.found # {}
            /\ task' = [at |-> "found", op |-> op, meant |-> Meaning(e), raced |-> FALSE, as |-> x,
                        flow |-> w, before |-> before, verified |-> FALSE]
  <2>1. ctl' = d.b /\ hints' = Remembered(d.b, d.seen)
    BY DEF Preflight
  <2>2. task' = IF d.found = {} THEN Idle
                ELSE [at |-> "found", op |-> op, meant |-> Meaning(e), raced |-> FALSE, as |-> x,
                      flow |-> w, before |-> before, verified |-> FALSE]
    BY DEF Preflight
  <2> QED
    BY <2>1, <2>2
<1>3. Bridge(b) /\ Fewer(b, ctl)
  BY <1>1, ListedKeeps DEF Fewer
<1> HIDE DEF b
<1>4. /\ Bridge(d.b) /\ d.seen \subseteq DOMAIN d.b.elements
      /\ \A y \in DOMAIN d.b.elements \ d.seen :
           y \in DOMAIN b.elements /\ d.b.elements[y] = b.elements[y]
      /\ \A y \in d.found :
           /\ y \in DOMAIN d.b.elements
           /\ \/ y = e /\ e \in DOMAIN b.elements /\ d.b.elements[e] = b.elements[e]
              \/ e \in DOMAIN hints /\ SameThing(hints[e].print, d.b.elements[y].print)
  BY <1>3, DenotedIsTheSame
<1>5. d.found # {} => x \in d.found
  OBVIOUS
<1> HIDE DEF d, x, before
<1>6. HintsTell'
  <2>1. \A y \in DOMAIN d.b.elements \ d.seen :
          y \in DOMAIN ctl.elements /\ d.b.elements[y] = ctl.elements[y]
    BY <1>3, <1>4 DEF Fewer
  <2> QED
    BY <1>1, <1>2, <1>4, <2>1, RememberedTell
<1>7. CASE task' = Idle
  BY <1>1, <1>2, <1>4, <1>6, <1>7, SameFlow, CallKeeps
<1>8. CASE /\ d.found # {}
           /\ task' = [at |-> "found", op |-> op, meant |-> Meaning(e), raced |-> FALSE, as |-> x,
                       flow |-> w, before |-> before, verified |-> FALSE]
  <2>1. /\ TaskTypes' /\ task'.at = "found" /\ task'.as = x /\ task'.meant = Meaning(e)
    BY <1>8 DEF TaskTypes
  <2>2. SameThing(Meaning(e), d.b.elements[x].print)
    <3>1. CASE e \in DOMAIN hints /\ SameThing(hints[e].print, d.b.elements[x].print)
      BY <3>1 DEF Meaning
    <3>2. CASE x = e /\ e \in DOMAIN b.elements /\ d.b.elements[e] = b.elements[e]
      <4>1. e \in DOMAIN ctl.elements /\ d.b.elements[x].print = ctl.elements[e].print
        BY <1>3, <3>2 DEF Fewer
      <4>2. Meaning(e) = d.b.elements[x].print
        BY <1>1, <4>1 DEF Meaning, HintsTell
      <4> QED
        BY <4>2, ItselfIsTheSame
    <3> QED
      BY <1>4, <1>5, <1>8, <3>1, <3>2
  <2>3. TaskMeans' /\ CheckedInView'
    BY <1>2, <2>1, <2>2 DEF TaskMeans, CheckedInView
  <2>4. ActsOnWhatWasMeant'
    BY <1>1 DEF EdgeInv, ActsOnWhatWasMeant
  <2> QED
    BY <1>1, <1>2, <1>4, <1>6, <2>1, <2>3, <2>4, SameFlow DEF EdgeInv
<1> QED
  BY <1>2, <1>7, <1>8

(* The controller's own check puts the element in view or ends the task.   *)
LEMMA CheckElementKeeps == ASSUME EdgeInv, CheckElement PROVE EdgeInv'
<1> DEFINE r == Resolved(ctl, task.as)
<1>1. /\ Bridge(ctl) /\ task.at = "found" /\ UNCHANGED <<pages, hints, flow, acted>> /\ ctl' = r
  BY DEF EdgeInv, CheckElement
<1>2. /\ Bridge(r) /\ Fewer(r, ctl)
      /\ Resolvable(ctl, task.as) => /\ task.as \in DOMAIN r.elements
                                     /\ Attached(r.elements[task.as])
                                     /\ Fingerprint(Located(r.elements[task.as]))
                                          = r.elements[task.as].print
  BY <1>1, ResolvedKeeps
<1> HIDE DEF r
<1>3. CASE task' = Idle
  BY <1>1, <1>2, <1>3, SameFlow, FewerCallKeeps
<1>4. CASE /\ Resolvable(ctl, task.as) /\ Permitted(task.op, Located(ctl.elements[task.as]))
           /\ task' = [task EXCEPT !.at = "checked"]
  <2>1. task # Idle
    BY <1>1 DEF Idle
  <2>2. /\ TaskTypes' /\ task'.at = "checked" /\ task'.as = task.as /\ task'.op = task.op
        /\ task'.meant = task.meant /\ task' # Idle
    BY <1>4, <2>1 DEF EdgeInv, TaskTypes, Idle
  <2>3. r.elements[task.as] = ctl.elements[task.as] /\ task.as \in DOMAIN ctl.elements
    BY <1>2, <1>4 DEF Fewer
  <2>4. InView(task.as, task.op)'
    BY <1>1, <1>2, <1>4, <2>2, <2>3 DEF InView, Attached, Located
  <2>5. CheckedInView'
    BY <2>2, <2>4 DEF CheckedInView, InView
  <2>6. TaskMeans'
    BY <1>1, <2>1, <2>2, <2>3 DEF EdgeInv, TaskMeans
  <2>7. HintsTell' /\ ActsOnWhatWasMeant'
    BY <1>1, <1>2, FewerTell DEF EdgeInv, ActsOnWhatWasMeant
  <2> QED
    BY <1>1, <1>2, <2>2, <2>5, <2>6, <2>7, SameFlow DEF EdgeInv
<1> QED
  BY <1>3, <1>4 DEF CheckElement

(* What was checked and did not change since is what is acted on.          *)
LEMMA ActsOnKeeps ==
  ASSUME EdgeInv, task.at = "checked", task.as \in DOMAIN ctl.elements,
         ActsOn(ctl.elements[task.as])
  PROVE  EdgeInv'
<1> DEFINE entry == ctl.elements[task.as]
<1>1. /\ Bridge(ctl) /\ UNCHANGED <<hints, flow>> /\ ctl' = Cleared(ctl, entry.tab)
      /\ acted' = [op |-> task.op, meant |-> task.meant, hit |-> Located(entry), raced |-> task.raced]
  BY DEF EdgeInv, ActsOn
<1>2. PICK seen \in BOOLEAN : task' = [task EXCEPT !.at = "acted", !.verified = seen \/ pages' # pages]
  BY DEF ActsOn
<1>3. Bridge(ctl') /\ Fewer(ctl', ctl)
  BY <1>1, WithoutElementsKeeps DEF Cleared
<1>4. task # Idle
  BY DEF Idle
<1>5. TaskTypes' /\ task'.at = "acted" /\ task'.as = task.as /\ task'.meant = task.meant
  <2> DEFINE u == seen \/ pages' # pages
  <2>1. task' = [task EXCEPT !.at = "acted", !.verified = u]
    BY <1>2
  <2> HIDE DEF u
  <2> QED
    BY <1>4, <2>1 DEF EdgeInv, TaskTypes
<1>6. TaskMeans' /\ CheckedInView'
  BY <1>3, <1>4, <1>5 DEF EdgeInv, TaskMeans, CheckedInView, Fewer
<1>7. HintsTell'
  BY <1>1, <1>3, FewerTell DEF EdgeInv
<1>8. ActsOnWhatWasMeant'
  <2> SUFFICES ASSUME ~acted'.raced
               PROVE  Permitted(acted'.op, acted'.hit) /\ SameThing(acted'.meant, acted'.hit)
    BY DEF ActsOnWhatWasMeant
  <2>1. /\ acted'.op = task.op /\ acted'.hit = Located(entry) /\ acted'.meant = task.meant
        /\ acted'.raced = task.raced
    BY <1>1
  <2>2. InView(task.as, task.op) /\ SameThing(task.meant, entry.print)
    BY <1>4, <2>1 DEF EdgeInv, CheckedInView, TaskMeans
  <2>3. Permitted(task.op, Located(entry)) /\ Fingerprint(Located(entry)) = entry.print
    BY <2>2 DEF InView
  <2>4. SameThing(task.meant, Located(entry))
    BY <2>2, <2>3, PrintTells
  <2> QED
    BY <2>1, <2>3, <2>4
<1> QED
  BY <1>1, <1>3, <1>5, <1>6, <1>7, <1>8, SameFlow DEF EdgeInv

(* After the action there is no task.                                      *)
LEMMA SettleKeeps ==
  ASSUME EdgeInv, Bridge(ctl'), Fewer(ctl', ctl), task' = Idle, acted' = NoAct, UNCHANGED hints,
         FlowTypes' /\ CompletedIsVerified'
  PROVE  EdgeInv'
<1>1. ActsOnWhatWasMeant'
  BY DEF ActsOnWhatWasMeant, NoAct
<1> QED
  BY <1>1, NoTask, FewerTell DEF EdgeInv

(* A click may select the one new tab.                                     *)
LEMMA SettleClickKeeps == ASSUME EdgeInv, SettleClick PROVE EdgeInv'
<1> DEFINE b == Listed(ctl)
           new == DOMAIN b.tabs \ task.before
           v == task.verified \/ new # {}
           t == CHOOSE y \in new : TRUE
<1>1. task' = Idle /\ acted' = NoAct /\ UNCHANGED hints
  BY DEF SettleClick
<1>2. RecordStep(task.flow, v)
  BY DEF SettleClick
<1>3. ctl' = b \/ (Cardinality(new) = 1 /\ ctl' = [b EXCEPT !.selected = t])
  BY DEF SettleClick
<1>4. Bridge(b) /\ Fewer(b, ctl)
  BY ListedKeeps DEF EdgeInv
<1> HIDE DEF b
<1>5. FlowTypes' /\ CompletedIsVerified'
  <2> HIDE DEF v
  <2> QED
    BY <1>2, RecordStepKeeps
<1>6. CASE Cardinality(new) = 1 /\ ctl' = [b EXCEPT !.selected = t]
  <2>1. new # {}
    BY <1>6, FS_EmptySet
  <2>2. t \in DOMAIN b.tabs
    BY <2>1
  <2> HIDE DEF t
  <2>3. Bridge(ctl') /\ ctl'.elements = b.elements
    BY <1>4, <1>6, <2>2, SelectKeeps
  <2>4. Fewer(ctl', ctl)
    BY <1>4, <2>3 DEF Fewer
  <2> QED
    BY <1>1, <1>5, <2>3, <2>4, SettleKeeps
<1>7. CASE ctl' = b
  BY <1>1, <1>4, <1>5, <1>7, SettleKeeps
<1> QED
  BY <1>3, <1>6, <1>7

(* Every step of a click or fill keeps the invariant.                      *)
LEMMA ActionStepKeeps == ASSUME EdgeInv, ActionStep PROVE EdgeInv'
<1>1. Bridge(ctl) /\ (UNCHANGED ctl => Bridge(ctl') /\ Fewer(ctl', ctl))
  BY DEF EdgeInv, Fewer
<1>2. CASE Clicks \/ Fills
  BY <1>2, ActsOnKeeps DEF Clicks, Fills
<1>3. CASE ActionFails
  BY <1>1, <1>3, SameFlow, FewerCallKeeps DEF ActionFails
<1>4. CASE SettleFill
  BY <1>1, <1>4, RecordStepKeeps, SettleKeeps DEF SettleFill
<1>5. CASE SettleFails
  BY <1>1, <1>5, SameFlow, SettleKeeps DEF SettleFails
<1> QED
  BY <1>2, <1>3, <1>4, <1>5, PreflightKeeps, CheckElementKeeps, SettleClickKeeps DEF ActionStep

(* Pages that change, open and close, a lost connection and expiry: a      *)
(* change after the check is noted in the task.                            *)
LEMMA BrowserStepKeeps == ASSUME EdgeInv, BrowserStep PROVE EdgeInv'
<1>1. Bridge(ctl') /\ Fewer(ctl', ctl)
  <2>1. Bridge(ctl)
    BY DEF EdgeInv
  <2>2. CASE UNCHANGED ctl
    BY <2>1, <2>2 DEF Fewer
  <2>3. ASSUME NEW t \in DOMAIN ctl.tabs, TabExpires(t) PROVE Bridge(ctl') /\ Fewer(ctl', ctl)
    <3>1. ctl' = [ctl EXCEPT !.tabs[t].old = TRUE]
      BY <2>3 DEF TabExpires
    <3>2. /\ ctl'.refs = ctl.refs /\ ctl'.selected = ctl.selected /\ ctl'.elements = ctl.elements
          /\ ctl'.tabCount = ctl.tabCount /\ ctl'.tabs = [ctl.tabs EXCEPT ![t].old = TRUE]
          /\ ctl' = [tabs |-> ctl'.tabs, refs |-> ctl'.refs, selected |-> ctl'.selected,
                     elements |-> ctl'.elements, tabCount |-> ctl'.tabCount]
      BY <2>1, <3>1 DEF Bridge, BridgeTypes
    <3>3. /\ DOMAIN ctl'.tabs = DOMAIN ctl.tabs
          /\ ctl'.tabs = [s \in DOMAIN ctl'.tabs |-> ctl'.tabs[s]]
          /\ \A s \in DOMAIN ctl'.tabs :
               /\ ctl'.tabs[s].page = ctl.tabs[s].page
               /\ ctl'.tabs[s] = [page |-> ctl'.tabs[s].page, old |-> ctl'.tabs[s].old]
      <4> DEFINE u == TRUE
                 x == [ctl.tabs[t] EXCEPT !.old = u]
      <4>1. /\ \A s \in DOMAIN ctl.tabs :
                 ctl.tabs[s] = [page |-> ctl.tabs[s].page, old |-> ctl.tabs[s].old]
            /\ ctl.tabs = [s \in DOMAIN ctl.tabs |-> ctl.tabs[s]]
        BY <2>1 DEF Bridge, BridgeTypes
      <4>2. ctl'.tabs = [ctl.tabs EXCEPT ![t] = x]
        BY <3>2
      <4> HIDE DEF u
      <4>3. x.page = ctl.tabs[t].page /\ x = [page |-> x.page, old |-> x.old]
        <5>1. ctl.tabs[t] = [page |-> ctl.tabs[t].page, old |-> ctl.tabs[t].old]
          BY <4>1
        <5>2. x = [page |-> ctl.tabs[t].page, old |-> u]
          BY <5>1
        <5> HIDE DEF x
        <5> QED
          BY <5>2
      <4> HIDE DEF x
      <4> QED
        BY <4>1, <4>2, <4>3
    <3>4. BridgeTypes(ctl')
      BY <2>1, <3>2, <3>3 DEF Bridge, BridgeTypes
    <3>5. Agree(ctl')
      BY <2>1, <3>2, <3>3 DEF Bridge, Agree
    <3> QED
      BY <3>2, <3>4, <3>5 DEF Bridge, Fewer
  <2>4. ASSUME NEW e, ElementExpires(e) PROVE Bridge(ctl') /\ Fewer(ctl', ctl)
    BY <2>1, <2>4, WithoutElementsKeeps DEF ElementExpires
  <2> QED
    BY <2>2, <2>3, <2>4
    DEF BrowserStep, PageChanges, PageOpens, PageCloses, ConnectionLost
<1>2. UNCHANGED <<hints, flow, acted>>
  BY DEF BrowserStep
<1>3. TaskTypes' /\ TaskMeans' /\ CheckedInView'
  <2>1. CASE task.at = "checked"
    <3>1. task # Idle
      BY <2>1 DEF Idle
    <3>2. /\ TaskTypes' /\ task'.raced = TRUE /\ task'.as = task.as /\ task'.meant = task.meant
      BY <2>1, <3>1 DEF BrowserStep, EdgeInv, TaskTypes
    <3> QED
      BY <1>1, <3>1, <3>2 DEF EdgeInv, TaskMeans, CheckedInView, Fewer
  <2>2. CASE task.at # "checked"
    BY <1>1, <2>2 DEF BrowserStep, EdgeInv, TaskTypes, TaskMeans, CheckedInView, Fewer
  <2> QED
    BY <2>1, <2>2
<1>4. HintsTell' /\ ActsOnWhatWasMeant'
  BY <1>1, <1>2, FewerTell DEF EdgeInv, ActsOnWhatWasMeant
<1> QED
  BY <1>1, <1>2, <1>3, <1>4, SameFlow DEF EdgeInv

(* Hints and workflows expire.                                             *)
LEMMA ExpiryKeeps ==
  ASSUME EdgeInv, UNCHANGED <<pages, ctl, task, acted>>,
         \A e \in DOMAIN hints' : e \in DOMAIN hints /\ hints'[e] = hints[e],
         FlowTypes' /\ CompletedIsVerified'
  PROVE  EdgeInv'
<1>1. Bridge(ctl') /\ HintsTell'
  BY FewerTell DEF EdgeInv, Fewer
<1>2. TaskTypes' /\ TaskMeans' /\ CheckedInView' /\ ActsOnWhatWasMeant'
  BY DEF EdgeInv, TaskTypes, TaskMeans, CheckedInView, InView, Attached, Located, ActsOnWhatWasMeant
<1> QED
  BY <1>1, <1>2 DEF EdgeInv

(* The invariant holds before anything is connected.                       *)
LEMMA EdgeInitInv == EdgeInit => EdgeInv
<1> SUFFICES ASSUME EdgeInit PROVE EdgeInv
  OBVIOUS
<1>1. ctl = [NoController EXCEPT !.tabCount = 0] /\ 0 \in Nat
  BY DEF EdgeInit, NoController
<1>2. Bridge(ctl) /\ HintsTell
  BY <1>1, NothingIsKnown DEF HintsTell
<1>3. FlowTypes /\ CompletedIsVerified
  BY DEF EdgeInit, NoFlow, FlowTypes, CompletedIsVerified
<1> QED
  BY <1>2, <1>3 DEF EdgeInit, EdgeInv, Idle, NoAct, TaskTypes, TaskMeans, CheckedInView,
                    ActsOnWhatWasMeant

(* Every step preserves the invariant.                                     *)
LEMMA EdgeStep == EdgeInv /\ [EdgeNext]_edgeVars => EdgeInv'
<1> SUFFICES ASSUME EdgeInv, [EdgeNext]_edgeVars PROVE EdgeInv'
  OBVIOUS
<1>1. CASE WorkflowExpires
  <2>1. FlowTypes' /\ CompletedIsVerified'
    BY <1>1 DEF WorkflowExpires, NoFlow, FlowTypes, CompletedIsVerified
  <2> QED
    BY <1>1, <2>1, ExpiryKeeps DEF WorkflowExpires
<1>2. ASSUME NEW e, HintExpires(e) PROVE EdgeInv'
  BY <1>2, SameFlow, ExpiryKeeps DEF HintExpires, Restrict
<1>3. CASE UNCHANGED edgeVars
  BY <1>3, SameFlow, ExpiryKeeps DEF edgeVars
<1> QED
  BY <1>1, <1>2, <1>3, ControllerCallKeeps, CoordinatorCallKeeps, ActionStepKeeps, BrowserStepKeeps
  DEF EdgeNext

(* The invariant holds in every behaviour of the bridge, for all pages,    *)
(* elements and limits.                                                    *)
THEOREM EdgeInvariant == EdgeSpec => []EdgeInv
BY EdgeInitInv, EdgeStep, PTL DEF EdgeSpec

(* However many pages open, close, expire or are cut off, and in whatever  *)
(* order: references of tabs and pages are each other's inverse, and the   *)
(* selection and every element belong to a tab that has its reference      *)
(* (controller.py _purge, _ref_for_page).                                  *)
THEOREM TablesAgree == EdgeSpec => []ReferencesAgree
<1>1. EdgeInv => ReferencesAgree
  BY DEF EdgeInv, Bridge, ReferencesAgree
<1> QED
  BY <1>1, EdgeInvariant, PTL

(* For any pages and any elements on them: what is clicked or filled may   *)
(* be, and is what the caller's reference denoted or the same thing found  *)
(* again, unless the page changed after the last check (workflow.py        *)
(* _recover_element, _preflight_element).                                  *)
THEOREM MeantIsActedOn == EdgeSpec => []ActsOnWhatWasMeant
<1>1. EdgeInv => ActsOnWhatWasMeant
  BY DEF EdgeInv
<1> QED
  BY <1>1, EdgeInvariant, PTL

(* A workflow that counts as completed was verified with exactly the steps *)
(* it has, in any order of steps, verifications and expiry (workflow.py    *)
(* _record_step, verify_workflow).                                         *)
THEOREM CompletionIsVerified == EdgeSpec => []CompletedIsVerified
<1>1. EdgeInv => CompletedIsVerified
  BY DEF EdgeInv
<1> QED
  BY <1>1, EdgeInvariant, PTL

-----------------------------------------------------------------------------
(* The launcher.                                                           *)

(* While the launcher has a process, or is between the choice of a port    *)
(* and the answer there, a browser on the active port is not another's     *)
(* unless it came after the choice.                                        *)
ActiveIsOurs ==
  own.runs \/ at \in {"recheck", "launch", "wait"} =>
    stolen \/ ports[active] # "browser"

(* ensure_running has no result until it returns, and whoever is mistaken  *)
(* is so from the choice of a port to the next.                            *)
NoResultYet == at # "idle" => result = NoResult

LauncherTypes ==
  /\ ports \in [Ports -> {"nobody", "program", "browser", "ours", "silent"}]
  /\ active \in Ports /\ stolen \in BOOLEAN
  /\ own \in [port : {0} \cup Ports, runs : BOOLEAN]

LauncherInv == LauncherTypes /\ ActiveIsOurs /\ NoResultYet /\ HandsOutOurBrowser

-----------------------------------------------------------------------------

(* A set of ports that is not empty has a lowest one.                      *)
LEMMA LowestIsIn ==
  ASSUME NEW S \in SUBSET Ports, S # {}
  PROVE  Lowest(S) \in S
<1>1. IsFiniteSet(S) /\ S \subseteq Nat
  BY FS_Subset, LauncherAssumption DEF LauncherAssumption
<1>2. \E p \in S : \A q \in S : p <= q
  BY <1>1, HasLeast
<1> QED
  BY <1>2 DEF Lowest

(* The lowest port among those with a property has it.                     *)
COROLLARY LowestHasIt ==
  ASSUME NEW seen \in BOOLEAN
  PROVE  /\ LET managed == {p \in Ports : Managed(p, seen)}
            IN managed # {} => Lowest(managed) \in managed
         /\ LET usable == {p \in Ports : PortUsable(p, seen)}
            IN usable # {} => Lowest(usable) \in usable
<1>1. {p \in Ports : Managed(p, seen)} \in SUBSET Ports
  OBVIOUS
<1>2. {p \in Ports : PortUsable(p, seen)} \in SUBSET Ports
  OBVIOUS
<1> QED
  BY <1>1, <1>2, LowestIsIn

(* The port the launcher prefers is one of the candidates.                 *)
LEMMA PreferredIsPort == Preferred \in Ports
<1>1. Ports # {} /\ Ports \in SUBSET Ports
  BY LauncherAssumption DEF LauncherAssumption
<1> QED
  BY <1>1, LowestIsIn DEF Preferred, Lowest

(* The launcher begins with no process and no result.                      *)
LEMMA LauncherInitInv == LauncherInit => LauncherInv
<1> SUFFICES ASSUME LauncherInit PROVE LauncherInv
  OBVIOUS
<1>1. LauncherTypes
  BY PreferredIsPort DEF LauncherInit, LauncherTypes, NoProcess
<1>2. ActiveIsOurs /\ NoResultYet
  BY DEF LauncherInit, ActiveIsOurs, NoResultYet, NoProcess
<1>3. HandsOutOurBrowser
  BY DEF LauncherInit, HandsOutOurBrowser, NoResult
<1> QED
  BY <1>1, <1>2, <1>3 DEF LauncherInv

(* Every step of ensure_running, of the end of the program and of the      *)
(* outside preserves the invariant.                                        *)
LEMMA LauncherStep == LauncherInv /\ [LauncherNext]_launcherVars => LauncherInv'
<1> SUFFICES ASSUME LauncherInv, [LauncherNext]_launcherVars
             PROVE  LauncherInv'
  OBVIOUS
<1> USE DEF LauncherInv, LauncherTypes, ActiveIsOurs, NoResultYet, HandsOutOurBrowser,
            NoResult, NoProcess, Answers, Listens
<1>1. CASE EnsureRunning
  BY <1>1 DEF EnsureRunning
<1>2. CASE Reuse
  BY <1>2 DEF Reuse, Return
<1>3. ASSUME NEW seen \in BOOLEAN, Discover(seen) PROVE LauncherInv'
  <2> DEFINE managed == {p \in Ports : Managed(p, seen)}
  <2>1. CASE managed = {}
    BY <1>3, <2>1 DEF Discover
  <2>2. CASE managed # {}
    <3>1. PICK low \in Ports : low = Lowest(managed) /\ Managed(low, seen)
      BY <2>2, LowestHasIt
    <3>2. /\ result' = [port |-> low, verified |-> TRUE, occupant |-> ports[low]]
          /\ at' = "idle" /\ active' = low /\ stolen' = FALSE /\ UNCHANGED <<ports, own>>
      BY <1>3, <2>2, <3>1 DEF Discover, Return
    <3> QED
      BY <3>1, <3>2 DEF Managed
  <2> QED
    BY <2>1, <2>2
<1>4. ASSUME NEW seen \in BOOLEAN, Select(seen) PROVE LauncherInv'
  <2> DEFINE usable == {p \in Ports : PortUsable(p, seen)}
  <2>1. CASE usable = {}
    BY <1>4, <2>1 DEF Select
  <2>2. CASE usable # {}
    <3>1. PICK low \in Ports : low = Lowest(usable) /\ PortUsable(low, seen)
      BY <2>2, LowestHasIt
    <3>2. /\ at = "select" /\ at' = "recheck" /\ active' = low /\ stolen' = FALSE
          /\ UNCHANGED <<ports, own, result>>
      BY <1>4, <2>2, <3>1 DEF Select
    <3>3. low \in Ports /\ ports[low] # "browser"
      BY <3>1 DEF PortUsable, Managed
    <3>4. LauncherTypes'
      BY <3>2, <3>3
    <3>5. ActiveIsOurs'
      BY <3>2, <3>3
    <3>6. NoResultYet'
      BY <3>2
    <3>7. HandsOutOurBrowser'
      BY <3>2
    <3> QED
      BY <3>4, <3>5, <3>6, <3>7
  <2> QED
    BY <2>1, <2>2
<1>5. ASSUME NEW seen \in BOOLEAN, Recheck(seen) PROVE LauncherInv'
  BY <1>5 DEF Recheck
<1>6. CASE Launch
  BY <1>6 DEF Launch
<1>7. CASE LaunchFails
  BY <1>7 DEF LaunchFails
<1>8. ASSUME NEW seen \in BOOLEAN, Wait(seen) PROVE LauncherInv'
  BY <1>8 DEF Wait, Return
<1>9. CASE CloseLauncher
  BY <1>9, PreferredIsPort DEF CloseLauncher
<1>10. CASE Outside
  <2>1. ASSUME NEW p \in Ports, NEW who \in {"program", "browser"}, Takes(p, who), Outside
        PROVE LauncherInv'
    BY <2>1 DEF Takes, Outside
  <2>2. ASSUME NEW p \in Ports, Leaves(p), Outside PROVE LauncherInv'
    BY <2>2 DEF Leaves, Outside
  <2>3. ASSUME NEW p \in Ports, Awakens(p) \/ Hangs(p), Outside PROVE LauncherInv'
    BY <2>3 DEF Awakens, Hangs, Outside
  <2>4. ASSUME Exits, Outside PROVE LauncherInv'
    BY <2>4 DEF Exits, Outside
  <2> QED
    BY <1>10, <2>1, <2>2, <2>3, <2>4 DEF Outside
<1>11. CASE UNCHANGED launcherVars
  BY <1>11 DEF launcherVars
<1> QED
  BY <1>1, <1>2, <1>3, <1>4, <1>5, <1>6, <1>7, <1>8, <1>9, <1>10, <1>11 DEF LauncherNext

(* The invariant holds in every behaviour of the launcher.                 *)
THEOREM LauncherInvariant == LauncherSpec => []LauncherInv
BY LauncherInitInv, LauncherStep, PTL DEF LauncherSpec

(* Whatever runs on the candidate ports, and however often starting        *)
(* failed: tools are connected to the browser with the assistant's own     *)
(* profile, unless another came to the very port after it was chosen       *)
(* (launcher.py ensure_running).                                           *)
THEOREM OurBrowserIsHandedOut == LauncherSpec => []HandsOutOurBrowser
<1>1. LauncherInv => HandsOutOurBrowser
  BY DEF LauncherInv
<1> QED
  BY <1>1, LauncherInvariant, PTL

-----------------------------------------------------------------------------
(* UI automation.                                                          *)

(* An entry of the cache was handed out by an inspection that is not later *)
(* than the clock, expires a lifetime after it, and says what its control  *)
(* is unless that changed since.                                           *)
EntryKept(r) ==
  /\ r \in Nat /\ r <= issued
  /\ cache[r].since \in Nat /\ cache[r].since <= uiNow
  /\ cache[r].expires = cache[r].since + TTL
  /\ cache[r].control \in Controls
  /\ changed[cache[r].control] < cache[r].since => cache[r].was = desktop[cache[r].control]

CacheKept == \A r \in DOMAIN cache : EntryKept(r)

UiaInv ==
  /\ uiNow \in Nat /\ issued \in Nat
  /\ changed \in [Controls -> Int] /\ DOMAIN desktop = Controls
  /\ CacheKept /\ ActsOnWhatWasInspected

-----------------------------------------------------------------------------

(* What is left of the cache is what it was.                               *)
LEMMA LiveIsKept ==
  /\ DOMAIN Live(cache) = {r \in DOMAIN cache : uiNow < cache[r].expires}
  /\ \A r \in DOMAIN Live(cache) : Live(cache)[r] = cache[r]
BY DEF Live, Restrict

(* Resolving a reference only takes entries away.                          *)
LEMMA ResolveTakes ==
  ASSUME NEW r, ResolveControl(r)
  PROVE  DOMAIN cache' \subseteq DOMAIN cache /\ \A q \in DOMAIN cache' : cache'[q] = cache[q]
<1>1. CASE cache' = Live(cache)
  BY <1>1, LiveIsKept
<1>2. CASE cache' = Restrict(Live(cache), DOMAIN Live(cache) \ {r})
  BY <1>2, LiveIsKept DEF Restrict
<1> QED
  BY <1>1, <1>2 DEF ResolveControl

(* Entries that stay as they are keep what is said of them.                *)
LEMMA FewerAreKept ==
  ASSUME CacheKept, UNCHANGED <<issued, uiNow, changed, desktop>>,
         DOMAIN cache' \subseteq DOMAIN cache, \A q \in DOMAIN cache' : cache'[q] = cache[q]
  PROVE  CacheKept'
BY DEF CacheKept, EntryKept

(* An inspection adds entries of its own time behind those there are.      *)
LEMMA InspectKeeps ==
  ASSUME UiaInv, NEW S \in SUBSET Controls, InspectWindow(S)
  PROVE  CacheKept' /\ issued' \in Nat
<1> DEFINE n == Cardinality(S)
           new == issued + 1 .. issued + n
<1>1. n \in Nat
  BY FS_Subset, FS_CardinalityType, UiaAssumption DEF UiaAssumption
<1>2. issued \in Nat /\ uiNow \in Nat /\ TTL \in Nat /\ CacheKept
  BY UiaAssumption DEF UiaInv, UiaAssumption
<1>3. issued' = issued + n /\ UNCHANGED <<uiNow, changed, desktop>>
  BY DEF InspectWindow
<1>4. PICK order \in [1..n -> S] :
        cache' = [r \in DOMAIN Live(cache) \cup new |->
                    IF r <= issued THEN cache[r] ELSE CacheEntry(order[r - issued])]
  BY DEF InspectWindow
<1>5. ASSUME NEW r \in DOMAIN cache' PROVE EntryKept(r)'
  <2>1. CASE r \in DOMAIN Live(cache)
    <3>1. r \in DOMAIN cache /\ EntryKept(r)
      BY <2>1, <1>2, LiveIsKept DEF CacheKept
    <3>2. cache'[r] = cache[r]
      BY <3>1, <2>1, <1>4 DEF EntryKept
    <3> QED
      BY <3>1, <3>2, <1>1, <1>2, <1>3 DEF EntryKept
  <2>2. CASE r \in new
    <3>1. r \in Nat /\ r > issued /\ r <= issued + n
      BY <2>2, <1>1, <1>2
    <3>2. cache'[r] = CacheEntry(order[r - issued])
      BY <3>1, <2>2, <1>2, <1>4
    <3>3. r - issued \in 1..n
      BY <3>1, <1>1, <1>2
    <3>4. /\ cache'[r].since = uiNow /\ cache'[r].expires = uiNow + TTL
          /\ cache'[r].control \in Controls /\ cache'[r].was = desktop[cache'[r].control]
      BY <3>2, <3>3 DEF CacheEntry
    <3> QED
      BY <3>1, <3>4, <1>1, <1>2, <1>3 DEF EntryKept
  <2> QED
    BY <2>1, <2>2, <1>4
<1> QED
  BY <1>1, <1>2, <1>3, <1>5 DEF CacheKept

(* An action that happens is on a live reference: what it was judged by    *)
(* was true less than a lifetime ago.                                      *)
LEMMA ActIsInTime ==
  ASSUME UiaInv, NEW op \in Operations, NEW r, ActOnControl(op, r)
  PROVE  ActsOnWhatWasInspected'
<1>1. CASE did' = Nothing
  BY <1>1 DEF Nothing, ActsOnWhatWasInspected
<1>2. CASE /\ RefUsable(r) /\ Harmless(op, cache[r])
           /\ did' = [op |-> op, control |-> cache[r].control]
  <2> DEFINE c == cache[r].control
  <2>1. r \in DOMAIN cache /\ uiNow < cache[r].expires
    BY <1>2, LiveIsKept DEF RefUsable
  <2>2. /\ cache[r].since \in Nat /\ uiNow \in Nat /\ TTL \in Nat /\ changed[c] \in Int
        /\ cache[r].expires = cache[r].since + TTL
        /\ changed[c] < cache[r].since => cache[r].was = desktop[c]
    BY <2>1, UiaAssumption DEF UiaInv, CacheKept, EntryKept, UiaAssumption
  <2>3. did'.op = op /\ did'.control = c /\ UNCHANGED <<uiNow, changed, desktop>>
    BY <1>2 DEF ActOnControl
  <2>4. CASE changed[c] < cache[r].since
    <3>1. /\ op = "invoke" => "dangerous" \notin desktop[c]
          /\ op = "set_value" => "password" \notin desktop[c]
      BY <1>2, <2>2, <2>4 DEF Harmless
    <3> QED
      BY <2>3, <3>1 DEF ActsOnWhatWasInspected
  <2>5. CASE ~(changed[c] < cache[r].since)
    <3>1. uiNow - changed[c] < TTL
      BY <2>1, <2>2, <2>5
    <3> QED
      BY <2>3, <3>1 DEF ActsOnWhatWasInspected
  <2> QED
    BY <2>4, <2>5
<1> QED
  BY <1>1, <1>2 DEF ActOnControl

(* Nothing was inspected and nothing was done at the start.                *)
LEMMA UiaInitInv == UiaInit => UiaInv
BY UiaAssumption DEF UiaAssumption, UiaInit, UiaInv, CacheKept, ActsOnWhatWasInspected, Nothing

(* Every call and every change of the desktop preserves the invariant.     *)
LEMMA UiaStep == UiaInv /\ [UiaNext]_uiaVars => UiaInv'
<1> SUFFICES ASSUME UiaInv, [UiaNext]_uiaVars PROVE UiaInv'
  OBVIOUS
<1> USE DEF UiaInv
<1>1. did' = Nothing => ActsOnWhatWasInspected'
  BY DEF Nothing, ActsOnWhatWasInspected
<1>2. ASSUME NEW S \in Shown, InspectWindow(S) PROVE UiaInv'
  <2>1. S \in SUBSET Controls
    BY DEF Shown
  <2> QED
    BY <1>1, <1>2, <2>1, InspectKeeps DEF InspectWindow
<1>3. ASSUME NEW r \in 1..issued, GetUiElement(r) PROVE UiaInv'
  BY <1>1, <1>3, ResolveTakes, FewerAreKept DEF GetUiElement
<1>4. ASSUME NEW op \in Operations, NEW r \in 1..issued, ActOnControl(op, r) PROVE UiaInv'
  <2>1. ResolveControl(r) /\ UNCHANGED <<desktop, issued, uiNow, changed>>
    BY <1>4 DEF ActOnControl
  <2> QED
    BY <1>4, <2>1, ActIsInTime, ResolveTakes, FewerAreKept
<1>5. ASSUME NEW c \in Controls, NEW to \in Natures, Changes(c, to) PROVE UiaInv'
  BY <1>1, <1>5 DEF Changes, CacheKept, EntryKept
<1>6. CASE UiTick
  BY <1>1, <1>6 DEF UiTick, CacheKept, EntryKept
<1>7. CASE CloseUia
  BY <1>1, <1>7 DEF CloseUia, CacheKept
<1>8. CASE UNCHANGED uiaVars
  BY <1>8 DEF uiaVars, CacheKept, EntryKept, ActsOnWhatWasInspected
<1> QED
  BY <1>2, <1>3, <1>4, <1>5, <1>6, <1>7, <1>8 DEF UiaNext

(* The invariant holds in every behaviour of UI automation.                *)
THEOREM UiaInvariant == UiaSpec => []UiaInv
BY UiaInitInv, UiaStep, PTL DEF UiaSpec

(* However references expire and controls change, for any lifetime: what   *)
(* has been destructive, or a password field, for a lifetime is never      *)
(* pressed, or written (windows_uia/controller.py _resolve,                *)
(* invoke_element, set_value).                                             *)
THEOREM InspectedIsActedOn == UiaSpec => []ActsOnWhatWasInspected
<1>1. UiaInv => ActsOnWhatWasInspected
  BY DEF UiaInv
<1> QED
  BY <1>1, UiaInvariant, PTL

=============================================================================
