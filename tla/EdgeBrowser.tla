---------------------------- MODULE EdgeBrowser ----------------------------
(***************************************************************************)
(* The bridge to the running Edge (src/src/edge_cdp/controller.py): it     *)
(* hands out references for tabs and for elements of a page, and an action *)
(* on an element goes through its reference.  Playwright and the pages are *)
(* external; they change while the bridge works.                           *)
(*                                                                         *)
(* What the controller remembers is one record, so that the workflow       *)
(* coordinator, which makes several calls in a row, composes them.  Time   *)
(* is the flag `old' of a tab: its expires_at has passed.  An expired      *)
(* element is as good as gone, since every call that reads one purges      *)
(* first, so it simply disappears.                                         *)
(***************************************************************************)
EXTENDS Integers, Sequences, FiniteSets, SequencesExt, Functions

CONSTANTS
  Pages,           \* identities of page objects, 1..n in the order of the context
  Catalog,         \* the elements pages are made of
  Doms,            \* what a page may show: sequences of elements
  MaxTabRefs, MaxElementRefs, MaxChanges   \* bounds

ASSUME EdgeAssumption ==
  /\ Pages \subseteq Nat \ {0} /\ IsFiniteSet(Pages)
  /\ Doms \subseteq Seq(Catalog)
  /\ MaxTabRefs \in Nat /\ MaxElementRefs \in Nat /\ MaxChanges \in Nat

VARIABLES
  pages,   \* external: page -> [open, dom]
  joined,  \* _browser is connected
  ctl,     \* _tabs, _page_refs, _selected_ref, _elements, and the number of tab
           \* references handed out
  hints,   \* what callers remember of elements, see EdgeWorkflow
  changes  \* bound: what happened outside so far

NoRef == 0
Shows(p) == pages[p].open
OpenPages == {p \in Pages : Shows(p)}

NoController == [tabs |-> <<>>, refs |-> <<>>, selected |-> NoRef, elements |-> <<>>,
                 tabCount |-> 0]
Closed == [open |-> FALSE, dom |-> <<>>]

(* An element has a kind, the words of its label and placeholder, a target *)
(* and [tag, type, role]; all of them are in the fingerprint.  allowed,    *)
(* what _safety_for_element says, also depends on attributes that are not. *)
(* The path in the document, also part of it, is left out.                 *)
Fingerprint(e) == [kind |-> e.kind, label |-> e.label, href |-> e.href,
                   placeholder |-> e.placeholder, shape |-> e.shape]

-----------------------------------------------------------------------------
(* Tabs.                                                                   *)

DeadElements(b) == {e \in DOMAIN b.elements : ~Shows(b.elements[e].page)}
ElementsOf(b, t) == {e \in DOMAIN b.elements : b.elements[e].tab = t}
WithoutElements(b, S) == [b EXCEPT !.elements = Restrict(@, DOMAIN @ \ S)]

PurgedElements(b) == WithoutElements(b, DeadElements(b))
Cleared(b, t) == WithoutElements(b, ElementsOf(b, t))

(* Mutant: a tab that goes leaves its elements behind.                     *)
WithoutTabsOnly(b, S) ==
  [b EXCEPT !.tabs = Restrict(@, DOMAIN @ \ S),
            !.refs = Restrict(@, DOMAIN @ \ {b.tabs[t].page : t \in S}),
            !.selected = IF @ \in S THEN NoRef ELSE @]

(* A tab goes with its page reference, its elements and the selection.     *)
WithoutTabs(b, S) ==
  [WithoutElements(b, UNION {ElementsOf(b, t) : t \in S}) EXCEPT
     !.tabs = Restrict(@, DOMAIN @ \ S),
     !.refs = Restrict(@, DOMAIN @ \ {b.tabs[t].page : t \in S}),
     !.selected = IF @ \in S THEN NoRef ELSE @]

Purged(b) ==
  WithoutTabs(PurgedElements(b),
              {t \in DOMAIN b.tabs : b.tabs[t].old \/ ~Shows(b.tabs[t].page)})

(* Every open page gets its reference back, renewed, or a fresh one.       *)
Referenced(b) ==
  LET new == {p \in OpenPages : p \notin DOMAIN b.refs}
      ref(p) == b.tabCount + Cardinality({q \in new : q <= p})
      known == [p \in OpenPages |-> IF p \in new THEN ref(p) ELSE b.refs[p]]
  IN [b EXCEPT !.tabs = [t \in Range(known) |->
                            [page |-> CHOOSE p \in OpenPages : known[p] = t, old |-> FALSE]],
               !.refs = known,
               !.tabCount = @ + Cardinality(new)]

FirstTab(b) ==
  IF OpenPages = {} THEN NoRef
  ELSE b.refs[CHOOSE p \in OpenPages : \A q \in OpenPages : p <= q]

(* list_tabs; when nothing is selected the first tab becomes selected.     *)
Listed(b) ==
  LET r == Referenced(Purged(b))
  IN [r EXCEPT !.selected = IF @ = NoRef THEN FirstTab(r) ELSE @]

(* _selected_page: the tab asked for, or the selected one, or the first.   *)
PageFound(b, t) ==
  IF t # NoRef THEN t \in DOMAIN Purged(b).tabs
  ELSE Purged(b).selected # NoRef \/ (joined /\ OpenPages # {})
PageTab(b, t) ==
  IF t # NoRef THEN t
  ELSE IF Purged(b).selected # NoRef THEN Purged(b).selected ELSE Listed(b).selected
Looked(b, t) ==
  IF t # NoRef \/ Purged(b).selected # NoRef THEN Purged(b)
  ELSE IF joined THEN Listed(b) ELSE Purged(b)

-----------------------------------------------------------------------------
(* Elements.  A locator is "the n-th match of this selector in the page".  *)

Matches(dom, kind) == SelectSeq(dom, LAMBDA e : kind = "all" \/ e.kind = kind)
Attached(entry) == entry.nth \in DOMAIN Matches(pages[entry.page].dom, entry.by)
Located(entry) == Matches(pages[entry.page].dom, entry.by)[entry.nth]

(* Mutant: an element that is there is taken for the one that was listed.  *)
ResolvableByPosition(b, e) ==
  LET c == PurgedElements(b) IN e \in DOMAIN c.elements /\ Attached(c.elements[e])

(* _resolve_element: alive, attached and still with its fingerprint.       *)
Resolvable(b, e) ==
  LET c == PurgedElements(b)
  IN /\ e \in DOMAIN c.elements
     /\ Attached(c.elements[e])
     /\ Fingerprint(Located(c.elements[e])) = c.elements[e].print
Resolved(b, e) ==
  LET c == PurgedElements(b)
  IN IF Resolvable(b, e) THEN c ELSE WithoutElements(c, {e})

(* list_elements of a known tab: what the tab had is forgotten and every   *)
(* match gets a fresh reference: a random one in the code, here the next   *)
(* that nobody holds.                                                      *)
Found(b, t, kind) == Matches(pages[b.tabs[t].page].dom, kind)
Unused(b) == (1..MaxElementRefs) \ (DOMAIN b.elements \cup DOMAIN hints)
Fresh(b, t, kind) ==
  {e \in Unused(b) : Cardinality({d \in Unused(b) : d <= e}) <= Len(Found(b, t, kind))}
Entry(b, t, kind, n) ==
  [tab |-> t, page |-> b.tabs[t].page, by |-> kind, nth |-> n,
   print |-> Fingerprint(Found(b, t, kind)[n])]
Over(new, old) ==
  [x \in DOMAIN new \cup DOMAIN old |-> IF x \in DOMAIN new THEN new[x] ELSE old[x]]
ListedElements(b, t, kind) ==
  LET c == Cleared(b, t)
      fresh == Fresh(c, t, kind)
      new == [e \in fresh |-> Entry(b, t, kind, Cardinality({d \in fresh : d <= e}))]
  IN [c EXCEPT !.elements = Over(new, @)]
EnoughReferences(b, t, kind) ==
  Cardinality(Unused(Cleared(b, t))) >= Len(Found(b, t, kind))

-----------------------------------------------------------------------------
(* The calls that tools make on the controller itself.                     *)

ListTabs == joined /\ ctl' = Listed(ctl) /\ UNCHANGED <<pages, joined>>

(* get_page_info and capture_tab; also when they raise.                    *)
ReadPage(t) ==
  /\ ctl' = IF PageFound(ctl, t) /\ t = NoRef
            THEN [Looked(ctl, t) EXCEPT !.selected = PageTab(ctl, t)]
            ELSE Looked(ctl, t)
  /\ UNCHANGED <<pages, joined>>

SelectTab(t) ==
  /\ LET b == Purged(ctl)
     IN ctl' = IF t \in DOMAIN b.tabs THEN [b EXCEPT !.selected = t] ELSE b
  /\ UNCHANGED <<pages, joined>>

(* The page may refuse to close: a prompt before unload.                   *)
CloseTab(t) ==
  LET b == Purged(ctl)
  IN IF t \notin DOMAIN b.tabs THEN ctl' = b /\ UNCHANGED <<pages, joined>>
     ELSE \/ ctl' = b /\ UNCHANGED <<pages, joined>>
          \/ /\ pages' = [pages EXCEPT ![b.tabs[t].page] = Closed]
             /\ ctl' = WithoutTabs(b, {t})
             /\ UNCHANGED joined

(* status, and any call that finds the connection gone: _ensure_connection *)
(* connects again and the pages are new objects.                           *)
Reconnect ==
  /\ ~joined /\ joined' = TRUE
  /\ \E dom \in Doms : \E p \in Pages :
       /\ \A t \in DOMAIN ctl.tabs : ctl.tabs[t].page # p
       /\ pages' = [pages EXCEPT ![p] = [open |-> TRUE, dom |-> dom]]
  /\ UNCHANGED ctl

(* close() when the program ends.                                          *)
CloseBridge ==
  /\ joined' = FALSE
  /\ ctl' = [NoController EXCEPT !.tabCount = ctl.tabCount]
  /\ pages' = [p \in Pages |-> Closed]

-----------------------------------------------------------------------------
(* External: the pages and the clock.                                      *)

PageChanges(p, dom) ==
  Shows(p) /\ pages' = [pages EXCEPT ![p].dom = dom] /\ UNCHANGED <<joined, ctl>>
PageCloses(p) ==
  Shows(p) /\ pages' = [pages EXCEPT ![p] = Closed] /\ UNCHANGED <<joined, ctl>>
(* A new page object; an identity in use by an entry is not used again.    *)
PageOpens(p, dom) ==
  /\ joined /\ ~Shows(p)
  /\ \A t \in DOMAIN ctl.tabs : ctl.tabs[t].page # p
  /\ pages' = [pages EXCEPT ![p] = [open |-> TRUE, dom |-> dom]]
  /\ UNCHANGED <<joined, ctl>>
ConnectionLost ==
  /\ joined /\ joined' = FALSE
  /\ pages' = [p \in Pages |-> Closed]
  /\ UNCHANGED ctl
TabExpires(t) ==
  ~ctl.tabs[t].old /\ ctl' = [ctl EXCEPT !.tabs[t].old = TRUE] /\ UNCHANGED <<pages, joined>>
ElementExpires(e) == ctl' = WithoutElements(ctl, {e}) /\ UNCHANGED <<pages, joined>>

-----------------------------------------------------------------------------
(* What the tables of the controller have to do with each other.           *)
Agree(b) ==
  /\ \A t \in DOMAIN b.tabs : LET p == b.tabs[t].page
                              IN p \in DOMAIN b.refs /\ b.refs[p] = t
  /\ \A p \in DOMAIN b.refs : LET t == b.refs[p]
                              IN t \in DOMAIN b.tabs /\ b.tabs[t].page = p
  /\ b.selected \in DOMAIN b.tabs \cup {NoRef}
  /\ \A e \in DOMAIN b.elements :
       /\ b.elements[e].tab \in DOMAIN b.tabs
       /\ b.elements[e].page = b.tabs[b.elements[e].tab].page

(* The references of tabs and of pages are each other's inverse, and what  *)
(* is selected and every element belongs to a tab that still has its       *)
(* reference, whatever closed, expired or was cut off in the meantime      *)
(* (controller.py _purge, _ref_for_page, list_elements, close_tab).        *)
ReferencesAgree == Agree(ctl)

=============================================================================
