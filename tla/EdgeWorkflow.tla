---------------------------- MODULE EdgeWorkflow ----------------------------
(***************************************************************************)
(* The coordinator above the bridge (src/src/edge_cdp/workflow.py): it     *)
(* remembers what every element it has seen was, finds an element again    *)
(* when its reference went stale, follows a new tab, and keeps the steps   *)
(* of a workflow until the whole is verified.                              *)
(*                                                                         *)
(* A click or a fill is four steps, because the pages go on changing: the  *)
(* element is found, checked by the controller, acted on, and recorded.    *)
(* One workflow is followed; others share nothing with it.                 *)
(***************************************************************************)
EXTENDS EdgeBrowser

CONSTANTS Kinds,             \* the selectors callers list with
          MaxWorkflowSteps,  \* max_workflow_steps
          MaxFlowSteps       \* bound: steps explored, at most one more than the former

ASSUME WorkflowAssumption == MaxWorkflowSteps \in 1..100 /\ MaxFlowSteps \in Nat

(* hints of EdgeBrowser is _hints: element reference -> [tab, print].      *)
VARIABLES
  flow,   \* the workflow, as its caller sees it
  task,   \* the click or fill that is under way
  acted   \* history: the element that was really acted on, until that is recorded

edgeVars == <<pages, joined, ctl, hints, changes, flow, task, acted>>

NoFlow == [status |-> "none", steps |-> <<>>, last |-> [count |-> 0, required |-> FALSE]]
Idle   == [at |-> "idle"]
NoAct  == [op |-> "none"]

EdgeInit ==
  /\ pages = [p \in Pages |-> Closed] /\ changes = 0
  /\ joined = FALSE /\ ctl = NoController
  /\ hints = <<>> /\ flow = NoFlow /\ task = Idle /\ acted = NoAct

-----------------------------------------------------------------------------
(* Recovery.  A label is the set of its words; "contains" is inclusion, so *)
(* that the empty label is contained in every other.                       *)

Similar(a, b) == a \subseteq b \/ b \subseteq a

TextScore(original, candidate, same, similar) ==
  IF original = {} THEN 0
  ELSE IF candidate = original THEN same
  ELSE IF Similar(original, candidate) THEN similar
  ELSE 0

HrefScore(o, c) ==
  IF o.href = "" THEN 0 ELSE IF c.href = o.href THEN 100 ELSE -80

ShapeScore(o, c) ==
  5 * Cardinality({i \in 1..3 : o.shape[i] # "" /\ o.shape[i] = c.shape[i]})

(* A different target counts against a candidate.                          *)
RecoveryScore(o, c, allowed) ==
  IF o.kind # c.kind \/ ~allowed THEN -1
  ELSE 20 + HrefScore(o, c) + TextScore(o.label, c.label, 70, 30)
          + TextScore(o.placeholder, c.placeholder, 60, 25) + ShapeScore(o, c)

(* _recover_element ranks what the page shows now: one candidate of at     *)
(* least 80 that leads by 15, or none.                                     *)
Recovered(b, fresh, original) ==
  LET score(e) == RecoveryScore(original, b.elements[e].print,
                                Located(b.elements[e]).allowed)
      ranked == {e \in fresh : score(e) >= 80}
  IN {e \in ranked : \A d \in ranked \ {e} : score(e) >= score(d) + 15}

(* _remember_elements.                                                     *)
Hint(b, e) == [tab |-> b.elements[e].tab, print |-> b.elements[e].print]
Remembered(b, S) == Over([e \in S |-> Hint(b, e)], hints)

-----------------------------------------------------------------------------
(* Workflows.                                                              *)

Recordable ==
  flow.status \in {"active", "verification_failed"} /\ Len(flow.steps) < MaxWorkflowSteps

(* Mutant: the status of the workflow is neither looked at nor set.        *)
RecordStepOnly(w, verified) ==
  IF w /\ flow.status # "none" /\ Len(flow.steps) < MaxWorkflowSteps
  THEN flow' = [flow EXCEPT !.steps = Append(@, verified)]
  ELSE UNCHANGED flow

(* _record_step raises for a workflow that is gone, completed or full.     *)
RecordStep(w, verified) ==
  IF w /\ Recordable
  THEN flow' = [flow EXCEPT !.steps = Append(@, verified), !.status = "active"]
  ELSE UNCHANGED flow

BeginWorkflow(t) ==
  /\ task = Idle /\ joined /\ flow = NoFlow
  /\ t # NoRef => t \in DOMAIN Purged(ctl).tabs
  /\ ctl' = Listed(IF t = NoRef THEN ctl ELSE [Purged(ctl) EXCEPT !.selected = t])
  /\ flow' = [NoFlow EXCEPT !.status = "active"]
  /\ UNCHANGED <<pages, joined, hints, task, acted>>

(* select_tab, which is a step of a workflow too.                          *)
SelectTabIn(t, w) ==
  /\ task = Idle
  /\ SelectTab(t)
  /\ IF t \in DOMAIN Purged(ctl).tabs THEN RecordStep(w, TRUE) ELSE UNCHANGED flow
  /\ UNCHANGED <<hints, task, acted>>

StepsVerified == flow.steps # <<>> /\ \A i \in DOMAIN flow.steps : flow.steps[i]

(* The checks: `page' stands for the conditions on the address, the title, *)
(* the text and the number of tabs: none asked, met or not met.  The steps *)
(* are looked at when that is asked or nothing else is.                    *)
ChecksPass(required, page) ==
  /\ required \/ page = "none" => StepsVerified
  /\ page # "unmet"

(* last is what the last successful verification looked at.                *)
VerifyWorkflow(required, page) ==
  /\ task = Idle /\ joined /\ flow.status # "none"
  /\ flow' = IF ChecksPass(required, page)
             THEN [flow EXCEPT !.status = "completed",
                               !.last = [count |-> Len(flow.steps), required |-> required]]
             ELSE [flow EXCEPT !.status = "verification_failed", !.last = NoFlow.last]
  /\ ctl' = Listed(ctl)
  /\ UNCHANGED <<pages, joined, hints, task, acted>>

(* Expired workflows and hints are purged before anything reads them.      *)
WorkflowExpires == flow' = NoFlow /\ UNCHANGED <<pages, joined, ctl, hints, task, acted>>
HintExpires(e) ==
  hints' = Restrict(hints, DOMAIN hints \ {e}) /\ UNCHANGED <<pages, joined, ctl, flow, task, acted>>

-----------------------------------------------------------------------------
(* Reading elements.                                                       *)

(* list_elements of the coordinator; find_element scores the same listing  *)
(* for its answer.                                                         *)
ListElements(t, kind) ==
  /\ task = Idle
  /\ IF PageFound(ctl, t)
     THEN LET tab == PageTab(ctl, t)
              b == ListedElements([Looked(ctl, t) EXCEPT !.selected = IF t = NoRef THEN tab ELSE @],
                                  tab, kind)
          IN /\ EnoughReferences(Looked(ctl, t), tab, kind)
             /\ ctl' = b /\ hints' = Remembered(b, ElementsOf(b, tab))
     ELSE ctl' = Looked(ctl, t) /\ UNCHANGED hints
  /\ UNCHANGED <<pages, joined, flow, task, acted>>

(* What a reference denotes after get_element: itself, or what the hint    *)
(* finds again in the tab; {} when that raises.                            *)
Denoted(b, e) ==
  LET c == Purged(Resolved(b, e))
  IN IF Resolvable(b, e) THEN [found |-> {e}, b |-> Resolved(b, e), seen |-> {e}]
     ELSE IF e \notin DOMAIN hints \/ hints[e].tab \notin DOMAIN c.tabs
     THEN [found |-> {}, b |-> IF e \in DOMAIN hints THEN c ELSE Resolved(b, e), seen |-> {}]
     ELSE LET l == ListedElements(c, hints[e].tab, hints[e].print.kind)
              fresh == ElementsOf(l, hints[e].tab)
          IN [found |-> Recovered(l, fresh, hints[e].print), b |-> l, seen |-> fresh]
CanDenote(b, e) ==
  LET c == Purged(Resolved(b, e))
  IN ~Resolvable(b, e) /\ e \in DOMAIN hints /\ hints[e].tab \in DOMAIN c.tabs =>
       EnoughReferences(c, hints[e].tab, hints[e].print.kind)

GetElement(e) ==
  /\ task = Idle /\ CanDenote(ctl, e)
  /\ LET d == Denoted(ctl, e) IN ctl' = d.b /\ hints' = Remembered(d.b, d.seen)
  /\ UNCHANGED <<pages, joined, flow, task, acted>>

-----------------------------------------------------------------------------
(* Clicking and filling.                                                   *)

Meaning(e) == IF e \in DOMAIN hints THEN hints[e].print ELSE ctl.elements[e].print

(* _preflight_element; a click first notes the tabs there are.             *)
Preflight(op, e, w) ==
  /\ task = Idle /\ (op = "click" => joined)
  /\ LET d == Denoted(IF op = "click" THEN Listed(ctl) ELSE ctl, e)
     IN /\ CanDenote(IF op = "click" THEN Listed(ctl) ELSE ctl, e)
        /\ ctl' = d.b
        /\ hints' = Remembered(d.b, d.seen)
        /\ task' = IF d.found = {} THEN Idle
                   ELSE [at |-> "found", op |-> op, meant |-> Meaning(e), raced |-> FALSE,
                         as |-> CHOOSE x \in d.found : TRUE, flow |-> w,
                         before |-> IF op = "click" THEN DOMAIN d.b.tabs ELSE {},
                         verified |-> FALSE]
  /\ UNCHANGED <<pages, joined, flow, acted>>

Permitted(op, el) ==
  el.allowed /\ IF op = "click" THEN el.kind \in {"link", "button"} ELSE el.kind = "textbox"

(* The controller resolves the reference again and asks whether it may.    *)
CheckElement ==
  /\ task.at = "found"
  /\ ctl' = Resolved(ctl, task.as)
  /\ task' = IF Resolvable(ctl, task.as)
                /\ Permitted(task.op, Located(ctl.elements[task.as]))
             THEN [task EXCEPT !.at = "checked"] ELSE Idle
  /\ UNCHANGED <<pages, joined, hints, flow, acted>>

(* What an action does to the pages: nothing, another page content, or a   *)
(* new page.  It is the page that decides.                                 *)
Consequence(p) ==
  \/ UNCHANGED pages
  \/ \E dom \in Doms : pages' = [pages EXCEPT ![p].dom = dom]
  \/ \E q \in Pages, dom \in Doms :
       /\ ~Shows(q) /\ \A t \in DOMAIN ctl.tabs : ctl.tabs[t].page # q
       /\ pages' = [pages EXCEPT ![q] = [open |-> TRUE, dom |-> dom]]

ActsOn(entry) ==
  /\ Shows(entry.page) /\ Attached(entry)
  /\ acted' = [op |-> task.op, meant |-> task.meant, hit |-> Located(entry), raced |-> task.raced]
  /\ ctl' = Cleared(ctl, entry.tab)
  /\ \E seen \in BOOLEAN :
       task' = [task EXCEPT !.at = "acted", !.verified = seen \/ pages' # pages]
  /\ UNCHANGED <<joined, hints, flow>>

(* What is seen to have changed after a click verifies it, the value read  *)
(* back a fill.                                                            *)
Clicks ==
  /\ task.at = "checked" /\ task.op = "click" /\ task.as \in DOMAIN ctl.elements
  /\ Consequence(ctl.elements[task.as].page)
  /\ ActsOn(ctl.elements[task.as])

Fills ==
  /\ task.at = "checked" /\ task.op = "fill" /\ task.as \in DOMAIN ctl.elements
  /\ UNCHANGED pages
  /\ ActsOn(ctl.elements[task.as])

(* The click or the fill raises: the element is covered, gone, too slow.   *)
ActionFails ==
  task.at = "checked" /\ task' = Idle /\ UNCHANGED <<pages, joined, ctl, hints, flow, acted>>

(* After a click the tabs are listed again; exactly one new tab becomes    *)
(* the selected one, if that is configured and succeeds, and any new tab   *)
(* is evidence.  Then the step is recorded.                                *)
SettleClick ==
  /\ task.at = "acted" /\ task.op = "click" /\ joined
  /\ LET b == Listed(ctl)
         new == DOMAIN b.tabs \ task.before
     IN /\ \/ ctl' = b
           \/ Cardinality(new) = 1 /\ ctl' = [b EXCEPT !.selected = CHOOSE t \in new : TRUE]
        /\ RecordStep(task.flow, task.verified \/ new # {})
  /\ task' = Idle /\ acted' = NoAct
  /\ UNCHANGED <<pages, joined, hints>>

SettleFill ==
  /\ task.at = "acted" /\ task.op = "fill"
  /\ RecordStep(task.flow, task.verified)
  /\ task' = Idle /\ acted' = NoAct
  /\ UNCHANGED <<pages, joined, ctl, hints>>

(* The connection is lost while the tabs are listed again: nothing is      *)
(* recorded of an action that happened.                                    *)
SettleFails ==
  /\ task.at = "acted" /\ task.op = "click" /\ ~joined
  /\ task' = Idle /\ acted' = NoAct /\ UNCHANGED <<pages, joined, ctl, hints, flow>>

-----------------------------------------------------------------------------
(* Any other reference is refused.                                        *)
TabRefs == DOMAIN ctl.tabs

ControllerCall ==
  /\ task = Idle
  /\ \/ ListTabs \/ Reconnect \/ CloseBridge
     \/ \E t \in TabRefs \cup {NoRef} : ReadPage(t)
     \/ \E t \in TabRefs : CloseTab(t)
  /\ UNCHANGED <<hints, flow, task, acted>>

CoordinatorCall ==
  \/ \E t \in TabRefs \cup {NoRef} : BeginWorkflow(t)
  \/ \E t \in TabRefs, w \in BOOLEAN : SelectTabIn(t, w)
  \/ \E required \in BOOLEAN, page \in {"none", "met", "unmet"} : VerifyWorkflow(required, page)
  \/ \E t \in TabRefs \cup {NoRef}, kind \in Kinds : ListElements(t, kind)
  \/ \E e \in DOMAIN hints \cup DOMAIN ctl.elements : GetElement(e)

ActionStep ==
  \/ \E op \in {"click", "fill"}, e \in DOMAIN hints \cup DOMAIN ctl.elements, w \in BOOLEAN :
       Preflight(op, e, w)
  \/ CheckElement \/ Clicks \/ Fills \/ ActionFails
  \/ SettleClick \/ SettleFill \/ SettleFails

(* A page that changes between the check and the action is not seen.       *)
BrowserStep ==
  /\ \/ \E p \in Pages, dom \in Doms : PageChanges(p, dom) \/ PageOpens(p, dom)
     \/ \E p \in Pages : PageCloses(p)
     \/ ConnectionLost
     \/ \E t \in DOMAIN ctl.tabs : TabExpires(t)
     \/ \E e \in DOMAIN ctl.elements : ElementExpires(e)
  /\ task' = IF task.at = "checked" THEN [task EXCEPT !.raced = TRUE] ELSE task
  /\ UNCHANGED <<hints, flow, acted>>

EdgeBounded ==
  /\ ctl'.tabCount <= MaxTabRefs /\ Len(flow'.steps) <= MaxFlowSteps
  /\ changes' <= MaxChanges

EdgeNext ==
  /\ \/ /\ ControllerCall \/ CoordinatorCall \/ ActionStep
        /\ changes' = IF pages' # pages THEN changes + 1 ELSE changes
     \/ /\ \/ BrowserStep \/ WorkflowExpires
           \/ \E e \in DOMAIN hints : HintExpires(e)
        /\ changes' = changes + 1
  /\ EdgeBounded

EdgeSpec == EdgeInit /\ [][EdgeNext]_edgeVars

-----------------------------------------------------------------------------
(* The element itself, or the one that takes its place: of its kind, with  *)
(* its target, or with its label if it has no target.  Only something with *)
(* a placeholder may have another target, if both texts are the same, or   *)
(* another label, if the placeholder is the same or both texts are similar.*)
SameThing(was, hit) ==
  LET sameHref == was.href # "" /\ hit.href = was.href
      sameLabel == hit.label = was.label
      samePlaceholder == hit.placeholder = was.placeholder
  IN /\ hit.kind = was.kind
     /\ was.href # "" => sameHref \/ (sameLabel /\ samePlaceholder /\ was.placeholder # {})
     /\ was.placeholder = {} => sameHref \/ sameLabel
     /\ \/ sameHref \/ sameLabel \/ samePlaceholder
        \/ Similar(was.label, hit.label) /\ Similar(was.placeholder, hit.placeholder)

(* An action lands on an element that may be acted on, and it is what its  *)
(* reference denoted when it was listed, or the same thing found again,    *)
(* through stale references, recovery and pages that change between the    *)
(* steps (workflow.py _recover_element, _preflight_element; controller.py  *)
(* click_element, fill_element); only a change after the last check        *)
(* escapes.                                                                *)
ActsOnWhatWasMeant ==
  acted.op # "none" /\ ~acted.raced =>
    Permitted(acted.op, acted.hit) /\ SameThing(acted.meant, acted.hit)

(* A workflow that counts as completed was verified with exactly the steps *)
(* it has, and, where that was asked, each of them was verified: nothing   *)
(* is added to it afterwards (workflow.py _record_step, verify_workflow).  *)
CompletedIsVerified ==
  flow.status = "completed" =>
    /\ flow.last.count = Len(flow.steps)
    /\ flow.last.required => StepsVerified

=============================================================================
