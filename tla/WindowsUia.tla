----------------------------- MODULE WindowsUia -----------------------------
(***************************************************************************)
(* Windows UI Automation (src/src/windows_uia/controller.py): inspecting a *)
(* window hands out references to its controls, which expire a fixed time  *)
(* after the inspection; actions go through a reference.  Whether an       *)
(* action is harmless is judged by what the control was when it was        *)
(* inspected.  The desktop is external.                                    *)
(***************************************************************************)
EXTENDS Integers, Sequences, FiniteSets, Functions

CONSTANTS
  Controls,   \* the controls of a window
  TTL,        \* element_ttl_seconds
  MaxUiRefs, MaxUiTime   \* bounds

ASSUME UiaAssumption ==
  /\ IsFiniteSet(Controls) /\ TTL \in Nat \ {0}
  /\ MaxUiRefs \in Nat /\ MaxUiTime \in Nat

VARIABLES
  desktop,   \* external: what every control is now
  cache,     \* _cache: reference -> entry
  issued,    \* references handed out so far
  uiNow,     \* the clock
  changed,   \* history: when each control last changed
  did        \* history: the action on a control in the last step

uiaVars == <<desktop, cache, issued, uiNow, changed, did>>

(* What a control is: gone, or any of destructive (or transactional) by    *)
(* its name and a password field.                                          *)
Natures == SUBSET {"dangerous", "password"} \cup {{"gone"}}
Nothing == [op |-> "none"]

UiaInit ==
  /\ desktop \in [Controls -> Natures]
  /\ cache = <<>> /\ issued = 0 /\ uiNow = 0 /\ did = Nothing
  /\ changed = [c \in Controls |-> -TTL]   \* long ago

Exists(c) == "gone" \notin desktop[c]

(* Mutant: nothing expires.                                                *)
LiveForEver(k) == k

(* _purge_expired.                                                         *)
Live(k) == Restrict(k, {r \in DOMAIN k : uiNow < k[r].expires})

(* _cache_wrapper notes the properties the control has now.                *)
CacheEntry(c) == [control |-> c, was |-> desktop[c], since |-> uiNow, expires |-> uiNow + TTL]

(* What the depth, the filters and the limit leave of a window.            *)
Shown == SUBSET {c \in Controls : Exists(c)} \ {{}}

(* inspect_window, find_elements and capture_window_context: a new         *)
(* reference for each of them; an earlier one to the same control stays.   *)
InspectWindow(S) ==
  /\ issued + Cardinality(S) <= MaxUiRefs
  /\ \E order \in [1..Cardinality(S) -> S] :
       /\ Range(order) = S
       /\ cache' = [r \in DOMAIN Live(cache) \cup (issued + 1 .. issued + Cardinality(S)) |->
                      IF r <= issued THEN cache[r] ELSE CacheEntry(order[r - issued])]
  /\ issued' = issued + Cardinality(S)
  /\ did' = Nothing /\ UNCHANGED <<desktop, uiNow, changed>>

(* _resolve: the reference is alive.  A control that is known to be gone   *)
(* loses it; one that cannot tell whether it exists counts as existing.    *)
RefUsable(r) == r \in DOMAIN Live(cache) /\ Exists(Live(cache)[r].control)
ResolveControl(r) ==
  \/ cache' = Live(cache)
  \/ ~RefUsable(r) /\ cache' = Restrict(Live(cache), DOMAIN Live(cache) \ {r})

GetUiElement(r) == ResolveControl(r) /\ did' = Nothing /\ UNCHANGED <<desktop, issued, uiNow, changed>>

Harmless(op, entry) ==
  CASE op = "invoke"    -> "dangerous" \notin entry.was
    [] op = "set_value" -> "password" \notin entry.was
    [] OTHER            -> TRUE

(* focus_element, invoke_element, set_value, toggle_element and            *)
(* select_element.  A control that is gone or lacks the pattern raises.     *)
ActOnControl(op, r) ==
  /\ ResolveControl(r)
  /\ \/ /\ RefUsable(r) /\ Harmless(op, cache[r])
        /\ did' = [op |-> op, control |-> cache[r].control]
     \/ did' = Nothing
  /\ UNCHANGED <<desktop, issued, uiNow, changed>>

CloseUia == cache' = <<>> /\ did' = Nothing /\ UNCHANGED <<desktop, issued, uiNow, changed>>

(* External: a control changes, goes or comes, and time passes.            *)
Changes(c, to) ==
  /\ desktop[c] # to /\ desktop' = [desktop EXCEPT ![c] = to]
  /\ changed' = [changed EXCEPT ![c] = uiNow]
  /\ did' = Nothing /\ UNCHANGED <<cache, issued, uiNow>>
UiTick ==
  uiNow < MaxUiTime /\ uiNow' = uiNow + 1 /\ did' = Nothing /\ UNCHANGED <<desktop, cache, issued, changed>>

(* The others: focus_element, toggle_element and select_element.           *)
Operations == {"invoke", "set_value", "other"}

UiaNext ==
  \/ \E S \in Shown : InspectWindow(S)
  \/ \E r \in 1..issued : GetUiElement(r)
  \/ \E op \in Operations, r \in 1..issued : ActOnControl(op, r)
  \/ \E c \in Controls, to \in Natures : Changes(c, to)
  \/ UiTick \/ CloseUia

UiaSpec == UiaInit /\ [][UiaNext]_uiaVars

-----------------------------------------------------------------------------
(* What is judged is what a control was when it was inspected, and that    *)
(* may be out of date by less than a lifetime: a control that has been     *)
(* destructive, or a password field, for as long as references live is     *)
(* never pressed, or written, through any of them, in whatever order       *)
(* controls were inspected, changed and expired                            *)
(* (windows_uia/controller.py _cache_wrapper, _purge_expired, _resolve,    *)
(* invoke_element, set_value).                                             *)
ActsOnWhatWasInspected ==
  did.op # "none" =>
    \/ uiNow - changed[did.control] < TTL
    \/ /\ did.op = "invoke" => "dangerous" \notin desktop[did.control]
       /\ did.op = "set_value" => "password" \notin desktop[did.control]

=============================================================================
