---------------------------- MODULE MCAuthority ----------------------------
(* Small instances of the confirmation manager and of the plan tracker.    *)
(* They have no state in common (the registry, which calls both, is        *)
(* MCToolRegistry): a behaviour exercises one of them, the other rests.    *)
(*                                                                         *)
(* The manager: one standard and one high-risk tool.  The tracker: the     *)
(* limits of an agent's request, scaled down, and those of the fast path   *)
(* (one step, no repair).                                                  *)
EXTENDS Confirmation, PlanTracker

CONSTANTS note, event   \* a standard tool and a high-risk tool

MCTtl == [t \in {note, event} |-> IF t = note THEN 1 ELSE 2]
MCLimits ==
  {[steps |-> 3, repairs |-> 1, revisions |-> 2, same |-> 2],
   [steps |-> 1, repairs |-> 0, revisions |-> 3, same |-> 2]}

VARIABLE part   \* the one that is exercised

AuthorityInit == part \in {"manager", "tracker"} /\ ConfInit /\ PlanInit
ManagerAlone == part = "manager" /\ ConfNext /\ UNCHANGED <<part, planVars>>
TrackerAlone == part = "tracker" /\ PlanNext /\ UNCHANGED <<part, confVars>>
AuthoritySpec ==
  AuthorityInit /\ [][ManagerAlone \/ TrackerAlone]_<<part, confVars, planVars>>

=============================================================================
