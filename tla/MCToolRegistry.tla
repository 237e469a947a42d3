--------------------------- MODULE MCToolRegistry ---------------------------
(* A small instance of the registry: one ordinary and one gated high-risk  *)
(* tool, one code and two wrong answers, plans of at most two steps with   *)
(* one repair.                                                             *)
EXTENDS ToolRegistry

CONSTANTS click, event

MCFastLimits == [steps |-> 1, repairs |-> 0, revisions |-> 3, same |-> 2]
MCAgentLimits == [steps |-> 2, repairs |-> 1, revisions |-> 1, same |-> 2]
MCLimits == {MCFastLimits, MCAgentLimits}
MCTtl == [t \in {event} |-> 1]

=============================================================================
