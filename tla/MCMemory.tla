------------------------------ MODULE MCMemory ------------------------------
(* Memory on its own, with one item of two kinds each.                     *)
EXTENDS Memory

MCKindOf(k) == IF k = "t" THEN "relation" ELSE "decision"

=============================================================================
