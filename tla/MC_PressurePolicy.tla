--------------------------- MODULE MC_PressurePolicy ---------------------------
(* Instances of PressurePolicy for TLC. *)
EXTENDS PressurePolicy, TLC

CONSTANTS a1, a2, e1, e2
(* An asset and a lease of one byte, and one of each of two. *)
SmallOrLarge == [e \in Entry \cup Lease |-> IF e \in {a1, e1} THEN 1 ELSE 2]
=============================================================================
