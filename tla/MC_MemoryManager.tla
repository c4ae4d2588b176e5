-------------------------- MODULE MC_MemoryManager --------------------------
(* Instances of MemoryManager for TLC. *)
EXTENDS MemoryManager

MCCapacity == [p \in Pools |-> IF p = "psram" THEN 3 ELSE 2]
=============================================================================
