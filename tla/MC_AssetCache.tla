---------------------------- MODULE MC_AssetCache ----------------------------
(* An instance of AssetCache for TLC. *)
EXTENDS AssetCache, TLC
Symmetry == Permutations(Key) \cup Permutations(Block)
=============================================================================
