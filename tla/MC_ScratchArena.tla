---------------------------- MODULE MC_ScratchArena ----------------------------
(* Instances of ScratchArena for TLC: an address has 7 bits, the arena is  *)
(* 8-aligned, and a 64-aligned address would lie behind the last one.      *)
EXTENDS ScratchArena
Powers == {4, 8, 16, 32, 64}
=============================================================================
