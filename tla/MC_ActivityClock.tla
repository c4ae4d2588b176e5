--------------------------- MODULE MC_ActivityClock ---------------------------
(* An instance of ActivityClock for TLC. *)
EXTENDS ActivityClock, TLC

CONSTANTS l1, l2

(* As registered by AutoMemory: the driver never decays, the others do;    *)
(* and one with the two times the wrong way round.                         *)
SomeConfigs == {<<0, 0>>, <<1, 2>>, <<2, 1>>}
(* The small lease may be taken in place of the large one, and not the     *)
(* other way round.                                                        *)
SmallAndLarge == l1 :> 1 @@ l2 :> 2
DMAAndInternal == l1 :> "DMA" @@ l2 :> "Internal"
=============================================================================
