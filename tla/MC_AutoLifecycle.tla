--------------------------- MODULE MC_AutoLifecycle ---------------------------
(* An instance of AutoLifecycle for TLC. *)
EXTENDS AutoLifecycle, TLC

CONSTANTS d
Config(b, f, n) == [broker |-> b, frames |-> f, dma |-> n]
(* Without frames, with everything and two DMA blocks, without a broker. *)
SomeConfigs == {Config(TRUE, NoFrames, 0), Config(TRUE, d, 2), Config(FALSE, d, 1)}
Symmetric == Permutations(Addr)
=============================================================================
