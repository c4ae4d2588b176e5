-------------------------- MODULE MC_MemoryBroker --------------------------
(* Instances of MemoryBroker for TLC. *)
EXTENDS MemoryBroker, TLC

MCClientOf == [h \in Handle |-> 1]
AllPSRAM == [b \in Block |-> "PSRAM"]

P(priority, minimum, hard, reclaims, decays) ==
    [priority |-> priority, minimum |-> minimum, soft |-> 1, hard |-> hard,
     reclaims |-> reclaims, decays |-> decays]
(* Clients whose importance differs once one of them was in use. *)
TasksProfiles == {P(2, 0, 0, TRUE, FALSE)}
TasksReports == {[bytes |-> 1, reclaimable |-> 2, region |-> "PSRAM"],
                 [bytes |-> 0, reclaimable |-> 0, region |-> "PSRAM"]}
Symmetry == Permutations(Task) \cup Permutations(Block)

(* A client with a floor of one byte, whose limits are lowered later and   *)
(* whose priority may become Critical.                                     *)
OneTaskProfiles == {P(2, 1, 2, TRUE, TRUE)}
OneTaskLimits == {[minimum |-> 0, soft |-> 0, hard |-> 1]}
OneTaskReports == {[bytes |-> 1, reclaimable |-> 1, region |-> "PSRAM"]}
=============================================================================
