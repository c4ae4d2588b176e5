--------------------------- MODULE ManagerClients ---------------------------
(***************************************************************************)
(* Buffers (ManagedBuffer) and an object pool (ObjectPool) that have their *)
(* blocks from one manager: the block that one of them releases is what    *)
(* the other is given next, and the manager's end takes away the blocks of *)
(* all.  To the buffers the pool's block is one of those of others.        *)
(***************************************************************************)
EXTENDS ManagedBuffer, ObjectPool

VARIABLE block      \* storage_ of the pool

clients == <<buffers, poolVars, block>>

ClientsInit == BuffersInit /\ PoolInit /\ block = Null

(* begin and end of the pool release its block and allocate another, which *)
(* fails without a manager and may fail with one.  A begin that is given   *)
(* the old address back is a stutter here.                                 *)
BlockFollows ==
    LET rest == IF storageAlive THEN Released(held, block) ELSE held
    IN CASE storage' = storage -> UNCHANGED <<held, block>>
         [] storage' # storage /\ storage' = "none" -> held' = rest /\ block' = Null
         [] storage' # storage /\ storage' = "own" ->
                \E x \in Addr :
                    /\ ready /\ rest[x] = "free"
                    /\ held' = [rest EXCEPT ![x] = "other"]
                    /\ block' = x
UsePool == PoolCall /\ BlockFollows /\ UNCHANGED <<ready, alive, data>>
UseBuffers == BufferCall /\ UNCHANGED <<poolVars, block>>

OthersUseManager ==
    /\ OthersAllocate \/ OthersRelease
    /\ storageAlive => held'[block] = "other"
    /\ UNCHANGED <<poolVars, block>>
(* The manager is not begun again while the pool remembers a block.        *)
ManagerStarts ==
    /\ storage # "gone"
    /\ ManagerBegins
    /\ UNCHANGED <<poolVars, block>>
ManagerEndsForAll ==
    /\ ManagerStops
    /\ IF storageAlive THEN ManagerEnds ELSE stack = <<>> /\ UNCHANGED poolVars
    /\ UNCHANGED block

ClientsNext ==
    UsePool \/ UseBuffers \/ OthersUseManager \/ ManagerStarts \/ ManagerEndsForAll
ClientsSpec == ClientsInit /\ [][ClientsNext]_clients

-----------------------------------------------------------------------------
(* INTEGRATION_PLAN: "Every pointer has exactly one owner."  While the     *)
(* pool has its block nobody else has it: no buffer points to it, and      *)
(* nobody has returned it.                                                 *)
PoolKeepsItsBlock ==
    storageAlive => held[block] = "other" /\ \A b \in Buffer : data[b] # block
=============================================================================
