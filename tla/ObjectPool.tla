----------------------------- MODULE ObjectPool -----------------------------
(***************************************************************************)
(* The typed object pool (src/src/NV3047_ObjectPool.h): Capacity slots in  *)
(* one block of the manager, in which objects are constructed and          *)
(* destroyed.                                                              *)
(*                                                                         *)
(* create() and destroy() call constructors and destructors, which may     *)
(* call the pool again: stack holds the calls that wait for one.  An       *)
(* object is never destroyed out of its own destructor.                    *)
(***************************************************************************)
EXTENDS Naturals, Sequences, FiniteSets

CONSTANTS
    Capacity,
    DEPTH,          \* bound on nested calls
    Reentrant       \* whether objects are also created while a constructor
                    \* or clear() is under way

ASSUME PoolConstants ==
    Capacity \in Nat \ {0} /\ DEPTH \in Nat \ {0} /\ Reentrant \in BOOLEAN

VARIABLES
    storage,        \* the block: none, the pool's own, or lost with the manager
    used,           \* used_
    used_count,     \* used_count_
    objects,        \* objects constructed in each slot and not yet destroyed
    stack           \* calls that wait for a constructor or destructor

poolVars == <<storage, used, used_count, objects, stack>>

Slot == 1 .. Capacity
Empty == [i \in Slot |-> FALSE]
storageAlive == storage = "own"

PoolInit ==
    /\ storage = "none"
    /\ used = Empty
    /\ used_count = 0
    /\ objects = [i \in Slot |-> 0]
    /\ stack = <<>>

-----------------------------------------------------------------------------
Push(call, i) == stack' = Append(stack, [call |-> call, slot |-> i])
Pop == stack' = SubSeq(stack, 1, Len(stack) - 1)
Top == stack[Len(stack)]
Waiting(calls) == \E n \in DOMAIN stack : stack[n].call \in calls
Nested == stack = <<>> \/ (Len(stack) < DEPTH)
Clears == {"clear", "end", "begin"}

(* The first free slot; it is marked only when the constructor returns. *)
create ==
    /\ storageAlive /\ Nested
    /\ Waiting({"create"} \cup Clears) => Reentrant
    /\ \E i \in Slot :
        /\ ~used[i] /\ \A j \in 1 .. i - 1 : used[j]
        /\ objects' = [objects EXCEPT ![i] = @ + 1]
        /\ Push("create", i)
    /\ UNCHANGED <<storage, used, used_count>>
createReturns ==
    /\ stack # <<>> /\ Top.call = "create"
    /\ used' = [used EXCEPT ![Top.slot] = TRUE]
    /\ used_count' = used_count + 1
    /\ Pop
    /\ UNCHANGED <<storage, objects>>

(* A slot stays marked until the destructor returns.  The variant frees it *)
(* before.                                                                 *)
Destroyable(i) ==
    used[i] /\ \A n \in DOMAIN stack : stack[n].slot = i => stack[n].call = "create"
destroy_FreesFirst ==
    /\ storageAlive /\ Nested
    /\ \E i \in Slot :
        /\ Destroyable(i) /\ Push("destroy", i)
        /\ used' = [used EXCEPT ![i] = FALSE]
    /\ UNCHANGED <<storage, used_count, objects>>
destroy ==
    /\ storageAlive /\ Nested
    /\ \E i \in Slot : Destroyable(i) /\ Push("destroy", i)
    /\ UNCHANGED <<storage, used, used_count, objects>>
Destroyed(i) ==
    /\ objects' = [objects EXCEPT ![i] = @ - 1]
    /\ used' = [used EXCEPT ![i] = FALSE]
destroyReturns ==
    /\ stack # <<>> /\ Top.call = "destroy"
    /\ Destroyed(Top.slot)
    /\ used_count' = IF used_count > 0 THEN used_count - 1 ELSE 0
    /\ Pop
    /\ UNCHANGED storage

(* clear, also for end and begin, which release the block after it: slot   *)
(* after slot, so what the destructors have destroyed by then is skipped.  *)
NextUsed(u, i, j) == i < j /\ u[j] /\ \A k \in i + 1 .. j - 1 : ~u[k]
Cleared(call) ==
    /\ used_count' = 0
    /\ CASE call = "clear" -> UNCHANGED storage
         [] call = "end" -> storage' = "none"
         [] call = "begin" -> storage' \in {"own", "none"}

clear ==
    /\ storageAlive /\ stack = <<>>
    /\ \E call \in Clears :
        IF \E j \in Slot : used[j]
        THEN /\ \E j \in Slot : NextUsed(used, 0, j) /\ Push(call, j)
             /\ UNCHANGED <<storage, used, used_count, objects>>
        ELSE Cleared(call) /\ UNCHANGED <<used, objects, stack>>
(* The variant does not run the destructors of the slots that follow. *)
clearReturns_First ==
    /\ stack # <<>> /\ Top.call \in Clears
    /\ objects' = [objects EXCEPT ![Top.slot] = @ - 1]
    /\ used' = Empty
    /\ Cleared(Top.call) /\ Pop
clearReturns ==
    /\ stack # <<>> /\ Top.call \in Clears
    /\ Destroyed(Top.slot)
    /\ IF \E j \in Slot : j > Top.slot /\ used'[j]
       THEN /\ \E j \in Slot :
                /\ NextUsed(used', Top.slot, j)
                /\ stack' = [stack EXCEPT ![Len(stack)].slot = j]
            /\ UNCHANGED <<storage, used_count>>
       ELSE Cleared(Top.call) /\ Pop

(* Without storage, begin has nothing to end and end nothing to release. *)
begin ==
    /\ ~storageAlive /\ stack = <<>>
    /\ storage' \in {"own", "none"}
    /\ used' = Empty /\ used_count' = 0
    /\ UNCHANGED <<objects, stack>>
end ==
    /\ ~storageAlive /\ stack = <<>>
    /\ storage' = "none"
    /\ used' = Empty /\ used_count' = 0
    /\ UNCHANGED <<objects, stack>>

(* The manager is ended first: the objects are gone with their memory. *)
ManagerEnds ==
    /\ storageAlive /\ stack = <<>>
    /\ storage' = "gone"
    /\ objects' = [i \in Slot |-> 0]
    /\ UNCHANGED <<used, used_count, stack>>

PoolCall ==
    \/ create \/ createReturns \/ destroy \/ destroyReturns
    \/ clear \/ clearReturns \/ begin \/ end
PoolNext == PoolCall \/ ManagerEnds
PoolSpec == PoolInit /\ [][PoolNext]_poolVars

-----------------------------------------------------------------------------
(* Every variable has its type; the counter stays within the capacity. *)
PoolTypeOK ==
    /\ storage \in {"none", "own", "gone"}
    /\ used \in [Slot -> BOOLEAN]
    /\ used_count \in 0 .. Capacity
    /\ objects \in [Slot -> Nat]
    /\ Len(stack) <= DEPTH

(* INTEGRATION_PLAN: "Every pointer has exactly one owner."  No object is  *)
(* constructed in a slot where another lives, one whose constructor or     *)
(* destructor is still running included.                                   *)
OneObjectPerSlot == \A i \in Slot : objects[i] <= 1

(* When no call is under way, the slots marked used are those with an      *)
(* object, and used() counts them.                                         *)
KnowsItsObjects ==
    storageAlive /\ stack = <<>> =>
        /\ \A i \in Slot : used[i] <=> objects[i] = 1
        /\ used_count = Cardinality({i \in Slot : used[i]})

(* The block is not released before every object in it has been destroyed.*)
NoObjectOutlivesItsBlock == ~storageAlive => \A i \in Slot : objects[i] = 0

(* The pool's books agree with the objects, to the end of the block.       *)
BooksMatchObjects == PoolTypeOK /\ KnowsItsObjects /\ NoObjectOutlivesItsBlock
=============================================================================
