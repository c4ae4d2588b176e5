------------------------ MODULE MemoryManager_proofs ------------------------
(* Proofs about MemoryManager, for any number of tasks, addresses, records  *)
(* and sizes and any configuration.                                         *)
EXTENDS MemoryManager, Sums_proofs

(* An order built by allocate() is well formed. *)
LEMMA OrderForType ==
    ASSUME NEW n \in Sizes, NEW p \in AllPurposes, NEW g \in Tags \cup {NoTag}
    PROVE  /\ OrderFor(n, p, g) \in Order
           /\ OrderFor(n, p, g).bytes = n
           /\ n \in Nat /\ n > 0
<1>1. n \in Nat /\ n > 0
    BY SizeAssumption
<1>2. MayFallBack(p) \in BOOLEAN
    BY Zenon DEF MayFallBack
<1>3. chooseRegion(n, p) \in Region
    BY DEF chooseRegion, Region, AllPurposes
<1> QED
    BY <1>1, <1>2, <1>3 DEF OrderFor, Order, Region

(* A task without a call has an order of no bytes.                         *)
LEMMA NoOrderType == NoOrder \in Order /\ NoOrder.bytes = 0
BY DEF NoOrder, Order, Region, AllPurposes

(* Every address is in a pool (poolForPointer).                            *)
LEMMA PoolOfType == \A a : PoolOf(a) \in Pools
BY DEF PoolOf, Pools

(* The three ways a call's local state changes keep their types. *)
LEMMA ReturnType ==
    ASSUME TypeOK, NEW t \in Task, Return(t)
    PROVE  /\ pc' = [pc EXCEPT ![t] = "idle"]
           /\ op' = [op EXCEPT ![t] = "none"]
           /\ TypeOK!8' /\ TypeOK!9' /\ TypeOK!10' /\ TypeOK!11' /\ TypeOK!12'
BY NoOrderType DEF TypeOK, Return, Call, Goto

(* An allocation that the budget or the heap refuses keeps every type.     *)
LEMMA RefusedType ==
    ASSUME TypeOK, NEW t \in Task, Refused(t)
    PROVE  TypeOK!8' /\ TypeOK!9' /\ TypeOK!10' /\ TypeOK!11' /\ TypeOK!12'
<1>1. CASE Return(t)
    BY <1>1, ReturnType
<1>2. CASE ~Return(t)
  <2>1. order[t] \in Order
      BY DEF TypeOK
  <2>2. [order[t] EXCEPT !.fallback = FALSE, !.region = OtherRegion(@)] \in Order
      BY <2>1 DEF Order, OtherRegion, Region
  <2> QED
      BY <1>2, <2>2 DEF TypeOK, Refused, Goto
<1> QED
    BY <1>1, <1>2

(* The last step of a call, which returns its block, keeps the types.      *)
LEMMA FinishType ==
    ASSUME TypeOK, NEW t \in Task, Finish(t)
    PROVE  TypeOK!8' /\ TypeOK!9' /\ TypeOK!10' /\ TypeOK!11' /\ TypeOK!12'
<1>1. CASE Looping(t)
    BY <1>1 DEF TypeOK, Finish, Goto
<1>2. CASE ~Looping(t)
    BY <1>2, ReturnType DEF Finish
<1> QED
    BY <1>1, <1>2

(* Freeing a block keeps the types of the heap and of the scratch handle.  *)
LEMMA GiveBackType ==
    ASSUME TypeOK, NEW a \in Addr, GiveBack(a)
    PROVE  heap' \in [Addr -> Nat] /\ free' \in [Pools -> Nat]
<1>1. heap[a] \in Nat /\ free[PoolOf(a)] \in Nat /\ PoolOf(a) \in Pools
    BY PoolOfType DEF TypeOK
<1> QED
    BY <1>1 DEF TypeOK, GiveBack

(* untrack() keeps the types of the table and of the counters.             *)
LEMMA UntrackType ==
    ASSUME TypeOK, NEW s \in Slot, table[s] # Vacant, untrack(s)
    PROVE  /\ table' \in [Slot -> Record \cup {Vacant}]
           /\ trackedBytes' \in Nat
           /\ active' \in Nat
<1>1. table[s] \in Record
    BY DEF TypeOK
<1>2. table[s].bytes \in Nat
    BY <1>1 DEF Record
<1>3. table' \in [Slot -> Record \cup {Vacant}]
    BY DEF TypeOK, untrack
<1>4. trackedBytes' \in Nat
    BY <1>2 DEF TypeOK, untrack
<1>5. active' \in Nat
    BY DEF TypeOK, untrack
<1> QED
    BY <1>3, <1>4, <1>5
-----------------------------------------------------------------------------
(* Each group of variables keeps its type. *)
LocalsTyped ==
    /\ pc \in [Task -> {"idle", "check", "take", "track", "pick", "drop",
                        "free", "close"}]
    /\ op \in [Task -> {"none", "allocate", "reallocate", "release",
                        "releaseTag", "releaseAll", "begin", "end"}]
    /\ order \in [Task -> Order]
    /\ ptr \in [Task -> Addr \cup {NoAddr}]
    /\ old \in [Task -> Addr \cup {NoAddr}]

(* Starting a call keeps every type.                                       *)
LEMMA StartType ==
    ASSUME TypeOK, NEW t \in Task, Start(t)
    PROVE  TypeOK'
<1>1. CASE Allocate(t)
  <2>1. PICK n \in Sizes, p \in Purposes, g \in Tags \cup {NoTag} :
            order' = [order EXCEPT ![t] = OrderFor(n, p, g)]
      BY <1>1 DEF Allocate
  <2>2. OrderFor(n, p, g) \in Order
      BY OrderForType, PurposeAssumption DEF AllPurposes
  <2> QED
      BY <1>1, <2>1, <2>2
      DEF TypeOK, Allocate, Call, Goto, heapVars, tableVars
<1>2. CASE AllocateFixed(t)
  <2>1. PICK n \in Sizes, g \in Tags \cup {NoTag}, p \in {"DMA", "Control"} \cap Purposes :
            order' = [order EXCEPT ![t] =
              [bytes |-> n, purpose |-> p, tag |-> g, fallback |-> FALSE,
               region |-> IF p = "DMA" THEN "DMA" ELSE "Internal"]]
      BY <1>2 DEF AllocateFixed
  <2>2. [bytes |-> n, purpose |-> p, tag |-> g, fallback |-> FALSE,
         region |-> IF p = "DMA" THEN "DMA" ELSE "Internal"] \in Order
      BY SizeAssumption DEF Order, Region, AllPurposes
  <2> QED
      BY <1>2, <2>1, <2>2
      DEF TypeOK, AllocateFixed, Call, Goto, heapVars, tableVars
<1>3. CASE AllocateIn(t)
  <2>1. PICK n \in Sizes, g \in Tags \cup {NoTag}, r \in Region, f \in BOOLEAN :
            order' = [order EXCEPT ![t] =
              [bytes |-> n, purpose |-> "General", tag |-> g, fallback |-> f,
               region |-> r]]
      BY <1>3 DEF AllocateIn
  <2>2. [bytes |-> n, purpose |-> "General", tag |-> g, fallback |-> f,
         region |-> r] \in Order
      BY SizeAssumption DEF Order, AllPurposes
  <2> QED
      BY <1>3, <2>1, <2>2
      DEF TypeOK, AllocateIn, Call, Goto, heapVars, tableVars
<1>4. CASE Reallocate(t)
  <2>1. PICK s \in Slot, n \in Sizes, p \in AllPurposes, g \in Tags \cup {NoTag} :
            /\ table[s] # Vacant
            /\ old' = [old EXCEPT ![t] = table[s].ptr]
            /\ order' = [order EXCEPT ![t] = OrderFor(n, p, g)]
    <3>1. PICK s \in Slot, n \in Sizes, p \in Purposes \cup {"General"},
               g \in Tags \cup {NoTag} :
            /\ table[s] # Vacant
            /\ old' = [old EXCEPT ![t] = table[s].ptr]
            /\ order' = [order EXCEPT ![t] =
                 OrderFor(n, IF p = "General" THEN table[s].purpose ELSE p,
                             IF g = NoTag THEN table[s].tag ELSE g)]
        BY <1>4 DEF Reallocate
    <3>2. table[s] \in Record
        BY <3>1 DEF TypeOK
    <3>3. /\ (IF p = "General" THEN table[s].purpose ELSE p) \in AllPurposes
          /\ (IF g = NoTag THEN table[s].tag ELSE g) \in Tags \cup {NoTag}
        BY <3>2, PurposeAssumption DEF Record, AllPurposes
    <3> QED
        BY <3>1, <3>3
  <2>2. OrderFor(n, p, g) \in Order
      BY OrderForType
  <2>3. table[s].ptr \in Addr
      BY <2>1 DEF TypeOK, Record
  <2> QED
      BY <1>4, <2>1, <2>2, <2>3
      DEF TypeOK, Reallocate, Call, Goto, heapVars, tableVars
<1>5. CASE Release(t)
    BY <1>5 DEF TypeOK, Release, Call, Goto, heapVars, tableVars
<1>6. CASE ReleaseTag(t)
  <2>1. \A g \in Tags : [NoOrder EXCEPT !.tag = g] \in Order
      BY NoOrderType DEF Order
  <2> QED
      BY <1>6, <2>1 DEF TypeOK, ReleaseTag, Call, Goto, heapVars, tableVars
<1>7. CASE ReleaseAll(t)
    BY <1>7 DEF TypeOK, ReleaseAll, Call, Goto, heapVars, tableVars
<1>8. CASE Begin(t)
  <2>1. ScratchOrder \in Order
    <3>1. (AllowFallback /\ AllowScratchFallback) \in BOOLEAN
        BY Zenon
    <3> QED
        BY <3>1, ConfigAssumption DEF ScratchOrder, Order, Region, AllPurposes
  <2>2. \/ UNCHANGED <<pc, op, order>>
        \/ /\ Call(t, "begin", "check")
           /\ order' = [order EXCEPT ![t] = ScratchOrder]
      BY <1>8 DEF Begin
  <2>3. LocalsTyped'
      BY <1>8, <2>1, <2>2 DEF TypeOK, LocalsTyped, Begin, Call, Goto
  <2>4. /\ ready' = TRUE /\ scratch' = NoAddr
        /\ table' = [s \in Slot |-> Vacant]
        /\ trackedBytes' = 0 /\ active' = 0
        /\ UNCHANGED <<heap, free>>
      BY <1>8 DEF Begin, heapVars
  <2> QED
      BY <2>3, <2>4 DEF TypeOK, LocalsTyped
<1>9. CASE End(t)
    BY <1>9 DEF TypeOK, End, Call, Goto, heapVars, tableVars
<1> QED
    BY <1>1, <1>2, <1>3, <1>4, <1>5, <1>6, <1>7, <1>8, <1>9 DEF Start
(* What a task holds is an address (ptr is nullptr otherwise). *)
HoldsAddr == \A t \in Task : Holding(t) => ptr[t] \in Addr

(* A step of a running call keeps every type.                              *)
LEMMA StepType ==
    ASSUME TypeOK, HoldsAddr, NEW t \in Task, Step(t)
    PROVE  TypeOK'
<1>1. CASE Check(t)
  <2>1. LocalsTyped'
    <3>1. CASE Goto(t, "take") /\ UNCHANGED <<op, order, ptr, old>>
        BY <3>1 DEF TypeOK, LocalsTyped, Goto
    <3>2. CASE Refused(t)
        BY <3>2, RefusedType DEF LocalsTyped
    <3> QED
        BY <1>1, <3>1, <3>2 DEF Check
  <2> QED
      BY <1>1, <2>1 DEF TypeOK, LocalsTyped, Check, heapVars, tableVars
<1>2. CASE Take(t)
  <2>1. PICK a \in Addr :
          /\ order[t].bytes <= free[PoolOf(a)]
          /\ heap' = [heap EXCEPT ![a] = order[t].bytes]
          /\ free' = [free EXCEPT ![PoolOf(a)] = @ - order[t].bytes]
          /\ IF op[t] = "begin"
             THEN scratch' = a /\ Return(t)
             ELSE /\ ptr' = [ptr EXCEPT ![t] = a]
                  /\ Goto(t, "track")
                  /\ UNCHANGED <<scratch, op, order, old>>
      BY <1>2 DEF Take
  <2>2. order[t].bytes \in Nat /\ PoolOf(a) \in Pools /\ free[PoolOf(a)] \in Nat
      BY PoolOfType DEF TypeOK, Order
  <2>3. heap' \in [Addr -> Nat] /\ free' \in [Pools -> Nat]
      BY <2>1, <2>2 DEF TypeOK
  <2>4. LocalsTyped' /\ scratch' \in Addr \cup {NoAddr}
    <3>1. CASE op[t] = "begin"
        BY <2>1, <3>1, ReturnType DEF LocalsTyped
    <3>2. CASE op[t] # "begin"
        BY <2>1, <3>2 DEF TypeOK, LocalsTyped, Goto
    <3> QED
        BY <3>1, <3>2
  <2> QED
      BY <1>2, <2>3, <2>4 DEF TypeOK, LocalsTyped, Take, tableVars
<1>3. CASE TakeFails(t)
    BY <1>3, RefusedType DEF TypeOK, TakeFails, heapVars, tableVars
<1>4. CASE Track(t)
  <2>1. PICK s \in Slot : trackAllocation(t, s)
      BY <1>4 DEF Track
  <2>2. ptr[t] \in Addr
      BY <1>4 DEF Track, HoldsAddr, Holding
  <2>3. s \in Slot /\ order[t] \in Order
      BY DEF TypeOK
  <2>4. [ptr |-> ptr[t], bytes |-> order[t].bytes, region |-> order[t].region,
         purpose |-> order[t].purpose, tag |-> order[t].tag] \in Record
      BY <2>2, <2>3 DEF Record, Order
  <2>5. /\ table' \in [Slot -> Record \cup {Vacant}]
        /\ trackedBytes' \in Nat
        /\ active' \in Nat
      BY <2>1, <2>3, <2>4 DEF TypeOK, trackAllocation, Order
  <2>6. LocalsTyped'
    <3>1. CASE op[t] = "reallocate"
        BY <1>4, <3>1 DEF TypeOK, LocalsTyped, Track, Goto
    <3>2. CASE op[t] # "reallocate"
        BY <1>4, <3>2, ReturnType DEF LocalsTyped, Track
    <3> QED
        BY <3>1, <3>2
  <2> QED
      BY <1>4, <2>5, <2>6 DEF TypeOK, LocalsTyped, Track, heapVars
<1>5. CASE TrackFails(t)
    BY <1>5 DEF TypeOK, TrackFails, Goto, heapVars, tableVars
<1>6. CASE Pick(t)
  <2>1. LocalsTyped'
    <3>1. CASE \E s \in Slot :
                  /\ IsFirst(s, {r \in Slot : Wanted(t, r)})
                  /\ ptr' = [ptr EXCEPT ![t] = table[s].ptr]
                  /\ Goto(t, "drop")
                  /\ UNCHANGED <<op, order, old>>
      <4>1. PICK s \in Slot :
                  /\ table[s] # Vacant
                  /\ ptr' = [ptr EXCEPT ![t] = table[s].ptr]
                  /\ Goto(t, "drop")
                  /\ UNCHANGED <<op, order, old>>
          BY <3>1 DEF IsFirst, Wanted
      <4>2. table[s].ptr \in Addr
          BY <4>1 DEF TypeOK, Record
      <4> QED
          BY <4>1, <4>2 DEF TypeOK, LocalsTyped, Goto
    <3>2. CASE Goto(t, "close") /\ UNCHANGED <<op, order, ptr, old>>
        BY <3>2 DEF TypeOK, LocalsTyped, Goto
    <3>3. CASE Return(t)
        BY <3>3, ReturnType DEF LocalsTyped
    <3> QED
        BY <1>6, <3>1, <3>2, <3>3 DEF Pick
  <2> QED
      BY <1>6, <2>1 DEF TypeOK, LocalsTyped, Pick, heapVars, tableVars
<1>7. CASE Drop(t)
  <2>1. CASE /\ \E s \in Slot : FindRecord(s, ptr[t]) /\ untrack(s)
             /\ Goto(t, "free")
             /\ UNCHANGED <<op, order, ptr, old>>
    <3>1. PICK s \in Slot : table[s] # Vacant /\ untrack(s)
        BY <2>1 DEF FindRecord, IsFirst
    <3>2. /\ table' \in [Slot -> Record \cup {Vacant}]
          /\ trackedBytes' \in Nat
          /\ active' \in Nat
        BY <3>1, UntrackType
    <3> QED
        BY <1>7, <2>1, <3>2 DEF TypeOK, Drop, Goto, heapVars
  <2>2. CASE Finish(t) /\ UNCHANGED tableVars
      BY <1>7, <2>2, FinishType DEF TypeOK, Drop, heapVars, tableVars
  <2> QED
      BY <1>7, <2>1, <2>2 DEF Drop
<1>8. CASE Free(t)
  <2>1. ptr[t] \in Addr
      BY <1>8 DEF Free, HoldsAddr, Holding
  <2>2. heap' \in [Addr -> Nat] /\ free' \in [Pools -> Nat]
      BY <1>8, <2>1, GiveBackType DEF Free
  <2>3. LocalsTyped'
      BY <1>8, FinishType DEF Free, LocalsTyped
  <2> QED
      BY <1>8, <2>2, <2>3 DEF TypeOK, LocalsTyped, Free, tableVars
<1>9. CASE Close(t)
  <2>1. heap' \in [Addr -> Nat] /\ free' \in [Pools -> Nat]
    <3>1. CASE scratch = NoAddr
        BY <1>9, <3>1 DEF Close, heapVars, TypeOK
    <3>2. CASE scratch # NoAddr
        BY <1>9, <3>2, GiveBackType DEF Close, TypeOK
    <3> QED
        BY <3>1, <3>2
  <2>2. LocalsTyped'
      BY <1>9, ReturnType DEF Close, LocalsTyped
  <2> QED
      BY <1>9, <2>1, <2>2 DEF TypeOK, LocalsTyped, Close, tableVars
<1> QED
    BY <1>1, <1>2, <1>3, <1>4, <1>5, <1>6, <1>7, <1>8, <1>9 DEF Step
-----------------------------------------------------------------------------
(* Ownership.  The inductive invariant adds to the three safety invariants  *)
(* that an allocation in flight asks for some bytes, and that the block a   *)
(* task is about to track has the size it asked for.                        *)
InFlight ==
    \A t \in Task :
        /\ pc[t] \in {"check", "take", "track"} => order[t].bytes > 0
        /\ pc[t] = "track" => heap[ptr[t]] = order[t].bytes

Ownership == /\ TypeOK
             /\ TrackedIsLive
             /\ HeldIsExclusive
             /\ ScratchIsSafe
             /\ ForeignUntouched
             /\ InFlight

(* A step of t leaves the locals of the other tasks alone. *)
OthersKeep(t) ==
    \A u \in Task \ {t} : /\ pc'[u] = pc[u]
                          /\ op'[u] = op[u]
                          /\ order'[u] = order[u]
                          /\ ptr'[u] = ptr[u]

(* A return changes the state of the returning call only.                  *)
LEMMA ReturnLocal ==
    ASSUME TypeOK, NEW t \in Task, Return(t)
    PROVE  OthersKeep(t) /\ pc'[t] = "idle" /\ op'[t] = "none"
BY DEF TypeOK, OthersKeep, Return, Call, Goto

(* A refusal changes the state of the refused call only.                   *)
LEMMA RefusedLocal ==
    ASSUME TypeOK, NEW t \in Task, Refused(t)
    PROVE  /\ OthersKeep(t)
           /\ \/ pc'[t] = "idle" /\ op'[t] = "none"
              \/ /\ pc'[t] = "check" /\ op'[t] = op[t]
                 /\ order'[t].bytes = order[t].bytes
<1>1. CASE Return(t)
    BY <1>1, ReturnLocal
<1>2. CASE ~Return(t)
  <2>1. PICK o \in Order : order' = [order EXCEPT ![t] = o]
                           /\ o.bytes = order[t].bytes
    <3>1. order[t] \in Order
        BY DEF TypeOK
    <3>2. /\ [order[t] EXCEPT !.fallback = FALSE, !.region = OtherRegion(@)] \in Order
          /\ [order[t] EXCEPT !.fallback = FALSE, !.region = OtherRegion(@)].bytes
                = order[t].bytes
        BY <3>1 DEF Order, OtherRegion, Region
    <3> QED
        BY <1>2, <3>2 DEF Refused
  <2> QED
      BY <1>2, <2>1 DEF TypeOK, Refused, Goto, OthersKeep
<1> QED
    BY <1>1, <1>2

(* Finishing a call changes the state of that call only.                   *)
LEMMA FinishLocal ==
    ASSUME TypeOK, NEW t \in Task, Finish(t)
    PROVE  /\ OthersKeep(t)
           /\ \/ pc'[t] = "idle" /\ op'[t] = "none"
              \/ pc'[t] = "pick" /\ op'[t] = op[t] /\ Looping(t)
<1>1. CASE Return(t)
    BY <1>1, ReturnLocal
<1>2. CASE ~Return(t)
    BY <1>2 DEF TypeOK, Finish, Goto, OthersKeep
<1> QED
    BY <1>1, <1>2

(* A step that moves no block and leaves t with none in its hands. *)
Quiet(t) == /\ UNCHANGED <<heap, table, scratch>>
            /\ OthersKeep(t)
            /\ pc'[t] \notin {"track", "free"}
            /\ pc'[t] \in {"check", "take"} => order'[t].bytes > 0

(* A step that moves no block keeps the ownership of all of them.          *)
LEMMA QuietKeepsOwnership ==
    ASSUME Ownership, TypeOK', NEW t \in Task, ~Holding(t), Quiet(t)
    PROVE  Ownership'
<1>1. TrackedIsLive' /\ ScratchIsSafe' /\ ForeignUntouched'
    BY DEF Ownership, TrackedIsLive, ScratchIsSafe, ForeignUntouched, Tracked,
           Quiet
<1>2. \A u \in Task : Holding(u)' => u # t /\ Holding(u) /\ ptr'[u] = ptr[u]
    BY DEF Quiet, OthersKeep, Holding
<1>3. HeldIsExclusive'
    BY <1>2 DEF Ownership, HeldIsExclusive, Tracked, Quiet
<1>4. InFlight'
    BY DEF Ownership, InFlight, Quiet, OthersKeep
<1> QED
    BY <1>1, <1>3, <1>4 DEF Ownership

(* Starting a call moves no block, except that begin() empties the table.   *)
LEMMA StartIsQuiet ==
    ASSUME Ownership, NEW t \in Task, Start(t), ~Begin(t)
    PROVE  Quiet(t) /\ ~Holding(t)
<1> USE DEF Ownership
<1>0. ~Holding(t)
    BY DEF Start, Begin, Holding, CanCall, Allocate, AllocateFixed, AllocateIn,
           Reallocate, Release, ReleaseTag, ReleaseAll, End
<1>1. CASE Allocate(t)
  <2>1. PICK n \in Sizes, p \in Purposes, g \in Tags \cup {NoTag} :
            order' = [order EXCEPT ![t] = OrderFor(n, p, g)]
      BY <1>1 DEF Allocate
  <2>2. OrderFor(n, p, g).bytes > 0
      BY OrderForType, PurposeAssumption DEF AllPurposes
  <2> QED
      BY <1>0, <1>1, <2>1, <2>2
      DEF TypeOK, Allocate, Call, Goto, heapVars, tableVars, Quiet, OthersKeep
<1>2. CASE AllocateFixed(t)
    BY <1>0, <1>2, SizeAssumption
    DEF TypeOK, AllocateFixed, Call, Goto, heapVars, tableVars, Quiet, OthersKeep
<1>3. CASE AllocateIn(t)
    BY <1>0, <1>3, SizeAssumption
    DEF TypeOK, AllocateIn, Call, Goto, heapVars, tableVars, Quiet, OthersKeep
<1>4. CASE Reallocate(t)
  <2>1. PICK n \in Sizes :
            \E p, g : order' = [order EXCEPT ![t] = OrderFor(n, p, g)]
      BY <1>4 DEF Reallocate
  <2>2. PICK p, g : order' = [order EXCEPT ![t] = OrderFor(n, p, g)]
      BY <2>1
  <2>3. OrderFor(n, p, g).bytes > 0
      BY SizeAssumption DEF OrderFor
  <2> QED
      BY <1>0, <1>4, <2>2, <2>3
      DEF TypeOK, Reallocate, Call, Goto, heapVars, tableVars, Quiet, OthersKeep
<1>5. CASE Release(t)
    BY <1>0, <1>5
    DEF TypeOK, Release, Call, Goto, heapVars, tableVars, Quiet, OthersKeep
<1>6. CASE ReleaseTag(t)
    BY <1>0, <1>6
    DEF TypeOK, ReleaseTag, Call, Goto, heapVars, tableVars, Quiet, OthersKeep
<1>7. CASE ReleaseAll(t)
    BY <1>0, <1>7
    DEF TypeOK, ReleaseAll, Call, Goto, heapVars, tableVars, Quiet, OthersKeep
<1>8. CASE End(t)
    BY <1>0, <1>8
    DEF TypeOK, End, Call, Goto, heapVars, tableVars, Quiet, OthersKeep
<1> QED
    BY <1>0, <1>1, <1>2, <1>3, <1>4, <1>5, <1>6, <1>7, <1>8 DEF Start

(* No step of allocate, reallocate, release, releaseTag, releaseAll or     *)
(* end, taken between any steps of other calls, makes two owners of a      *)
(* block.                                                                  *)
LEMMA StepKeepsOwnership ==
    ASSUME Ownership, NEW t \in Task, Step(t)
    PROVE  Ownership'
<1> USE DEF Ownership
<1>h. HoldsAddr
    BY DEF HoldsAddr, HeldIsExclusive
<1>t. TypeOK'
    BY <1>h, StepType
<1>1. CASE Check(t)
  <2>1. CASE Goto(t, "take") /\ UNCHANGED <<op, order, ptr, old>>
      BY <1>1, <1>t, <2>1, QuietKeepsOwnership
      DEF TypeOK, Check, Goto, heapVars, tableVars, Quiet, OthersKeep,
          Holding, InFlight
  <2>2. CASE Refused(t)
      BY <1>1, <1>t, <2>2, RefusedLocal, QuietKeepsOwnership
      DEF Check, heapVars, tableVars, Quiet, Holding, InFlight
  <2> QED
      BY <1>1, <2>1, <2>2 DEF Check
<1>2. CASE Take(t)
  <2>1. PICK a \in Addr :
          /\ heap[a] = 0
          /\ heap' = [heap EXCEPT ![a] = order[t].bytes]
          /\ IF op[t] = "begin"
             THEN scratch' = a /\ Return(t)
             ELSE /\ ptr' = [ptr EXCEPT ![t] = a]
                  /\ Goto(t, "track")
                  /\ UNCHANGED <<scratch, op, order, old>>
      BY <1>2 DEF Take
  <2>2. /\ order[t].bytes \in Nat /\ order[t].bytes > 0
        /\ heap'[a] = order[t].bytes
        /\ \A b \in Addr : b # a => heap'[b] = heap[b]
        /\ a \notin Foreign
        /\ table' = table
        /\ pc[t] = "take"
      BY <1>2, <2>1 DEF TypeOK, Take, InFlight, ForeignUntouched, tableVars, Order
  <2>3. \A s \in Slot : table[s] # Vacant => table[s].ptr \in Addr /\ table[s].ptr # a
      BY <2>1 DEF TypeOK, Record, TrackedIsLive
  <2>4. \A u \in Task : Holding(u) => ptr[u] # a
      BY <2>1 DEF HeldIsExclusive
  <2>5. TrackedIsLive' /\ ForeignUntouched'
      BY <2>2, <2>3, PoolAssumption DEF TrackedIsLive, ForeignUntouched, Addr
  <2>6. ~Tracked(a)'
      BY <2>2, <2>3 DEF Tracked
  <2>7. CASE op[t] = "begin"
    <3>1. OthersKeep(t) /\ pc'[t] = "idle" /\ scratch' = a
        BY <2>1, <2>7, ReturnLocal
    <3>2. \A u \in Task : Holding(u)' => u # t /\ Holding(u) /\ ptr'[u] = ptr[u]
        BY <3>1 DEF OthersKeep, Holding
    <3>3. HeldIsExclusive'
        BY <2>2, <2>4, <3>1, <3>2 DEF HeldIsExclusive, Tracked
    <3>4. ScratchIsSafe'
        BY <2>2, <2>6, <3>1 DEF ScratchIsSafe
    <3>5. InFlight'
        BY <2>2, <2>4, <3>1, <3>2 DEF InFlight, OthersKeep, Holding, HeldIsExclusive
    <3> QED
        BY <1>t, <2>5, <3>3, <3>4, <3>5
  <2>8. CASE op[t] # "begin"
    <3>1. /\ OthersKeep(t) /\ pc'[t] = "track" /\ ptr'[t] = a
          /\ scratch' = scratch /\ order' = order
        BY <2>1, <2>8 DEF TypeOK, Goto, OthersKeep
    <3>2. \A u \in Task : Holding(u)' /\ u # t => Holding(u) /\ ptr'[u] = ptr[u]
        BY <3>1 DEF OthersKeep, Holding
    <3>3. scratch # a
        BY <2>1, PoolAssumption DEF ScratchIsSafe, Addr
    <3>4. HeldIsExclusive'
        BY <2>2, <2>4, <2>6, <3>1, <3>2, <3>3 DEF HeldIsExclusive, Tracked
    <3>5. ScratchIsSafe'
        BY <2>2, <3>1, <3>3 DEF ScratchIsSafe, Tracked, TypeOK
    <3>6. InFlight'
        BY <2>2, <2>4, <3>1, <3>2 DEF InFlight, OthersKeep, Holding, HeldIsExclusive
    <3> QED
        BY <1>t, <2>5, <3>4, <3>5, <3>6
  <2> QED
      BY <2>7, <2>8
<1>3. CASE TakeFails(t)
    BY <1>3, <1>t, RefusedLocal, QuietKeepsOwnership
    DEF TakeFails, heapVars, tableVars, Quiet, Holding, InFlight
<1>4. CASE Track(t)
  <2>1. PICK s \in Slot :
          /\ table[s] = Vacant
          /\ table' = [table EXCEPT ![s] =
                [ptr |-> ptr[t], bytes |-> order[t].bytes,
                 region |-> order[t].region,
                 purpose |-> order[t].purpose, tag |-> order[t].tag]]
      BY <1>4 DEF Track, trackAllocation, IsFirst
  <2>2. /\ Holding(t) /\ ptr[t] \in Addr \ Foreign
        /\ heap[ptr[t]] = order[t].bytes /\ order[t].bytes > 0
        /\ ~Tracked(ptr[t]) /\ ptr[t] # scratch
        /\ heap' = heap /\ scratch' = scratch
      BY <1>4 DEF Track, Holding, HeldIsExclusive, InFlight, heapVars
  <2>3. OthersKeep(t) /\ pc'[t] \in {"idle", "drop"}
    <3>1. CASE op[t] = "reallocate"
        BY <1>4, <3>1 DEF TypeOK, Track, Goto, OthersKeep
    <3>2. CASE op[t] # "reallocate"
        BY <1>4, <3>2, ReturnLocal DEF Track
    <3> QED
        BY <3>1, <3>2
  <2>4. /\ table'[s].ptr = ptr[t] /\ table'[s].bytes = order[t].bytes
        /\ \A r \in Slot : r # s => table'[r] = table[r]
      BY <2>1 DEF TypeOK
  <2>5. TrackedIsLive'
      BY <2>1, <2>2, <2>4 DEF TrackedIsLive, Tracked
  <2>6. \A a : Tracked(a)' => Tracked(a) \/ a = ptr[t]
      BY <2>4 DEF Tracked
  <2>7. \A u \in Task : Holding(u)' => /\ u # t /\ Holding(u) /\ ptr'[u] = ptr[u]
                                       /\ ptr[u] # ptr[t]
      BY <2>2, <2>3 DEF OthersKeep, Holding, HeldIsExclusive
  <2>8. HeldIsExclusive'
      BY <2>2, <2>6, <2>7 DEF HeldIsExclusive
  <2>9. ScratchIsSafe' /\ ForeignUntouched'
      BY <2>2, <2>6 DEF ScratchIsSafe, ForeignUntouched
  <2>10. InFlight'
      BY <2>2, <2>3 DEF InFlight, OthersKeep
  <2> QED
      BY <1>t, <2>5, <2>8, <2>9, <2>10
<1>5. CASE TrackFails(t)
  <2>1. /\ OthersKeep(t) /\ pc[t] = "track" /\ pc'[t] = "free"
        /\ UNCHANGED <<heap, table, scratch, ptr, order>>
      BY <1>5 DEF TypeOK, TrackFails, Goto, OthersKeep, heapVars, tableVars
  <2>2. \A u \in Task : Holding(u)' => Holding(u)
      BY <2>1 DEF OthersKeep, Holding
  <2>3. HeldIsExclusive'
      BY <2>1, <2>2 DEF HeldIsExclusive, Tracked
  <2> QED
      BY <1>t, <2>1, <2>3
      DEF TrackedIsLive, ScratchIsSafe, ForeignUntouched, Tracked, InFlight,
          OthersKeep
<1>6. CASE Pick(t)
  <2>1. OthersKeep(t) /\ pc'[t] \in {"drop", "close", "idle"}
    <3>1. CASE Return(t)
        BY <3>1, ReturnLocal
    <3>2. CASE ~Return(t)
        BY <1>6, <3>2 DEF TypeOK, Pick, Goto, OthersKeep
    <3> QED
        BY <3>1, <3>2
  <2> QED
      BY <1>6, <1>t, <2>1, QuietKeepsOwnership
      DEF Pick, heapVars, tableVars, Quiet, Holding
<1>7. CASE Drop(t)
  <2>1. CASE Finish(t) /\ UNCHANGED tableVars
      BY <1>7, <1>t, <2>1, FinishLocal, QuietKeepsOwnership
      DEF Drop, heapVars, tableVars, Quiet, Holding
  <2>2. CASE /\ \E s \in Slot : FindRecord(s, ptr[t]) /\ untrack(s)
             /\ Goto(t, "free")
             /\ UNCHANGED <<op, order, ptr, old>>
    <3>1. PICK s \in Slot : /\ table[s] # Vacant
                            /\ table[s].ptr = ptr[t]
                            /\ table' = [table EXCEPT ![s] = Vacant]
        BY <2>2 DEF FindRecord, IsFirst, untrack
    <3>2. /\ table'[s] = Vacant
          /\ \A r \in Slot : r # s => table'[r] = table[r]
          /\ UNCHANGED <<heap, scratch, ptr, order>>
        BY <1>7, <2>2, <3>1 DEF TypeOK, Drop, heapVars
    <3>3. ptr[t] \in Addr \ Foreign /\ heap[ptr[t]] > 0 /\ Tracked(ptr[t])
        BY <3>1 DEF TypeOK, Record, TrackedIsLive, Tracked
    <3>4. ~Tracked(ptr[t])'
        BY <3>1, <3>2 DEF TrackedIsLive, Tracked
    <3>5. \A a : Tracked(a)' => Tracked(a)
        BY <3>2 DEF Tracked
    <3>6. OthersKeep(t) /\ pc[t] = "drop" /\ pc'[t] = "free"
        BY <1>7, <2>2 DEF TypeOK, Drop, Goto, OthersKeep
    <3>7. \A u \in Task : Holding(u)' /\ u # t =>
              Holding(u) /\ ptr[u] # ptr[t]
        BY <3>3, <3>6 DEF OthersKeep, Holding, HeldIsExclusive
    <3>8. ptr[t] # scratch
        BY <3>3, PoolAssumption DEF ScratchIsSafe, Addr
    <3>9. HeldIsExclusive'
        BY <3>2, <3>3, <3>4, <3>5, <3>7, <3>8 DEF HeldIsExclusive
    <3>10. TrackedIsLive'
        BY <3>2 DEF TrackedIsLive
    <3>11. ScratchIsSafe' /\ ForeignUntouched'
        BY <3>2, <3>5 DEF ScratchIsSafe, ForeignUntouched
    <3>12. InFlight'
        BY <3>2, <3>6 DEF InFlight, OthersKeep
    <3> QED
        BY <1>t, <3>9, <3>10, <3>11, <3>12
  <2> QED
      BY <1>7, <2>1, <2>2 DEF Drop
<1>8. CASE Free(t)
  <2>1. /\ Holding(t) /\ ptr[t] \in Addr \ Foreign /\ ~Tracked(ptr[t])
        /\ ptr[t] # scratch
      BY <1>8 DEF Free, Holding, HeldIsExclusive
  <2>2. /\ heap'[ptr[t]] = 0
        /\ \A a \in Addr : a # ptr[t] => heap'[a] = heap[a]
        /\ UNCHANGED <<table, scratch>>
      BY <1>8, <2>1 DEF TypeOK, Free, GiveBack, tableVars
  <2>3. OthersKeep(t) /\ pc'[t] \in {"idle", "pick"}
      BY <1>8, FinishLocal DEF Free
  <2>4. \A u \in Task : Holding(u)' =>
            u # t /\ Holding(u) /\ ptr'[u] = ptr[u] /\ ptr[u] # ptr[t]
      BY <2>1, <2>3 DEF OthersKeep, Holding, HeldIsExclusive
  <2>5. TrackedIsLive'
      BY <2>1, <2>2 DEF TrackedIsLive, Tracked, TypeOK, Record
  <2>6. HeldIsExclusive'
      BY <2>2, <2>4 DEF HeldIsExclusive, Tracked
  <2>7. ScratchIsSafe' /\ ForeignUntouched'
      BY <2>1, <2>2, PoolAssumption
      DEF ScratchIsSafe, ForeignUntouched, Tracked, TypeOK, Addr
  <2>8. InFlight'
      BY <2>2, <2>3, <2>4 DEF InFlight, OthersKeep, Holding, HeldIsExclusive
  <2> QED
      BY <1>t, <2>5, <2>6, <2>7, <2>8
<1>9. CASE Close(t)
  <2>1. OthersKeep(t) /\ pc[t] = "close" /\ pc'[t] = "idle" /\ scratch' = NoAddr
        /\ table' = table
      BY <1>9, ReturnLocal DEF Close, tableVars
  <2>2. \A a \in Addr : a # scratch => heap'[a] = heap[a]
      BY <1>9 DEF TypeOK, Close, GiveBack, heapVars
  <2>3. \A u \in Task : Holding(u)' => /\ u # t /\ Holding(u) /\ ptr'[u] = ptr[u]
                                       /\ ptr[u] # scratch /\ ptr[u] # NoAddr
      BY <2>1, PoolAssumption DEF OthersKeep, Holding, HeldIsExclusive, Addr
  <2>4. \A s \in Slot : table[s] # Vacant => table[s].ptr \in Addr /\ table[s].ptr # scratch
      BY PoolAssumption DEF TypeOK, Record, ScratchIsSafe, Tracked, Addr
  <2>5. TrackedIsLive'
      BY <2>1, <2>2, <2>4 DEF TrackedIsLive
  <2>6. HeldIsExclusive'
      BY <2>1, <2>2, <2>3 DEF HeldIsExclusive, Tracked
  <2>7. ScratchIsSafe' /\ ForeignUntouched'
      BY <2>1, <2>2, PoolAssumption DEF ScratchIsSafe, ForeignUntouched, Addr
  <2>8. InFlight'
      BY <2>1, <2>2, <2>3 DEF InFlight, OthersKeep, Holding, HeldIsExclusive
  <2> QED
      BY <1>t, <2>5, <2>6, <2>7, <2>8
<1> QED
    BY <1>1, <1>2, <1>3, <1>4, <1>5, <1>6, <1>7, <1>8, <1>9 DEF Step

(* begin() drops the records and only then asks for the scratch block: it  *)
(* makes no second owner of a block that a task still holds.               *)
LEMMA BeginKeepsOwnership ==
    ASSUME Ownership, NEW t \in Task, Begin(t)
    PROVE  Ownership'
<1> USE DEF Ownership
<1>1. TypeOK'
    BY StartType DEF Start
<1>2. /\ heap' = heap /\ scratch' = NoAddr /\ ptr' = ptr
      /\ table' = [s \in Slot |-> Vacant]
    BY DEF Begin, heapVars
<1>3. OthersKeep(t) /\ pc'[t] \in {"idle", "check"}
      /\ (pc'[t] = "check" => order'[t].bytes > 0)
  <2>1. ScratchBytes # 0 => ScratchOrder.bytes > 0
      BY ConfigAssumption DEF ScratchOrder
  <2> QED
      BY <2>1 DEF TypeOK, Begin, Call, Goto, OthersKeep
<1>4. \A u \in Task : Holding(u)' => u # t /\ Holding(u)
    BY <1>3 DEF OthersKeep, Holding
<1>5. HeldIsExclusive'
    BY <1>2, <1>4, PoolAssumption DEF HeldIsExclusive, Tracked, Addr
<1>6. TrackedIsLive' /\ ScratchIsSafe' /\ ForeignUntouched'
    BY <1>2 DEF TrackedIsLive, ScratchIsSafe, ForeignUntouched
<1>7. InFlight'
    BY <1>2, <1>3 DEF InFlight, OthersKeep
<1> QED
    BY <1>1, <1>5, <1>6, <1>7

(* Before begin() nothing is owned.                                        *)
LEMMA InitOwnership == Init => Ownership
<1> SUFFICES ASSUME Init PROVE Ownership
    OBVIOUS
<1>1. TypeOK
    BY NoOrderType, PoolAssumption DEF Init, TypeOK, Pools
<1>2. TrackedIsLive /\ HeldIsExclusive /\ ScratchIsSafe /\ InFlight
    BY DEF Init, TrackedIsLive, HeldIsExclusive, ScratchIsSafe, InFlight, Holding
<1>3. ForeignUntouched
    BY PoolAssumption DEF Init, ForeignUntouched, Addr
<1> QED
    BY <1>1, <1>2, <1>3 DEF Ownership

(* Ownership is inductive.                                                 *)
LEMMA NextKeepsOwnership == Ownership /\ [Next]_vars => Ownership'
<1> SUFFICES ASSUME Ownership, [Next]_vars PROVE Ownership'
    OBVIOUS
<1>1. ASSUME NEW t \in Task, Step(t) PROVE Ownership'
    BY <1>1, StepKeepsOwnership
<1>2. ASSUME NEW t \in Task, Begin(t) PROVE Ownership'
    BY <1>2, BeginKeepsOwnership
<1>3. ASSUME NEW t \in Task, Start(t), ~Begin(t) PROVE Ownership'
  <2>1. TypeOK'
      BY <1>3, StartType DEF Ownership
  <2> QED
      BY <1>3, <2>1, StartIsQuiet, QuietKeepsOwnership
<1>4. CASE UNCHANGED vars
    BY <1>4 DEF vars, Ownership, TypeOK, TrackedIsLive, HeldIsExclusive,
                ScratchIsSafe, ForeignUntouched, InFlight, Holding, Tracked
<1> QED
    BY <1>1, <1>2, <1>3, <1>4 DEF Next

(* Ownership holds in every reachable state.                               *)
LEMMA OwnershipInvariant == Spec => []Ownership
BY InitOwnership, NextKeepsOwnership, PTL DEF Spec

(* Every variable always has its type.                                      *)
LEMMA TypeCorrect == Spec => []TypeOK
<1>1. Ownership => TypeOK
    BY DEF Ownership
<1> QED
    BY <1>1, OwnershipInvariant, PTL

(* Provided begin() and end() run with no other task inside the manager,    *)
(* and however the other calls interleave: a block in the table is live,    *)
(* listed once and not another firmware's; a block in a task's hands is in  *)
(* nobody else's; the scratch block cannot be released by name; and         *)
(* whatever pointers are passed to release and reallocate, blocks of other  *)
(* firmware stay as they are.                                               *)
THEOREM OwnershipIsExclusive == ASSUME ExclusiveLifecycle PROVE Spec => []ManagerInvariant
<1>1. Ownership => ManagerInvariant
    BY DEF Ownership, ManagerInvariant
<1> QED
    BY <1>1, OwnershipInvariant, PTL
-----------------------------------------------------------------------------
(* Accounting.  A record and its share of the two counters come and go in  *)
(* one critical section, so the totals are right in every state, also in   *)
(* the middle of calls; the saturation at zero never happens.              *)

(* The used records are finitely many, with sizes that can be summed.      *)
LEMMA UsedSizes ==
    ASSUME TypeOK
    PROVE  /\ IsFiniteSet(Used) /\ Sized(table, Used)
           /\ SumFunction([s \in Used |-> table[s].bytes]) = Total(table, Used)
<1>1. IsFiniteSet(Slot)
  <2>1. 1 \in Int /\ Slots \in Int
      BY ConfigAssumption
  <2>2. IsFiniteSet(1 .. Slots)
      BY <2>1, FS_Interval
  <2> QED
      BY <2>2 DEF Slot
<1>2. IsFiniteSet(Used)
    BY <1>1, FS_Subset DEF Used
<1>3. Sized(table, Used)
    BY DEF TypeOK, Sized, Used, Record
<1>4. SumFunction([s \in Used |-> table[s].bytes]) = Total(table, Used)
    BY Zenon DEF Total
<1> QED
    BY <1>2, <1>3, <1>4

Counted == trackedBytes = Total(table, Used) /\ active = Cardinality(Used)

(* trackAllocation adds a record to both counters.                         *)
LEMMA TrackCounts ==
    ASSUME Ownership, Counted, NEW t \in Task, pc[t] = "track",
           NEW s \in Slot, trackAllocation(t, s)
    PROVE  Counted'
<1> DEFINE record == [ptr |-> ptr[t], bytes |-> order[t].bytes, region |-> order[t].region,
                      purpose |-> order[t].purpose, tag |-> order[t].tag]
<1>1. s \notin Used /\ TypeOK /\ Used \subseteq Slot
    BY DEF trackAllocation, IsFirst, Used, Ownership
<1>2. ptr[t] \in Addr
    BY DEF Ownership, HeldIsExclusive, Holding
<1>3. order[t] \in Order
    BY <1>1 DEF TypeOK
<1>4. record \in Record /\ record.bytes = order[t].bytes /\ record.bytes \in Nat
    BY <1>2, <1>3 DEF Order, Record
<1>5. table' = [table EXCEPT ![s] = record]
    BY DEF trackAllocation
<1> HIDE DEF record
<1>6. /\ Used' = Used \cup {s} /\ table'[s].bytes = order[t].bytes
      /\ \A r \in Used : table'[r].bytes = table[r].bytes
    BY <1>1, <1>4, <1>5, VacantAssumption DEF Used, TypeOK
<1>7. /\ Total(table', Used \cup {s}) = Total(table, Used) + order[t].bytes
      /\ Total(table, Used) \in Nat
  <2>1. table'[s].bytes \in Nat
      BY <1>4, <1>6
  <2>2. IsFiniteSet(Used) /\ Sized(table, Used)
      BY <1>1, UsedSizes
  <2>3. /\ Total(table', Used \cup {s}) = Total(table, Used) + table'[s].bytes
        /\ Total(table, Used) \in Nat
      BY <1>1, <1>6, <2>1, <2>2, TotalAdd
  <2> QED
      BY <1>6, <2>3
<1>8. Cardinality(Used') = Cardinality(Used) + 1 /\ Cardinality(Used) \in Nat
    BY <1>1, <1>6, UsedSizes, FS_AddElement, FS_CardinalityType
<1>9. Total(table', Used') = Total(table', Used \cup {s})
    BY <1>6, Zenon
<1>10. trackedBytes' = trackedBytes + order[t].bytes /\ active' = active + 1
    BY DEF trackAllocation
<1> QED
    BY <1>7, <1>8, <1>9, <1>10 DEF Counted

(* untrack takes a record out of both.                                     *)
LEMMA UntrackCounts ==
    ASSUME TypeOK, Counted, NEW s \in Slot, table[s] # Vacant, untrack(s)
    PROVE  Counted'
<1>1. s \in Used /\ table[s] \in Record /\ table[s].bytes \in Nat
    BY DEF Used, TypeOK, Record
<1>2. table' = [table EXCEPT ![s] = Vacant]
    BY DEF untrack
<1>3. Used' = Used \ {s} /\ \A r \in Used' : table'[r].bytes = table[r].bytes
    BY <1>2 DEF Used, TypeOK
<1>4. Parts(Used, {s}, Used')
    BY <1>1, <1>3 DEF Parts
<1>5. /\ Total(table', Used') = Total(table, Used) - Total(table, {s})
      /\ Total(table, Used) \in Nat /\ Total(table', Used') \in Nat
    BY <1>3, <1>4, UsedSizes, TotalRemove
<1>6. Total(table, {s}) = table[s].bytes
    BY <1>1, TotalOne
<1>7. trackedBytes' = Total(table', Used')
    BY <1>1, <1>5, <1>6 DEF Counted, untrack
<1>8. Cardinality(Used') = Cardinality(Used) - 1 /\ Cardinality(Used) \in Nat
      /\ Cardinality(Used') \in Nat
    BY <1>1, <1>3, UsedSizes, FS_RemoveElement, FS_CardinalityType
<1>9. active' = Cardinality(Used')
    BY <1>8 DEF Counted, untrack
<1> QED
    BY <1>7, <1>9 DEF Counted

(* An empty table has empty totals.                                        *)
LEMMA NothingCounts ==
    ASSUME Used = {}, trackedBytes = 0, active = 0
    PROVE  Counted
<1>1. Total(table, Used) = Total(table, {}) /\ Cardinality(Used) = Cardinality({})
    BY Zenon
<1> QED
    BY <1>1, TotalEmpty, FS_EmptySet DEF Counted

(* Every step keeps the totals with the table.                             *)
LEMMA NextCounts == ASSUME Ownership, Counted, [Next]_vars PROVE Counted'
<1>1. CASE UNCHANGED tableVars
  <2>1. table' = table /\ Used' = Used
      BY <1>1 DEF tableVars, Used
  <2>2. Total(table', Used') = Total(table, Used)
      BY <2>1, Zenon
  <2> QED
      BY <1>1, <2>1, <2>2 DEF Counted, tableVars
<1>2. CASE UNCHANGED vars
    BY <1>1, <1>2 DEF vars, tableVars
<1>3. ASSUME NEW t \in Task, Start(t) PROVE Counted'
  <2>1. CASE Begin(t)
    <3>1. Used' = {} /\ trackedBytes' = 0 /\ active' = 0
        BY <2>1 DEF Begin, Used
    <3>2. Total(table', Used') = Total(table', {}) /\ Cardinality(Used') = Cardinality({})
        BY <3>1, Zenon
    <3> QED
        BY <3>1, <3>2, TotalEmpty, FS_EmptySet DEF Counted
  <2>2. CASE ~Begin(t)
      BY <1>1, <1>3, <2>2 DEF Start, Allocate, AllocateFixed, AllocateIn, Reallocate,
          Release, ReleaseTag, ReleaseAll, End
  <2> QED
      BY <2>1, <2>2
<1>4. ASSUME NEW t \in Task, Step(t) PROVE Counted'
  <2>1. CASE Track(t)
      BY <2>1, TrackCounts DEF Track
  <2>2. CASE Drop(t)
    <3>1. ASSUME NEW s \in Slot, FindRecord(s, ptr[t]), untrack(s) PROVE Counted'
        BY <3>1, UntrackCounts DEF FindRecord, IsFirst, Ownership
    <3> QED
        BY <1>1, <2>2, <3>1 DEF Drop
  <2>3. CASE ~Track(t) /\ ~Drop(t)
      BY <1>1, <1>4, <2>3 DEF Step, Check, Take, TakeFails, TrackFails, Pick, Free, Close
  <2> QED
      BY <2>1, <2>2, <2>3
<1> QED
    BY <1>2, <1>3, <1>4 DEF Next

(* MemoryManager::validate: provided begin() and end() run with no other   *)
(* task inside the manager, tracked_bytes_ is the sum of the records in    *)
(* use and active_allocations_ their number, in every state, whatever the  *)
(* tasks do at once in the other calls.                                    *)
THEOREM TotalsAreRight == ASSUME ExclusiveLifecycle PROVE Spec => []Accounting
<1>1. Init => Counted
  <2> SUFFICES ASSUME Init PROVE Counted
      OBVIOUS
  <2>1. Used = {} /\ trackedBytes = 0 /\ active = 0
      BY DEF Init, Used
  <2> QED
      BY <2>1, NothingCounts
<1>2. Ownership /\ Counted => Accounting
  <2> SUFFICES ASSUME Ownership, Counted PROVE Accounting
      OBVIOUS
  <2>1. TypeOK
      BY DEF Ownership
  <2> QED
      BY <2>1, UsedSizes DEF Accounting, validate, Counted
<1>3. Ownership /\ Counted /\ [Next]_vars => Counted'
    BY NextCounts
<1> QED
    BY <1>1, <1>2, <1>3, OwnershipInvariant, PTL DEF Spec
-----------------------------------------------------------------------------
(* Placement.  What a block's record will say of its region is decided      *)
(* before the heap is asked, and may change once, on the fallback path: an  *)
(* order for DMA, or for a framebuffer that must be external, never changes *)
(* its region, and the heap answers from the pools of the region asked.     *)
PurposeServed(r) == /\ r.purpose = "DMA" => r.region = "DMA"
                    /\ MustBeExternal(r.purpose) => r.region = "PSRAM"
OrderServed(o) == PurposeServed(o) /\ (MustBeExternal(o.purpose) => ~o.fallback)
Placement ==
    /\ PlacementPolicy
    /\ \A t \in Task :
        /\ pc[t] \in {"check", "take", "track"} => OrderServed(order[t])
        /\ pc[t] = "track" => PoolOf(ptr[t]) \in PoolsOf(order[t].region)

(* allocate() makes only such orders.                                       *)
LEMMA OrderForServes ==
    ASSUME NEW n \in Sizes, NEW p \in AllPurposes, NEW g \in Tags \cup {NoTag}
    PROVE  OrderServed(OrderFor(n, p, g))
<1>1. p = "DMA" => chooseRegion(n, p) = "DMA"
    BY DEF chooseRegion
<1> QED
    BY <1>1 DEF OrderServed, PurposeServed, OrderFor, MayFallBack, MustBeExternal

(* Beginning a call keeps the placement.                                    *)
LEMMA StartKeepsPlacement ==
    ASSUME TypeOK, Placement, NEW t \in Task, Start(t)
    PROVE  Placement'
<1>1. ASSUME table' = table \/ \A s \in Slot : table'[s] = Vacant
      PROVE  PlacementPolicy'
    BY <1>1 DEF Placement, PlacementPolicy
<1>2. ASSUME \A u \in Task \ {t} : /\ pc'[u] = pc[u] /\ order'[u] = order[u]
                                     /\ ptr'[u] = ptr[u],
             pc'[t] # "track",
             pc'[t] \in {"check", "take"} => OrderServed(order'[t]),
             PlacementPolicy'
      PROVE  Placement'
    BY <1>2 DEF Placement
<1>3. CASE Allocate(t)
  <2>1. PICK n \in Sizes, p \in AllPurposes, g \in Tags \cup {NoTag} :
            order' = [order EXCEPT ![t] = OrderFor(n, p, g)]
      BY <1>3, PurposeAssumption DEF Allocate, AllPurposes
  <2>2. OrderServed(order'[t])
      BY <2>1, OrderForServes DEF TypeOK
  <2> QED
      BY <1>1, <1>2, <1>3, <2>1, <2>2 DEF TypeOK, Allocate, Call, Goto, tableVars
<1>4. CASE AllocateFixed(t)
  <2>1. PICK n \in Sizes, g \in Tags \cup {NoTag}, p \in {"DMA", "Control"} :
            order' = [order EXCEPT ![t] =
              [bytes |-> n, purpose |-> p, tag |-> g, fallback |-> FALSE,
               region |-> IF p = "DMA" THEN "DMA" ELSE "Internal"]]
      BY <1>4 DEF AllocateFixed
  <2>2. OrderServed(order'[t])
      BY <2>1 DEF TypeOK, OrderServed, PurposeServed, MustBeExternal
  <2> QED
      BY <1>1, <1>2, <1>4, <2>1, <2>2
      DEF TypeOK, AllocateFixed, Call, Goto, tableVars
<1>5. CASE AllocateIn(t)
  <2>1. PICK n \in Sizes, g \in Tags \cup {NoTag}, r \in Region, f \in BOOLEAN :
            order' = [order EXCEPT ![t] =
              [bytes |-> n, purpose |-> "General", tag |-> g, fallback |-> f,
               region |-> r]]
      BY <1>5 DEF AllocateIn
  <2>2. OrderServed(order'[t])
      BY <2>1 DEF TypeOK, OrderServed, PurposeServed, MustBeExternal
  <2> QED
      BY <1>1, <1>2, <1>5, <2>1, <2>2
      DEF TypeOK, AllocateIn, Call, Goto, tableVars
<1>6. CASE Reallocate(t)
  <2>1. PICK s \in Slot, n \in Sizes, p \in Purposes \cup {"General"},
            g \in Tags \cup {NoTag} :
            /\ table[s] # Vacant
            /\ order' = [order EXCEPT ![t] =
                 OrderFor(n, IF p = "General" THEN table[s].purpose ELSE p,
                          IF g = NoTag THEN table[s].tag ELSE g)]
      BY <1>6 DEF Reallocate
  <2>2. /\ (IF p = "General" THEN table[s].purpose ELSE p) \in AllPurposes
        /\ (IF g = NoTag THEN table[s].tag ELSE g) \in Tags \cup {NoTag}
      BY <2>1, PurposeAssumption DEF TypeOK, Record, AllPurposes
  <2>3. OrderServed(order'[t])
      BY <2>1, <2>2, OrderForServes DEF TypeOK
  <2> QED
      BY <1>1, <1>2, <1>6, <2>1, <2>3 DEF TypeOK, Reallocate, Call, Goto, tableVars
<1>7. CASE Release(t) \/ ReleaseTag(t) \/ ReleaseAll(t) \/ End(t)
    BY <1>1, <1>2, <1>7
    DEF TypeOK, Release, ReleaseTag, ReleaseAll, End, Call, Goto, tableVars
<1>8. CASE Begin(t)
  <2>1. \A s \in Slot : table'[s] = Vacant
      BY <1>8 DEF Begin
  <2>2. OrderServed(ScratchOrder)
      BY DEF OrderServed, PurposeServed, MustBeExternal, ScratchOrder
  <2>3. /\ \A u \in Task \ {t} : /\ pc'[u] = pc[u] /\ order'[u] = order[u]
                                  /\ ptr'[u] = ptr[u]
        /\ pc'[t] # "track"
        /\ pc'[t] \in {"check", "take"} => OrderServed(order'[t])
      BY <1>8, <2>2 DEF TypeOK, Begin, Call, Goto
  <2> QED
      BY <1>1, <1>2, <2>1, <2>3
<1> QED
    BY <1>3, <1>4, <1>5, <1>6, <1>7, <1>8 DEF Start

(* A refused allocation changes the region only where it may.               *)
LEMMA RefusedServes ==
    ASSUME TypeOK, NEW t \in Task, OrderServed(order[t]), Refused(t)
    PROVE  \/ pc'[t] = "idle"
           \/ pc'[t] = "check" /\ OrderServed(order'[t])
<1>1. CASE Return(t)
    BY <1>1, ReturnLocal
<1>2. CASE ~Return(t)
  <2>1. order[t] \in Order
      BY DEF TypeOK
  <2>2. /\ order[t].fallback /\ order[t].region # "DMA"
        /\ order' = [order EXCEPT ![t] = [order[t] EXCEPT !.fallback = FALSE,
                                        !.region = OtherRegion(@)]]
        /\ pc'[t] = "check"
      BY <1>2 DEF Refused, Goto, TypeOK
  <2>3. OrderServed([order[t] EXCEPT !.fallback = FALSE, !.region = OtherRegion(@)])
      BY <2>1, <2>2 DEF OrderServed, PurposeServed, Order
  <2> QED
      BY <2>2, <2>3 DEF TypeOK
<1> QED
    BY <1>1, <1>2

(* A step of a running call leaves the locals of the others alone.          *)
LEMMA StepIsLocal ==
    ASSUME TypeOK, NEW t \in Task, Step(t)
    PROVE  OthersKeep(t)
<1>1. CASE Return(t) \/ Refused(t) \/ Finish(t)
    BY <1>1, ReturnLocal, RefusedLocal, FinishLocal
<1>2. CASE ~(Return(t) \/ Refused(t) \/ Finish(t))
    BY <1>2 DEF TypeOK, OthersKeep, Step, Check, Take, TakeFails, Track,
                TrackFails, Pick, Drop, Free, Close, Goto
<1> QED
    BY <1>1, <1>2

(* A step of a running call keeps the placement.                            *)
LEMMA StepKeepsPlacement ==
    ASSUME TypeOK, Placement, NEW t \in Task, Step(t), OthersKeep(t)
    PROVE  Placement'
<1>1. ASSUME PlacementPolicy',
             pc'[t] \in {"check", "take", "track"} => OrderServed(order'[t]),
             pc'[t] = "track" => PoolOf(ptr'[t]) \in PoolsOf(order'[t].region)
      PROVE  Placement'
    BY <1>1 DEF Placement, OthersKeep
<1>2. table' = table => PlacementPolicy'
    BY DEF Placement, PlacementPolicy
<1>3. CASE Check(t)
  <2>1. OrderServed(order[t]) /\ table' = table
      BY <1>3 DEF Check, Placement, tableVars
  <2>2. CASE Refused(t)
      BY <1>1, <1>2, <2>1, <2>2, RefusedServes
  <2>3. CASE ~Refused(t)
      BY <1>1, <1>2, <1>3, <2>1, <2>3 DEF Check, Goto, TypeOK
  <2> QED
      BY <2>2, <2>3
<1>4. CASE Take(t)
  <2>1. OrderServed(order[t]) /\ table' = table
      BY <1>4 DEF Take, Placement, tableVars
  <2>2. CASE op[t] = "begin"
    <3>1. pc'[t] = "idle"
        BY <1>4, <2>2, ReturnLocal DEF Take
    <3> QED
        BY <1>1, <1>2, <2>1, <3>1
  <2>3. CASE op[t] # "begin"
      BY <1>1, <1>2, <1>4, <2>1, <2>3 DEF Take, Goto, TypeOK
  <2> QED
      BY <2>2, <2>3
<1>5. CASE TakeFails(t)
  <2>1. OrderServed(order[t]) /\ table' = table /\ Refused(t)
      BY <1>5 DEF TakeFails, Placement, tableVars
  <2> QED
      BY <1>1, <1>2, <2>1, RefusedServes
<1>6. CASE Track(t)
  <2>1. PICK s \in Slot : trackAllocation(t, s)
      BY <1>6 DEF Track
  <2>2. /\ table'[s].ptr = ptr[t] /\ table'[s].region = order[t].region
        /\ table'[s].purpose = order[t].purpose
        /\ \A r \in Slot \ {s} : table'[r] = table[r]
      BY <2>1 DEF trackAllocation, TypeOK
  <2>3. OrderServed(order[t]) /\ PoolOf(ptr[t]) \in PoolsOf(order[t].region)
      BY <1>6 DEF Track, Placement
  <2>4. PlacementPolicy'
      BY <2>2, <2>3 DEF Placement, PlacementPolicy, OrderServed, PurposeServed
  <2>5. pc'[t] \in {"idle", "drop"}
    <3>1. CASE op[t] = "reallocate"
        BY <1>6, <3>1 DEF Track, Goto, TypeOK
    <3>2. CASE op[t] # "reallocate"
        BY <1>6, <3>2, ReturnLocal DEF Track
    <3> QED
        BY <3>1, <3>2
  <2> QED
      BY <1>1, <2>4, <2>5
<1>7. CASE TrackFails(t)
    BY <1>1, <1>2, <1>7 DEF TrackFails, Goto, TypeOK, tableVars
<1>8. CASE Pick(t)
  <2>1. CASE Return(t)
    <3>1. pc'[t] = "idle"
        BY <2>1, ReturnLocal
    <3> QED
        BY <1>1, <1>2, <1>8, <3>1 DEF Pick, tableVars
  <2>2. CASE ~Return(t)
    <3>1. pc'[t] \in {"drop", "close"}
        BY <1>8, <2>2 DEF Pick, Goto, TypeOK
    <3> QED
        BY <1>1, <1>2, <1>8, <3>1 DEF Pick, tableVars
  <2> QED
      BY <2>1, <2>2
<1>9. CASE Drop(t)
  <2>1. PlacementPolicy'
    <3>1. CASE table' = table
        BY <1>2, <3>1
    <3>2. CASE table' # table
      <4>1. PICK s \in Slot : table' = [table EXCEPT ![s] = Vacant]
          BY <1>9, <3>2 DEF Drop, untrack, tableVars
      <4> QED
          BY <4>1 DEF Placement, PlacementPolicy, TypeOK
    <3> QED
        BY <3>1, <3>2
  <2>2. CASE Finish(t)
      BY <1>1, <2>1, <2>2, FinishLocal
  <2>3. CASE ~Finish(t)
      BY <1>1, <1>9, <2>1, <2>3 DEF Drop, Goto, TypeOK
  <2> QED
      BY <2>2, <2>3
<1>10. CASE Free(t)
  <2>1. pc'[t] \in {"idle", "pick"} /\ table' = table
      BY <1>10, FinishLocal DEF Free, tableVars
  <2> QED
      BY <1>1, <1>2, <2>1
<1>11. CASE Close(t)
  <2>1. pc'[t] = "idle" /\ table' = table
      BY <1>11, ReturnLocal DEF Close, tableVars
  <2> QED
      BY <1>1, <1>2, <2>1
<1> QED
    BY <1>3, <1>4, <1>5, <1>6, <1>7, <1>8, <1>9, <1>10, <1>11 DEF Step

(* Provided begin() and end() run with no other task inside the manager,    *)
(* and however the other calls interleave: a record names the region its    *)
(* block lies in, also after a fallback; DMA buffers are DMA-capable; a     *)
(* framebuffer that must be in PSRAM is there.                              *)
THEOREM BlocksAreWhereTheyShouldBe == ASSUME ExclusiveLifecycle PROVE Spec => []PlacementPolicy
<1>1. Init => Placement
    BY DEF Init, Placement, PlacementPolicy
<1>2. TypeOK /\ Placement /\ [Next]_vars => Placement'
  <2> SUFFICES ASSUME TypeOK, Placement, [Next]_vars PROVE Placement'
      OBVIOUS
  <2>1. ASSUME NEW t \in Task, Step(t) PROVE Placement'
    <3>1. OthersKeep(t)
        BY <2>1, StepIsLocal
    <3> QED
        BY <2>1, <3>1, StepKeepsPlacement
  <2>2. ASSUME NEW t \in Task, Start(t) PROVE Placement'
      BY <2>2, StartKeepsPlacement
  <2>3. CASE UNCHANGED vars
      BY <2>3 DEF vars, Placement, PlacementPolicy
  <2> QED
      BY <2>1, <2>2, <2>3 DEF Next
<1>3. Placement => PlacementPolicy
    BY DEF Placement
<1> QED
    BY <1>1, <1>2, <1>3, TypeCorrect, PTL DEF Spec
-----------------------------------------------------------------------------
(* No block is lost when begin() and end() run alone.  What is needed       *)
(* beyond Ownership: which calls can be where, and that a manager that is   *)
(* not ready has nothing left.                                              *)
Empty == \A s \in Slot : table[s] = Vacant

Phases ==
    \A t \in Task :
        /\ pc[t] = "idle" <=> op[t] = "none"
        /\ op[t] \in {"begin", "end"} => t = Keeper
        /\ pc[t] = "close" => op[t] = "end" /\ Empty
        /\ op[t] = "begin" => pc[t] \in {"check", "take"} /\ scratch = NoAddr

Alone ==
    /\ op[Keeper] \in {"begin", "end"} => \A u \in Task \ {Keeper} : pc[u] = "idle"
    /\ ~ready => (\A t \in Task : pc[t] = "idle") /\ scratch = NoAddr /\ Empty

Kept == Ownership /\ Phases /\ Alone /\ NoLeak

(* Starting a call loses no block, where begin() and end() are not run     *)
(* beside other calls.                                                     *)
LEMMA StartKeepsAll ==
    ASSUME Kept, ExclusiveLifecycle, NEW t \in Task, Start(t)
    PROVE  Kept'
<1> USE DEF Kept
<1>1. Ownership'
    BY NextKeepsOwnership DEF Next
<1>2. CASE Begin(t)
  <2>1. /\ t = Keeper /\ \A u \in Task : pc[u] = "idle"
        /\ scratch = NoAddr /\ Empty
      BY <1>2 DEF Begin, Alone
  <2>2. /\ OthersKeep(t) /\ ready' = TRUE /\ scratch' = NoAddr /\ heap' = heap
        /\ Empty'
        /\ \/ pc'[t] = "idle" /\ op'[t] = "none"
           \/ pc'[t] = "check" /\ op'[t] = "begin"
      BY <1>2, <2>1
      DEF Ownership, TypeOK, Begin, Call, Goto, OthersKeep, heapVars, Empty, Phases
  <2>3. \A a \in Addr \ Foreign : ~(heap[a] > 0)
      BY <2>1, PoolAssumption DEF NoLeak, Tracked, Empty, HeldByATask, Holding, Addr
  <2>4. NoLeak'
      BY <2>2, <2>3 DEF NoLeak
  <2>5. Phases'
      BY <2>1, <2>2 DEF Phases, OthersKeep
  <2>6. Alone'
      BY <2>1, <2>2, TaskAssumption DEF Alone, OthersKeep
  <2> QED
      BY <1>1, <2>4, <2>5, <2>6
<1>3. CASE ~Begin(t)
  <2>1. Quiet(t) /\ ~Holding(t)
      BY <1>3, StartIsQuiet
  <2>2. /\ pc[t] = "idle" /\ ready /\ ready' = ready
        /\ pc'[t] \in {"check", "drop", "pick"}
        /\ op'[t] \in {"allocate", "reallocate", "release", "releaseTag",
                       "releaseAll", "end"}
        /\ op'[t] = "end" => t = Keeper /\ OthersOutside(t)
        /\ t # Keeper => op[Keeper] \notin {"begin", "end"}
    <3> USE <1>3 DEF Ownership, TypeOK, Start, Call, Goto, CanCall, InLifecycle
    <3>1. CASE Allocate(t)
        BY <3>1 DEF Allocate
    <3>2. CASE AllocateFixed(t)
        BY <3>2 DEF AllocateFixed
    <3>3. CASE AllocateIn(t)
        BY <3>3 DEF AllocateIn
    <3>4. CASE Reallocate(t)
        BY <3>4 DEF Reallocate
    <3>5. CASE Release(t)
        BY <3>5 DEF Release
    <3>6. CASE ReleaseTag(t)
        BY <3>6 DEF ReleaseTag
    <3>7. CASE ReleaseAll(t)
        BY <3>7 DEF ReleaseAll
    <3>8. CASE End(t)
        BY <3>8, TaskAssumption DEF End, OthersOutside, Phases
    <3> QED
        BY <3>1, <3>2, <3>3, <3>4, <3>5, <3>6, <3>7, <3>8
  <2>3. NoLeak'
    <3>1. \A u \in Task : Holding(u) => Holding(u)' /\ ptr'[u] = ptr[u]
        BY <2>1 DEF Quiet, OthersKeep, Holding
    <3> QED
        BY <2>1, <3>1 DEF NoLeak, Quiet, Tracked, HeldByATask
  <2>4. Phases'
      BY <2>1, <2>2 DEF Phases, Quiet, OthersKeep, Empty
  <2>5. Alone'
      BY <2>1, <2>2, TaskAssumption DEF Alone, Quiet, OthersKeep, Phases, OthersOutside
  <2> QED
      BY <1>1, <2>3, <2>4, <2>5
<1> QED
    BY <1>2, <1>3

(* A step that moves no block loses none.                                  *)
LEMMA QuietKeepsNoLeak ==
    ASSUME NoLeak, NEW t \in Task, ~Holding(t), Quiet(t)
    PROVE  NoLeak'
<1>1. \A u \in Task : Holding(u) => Holding(u)' /\ ptr'[u] = ptr[u]
    BY DEF Quiet, OthersKeep, Holding
<1> QED
    BY <1>1 DEF NoLeak, Quiet, Tracked, HeldByATask

(* Where a step of a call can lead.                                         *)
LEMMA StepPhase ==
    ASSUME Kept, NEW t \in Task, Step(t)
    PROVE  /\ OthersKeep(t)
           /\ pc[t] # "idle"
           /\ \/ pc'[t] = "idle" /\ op'[t] = "none"
              \/ pc'[t] # "idle" /\ op'[t] = op[t]
           /\ op'[t] = "begin" => pc'[t] \in {"check", "take"}
           /\ pc'[t] = "close" => pc[t] = "pick" /\ op[t] = "end" /\ Empty
<1> USE DEF Kept, Ownership
<1>1. CASE Check(t)
  <2>1. CASE Refused(t)
      BY <1>1, <2>1, RefusedLocal DEF Check, Phases
  <2>2. CASE ~Refused(t)
      BY <1>1, <2>2 DEF TypeOK, Check, Goto, OthersKeep, Phases
  <2> QED
      BY <2>1, <2>2
<1>2. CASE Take(t)
  <2>1. CASE op[t] = "begin"
      BY <1>2, <2>1, ReturnLocal DEF Take
  <2>2. CASE op[t] # "begin"
    <3>1. pc[t] = "take" /\ Goto(t, "track") /\ op' = op /\ order' = order
          /\ \E a \in Addr : ptr' = [ptr EXCEPT ![t] = a]
        BY <1>2, <2>2 DEF Take
    <3> QED
        BY <2>2, <3>1 DEF TypeOK, Goto, OthersKeep, Phases
  <2> QED
      BY <2>1, <2>2
<1>3. CASE TakeFails(t)
    BY <1>3, RefusedLocal DEF TakeFails, Phases
<1>4. CASE Track(t)
  <2>1. CASE op[t] = "reallocate"
      BY <1>4, <2>1 DEF TypeOK, Track, Goto, OthersKeep
  <2>2. CASE op[t] # "reallocate"
      BY <1>4, <2>2, ReturnLocal DEF Track
  <2> QED
      BY <2>1, <2>2
<1>5. CASE TrackFails(t)
    BY <1>5 DEF TypeOK, TrackFails, Goto, OthersKeep, Phases
<1>6. CASE Pick(t)
  <2>1. CASE Return(t)
      BY <1>6, <2>1, ReturnLocal DEF Pick
  <2>2. CASE ~Return(t)
    <3>1. /\ OthersKeep(t) /\ pc[t] = "pick" /\ op' = op
          /\ pc'[t] \in {"drop", "close"}
          /\ pc'[t] = "close" => op[t] = "end" /\ \A s \in Slot : ~Wanted(t, s)
        BY <1>6, <2>2 DEF TypeOK, Pick, Goto, OthersKeep
    <3>2. pc'[t] = "close" => Empty
        BY <3>1 DEF Wanted, Empty
    <3> QED
        BY <3>1, <3>2 DEF Phases
  <2> QED
      BY <2>1, <2>2
<1>7. CASE Drop(t)
  <2>1. CASE Finish(t)
      BY <1>7, <2>1, FinishLocal DEF Drop, Looping
  <2>2. CASE ~Finish(t)
      BY <1>7, <2>2 DEF TypeOK, Drop, Goto, OthersKeep, Phases
  <2> QED
      BY <2>1, <2>2
<1>8. CASE Free(t)
    BY <1>8, FinishLocal DEF Free, Looping
<1>9. CASE Close(t)
    BY <1>9, ReturnLocal DEF Close
<1> QED
    BY <1>1, <1>2, <1>3, <1>4, <1>5, <1>6, <1>7, <1>8, <1>9 DEF Step

(* No step of a running call drops the last record of a block.             *)
LEMMA StepKeepsNoLeak ==
    ASSUME Kept, NEW t \in Task, Step(t)
    PROVE  NoLeak'
<1> USE DEF Kept, Ownership
<1>1. OthersKeep(t)
    BY StepPhase
<1>2. CASE Check(t) \/ TakeFails(t) \/ Pick(t) \/ (Drop(t) /\ UNCHANGED table)
  <2>1. ~Holding(t) /\ UNCHANGED <<heap, table, scratch>>
      BY <1>2 DEF Check, TakeFails, Pick, Drop, Holding, heapVars, tableVars
  <2>2. \A u \in Task : Holding(u) => Holding(u)' /\ ptr'[u] = ptr[u]
      BY <1>1, <2>1 DEF OthersKeep, Holding
  <2> QED
      BY <2>1, <2>2 DEF NoLeak, Tracked, HeldByATask
<1>3. CASE Take(t)
  <2>1. PICK a \in Addr :
          /\ heap' = [heap EXCEPT ![a] = order[t].bytes]
          /\ IF op[t] = "begin"
             THEN scratch' = a /\ Return(t)
             ELSE /\ ptr' = [ptr EXCEPT ![t] = a]
                  /\ Goto(t, "track")
                  /\ UNCHANGED <<scratch, op, order, old>>
      BY <1>3 DEF Take
  <2>2. /\ \A b \in Addr : b # a => heap'[b] = heap[b]
        /\ table' = table
        /\ ~Holding(t)
      BY <1>3, <2>1 DEF TypeOK, Take, tableVars, Holding
  <2>3. \A u \in Task : Holding(u) => Holding(u)' /\ ptr'[u] = ptr[u]
      BY <1>1, <2>2 DEF OthersKeep, Holding
  <2>4. \/ scratch = NoAddr /\ scratch' = a
        \/ scratch' = scratch /\ Holding(t)' /\ ptr'[t] = a
      BY <2>1 DEF TypeOK, Phases, Goto, Holding
  <2>5. ASSUME NEW b \in Addr \ Foreign, heap'[b] > 0, b # a
        PROVE  Tracked(b)' \/ b = scratch' \/ HeldByATask(b)'
    <3>1. Tracked(b) \/ b = scratch \/ HeldByATask(b)
        BY <2>2, <2>5 DEF NoLeak
    <3>2. b = scratch => b = scratch'
        BY <2>4, PoolAssumption DEF Addr
    <3> QED
        BY <2>2, <2>3, <3>1, <3>2 DEF Tracked, HeldByATask
  <2>6. a = scratch' \/ HeldByATask(a)'
      BY <2>4 DEF HeldByATask
  <2> QED
      BY <2>5, <2>6 DEF NoLeak
<1>4. CASE Track(t)
  <2>1. PICK s \in Slot :
          /\ table[s] = Vacant
          /\ table' = [table EXCEPT ![s] =
                [ptr |-> ptr[t], bytes |-> order[t].bytes,
                 region |-> order[t].region,
                 purpose |-> order[t].purpose, tag |-> order[t].tag]]
      BY <1>4 DEF Track, trackAllocation, IsFirst
  <2>2. table'[s] \in Record /\ table'[s].ptr = ptr[t]
        /\ \A r \in Slot : r # s => table'[r] = table[r]
    <3>1. ptr[t] \in Addr
        BY <1>4 DEF Track, HeldIsExclusive, Holding
    <3> QED
        BY <2>1, <3>1 DEF TypeOK, Record, Order
  <2>3. \A a : Tracked(a) => Tracked(a)'
      BY <2>1, <2>2 DEF Tracked
  <2>4. \A a : a = ptr[t] => Tracked(a)'
      BY <2>2, VacantAssumption DEF Tracked
  <2>5. \A a : HeldByATask(a) => HeldByATask(a)' \/ a = ptr[t]
      BY <1>1 DEF HeldByATask, OthersKeep, Holding
  <2> QED
      BY <1>4, <2>3, <2>4, <2>5 DEF NoLeak, Track, heapVars
<1>5. CASE TrackFails(t)
  <2>1. \A u \in Task : Holding(u) => Holding(u)' /\ ptr'[u] = ptr[u]
      BY <1>1, <1>5 DEF TypeOK, TrackFails, Goto, OthersKeep, Holding
  <2> QED
      BY <1>5, <2>1 DEF NoLeak, Tracked, HeldByATask, TrackFails, heapVars, tableVars
<1>6. CASE Drop(t) /\ ~UNCHANGED table
  <2>1. PICK s \in Slot : /\ table[s].ptr = ptr[t]
                          /\ table' = [table EXCEPT ![s] = Vacant]
      BY <1>6 DEF Drop, FindRecord, IsFirst, untrack, tableVars
  <2>2. /\ Holding(t)' /\ ptr' = ptr /\ ~Holding(t)
        /\ UNCHANGED <<heap, scratch>>
      BY <1>6 DEF TypeOK, Drop, Goto, Holding, heapVars, tableVars
  <2>3. \A a : Tracked(a) => Tracked(a)' \/ a = ptr[t]
      BY <2>1 DEF TypeOK, Tracked
  <2>4. \A a : HeldByATask(a) => HeldByATask(a)'
      BY <1>1, <2>2 DEF HeldByATask, OthersKeep, Holding
  <2>5. HeldByATask(ptr[t])'
      BY <2>2 DEF HeldByATask
  <2> QED
      BY <2>2, <2>3, <2>4, <2>5 DEF NoLeak
<1>7. CASE Free(t)
  <2>1. /\ Holding(t) /\ ptr[t] \in Addr
        /\ heap'[ptr[t]] = 0
        /\ \A a \in Addr : a # ptr[t] => heap'[a] = heap[a]
        /\ UNCHANGED <<table, scratch>>
      BY <1>7 DEF TypeOK, Free, GiveBack, tableVars, Holding, HeldIsExclusive
  <2>2. \A a : HeldByATask(a) => HeldByATask(a)' \/ a = ptr[t]
      BY <1>1 DEF HeldByATask, OthersKeep, Holding
  <2> QED
      BY <2>1, <2>2 DEF NoLeak, Tracked
<1>8. CASE Close(t)
  <2>1. /\ ~Holding(t)
        /\ \A a \in Addr : a # scratch => heap'[a] = heap[a]
        /\ scratch \in Addr => heap'[scratch] = 0
        /\ table' = table
      BY <1>8, PoolAssumption DEF TypeOK, Close, GiveBack, heapVars, tableVars, Holding, Addr
  <2>2. \A u \in Task : Holding(u) => Holding(u)' /\ ptr'[u] = ptr[u]
      BY <1>1, <2>1 DEF OthersKeep, Holding
  <2>3. ASSUME NEW a \in Addr \ Foreign, heap'[a] > 0
        PROVE  Tracked(a)' \/ HeldByATask(a)'
    <3>1. a # scratch
        BY <2>1, <2>3
    <3>2. Tracked(a) \/ HeldByATask(a)
        BY <2>1, <2>3, <3>1 DEF NoLeak
    <3> QED
        BY <2>1, <2>2, <3>2 DEF Tracked, HeldByATask
  <2> QED
      BY <2>3 DEF NoLeak
<1> QED
    BY <1>2, <1>3, <1>4, <1>5, <1>6, <1>7, <1>8 DEF Step

(* A step of a running call keeps the four parts of the invariant.         *)
LEMMA StepKeepsAll ==
    ASSUME Kept, NEW t \in Task, Step(t)
    PROVE  Kept'
<1> USE DEF Kept
<1>1. Ownership'
    BY NextKeepsOwnership DEF Next
<1>2. NoLeak'
    BY StepKeepsNoLeak
<1>3. /\ OthersKeep(t)
      /\ pc[t] # "idle"
      /\ \/ pc'[t] = "idle" /\ op'[t] = "none"
         \/ pc'[t] # "idle" /\ op'[t] = op[t]
      /\ op'[t] = "begin" => pc'[t] \in {"check", "take"}
      /\ pc'[t] = "close" => pc[t] = "pick" /\ op[t] = "end" /\ Empty
    BY StepPhase
<1>4. /\ ready
      /\ \A u \in Task : op[u] \in {"begin", "end"} => u = Keeper
    BY <1>3 DEF Alone, Phases
<1>5. op[Keeper] \in {"begin", "end"} => t = Keeper
    BY <1>3 DEF Alone
<1>6. /\ op'[t] = "begin" => scratch' = scratch
      /\ scratch' # scratch => op[t] \in {"begin", "end"}
    BY <1>3 DEF Step, Check, Take, TakeFails, Track, TrackFails, Pick, Drop,
                Free, Close, Return, Call, Phases, Ownership, TypeOK
<1>7. pc'[t] = "close" => Empty'
  <2>1. pc[t] = "pick" => table' = table
      BY DEF Step, Check, Take, TakeFails, Track, TrackFails, Pick, Drop, Free,
             Close, tableVars
  <2> QED
      BY <1>3, <2>1 DEF Empty
<1>8. \A u \in Task \ {t} : pc[u] = "close" => FALSE
    BY <1>3, <1>4, <1>5 DEF Phases
<1>9. \A u \in Task \ {t} : op[u] = "begin" => FALSE
    BY <1>3, <1>4, <1>5 DEF Phases
<1>10. Phases'
  <2>1. ASSUME NEW u \in Task, u # t
        PROVE  /\ pc[u]' = "idle" <=> op[u]' = "none"
               /\ op[u]' \in {"begin", "end"} => u = Keeper
               /\ pc[u]' # "close"
               /\ op[u]' # "begin"
      BY <1>3, <1>8, <1>9, <2>1 DEF Phases, OthersKeep
  <2>2. /\ pc[t]' = "idle" <=> op[t]' = "none"
        /\ op[t]' \in {"begin", "end"} => t = Keeper
        /\ pc[t]' = "close" => op[t]' = "end" /\ Empty'
        /\ op[t]' = "begin" => pc[t]' \in {"check", "take"} /\ scratch' = NoAddr
      BY <1>3, <1>6, <1>7 DEF Phases
  <2> QED
      BY <2>1, <2>2 DEF Phases
<1>11. Alone'
  <2>1. op[Keeper]' \in {"begin", "end"} => \A u \in Task \ {Keeper} : pc[u]' = "idle"
      BY <1>3, <1>5, TaskAssumption DEF Alone, OthersKeep
  <2>2. CASE ready'
      BY <2>1, <2>2 DEF Alone
  <2>3. CASE ~ready'
    <3>1. pc[t] = "close" /\ scratch' = NoAddr /\ table' = table /\ Return(t)
        BY <1>4, <2>3
        DEF Step, Check, Take, TakeFails, Track, TrackFails, Pick, Drop, Free,
            Close, tableVars
    <3>2. t = Keeper /\ Empty' /\ op[t] = "end"
        BY <1>4, <3>1 DEF Phases, Empty
    <3>3. pc'[t] = "idle" /\ \A u \in Task \ {t} : pc'[u] = "idle"
        BY <1>3, <3>1, <3>2, ReturnLocal DEF Alone, OthersKeep, Ownership
    <3> QED
        BY <2>1, <3>1, <3>2, <3>3 DEF Alone
  <2> QED
      BY <2>2, <2>3
<1> QED
    BY <1>1, <1>2, <1>10, <1>11

(* With begin() and end() run alone, the whole invariant holds in every    *)
(* reachable state.                                                        *)
LEMMA KeptInvariant == ASSUME ExclusiveLifecycle PROVE Spec => []Kept
<1>1. Init => Kept
  <2> SUFFICES ASSUME Init PROVE Kept
      OBVIOUS
  <2>1. NoLeak
      BY DEF Init, NoLeak
  <2>2. Phases /\ Alone
      BY TaskAssumption DEF Init, Phases, Alone, Empty
  <2> QED
      BY <2>1, <2>2, InitOwnership DEF Kept
<1>2. Kept /\ [Next]_vars => Kept'
  <2> SUFFICES ASSUME Kept, [Next]_vars PROVE Kept'
      OBVIOUS
  <2>1. CASE UNCHANGED vars
    <3>1. Ownership'
        BY NextKeepsOwnership DEF Kept
    <3> QED
        BY <2>1, <3>1 DEF vars, Kept, Phases, Alone, Empty, NoLeak, Tracked,
                          HeldByATask, Holding
  <2>2. ASSUME NEW t \in Task, Start(t) PROVE Kept'
      BY <2>2, StartKeepsAll
  <2>3. ASSUME NEW t \in Task, Step(t) PROVE Kept'
      BY <2>3, StepKeepsAll
  <2> QED
      BY <2>1, <2>2, <2>3 DEF Next
<1> QED
    BY <1>1, <1>2, PTL DEF Spec

(* Provided begin() and end() run with no other task inside the manager:    *)
(* every block taken from the heap is in the table, is the scratch block,   *)
(* or is in the hands of a running call.  No path of allocateTracked,       *)
(* reallocate, release or end() loses one, whatever the other tasks do.     *)
THEOREM NothingLeaks == ASSUME ExclusiveLifecycle PROVE Spec => []NoLeak
<1>1. Kept => NoLeak
    BY DEF Kept
<1> QED
    BY <1>1, KeptInvariant, PTL
-----------------------------------------------------------------------------
(* MemoryManager implements OwnershipLedger when begin() and end() run    *)
(* with no other task inside the manager.                                  *)

Block == Addr \ Foreign

(* A block is in the place its owner's name says, and in no other. *)
Placed ==
    /\ owners \in [Block -> {"heap", "table", "scratch"} \cup Task]
    /\ \A b \in Block :
        /\ owners[b] = "heap" <=> heap[b] = 0
        /\ owners[b] = "table" <=> Tracked(b)
        /\ owners[b] = "scratch" <=> b = scratch
        /\ \A t \in Task : owners[b] = t <=> Holding(t) /\ ptr[t] = b

(* The invariant of NothingLeaks gives each block exactly one place, so the *)
(* mapping names the owner that the ledger means.                           *)
LEMMA OwnersPlaced == Kept => Placed
<1> SUFFICES ASSUME Kept PROVE Placed
    OBVIOUS
<1> USE DEF Kept, Ownership
<1>1. \A b \in Block : b \in Addr /\ b \notin Foreign /\ b # NoAddr
    BY PoolAssumption DEF Block, Addr
<1>2. \A b \in Block : heap[b] \in Nat
    BY <1>1 DEF TypeOK
<1>3. \A b \in Block : Tracked(b) => heap[b] > 0
    BY DEF TrackedIsLive, Tracked
<1>4. \A b \in Block : b = scratch => heap[b] > 0 /\ ~Tracked(b)
    BY <1>1 DEF ScratchIsSafe
<1>5. \A b \in Block, t \in Task : Holding(t) /\ ptr[t] = b =>
          /\ heap[b] > 0 /\ ~Tracked(b) /\ b # scratch
          /\ HeldByATask(b)
          /\ \A u \in Task : Holding(u) /\ ptr[u] = b => u = t
    BY DEF HeldIsExclusive, HeldByATask
<1>6. \A b \in Block : heap[b] > 0 => Tracked(b) \/ b = scratch \/ HeldByATask(b)
    BY DEF NoLeak, Block
<1>7. ASSUME NEW b \in Block
      PROVE  /\ ownerOf(b) \in {"heap", "table", "scratch"} \cup Task
             /\ ownerOf(b) = "heap" <=> heap[b] = 0
             /\ ownerOf(b) = "table" <=> Tracked(b)
             /\ ownerOf(b) = "scratch" <=> b = scratch
             /\ \A t \in Task : ownerOf(b) = t <=> Holding(t) /\ ptr[t] = b
  <2>1. "heap" \notin Task /\ "table" \notin Task /\ "scratch" \notin Task
      BY TaskAssumption
  <2>2. CASE heap[b] = 0
    <3>1. ownerOf(b) = "heap"
        BY <2>2 DEF ownerOf
    <3> QED
        BY <1>3, <1>4, <1>5, <2>1, <2>2, <3>1
  <2>3. CASE Tracked(b)
    <3>1. ownerOf(b) = "table"
        BY <1>3, <2>3 DEF ownerOf
    <3> QED
        BY <1>3, <1>4, <1>5, <2>1, <2>3, <3>1
  <2>4. CASE b = scratch
    <3>1. ownerOf(b) = "scratch"
        BY <1>4, <2>4 DEF ownerOf
    <3> QED
        BY <1>4, <1>5, <2>1, <2>4, <3>1
  <2>5. ASSUME NEW t \in Task, Holding(t), ptr[t] = b
        PROVE  ownerOf(b) = t
    <3>1. ownerOf(b) = CHOOSE u \in Task : Holding(u) /\ ptr[u] = b
        BY <1>5, <2>5 DEF ownerOf
    <3>2. \A u \in Task : Holding(u) /\ ptr[u] = b => u = t
        BY <1>5, <2>5
    <3> QED
        BY <2>5, <3>1, <3>2
  <2>6. CASE HeldByATask(b)
    <3>1. PICK t \in Task : Holding(t) /\ ptr[t] = b
        BY <2>6 DEF HeldByATask
    <3>2. ownerOf(b) = t
        BY <2>5, <3>1
    <3> QED
        BY <1>5, <2>1, <3>1, <3>2
  <2> QED
      BY <1>2, <1>6, <2>2, <2>3, <2>4, <2>6
<1> QED
    BY <1>7 DEF Placed, owners, Block

(* A block that a step leaves where it is keeps its owner. *)
Stays(b) == /\ heap[b] = 0 => heap'[b] = 0
            /\ Tracked(b) => Tracked(b)'
            /\ b = scratch => b = scratch'
            /\ \A t \in Task : Holding(t) /\ ptr[t] = b =>
                                   (Holding(t) /\ ptr[t] = b)'
(* A block that stays where it is keeps its owner.                         *)
LEMMA StaysKeepsOwner ==
    ASSUME Placed, Placed', NEW b \in Block, Stays(b)
    PROVE  owners'[b] = owners[b]
<1>1. owners[b] \in {"heap", "table", "scratch"} \cup Task
    BY DEF Placed
<1> QED
    BY <1>1 DEF Placed, Stays

(* A step that moves one block is the ledger's step of passing it on.       *)
LEMMA OneBlockPasses ==
    ASSUME Placed, Placed', NEW b \in Block,
           \A c \in Block \ {b} : Stays(c)
    PROVE  Ledger!Pass(b, owners[b], owners'[b])
<1>1. owners \in [Block -> {"heap", "table", "scratch"} \cup Task]
    BY DEF Placed
<1>2. owners' \in [Block -> {"heap", "table", "scratch"} \cup Task]
    BY DEF Placed
<1>3. \A c \in Block \ {b} : owners'[c] = owners[c]
    BY StaysKeepsOwner
<1>4. owners' = [owners EXCEPT ![b] = owners'[b]]
    BY <1>1, <1>2, <1>3
<1> QED
    BY <1>4 DEF Ledger!Pass

(* A step that moves no block is a stutter of the ledger.                   *)
LEMMA NoBlockPasses ==
    ASSUME Placed, Placed', \A c \in Block : Stays(c)
    PROVE  UNCHANGED owners
<1>1. owners \in [Block -> {"heap", "table", "scratch"} \cup Task]
    BY DEF Placed
<1>2. owners' \in [Block -> {"heap", "table", "scratch"} \cup Task]
    BY DEF Placed
<1>3. \A c \in Block : owners'[c] = owners[c]
    BY StaysKeepsOwner
<1> QED
    BY <1>1, <1>2, <1>3
-----------------------------------------------------------------------------
(* The block a running call gets, keeps or gives up is the only one that    *)
(* its task holds.                                                          *)
LEMMA HoldsAtMostOne ==
    ASSUME Placed, NEW t \in Task, NEW b \in Block, owners[b] = t
    PROVE  \A c \in Block : owners[c] = t => c = b
BY DEF Placed

(* Beginning a call moves no block: begin() finds the table empty and no    *)
(* scratch block.                                                           *)
LEMMA StartStutters ==
    ASSUME Kept, Placed, Placed', NEW t \in Task, Start(t)
    PROVE  UNCHANGED owners
<1> USE DEF Kept, Ownership
<1>1. CASE Begin(t)
  <2>1. /\ ~ready /\ heap' = heap /\ scratch' = NoAddr /\ ptr' = ptr
        /\ pc[t] = "idle"
        /\ \A u \in Task \ {t} : pc'[u] = pc[u]
      BY <1>1 DEF Begin, heapVars, Call, Goto, TypeOK
  <2>2. scratch = NoAddr /\ \A b \in Block : ~Tracked(b)
      BY <2>1 DEF Alone, Empty, Tracked
  <2> QED
      BY <2>1, <2>2, NoBlockPasses DEF Stays, Holding
<1>2. CASE ~Begin(t)
  <2>1. Quiet(t) /\ ~Holding(t)
      BY <1>2, StartIsQuiet
  <2>2. \A u \in Task : Holding(u) => Holding(u)' /\ ptr'[u] = ptr[u]
      BY <2>1 DEF Quiet, OthersKeep, Holding
  <2> QED
      BY <2>1, <2>2, NoBlockPasses DEF Stays, Quiet, Tracked
<1> QED
    BY <1>1, <1>2

(* Every step of a running call is one of the ledger's five moves, or moves *)
(* no block.                                                                *)
LEMMA StepIsLedgers ==
    ASSUME Kept, Placed, Placed', NEW t \in Task, Step(t)
    PROVE  Ledger!Next \/ UNCHANGED owners
<1> USE DEF Kept, Ownership
<1>1. OthersKeep(t) /\ t \in Task
    BY StepPhase
<1>2. \A u \in Task \ {t} : Holding(u) => Holding(u)' /\ ptr'[u] = ptr[u]
    BY <1>1 DEF OthersKeep, Holding
<1>3. \A b \in Block : b \in Addr /\ b \notin Foreign /\ b # NoAddr
    BY PoolAssumption DEF Block, Addr
<1>4. ASSUME NEW b \in Block,
             \/ Ledger!SetAside(b) \/ Ledger!Dissolve(b)
             \/ Ledger!Take(t, b) \/ Ledger!Enter(t, b)
             \/ Ledger!Strike(t, b) \/ Ledger!GiveUp(t, b)
      PROVE  Ledger!Next
    BY <1>4 DEF Ledger!Next, Block
<1>5. CASE Check(t) \/ TakeFails(t) \/ Pick(t) \/ (Drop(t) /\ UNCHANGED table)
           \/ (Close(t) /\ scratch = NoAddr)
  <2>1. ~Holding(t) /\ UNCHANGED <<heap, table, scratch>>
      BY <1>5 DEF Check, TakeFails, Pick, Drop, Close, Holding, heapVars,
                  tableVars
  <2> QED
      BY <1>2, <2>1, NoBlockPasses DEF Stays, Tracked
<1>6. CASE TrackFails(t)
  <2>1. Holding(t)' /\ ptr' = ptr /\ UNCHANGED <<heap, table, scratch>>
      BY <1>6 DEF TrackFails, Goto, Holding, heapVars, tableVars, TypeOK
  <2> QED
      BY <1>2, <2>1, NoBlockPasses DEF Stays, Tracked
<1>7. CASE Take(t)
  <2>1. PICK a \in Addr :
            /\ heap[a] = 0
            /\ heap' = [heap EXCEPT ![a] = order[t].bytes]
            /\ IF op[t] = "begin"
               THEN scratch' = a
               ELSE /\ ptr' = [ptr EXCEPT ![t] = a]
                    /\ Goto(t, "track")
                    /\ scratch' = scratch
      BY <1>7 DEF Take
  <2>2. a \in Block
      BY <2>1 DEF ForeignUntouched, Block
  <2>3. ~Holding(t) /\ pc[t] = "take" /\ table' = table
      BY <1>7 DEF Take, Holding, tableVars
  <2>4. ASSUME NEW c \in Block \ {a} PROVE c # scratch => Stays(c)
      BY <1>2, <2>1, <2>3, <1>3 DEF Stays, Tracked, TypeOK
  <2>5. owners[a] = "heap"
      BY <2>1, <2>2 DEF Placed
  <2>6. CASE op[t] = "begin"
    <3>1. scratch = NoAddr /\ scratch' = a
        BY <2>1, <2>6 DEF Phases
    <3>2. owners'[a] = "scratch" /\ ~Ledger!HasBlock("scratch")
        BY <2>2, <3>1, <1>3 DEF Placed, Ledger!HasBlock, Block
    <3>3. \A c \in Block \ {a} : Stays(c)
        BY <2>4, <3>1, <1>3
    <3>4. Ledger!SetAside(a)
        BY <2>2, <2>5, <3>2, <3>3, OneBlockPasses DEF Ledger!SetAside
    <3> QED
        BY <1>4, <2>2, <3>4
  <2>7. CASE op[t] # "begin"
    <3>1. scratch' = scratch /\ Holding(t)' /\ ptr'[t] = a
        BY <2>1, <2>7 DEF Goto, Holding, TypeOK
    <3>2. owners'[a] = t /\ ~Ledger!HasBlock(t)
        BY <2>2, <2>3, <3>1 DEF Placed, Ledger!HasBlock, Block
    <3>3. \A c \in Block \ {a} : Stays(c)
        BY <1>2, <2>1, <2>3, <3>1, <1>3 DEF Stays, Tracked, TypeOK
    <3>4. Ledger!Take(t, a)
        BY <2>2, <2>5, <3>2, <3>3, OneBlockPasses DEF Ledger!Take
    <3> QED
        BY <1>4, <2>2, <3>4
  <2> QED
      BY <2>6, <2>7
<1>8. CASE Track(t)
  <2>1. Holding(t) /\ ptr[t] \in Block /\ UNCHANGED <<heap, scratch>>
      BY <1>8 DEF Track, Holding, HeldIsExclusive, Block, heapVars
  <2>2. PICK s \in Slot : trackAllocation(t, s)
      BY <1>8 DEF Track
  <2>3. table[s] = Vacant /\ table'[s].ptr = ptr[t] /\ table'[s] # Vacant
        /\ \A r \in Slot \ {s} : table'[r] = table[r]
    <3>1. [ptr |-> ptr[t], bytes |-> order[t].bytes, region |-> order[t].region,
           purpose |-> order[t].purpose, tag |-> order[t].tag] \in Record
        BY <2>1, <1>3 DEF Record, TypeOK, Order
    <3> QED
        BY <2>2, <3>1, VacantAssumption DEF trackAllocation, IsFirst, TypeOK
  <2>4. \A c \in Block : Tracked(c) \/ c = ptr[t] => Tracked(c)'
      BY <2>3 DEF Tracked
  <2>5. owners[ptr[t]] = t /\ owners'[ptr[t]] = "table"
      BY <2>1, <2>4 DEF Placed
  <2>6. \A c \in Block \ {ptr[t]} : Stays(c)
      BY <1>2, <2>1, <2>4 DEF Stays
  <2>7. Ledger!Enter(t, ptr[t])
      BY <2>1, <2>5, <2>6, OneBlockPasses DEF Ledger!Enter
  <2> QED
      BY <1>4, <2>1, <2>7
<1>9. CASE Drop(t) /\ ~UNCHANGED table
  <2>1. PICK s \in Slot : /\ table[s] # Vacant
                          /\ table[s].ptr = ptr[t]
                          /\ table' = [table EXCEPT ![s] = Vacant]
      BY <1>9 DEF Drop, FindRecord, IsFirst, untrack, tableVars
  <2>2. /\ Holding(t)' /\ ptr' = ptr /\ ~Holding(t)
        /\ UNCHANGED <<heap, scratch>>
      BY <1>9 DEF TypeOK, Drop, Goto, Holding, heapVars, tableVars
  <2>3. ptr[t] \in Block
      BY <2>1 DEF TrackedIsLive, TypeOK, Record, Block
  <2>4. \A c \in Block : Tracked(c) => Tracked(c)' \/ c = ptr[t]
      BY <2>1 DEF TypeOK, Tracked
  <2>5. /\ owners[ptr[t]] = "table" /\ owners'[ptr[t]] = t
        /\ ~Ledger!HasBlock(t)
      BY <2>1, <2>2, <2>3 DEF Placed, Tracked, Ledger!HasBlock, Block
  <2>6. \A c \in Block \ {ptr[t]} : Stays(c)
      BY <1>2, <2>2, <2>4 DEF Stays
  <2>7. Ledger!Strike(t, ptr[t])
      BY <2>3, <2>5, <2>6, OneBlockPasses DEF Ledger!Strike
  <2> QED
      BY <1>4, <2>3, <2>7
<1>10. CASE Free(t)
  <2>1. /\ Holding(t) /\ ptr[t] \in Block
        /\ heap'[ptr[t]] = 0
        /\ \A c \in Addr : c # ptr[t] => heap'[c] = heap[c]
        /\ UNCHANGED <<table, scratch>>
      BY <1>10 DEF TypeOK, Free, GiveBack, tableVars, Holding, HeldIsExclusive,
                  Block
  <2>2. owners[ptr[t]] = t /\ owners'[ptr[t]] = "heap"
      BY <2>1 DEF Placed
  <2>3. \A c \in Block \ {ptr[t]} : Stays(c)
      BY <1>2, <2>1, <1>3 DEF Stays, Tracked
  <2>4. Ledger!GiveUp(t, ptr[t])
      BY <2>1, <2>2, <2>3, OneBlockPasses DEF Ledger!GiveUp
  <2> QED
      BY <1>4, <2>1, <2>4
<1>11. CASE Close(t) /\ scratch # NoAddr
  <2>1. scratch \in Block
      BY <1>11 DEF ScratchIsSafe, TypeOK, Block
  <2>2. /\ ~Holding(t) /\ heap'[scratch] = 0
        /\ \A c \in Addr : c # scratch => heap'[c] = heap[c]
        /\ table' = table
      BY <1>11, <2>1, <1>3 DEF Close, GiveBack, tableVars, Holding, TypeOK
  <2>3. owners[scratch] = "scratch" /\ owners'[scratch] = "heap"
      BY <2>1, <2>2 DEF Placed
  <2>4. \A c \in Block \ {scratch} : Stays(c)
      BY <1>2, <2>2, <1>3 DEF Stays, Tracked
  <2>5. Ledger!Dissolve(scratch)
      BY <2>1, <2>3, <2>4, OneBlockPasses DEF Ledger!Dissolve
  <2> QED
      BY <1>4, <2>1, <2>5
<1> QED
    BY <1>5, <1>6, <1>7, <1>8, <1>9, <1>10, <1>11 DEF Step

(* Provided begin() and end() run with no other task inside the manager:    *)
(* the manager implements the ledger.  Each block of the heap has one owner *)
(* at a time, whatever the tasks do and however many they are; a block goes *)
(* from the heap to one running call, from there into the table or back,    *)
(* and out of the table only into the hands of one call that frees it.      *)
THEOREM KeepsTheLedger == ASSUME ExclusiveLifecycle PROVE Spec => LedgerSpec
<1>1. Init => Ledger!Init
  <2> SUFFICES ASSUME Init PROVE Ledger!Init
      OBVIOUS
  <2>1. \A b \in Addr \ Foreign : ownerOf(b) = "heap"
      BY DEF Init, ownerOf
  <2> QED
      BY <2>1 DEF Ledger!Init, owners
<1>2. (Kept => Placed) /\ (Kept => Placed)'
    BY OwnersPlaced, PTL
<1>3. Kept /\ Kept' /\ [Next]_vars => [Ledger!Next]_owners
  <2> SUFFICES ASSUME Kept, Kept', [Next]_vars
               PROVE  Ledger!Next \/ UNCHANGED owners
      OBVIOUS
  <2>1. Placed /\ Placed'
      BY <1>2
  <2>2. ASSUME NEW t \in Task, Start(t) PROVE UNCHANGED owners
      BY <2>1, <2>2, StartStutters
  <2>3. ASSUME NEW t \in Task, Step(t)
        PROVE  Ledger!Next \/ UNCHANGED owners
      BY <2>1, <2>3, StepIsLedgers
  <2>4. CASE UNCHANGED vars
      BY <2>1, <2>4, NoBlockPasses
      DEF vars, Stays, Tracked, Holding
  <2> QED
      BY <2>2, <2>3, <2>4 DEF Next
<1> QED
    BY <1>1, <1>3, KeptInvariant, PTL DEF Spec, LedgerSpec, Ledger!Spec
-----------------------------------------------------------------------------
(* One task alone.  Between two steps of its call nobody takes from the     *)
(* heap what the admission test saw, and nobody releases the block that     *)
(* reallocate is replacing; with two tasks both can happen.                 *)
OneTask == \A t, u \in Task : t = u

Approved == \A t \in Task : pc[t] = "take" => Admits(order[t].region, order[t].bytes)
CallStays == Approved /\ ReallocKeepsOld

(* A call starts before its admission test, and reallocate with a block    *)
(* that it found in the table.                                             *)
LEMMA StartKeepsCall ==
    ASSUME TypeOK, OneTask, CallStays, NEW t \in Task, Start(t)
    PROVE  CallStays' /\ free' = free
<1>1. pc[t] = "idle" /\ free' = free
    BY DEF Start, Allocate, AllocateFixed, AllocateIn, Reallocate, Release, ReleaseTag,
           ReleaseAll, Begin, End, CanCall, heapVars
<1>2. pc'[t] \in {"idle", "check", "drop", "pick"}
    BY DEF TypeOK, Start, Allocate, AllocateFixed, AllocateIn, Reallocate, Release, ReleaseTag,
           ReleaseAll, Begin, End, Call, Goto
<1>3. \A u \in Task : u = t
    BY DEF OneTask
<1>4. op'[t] = "reallocate" /\ pc'[t] = "check" => Tracked(old[t])'
  <2>1. CASE Reallocate(t)
    <3>1. PICK s \in Slot : table[s] # Vacant /\ old' = [old EXCEPT ![t] = table[s].ptr]
        BY <2>1 DEF Reallocate
    <3>2. table' = table /\ old'[t] = table[s].ptr
        BY <2>1, <3>1 DEF TypeOK, Reallocate, tableVars
    <3> QED
        BY <3>1, <3>2 DEF Tracked
  <2>2. CASE ~Reallocate(t)
    <3>1. op'[t] = "reallocate" => pc'[t] = "idle"
        BY <1>1, <2>2 DEF TypeOK, Start, Allocate, AllocateFixed, AllocateIn, Release, ReleaseTag,
                          ReleaseAll, Begin, End, Call, Goto
    <3> QED
        BY <3>1
  <2> QED
      BY <2>1, <2>2
<1>5. Approved'
    BY <1>2, <1>3 DEF Approved
<1>6. ReallocKeepsOld'
    BY <1>2, <1>3, <1>4 DEF ReallocKeepsOld
<1> QED
    BY <1>1, <1>5, <1>6 DEF CallStays

(* Up to Track a step leaves the table and reallocate's argument alone,    *)
(* and it reaches Take only through the admission test.                    *)
LEMMA StepKeepsCall ==
    ASSUME TypeOK, OneTask, CallStays, NEW t \in Task, Step(t)
    PROVE  CallStays'
<1>1. \A u \in Task : u = t
    BY DEF OneTask
<1>2. ASSUME pc'[t] = "take" => Admits(order[t].region, order[t].bytes)',
             \/ op'[t] # "reallocate" \/ pc'[t] \notin {"check", "take", "track"}
             \/ /\ op[t] = "reallocate" /\ pc[t] \in {"check", "take", "track"}
                /\ table' = table /\ old' = old
      PROVE  CallStays'
  <2>1. Approved'
      BY <1>1, <1>2 DEF Approved
  <2>2. ReallocKeepsOld'
      BY <1>1, <1>2 DEF CallStays, ReallocKeepsOld, Tracked
  <2> QED
      BY <2>1, <2>2 DEF CallStays
<1>3. ASSUME Refused(t), table' = table, pc[t] \in {"check", "take"}
      PROVE  CallStays'
  <2>1. CASE Return(t)
      BY <1>2, <2>1, ReturnLocal
  <2>2. CASE ~Return(t)
    <3>1. pc'[t] = "check" /\ op' = op /\ old' = old
        BY <1>3, <2>2 DEF TypeOK, Refused, Goto
    <3> QED
        BY <1>2, <1>3, <3>1
  <2> QED
      BY <2>1, <2>2
<1>4. CASE Check(t)
  <2>1. CASE Refused(t)
      BY <1>3, <1>4, <2>1 DEF Check, tableVars
  <2>2. CASE ~Refused(t)
    <3>1. /\ Admits(order[t].region, order[t].bytes)
          /\ pc[t] = "check" /\ pc'[t] = "take"
          /\ UNCHANGED <<op, order, old, table, free, ready>>
        BY <1>4, <2>2 DEF TypeOK, Check, Goto, tableVars, heapVars
    <3>2. Admits(order[t].region, order[t].bytes)'
        BY <3>1 DEF Admits, psram_available, InternalFree, FreeIn
    <3> QED
        BY <1>2, <3>1, <3>2
  <2> QED
      BY <2>1, <2>2
<1>5. CASE Take(t)
  <2>1. pc[t] = "take" /\ table' = table
      BY <1>5 DEF Take, tableVars
  <2>2. CASE op[t] = "begin"
    <3>1. Return(t)
        BY <1>5, <2>2 DEF Take
    <3> QED
        BY <1>2, <3>1, ReturnLocal
  <2>3. CASE op[t] # "begin"
    <3>1. pc'[t] = "track" /\ op' = op /\ old' = old
        BY <1>5, <2>3 DEF TypeOK, Take, Goto
    <3> QED
        BY <1>2, <2>1, <3>1
  <2> QED
      BY <2>2, <2>3
<1>6. CASE TakeFails(t)
    BY <1>3, <1>6 DEF TakeFails, tableVars
<1>7. CASE Track(t) \/ TrackFails(t) \/ Pick(t) \/ Drop(t) \/ Free(t) \/ Close(t)
  <2>1. CASE Return(t) \/ Finish(t)
      BY <1>2, <2>1, ReturnLocal, FinishLocal
  <2>2. CASE ~(Return(t) \/ Finish(t))
    <3>1. pc'[t] \in {"drop", "free", "pick", "close"}
        BY <1>7, <2>2 DEF TypeOK, Track, TrackFails, Pick, Drop, Free, Close, Goto
    <3> QED
        BY <1>2, <3>1
  <2> QED
      BY <2>1, <2>2
<1> QED
    BY <1>4, <1>5, <1>6, <1>7 DEF Step

(* What begin() and end() do, too, happens between calls.                  *)
LEMMA CallStaysInvariant == ASSUME OneTask PROVE Spec => [](Ownership /\ CallStays)
<1>1. Init => CallStays
    BY DEF Init, CallStays, Approved, ReallocKeepsOld
<1>2. Ownership /\ CallStays /\ [Next]_vars => CallStays'
  <2> SUFFICES ASSUME Ownership, CallStays, [Next]_vars PROVE CallStays'
      OBVIOUS
  <2>1. TypeOK
      BY DEF Ownership
  <2>2. ASSUME NEW t \in Task, Start(t) PROVE CallStays'
      BY <2>1, <2>2, StartKeepsCall
  <2>3. ASSUME NEW t \in Task, Step(t) PROVE CallStays'
      BY <2>1, <2>3, StepKeepsCall
  <2>4. CASE UNCHANGED vars
      BY <2>4 DEF vars, CallStays, Approved, ReallocKeepsOld, Tracked, Admits, psram_available,
                  InternalFree, FreeIn
  <2> QED
      BY <2>2, <2>3, <2>4 DEF Next
<1> QED
    BY <1>1, <1>2, OwnershipInvariant, PTL DEF Spec

(* reallocate (a comment in the code: the old block is released only after *)
(* the new one is there): as long as the search for a larger block lasts,  *)
(* its caller's block stays tracked, for a task on its own.                *)
THEOREM ReallocateKeepsOld == ASSUME OneTask PROVE Spec => []ReallocKeepsOld
<1>1. CallStays => ReallocKeepsOld
    BY DEF CallStays
<1> QED
    BY <1>1, CallStaysInvariant, PTL

(* A block comes out of one pool, which the region asked for reaches, and  *)
(* what is left there is what the admission test left.                     *)
LEMMA TakeLeavesReserve ==
    ASSUME TypeOK, Approved, NEW t \in Task, Take(t)
    PROVE  /\ free'["iram"] + free'["dma"] < InternalFree =>
                free'["iram"] + free'["dma"] >= InternalReserve
           /\ free'["psram"] < free["psram"] => free'["psram"] >= PSRAMReserve
<1>1. PICK a \in Addr :
        /\ PoolOf(a) \in PoolsOf(order[t].region)
        /\ free' = [free EXCEPT ![PoolOf(a)] = @ - order[t].bytes]
    BY DEF Take
<1>2. Admits(order[t].region, order[t].bytes)
    BY DEF Approved, Take
<1>3. /\ order[t].bytes \in Nat /\ order[t].region \in Region
      /\ free \in [Pools -> Nat] /\ InternalReserve \in Nat /\ PSRAMReserve \in Nat
    BY ConfigAssumption DEF TypeOK, Order
<1> DEFINE n == order[t].bytes
<1>4. CASE order[t].region = "PSRAM"
  <2>1. PoolOf(a) = "psram" /\ n + PSRAMReserve <= free["psram"]
      BY <1>1, <1>2, <1>4 DEF Admits, FreeIn, ReserveOf, PoolsOf
  <2> QED
      BY <1>1, <1>3, <2>1 DEF InternalFree, Pools
<1>5. CASE order[t].region \in {"Internal", "DMA"}
  <2>1. PoolOf(a) \in {"iram", "dma"} /\ n + InternalReserve <= InternalFree
      BY <1>1, <1>2, <1>5 DEF Admits, FreeIn, ReserveOf, PoolsOf
  <2> QED
      BY <1>1, <1>3, <2>1 DEF InternalFree, Pools
<1> QED
    BY <1>3, <1>4, <1>5 DEF Region

(* "The manager protects configurable reserve amounts before approving     *)
(* allocations": no step of a task on its own takes the free bytes of a    *)
(* region below the reserve, whatever is asked and whichever fallback is   *)
(* taken.                                                                  *)
THEOREM ReservesAreKept == ASSUME OneTask PROVE Spec => ReserveProtected
<1> DEFINE Kind == /\ free'["iram"] + free'["dma"] < InternalFree =>
                          free'["iram"] + free'["dma"] >= InternalReserve
                   /\ free'["psram"] < free["psram"] => free'["psram"] >= PSRAMReserve
<1>1. Ownership /\ CallStays /\ [Next]_vars => [Kind]_vars
  <2> SUFFICES ASSUME Ownership, CallStays, [Next]_vars, ~UNCHANGED vars PROVE Kind
      OBVIOUS
  <2>1. TypeOK /\ HeldIsExclusive
      BY DEF Ownership
  <2>2. ASSUME free' = free PROVE Kind
      BY <2>1, <2>2, PoolAssumption DEF TypeOK, InternalFree, Pools
  <2>3. ASSUME NEW a \in Addr, GiveBack(a) PROVE Kind
    <3>1. free' = [free EXCEPT ![PoolOf(a)] = @ + heap[a]] /\ heap[a] \in Nat
        BY <2>1, <2>3 DEF GiveBack, TypeOK
    <3>2. PoolOf(a) \in Pools
        BY PoolOfType
    <3> QED
        BY <2>1, <3>1, <3>2 DEF TypeOK, InternalFree, Pools
  <2>4. ASSUME NEW t \in Task, Start(t) PROVE Kind
      BY <2>1, <2>2, <2>4, StartKeepsCall
  <2>5. ASSUME NEW t \in Task, Step(t) PROVE Kind
    <3>1. CASE Take(t)
        BY <2>1, <3>1, TakeLeavesReserve DEF CallStays
    <3>2. CASE Free(t)
      <4>1. ptr[t] \in Addr
          BY <2>1, <3>2 DEF HeldIsExclusive, Holding, Free
      <4> QED
          BY <2>3, <3>2, <4>1 DEF Free
    <3>3. CASE Close(t)
      <4>1. CASE scratch = NoAddr
          BY <2>2, <3>3, <4>1 DEF Close, heapVars
      <4>2. CASE scratch # NoAddr
        <5>1. scratch \in Addr
            BY <2>1, <4>2 DEF TypeOK
        <5> QED
            BY <2>3, <3>3, <4>2, <5>1 DEF Close
      <4> QED
          BY <4>1, <4>2
    <3>4. CASE Check(t) \/ TakeFails(t) \/ Track(t) \/ TrackFails(t) \/ Pick(t) \/ Drop(t)
        BY <2>2, <3>4 DEF Check, TakeFails, Track, TrackFails, Pick, Drop, heapVars
    <3> QED
        BY <2>5, <3>1, <3>2, <3>3, <3>4 DEF Step
  <2> QED
      BY <2>4, <2>5 DEF Next
<1>2. ReserveProtected <=> [][Kind]_vars
    BY DEF ReserveProtected
<1> QED
    BY <1>1, <1>2, CallStaysInvariant, PTL DEF Spec
=============================================================================
