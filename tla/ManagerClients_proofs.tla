------------------------ MODULE ManagerClients_proofs ------------------------
(***************************************************************************)
(* Theorems about ManagerClients: about buffers and an object pool that    *)
(* share a manager, for any number of buffers and blocks, any capacity and *)
(* any depth of nesting; and, at the end, about DriverTakeover, which      *)
(* shares no state with them: who owns the AutoMemory singleton.           *)
(***************************************************************************)
EXTENDS ManagerClients, DriverTakeover, SequenceTheorems, FiniteSetTheorems, TLAPS

-----------------------------------------------------------------------------
(* Buffers.  BuffersTyped and OneOwner are inductive once it is known that *)
(* a manager that has ended holds nothing: what a buffer still points to   *)
(* then is no block, and the next begin finds no block without its buffer. *)

EndedHoldsNothing == ready \/ \A x \in Addr : held[x] = "free"
BuffersInv == BuffersTyped /\ OneOwner /\ EndedHoldsNothing

(* Before any buffer is constructed nothing is owned.                      *)
LEMMA InvInit == BuffersInit => BuffersInv
  BY BufferConstants DEF BuffersInit, BuffersInv, BuffersTyped, OneOwner, EndedHoldsNothing

(* What the manager's other users do. *)
LEMMA InvManager ==
  ASSUME BuffersInv, ManagerBegins \/ ManagerStops \/ OthersAllocate \/ OthersRelease
  PROVE BuffersInv'
<1> USE BufferConstants DEF BuffersInv, BuffersTyped, OneOwner, EndedHoldsNothing
<1>1. CASE ManagerBegins BY <1>1 DEF ManagerBegins
<1>2. CASE ManagerStops BY <1>2 DEF ManagerStops
<1>3. CASE OthersAllocate BY <1>3 DEF OthersAllocate
<1>4. CASE OthersRelease BY <1>4 DEF OthersRelease, Released
<1> QED BY <1>1, <1>2, <1>3, <1>4

(* A call on one buffer keeps one owner per block.                         *)
LEMMA InvBuffer ==
  ASSUME BuffersInv, NEW b \in Buffer,
         construct(b) \/ allocate(b) \/ release(b) \/ destruct(b)
  PROVE BuffersInv'
<1> USE BufferConstants DEF BuffersInv, BuffersTyped, OneOwner, EndedHoldsNothing
<1>1. CASE construct(b) BY <1>1 DEF construct
<1>2. CASE allocate(b)
  <2> DEFINE rest == Released(held, data[b])
  <2>1. /\ rest \in [Addr -> {"free", "other", "buffer"}]
        /\ ready => \A x \in Addr :
             rest[x] = "buffer" <=> \E c \in Buffer \ {b} : data[c] = x
        /\ ready \/ \A x \in Addr : rest[x] = "free"
    BY DEF Released
  <2>2. CASE /\ held' = rest
             /\ data' = [data EXCEPT ![b] = Null]
             /\ UNCHANGED <<ready, alive>>
    <3> HIDE DEF rest
    <3> QED BY <2>1, <2>2
  <2>3. ASSUME NEW x \in Addr, ready, rest[x] = "free",
               held' = [rest EXCEPT ![x] = "buffer"],
               data' = [data EXCEPT ![b] = x],
               UNCHANGED <<ready, alive>>, b \in alive
        PROVE  BuffersInv'
    <3> HIDE DEF rest
    <3> QED BY <2>1, <2>3
  <2> QED BY <1>2, <2>2, <2>3 DEF allocate
<1>3. CASE release(b) BY <1>3 DEF release, Released
<1>4. CASE destruct(b) BY <1>4 DEF destruct, Released
<1> QED BY <1>1, <1>2, <1>3, <1>4

(* So does a move from one to another, which leaves the source empty.      *)
LEMMA InvMove ==
  ASSUME BuffersInv, NEW b \in Buffer, NEW c \in Buffer,
         moveConstruct(b, c) \/ moveAssign(b, c)
  PROVE BuffersInv'
<1> USE BufferConstants DEF BuffersInv, BuffersTyped, OneOwner, EndedHoldsNothing
<1>1. CASE moveConstruct(b, c) BY <1>1 DEF moveConstruct
<1>2. CASE moveAssign(b, c) BY <1>2 DEF moveAssign, Released
<1> QED BY <1>1, <1>2

-----------------------------------------------------------------------------
(* The pool's slots *)

Frame == [call : {"create", "destroy"} \cup Clears, slot : Slot]
Frames == stack \in Seq(Frame)
Constructing(i) ==
    \E n \in DOMAIN stack : stack[n].call = "create" /\ stack[n].slot = i

Typed ==
    /\ storage \in {"none", "own", "gone"}
    /\ used \in [Slot -> BOOLEAN]
    /\ objects \in [Slot -> Nat]
    /\ Frames

(* Each waiting call has a slot of its own, which is not yet marked if it   *)
(* is being created and still marked if it is being destroyed.  At most one *)
(* object is under construction, and none while the pool is being cleared;  *)
(* a clearing call is the first of the stack, and the slots it has passed   *)
(* stay empty.                                                              *)
OwnSlots == \A m, n \in DOMAIN stack : stack[m].slot = stack[n].slot => m = n
Marks == \A n \in DOMAIN stack : stack[n].call = "create" <=> ~used[stack[n].slot]
OneConstructor ==
    \A m, n \in DOMAIN stack :
        stack[m].call = "create" /\ stack[n].call \in {"create"} \cup Clears => m = n
Clearing ==
    \A n \in DOMAIN stack : stack[n].call \in Clears =>
        n = 1 /\ \A j \in Slot : j < stack[n].slot => ~used[j]
StackIsSound == OwnSlots /\ Marks /\ OneConstructor /\ Clearing

(* The objects that live are those marked and the one under construction.   *)
Inventory ==
    /\ storageAlive => \A i \in Slot :
          objects[i] = IF used[i] \/ Constructing(i) THEN 1 ELSE 0
    /\ ~storageAlive => stack = <<>> /\ \A i \in Slot : objects[i] = 0

Sound == Typed /\ StackIsSound /\ Inventory

(* What a call pushed on the stack changes in it.                           *)
LEMMA Pushed ==
    ASSUME NEW s \in Seq(Frame), NEW f \in Frame
    PROVE  /\ Append(s, f) \in Seq(Frame)
           /\ Len(s) \in Nat
           /\ DOMAIN s = 1 .. Len(s)
           /\ DOMAIN Append(s, f) = 1 .. Len(s) + 1
           /\ \A n \in DOMAIN s : Append(s, f)[n] = s[n]
           /\ Append(s, f)[Len(s) + 1] = f
OBVIOUS

(* What a call that returns leaves on it.                                   *)
LEMMA Popped ==
    ASSUME NEW s \in Seq(Frame), s # <<>>
    PROVE  /\ Len(s) \in Nat \ {0}
           /\ DOMAIN s = 1 .. Len(s)
           /\ SubSeq(s, 1, Len(s) - 1) \in Seq(Frame)
           /\ DOMAIN SubSeq(s, 1, Len(s) - 1) = 1 .. Len(s) - 1
           /\ \A n \in 1 .. Len(s) - 1 : SubSeq(s, 1, Len(s) - 1)[n] = s[n]
           /\ s[Len(s)] \in Frame
OBVIOUS
(* ... in the variables of the pool.                                        *)
LEMMA PopsTop ==
    ASSUME Frames, stack # <<>>, Pop
    PROVE  \E last \in Nat \ {0} :
              /\ Top = stack[last] /\ Top \in Frame
              /\ DOMAIN stack = 1 .. last
              /\ stack' \in Seq(Frame) /\ DOMAIN stack' = 1 .. last - 1
              /\ \A n \in 1 .. last - 1 : stack'[n] = stack[n]
<1> DEFINE n == Len(stack)
<1>1. stack \in Seq(Frame) /\ Top = stack[n] /\ stack' = SubSeq(stack, 1, n - 1)
    BY DEF Frames, Top, Pop
<1>2. /\ n \in Nat \ {0} /\ DOMAIN stack = 1 .. n /\ stack[n] \in Frame
      /\ SubSeq(stack, 1, n - 1) \in Seq(Frame)
      /\ DOMAIN SubSeq(stack, 1, n - 1) = 1 .. n - 1
      /\ \A i \in 1 .. n - 1 : SubSeq(stack, 1, n - 1)[i] = stack[i]
    BY <1>1, Popped
<1> HIDE DEF n
<1>3. stack' \in Seq(Frame) /\ DOMAIN stack' = 1 .. n - 1
      /\ \A i \in 1 .. n - 1 : stack'[i] = stack[i]
    BY <1>1, <1>2
<1> QED
    BY <1>1, <1>2, <1>3

(* Constructors start and return.                                           *)
LEMMA CreateKeepsSound ==
    ASSUME Sound, ~Reentrant, create
    PROVE  Sound'
<1> USE DEF Sound, Typed, Frames
<1>1. PICK i \in Slot :
        /\ ~used[i]
        /\ objects' = [objects EXCEPT ![i] = @ + 1]
        /\ Push("create", i)
    BY DEF create
<1>2. /\ storageAlive /\ storageAlive'
      /\ used' = used /\ storage' = storage
      /\ \A n \in DOMAIN stack : stack[n].call \notin {"create"} \cup Clears
    BY DEF create, Waiting, storageAlive
<1> DEFINE f == [call |-> "create", slot |-> i]
<1>3. f \in Frame /\ stack' = Append(stack, f)
    BY <1>1 DEF Frame, Push
<1>4. /\ stack' \in Seq(Frame) /\ Len(stack) \in Nat
      /\ DOMAIN stack = 1 .. Len(stack)
      /\ DOMAIN stack' = 1 .. Len(stack) + 1
      /\ \A n \in DOMAIN stack : stack'[n] = stack[n]
      /\ stack'[Len(stack) + 1] = f
    BY <1>3, Pushed
<1>5. \A n \in DOMAIN stack : stack[n].slot # i
    BY <1>1, <1>2 DEF StackIsSound, Marks
<1>6. StackIsSound'
  <2>. HIDE DEF f
  <2>1. OwnSlots'
    <3>1. f.slot = i
        BY DEF f
    <3> QED
        BY <1>4, <1>5, <3>1 DEF StackIsSound, OwnSlots
  <2>2. Marks'
    <3>1. f.call = "create" /\ ~used'[f.slot]
        BY <1>1, <1>2 DEF f
    <3>2. \A n \in DOMAIN stack : stack'[n].call = "create" <=> ~used'[stack'[n].slot]
        BY <1>2, <1>4 DEF StackIsSound, Marks
    <3> QED
        BY <1>4, <3>1, <3>2 DEF Marks
  <2>3. OneConstructor'
      BY <1>2, <1>4 DEF OneConstructor, Clears
  <2>4. Clearing'
    <3>1. f.call \notin Clears
        BY DEF f, Clears
    <3> QED
        BY <1>2, <1>4, <3>1 DEF Clearing
  <2> QED
      BY <2>1, <2>2, <2>3, <2>4 DEF StackIsSound
<1>7. \A j \in Slot : Constructing(j)' <=> Constructing(j) \/ j = i
  <2>1. f.call = "create" /\ f.slot = i
      OBVIOUS
  <2>2. \A n \in DOMAIN stack' : n \in DOMAIN stack \/ n = Len(stack) + 1
      BY <1>4
  <2>3. DOMAIN stack \subseteq DOMAIN stack' /\ Len(stack) + 1 \in DOMAIN stack'
      BY <1>4
  <2> HIDE DEF f
  <2> QED
      BY <1>4, <2>1, <2>2, <2>3 DEF Constructing
<1>8. ~Constructing(i) /\ objects[i] = 0
    BY <1>1, <1>2, <1>5 DEF Constructing, Inventory
<1>9. Inventory'
    BY <1>1, <1>2, <1>7, <1>8 DEF Inventory
<1> QED
    BY <1>1, <1>2, <1>4, <1>6, <1>9

(* The slot is marked when its constructor has returned.                    *)
LEMMA CreateReturnsKeepsSound ==
    ASSUME Sound, createReturns
    PROVE  Sound'
<1>1. PICK last \in Nat \ {0} :
        /\ Top = stack[last] /\ Top \in Frame
        /\ DOMAIN stack = 1 .. last
        /\ stack' \in Seq(Frame) /\ DOMAIN stack' = 1 .. last - 1
        /\ \A n \in 1 .. last - 1 : stack'[n] = stack[n]
    BY PopsTop DEF createReturns, Sound, Typed
<1>2. PICK i \in Slot : i = stack[last].slot
    BY <1>1 DEF Frame
<1>3. /\ stack[last].call = "create" /\ used' = [used EXCEPT ![i] = TRUE]
      /\ storage' = storage /\ objects' = objects /\ stack # <<>>
    BY <1>1, <1>2 DEF createReturns
<1>4. storageAlive /\ storageAlive'
    BY <1>3 DEF Sound, Inventory, storageAlive
<1>5. /\ ~used[i]
      /\ \A n \in 1 .. last - 1 : stack[n].slot # i
      /\ \A n \in 1 .. last - 1 : stack[n].call \notin {"create"} \cup Clears
  <2>1. last \in DOMAIN stack /\ \A n \in 1 .. last - 1 : n \in DOMAIN stack /\ n # last
      BY <1>1
  <2> QED
      BY <1>2, <1>3, <2>1 DEF Sound, StackIsSound, OwnSlots, Marks, OneConstructor
<1>6. used' \in [Slot -> BOOLEAN] /\ used'[i] /\ \A j \in Slot \ {i} : used'[j] = used[j]
    BY <1>3 DEF Sound, Typed
<1>7. \A n \in DOMAIN stack' : /\ n \in DOMAIN stack /\ n \in 1 .. last - 1
                               /\ stack'[n] = stack[n] /\ stack[n] \in Frame
    BY <1>1 DEF Sound, Typed, Frames
<1>8. StackIsSound'
  <2>1. OwnSlots'
      BY <1>7 DEF Sound, StackIsSound, OwnSlots
  <2>2. Marks'
      BY <1>5, <1>6, <1>7 DEF Sound, StackIsSound, Marks, Frame
  <2>3. OneConstructor' /\ Clearing'
      BY <1>5, <1>7 DEF OneConstructor, Clearing
  <2> QED
      BY <2>1, <2>2, <2>3 DEF StackIsSound
<1>9. /\ Constructing(i) /\ \A j \in Slot : Constructing(j) => j = i
      /\ \A j \in Slot : ~Constructing(j)'
  <2>1. \A n \in DOMAIN stack : n = last \/ n \in 1 .. last - 1
      BY <1>1
  <2> QED
      BY <1>1, <1>2, <1>3, <1>5, <1>7, <2>1 DEF Constructing
<1>10. Inventory'
    BY <1>3, <1>4, <1>6, <1>9 DEF Sound, Inventory
<1> QED
    BY <1>1, <1>3, <1>6, <1>8, <1>10 DEF Sound, Typed, Frames

(* Destructors start and return.                                            *)
LEMMA DestroyKeepsSound ==
    ASSUME Sound, destroy
    PROVE  Sound'
<1> USE DEF Sound, Typed, Frames
<1>1. PICK i \in Slot : Destroyable(i) /\ Push("destroy", i)
    BY DEF destroy
<1>2. /\ storageAlive /\ storageAlive'
      /\ used' = used /\ storage' = storage /\ objects' = objects
    BY DEF destroy, storageAlive
<1> DEFINE f == [call |-> "destroy", slot |-> i]
<1>3. f \in Frame /\ stack' = Append(stack, f)
    BY <1>1 DEF Frame, Push
<1>4. /\ stack' \in Seq(Frame) /\ Len(stack) \in Nat
      /\ DOMAIN stack = 1 .. Len(stack)
      /\ DOMAIN stack' = 1 .. Len(stack) + 1
      /\ \A n \in DOMAIN stack : stack'[n] = stack[n]
      /\ stack'[Len(stack) + 1] = f
    BY <1>3, Pushed
<1>5. used[i] /\ \A n \in DOMAIN stack : stack[n].slot # i
    BY <1>1 DEF Destroyable, StackIsSound, Marks
<1>6. StackIsSound'
  <2>1. OwnSlots'
      BY <1>4, <1>5 DEF StackIsSound, OwnSlots
  <2>2. Marks'
    <3>1. f.slot = i /\ f.call # "create"
        OBVIOUS
    <3>2. used'[f.slot]
        BY <1>2, <1>5, <3>1
    <3> HIDE DEF f
    <3>3. \A n \in DOMAIN stack : stack'[n].call = "create" <=> ~used'[stack'[n].slot]
        BY <1>2, <1>4, <1>5 DEF StackIsSound, Marks
    <3> QED
        BY <1>4, <3>1, <3>2, <3>3 DEF Marks
  <2>3. OneConstructor'
    <3>1. f.call \notin {"create"} \cup Clears
        BY DEF f, Clears
    <3>2. OneConstructor
        BY DEF StackIsSound
    <3> HIDE DEF f
    <3> QED
        BY <1>2, <1>4, <3>1, <3>2 DEF OneConstructor
  <2>4. Clearing'
      BY <1>2, <1>4 DEF StackIsSound, Clearing, Clears
  <2> QED
      BY <2>1, <2>2, <2>3, <2>4 DEF StackIsSound
<1>7. \A j \in Slot : Constructing(j)' <=> Constructing(j)
  <2>1. f.call # "create"
      OBVIOUS
  <2>2. \A n \in DOMAIN stack' : n \in DOMAIN stack \/ stack'[n] = f
      BY <1>4
  <2>3. DOMAIN stack \subseteq DOMAIN stack'
      BY <1>4
  <2> HIDE DEF f
  <2> QED
      BY <1>4, <2>1, <2>2, <2>3 DEF Constructing
<1>8. Inventory'
    BY <1>2, <1>7 DEF Inventory
<1> QED
    BY <1>2, <1>4, <1>6, <1>8

(* The object is gone when its destructor has returned.                     *)
LEMMA DestroyReturnsKeepsSound ==
    ASSUME Sound, destroyReturns
    PROVE  Sound'
<1>1. PICK last \in Nat \ {0} :
        /\ Top = stack[last] /\ Top \in Frame
        /\ DOMAIN stack = 1 .. last
        /\ stack' \in Seq(Frame) /\ DOMAIN stack' = 1 .. last - 1
        /\ \A n \in 1 .. last - 1 : stack'[n] = stack[n]
    BY PopsTop DEF destroyReturns, Sound, Typed
<1>2. PICK i \in Slot : i = stack[last].slot
    BY <1>1 DEF Frame
<1>3. /\ stack[last].call = "destroy" /\ used' = [used EXCEPT ![i] = FALSE]
      /\ objects' = [objects EXCEPT ![i] = @ - 1]
      /\ storage' = storage /\ stack # <<>>
    BY <1>1, <1>2 DEF destroyReturns, Destroyed
<1>4. storageAlive /\ storageAlive'
    BY <1>3 DEF Sound, Inventory, storageAlive
<1>5. used[i] /\ \A n \in 1 .. last - 1 : stack[n].slot # i
  <2>1. last \in DOMAIN stack /\ \A n \in 1 .. last - 1 : n \in DOMAIN stack /\ n # last
      BY <1>1
  <2> QED
      BY <1>2, <1>3, <2>1 DEF Sound, StackIsSound, OwnSlots, Marks
<1>6. used' \in [Slot -> BOOLEAN] /\ ~used'[i] /\ \A j \in Slot \ {i} : used'[j] = used[j]
    BY <1>3 DEF Sound, Typed
<1>7. \A n \in DOMAIN stack' : /\ n \in DOMAIN stack /\ n \in 1 .. last - 1
                               /\ stack'[n] = stack[n] /\ stack[n] \in Frame
    BY <1>1 DEF Sound, Typed, Frames
<1>8. StackIsSound'
  <2>1. OwnSlots' /\ OneConstructor'
      BY <1>7 DEF Sound, StackIsSound, OwnSlots, OneConstructor
  <2>2. Marks'
      BY <1>5, <1>6, <1>7 DEF Sound, StackIsSound, Marks, Frame
  <2>3. Clearing'
      BY <1>6, <1>7 DEF Sound, StackIsSound, Clearing
  <2> QED
      BY <2>1, <2>2, <2>3 DEF StackIsSound
<1>9. ~Constructing(i) /\ \A j \in Slot : Constructing(j)' <=> Constructing(j)
  <2>1. \A n \in DOMAIN stack : n = last \/ n \in DOMAIN stack'
      BY <1>1
  <2> QED
      BY <1>3, <1>5, <1>7, <2>1 DEF Constructing
<1>10. objects' \in [Slot -> Nat] /\ objects'[i] = 0
       /\ \A j \in Slot \ {i} : objects'[j] = objects[j]
    BY <1>3, <1>4, <1>5 DEF Sound, Typed, Inventory
<1>11. Inventory'
    BY <1>4, <1>6, <1>9, <1>10 DEF Sound, Inventory
<1> QED
    BY <1>1, <1>3, <1>6, <1>8, <1>10, <1>11 DEF Sound, Typed, Frames

(* With nothing under way, only what is marked has an object.               *)
Resting == /\ Typed /\ stack = <<>>
           /\ \A i \in Slot :
                objects[i] = IF used[i] /\ storageAlive THEN 1 ELSE 0
(* That much is sound.                                                      *)
LEMMA RestingIsSound == Resting => Sound
<1>1. stack = <<>> => DOMAIN stack = {}
    OBVIOUS
<1> QED
    BY <1>1 DEF Resting, Sound, StackIsSound, OwnSlots, Marks, OneConstructor,
                Clearing, Inventory, Constructing

(* Clearing starts with the first slot that is marked, ...                  *)
LEMMA ClearKeepsSound ==
    ASSUME Sound, clear
    PROVE  Sound'
<1>1. PICK call \in Clears :
        IF \E j \in Slot : used[j]
        THEN /\ \E j \in Slot : NextUsed(used, 0, j) /\ Push(call, j)
             /\ UNCHANGED <<storage, used, used_count, objects>>
        ELSE Cleared(call) /\ UNCHANGED <<used, objects, stack>>
    BY DEF clear
<1>2. storageAlive /\ stack = <<>> /\ DOMAIN stack = {}
    BY DEF clear
<1>3. \A i \in Slot : objects[i] = IF used[i] THEN 1 ELSE 0
    BY <1>2 DEF Sound, Inventory, Constructing
<1>4. CASE \E j \in Slot : used[j]
  <2>1. PICK j \in Slot : NextUsed(used, 0, j) /\ Push(call, j)
      BY <1>1, <1>4
  <2>2. used' = used /\ objects' = objects /\ storage' = storage
      BY <1>1, <1>4
  <2> DEFINE f == [call |-> call, slot |-> j]
  <2>3. f \in Frame /\ stack' = Append(stack, f) /\ stack \in Seq(Frame)
      BY <2>1 DEF Frame, Push, Sound, Typed, Frames
  <2>4. stack' \in Seq(Frame) /\ DOMAIN stack' = {1} /\ stack'[1] = f
      BY <1>2, <2>3, Pushed
  <2>5. used[j] /\ \A k \in Slot : k < j => ~used[k]
      BY <2>1 DEF NextUsed, Slot
  <2>6. call # "create" /\ call # "destroy"
      BY DEF Clears
  <2>7. StackIsSound'
      BY <2>2, <2>4, <2>5, <2>6
      DEF StackIsSound, OwnSlots, Marks, OneConstructor, Clearing
  <2>8. \A k \in Slot : ~Constructing(k)'
      BY <2>4, <2>6 DEF Constructing
  <2>9. Inventory'
      BY <1>2, <1>3, <2>2, <2>8 DEF Inventory, storageAlive
  <2> QED
      BY <2>2, <2>4, <2>7, <2>9 DEF Sound, Typed, Frames
<1>5. CASE ~\E j \in Slot : used[j]
  <2>1. /\ used' = used /\ objects' = objects /\ stack' = stack
        /\ storage' \in {"none", "own"}
      BY <1>1, <1>2, <1>5 DEF Cleared, storageAlive, Clears
  <2>2. Typed'
      BY <2>1 DEF Sound, Typed, Frames
  <2>3. Resting'
      BY <1>2, <1>3, <1>5, <2>1, <2>2 DEF Resting
  <2> QED
      BY <2>3, RestingIsSound, PTL
<1> QED
    BY <1>4, <1>5

(* ... and goes on to the next, or is done with the last.                   *)
LEMMA ClearReturnsKeepsSound ==
    ASSUME Sound, clearReturns
    PROVE  Sound'
<1> DEFINE call == stack[1].call
           i == stack[1].slot
<1>1. /\ Len(stack) = 1 /\ DOMAIN stack = {1} /\ stack[1] \in Frame
      /\ SubSeq(stack, 1, Len(stack) - 1) = <<>>
  <2>1. stack \in Seq(Frame) /\ stack # <<>>
      BY DEF Sound, Typed, Frames, clearReturns
  <2>2. /\ Len(stack) \in Nat \ {0} /\ DOMAIN stack = 1 .. Len(stack)
        /\ stack[Len(stack)] \in Frame
        /\ stack[Len(stack)].call \in Clears
      BY <2>1, Popped DEF clearReturns, Top
  <2>3. Len(stack) = 1
      BY <2>2 DEF Sound, StackIsSound, Clearing
  <2>4. SubSeq(stack, 1, 0) = <<>>
      BY <2>1, <2>3, Popped, EmptySeq
  <2> QED
      BY <2>2, <2>3, <2>4
<1>2. /\ i \in Slot /\ used[i] /\ call \in Clears /\ storageAlive
      /\ \A j \in Slot : j < i => ~used[j]
      /\ \A j \in Slot : ~Constructing(j)
    BY <1>1 DEF Sound, StackIsSound, Marks, Clearing, Constructing, Inventory,
                clearReturns, Top, Frame, Clears
<1>3. /\ used' = [used EXCEPT ![i] = FALSE]
      /\ objects' = [objects EXCEPT ![i] = @ - 1]
    BY <1>1 DEF clearReturns, Destroyed, Top
<1>4. /\ used' \in [Slot -> BOOLEAN] /\ objects' \in [Slot -> Nat]
      /\ \A j \in Slot : objects'[j] = IF used'[j] THEN 1 ELSE 0
      /\ \A j \in Slot : j <= i => ~used'[j]
  <2>1. \A j \in Slot : objects[j] = IF used[j] THEN 1 ELSE 0
      BY <1>2 DEF Sound, Inventory
  <2> QED
      BY <1>2, <1>3, <2>1 DEF Sound, Typed, Slot
<1>5. CASE \E j \in Slot : j > i /\ used'[j]
  <2>1. PICK j \in Slot : /\ NextUsed(used', i, j)
                          /\ stack' = [stack EXCEPT ![1].slot = j]
      BY <1>1, <1>5 DEF clearReturns, Top
  <2>2. storage' = storage
      BY <1>1, <1>5 DEF clearReturns, Top
  <2>3. used'[j] /\ \A k \in Slot : k < j => ~used'[k]
      BY <1>2, <1>4, <2>1 DEF NextUsed, Slot
  <2> DEFINE f == [stack[1] EXCEPT !.slot = j]
  <2>4. f \in Frame /\ f.slot = j /\ f.call = call
      BY <1>1 DEF Frame
  <2>5. stack' \in Seq(Frame) /\ DOMAIN stack' = {1} /\ stack'[1] = f
    <3>1. stack \in Seq(Frame) /\ 1 \in 1 .. Len(stack) /\ 1 \in DOMAIN stack
        BY <1>1 DEF Sound, Typed, Frames
    <3>2. stack' = [stack EXCEPT ![1] = f]
        BY <2>1
    <3>3. stack' \in Seq(Frame)
        BY <2>4, <3>1, <3>2, ExceptSeq
    <3>4. DOMAIN stack' = DOMAIN stack /\ stack'[1] = f
        BY <3>1, <3>2
    <3> QED
        BY <1>1, <3>3, <3>4
  <2> HIDE DEF f
  <2>6. StackIsSound'
      BY <1>2, <2>3, <2>4, <2>5
      DEF StackIsSound, OwnSlots, Marks, OneConstructor, Clearing, Clears
  <2>7. \A k \in Slot : ~Constructing(k)'
      BY <1>2, <2>4, <2>5 DEF Constructing, Clears
  <2>8. Inventory'
      BY <1>2, <1>4, <2>2, <2>7 DEF Inventory, storageAlive
  <2> QED
      BY <1>4, <2>2, <2>5, <2>6, <2>8 DEF Sound, Typed, Frames
<1>6. CASE ~\E j \in Slot : j > i /\ used'[j]
  <2>1. Cleared(call) /\ stack' = <<>>
      BY <1>1, <1>6 DEF clearReturns, Top, Pop
  <2>2. storage' \in {"none", "own"}
      BY <1>2, <2>1 DEF Cleared, storageAlive, Clears
  <2>3. \A j \in Slot : ~used'[j]
      BY <1>2, <1>4, <1>6 DEF Slot
  <2>4. Typed'
      BY <1>4, <2>1, <2>2 DEF Typed, Frames
  <2>5. Resting'
      BY <1>4, <2>1, <2>3, <2>4 DEF Resting
  <2> QED
      BY <2>5, RestingIsSound, PTL
<1> QED
    BY <1>5, <1>6

-----------------------------------------------------------------------------
(* The pool's counter.  clear() leaves it alone until it has destroyed     *)
(* everything, so it counts the slots while no clearing is under way.      *)

Marked == {i \in Slot : used[i]}
ClearUnderWay == \E n \in DOMAIN stack : stack[n].call \in Clears
Counted ==
    /\ used_count \in 0 .. Capacity
    /\ Len(stack) <= DEPTH
    /\ storageAlive /\ ~ClearUnderWay => used_count = Cardinality(Marked)
PoolInv == Sound /\ Counted

(* The slots are finitely many, so are the marked ones.                    *)
LEMMA MarkedFinite ==
    /\ IsFiniteSet(Slot) /\ Cardinality(Slot) = Capacity
    /\ IsFiniteSet(Marked) /\ Cardinality(Marked) \in 0 .. Capacity
<1>1. IsFiniteSet(Slot) /\ Cardinality(Slot) = Capacity
    BY PoolConstants, FS_Interval DEF Slot
<1>2. Marked \in SUBSET Slot
    BY DEF Marked
<1>3. IsFiniteSet(Marked) /\ Cardinality(Marked) <= Cardinality(Slot)
    BY <1>1, <1>2, FS_Subset
<1>4. Cardinality(Marked) \in Nat
    BY <1>3, FS_CardinalityType
<1> QED
    BY <1>1, <1>3, <1>4, PoolConstants

(* With nothing marked and nothing counted the counter is right.           *)
LEMMA NothingCounted ==
    ASSUME used_count' = 0, \A i \in Slot : ~used'[i], Len(stack') <= DEPTH
    PROVE  Counted'
<1>1. Marked' = {}
    BY DEF Marked
<1> QED
    BY <1>1, FS_EmptySet, PoolConstants DEF Counted

(* A constructor or a destructor that starts.                              *)
LEMMA StartsCounted ==
    ASSUME PoolInv, ~Reentrant, create \/ destroy
    PROVE  Counted'
<1>1. /\ storage' = storage /\ used' = used /\ used_count' = used_count
      /\ stack = <<>> \/ Len(stack) < DEPTH
      /\ \E i \in Slot : Push("create", i) \/ Push("destroy", i)
    BY DEF create, destroy, Nested
<1>2. PICK f \in Frame : stack' = Append(stack, f) /\ f.call \in {"create", "destroy"}
  <2>1. PICK i \in Slot, call \in {"create", "destroy"} : Push(call, i)
      BY <1>1
  <2>2. [call |-> call, slot |-> i] \in Frame
      BY DEF Frame
  <2> QED
      BY <2>1, <2>2 DEF Push
<1>3. /\ Len(stack) \in Nat /\ DOMAIN stack = 1 .. Len(stack)
      /\ DOMAIN stack' = 1 .. Len(stack) + 1 /\ Len(stack') = Len(stack) + 1
      /\ \A n \in DOMAIN stack : stack'[n] = stack[n]
  <2>1. stack \in Seq(Frame)
      BY DEF PoolInv, Sound, Typed, Frames
  <2>2. Len(Append(stack, f)) = Len(stack) + 1
      BY <2>1
  <2> QED
      BY <1>2, <2>1, <2>2, Pushed
<1>4. Len(stack') <= DEPTH
  <2>1. stack = <<>> => Len(stack) = 0
      OBVIOUS
  <2> QED
      BY <1>1, <1>3, <2>1, PoolConstants
<1>5. ~ClearUnderWay' => ~ClearUnderWay
    BY <1>3 DEF ClearUnderWay
<1> QED
    BY <1>1, <1>4, <1>5 DEF PoolInv, Counted, storageAlive, Marked

(* A constructor that returns.                                             *)
LEMMA CreateReturnsCounted ==
    ASSUME PoolInv, createReturns
    PROVE  Counted'
<1>1. PICK last \in Nat \ {0} :
        /\ Top = stack[last] /\ Top \in Frame
        /\ DOMAIN stack = 1 .. last
        /\ stack' \in Seq(Frame) /\ DOMAIN stack' = 1 .. last - 1
        /\ \A n \in 1 .. last - 1 : stack'[n] = stack[n]
    BY PopsTop DEF createReturns, PoolInv, Sound, Typed
<1>2. PICK i \in Slot : i = stack[last].slot
    BY <1>1 DEF Frame
<1>3. /\ stack[last].call = "create" /\ used' = [used EXCEPT ![i] = TRUE]
      /\ used_count' = used_count + 1 /\ storage' = storage /\ stack # <<>>
    BY <1>1, <1>2 DEF createReturns
<1>4. storageAlive
    BY <1>3 DEF PoolInv, Sound, Inventory
<1>5. ~used[i] /\ ~ClearUnderWay
  <2>1. last \in DOMAIN stack
      BY <1>1
  <2>2. "create" \notin Clears
      BY DEF Clears
  <2> QED
      BY <1>2, <1>3, <2>1, <2>2
         DEF PoolInv, Sound, StackIsSound, Marks, OneConstructor, ClearUnderWay
<1>6. Marked' = Marked \cup {i} /\ i \notin Marked
    BY <1>3, <1>5 DEF Marked, PoolInv, Sound, Typed
<1>7. Cardinality(Marked \cup {i}) = Cardinality(Marked) + 1
    BY <1>6, MarkedFinite, FS_AddElement
<1>8. used_count' = Cardinality(Marked') /\ used_count' \in 0 .. Capacity
  <2>1. used_count = Cardinality(Marked)
      BY <1>4, <1>5 DEF PoolInv, Counted
  <2>2. used_count' = Cardinality(Marked \cup {i})
      BY <1>3, <1>7, <2>1
  <2>3. Cardinality(Marked \cup {i}) <= Capacity
    <3>1. Marked \cup {i} \in SUBSET Slot
        BY DEF Marked
    <3> QED
        BY <3>1, MarkedFinite, FS_Subset
  <2> QED
      BY <1>6, <1>7, <2>2, <2>3, MarkedFinite, PoolConstants
<1>9. Len(stack') <= DEPTH
  <2>1. Len(stack) = last /\ Len(stack') = last - 1
      BY <1>1 DEF PoolInv, Sound, Typed, Frames
  <2> QED
      BY <2>1, PoolConstants DEF PoolInv, Counted
<1> QED
    BY <1>8, <1>9 DEF Counted

(* A destructor that returns.                                              *)
LEMMA DestroyReturnsCounted ==
    ASSUME PoolInv, destroyReturns
    PROVE  Counted'
<1>1. PICK last \in Nat \ {0} :
        /\ Top = stack[last] /\ Top \in Frame
        /\ DOMAIN stack = 1 .. last
        /\ stack' \in Seq(Frame) /\ DOMAIN stack' = 1 .. last - 1
        /\ \A n \in 1 .. last - 1 : stack'[n] = stack[n]
    BY PopsTop DEF destroyReturns, PoolInv, Sound, Typed
<1>2. PICK i \in Slot : i = stack[last].slot
    BY <1>1 DEF Frame
<1>3. /\ stack[last].call = "destroy" /\ used' = [used EXCEPT ![i] = FALSE]
      /\ used_count' = (IF used_count > 0 THEN used_count - 1 ELSE 0)
      /\ storage' = storage /\ stack # <<>>
    BY <1>1, <1>2 DEF destroyReturns, Destroyed
<1>4. used_count \in 0 .. Capacity /\ used_count' \in 0 .. Capacity
    BY <1>3, PoolConstants DEF PoolInv, Counted
<1>5. Len(stack') <= DEPTH
  <2>1. Len(stack) = last /\ Len(stack') = last - 1
      BY <1>1 DEF PoolInv, Sound, Typed, Frames
  <2> QED
      BY <2>1, PoolConstants DEF PoolInv, Counted
<1>6. used[i]
  <2>1. last \in DOMAIN stack
      BY <1>1
  <2> QED
      BY <1>2, <1>3, <2>1 DEF PoolInv, Sound, StackIsSound, Marks
<1>7. Marked' = Marked \ {i} /\ i \in Marked
    BY <1>3, <1>6 DEF Marked, PoolInv, Sound, Typed
<1>8. Cardinality(Marked \ {i}) = Cardinality(Marked) - 1 /\ Cardinality(Marked) # 0
    BY <1>7, MarkedFinite, FS_RemoveElement, FS_EmptySet
<1>9. ~ClearUnderWay' => ~ClearUnderWay
  <2>1. \A n \in DOMAIN stack : n = last \/ (n \in DOMAIN stack' /\ stack'[n] = stack[n])
      BY <1>1
  <2>2. "destroy" \notin Clears
      BY DEF Clears
  <2> QED
      BY <1>3, <2>1, <2>2 DEF ClearUnderWay
<1>10. storageAlive' /\ ~ClearUnderWay' => used_count' = Cardinality(Marked')
  <2> SUFFICES ASSUME storageAlive', ~ClearUnderWay' PROVE used_count' = Cardinality(Marked')
      OBVIOUS
  <2>1. used_count = Cardinality(Marked)
      BY <1>3, <1>9 DEF PoolInv, Counted, storageAlive
  <2> QED
      BY <1>3, <1>4, <1>7, <1>8, <2>1
<1> QED
    BY <1>4, <1>5, <1>10 DEF Counted

(* clear(), from its first destructor to its last.                         *)
LEMMA ClearCounted ==
    ASSUME PoolInv, clear
    PROVE  Counted'
<1>1. PICK call \in Clears :
        IF \E j \in Slot : used[j]
        THEN /\ \E j \in Slot : NextUsed(used, 0, j) /\ Push(call, j)
             /\ UNCHANGED <<storage, used, used_count, objects>>
        ELSE Cleared(call) /\ UNCHANGED <<used, objects, stack>>
    BY DEF clear
<1>2. stack = <<>>
    BY DEF clear
<1>3. CASE \E j \in Slot : used[j]
  <2>1. PICK j \in Slot : Push(call, j)
      BY <1>1, <1>3
  <2>2. stack' = <<[call |-> call, slot |-> j]>>
      BY <1>2, <2>1 DEF Push
  <2>3. Len(stack') = 1 /\ 1 \in DOMAIN stack' /\ stack'[1].call = call
      BY <2>2
  <2>4. ClearUnderWay' /\ Len(stack') <= DEPTH /\ used_count' = used_count
      BY <1>1, <1>3, <2>3, PoolConstants DEF ClearUnderWay
  <2> QED
      BY <2>4 DEF PoolInv, Counted
<1>4. CASE ~\E j \in Slot : used[j]
  <2>1. used_count' = 0 /\ used' = used /\ stack' = stack
      BY <1>1, <1>4 DEF Cleared
  <2> QED
      BY <1>4, <2>1, NothingCounted DEF PoolInv, Counted
<1> QED
    BY <1>3, <1>4

(* A clear, slot by slot, leaves none marked and the counter at zero.      *)
LEMMA ClearReturnsCounted ==
    ASSUME PoolInv, clearReturns
    PROVE  Counted'
<1>1. stack \in Seq(Frame) /\ stack # <<>> /\ Top.call \in Clears
    BY DEF clearReturns, PoolInv, Sound, Typed, Frames
<1>2. /\ Len(stack) \in Nat \ {0} /\ DOMAIN stack = 1 .. Len(stack)
      /\ SubSeq(stack, 1, Len(stack) - 1) \in Seq(Frame)
      /\ DOMAIN SubSeq(stack, 1, Len(stack) - 1) = 1 .. Len(stack) - 1
      /\ stack[Len(stack)] \in Frame
    BY <1>1, Popped
<1>3. Len(stack) = 1 /\ \A j \in Slot : j < Top.slot => ~used[j]
    BY <1>1, <1>2 DEF PoolInv, Sound, StackIsSound, Clearing, Top
<1>4. Top.slot \in Slot /\ used' = [used EXCEPT ![Top.slot] = FALSE]
    BY <1>2 DEF clearReturns, Destroyed, Top, Frame
<1>5. CASE \E j \in Slot : j > Top.slot /\ used'[j]
  <2>1. PICK j \in Slot : stack' = [stack EXCEPT ![Len(stack)].slot = j]
      BY <1>5 DEF clearReturns
  <2>2. used_count' = used_count
      BY <1>5 DEF clearReturns
  <2> DEFINE f == [stack[1] EXCEPT !.slot = j]
  <2>3. f \in Frame /\ f.call = stack[1].call
      BY <1>2, <1>3 DEF Frame
  <2>4. stack' = [stack EXCEPT ![1] = f]
      BY <1>3, <2>1
  <2> HIDE DEF f
  <2>5. stack' \in Seq(Frame) /\ DOMAIN stack' = DOMAIN stack /\ stack'[1] = f
    <3>1. 1 \in 1 .. Len(stack) /\ 1 \in DOMAIN stack
        BY <1>2, <1>3
    <3>2. stack' \in Seq(Frame)
        BY <1>1, <2>3, <2>4, <3>1, ExceptSeq
    <3> QED
        BY <2>4, <3>1, <3>2
  <2>6. Len(stack') = 1
      BY <1>2, <1>3, <2>5
  <2>7. ClearUnderWay'
      BY <1>1, <1>2, <1>3, <2>3, <2>5 DEF ClearUnderWay, Top
  <2> QED
      BY <2>2, <2>6, <2>7, PoolConstants DEF PoolInv, Counted
<1>6. CASE ~\E j \in Slot : j > Top.slot /\ used'[j]
  <2>1. used_count' = 0 /\ stack' = SubSeq(stack, 1, Len(stack) - 1)
      BY <1>6 DEF clearReturns, Cleared, Pop
  <2>2. Len(stack') = 0
      BY <1>2, <1>3, <2>1
  <2>3. \A j \in Slot : ~used'[j]
      BY <1>3, <1>4, <1>6 DEF PoolInv, Sound, Typed, Slot
  <2> QED
      BY <2>1, <2>2, <2>3, NothingCounted, PoolConstants
<1> QED
    BY <1>5, <1>6

(* The invariant holds of a pool that has not begun.                       *)
LEMMA PoolInvInit == PoolInit => PoolInv
<1> SUFFICES ASSUME PoolInit PROVE PoolInv
    OBVIOUS
<1>1. Typed
    BY DEF PoolInit, Typed, Frames, Empty
<1>2. Sound
    BY <1>1, RestingIsSound DEF PoolInit, Empty, Resting
<1>3. Counted
  <2>1. Len(stack) = 0
      BY DEF PoolInit
  <2> QED
      BY <2>1, PoolConstants DEF PoolInit, Counted, storageAlive
<1> QED
    BY <1>2, <1>3 DEF PoolInv

(* Every step keeps it.                                                    *)
LEMMA PoolInvNext ==
    ASSUME ~Reentrant, PoolInv, [PoolNext]_poolVars
    PROVE  PoolInv'
<1>1. Sound
    BY DEF PoolInv
<1>2. CASE begin \/ end
  <2>1. /\ stack' = <<>> /\ storage' \in {"own", "none"} /\ used' = Empty
        /\ objects' = objects /\ used_count' = 0 /\ \A i \in Slot : objects[i] = 0
      BY <1>1, <1>2 DEF begin, end, Sound, Inventory
  <2>2. Typed'
      BY <1>1, <2>1 DEF Sound, Typed, Frames, Empty
  <2>3. Resting'
      BY <2>1, <2>2 DEF Empty, Resting
  <2>4. Sound'
      BY <2>3, RestingIsSound, PTL
  <2>5. Counted'
    <3>1. Len(stack') = 0
        BY <2>1
    <3> QED
        BY <2>1, <3>1, NothingCounted, PoolConstants DEF Empty
  <2> QED
      BY <2>4, <2>5 DEF PoolInv
<1>3. CASE ManagerEnds
  <2>1. Typed'
      BY <1>1, <1>3 DEF ManagerEnds, Sound, Typed, Frames
  <2>2. Resting'
      BY <1>3, <2>1 DEF ManagerEnds, storageAlive, Resting
  <2>3. Sound'
      BY <2>2, RestingIsSound, PTL
  <2>4. Counted'
      BY <1>3 DEF ManagerEnds, PoolInv, Counted, storageAlive
  <2> QED
      BY <2>3, <2>4 DEF PoolInv
<1>4. CASE UNCHANGED poolVars
  <2>1. Sound'
      BY <1>1, <1>4 DEF poolVars, Sound, Typed, Frames, StackIsSound, OwnSlots, Marks,
                  OneConstructor, Clearing, Inventory, Constructing, storageAlive
  <2>2. Counted'
      BY <1>4 DEF poolVars, PoolInv, Counted, ClearUnderWay, Marked, storageAlive
  <2> QED
      BY <2>1, <2>2 DEF PoolInv
<1>5. CASE create \/ createReturns \/ destroy \/ destroyReturns \/ clear \/ clearReturns
  <2>1. Sound'
      BY <1>1, <1>5, CreateKeepsSound, CreateReturnsKeepsSound, DestroyKeepsSound,
         DestroyReturnsKeepsSound, ClearKeepsSound, ClearReturnsKeepsSound
  <2>2. Counted'
      BY <1>5, StartsCounted, CreateReturnsCounted, DestroyReturnsCounted, ClearCounted,
         ClearReturnsCounted
  <2> QED
      BY <2>1, <2>2 DEF PoolInv
<1> QED
    BY <1>2, <1>3, <1>4, <1>5 DEF PoolNext, PoolCall

(* The books of a pool that is sound and counted are right.                *)
LEMMA PoolInvBooks == PoolInv => OneObjectPerSlot /\ BooksMatchObjects
<1> SUFFICES ASSUME PoolInv PROVE OneObjectPerSlot /\ BooksMatchObjects
    OBVIOUS
<1> USE DEF PoolInv, Sound
<1>1. OneObjectPerSlot /\ NoObjectOutlivesItsBlock
    BY DEF Inventory, OneObjectPerSlot, NoObjectOutlivesItsBlock
<1>2. PoolTypeOK
    BY DEF Typed, Counted, PoolTypeOK
<1>3. KnowsItsObjects
  <2> SUFFICES ASSUME storageAlive, stack = <<>>
               PROVE  /\ \A i \in Slot : used[i] <=> objects[i] = 1
                      /\ used_count = Cardinality({i \in Slot : used[i]})
      BY DEF KnowsItsObjects
  <2>1. DOMAIN stack = {}
      OBVIOUS
  <2>2. ~ClearUnderWay /\ \A i \in Slot : ~Constructing(i)
      BY <2>1 DEF ClearUnderWay, Constructing
  <2> QED
      BY <2>2 DEF Inventory, Typed, Counted, Marked
<1> QED
    BY <1>1, <1>2, <1>3 DEF BooksMatchObjects

-----------------------------------------------------------------------------
(* Both with one manager *)

(* Among its clients the pool does what it does alone.                     *)
LEMMA PoolAmongClients == ClientsSpec => PoolSpec
<1>1. ClientsInit => PoolInit
    BY DEF ClientsInit
<1>2. [ClientsNext]_clients => [PoolNext]_poolVars
    BY DEF ClientsNext, clients, UsePool, UseBuffers, OthersUseManager, ManagerStarts,
       ManagerEndsForAll, PoolNext
<1> QED
    BY <1>1, <1>2, PTL DEF ClientsSpec, PoolSpec

(* The pool's invariant holds among the manager's other clients too.       *)
LEMMA PoolAlways ==
    ASSUME ~Reentrant
    PROVE  ClientsSpec => []PoolInv
<1>1. PoolInv /\ [PoolNext]_poolVars => PoolInv'
    BY PoolInvNext
<1>2. PoolSpec => []PoolInv
    BY <1>1, PoolInvInit, PTL DEF PoolSpec
<1> QED
    BY <1>2, PoolAmongClients, PTL

(* Objects that are not created out of constructors or clear(): whatever   *)
(* constructors destroy and destructors create and destroy, to any depth,  *)
(* no slot ever has two objects.  (With a constructor that creates, two    *)
(* objects may be constructed in one slot: it is marked only afterwards.)  *)
THEOREM SlotsHoldOneObject ==
    ASSUME ~Reentrant
    PROVE  ClientsSpec => []OneObjectPerSlot
BY PoolAlways, PoolInvBooks, PTL

(* And when no call is under way the slots marked used, and used(), are    *)
(* those of the objects that live.                                         *)
THEOREM PoolBooksAreRight ==
    ASSUME ~Reentrant
    PROVE  ClientsSpec => []BooksMatchObjects
BY PoolAlways, PoolInvBooks, PTL

(* Who has which block.                                                    *)
BlockKept ==
    /\ storage \in {"none", "own", "gone"} /\ block \in Addr \cup {Null}
    /\ storageAlive => block # Null /\ held[block] = "other"
ClientsInv == BuffersInv /\ BlockKept

(* A block of others that is given back, and one that is taken.            *)
LEMMA OthersBlock ==
    ASSUME BuffersInv, UNCHANGED <<ready, alive, data>>,
           NEW rest,
           \/ rest = held
           \/ \E x \in Addr : held[x] = "other" /\ rest = Released(held, x),
           \/ held' = rest
           \/ \E x \in Addr : ready /\ rest[x] = "free" /\ held' = [rest EXCEPT ![x] = "other"]
    PROVE  BuffersInv'
<1> USE BufferConstants DEF BuffersInv, BuffersTyped, OneOwner, EndedHoldsNothing
<1>1. /\ rest \in [Addr -> {"free", "other", "buffer"}]
      /\ \A x \in Addr : rest[x] = "buffer" <=> held[x] = "buffer"
      /\ ready \/ \A x \in Addr : rest[x] = "free"
    BY DEF Released
<1>2. /\ held' \in [Addr -> {"free", "other", "buffer"}]
      /\ \A x \in Addr : held'[x] = "buffer" <=> held[x] = "buffer"
      /\ ready \/ \A x \in Addr : held'[x] = "free"
    BY <1>1
<1> QED
    BY <1>2

(* What the pool does with its block.                                      *)
LEMMA UsePoolKeeps ==
    ASSUME ClientsInv, UsePool
    PROVE  ClientsInv'
<1> USE DEF ClientsInv
<1> DEFINE rest == IF storageAlive THEN Released(held, block) ELSE held
<1>1. UNCHANGED <<ready, alive, data>> /\ BlockFollows
    BY DEF UsePool
<1>2. storage' = storage \/ storage' \in {"none", "own"}
    BY DEF UsePool, PoolCall, create, createReturns, destroy, destroyReturns, clear, clearReturns,
       begin, end, Cleared, Clears
<1>3. \/ rest = held
      \/ \E x \in Addr : held[x] = "other" /\ rest = Released(held, x)
    BY DEF BlockKept
<1>4. CASE storage' = storage
  <2>1. UNCHANGED <<held, block>>
      BY <1>1, <1>4 DEF BlockFollows
  <2>2. BuffersInv'
      BY <1>1, <2>1, OthersBlock
  <2> QED
      BY <1>4, <2>1, <2>2 DEF BlockKept, storageAlive
<1>5. CASE storage' # storage /\ storage' = "none"
  <2>1. held' = rest /\ block' = Null
      BY <1>1, <1>5 DEF BlockFollows
  <2> HIDE DEF rest
  <2>2. BuffersInv'
      BY <1>1, <1>3, <2>1, OthersBlock
  <2> QED
      BY <1>5, <2>1, <2>2 DEF BlockKept, storageAlive
<1>6. CASE storage' # storage /\ storage' = "own"
  <2>1. PICK x \in Addr :
            /\ ready /\ rest[x] = "free"
            /\ held' = [rest EXCEPT ![x] = "other"] /\ block' = x
      BY <1>1, <1>6 DEF BlockFollows
  <2>2. rest \in [Addr -> {"free", "other", "buffer"}]
      BY DEF BuffersInv, BuffersTyped, Released
  <2> HIDE DEF rest
  <2>3. BuffersInv'
      BY <1>1, <1>3, <2>1, OthersBlock
  <2> QED
      BY <1>6, <2>1, <2>2, <2>3, BufferConstants DEF BlockKept
<1> QED
    BY <1>2, <1>4, <1>5, <1>6

(* A buffer leaves the blocks of others alone.                             *)
LEMMA UseBuffersKeeps ==
    ASSUME ClientsInv, UseBuffers
    PROVE  ClientsInv'
<1> USE DEF ClientsInv
<1>1. BuffersInv'
    BY InvBuffer, InvMove DEF UseBuffers, BufferCall
<1>2. storage' = storage /\ block' = block
    BY DEF UseBuffers, poolVars
<1>3. ASSUME NEW x \in Addr, held[x] = "other" PROVE held'[x] = "other"
  <2>1. ready /\ \A b \in Buffer : data[b] # x
      BY <1>3 DEF BuffersInv, BuffersTyped, OneOwner, EndedHoldsNothing
  <2>2. \A b \in Buffer : Released(held, data[b])[x] = "other"
      BY <1>3, <2>1 DEF Released
  <2>3. PICK b \in Buffer :
            \/ construct(b) \/ allocate(b) \/ release(b) \/ destruct(b)
            \/ \E c \in Buffer : moveConstruct(b, c) \/ moveAssign(b, c)
      BY DEF UseBuffers, BufferCall
  <2>4. CASE allocate(b)
    <3> DEFINE rest == Released(held, data[b])
    <3>1. \/ held' = rest
          \/ \E y \in Addr : rest[y] = "free" /\ held' = [rest EXCEPT ![y] = "buffer"]
        BY <2>4 DEF allocate
    <3>2. rest[x] = "other" /\ rest \in [Addr -> {"free", "other", "buffer"}]
        BY <2>2 DEF BuffersInv, BuffersTyped, Released
    <3> HIDE DEF rest
    <3> QED
        BY <3>1, <3>2
  <2>5. CASE ~allocate(b)
      BY <1>3, <2>2, <2>3, <2>5 DEF construct, release, destruct, moveConstruct, moveAssign
  <2> QED
      BY <2>4, <2>5
<1> QED
    BY <1>1, <1>2, <1>3 DEF BlockKept, storageAlive

(* Every step of buffers, pool or others keeps each block with its owner.  *)
LEMMA ClientsKeep ==
    ASSUME ClientsInv, [ClientsNext]_clients
    PROVE  ClientsInv'
<1> USE DEF ClientsInv
<1>1. CASE OthersUseManager
    BY <1>1, InvManager DEF OthersUseManager, poolVars, BlockKept, storageAlive
<1>2. CASE ManagerStarts
    BY <1>2, InvManager DEF ManagerStarts, ManagerBegins, poolVars, BlockKept, storageAlive
<1>3. CASE ManagerEndsForAll
    BY <1>3, InvManager DEF ManagerEndsForAll, ManagerEnds, poolVars, BlockKept, storageAlive
<1>4. CASE UNCHANGED clients
    BY <1>4 DEF clients, buffers, poolVars, BuffersInv, BuffersTyped, OneOwner, EndedHoldsNothing,
       BlockKept, storageAlive
<1> QED
    BY <1>1, <1>2, <1>3, <1>4, UsePoolKeeps, UseBuffersKeeps DEF ClientsNext

(* So the invariant holds in every reachable state.                        *)
LEMMA ClientsAlways == ClientsSpec => []ClientsInv
<1>1. ClientsInit => ClientsInv
    BY InvInit DEF ClientsInit, ClientsInv, BlockKept, PoolInit, storageAlive
<1>2. ClientsInv /\ [ClientsNext]_clients => ClientsInv'
    BY ClientsKeep
<1> QED
    BY <1>1, <1>2, PTL DEF ClientsSpec

(* ManagedBuffer.h: whatever is moved, assigned, released or destroyed,    *)
(* whatever the pool does and whenever the manager ends, a block allocated *)
(* for a buffer is the data of one live buffer, and of no other.           *)
THEOREM BuffersOwnTheirBlocks == ClientsSpec => [](BuffersTyped /\ OneOwner)
  BY ClientsAlways, PTL DEF ClientsInv, BuffersInv

(* While the pool has its block, nobody else has it.                       *)
THEOREM PoolHasItsBlock == ClientsSpec => []PoolKeepsItsBlock
<1>1. ClientsInv => PoolKeepsItsBlock
    BY BufferConstants DEF ClientsInv, BuffersInv, BuffersTyped, OneOwner, EndedHoldsNothing,
       BlockKept, PoolKeepsItsBlock
<1> QED
    BY <1>1, ClientsAlways, PTL

-----------------------------------------------------------------------------
(* Who owns the AutoMemory singleton (DriverTakeover), for any framebuffer *)
(* dimensions.  The invariant has three parts: who holds the mutex is      *)
(* where the program counters say; the flags of the bridge agree with each *)
(* other; and they agree with who has begun the AutoMemory instance.       *)

RuntimeAt == {"inside", "start", "service", "unlock"}
LoopAt == {"beginning", "ending", "unlock"}
Phases ==
    /\ pc["runtime"] \in RuntimeAt \cup {"idle"}
    /\ pc["loop"] \in LoopAt \cup {"idle", "begin", "end", "frame"}

(* The mutex is with the task that is inside. *)
MutexHeld ==
    /\ pc["runtime"] # "idle" => mutex = "runtime"
    /\ installed /\ pc["loop"] \in LoopAt => mutex = "loop"
    /\ pc["runtime"] # "idle" => installed

FlagsAgree ==
    /\ started_by_bridge => bridge_active
    /\ ~installed => ~minimal_mode_owned
    /\ pc["runtime"] = "start" => ~automatic.ready

InstanceAgrees ==
    /\ automatic.by = "sketch" => ~installed /\ ~started_by_bridge
    /\ automatic.by = "nobody" <=> ~automatic.ready

(* A driver that alternates begin and end. *)
Alternates ==
    /\ automatic.by = "driver" => started_by_bridge
    /\ pc["loop"] \in {"begin", "beginning"} => ~bridge_active

TakeoverInv ==
    /\ TypeOK /\ Phases /\ MutexHeld /\ FlagsAgree /\ InstanceAgrees
    /\ NoReclaimBehindTheDriver /\ DriverGetsItsFrames

(* The actions of Next, one by one. *)
LEMMA TakeoverInvStep ==
    TakeoverInv /\ [Next]_vars => TakeoverInv'
<1> USE TakeoverConstants DEF TakeoverInv, TypeOK, Phases, MutexHeld, FlagsAgree,
        InstanceAgrees, NoReclaimBehindTheDriver, DriverGetsItsFrames,
        providerReady, RuntimeAt, LoopAt, Task, Ended, Begun, Goto, At, Lock,
        Call, flags
<1> SUFFICES ASSUME TakeoverInv, [Next]_vars PROVE TakeoverInv'
    OBVIOUS
<1>1. CASE Pass
    BY <1>1 DEF Pass
<1>2. CASE Look
    BY <1>2 DEF Look
<1>3. CASE StartMinimal
    BY <1>3 DEF StartMinimal
<1>4. CASE StartFails
    BY <1>4 DEF StartFails
<1>5. CASE Serviced
    BY <1>5 DEF Serviced
<1>6. CASE Unlock("runtime")
    BY <1>6 DEF Unlock
<1>7. CASE Unlock("loop")
    BY <1>7 DEF Unlock
<1>8. CASE Enter
    BY <1>8 DEF Enter
<1>9. CASE BeginRefused
    BY <1>9 DEF BeginRefused
<1>10. CASE BeginAdopts
    BY <1>10 DEF BeginAdopts, Mine
<1>11. CASE BeginReplaces
    BY <1>11 DEF BeginReplaces, Replaceable
<1>12. CASE BeginStarts
  <2>1. pc' = [pc EXCEPT !["loop"] = "unlock"]
      BY <1>12 DEF BeginStarts
  <2>2. CASE automatic' = Begun(dims, "driver") /\ accepted' = dims
             /\ bridge_active' /\ started_by_bridge'
    <3>1. automatic'.frames = dims /\ automatic'.by = "driver" /\ automatic'.ready
        BY <2>2
    <3>2. TypeOK'
      <4>1. automatic' \in [ready : BOOLEAN, frames : Dims \cup {NoFrames},
                            by : {"nobody", "runtime", "driver", "sketch"}]
        <5>1. dims \in Dims \cup {NoFrames}
            BY <1>12 DEF BeginStarts
        <5> QED
            BY <2>2, <5>1
      <4>2. pc' \in [Task -> {"idle", "inside", "start", "service", "unlock", "begin",
                              "end", "frame", "beginning", "ending"}]
          BY <2>1
      <4>3. /\ UNCHANGED <<mutex, installed, minimal_mode_owned, dims>>
            /\ bridge_active' \in BOOLEAN /\ started_by_bridge' \in BOOLEAN
            /\ accepted' \in Dims \cup {NoFrames} /\ TypeOK
          BY <1>12, <2>2 DEF BeginStarts
      <4> HIDE DEF TakeoverInv
      <4> QED
          BY <4>1, <4>2, <4>3
    <3>3. Phases' /\ MutexHeld'
        BY <1>12, <2>1 DEF BeginStarts
    <3>4. FlagsAgree' /\ InstanceAgrees'
        BY <1>12, <2>1, <2>2, <3>1 DEF BeginStarts
    <3>5. NoReclaimBehindTheDriver'
        BY <1>12, <2>1 DEF BeginStarts
    <3>6. DriverGetsItsFrames'
        BY <2>2, <3>1
    <3> QED
        BY <3>2, <3>3, <3>4, <3>5, <3>6
  <2>3. CASE UNCHANGED <<automatic, bridge_active, started_by_bridge, accepted>>
      BY <1>12, <2>1, <2>3 DEF BeginStarts
  <2> QED
      BY <1>12, <2>2, <2>3 DEF BeginStarts
<1>13. CASE End
    BY <1>13 DEF End
<1>14. CASE providerBegin
    BY <1>14 DEF providerBegin
<1>15. CASE providerEnd
    BY <1>15 DEF providerEnd
<1>16. CASE providerService
    BY <1>16 DEF providerService
<1>17. CASE SketchBegins
  <2>1. PICK f \in Dims \cup {NoFrames} :
            automatic' = Begun(f, "sketch") \/ automatic' = Ended
      BY <1>17 DEF SketchBegins
  <2>2. ~installed /\ ~bridge_active /\ ~started_by_bridge
      BY <1>17 DEF SketchBegins
  <2>3. CASE automatic' = Begun(f, "sketch")
    <3>1. automatic'.by = "sketch" /\ automatic'.ready
        BY <2>3
    <3> QED
        BY <1>17, <2>2, <2>3, <3>1 DEF SketchBegins
  <2>4. CASE automatic' = Ended
      BY <1>17, <2>2, <2>4 DEF SketchBegins
  <2> QED
      BY <2>1, <2>3, <2>4
<1>18. CASE SketchEnds
    BY <1>18 DEF SketchEnds
<1>19. CASE UNCHANGED vars
    BY <1>19 DEF vars
<1> QED
    BY <1>1, <1>2, <1>3, <1>4, <1>5, <1>6, <1>7, <1>8, <1>9, <1>10, <1>11,
       <1>12, <1>13, <1>14, <1>15, <1>16, <1>17, <1>18, <1>19
       DEF Next, Runtime, Provider

(* The strengthened invariant holds in every reachable state.              *)
LEMMA TakeoverInvariant == Spec => []TakeoverInv
<1>1. ASSUME Init PROVE TakeoverInv
  <2> USE <1>1 DEF Init
  <2>1. pc["runtime"] = "idle" /\ pc["loop"] = "idle"
      BY DEF Task
  <2>2. automatic.by = "nobody" /\ ~automatic.ready
      BY DEF Ended
  <2>3. TypeOK
    <3>1. automatic \in [ready : BOOLEAN, frames : Dims \cup {NoFrames},
                         by : {"nobody", "runtime", "driver", "sketch"}]
        BY DEF Ended
    <3>2. pc \in [Task -> {"idle"}]
        OBVIOUS
    <3>3. <<installed, bridge_active, started_by_bridge, minimal_mode_owned>>
             \in BOOLEAN \X BOOLEAN \X BOOLEAN \X BOOLEAN
        OBVIOUS
    <3>4. mutex \in Task \cup {"nobody"}
        OBVIOUS
    <3> QED
        BY <3>1, <3>2, <3>3, <3>4 DEF TypeOK
  <2>4. Phases /\ MutexHeld
      BY <2>1 DEF Phases, MutexHeld, LoopAt
  <2>5. FlagsAgree /\ InstanceAgrees
      BY <2>1, <2>2 DEF FlagsAgree, InstanceAgrees
  <2>6. NoReclaimBehindTheDriver /\ DriverGetsItsFrames
      BY <2>1 DEF NoReclaimBehindTheDriver, DriverGetsItsFrames, providerReady
  <2> QED
      BY <2>3, <2>4, <2>5, <2>6 DEF TakeoverInv
<1> QED
    BY <1>1, TakeoverInvStep, PTL DEF Spec

(* The background runtime never reclaims while the driver has the bridge:  *)
(* both tests of bridge_active and its changes are made under the mutex.   *)
THEOREM SafeWithTheDriver == Spec => []NoReclaimBehindTheDriver
<1>1. TakeoverInv => NoReclaimBehindTheDriver
    BY DEF TakeoverInv
<1> QED
    BY <1>1, TakeoverInvariant, PTL

(* Whatever the driver, the runtime and the sketch have done before, a     *)
(* ready provider serves the dimensions that the driver asked for last.    *)
THEOREM FramesAreTheDrivers == Spec => []DriverGetsItsFrames
<1>1. TakeoverInv => DriverGetsItsFrames
    BY DEF TakeoverInv
<1> QED
    BY <1>1, TakeoverInvariant, PTL

(* No step of a provider call touches the instance a sketch has begun.  It *)
(* could only by BeginReplaces, BeginStarts or End, and their guards are   *)
(* false: the instance is ready, is not the runtime's and was not started  *)
(* by the bridge.                                                          *)
THEOREM SketchKeepsItsInstance == Spec => ManualInstanceKept
<1>1. ASSUME TakeoverInv, [Next]_vars, automatic.by = "sketch", pc["loop"] # "idle"
      PROVE  UNCHANGED automatic
  <2> USE <1>1 DEF TakeoverInv, InstanceAgrees, FlagsAgree, At
  <2>1. CASE Runtime
    <3>1. ~installed /\ pc["runtime"] = "idle"
        BY DEF MutexHeld
    <3> QED
        BY <2>1, <3>1 DEF Runtime, Pass, Look, StartMinimal, StartFails, Serviced, Unlock
  <2>2. CASE Provider
      BY <2>2 DEF Provider, Enter, Lock, BeginRefused, BeginAdopts, BeginReplaces,
                  Replaceable, BeginStarts, End, Unlock
  <2>3. CASE ~Runtime /\ ~Provider
      BY <2>3 DEF Next, providerBegin, providerEnd, providerService,
                  SketchBegins, SketchEnds, vars
  <2> QED
      BY <2>1, <2>2, <2>3
<1>2. TakeoverInv /\ [Next]_vars
        => [automatic.by = "sketch" /\ pc["loop"] # "idle" => UNCHANGED automatic]_vars
    BY <1>1
<1> QED
    BY <1>2, TakeoverInvariant, PTL DEF Spec, ManualInstanceKept

(* A driver that alternates begin and end finds its instance torn down     *)
(* after the end, because it alone could have marked it as adopted.        *)
LEMMA AlternatesStep ==
    ASSUME ~Rebegins
    PROVE  TakeoverInv /\ Alternates /\ [Next]_vars => Alternates'
<1> SUFFICES ASSUME TakeoverInv, Alternates, [Next]_vars PROVE Alternates'
    OBVIOUS
<1> USE DEF Alternates, TakeoverInv, FlagsAgree, At, Goto
<1>1. pc = [t \in Task |-> pc[t]]
    BY DEF TypeOK
<1>2. CASE Runtime
  <2>1. pc'["loop"] = pc["loop"]
      BY <1>1, <1>2 DEF Runtime, Pass, Lock, Look, StartMinimal, StartFails,
                        Serviced, Unlock, Task
  <2> QED
      BY <1>2, <2>1 DEF Runtime, Pass, Lock, Look, StartMinimal, StartFails, Serviced,
                        Unlock, Begun, Ended, flags
<1>3. CASE Enter \/ BeginRefused \/ Unlock("loop")
    BY <1>1, <1>3 DEF Enter, Lock, BeginRefused, Unlock, flags, Task
<1>4. CASE BeginAdopts
  <2>1. pc["loop"] = "beginning" /\ ~bridge_active /\ ~started_by_bridge
      BY <1>4 DEF BeginAdopts
  <2>2. automatic.by # "driver" /\ automatic' = automatic
      BY <1>4, <2>1 DEF BeginAdopts
  <2>3. pc'["loop"] = "unlock"
      BY <1>1, <1>4 DEF BeginAdopts, Task
  <2> QED
      BY <2>2, <2>3
<1>5. CASE BeginReplaces
    BY <1>1, <1>5 DEF BeginReplaces, Ended, Task
<1>6. CASE BeginStarts
    BY <1>1, <1>6 DEF BeginStarts, Begun, Task
<1>7. CASE End
  <2>1. pc["loop"] = "ending" /\ pc'["loop"] = "unlock"
      BY <1>1, <1>7 DEF End, Task
  <2>2. CASE started_by_bridge /\ automatic.ready
      BY <1>7, <2>1, <2>2 DEF End, Ended
  <2>3. CASE ~(started_by_bridge /\ automatic.ready)
    <3>1. automatic.by # "driver"
        BY <2>3 DEF InstanceAgrees
    <3> QED
        BY <1>7, <2>1, <2>3, <3>1 DEF End
  <2> QED
      BY <2>2, <2>3
<1>8. CASE providerBegin \/ providerEnd \/ providerService
  <2>1. UNCHANGED <<automatic, bridge_active, started_by_bridge>>
      BY <1>8 DEF providerBegin, providerEnd, providerService, Call, flags
  <2>2. \/ pc'["loop"] = "begin" /\ ~bridge_active
        \/ pc'["loop"] \in {"end", "frame"}
      BY <1>1, <1>8 DEF providerBegin, providerEnd, providerService, Call, Task
  <2> QED
      BY <2>1, <2>2
<1>9. CASE SketchBegins
    BY <1>1, <1>9 DEF SketchBegins, Begun, Ended, flags
<1>10. CASE SketchEnds
    BY <1>1, <1>10 DEF SketchEnds, Ended, flags
<1>11. CASE UNCHANGED vars
    BY <1>11 DEF vars, flags
<1> QED
    BY <1>2, <1>3, <1>4, <1>5, <1>6, <1>7, <1>8, <1>9, <1>10, <1>11
       DEF Next, Provider

(* A driver that ends what it began, and begins nothing twice, leaves no   *)
(* instance of its own behind: end() tears down what begin() started.      *)
THEOREM TearsDownAfterItself ==
    ASSUME ~Rebegins
    PROVE  Spec => []BridgeTearsDown
<1>1. Init => Alternates
    BY DEF Init, Alternates, Ended, Task
<1>2. TakeoverInv /\ Alternates /\ [Next]_vars => Alternates'
    BY AlternatesStep
<1>3. TakeoverInv /\ Alternates => BridgeTearsDown
    BY DEF TakeoverInv, FlagsAgree, Alternates, BridgeTearsDown
<1> QED
    BY <1>1, <1>2, <1>3, TakeoverInvariant, PTL DEF Spec
=============================================================================
