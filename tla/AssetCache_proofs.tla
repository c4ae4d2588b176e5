-------------------------- MODULE AssetCache_proofs --------------------------
(***************************************************************************)
(* Theorems about AssetCache, for any table, sizes, budgets and keys.      *)
(*                                                                         *)
(* The inductive invariant has three parts.  Inv says that keys and blocks *)
(* are those of one entry each, and what a put under way may rely on: the  *)
(* entry it found is still there, the slot it chose still free.  Booked    *)
(* adds the totals, Aged the order of the last uses; which blocks and keys *)
(* the entries have depends on neither.                                    *)
(***************************************************************************)
EXTENDS AssetCache, Sums_proofs

Putting == pc \in {"room", "allocate", "commit"}

Typed ==
    /\ entries \in [Slot -> Entry \cup {Empty}]
    /\ use_counter \in 0 .. COUNTER_MAX
    /\ live \subseteq Block
    /\ pc \in {"idle", "room", "allocate", "commit", "trim"}
    /\ job \in [key : Key \cup {NoKey}, bytes : Nat, pinned : BOOLEAN,
                existing : Slot \cup {NoSlot}, slot : Slot \cup {NoSlot},
                block : Block \cup {NoBlock}, target : {job.target}]
OneEntryPerKey ==
    \A r, s \in Used : entries[r].key = entries[s].key => r = s
OneEntryPerBlock ==
    \A r, s \in Used : entries[r].block = entries[s].block => r = s
LiveIsEntered ==
    \A b \in live : b = job.block \/ \E s \in Used : entries[s].block = b
InHand ==
    job.block # NoBlock =>
        /\ pc = "commit" /\ job.block \in live
        /\ \A s \in Used : entries[s].block # job.block
PutKnows ==
    /\ ~Putting => job.existing = NoSlot
    /\ Putting => /\ job.key \in Key
                  /\ IF job.existing = NoSlot THEN SlotsOf(job.key) = {}
                     ELSE job.existing \in SlotsOf(job.key)
    /\ pc \in {"allocate", "commit"} =>
        IF job.existing = NoSlot THEN job.slot \in Free ELSE job.slot = job.existing
    /\ pc = "commit" => job.block \in Block

Inv == /\ Typed /\ OneEntryPerKey /\ OneEntryPerBlock
       /\ LiveIsEntered /\ InHand /\ PutKnows

-----------------------------------------------------------------------------
(* Lemmas about the helpers *)

(* f has the keys and the blocks of the table. *)
Alike(f) ==
    /\ f \in [Slot -> Entry \cup {Empty}]
    /\ \A r \in Slot :
        /\ f[r] = Empty <=> entries[r] = Empty
        /\ f[r] # Empty => /\ f[r].key = entries[r].key
                           /\ f[r].block = entries[r].block

(* The index of no entry is the index of none.                             *)
LEMMA NothingInSlot0 == NoSlot \notin Slot
  BY CacheConstants DEF NoSlot, Slot

(* A touch changes no entry but for the time of its last use. *)
LEMMA TouchKeeps ==
  ASSUME NEW f \in [Slot -> Entry \cup {Empty}], NEW s \in Slot, f[s] \in Entry,
         use_counter \in 0 .. COUNTER_MAX, Touch(f, s)
  PROVE  /\ entries' \in [Slot -> Entry \cup {Empty}]
         /\ use_counter' \in 0 .. COUNTER_MAX
         /\ \A r \in Slot :
              /\ entries'[r] = Empty <=> f[r] = Empty
              /\ f[r] # Empty => /\ entries'[r].key = f[r].key
                                 /\ entries'[r].block = f[r].block
                                 /\ entries'[r].bytes = f[r].bytes
                                 /\ entries'[r].lastUse =
                                      IF r = s \/ use_counter = COUNTER_MAX
                                      THEN use_counter' ELSE f[r].lastUse
<1> DEFINE stamp == IF use_counter = COUNTER_MAX THEN 1 ELSE use_counter + 1
<1> DEFINE touched(r) == [f[r] EXCEPT !.lastUse = stamp]
<1>1. stamp \in 0 .. COUNTER_MAX /\ stamp \in Nat /\ use_counter' = stamp
  BY CacheConstants DEF Touch
<1>2. entries' = [r \in Slot |->
        IF f[r] # Empty /\ (r = s \/ use_counter = COUNTER_MAX)
        THEN touched(r) ELSE f[r]]
  BY Zenon DEF Touch
<1> HIDE DEF stamp
<1>3. \A r \in Slot : f[r] # Empty =>
        /\ touched(r) \in Entry /\ touched(r) # Empty
        /\ touched(r).key = f[r].key /\ touched(r).block = f[r].block
        /\ touched(r).bytes = f[r].bytes /\ touched(r).lastUse = stamp
  BY <1>1, CacheConstants DEF Entry
<1> HIDE DEF touched
<1>4. \A r \in Slot :
        entries'[r] = IF f[r] # Empty /\ (r = s \/ use_counter = COUNTER_MAX)
                      THEN touched(r) ELSE f[r]
  BY <1>2, Zenon
<1>5. entries' \in [Slot -> Entry \cup {Empty}]
  BY <1>2, <1>3, <1>4
<1> QED BY <1>1, <1>3, <1>4, <1>5

(* Calls that touch one entry keep the invariant. *)
LEMMA InvTouched ==
  ASSUME Inv, NEW f, Alike(f), NEW s \in Slot, f[s] \in Entry,
         Touch(f, s), UNCHANGED <<live, pc, job>>
  PROVE  Inv'
<1>1. /\ entries' \in [Slot -> Entry \cup {Empty}]
      /\ use_counter' \in 0 .. COUNTER_MAX
      /\ \A r \in Slot :
           /\ entries'[r] = Empty <=> entries[r] = Empty
           /\ entries[r] # Empty => /\ entries'[r].key = entries[r].key
                                    /\ entries'[r].block = entries[r].block
  <2>1. use_counter \in 0 .. COUNTER_MAX /\ f \in [Slot -> Entry \cup {Empty}]
    BY DEF Inv, Typed, Alike
  <2> QED BY <2>1, TouchKeeps DEF Alike
<1>2. Used' = Used
  BY <1>1 DEF Used
<1>3. Typed' BY <1>1 DEF Inv, Typed
<1>4. OneEntryPerKey' BY <1>1, <1>2 DEF Inv, OneEntryPerKey, Used
<1>5. OneEntryPerBlock' BY <1>1, <1>2 DEF Inv, OneEntryPerBlock, Used
<1>6. LiveIsEntered' BY <1>1, <1>2 DEF Inv, LiveIsEntered, Used
<1>7. InHand' BY <1>1, <1>2 DEF Inv, InHand, Used
<1>8. \A k : SlotsOf(k)' = SlotsOf(k)
  BY <1>1, <1>2 DEF SlotsOf, Used
<1>9. PutKnows' BY <1>2, <1>8 DEF Inv, PutKnows, Putting, Free
<1> QED BY <1>3, <1>4, <1>5, <1>6, <1>7, <1>9 DEF Inv

(* Removing entries keeps it, if put has not found one of them, and        *)
(* whatever is left of the call after it: it goes on or returns.           *)
LEMMA InvRemoved ==
  ASSUME Inv, NEW S \in SUBSET Used, job.existing \notin S, Remove(S),
         \/ UNCHANGED <<pc, job>>
         \/ pc # "commit" /\ pc' = "idle" /\ job' = NoJob
  PROVE  Inv'
<1>1. /\ entries' \in [Slot -> Entry \cup {Empty}]
      /\ Used' = Used \ S
      /\ \A r \in Used' : entries'[r] = entries[r]
      /\ live' = live \ {entries[s].block : s \in S}
      /\ use_counter' = use_counter
  BY DEF Remove, Used, Inv, Typed
<1>2. Used \subseteq Slot /\ Used' \subseteq Used
  BY <1>1 DEF Used
<1>3. CASE UNCHANGED <<pc, job>>
  <2>1. Typed' BY <1>1, <1>3 DEF Inv, Typed
  <2>2. OneEntryPerKey' BY <1>1, <1>2 DEF Inv, OneEntryPerKey
  <2>3. OneEntryPerBlock' BY <1>1, <1>2 DEF Inv, OneEntryPerBlock
  <2>4. LiveIsEntered' BY <1>1, <1>2, <1>3 DEF Inv, LiveIsEntered
  <2>5. InHand' BY <1>1, <1>2, <1>3 DEF Inv, InHand
  <2>6. \A k : SlotsOf(k)' = SlotsOf(k) \ S
    BY <1>1, <1>2 DEF SlotsOf
  <2>7. Free \subseteq Free'
    BY <1>1 DEF Free
  <2>8. PutKnows' BY <1>3, <2>6, <2>7 DEF Inv, PutKnows, Putting
  <2> QED BY <2>1, <2>2, <2>3, <2>4, <2>5, <2>8 DEF Inv
<1>4. CASE pc # "commit" /\ pc' = "idle" /\ job' = NoJob
  <2>1. job.block = NoBlock /\ job'.block = NoBlock /\ job'.existing = NoSlot
    BY <1>4 DEF Inv, InHand, NoJob
  <2>2. Typed' BY <1>1, <1>4 DEF Inv, Typed, NoJob
  <2>3. OneEntryPerKey' BY <1>1, <1>2 DEF Inv, OneEntryPerKey
  <2>4. OneEntryPerBlock' BY <1>1, <1>2 DEF Inv, OneEntryPerBlock
  <2>5. LiveIsEntered' BY <1>1, <1>2, <2>1 DEF Inv, LiveIsEntered
  <2>6. InHand' BY <2>1 DEF InHand
  <2>7. PutKnows' BY <1>4, <2>1 DEF PutKnows, Putting
  <2> QED BY <2>2, <2>3, <2>4, <2>5, <2>6, <2>7 DEF Inv
<1> QED BY <1>3, <1>4

(* A step of a loop that evicts the least recently used or gives up. *)
LEMMA InvEvicted ==
  ASSUME Inv, pc # "commit", EvictOr(job.existing, Return)
  PROVE  Inv'
<1>1. CASE \E s \in Slot : LRU(s, job.existing) /\ Remove({s}) /\ UNCHANGED <<budget, pc, job>>
  <2>1. PICK s \in Slot : LRU(s, job.existing) /\ Remove({s}) /\ UNCHANGED <<pc, job>>
    BY <1>1
  <2>2. {s} \in SUBSET Used /\ job.existing \notin {s}
    BY <2>1 DEF LRU, Evictable
  <2> QED BY <2>1, <2>2, InvRemoved
<1>2. CASE Return /\ UNCHANGED <<table, live>>
  <2>1. job.block = NoBlock /\ job'.block = NoBlock /\ job'.existing = NoSlot
    BY <1>2 DEF Inv, InHand, NoJob, Return, Goto
  <2>2. Typed' BY <1>2 DEF Inv, Typed, NoJob, Return, Goto, table
  <2>3. Used' = Used BY <1>2 DEF Used, table
  <2>4. OneEntryPerKey' /\ OneEntryPerBlock'
    BY <1>2, <2>3 DEF Inv, OneEntryPerKey, OneEntryPerBlock, table
  <2>5. LiveIsEntered' BY <1>2, <2>1, <2>3 DEF Inv, LiveIsEntered, table
  <2>6. InHand' BY <2>1 DEF InHand
  <2>7. PutKnows' BY <1>2, <2>1 DEF PutKnows, Putting, Return, Goto
  <2> QED BY <2>2, <2>4, <2>5, <2>6, <2>7 DEF Inv
<1> QED BY <1>1, <1>2 DEF EvictOr

(* Where a call moves on and the table does not change, only the parts     *)
(* that speak of the call have to be shown again.                          *)
LEMMA InvMovesOn ==
  ASSUME Inv, UNCHANGED <<table, live>>, Typed', InHand', PutKnows', job.block = job'.block
  PROVE  Inv'
<1>1. Used' = Used BY DEF Used, table
<1>2. OneEntryPerKey' /\ OneEntryPerBlock'
  BY <1>1 DEF Inv, OneEntryPerKey, OneEntryPerBlock, table
<1>3. LiveIsEntered' BY <1>1 DEF Inv, LiveIsEntered, table
<1> QED BY <1>2, <1>3 DEF Inv

-----------------------------------------------------------------------------
(* One lemma per action or group of actions *)

(* Pinning an entry changes neither keys nor blocks.                       *)
LEMMA SetPinned ==
  ASSUME Inv, NEW s \in Used, NEW p \in BOOLEAN
  PROVE  LET f == [entries EXCEPT ![s].pinned = p]
         IN  Alike(f) /\ s \in Slot /\ f[s] \in Entry
<1> DEFINE e == [entries[s] EXCEPT !.pinned = p]
<1>1. s \in Slot /\ entries[s] \in Entry
  BY DEF Used, Inv, Typed
<1>2. /\ e \in Entry /\ e # Empty
      /\ e.key = entries[s].key /\ e.block = entries[s].block
  BY <1>1, CacheConstants DEF Entry
<1>3. [entries EXCEPT ![s].pinned = p] = [entries EXCEPT ![s] = e]
  OBVIOUS
<1> HIDE DEF e
<1>4. Alike([entries EXCEPT ![s] = e]) /\ [entries EXCEPT ![s] = e][s] \in Entry
  BY <1>1, <1>2, CacheConstants DEF Inv, Typed, Alike
<1> QED BY <1>1, <1>3, <1>4

(* Using, pinning or unpinning an entry keeps keys and blocks in their     *)
(* places.                                                                 *)
LEMMA InvTouching ==
  ASSUME Inv, get \/ pin \/ unpin \/ putSame
  PROVE  Inv'
<1>1. ASSUME NEW k \in Key, NEW s \in OwnedOf(k) PROVE s \in Used
  BY DEF OwnedOf, SlotsOf
<1>2. CASE get
  <2>1. PICK k \in Key : \E s \in OwnedOf(k) : Touch(entries, s)
    BY <1>2 DEF get
  <2>2. PICK s \in OwnedOf(k) : Touch(entries, s)
    BY <2>1
  <2>3. s \in Slot /\ entries[s] \in Entry /\ Alike(entries)
    BY <1>1 DEF Used, Inv, Typed, Alike
  <2> QED BY <1>2, <2>2, <2>3, InvTouched DEF get, Quick
<1>3. ASSUME NEW s \in Used, NEW p \in BOOLEAN,
             Touch([entries EXCEPT ![s].pinned = p], s), UNCHANGED <<live, pc, job>>
      PROVE  Inv'
  <2> DEFINE f == [entries EXCEPT ![s].pinned = p]
  <2>1. Alike(f) /\ s \in Slot /\ f[s] \in Entry
    BY SetPinned
  <2>2. Touch(f, s) /\ UNCHANGED <<live, pc, job>>
    BY <1>3
  <2> HIDE DEF f
  <2> QED BY <2>1, <2>2, InvTouched, Zenon
<1>4. CASE pin BY <1>1, <1>3, <1>4 DEF pin, Quick
<1>5. CASE unpin BY <1>1, <1>3, <1>5 DEF unpin, Quick
<1>6. CASE putSame BY <1>1, <1>3, <1>6 DEF putSame, Quick
<1> QED BY <1>2, <1>4, <1>5, <1>6

(* As does removing entries,                                               *)
LEMMA InvRemoving ==
  ASSUME Inv, remove \/ purgeUnpinned \/ clear
  PROVE  Inv'
<1>1. pc = "idle" /\ UNCHANGED <<pc, job>>
  BY DEF remove, purgeUnpinned, clear, Quick
<1>2. job.existing = NoSlot /\ NoSlot \notin Used
  BY <1>1, NothingInSlot0 DEF Inv, PutKnows, Putting, Used
<1>3. \E S \in SUBSET Used : Remove(S)
  BY DEF remove, purgeUnpinned, clear, SlotsOf, Evictable
<1> QED BY <1>1, <1>2, <1>3, InvRemoved

(* the loss of a block by the manager,                                     *)
LEMMA InvLose == ASSUME Inv, Lose PROVE Inv'
<1>1. /\ UNCHANGED <<entries, use_counter, pc, job>> /\ pc = "idle"
      /\ live' \subseteq live
  BY DEF Lose, Quick, table
<1>2. job.block = NoBlock
  BY <1>1 DEF Inv, InHand
<1>3. Used' = Used /\ Free' = Free /\ \A k : SlotsOf(k)' = SlotsOf(k)
  BY <1>1 DEF Used, Free, SlotsOf
<1>4. Typed' BY <1>1 DEF Inv, Typed
<1>5. OneEntryPerKey' /\ OneEntryPerBlock'
  BY <1>1, <1>3 DEF Inv, OneEntryPerKey, OneEntryPerBlock
<1>6. LiveIsEntered' BY <1>1, <1>3 DEF Inv, LiveIsEntered
<1>7. InHand' BY <1>1, <1>2 DEF InHand
<1>8. PutKnows' BY <1>1, <1>3 DEF Inv, PutKnows, Putting
<1> QED BY <1>4, <1>5, <1>6, <1>7, <1>8 DEF Inv

(* the start of a put,                                                     *)
LEMMA InvPut == ASSUME Inv, put PROVE Inv'
<1>1. PICK k \in Key, n \in Sizes, p \in BOOLEAN, x \in Slot \cup {NoSlot} :
        /\ FindIndex(k, x)
        /\ pc' = "room"
        /\ job' = [NoJob EXCEPT !.key = k, !.bytes = n, !.pinned = p, !.existing = x]
  BY DEF put, Goto
<1>2. /\ UNCHANGED <<table, live, entries, use_counter>> /\ pc = "idle" /\ job.block = NoBlock
  BY DEF put, table, Inv, InHand
<1>3. /\ job'.key = k /\ job'.existing = x /\ job'.block = NoBlock
  BY <1>1 DEF NoJob
<1>4. Typed'
  BY <1>1, <1>2, CacheConstants DEF Inv, Typed, NoJob
<1>5. SlotsOf(k)' = SlotsOf(k)
  BY <1>2 DEF SlotsOf, Used
<1>6. PutKnows'
  BY <1>1, <1>3, <1>5, NothingInSlot0 DEF PutKnows, Putting, FindIndex, SlotsOf, Used
<1>7. InHand'
  BY <1>3 DEF InHand
<1> QED BY <1>2, <1>3, <1>4, <1>6, <1>7, InvMovesOn

(* The entry of a lost block is gone before room is made for its key.      *)
LEMMA InvDropsLost == ASSUME Inv, putDropsLost PROVE Inv'
<1>1. PICK k \in Key, n \in Sizes, p \in BOOLEAN :
        /\ Remove(SlotsOf(k))
        /\ \/ Return
           \/ Goto("room", [NoJob EXCEPT !.key = k, !.bytes = n, !.pinned = p])
  BY DEF putDropsLost
<1>2. /\ pc = "idle" /\ job.block = NoBlock /\ job.existing = NoSlot
      /\ SlotsOf(k) \in SUBSET Used /\ NoSlot \notin SlotsOf(k)
  BY NothingInSlot0 DEF putDropsLost, Inv, InHand, PutKnows, Putting, SlotsOf, Used
<1>3. CASE Return
  BY <1>1, <1>2, <1>3, InvRemoved DEF Return, Goto
<1>4. CASE Goto("room", [NoJob EXCEPT !.key = k, !.bytes = n, !.pinned = p])
  <2>1. /\ pc' = "room"
        /\ job' = [NoJob EXCEPT !.key = k, !.bytes = n, !.pinned = p]
        /\ job'.key = k /\ job'.existing = NoSlot /\ job'.block = NoBlock
    BY <1>4 DEF Goto, NoJob
  <2>2. /\ entries' \in [Slot -> Entry \cup {Empty}]
        /\ Used' = Used \ SlotsOf(k)
        /\ \A r \in Used' : entries'[r] = entries[r]
        /\ live' = live \ {entries[s].block : s \in SlotsOf(k)}
        /\ use_counter' = use_counter
    BY <1>1 DEF Remove, Used, Inv, Typed
  <2>3. Typed'
    BY <2>1, <2>2, CacheConstants DEF Inv, Typed, NoJob
  <2>4. OneEntryPerKey' /\ OneEntryPerBlock'
    BY <2>2 DEF Inv, OneEntryPerKey, OneEntryPerBlock
  <2>5. LiveIsEntered'
    BY <1>2, <2>1, <2>2 DEF Inv, LiveIsEntered
  <2>6. InHand'
    BY <2>1 DEF InHand
  <2>7. SlotsOf(k)' = {}
    BY <2>2 DEF SlotsOf
  <2>8. PutKnows'
    BY <2>1, <2>7 DEF PutKnows, Putting
  <2> QED BY <2>3, <2>4, <2>5, <2>6, <2>8 DEF Inv
<1> QED BY <1>1, <1>3, <1>4

(* an eviction or the end of making room,                                  *)
LEMMA InvMakeRoom == ASSUME Inv, MakeRoom PROVE Inv'
<1>1. CASE EvictOr(job.existing, Return)
  BY <1>1, InvEvicted DEF MakeRoom
<1>2. CASE ~NeedsRoom(job)
  <2>1. PICK s \in Slot :
          /\ IF job.existing = NoSlot THEN FindFreeIndex(s) ELSE s = job.existing
          /\ pc' = "allocate" /\ job' = [job EXCEPT !.slot = s]
          /\ UNCHANGED <<table, live>>
    BY <1>2 DEF MakeRoom, Goto
  <2>2. /\ pc = "room" /\ job.block = NoBlock
        /\ job'.slot = s /\ job'.key = job.key /\ job'.existing = job.existing
        /\ job'.block = job.block
    BY <2>1 DEF MakeRoom, Inv, Typed, InHand
  <2>3. UNCHANGED <<entries, use_counter>>
    BY <2>1 DEF table
  <2>4. Typed' BY <2>1, <2>3 DEF Inv, Typed
  <2>5. InHand' BY <2>2 DEF InHand
  <2>6. Used' = Used /\ Free' = Free /\ \A k : SlotsOf(k)' = SlotsOf(k)
    BY <2>3 DEF Used, Free, SlotsOf
  <2>7. PutKnows'
    BY <2>1, <2>2, <2>6 DEF Inv, PutKnows, Putting, FindFreeIndex
  <2> QED BY <2>1, <2>2, <2>4, <2>5, <2>7, InvMovesOn
<1> QED BY <1>1, <1>2 DEF MakeRoom

(* the manager's answer, a block that was in no entry,                     *)
LEMMA InvAllocated == ASSUME Inv, Allocated PROVE Inv'
<1>1. PICK b \in Block \ live :
        /\ \A s \in Used : entries[s].block # b
        /\ live' = live \cup {b} /\ pc' = "commit" /\ job' = [job EXCEPT !.block = b]
  BY DEF Allocated, Goto
<1>2. /\ pc = "allocate" /\ UNCHANGED <<entries, use_counter>>
      /\ job.block = NoBlock /\ job'.block = b /\ b # NoBlock
      /\ job'.slot = job.slot /\ job'.key = job.key /\ job'.existing = job.existing
  BY <1>1, CacheConstants DEF Allocated, table, Inv, Typed, InHand
<1>3. Used' = Used /\ Free' = Free /\ \A k : SlotsOf(k)' = SlotsOf(k)
  BY <1>2 DEF Used, Free, SlotsOf
<1>4. Typed' BY <1>1, <1>2 DEF Inv, Typed
<1>5. OneEntryPerKey' /\ OneEntryPerBlock'
  BY <1>2, <1>3 DEF Inv, OneEntryPerKey, OneEntryPerBlock
<1>6. LiveIsEntered'
  <2> SUFFICES ASSUME NEW c \in live', c # b PROVE \E s \in Used : entries[s].block = c
    BY <1>2, <1>3 DEF LiveIsEntered
  <2>1. c \in live /\ c # job.block
    BY <1>1, <1>2, CacheConstants DEF Inv, Typed
  <2> QED BY <2>1 DEF Inv, LiveIsEntered
<1>7. InHand' BY <1>1, <1>2, <1>3 DEF InHand
<1>8. PutKnows' BY <1>1, <1>2, <1>3 DEF Inv, PutKnows, Putting
<1> QED BY <1>4, <1>5, <1>6, <1>7, <1>8 DEF Inv

(* Commit writes the slot put has found: its own old entry or a free one.  *)
LEMMA CommitWrites ==
  ASSUME Inv, Commit
  PROVE  LET j == job.slot
         IN  /\ j \in Slot
             /\ IF job.existing = NoSlot THEN j \notin Used /\ SlotsOf(job.key) = {}
                ELSE j = job.existing /\ j \in Used /\ entries[j].key = job.key
             /\ entries' \in [Slot -> Entry \cup {Empty}]
             /\ use_counter' \in 0 .. COUNTER_MAX
             /\ Used' = Used \cup {j}
             /\ entries'[j].key = job.key /\ entries'[j].block = job.block
             /\ \A r \in Used \ {j} : /\ entries'[r].key = entries[r].key
                                      /\ entries'[r].block = entries[r].block
<1> DEFINE j == job.slot
           new == [key |-> job.key, block |-> job.block, bytes |-> job.bytes,
                   pinned |-> job.pinned, lastUse |-> 0]
<1>1. pc = "commit" /\ Touch(Written, j)
  BY DEF Commit
<1>2. job.key \in Key /\ job.block \in Block
  BY <1>1 DEF Inv, PutKnows, Putting
<1>3. /\ j \in Slot
      /\ IF job.existing = NoSlot THEN j \notin Used /\ SlotsOf(job.key) = {}
         ELSE j = job.existing /\ j \in Used /\ entries[j].key = job.key
  BY <1>1, NothingInSlot0 DEF Inv, PutKnows, Putting, Free, SlotsOf, Used
<1>4. /\ new \in Entry /\ new # Empty
      /\ new.key = job.key /\ new.block = job.block
  BY <1>2, CacheConstants DEF Entry, Inv, Typed
<1>5. Written = [entries EXCEPT ![j] = new]
  BY DEF Written
<1> HIDE DEF new, j
<1>6. /\ Written \in [Slot -> Entry \cup {Empty}] /\ Written[j] \in Entry
      /\ Written[j] = new /\ \A r \in Slot \ {j} : Written[r] = entries[r]
  BY <1>3, <1>4, <1>5 DEF Inv, Typed
<1>7. use_counter \in 0 .. COUNTER_MAX
  BY DEF Inv, Typed
<1>8. /\ entries' \in [Slot -> Entry \cup {Empty}]
      /\ use_counter' \in 0 .. COUNTER_MAX
      /\ \A r \in Slot :
           /\ entries'[r] = Empty <=> Written[r] = Empty
           /\ Written[r] # Empty => /\ entries'[r].key = Written[r].key
                                    /\ entries'[r].block = Written[r].block
  BY <1>1, <1>3, <1>6, <1>7, TouchKeeps
<1>9. /\ Used' = Used \cup {j}
      /\ entries'[j].key = job.key /\ entries'[j].block = job.block
      /\ \A r \in Used \ {j} : /\ entries'[r].key = entries[r].key
                               /\ entries'[r].block = entries[r].block
  BY <1>3, <1>4, <1>6, <1>8 DEF Used
<1> QED BY <1>3, <1>8, <1>9 DEF j

(* the entry of the new block, with the old one going back,                *)
LEMMA InvCommit == ASSUME Inv, Commit PROVE Inv'
<1> DEFINE j == job.slot
           gone == IF job.existing = NoSlot THEN {} ELSE {entries[job.existing].block}
<1>1. pc = "commit" /\ pc' = "idle" /\ job' = NoJob /\ live' = live \ gone
  BY DEF Commit, Return, Goto
<1>2. /\ job.key \in Key /\ job.block \in Block /\ job.block # NoBlock
      /\ job.block \in live /\ \A s \in Used : entries[s].block # job.block
      /\ job'.block = NoBlock /\ job'.existing = NoSlot
  BY <1>1, CacheConstants DEF Inv, InHand, PutKnows, Putting, NoJob
<1>3. /\ j \in Slot
      /\ IF job.existing = NoSlot THEN j \notin Used /\ SlotsOf(job.key) = {}
         ELSE j = job.existing /\ j \in Used /\ entries[j].key = job.key
      /\ entries' \in [Slot -> Entry \cup {Empty}]
      /\ use_counter' \in 0 .. COUNTER_MAX
      /\ Used' = Used \cup {j}
      /\ entries'[j].key = job.key /\ entries'[j].block = job.block
      /\ \A r \in Used \ {j} : /\ entries'[r].key = entries[r].key
                               /\ entries'[r].block = entries[r].block
  BY CommitWrites
<1> HIDE DEF j
<1>4. Typed' BY <1>1, <1>3 DEF Inv, Typed, NoJob
<1>5. OneEntryPerKey'
  <2>1. \A r \in Used \ {j} : entries[r].key # job.key
    BY <1>3 DEF Inv, OneEntryPerKey, SlotsOf
  <2> QED BY <1>3, <2>1 DEF Inv, OneEntryPerKey
<1>6. OneEntryPerBlock' BY <1>2, <1>3 DEF Inv, OneEntryPerBlock
<1>7. LiveIsEntered'
  <2> SUFFICES ASSUME NEW b \in live' PROVE \E s \in Used' : entries'[s].block = b
    BY DEF LiveIsEntered
  <2>1. CASE b = job.block
    BY <1>3, <2>1
  <2>2. CASE b # job.block
    <3>1. PICK s \in Used : entries[s].block = b
      BY <1>1, <2>2 DEF Inv, LiveIsEntered
    <3>2. s # j
      BY <1>1, <1>3, <3>1, NothingInSlot0
    <3> QED BY <1>3, <3>1, <3>2
  <2> QED BY <2>1, <2>2
<1>8. InHand' BY <1>2 DEF InHand
<1>9. PutKnows' BY <1>1, <1>2 DEF PutKnows, Putting
<1> QED BY <1>4, <1>5, <1>6, <1>7, <1>8, <1>9 DEF Inv

(* and every step of a trim.                                               *)
LEMMA InvTrimming ==
  ASSUME Inv, evictLRU \/ trimToBytes \/ Trim
  PROVE  Inv'
<1>1. pc \in {"idle", "trim"} /\ job.existing = NoSlot /\ job.block = NoBlock
  BY DEF evictLRU, trimToBytes, Trim, Inv, InHand, PutKnows, Putting
<1>2. CASE EvictOr(NoSlot, Return)
  BY <1>1, <1>2, InvEvicted
<1>3. ASSUME UNCHANGED <<table, live>>, pc' \in {"idle", "trim"},
             job' \in [key : Key \cup {NoKey}, bytes : Nat, pinned : BOOLEAN,
                       existing : {NoSlot}, slot : {NoSlot},
                       block : {NoBlock}, target : {job'.target}]
      PROVE  Inv'
  <2>1. UNCHANGED <<entries, use_counter>> /\ job'.block = NoBlock /\ job'.existing = NoSlot
    BY <1>3 DEF table
  <2>2. Typed' BY <1>3, <2>1 DEF Inv, Typed
  <2>3. InHand' BY <2>1 DEF InHand
  <2>4. PutKnows' BY <1>3, <2>1 DEF PutKnows, Putting
  <2> QED BY <1>1, <1>3, <2>1, <2>2, <2>3, <2>4, InvMovesOn
<1>4. ASSUME NEW n, job' = NoJob \/ job' = [NoJob EXCEPT !.target = n]
      PROVE  job' \in [key : Key \cup {NoKey}, bytes : Nat, pinned : BOOLEAN,
                       existing : {NoSlot}, slot : {NoSlot},
                       block : {NoBlock}, target : {job'.target}]
  <2>1. CASE job' = NoJob
    BY <2>1 DEF NoJob
  <2>2. CASE job' = [NoJob EXCEPT !.target = n]
    <3>1. job' = [key |-> NoKey, bytes |-> 0, pinned |-> FALSE, existing |-> NoSlot,
                  slot |-> NoSlot, block |-> NoBlock, target |-> n]
      BY <2>2 DEF NoJob
    <3> QED BY <3>1
  <2> QED BY <1>4, <2>1, <2>2
<1>5. CASE evictLRU BY <1>3, <1>4, <1>5 DEF evictLRU, Goto
<1>6. CASE trimToBytes BY <1>3, <1>4, <1>6 DEF trimToBytes, Goto
<1>7. CASE Trim BY <1>2, <1>3, <1>4, <1>7 DEF Trim, Return, Goto
<1> QED BY <1>5, <1>6, <1>7

(* The empty cache has no keys and no blocks.                              *)
LEMMA InvInit == Init => Inv
<1> SUFFICES ASSUME Init PROVE Inv
  OBVIOUS
<1>1. Used = {} /\ job.block = NoBlock /\ job.existing = NoSlot
  BY DEF Init, Used, NoJob
<1>2. Typed BY CacheConstants DEF Init, Typed, NoJob
<1> QED BY <1>1, <1>2 DEF Init, Inv, OneEntryPerKey, OneEntryPerBlock, LiveIsEntered,
                      InHand, PutKnows, Putting

(* Every step keeps keys and blocks in one entry each.                     *)
LEMMA InvNext == ASSUME Inv, [Next]_vars PROVE Inv'
<1>1. CASE Next
  BY <1>1, InvTouching, InvRemoving, InvLose, InvPut, InvDropsLost, InvMakeRoom,
     InvAllocated, InvEvicted, InvCommit, InvTrimming
  DEF Next, AllocationFails
<1>2. CASE UNCHANGED vars
  <2>1. UNCHANGED <<table, live, pc, job, entries, use_counter>>
    BY <1>2 DEF vars, table
  <2>2. Typed' BY <2>1 DEF Inv, Typed
  <2>3. Used' = Used /\ Free' = Free /\ \A k : SlotsOf(k)' = SlotsOf(k)
    BY <2>1 DEF Used, Free, SlotsOf
  <2>4. InHand' BY <2>1, <2>3 DEF Inv, InHand
  <2>5. PutKnows' BY <2>1, <2>3 DEF Inv, PutKnows, Putting
  <2> QED BY <2>1, <2>2, <2>4, <2>5, InvMovesOn
<1> QED BY <1>1, <1>2

(* The invariant holds in every reachable state.                           *)
LEMMA Invariant == Spec => []Inv
  BY InvInit, InvNext, PTL DEF Spec

-----------------------------------------------------------------------------
(* What a step does to the table: it touches one entry, removes some, or   *)
(* leaves all as they are.                                                 *)

Touches(f, s) ==
    /\ f \in [Slot -> Entry \cup {Empty}] /\ s \in Slot /\ f[s] \in Entry
    /\ \A r \in Slot \ {s} : f[r] = entries[r]
    /\ Touch(f, s)
TouchStep ==
    /\ \E f, s : Touches(f, s) /\ s \in Used /\ f[s].bytes = entries[s].bytes
    /\ UNCHANGED <<used_bytes, budget, pc, job>>
RemoveStep ==
    /\ \E S \in SUBSET Used : Remove(S) /\ job.existing \notin S
    /\ UNCHANGED budget
    /\ \/ UNCHANGED <<pc, job>>
       \/ pc' \in {"idle", "room"} /\ job'.target \in Int
StillStep == UNCHANGED <<table, budget>>

(* Pinning uses the entry, and changes no size.                            *)
LEMMA PinTouches ==
  ASSUME Inv, NEW s \in Used, NEW p \in BOOLEAN, Touch([entries EXCEPT ![s].pinned = p], s)
  PROVE  \E f, r : Touches(f, r) /\ r \in Used /\ f[r].bytes = entries[r].bytes
<1> DEFINE f == [entries EXCEPT ![s].pinned = p]
<1>1. s \in Slot /\ entries[s] \in Entry
  BY DEF Used, Inv, Typed
<1>2. f \in [Slot -> Entry \cup {Empty}] /\ f[s] \in Entry
  BY SetPinned DEF Alike
<1>3. f[s] = [entries[s] EXCEPT !.pinned = p] /\ \A r \in Slot \ {s} : f[r] = entries[r]
  BY <1>1 DEF Inv, Typed
<1>4. f[s].bytes = entries[s].bytes
  BY <1>1, <1>3 DEF Entry
<1> HIDE DEF f
<1>5. Touch(f, s)
  BY Zenon DEF f
<1> QED BY <1>1, <1>2, <1>3, <1>4, <1>5 DEF Touches

(* A commit uses the entry it has written.                                 *)
LEMMA CommitTouches ==
  ASSUME Inv, Commit
  PROVE  /\ Touches(Written, job.slot)
         /\ Written[job.slot].bytes = job.bytes
<1> DEFINE j == job.slot
           new == [key |-> job.key, block |-> job.block, bytes |-> job.bytes,
                   pinned |-> job.pinned, lastUse |-> 0]
<1>1. pc = "commit" /\ Touch(Written, j)
  BY DEF Commit
<1>2. job.key \in Key /\ job.block \in Block /\ j \in Slot
  BY <1>1, CommitWrites DEF Inv, PutKnows, Putting
<1>3. new \in Entry /\ new.bytes = job.bytes
  BY <1>2 DEF Entry, Inv, Typed
<1>4. Written = [entries EXCEPT ![j] = new]
  BY DEF Written
<1> HIDE DEF new, j
<1>5. /\ Written \in [Slot -> Entry \cup {Empty}] /\ Written[j] = new
      /\ \A r \in Slot \ {j} : Written[r] = entries[r]
  BY <1>2, <1>3, <1>4 DEF Inv, Typed
<1>6. Touches(Written, j) /\ Written[j].bytes = job.bytes
  BY <1>1, <1>2, <1>3, <1>5 DEF Touches
<1> QED BY <1>6 DEF j

(* An eviction loop removes an entry or changes the table not at all.      *)
LEMMA EvictOrSteps ==
  ASSUME Inv, EvictOr(job.existing, Return)
  PROVE  RemoveStep \/ StillStep
<1>1. CASE \E s \in Slot : LRU(s, job.existing) /\ Remove({s}) /\ UNCHANGED <<budget, pc, job>>
  <2>1. PICK s \in Slot : LRU(s, job.existing) /\ Remove({s}) /\ UNCHANGED <<budget, pc, job>>
    BY <1>1
  <2>2. {s} \in SUBSET Used /\ job.existing \notin {s}
    BY <2>1 DEF LRU, Evictable
  <2>3. \E S \in SUBSET Used : Remove(S) /\ job.existing \notin S
    BY <2>1, <2>2, Zenon
  <2> QED BY <2>1, <2>3 DEF RemoveStep
<1>2. CASE Return /\ UNCHANGED <<table, live>>
  BY <1>2 DEF Return, Goto, StillStep
<1> QED BY <1>1, <1>2 DEF EvictOr

(* Every step uses an entry, removes some, commits one, or leaves the      *)
(* table alone.                                                            *)
LEMMA TableSteps ==
  ASSUME Inv, [Next]_vars
  PROVE  TouchStep \/ RemoveStep \/ StillStep \/ Commit
<1>1. ASSUME NEW k \in Key, NEW s \in OwnedOf(k) PROVE s \in Used
  BY DEF OwnedOf, SlotsOf
<1>2. CASE get
  <2>1. PICK k \in Key : \E s \in OwnedOf(k) : Touch(entries, s)
    BY <1>2 DEF get
  <2>2. PICK s \in OwnedOf(k) : Touch(entries, s)
    BY <2>1
  <2>3. s \in Slot /\ s \in Used /\ entries[s] \in Entry
    BY <1>1 DEF Used, Inv, Typed
  <2>4. Touches(entries, s)
    BY <2>2, <2>3 DEF Touches, Inv, Typed
  <2> QED BY <1>2, <2>3, <2>4 DEF get, Quick, TouchStep
<1>3. CASE pin \/ unpin \/ putSame
  <2>1. UNCHANGED <<used_bytes, budget, pc, job>>
    BY <1>3 DEF pin, unpin, putSame, Quick
  <2>2. TRUE \in BOOLEAN /\ FALSE \in BOOLEAN
    OBVIOUS
  <2>3. \E s \in Used, p \in BOOLEAN : Touch([entries EXCEPT ![s].pinned = p], s)
    BY <1>1, <1>3, <2>2 DEF pin, unpin, putSame
  <2> QED BY <2>1, <2>3, PinTouches DEF TouchStep
<1>4. CASE remove \/ purgeUnpinned \/ clear
  <2>1. UNCHANGED <<budget, pc, job>> /\ job.existing \notin Used
    BY <1>4, NothingInSlot0
    DEF remove, purgeUnpinned, clear, Quick, Inv, PutKnows, Putting, Used
  <2>2. \E S \in SUBSET Used : Remove(S)
    BY <1>4 DEF remove, purgeUnpinned, clear, SlotsOf, Evictable
  <2>3. \E S \in SUBSET Used : Remove(S) /\ job.existing \notin S
    BY <2>1, <2>2, Zenon
  <2> QED BY <2>1, <2>3 DEF RemoveStep
<1>5. CASE putDropsLost
  <2>1. PICK k \in Key, n \in Sizes, p \in BOOLEAN :
          /\ Remove(SlotsOf(k))
          /\ \/ Return
             \/ Goto("room", [NoJob EXCEPT !.key = k, !.bytes = n, !.pinned = p])
    BY <1>5 DEF putDropsLost
  <2>2. UNCHANGED budget /\ pc' \in {"idle", "room"} /\ job'.target \in Int
    <3>1. CASE Return
      BY <3>1 DEF Return, Goto, NoJob
    <3>2. CASE Goto("room", [NoJob EXCEPT !.key = k, !.bytes = n, !.pinned = p])
      <4>1. job' = [NoJob EXCEPT !.key = k, !.bytes = n, !.pinned = p]
        BY <3>2 DEF Goto
      <4>2. job'.target = 0
        BY <4>1 DEF NoJob
      <4> QED BY <3>2, <4>2 DEF Goto
    <3> QED BY <2>1, <3>1, <3>2
  <2>3. SlotsOf(k) \in SUBSET Used /\ job.existing \notin SlotsOf(k)
    BY <1>5, NothingInSlot0 DEF putDropsLost, Inv, PutKnows, Putting, Used, SlotsOf
  <2> QED BY <2>1, <2>2, <2>3 DEF RemoveStep
<1>6. CASE Lose \/ put \/ Allocated \/ evictLRU \/ trimToBytes \/ UNCHANGED vars
  BY <1>6 DEF Lose, put, Allocated, evictLRU, trimToBytes, vars, table, Quick, Goto, StillStep
<1>7. CASE MakeRoom \/ AllocationFails
  BY <1>7, EvictOrSteps DEF MakeRoom, AllocationFails, Goto, StillStep
<1>8. CASE Trim
  <2>1. job.existing = NoSlot
    BY <1>8 DEF Trim, Inv, PutKnows, Putting
  <2> QED BY <1>8, <2>1, EvictOrSteps DEF Trim, Return, Goto, StillStep
<1> QED BY <1>2, <1>3, <1>4, <1>5, <1>6, <1>7, <1>8 DEF Next

-----------------------------------------------------------------------------
(* The totals.  While put is between making room and writing its entry,    *)
(* the budget holds the asset it is about to write and all the others.     *)

Booked ==
    /\ budget \in Budgets
    /\ job.target \in Int
    /\ used_bytes = Bytes(Used)
    /\ budget # 0 => used_bytes <= budget
    /\ pc \in {"allocate", "commit"} /\ budget # 0
         => used_bytes - OldBytes(job) <= budget - job.bytes

(* The bytes of the used entries, as a total over the table.               *)
LEMMA BytesIs == Bytes(Used) = Total(entries, Used) /\ Bytes(Used)' = Total(entries', Used')
  BY Zenon DEF Bytes, Total

(* The entries in use are finitely many, with sizes that can be summed.    *)
LEMMA UsedSizes ==
  /\ IsFiniteSet(Used)
  /\ Inv => /\ \A s \in Used : s \in Slot /\ entries[s].bytes \in Nat
            /\ Sized(entries, Used)
            /\ Total(entries, Used) \in Nat
<1>1. IsFiniteSet(Slot)
  BY CacheConstants, FS_Interval DEF Slot
<1>2. IsFiniteSet(Used)
  BY <1>1, FS_Subset DEF Used
<1>3. Inv => /\ \A s \in Used : s \in Slot /\ entries[s].bytes \in Nat
             /\ Sized(entries, Used)
  BY DEF Inv, Typed, Used, Entry, Sized
<1>4. Parts(Used, {}, Used)
  BY DEF Parts
<1> QED BY <1>2, <1>3, <1>4, TotalSplit

(* Using an entry changes no size.                                         *)
LEMMA BookedTouch == ASSUME Inv, Booked, TouchStep PROVE Booked'
<1>1. PICK f, s : Touches(f, s) /\ s \in Used /\ f[s].bytes = entries[s].bytes
  BY DEF TouchStep
<1>2. UNCHANGED <<used_bytes, budget, pc, job>>
  BY DEF TouchStep
<1>3. use_counter \in 0 .. COUNTER_MAX
  BY DEF Inv, Typed
<1>4. /\ f \in [Slot -> Entry \cup {Empty}] /\ s \in Slot /\ f[s] \in Entry /\ Touch(f, s)
      /\ \A r \in Slot \ {s} : f[r] = entries[r]
  BY <1>1 DEF Touches
<1>5. \A r \in Slot :
        /\ entries'[r] = Empty <=> f[r] = Empty
        /\ f[r] # Empty => entries'[r].bytes = f[r].bytes
  BY <1>3, <1>4, TouchKeeps
<1>6. Used' = Used /\ \A r \in Used : entries'[r].bytes = entries[r].bytes
  BY <1>1, <1>4, <1>5, CacheConstants DEF Used
<1>7. Total(entries', Used') = Total(entries, Used)
  <2>1. Total(entries', Used) = Total(entries, Used)
    BY <1>6, TotalSame
  <2> QED BY <1>6, <2>1, Zenon
<1>8. used_bytes' = Bytes(Used)'
  BY <1>2, <1>7, BytesIs DEF Booked
<1>9. job.existing # NoSlot => job.existing \in Used \/ ~Putting
  BY DEF Inv, PutKnows, SlotsOf
<1>10. pc \in {"allocate", "commit"} => OldBytes(job)' = OldBytes(job)
  BY <1>2, <1>6, <1>9 DEF OldBytes, Putting
<1> QED BY <1>2, <1>8, <1>10 DEF Booked

(* What is removed leaves the total with its bytes.                        *)
LEMMA BookedRemove == ASSUME Inv, Booked, RemoveStep PROVE Booked'
<1>1. PICK S \in SUBSET Used : Remove(S) /\ job.existing \notin S
  BY DEF RemoveStep
<1>2. /\ Used' = Used \ S /\ \A r \in Used' : entries'[r] = entries[r]
      /\ used_bytes' = Max({0, used_bytes - Bytes(S)})
  BY <1>1 DEF Remove, Used, Inv, Typed
<1>3. Parts(Used, S, Used') /\ \A r \in Used' : entries'[r].bytes = entries[r].bytes
  BY <1>1, <1>2 DEF Parts
<1>4. /\ Total(entries', Used') = Total(entries, Used) - Total(entries, S)
      /\ Total(entries, S) \in Nat /\ Total(entries', Used') \in Nat
  BY <1>3, UsedSizes, TotalRemove
<1>5. Bytes(S) = Total(entries, S)
  BY Zenon DEF Bytes, Total
<1>6. used_bytes = Total(entries, Used) /\ used_bytes \in Nat
  BY BytesIs, UsedSizes DEF Booked
<1>7. used_bytes - Bytes(S) = Total(entries', Used')
  BY <1>4, <1>5, <1>6
<1>8. used_bytes' = Total(entries', Used')
  <2> DEFINE n == Total(entries', Used')
  <2>1. n \in Nat /\ used_bytes' = Max({0, n})
    BY <1>2, <1>4, <1>7
  <2> HIDE DEF n
  <2>2. Max({0, n}) = n
    BY <2>1 DEF Max
  <2> QED BY <2>1, <2>2 DEF n
<1>9. used_bytes' = Bytes(Used)'
  BY <1>8, BytesIs
<1>10. used_bytes' \in Nat /\ used_bytes' <= used_bytes /\ used_bytes \in Nat
  BY <1>4, <1>6, <1>8
<1>11. budget' = budget /\ budget \in Nat /\ budget' \in Budgets
  BY CacheConstants DEF Booked, RemoveStep
<1>12. budget' # 0 => used_bytes' <= budget'
  BY <1>10, <1>11 DEF Booked
<1>13. CASE UNCHANGED <<pc, job>>
  <2>1. pc \in {"allocate", "commit"} => OldBytes(job)' = OldBytes(job)
                                          /\ OldBytes(job) \in Nat
    <3>1. job.existing # NoSlot /\ Putting => job.existing \in Used'
      BY <1>1, <1>2 DEF Inv, PutKnows, SlotsOf
    <3> QED BY <1>2, <1>13, <3>1, UsedSizes DEF OldBytes, Putting
  <2>2. job.bytes \in Nat
    BY DEF Inv, Typed
  <2> QED BY <1>9, <1>10, <1>11, <1>12, <1>13, <2>1, <2>2 DEF Booked
<1>14. CASE pc' \in {"idle", "room"} /\ job'.target \in Int
  BY <1>9, <1>11, <1>12, <1>14 DEF Booked
<1> QED BY <1>13, <1>14 DEF RemoveStep

(* A commit replaces the old size by the new one, for which room was made. *)
LEMMA BookedCommit == ASSUME Inv, Booked, Commit PROVE Booked'
<1> DEFINE j == job.slot
           rest == Used \ {j}
<1>1. /\ pc = "commit" /\ pc' = "idle" /\ job' = NoJob /\ budget' = budget
      /\ used_bytes' = Max({0, used_bytes - OldBytes(job)}) + job.bytes
  BY DEF Commit, Return, Goto
<1>2. Touches(Written, j) /\ Written[j].bytes = job.bytes
  BY CommitTouches
<1>3. /\ j \in Slot /\ Used' = Used \cup {j}
      /\ IF job.existing = NoSlot THEN j \notin Used ELSE j = job.existing /\ j \in Used
  BY CommitWrites
<1>4. /\ entries'[j].bytes = job.bytes /\ entries' \in [Slot -> Entry \cup {Empty}]
      /\ \A r \in rest : entries'[r].bytes = entries[r].bytes
  <2>1. /\ Written \in [Slot -> Entry \cup {Empty}] /\ Written[j] \in Entry
        /\ Touch(Written, j) /\ \A r \in Slot \ {j} : Written[r] = entries[r]
        /\ use_counter \in 0 .. COUNTER_MAX
    BY <1>2 DEF Touches, Inv, Typed
  <2>2. \A r \in Slot : Written[r] # Empty => entries'[r].bytes = Written[r].bytes
    BY <1>3, <2>1, TouchKeeps
  <2>3. entries' \in [Slot -> Entry \cup {Empty}]
    BY <1>3, <2>1, TouchKeeps
  <2> QED BY <1>2, <1>3, <2>1, <2>2, <2>3, CacheConstants DEF Used
<1>5. rest \in SUBSET Used /\ Used \in SUBSET Slot /\ job.bytes \in Nat
  BY DEF Used, Inv, Typed
<1> HIDE DEF j
<1>6. Total(entries', Used') = job.bytes + Total(entries, rest)
  <2>1. IsFiniteSet(Used') /\ Sized(entries', Used')
    BY <1>3, <1>4, <1>5, UsedSizes, FS_AddElement DEF Sized
  <2>2. Parts(Used', {j}, rest)
    BY <1>3 DEF Parts
  <2>3. Total(entries', {j}) = job.bytes
    BY <1>4, <1>5, TotalOne
  <2>4. Total(entries', rest) = Total(entries, rest)
    BY <1>4, TotalSame
  <2> HIDE DEF rest
  <2>5. Total(entries', Used') = Total(entries', {j}) + Total(entries', rest)
    BY <2>1, <2>2, TotalSplit
  <2> QED BY <2>3, <2>4, <2>5
<1>7. Total(entries, Used) = OldBytes(job) + Total(entries, rest) /\ Total(entries, rest) \in Nat
  <2>1. CASE job.existing = NoSlot
    <3>1. rest = Used /\ OldBytes(job) = 0
      BY <1>3, <2>1 DEF OldBytes
    <3>2. Total(entries, rest) = Total(entries, Used)
      BY <3>1, Zenon
    <3> QED BY <3>1, <3>2, UsedSizes
  <2>2. CASE job.existing # NoSlot
    <3>1. j \in Used /\ OldBytes(job) = entries[j].bytes
      BY <1>3, <2>2 DEF OldBytes
    <3>2. Total(entries, {j}) = OldBytes(job)
      BY <3>1, UsedSizes, TotalOne
    <3>3. Parts(Used, {j}, rest)
      BY <3>1 DEF Parts
    <3> HIDE DEF rest
    <3> QED BY <3>2, <3>3, UsedSizes, TotalSplit
  <2> QED BY <2>1, <2>2
<1> HIDE DEF rest
<1>8. used_bytes = Total(entries, Used)
  BY BytesIs DEF Booked
<1>9. OldBytes(job) \in Nat
  BY <1>3, UsedSizes DEF OldBytes
<1>10. used_bytes' = Total(entries, rest) + job.bytes
  <2> DEFINE n == Total(entries, rest)
  <2>1. used_bytes - OldBytes(job) = n /\ n \in Nat
    BY <1>7, <1>8, <1>9
  <2> HIDE DEF n
  <2>2. Max({0, n}) = n
    BY <2>1 DEF Max
  <2>3. used_bytes' = n + job.bytes
    BY <1>1, <2>1, <2>2
  <2> QED BY <2>3 DEF n
<1>11. used_bytes' = Bytes(Used)'
  BY <1>5, <1>6, <1>7, <1>10, BytesIs
<1>12. budget' \in Nat /\ (budget' # 0 => used_bytes' <= budget')
  BY <1>1, <1>5, <1>7, <1>8, <1>9, <1>10, CacheConstants DEF Booked
<1>13. budget' \in Budgets /\ job'.target \in Int
  BY <1>1 DEF Booked, NoJob
<1> QED BY <1>1, <1>11, <1>12, <1>13 DEF Booked

(* A put decides on allocating only where its bytes fit the budget.        *)
LEMMA BookedStill == ASSUME Inv, Booked, [Next]_vars, StillStep PROVE Booked'
<1>1. UNCHANGED <<budget, used_bytes, entries>>
  BY DEF StillStep, table
<1>2. Used' = Used /\ Total(entries', Used') = Total(entries, Used)
  <2>1. Used' = Used
    BY <1>1 DEF Used
  <2> QED BY <1>1, <2>1, Zenon
<1>3. used_bytes' = Bytes(Used)' /\ used_bytes \in Nat
  BY <1>1, <1>2, BytesIs, UsedSizes DEF Booked
<1>4. SUFFICES /\ job'.target \in Int
               /\ pc' \in {"allocate", "commit"} /\ budget # 0
                    => used_bytes - OldBytes(job)' <= budget - job'.bytes
  BY <1>1, <1>3 DEF Booked
<1>5. CASE UNCHANGED <<pc, job>>
  BY <1>1, <1>5 DEF Booked, OldBytes
<1>6. CASE pc' \in {"idle", "room", "trim"} /\ job'.target \in Int
  BY <1>6
<1>7. CASE pc' = "allocate" /\ ~NeedsRoom(job) /\ \E s : job' = [job EXCEPT !.slot = s]
  <2>1. /\ job'.target = job.target /\ job'.bytes = job.bytes
        /\ job'.existing = job.existing
    BY <1>7 DEF Inv, Typed
  <2>2. OldBytes(job)' = OldBytes(job) /\ OldBytes(job) \in Nat
    <3>1. job.existing # NoSlot => job.existing \in Used \/ ~Putting
      BY DEF Inv, PutKnows, SlotsOf
    <3>2. OldBytes(job)' = OldBytes(job)
      BY <1>1, <2>1 DEF OldBytes
    <3>3. job.existing # NoSlot => job.existing \in Used
      BY <3>1 DEF Inv, PutKnows
    <3> QED BY <3>2, <3>3, UsedSizes DEF OldBytes
  <2>3. job.bytes \in Nat /\ budget \in Nat
    BY CacheConstants DEF Inv, Typed, Booked
  <2>4. budget # 0 => ~(used_bytes - OldBytes(job) > budget - job.bytes)
    BY <1>7 DEF NeedsRoom
  <2> QED BY <1>3, <2>1, <2>2, <2>3, <2>4 DEF Booked
<1>8. CASE pc = "allocate" /\ \E b : job' = [job EXCEPT !.block = b]
  <2>1. /\ job'.target = job.target /\ job'.bytes = job.bytes
        /\ job'.existing = job.existing
    BY <1>8 DEF Inv, Typed
  <2>2. OldBytes(job)' = OldBytes(job)
    BY <1>1, <2>1 DEF OldBytes
  <2> QED BY <1>8, <2>1, <2>2 DEF Booked
<1>9. CASE Return
  BY <1>6, <1>9 DEF Return, Goto, NoJob
<1>10. CASE Quick \/ UNCHANGED vars
  BY <1>5, <1>10 DEF Quick, vars
<1>11. CASE get \/ pin \/ unpin \/ putSame \/ remove \/ purgeUnpinned \/ clear \/ Lose
  BY <1>10, <1>11 DEF get, pin, unpin, putSame, remove, purgeUnpinned, clear, Lose
<1>12. ASSUME NEW k, NEW n, NEW p, NEW x,
              Goto("room", [NoJob EXCEPT !.key = k, !.bytes = n, !.pinned = p, !.existing = x])
       PROVE  pc' = "room" /\ job'.target = 0
  BY <1>12 DEF Goto, NoJob
<1>13. ASSUME NEW k, NEW n, NEW p,
              Goto("room", [NoJob EXCEPT !.key = k, !.bytes = n, !.pinned = p])
       PROVE  pc' = "room" /\ job'.target = 0
  BY <1>13 DEF Goto, NoJob
<1>14. CASE put
  <2>1. pc' = "room" /\ job'.target = 0
    BY <1>12, <1>14 DEF put
  <2> QED BY <1>6, <2>1
<1>15. CASE putDropsLost
  <2>1. Return \/ (pc' = "room" /\ job'.target = 0)
    BY <1>13, <1>15 DEF putDropsLost
  <2> QED BY <1>6, <1>9, <2>1
<1>16. ASSUME NEW x, EvictOr(x, Return) PROVE UNCHANGED <<pc, job>> \/ Return
  BY <1>16 DEF EvictOr
<1>17. CASE MakeRoom \/ AllocationFails
  BY <1>5, <1>7, <1>9, <1>16, <1>17 DEF MakeRoom, AllocationFails, Goto
<1>18. CASE Allocated
  BY <1>8, <1>18 DEF Allocated, Goto
<1>19. ASSUME NEW n \in Int, Goto("trim", [NoJob EXCEPT !.target = n])
       PROVE  pc' = "trim" /\ job'.target \in Int
  <2>1. job' = [NoJob EXCEPT !.target = n]
    BY <1>19 DEF Goto
  <2>2. job'.target = n
    BY <2>1 DEF NoJob
  <2> QED BY <1>19, <2>2 DEF Goto
<1>20. CASE evictLRU
  <2>1. PICK n \in Sizes : Goto("trim", [NoJob EXCEPT !.target = used_bytes - n])
    BY <1>20 DEF evictLRU
  <2>2. used_bytes - n \in Int
    BY <1>3, CacheConstants
  <2>3. pc' = "trim" /\ job'.target \in Int
    BY <1>19, <2>1, <2>2
  <2> QED BY <1>6, <2>3
<1>21. CASE trimToBytes
  <2>1. pc' = "trim" /\ job'.target \in Int
    BY <1>3, <1>19, <1>21 DEF trimToBytes
  <2> QED BY <1>6, <2>1
<1>22. CASE Trim
  BY <1>5, <1>9, <1>16, <1>22 DEF Trim
<1>23. CASE Commit
  BY <1>9, <1>23 DEF Commit
<1> QED BY <1>10, <1>11, <1>14, <1>15, <1>17, <1>18, <1>20, <1>21, <1>22, <1>23 DEF Next

(* The empty cache has used no bytes.                                      *)
LEMMA InitBooked == Init => Booked
<1> SUFFICES ASSUME Init PROVE Booked
  OBVIOUS
<1>1. Used = {} /\ pc = "idle" /\ used_bytes = 0 /\ budget \in Nat /\ job.target = 0
  BY CacheConstants DEF Init, Used, NoJob
<1>2. Bytes(Used) = 0
  <2>1. Total(entries, Used) = Total(entries, {})
    BY <1>1, Zenon
  <2> QED BY <2>1, BytesIs, TotalEmpty
<1> QED BY <1>1, <1>2 DEF Init, Booked

(* Total and budget are kept in every reachable state.                     *)
LEMMA BookedInvariant == Spec => [](Inv /\ Booked)
<1>1. Inv /\ Booked /\ [Next]_vars => Booked'
  BY TableSteps, BookedTouch, BookedRemove, BookedCommit, BookedStill
<1> QED BY <1>1, InitBooked, InvInit, InvNext, PTL DEF Spec

-----------------------------------------------------------------------------
(* The order of the last uses.  What was used before another entry has the *)
(* smaller stamp, unless the counter has wrapped since.                    *)

Aged ==
    /\ older \subseteq Used \X Used
    /\ \A s \in Used : entries[s].lastUse <= use_counter
    /\ \A p \in older : entries[p[1]].lastUse < entries[p[2]].lastUse
                          \/ Levelled(p[1], p[2])

(* The entry that was used last has the greatest stamp, or all were        *)
(* levelled.                                                               *)
LEMMA AgedTouch ==
  ASSUME Inv, Aged, NEW f, NEW s, Touches(f, s) PROVE Aged'
<1> DEFINE wraps == use_counter = COUNTER_MAX
<1>1. use_counter \in 0 .. COUNTER_MAX /\ COUNTER_MAX \in Nat \ {0}
  BY CacheConstants DEF Inv, Typed
<1>2. /\ f \in [Slot -> Entry \cup {Empty}] /\ s \in Slot /\ f[s] \in Entry /\ Touch(f, s)
      /\ \A r \in Slot \ {s} : f[r] = entries[r]
  BY DEF Touches
<1>3. /\ \A r \in Slot :
           /\ entries'[r] = Empty <=> f[r] = Empty
           /\ f[r] # Empty => entries'[r].lastUse =
                               IF r = s \/ wraps THEN use_counter' ELSE f[r].lastUse
      /\ use_counter' = IF wraps THEN 1 ELSE use_counter + 1
      /\ older' = UsedLast(s)
  <2>1. /\ use_counter' = IF wraps THEN 1 ELSE use_counter + 1
        /\ older' = UsedLast(s)
    BY <1>2 DEF Touch
  <2> QED BY <1>1, <1>2, <2>1, TouchKeeps
<1> HIDE DEF wraps
<1>4. Used' = Used \cup {s} /\ Used \subseteq Slot
  BY <1>2, <1>3, CacheConstants DEF Used
<1>5. \A r \in Used : entries[r].lastUse \in Nat
  BY DEF Inv, Typed, Used, Entry
<1>6. /\ entries'[s].lastUse = use_counter'
      /\ \A r \in Used \ {s} :
            entries'[r].lastUse = IF wraps THEN use_counter' ELSE entries[r].lastUse
  BY <1>2, <1>3, <1>4, CacheConstants DEF Used
<1>7. older' \subseteq Used' \X Used'
  BY <1>3, <1>4 DEF Aged, UsedLast
<1>8. \A r \in Used' : entries'[r].lastUse <= use_counter'
  BY <1>1, <1>3, <1>4, <1>5, <1>6 DEF Aged, wraps
<1>9. ASSUME NEW p \in older'
      PROVE  entries'[p[1]].lastUse < entries'[p[2]].lastUse \/ Levelled(p[1], p[2])'
  <2>1. p[1] \in Used \ {s} /\ p[2] \in Used \cup {s}
    BY <1>3, <1>9 DEF UsedLast, Aged
  <2>2. CASE wraps
    BY <1>3, <1>6, <2>1, <2>2 DEF Levelled
  <2>3. CASE ~wraps /\ p[2] = s
    BY <1>1, <1>3, <1>5, <1>6, <2>1, <2>3 DEF Aged
  <2>4. CASE ~wraps /\ p[2] # s
    <3>1. p \in older
      BY <1>3, <1>9, <2>4 DEF UsedLast
    <3> QED BY <1>6, <2>1, <2>4, <3>1 DEF Aged, Levelled
  <2> QED BY <2>2, <2>3, <2>4
<1> QED BY <1>7, <1>8, <1>9 DEF Aged

(* Every step keeps stamps and order of use together.                      *)
LEMMA AgedNext == ASSUME Inv, Aged, [Next]_vars PROVE Aged'
<1>1. CASE TouchStep
  BY <1>1, AgedTouch DEF TouchStep
<1>2. CASE Commit
  BY <1>2, AgedTouch, CommitTouches
<1>3. CASE RemoveStep
  <2>1. PICK S \in SUBSET Used : Remove(S)
    BY <1>3 DEF RemoveStep
  <2>2. /\ Used' = Used \ S /\ \A r \in Used' : entries'[r] = entries[r]
        /\ use_counter' = use_counter /\ older' = Forgotten(S)
    BY <2>1 DEF Remove, Used, Inv, Typed
  <2>3. older' \subseteq older /\ older' \subseteq Used' \X Used'
    BY <2>2 DEF Forgotten, Aged
  <2>4. \A p \in older' : p[1] \in Used' /\ p[2] \in Used'
    BY <2>3
  <2> QED BY <2>2, <2>3, <2>4 DEF Aged, Levelled
<1>4. CASE StillStep
  BY <1>4 DEF StillStep, table, Aged, Used, Levelled
<1> QED BY <1>1, <1>2, <1>3, <1>4, TableSteps

(* They agree in every reachable state.                                    *)
LEMMA AgedInvariant == Spec => [](Inv /\ Aged)
<1>1. Init => Aged
  BY DEF Init, Aged, Used
<1> QED BY <1>1, InvInit, InvNext, AgedNext, PTL DEF Spec

-----------------------------------------------------------------------------
(* The theorems *)

(* One place per block is one entry per block.                             *)
LEMMA InvCounts == Inv => EveryBlockHasOneEntry
<1> SUFFICES ASSUME Inv, NEW b \in Block
             PROVE  LET n == Cardinality({s \in Used : entries[s].block = b})
                               + (IF job.block = b THEN 1 ELSE 0)
                    IN  n <= 1 /\ (b \in live => n = 1)
  BY DEF EveryBlockHasOneEntry
<1> DEFINE E == {s \in Used : entries[s].block = b}
<1>1. b # NoBlock
  BY CacheConstants
<1>2. CASE E = {}
  <2>1. Cardinality(E) = 0
    BY <1>2, FS_EmptySet
  <2>2. b \in live => job.block = b
    BY <1>2 DEF Inv, LiveIsEntered
  <2> QED BY <2>1, <2>2
<1>3. ASSUME NEW s \in E PROVE Cardinality(E) = 1 /\ job.block # b
  <2>1. E = {s}
    BY DEF Inv, OneEntryPerBlock
  <2>2. job.block # b
    BY <1>1 DEF Inv, InHand
  <2> HIDE DEF E
  <2> QED BY <2>1, <2>2, FS_Singleton
<1> QED BY <1>2, <1>3

(* AssetCache.cpp: whatever put, remove, eviction and trimming do, a block *)
(* of the manager is in one entry of the cache and no other, or about to   *)
(* be: none leaks and none is released twice.                              *)
THEOREM BlocksAreEntered == Spec => []EveryBlockHasOneEntry
  BY Invariant, InvCounts, PTL

(* Eviction spares the pinned entries and the one put is to replace.       *)
LEMMA EvictionSpares ==
  ASSUME Inv, NEW x \in Slot \cup {NoSlot}, EvictOr(x, Return)
  PROVE  \A s \in Used : s = x \/ entries[s].pinned => entries'[s] = entries[s]
<1> USE DEF Used
<1>1. CASE \E r \in Slot : LRU(r, x) /\ Remove({r})
  <2>1. PICK r \in Slot : LRU(r, x) /\ Remove({r})
    BY <1>1
  <2>2. ~entries[r].pinned /\ r # x
    BY <2>1 DEF LRU, Evictable
  <2> QED BY <2>1, <2>2 DEF Remove
<1>2. CASE UNCHANGED table
  BY <1>2 DEF table
<1> QED BY <1>1, <1>2 DEF EvictOr

(* The entry that a put will replace is left alone until the commit.       *)
LEMMA StepKeepsExisting ==
  ASSUME Inv, [Next]_vars, job.existing # NoSlot, ~Commit
  PROVE  entries'[job.existing] = entries[job.existing]
<1>1. Putting /\ job.existing \in Used
  BY DEF Inv, PutKnows, SlotsOf
<1>2. CASE Next
  <2>1. MakeRoom \/ Allocated \/ AllocationFails
    <3>1. pc \in {"room", "allocate", "commit"}
      BY <1>1 DEF Putting
    <3>2. ~(get \/ pin \/ unpin \/ remove \/ purgeUnpinned \/ clear \/ Lose)
      BY <3>1 DEF get, pin, unpin, remove, purgeUnpinned, clear, Lose, Quick
    <3>3. ~(putSame \/ put \/ putDropsLost \/ evictLRU \/ trimToBytes \/ Trim)
      BY <3>1 DEF putSame, put, putDropsLost, evictLRU, trimToBytes, Trim, Quick
    <3> QED BY <1>2, <3>2, <3>3 DEF Next
  <2>2. EvictOr(job.existing, Return) \/ UNCHANGED table
    BY <2>1 DEF MakeRoom, Allocated, AllocationFails
  <2>3. job.existing \in Slot \cup {NoSlot}
    BY DEF Inv, Typed
  <2> QED BY <1>1, <2>2, <2>3, EvictionSpares DEF table
<1>3. CASE UNCHANGED vars
  BY <1>3 DEF vars, table
<1> QED BY <1>2, <1>3

(* AssetCache.cpp, put: a resize that fails, after whatever it has         *)
(* evicted, leaves the asset it was to replace as it was.                  *)
THEOREM ResizeKeepsAsset == Spec => FailedResizeKeepsAsset
<1>1. Inv /\ [Next]_vars =>
        [job.existing # NoSlot /\ ~Commit
           => entries'[job.existing] = entries[job.existing]]_vars
  BY StepKeepsExisting
<1> QED BY <1>1, Invariant, PTL DEF Spec, FailedResizeKeepsAsset

(* What keeps a pinned asset in its place. *)
PinnedStays ==
    \A s \in Used : entries[s].pinned /\ Owned(s) =>
        \/ entries'[s] # Empty /\ entries'[s].block = entries[s].block
        \/ Commit /\ s = job.existing

(* Using an entry takes no block from a pinned one.                        *)
LEMMA TouchingKeepsBlocks ==
  ASSUME Inv, NEW f, Alike(f), NEW s \in Slot, f[s] \in Entry, Touch(f, s)
  PROVE  PinnedStays
<1>1. use_counter \in 0 .. COUNTER_MAX /\ f \in [Slot -> Entry \cup {Empty}]
  BY DEF Inv, Typed, Alike
<1>2. \A r \in Used : entries'[r] # Empty /\ entries'[r].block = entries[r].block
  BY <1>1, TouchKeeps DEF Alike, Used
<1> QED BY <1>2 DEF PinnedStays

(* Nor does any step but remove and clear.                                 *)
LEMMA StepKeepsPinned ==
  ASSUME Inv, Next, ~remove, ~clear
  PROVE  PinnedStays
<1>1. CASE UNCHANGED table
  BY <1>1 DEF PinnedStays, Used, table
<1>2. ASSUME NEW k \in Key, NEW s \in OwnedOf(k), NEW p \in BOOLEAN,
             Touch(entries, s) \/ Touch([entries EXCEPT ![s].pinned = p], s)
      PROVE  PinnedStays
  <2>1. s \in Used
    BY DEF OwnedOf, SlotsOf
  <2>2. s \in Slot /\ entries[s] \in Entry /\ Alike(entries)
    BY <2>1 DEF Used, Inv, Typed, Alike
  <2>3. CASE Touch(entries, s)
    BY <2>2, <2>3, TouchingKeepsBlocks
  <2>4. CASE Touch([entries EXCEPT ![s].pinned = p], s)
    <3> DEFINE f == [entries EXCEPT ![s].pinned = p]
    <3>1. Alike(f) /\ s \in Slot /\ f[s] \in Entry
      BY <2>1, SetPinned
    <3>2. Touch(f, s)
      BY <2>4
    <3> HIDE DEF f
    <3> QED BY <3>1, <3>2, TouchingKeepsBlocks, Zenon
  <2> QED BY <1>2, <2>3, <2>4
<1>3. CASE get \/ pin \/ unpin \/ putSame
  <2>1. TRUE \in BOOLEAN /\ FALSE \in BOOLEAN
    OBVIOUS
  <2> QED BY <1>2, <1>3, <2>1 DEF get, pin, unpin, putSame
<1>4. CASE purgeUnpinned
  <2>1. \A s \in Used : entries[s].pinned => entries'[s] = entries[s]
    BY <1>4 DEF purgeUnpinned, Remove, Evictable, Used
  <2> QED BY <2>1 DEF PinnedStays, Used
<1>5. CASE putDropsLost
  <2>1. PICK k \in Key : SlotsOf(k) # OwnedOf(k) /\ Remove(SlotsOf(k))
    BY <1>5 DEF putDropsLost
  <2>2. \A s \in SlotsOf(k) : ~Owned(s)
    BY <2>1 DEF Inv, OneEntryPerKey, SlotsOf, OwnedOf
  <2>3. \A s \in Used : Owned(s) => entries'[s] = entries[s]
    BY <2>1, <2>2 DEF Remove, Used
  <2> QED BY <2>3 DEF PinnedStays, Used
<1>6. ASSUME NEW x \in Slot \cup {NoSlot}, EvictOr(x, Return) PROVE PinnedStays
  BY <1>6, EvictionSpares DEF PinnedStays, Used
<1>7. CASE MakeRoom \/ AllocationFails \/ Trim
  <2>1. job.existing \in Slot \cup {NoSlot}
    BY DEF Inv, Typed
  <2> QED BY <1>1, <1>6, <1>7, <2>1 DEF MakeRoom, AllocationFails, Trim
<1>8. CASE Commit
  <2>1. /\ IF job.existing = NoSlot THEN job.slot \notin Used ELSE job.slot = job.existing
        /\ \A r \in Used \ {job.slot} :
            entries'[r] # Empty /\ entries'[r].block = entries[r].block
    BY <1>8, CommitWrites DEF Used
  <2> QED BY <1>8, <2>1 DEF PinnedStays
<1> QED BY <1>1, <1>3, <1>4, <1>5, <1>7, <1>8
     DEF Next, Lose, put, Allocated, evictLRU, trimToBytes

(* README: pressure recovery will not evict a pinned asset.  No step but   *)
(* remove or clear, and the replacement of its own key, takes one that the *)
(* manager still owns.                                                     *)
THEOREM PinnedAssetsStay == Spec => PinnedKept
<1>1. Inv /\ [Next]_vars =>
        [~remove /\ ~clear =>
          \A s \in Used : entries[s].pinned /\ Owned(s) =>
            \/ entries'[s] # Empty /\ entries'[s].block = entries[s].block
            \/ Commit /\ s = job.existing]_vars
  BY StepKeepsPinned DEF PinnedStays
<1> QED BY <1>1, Invariant, PTL DEF Spec, PinnedKept
(* Together the three invariants are what a reader expects of the cache.   *)
LEMMA BooksAreRight == Inv /\ Booked /\ Aged => CacheInvariant
<1> SUFFICES ASSUME Inv, Booked, Aged PROVE CacheInvariant
  OBVIOUS
<1>1. used_bytes \in Nat
  BY BytesIs, UsedSizes DEF Booked
<1>2. older \subseteq Slot \X Slot
  BY DEF Aged, Used
<1>3. job \in Job
  BY DEF Inv, Typed, Booked, Job
<1>4. TypeOK
  BY <1>1, <1>2, <1>3 DEF Inv, Typed, Booked, TypeOK
<1>5. ASSUME NEW k \in Key PROVE Cardinality(SlotsOf(k)) <= 1
  <2>1. CASE SlotsOf(k) = {}
    <3>1. Cardinality(SlotsOf(k)) = 0
      BY <2>1, FS_EmptySet, Zenon
    <3> QED BY <3>1
  <2>2. ASSUME NEW s \in SlotsOf(k) PROVE Cardinality(SlotsOf(k)) <= 1
    <3>1. SlotsOf(k) = {s}
      BY DEF Inv, OneEntryPerKey, SlotsOf
    <3>2. Cardinality(SlotsOf(k)) = 1
      BY <3>1, FS_Singleton, Zenon
    <3> QED BY <3>2
  <2> QED BY <2>1, <2>2
<1>6. Accounting
  BY <1>5 DEF Accounting, Booked
<1> QED BY <1>4, <1>6 DEF CacheInvariant

(* AssetCache::validate, with the types: at every moment used_bytes_ is    *)
(* the sum of the entries and within the budget, and a key has one entry.  *)
THEOREM CacheBooksAreRight == Spec => []CacheInvariant
  BY BookedInvariant, AgedInvariant, BooksAreRight, PTL

(* A step that empties an entry in put's or trim's loop has chosen it by   *)
(* findLRUUnpinned.                                                        *)
LEMMA EvictedIsLRU ==
  ASSUME Inv, Next, pc \in {"room", "allocate", "trim"}, NEW s \in Used, entries'[s] = Empty
  PROVE  LRU(s, job.existing)
<1>1. MakeRoom \/ Allocated \/ AllocationFails \/ Trim
  BY DEF Next, get, pin, unpin, remove, purgeUnpinned, clear, Lose, Quick, putSame, put,
         putDropsLost, Commit, evictLRU, trimToBytes
<1>2. Trim => job.existing = NoSlot
  BY DEF Trim, Inv, PutKnows, Putting
<1>3. EvictOr(job.existing, Return) \/ UNCHANGED entries
  BY <1>1, <1>2 DEF MakeRoom, Allocated, AllocationFails, Trim, table
<1>4. s \in Slot /\ entries[s] # Empty
  BY DEF Used
<1>5. PICK r \in Slot : LRU(r, job.existing) /\ Remove({r})
  BY <1>3, <1>4 DEF EvictOr, table
<1>6. r = s
  BY <1>4, <1>5 DEF Remove
<1> QED BY <1>5, <1>6

(* README: "LRU cache eviction".  No asset is evicted while one that may   *)
(* go has been unused for longer, but for those the wrap has made equal.   *)
THEOREM EvictionIsLRU == Spec => EvictsLeastRecent
<1>1. ASSUME Inv, Aged, Next, NEW s \in Used, NEW r \in Evictable(job.existing),
             pc \in {"room", "allocate", "trim"}, entries'[s] = Empty, <<r, s>> \in older
      PROVE  Levelled(r, s)
  <2>1. LRU(s, job.existing)
    BY <1>1, EvictedIsLRU
  <2>2. entries[s].lastUse <= entries[r].lastUse
    <3>1. entries[s].lastUse \in Nat /\ entries[r].lastUse \in Nat
      BY <1>1 DEF Inv, Typed, Used, Entry, Evictable
    <3> QED BY <2>1, <3>1 DEF LRU
  <2>3. entries[r].lastUse < entries[s].lastUse \/ Levelled(r, s)
    <3> DEFINE p == <<r, s>>
    <3>1. p[1] = r /\ p[2] = s /\ p \in older
      BY <1>1
    <3> HIDE DEF p
    <3> QED BY <1>1, <3>1 DEF Aged
  <2>4. entries[s].lastUse \in Nat /\ entries[r].lastUse \in Nat
    BY <1>1 DEF Inv, Typed, Used, Entry, Evictable
  <2> QED BY <2>2, <2>3, <2>4
<1>2. Inv /\ Aged /\ [Next]_vars =>
        [\A s \in Used, r \in Evictable(job.existing) :
            /\ pc \in {"room", "allocate", "trim"}
            /\ entries'[s] = Empty
            /\ <<r, s>> \in older
            => Levelled(r, s)]_vars
  BY <1>1
<1> QED BY <1>2, AgedInvariant, PTL DEF Spec, EvictsLeastRecent
=============================================================================
