---------------------------- MODULE ScratchArena ----------------------------
(***************************************************************************)
(* The scratch arena of MemoryManager (src/src/NV3047_MemoryManager.cpp):  *)
(* an offset into one block that the manager keeps from begin() to end().  *)
(* Memory is drawn from it during a frame and never returned one by one:   *)
(* beginFrame() recycles all of it, and within a frame nested operations   *)
(* rewind it to a mark they took.                                          *)
(*                                                                         *)
(* Each operation is one critical section of the manager's mutex, so one   *)
(* action.  The users nest their marks, as the README shows.  AutoMemory's *)
(* pressure policy resets the arena too, from whatever task services it.   *)
(***************************************************************************)
EXTENDS Integers, FiniteSets

CONSTANTS
    BASE,               \* address of scratch_base_
    CAPACITY,           \* scratch_capacity_
    Power,              \* the powers of two an address can hold, from 4 on
    ADDRESS_MAX,        \* UINTPTR_MAX
    Sizes,              \* arguments of scratch()
    Alignments,
    MAX_DEPTH,          \* bound: marks taken and not yet rewound
    BackgroundResets    \* whether another task services AutoMemory meanwhile

ASSUME ArenaConstants ==
    /\ BASE \in Nat /\ CAPACITY \in Nat /\ ADDRESS_MAX \in Nat
    /\ Power \subseteq Nat \ {0}
    /\ Sizes \subseteq Nat /\ Alignments \subseteq Nat
    /\ MAX_DEPTH \in Nat
    /\ BackgroundResets \in BOOLEAN

VARIABLES
    offset,     \* scratch_offset_
    held,       \* the blocks their users may still write to (history)
    depth,      \* number of marks in the users' hands
    mark        \* the marks, the innermost last

arenaVars == <<offset, held, depth, mark>>

(* level: the number of marks that had been taken when it was drawn *)
Held == [start : Nat, size : Nat \ {0}, alignment : Nat, level : 0 .. MAX_DEPTH]
Above(b) == b.start + b.size    \* the first address behind block b

ArenaInit ==
    /\ offset = 0
    /\ held = {}
    /\ depth = 0
    /\ mark = [i \in 1 .. MAX_DEPTH |-> 0]

-----------------------------------------------------------------------------
(* normalizeAlignment, a power of two not below 4 and not below what is    *)
(* asked for; without one the call fails.                                  *)
Normalized(a, p) ==
    /\ p \in Power /\ p >= a
    /\ \A q \in Power : q >= a => p <= q

(* The first multiple of p from address a on. *)
FirstAligned(a, p, start) == start \in a .. a + p - 1 /\ start % p = 0

(* Variants that align the offset instead of the address, forget the gap   *)
(* that alignment leaves, or test the size before they align.              *)
scratch_AlignsOffset ==
    \E n \in Sizes \ {0}, a \in Alignments, p \in Power, at \in 0 .. CAPACITY :
        /\ Normalized(a, p)
        /\ FirstAligned(offset, p, at)
        /\ n <= CAPACITY - at
        /\ offset' = at + n
        /\ held' = held \cup {[start |-> BASE + at, size |-> n, alignment |-> a, level |-> depth]}
        /\ UNCHANGED <<depth, mark>>
scratch_ForgetsGap ==
    \E n \in Sizes \ {0}, a \in Alignments, p \in Power, start \in BASE .. BASE + CAPACITY :
        /\ Normalized(a, p)
        /\ BASE + offset <= ADDRESS_MAX - (p - 1)
        /\ FirstAligned(BASE + offset, p, start)
        /\ n <= CAPACITY - (start - BASE)
        /\ offset' = offset + n
        /\ held' = held \cup {[start |-> start, size |-> n, alignment |-> a, level |-> depth]}
        /\ UNCHANGED <<depth, mark>>
scratch ==
    \E n \in Sizes \ {0}, a \in Alignments, p \in Power, start \in BASE .. BASE + CAPACITY :
        /\ Normalized(a, p)
        /\ BASE + offset <= ADDRESS_MAX - (p - 1)
        /\ FirstAligned(BASE + offset, p, start)
        /\ n <= CAPACITY - (start - BASE)
        /\ offset' = start - BASE + n
        /\ held' = held \cup {[start |-> start, size |-> n, alignment |-> a, level |-> depth]}
        /\ UNCHANGED <<depth, mark>>

scratchMark ==
    /\ depth < MAX_DEPTH
    /\ depth' = depth + 1
    /\ mark' = [mark EXCEPT ![depth + 1] = offset]
    /\ UNCHANGED <<offset, held>>

(* The innermost operation gives back what it drew.  A mark above the      *)
(* offset is refused, which its caller does not look at.                   *)
rewindScratch ==
    /\ depth > 0
    /\ offset' = IF mark[depth] <= offset THEN mark[depth] ELSE offset
    /\ held' = {b \in held : b.level < depth}
    /\ depth' = depth - 1
    /\ UNCHANGED mark

(* At a frame boundary nobody has marks or blocks of the last frame. *)
beginFrame ==
    /\ offset' = 0
    /\ held' = {}
    /\ depth' = 0
    /\ UNCHANGED mark

(* applyPressurePolicy on entry to Critical, or emergencyPurge.  Another   *)
(* task that services AutoMemory tells nobody; the user of the arena calls *)
(* service() itself only between operations, and takes its blocks for gone.*)
resetScratch ==
    /\ BackgroundResets \/ depth = 0
    /\ offset' = 0
    /\ held' = IF BackgroundResets THEN held ELSE {}
    /\ UNCHANGED <<depth, mark>>

ArenaNext == scratch \/ scratchMark \/ rewindScratch \/ beginFrame \/ resetScratch
ArenaSpec == ArenaInit /\ [][ArenaNext]_arenaVars

-----------------------------------------------------------------------------
(* Properties *)

(* Every variable has its type. *)
ArenaTypeOK ==
    /\ offset \in 0 .. CAPACITY
    /\ held \subseteq Held
    /\ depth \in 0 .. MAX_DEPTH
    /\ mark \in [1 .. MAX_DEPTH -> 0 .. CAPACITY]

(* AutoRuntime.cpp: "Scratch is frame-lifetime memory."  Until its frame   *)
(* ends, or the operation that drew it rewinds, nobody else is given any   *)
(* byte of a block.                                                        *)
FrameLifetime ==
    \A b, c \in held : b # c => Above(b) <= c.start \/ Above(c) <= b.start

(* README: validation covers "scratch bounds".  Blocks lie in the arena,   *)
(* below the offset, and start where their user asked for.                 *)
ScratchBounds ==
    \A b \in held :
        /\ b.start >= BASE
        /\ Above(b) <= BASE + offset
        /\ b.alignment \in Power => b.start % b.alignment = 0

(* README: rewinding returns "temporary scratch capacity immediately".     *)
(* No byte behind the last block in use is ever taken.                     *)
NothingKeptBack ==
    offset = 0 \/ \E b \in held : Above(b) = BASE + offset

(* What is drawn lies where it should, and what is free can be drawn.      *)
OffsetIsExact == ArenaTypeOK /\ ScratchBounds /\ NothingKeptBack
=============================================================================
