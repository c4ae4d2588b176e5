-------------------------- MODULE OwnershipLedger --------------------------
(* What an owner of memory blocks promises, whatever tables it keeps: each  *)
(* block has exactly one owner at any time, it changes hands in the five    *)
(* ways below and in no other, and only its present owner gives it back.    *)
CONSTANTS
    Block,      \* blocks that can be owned
    Holder,     \* tasks that can hold a block while a call runs
    Books,      \* owner of the blocks entered in the books
    Reserve,    \* owner of a block kept aside by the manager itself
    Nobody      \* owner of a block the heap has

VARIABLE owner

HasBlock(h) == \E b \in Block : owner[b] = h
Pass(b, from, to) == owner[b] = from /\ owner' = [owner EXCEPT ![b] = to]

Init == owner = [b \in Block |-> Nobody]

(* A task takes a block from the heap, with nothing else in its hands. *)
Take(h, b) == ~HasBlock(h) /\ Pass(b, Nobody, h)
(* It enters the block in the books, ... *)
Enter(h, b) == Pass(b, h, Books)
(* ... strikes one off, which makes the task its owner, ... *)
Strike(h, b) == ~HasBlock(h) /\ Pass(b, Books, h)
(* ... or gives the block it owns back to the heap. *)
GiveUp(h, b) == Pass(b, h, Nobody)
(* The manager sets a block aside for itself, or returns it. *)
SetAside(b) == ~HasBlock(Reserve) /\ Pass(b, Nobody, Reserve)
Dissolve(b) == Pass(b, Reserve, Nobody)

Next == \E b \in Block :
    \/ SetAside(b)
    \/ Dissolve(b)
    \/ \E h \in Holder : Take(h, b) \/ Enter(h, b) \/ Strike(h, b) \/ GiveUp(h, b)

Spec == Init /\ [][Next]_owner
=============================================================================
