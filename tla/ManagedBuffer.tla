---------------------------- MODULE ManagedBuffer ----------------------------
(***************************************************************************)
(* The move-only owner of one block of the manager                         *)
(* (src/src/NV3047_ManagedBuffer.h): several buffers, each constructed     *)
(* empty, with a block or from another one, assigned, released and         *)
(* destroyed by the code that owns them, while the manager is used by      *)
(* others and may be ended before the buffers are.  It is not begun again  *)
(* while one of them still has a pointer from before.  ManagerClients has  *)
(* the buffers share the manager with an object pool.                      *)
(***************************************************************************)
CONSTANTS
    Buffer,     \* variables and members of type ManagedBuffer
    Addr,       \* addresses of blocks
    Null

ASSUME BufferConstants == Null \notin Addr

VARIABLES
    ready,      \* ready_ of the manager
    held,       \* whose block lies at an address
    alive,      \* buffers that are constructed and not destroyed
    data        \* data_ of each buffer

buffers == <<ready, held, alive, data>>

BuffersInit ==
    /\ ready = FALSE
    /\ held = [x \in Addr |-> "free"]
    /\ alive = {}
    /\ data = [b \in Buffer |-> Null]

-----------------------------------------------------------------------------
(* The manager, and others that use it *)

Released(h, x) == [y \in Addr |-> IF ready /\ y = x THEN "free" ELSE h[y]]

ManagerBegins ==
    /\ ~ready
    /\ \A b \in Buffer : data[b] = Null
    /\ ready' = TRUE
    /\ UNCHANGED <<held, alive, data>>
ManagerStops ==
    /\ ready
    /\ ready' = FALSE
    /\ held' = [x \in Addr |-> "free"]
    /\ UNCHANGED <<alive, data>>
OthersAllocate ==
    /\ ready
    /\ \E x \in Addr : held[x] = "free" /\ held' = [held EXCEPT ![x] = "other"]
    /\ UNCHANGED <<ready, alive, data>>
OthersRelease ==
    /\ \E x \in Addr : held[x] = "other" /\ held' = Released(held, x)
    /\ UNCHANGED <<ready, alive, data>>

-----------------------------------------------------------------------------
(* The buffers *)

construct(b) ==
    /\ b \notin alive
    /\ alive' = alive \cup {b}
    /\ data' = [data EXCEPT ![b] = Null]
    /\ UNCHANGED <<ready, held>>

(* allocate releases first; it may find nothing.  The variant does not     *)
(* release.                                                                *)
allocate_KeepsOld(b) ==
    /\ b \in alive
    /\ \/ \E x \in Addr :
            /\ ready /\ held[x] = "free"
            /\ held' = [held EXCEPT ![x] = "buffer"]
            /\ data' = [data EXCEPT ![b] = x]
       \/ UNCHANGED <<held, data>>
    /\ UNCHANGED <<ready, alive>>
allocate(b) ==
    /\ b \in alive
    /\ LET rest == Released(held, data[b])
       IN \/ \E x \in Addr :
                /\ ready /\ rest[x] = "free"
                /\ held' = [rest EXCEPT ![x] = "buffer"]
                /\ data' = [data EXCEPT ![b] = x]
          \/ held' = rest /\ data' = [data EXCEPT ![b] = Null]
    /\ UNCHANGED <<ready, alive>>
release(b) ==
    /\ b \in alive
    /\ held' = Released(held, data[b])
    /\ data' = [data EXCEPT ![b] = Null]
    /\ UNCHANGED <<ready, alive>>
(* The destructor. *)
destruct(b) ==
    /\ b \in alive
    /\ held' = Released(held, data[b])
    /\ data' = [data EXCEPT ![b] = Null]
    /\ alive' = alive \ {b}
    /\ UNCHANGED ready

moveConstruct(b, c) ==
    /\ b \notin alive /\ c \in alive
    /\ alive' = alive \cup {b}
    /\ data' = [data EXCEPT ![b] = data[c], ![c] = Null]
    /\ UNCHANGED <<ready, held>>
(* Assigned to itself a buffer stays as it is.  The variant leaves the     *)
(* source its pointer.                                                     *)
moveAssign_KeepsSource(b, c) ==
    /\ {b, c} \subseteq alive /\ b # c
    /\ held' = Released(held, data[b])
    /\ data' = [data EXCEPT ![b] = data[c]]
    /\ UNCHANGED <<ready, alive>>
moveAssign(b, c) ==
    /\ {b, c} \subseteq alive /\ b # c
    /\ held' = Released(held, data[b])
    /\ data' = [data EXCEPT ![b] = data[c], ![c] = Null]
    /\ UNCHANGED <<ready, alive>>

BufferCall == \E b \in Buffer :
    \/ construct(b) \/ allocate(b) \/ release(b) \/ destruct(b)
    \/ \E c \in Buffer : moveConstruct(b, c) \/ moveAssign(b, c)
BuffersNext ==
    \/ ManagerBegins \/ ManagerStops \/ OthersAllocate \/ OthersRelease \/ BufferCall
BuffersSpec == BuffersInit /\ [][BuffersNext]_buffers

-----------------------------------------------------------------------------
(* Every variable has its type, and only a live buffer has data. *)
BuffersTyped ==
    /\ ready \in BOOLEAN
    /\ held \in [Addr -> {"free", "other", "buffer"}]
    /\ alive \subseteq Buffer
    /\ data \in [Buffer -> Addr \cup {Null}]
    /\ \A b \in Buffer : data[b] # Null => b \in alive

(* INTEGRATION_PLAN: "Every pointer has exactly one owner."  While the     *)
(* manager runs, each block allocated for a buffer is the data of one      *)
(* buffer that is alive, whatever was moved, assigned or failed before,    *)
(* and no buffer has the data of another or of somebody else.              *)
OneOwner ==
    /\ \A b, c \in Buffer : data[b] = data[c] /\ data[b] # Null => b = c
    /\ ready => \A x \in Addr : held[x] = "buffer" <=> \E b \in Buffer : data[b] = x
=============================================================================
