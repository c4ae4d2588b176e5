--------------------------- MODULE AutoLifecycle ---------------------------
(***************************************************************************)
(* How AutoMemory builds and takes down its parts                          *)
(* (src/src/NV3047_AutoMemory.cpp: begin, end): the manager, the broker    *)
(* with its arena, the asset cache, the framebuffer pair and the DMA pool, *)
(* and the driver's provider calls on the last two                         *)
(* (src/src/NV3047_DriverTakeover.cpp).                                    *)
(*                                                                         *)
(* One task, the Arduino loop, makes all these calls; each part is begun   *)
(* and ended in a step of its own, any allocation may fail, and between    *)
(* two steps other tasks allocate and release blocks of the manager.  An   *)
(* address is all that a part keeps of its block: held says whose it is.   *)
(* The background runtime is not installed: sharing with it is             *)
(* DriverTakeover, of which this module is a refinement.                   *)
(***************************************************************************)
EXTENDS Naturals, FiniteSets, Sequences

CONSTANTS
    Addr,           \* addresses of blocks
    Null,
    Dims,           \* framebuffer dimensions
    NoFrames,       \* an AutoMemory without framebuffers
    BadCall,        \* a providerBegin whose other arguments are refused
    Configs,        \* configurations of a sketch
    EndsManager,    \* whether a sketch may end the manager under AutoMemory
    KeepsPointers   \* whether the driver keeps old DMA pointers when it begins

ASSUME LifecycleConstants ==
    /\ Null \notin Addr
    /\ NoFrames \notin Dims /\ BadCall \notin Dims \cup {NoFrames}
    /\ Configs \subseteq [broker : BOOLEAN, frames : Dims \cup {NoFrames}, dma : Nat]
    /\ {EndsManager, KeepsPointers} \subseteq BOOLEAN

VARIABLES
    manager_ready,  \* ready_ of the manager
    held,           \* whose block lies at an address, "free" for nobody's
    broker,         \* arena and the leases in its table
    pair,           \* framebuffers
    pool,           \* DMA blocks
    cache,          \* blocks of the asset cache
    auto,           \* flags of the AutoMemory singleton and who began it
    bridge_active, started_by_bridge,
    accepted,       \* dimensions of the driver's last successful begin
    dims,           \* argument of the current providerBegin
    holds,          \* DMA blocks the driver has acquired and not released
    stale,          \* pointers it kept from before an end
    pc,             \* where the loop task is
    todo,           \* steps that are left of begin() or end()
    cfg             \* config_ of AutoMemory

memory == <<manager_ready, held>>
parts == <<broker, pair, pool, cache>>
provider == <<bridge_active, started_by_bridge, accepted, dims>>
driver == <<holds, stale>>
control == <<pc, todo, cfg>>
vars == <<memory, parts, auto, provider, driver, control>>

NoBroker == [begun |-> FALSE, arena |-> Null, leases |-> {}]
NoPair == [managed |-> FALSE, a |-> Null, b |-> Null, dims |-> NoFrames, a_is_front |-> TRUE]
NoPool == [managed |-> FALSE, blocks |-> <<>>]
NoCache == [managed |-> FALSE, entries |-> {}]
NoConfig == [broker |-> FALSE, frames |-> NoFrames, dma |-> 0]

Init ==
    /\ manager_ready = FALSE
    /\ held = [x \in Addr |-> "free"]
    /\ broker = NoBroker /\ pair = NoPair /\ pool = NoPool /\ cache = NoCache
    /\ auto = [ready |-> FALSE, frames |-> FALSE, dma |-> FALSE, by |-> "nobody"]
    /\ bridge_active = FALSE /\ started_by_bridge = FALSE
    /\ accepted = NoFrames /\ dims = NoFrames
    /\ holds = {} /\ stale = {}
    /\ pc = "idle" /\ todo = <<>> /\ cfg = NoConfig

-----------------------------------------------------------------------------
(* The manager: it knows a block by its address and frees no other *)

Owned(x) == manager_ready /\ x # Null /\ held[x] # "free"
Released(S) == [x \in Addr |-> IF manager_ready /\ x \in S THEN "free" ELSE held[x]]
Allocates(x, who) == manager_ready /\ held[x] = "free" /\ held' = [held EXCEPT ![x] = who]

Pointers == {pool.blocks[i].pointer : i \in DOMAIN pool.blocks}
BrokerReady == broker.begun /\ Owned(broker.arena)
PairReady == pair.managed /\ Owned(pair.a) /\ Owned(pair.b)
providerReady == bridge_active /\ auto.ready /\ PairReady

-----------------------------------------------------------------------------
(* end() and begin() as lists of steps *)

EndSteps ==
    (IF BrokerReady THEN <<"broker">> ELSE <<>>)
    \o (IF auto.dma THEN <<"dma">> ELSE <<>>)
    \o (IF auto.frames THEN <<"frames">> ELSE <<>>)
    \o <<"assets", "reset", "manager">>
BeginSteps ==
    <<"begin manager", "begin broker", "begin assets", "begin frames", "begin dma",
      "clients", "done">>

Doing(s) == todo # <<>> /\ Head(todo) = s /\ UNCHANGED <<provider, driver, pc, cfg>>
Then(steps) == todo' = steps \o Tail(todo)
(* A part fails: what was built before it is taken down. *)
Fails(steps) == todo' = steps \o <<"failed">>

(* MemoryBroker::end: lease by lease, then the arena.  If the arena is not *)
(* the broker's any more, its table is whatever lies there.                *)
TablesLive == held[broker.arena] = "control"
Walks == broker.begun /\ manager_ready
BrokerEndsLease ==
    /\ Doing("broker") /\ Walks
    /\ \E x \in IF TablesLive THEN broker.leases ELSE Addr :
        /\ held' = Released({x})
        /\ broker' = [broker EXCEPT !.leases = @ \ {x}]
    /\ UNCHANGED <<manager_ready, pair, pool, cache, auto, todo>>
BrokerEnds ==
    /\ Doing("broker")
    /\ Walks => broker.leases = {}
    /\ held' = Released({broker.arena})
    /\ broker' = NoBroker
    /\ Then(<<>>)
    /\ UNCHANGED <<manager_ready, pair, pool, cache, auto>>

PoolEnds ==
    /\ Doing("dma")
    /\ held' = IF pool.managed THEN Released(Pointers) ELSE held
    /\ pool' = NoPool
    /\ Then(<<>>)
    /\ UNCHANGED <<manager_ready, broker, pair, cache, auto>>
PairEnds ==
    /\ Doing("frames")
    /\ held' = IF pair.managed THEN Released({pair.a, pair.b}) ELSE held
    /\ pair' = NoPair
    /\ Then(<<>>)
    /\ UNCHANGED <<manager_ready, broker, pool, cache, auto>>
CacheEnds ==
    /\ Doing("assets")
    /\ held' = IF cache.managed THEN Released(cache.entries) ELSE held
    /\ cache' = NoCache
    /\ Then(<<>>)
    /\ UNCHANGED <<manager_ready, broker, pair, pool, auto>>
FlagsReset ==
    /\ Doing("reset")
    /\ auto' = [auto EXCEPT !.frames = FALSE, !.dma = FALSE]
    /\ Then(<<>>)
    /\ UNCHANGED <<memory, parts>>
(* releaseAll: everybody's blocks are freed, whoever began the manager. *)
ManagerEnds ==
    /\ Doing("manager")
    /\ manager_ready' = FALSE
    /\ held' = [x \in Addr |-> "free"]
    /\ Then(<<>>)
    /\ UNCHANGED <<parts, auto>>

(* A manager that somebody has begun already is used as it is. *)
ManagerBegins ==
    /\ Doing("begin manager")
    /\ \/ manager_ready' = TRUE /\ Then(<<>>)
       \/ ~manager_ready /\ UNCHANGED manager_ready /\ Fails(<<>>)
    /\ UNCHANGED <<held, parts, auto>>

(* Each begin() of a part starts with its end(). *)
BrokerBegins ==
    /\ Doing("begin broker")
    /\ Then(IF cfg.broker THEN <<"broker", "arena">> ELSE <<>>)
    /\ UNCHANGED <<memory, parts, auto>>
ArenaTaken ==
    /\ Doing("arena")
    /\ \E x \in Addr :
        /\ Allocates(x, "control")
        /\ broker' = [begun |-> TRUE, arena |-> x, leases |-> {}]
    /\ Then(<<>>)
    /\ UNCHANGED <<manager_ready, pair, pool, cache, auto>>
ArenaFails ==
    /\ Doing("arena")
    /\ Fails(<<"manager">>)
    /\ UNCHANGED <<memory, parts, auto>>

CacheBegins ==
    /\ Doing("begin assets")
    /\ held' = IF cache.managed THEN Released(cache.entries) ELSE held
    /\ IF manager_ready
       THEN cache' = [managed |-> TRUE, entries |-> {}] /\ Then(<<>>)
       ELSE cache' = NoCache /\ Fails(<<"broker", "manager">>)
    /\ UNCHANGED <<manager_ready, broker, pair, pool, auto>>

PairBegins ==
    /\ Doing("begin frames")
    /\ IF cfg.frames = NoFrames
       THEN Then(<<>>) /\ UNCHANGED <<held, pair>>
       ELSE /\ held' = IF pair.managed THEN Released({pair.a, pair.b}) ELSE held
            /\ pair' = [NoPair EXCEPT !.managed = TRUE, !.dims = cfg.frames]
            /\ Then(<<"frame a", "frame b">>)
    /\ UNCHANGED <<manager_ready, broker, pool, cache, auto>>
FrameA ==
    /\ Doing("frame a")
    /\ \E x \in Addr : Allocates(x, "frame") /\ pair' = [pair EXCEPT !.a = x]
    /\ Then(<<>>)
    /\ UNCHANGED <<manager_ready, broker, pool, cache, auto>>
FrameB ==
    /\ Doing("frame b")
    /\ \E x \in Addr : Allocates(x, "frame") /\ pair' = [pair EXCEPT !.b = x]
    /\ auto' = [auto EXCEPT !.frames = TRUE]
    /\ Then(<<>>)
    /\ UNCHANGED <<manager_ready, broker, pool, cache>>
FrameFails ==
    /\ todo # <<>> /\ Head(todo) \in {"frame a", "frame b"}
    /\ Doing(Head(todo))
    /\ Fails(<<"frames", "assets", "broker", "manager">>)
    /\ UNCHANGED <<memory, parts, auto>>

PoolBegins ==
    /\ Doing("begin dma")
    /\ IF cfg.dma = 0
       THEN Then(<<>>) /\ UNCHANGED <<held, pool>>
       ELSE /\ held' = IF pool.managed THEN Released(Pointers) ELSE held
            /\ pool' = [managed |-> TRUE, blocks |-> <<>>]
            /\ Then(<<"dma block">>)
    /\ UNCHANGED <<manager_ready, broker, pair, cache, auto>>
DMABlock ==
    /\ Doing("dma block")
    /\ \E x \in Addr :
        /\ Allocates(x, "dma")
        /\ pool' = [pool EXCEPT !.blocks = Append(@, [pointer |-> x, inUse |-> FALSE])]
    /\ IF Len(pool'.blocks) = cfg.dma
       THEN Then(<<>>) /\ auto' = [auto EXCEPT !.dma = TRUE]
       ELSE UNCHANGED <<todo, auto>>
    /\ UNCHANGED <<manager_ready, broker, pair, cache>>
(* The pool ends itself.  One variant leaves that out, the other leaves    *)
(* the framebuffers out.                                                   *)
DMAFails_KeepsBlocks ==
    /\ Doing("dma block")
    /\ Fails(<<"frames", "assets", "broker", "manager">>)
    /\ UNCHANGED <<memory, parts, auto>>
DMAFails_KeepsFrames ==
    /\ Doing("dma block")
    /\ Fails(<<"dma", "assets", "broker", "manager">>)
    /\ UNCHANGED <<memory, parts, auto>>
DMAFails ==
    /\ Doing("dma block")
    /\ Fails(<<"dma", "frames", "assets", "broker", "manager">>)
    /\ UNCHANGED <<memory, parts, auto>>

(* registerBrokerClients *)
ClientsRegistered ==
    /\ Doing("clients")
    /\ Then(<<>>)
    /\ UNCHANGED <<memory, parts, auto>>
ClientsFail ==
    /\ Doing("clients") /\ BrokerReady
    /\ Fails(<<"dma", "frames", "assets", "broker", "manager", "reset">>)
    /\ UNCHANGED <<memory, parts, auto>>

-----------------------------------------------------------------------------
(* The sketch *)

SketchBegins ==
    /\ pc = "idle" /\ ~bridge_active
    /\ cfg' \in Configs
    /\ todo' = EndSteps \o BeginSteps
    /\ pc' = "sketch"
    /\ auto' = [auto EXCEPT !.ready = FALSE]
    /\ UNCHANGED <<memory, parts, provider, driver>>
SketchEnds ==
    /\ pc = "idle" /\ ~bridge_active
    /\ todo' = EndSteps \o <<"failed">>
    /\ pc' = "sketch"
    /\ auto' = [auto EXCEPT !.ready = FALSE]
    /\ UNCHANGED <<memory, parts, provider, driver, cfg>>
SketchReturns ==
    /\ pc = "sketch"
    /\ \/ todo = <<"done">> /\ auto' = [auto EXCEPT !.ready = TRUE, !.by = "sketch"]
       \/ todo = <<"failed">> /\ UNCHANGED auto
    /\ todo' = <<>> /\ pc' = "idle"
    /\ UNCHANGED <<memory, parts, provider, driver, cfg>>

SketchBeginsManager ==
    /\ pc = "idle" /\ ~manager_ready
    /\ manager_ready' = TRUE
    /\ UNCHANGED <<held, parts, auto, provider, driver, control>>
SketchEndsManager ==
    /\ pc = "idle" /\ manager_ready
    /\ auto.ready => EndsManager
    /\ manager_ready' = FALSE
    /\ held' = [x \in Addr |-> "free"]
    /\ UNCHANGED <<parts, auto, provider, driver, control>>

OthersAllocate ==
    /\ \E x \in Addr : Allocates(x, "app")
    /\ UNCHANGED <<manager_ready, parts, auto, provider, driver, control>>
OthersRelease ==
    /\ \E x \in Addr : held[x] = "app" /\ held' = Released({x})
    /\ UNCHANGED <<manager_ready, parts, auto, provider, driver, control>>

(* Leases and assets come and go between the calls. *)
UseBroker ==
    /\ pc = "idle" /\ auto.ready /\ BrokerReady
    /\ \E x \in Addr :
        \/ Allocates(x, "lease") /\ broker' = [broker EXCEPT !.leases = @ \cup {x}]
        \/ x \in broker.leases /\ held' = Released({x})
             /\ broker' = [broker EXCEPT !.leases = @ \ {x}]
    /\ UNCHANGED <<manager_ready, pair, pool, cache, auto, provider, driver, control>>
UseCache ==
    /\ pc = "idle" /\ auto.ready /\ cache.managed
    /\ \E x \in Addr :
        \/ Allocates(x, "asset") /\ cache' = [cache EXCEPT !.entries = @ \cup {x}]
        \/ x \in cache.entries /\ held' = Released({x})
             /\ cache' = [cache EXCEPT !.entries = @ \ {x}]
    /\ UNCHANGED <<manager_ready, broker, pair, pool, auto, provider, driver, control>>

-----------------------------------------------------------------------------
(* The driver.  Without a runtime there is no mutex to wait for. *)

Call(l) ==
    /\ pc = "idle" /\ pc' = l
    /\ UNCHANGED <<memory, parts, auto, bridge_active, started_by_bridge, accepted,
                   holds, todo, cfg>>
providerBegin ==
    /\ ~bridge_active
    /\ dims' \in Dims \cup {BadCall}
    /\ stale' = IF KeepsPointers THEN stale ELSE {}
    /\ Call("begin")
providerEnd == Call("end") /\ UNCHANGED <<dims, stale>>
Enter ==
    /\ \/ pc = "begin" /\ pc' = "beginning"
       \/ pc = "end" /\ pc' = "ending"
    /\ UNCHANGED <<memory, parts, auto, provider, driver, todo, cfg>>
Unlock ==
    /\ pc = "unlock" /\ todo \in {<<>>, <<"failed">>}
    /\ pc' = "idle" /\ todo' = <<>>
    /\ UNCHANGED <<memory, parts, auto, provider, driver, cfg>>

BeginRefused ==
    /\ pc = "beginning" /\ todo = <<>>
    /\ \/ dims = BadCall
       \/ auto.ready /\ ~(PairReady /\ pair.dims = dims)
    /\ pc' = "unlock"
    /\ UNCHANGED <<memory, parts, auto, provider, driver, todo, cfg>>
BeginAdopts ==
    /\ pc = "beginning" /\ todo = <<>>
    /\ dims # BadCall
    /\ auto.ready /\ PairReady /\ pair.dims = dims
    /\ bridge_active' = TRUE /\ started_by_bridge' = FALSE /\ accepted' = dims
    /\ pc' = "unlock"
    /\ UNCHANGED <<memory, parts, auto, dims, driver, todo, cfg>>
BeginStarts ==
    /\ pc = "beginning" /\ todo = <<>>
    /\ dims # BadCall /\ ~auto.ready
    /\ cfg' \in {[broker |-> TRUE, frames |-> dims, dma |-> n] : n \in {0, 1}}
    /\ todo' = EndSteps \o BeginSteps
    /\ UNCHANGED <<memory, parts, auto, provider, driver, pc>>
BeginReturns ==
    /\ pc = "beginning"
    /\ \/ /\ todo = <<"done">>
          /\ auto' = [auto EXCEPT !.ready = TRUE, !.by = "driver"]
          /\ bridge_active' = TRUE /\ started_by_bridge' = TRUE /\ accepted' = dims
       \/ /\ todo = <<"failed">>
          /\ UNCHANGED <<auto, bridge_active, started_by_bridge, accepted>>
    /\ todo' = <<>> /\ pc' = "unlock"
    /\ UNCHANGED <<memory, parts, dims, driver, cfg>>

(* What the driver still holds then is out of date.  The variant forgets   *)
(* who has started the instance before it asks.                            *)
End_ForgetsFirst ==
    /\ pc = "ending"
    /\ bridge_active' = FALSE /\ started_by_bridge' = FALSE
    /\ holds' = {} /\ stale' = stale \cup holds
    /\ IF started_by_bridge' /\ auto.ready
       THEN auto' = [auto EXCEPT !.ready = FALSE] /\ todo' = EndSteps \o <<"failed">>
       ELSE UNCHANGED <<auto, todo>>
    /\ pc' = "unlock"
    /\ UNCHANGED <<memory, parts, accepted, dims, cfg>>
End ==
    /\ pc = "ending"
    /\ bridge_active' = FALSE /\ started_by_bridge' = FALSE
    /\ holds' = {} /\ stale' = stale \cup holds
    /\ IF started_by_bridge /\ auto.ready
       THEN auto' = [auto EXCEPT !.ready = FALSE] /\ todo' = EndSteps \o <<"failed">>
       ELSE UNCHANGED <<auto, todo>>
    /\ pc' = "unlock"
    /\ UNCHANGED <<memory, parts, accepted, dims, cfg>>

providerSwap ==
    /\ pc = "idle" /\ providerReady
    /\ pair' = [pair EXCEPT !.a_is_front = ~@]
    /\ UNCHANGED <<memory, broker, pool, cache, auto, provider, driver, control>>

(* DMAPool::acquire lends the first block that is free; a request that does*)
(* not fit, or finds none, is allocated.                                   *)
Lendable(i) == Owned(pool.blocks[i].pointer) /\ ~pool.blocks[i].inUse
AcquirePooled ==
    /\ pc = "idle" /\ providerReady
    /\ \E i \in DOMAIN pool.blocks :
        /\ Lendable(i) /\ \A j \in 1 .. i - 1 : ~Lendable(j)
        /\ pool' = [pool EXCEPT !.blocks[i].inUse = TRUE]
        /\ holds' = holds \cup {pool.blocks[i].pointer}
    /\ UNCHANGED <<memory, broker, pair, cache, auto, provider, stale, control>>
AcquireOwn ==
    /\ pc = "idle" /\ providerReady
    /\ \E x \in Addr : Allocates(x, "driver") /\ holds' = holds \cup {x}
    /\ UNCHANGED <<manager_ready, parts, auto, provider, stale, control>>

(* providerReleaseDMA looks the address up, in the pool and then in the    *)
(* manager, whoever has it now.  A pointer that the driver kept from       *)
(* before an end is rejected while the provider is down, as                *)
(* INTEGRATION_PLAN says; after a new begin it is taken for the pool's     *)
(* block at that address, whoever that is lent to.                         *)
Returns(p) ==
    IF ~providerReady THEN UNCHANGED <<held, pool>>
    ELSE IF p \in Pointers /\ Owned(p)
    THEN /\ pool' = [pool EXCEPT !.blocks =
                        [i \in DOMAIN @ |-> IF @[i].pointer = p
                                            THEN [@[i] EXCEPT !.inUse = FALSE] ELSE @[i]]]
         /\ UNCHANGED held
    ELSE held' = Released({p}) /\ UNCHANGED pool
providerReleaseDMA ==
    /\ pc = "idle"
    /\ \E p \in holds : Returns(p) /\ holds' = holds \ {p}
    /\ UNCHANGED <<manager_ready, broker, pair, cache, auto, provider, stale, control>>
ReleaseStale ==
    /\ pc = "idle"
    /\ \E p \in stale : Returns(p) /\ stale' = stale \ {p}
    /\ UNCHANGED <<manager_ready, broker, pair, cache, auto, provider, holds, control>>

-----------------------------------------------------------------------------
Step ==
    \/ BrokerEndsLease \/ BrokerEnds \/ PoolEnds \/ PairEnds \/ CacheEnds
    \/ FlagsReset \/ ManagerEnds
    \/ ManagerBegins \/ BrokerBegins \/ ArenaTaken \/ ArenaFails \/ CacheBegins
    \/ PairBegins \/ FrameA \/ FrameB \/ FrameFails
    \/ PoolBegins \/ DMABlock \/ DMAFails \/ ClientsRegistered \/ ClientsFail
Sketch == \/ SketchBegins \/ SketchEnds \/ SketchReturns
          \/ SketchBeginsManager \/ SketchEndsManager
          \/ OthersAllocate \/ OthersRelease \/ UseBroker \/ UseCache
Driver == \/ providerBegin \/ providerEnd \/ Enter \/ Unlock
          \/ BeginRefused \/ BeginAdopts \/ BeginStarts \/ BeginReturns \/ End
          \/ providerSwap \/ AcquirePooled \/ AcquireOwn
          \/ providerReleaseDMA \/ ReleaseStale
Next == Step \/ Sketch \/ Driver
Spec == Init /\ [][Next]_vars

-----------------------------------------------------------------------------
(* Properties *)

(* Every variable has its type. *)
Holder == {"free", "app", "control", "lease", "frame", "dma", "asset", "driver"}
TypeOK ==
    /\ manager_ready \in BOOLEAN
    /\ held \in [Addr -> Holder]
    /\ broker \in [begun : BOOLEAN, arena : Addr \cup {Null}, leases : SUBSET Addr]
    /\ broker.begun <=> broker.arena # Null
    /\ pair \in [managed : BOOLEAN, a : Addr \cup {Null}, b : Addr \cup {Null},
                 dims : Dims \cup {NoFrames}, a_is_front : BOOLEAN]
    /\ pool \in [managed : BOOLEAN, blocks : Seq([pointer : Addr, inUse : BOOLEAN])]
    /\ cache \in [managed : BOOLEAN, entries : SUBSET Addr]
    /\ auto \in [ready : BOOLEAN, frames : BOOLEAN, dma : BOOLEAN,
                 by : {"nobody", "sketch", "driver"}]
    /\ holds \subseteq Addr /\ stale \subseteq Addr

(* INTEGRATION_PLAN: "Every pointer has exactly one owner."  At every step *)
(* of begin, end and their failures, the blocks that lie in a part's name  *)
(* are those the part knows: none is lost, none is used by two.            *)
Claims == [control |-> {broker.arena} \ {Null}, lease |-> broker.leases,
           frame |-> {pair.a, pair.b} \ {Null}, dma |-> Pointers, asset |-> cache.entries]
OneOwner ==
    /\ \A who \in DOMAIN Claims : {x \in Addr : held[x] = who} = Claims[who]
    /\ pair.a = pair.b => pair.a = Null
    /\ Cardinality(Pointers) = Len(pool.blocks)

(* A DMA block that the driver has acquired is lent to it until it returns *)
(* it: it is not given to anybody else, and not taken away by a release of *)
(* something else.                                                         *)
DMAIsLent ==
    \A p \in holds :
        \/ held[p] = "driver"
        \/ \E i \in DOMAIN pool.blocks : pool.blocks[i] = [pointer |-> p, inUse |-> TRUE]

(* The parts and the driver agree about every block.                       *)
PartsAgree == TypeOK /\ OneOwner /\ DMAIsLent

(* A begin() that fails, wherever it fails, and an end() leave no part     *)
(* with a pointer that a later begin() would release.                      *)
NothingLeftBehind ==
    pc = "idle" /\ ~auto.ready => \A who \in DOMAIN Claims : Claims[who] = {}

(* What AutoMemory::validate tests and more: a singleton that is ready has *)
(* every part its configuration asked for.                                 *)
ReadyIsWhole ==
    auto.ready =>
        /\ manager_ready /\ cache.managed
        /\ cfg.broker => BrokerReady
        /\ cfg.frames # NoFrames => PairReady /\ pair.dims = cfg.frames
        /\ Len(pool.blocks) = cfg.dma /\ auto.dma = (cfg.dma # 0)

(* begin() and end() are all or nothing.                                   *)
AllOrNothing == NothingLeftBehind /\ ReadyIsWhole

(* To whoever looks at the flags alone, begin() succeeds or fails as a     *)
(* whole, as DriverTakeover has it.                                        *)
Takeover == INSTANCE DriverTakeover WITH
    Rebegins <- FALSE,
    installed <- FALSE,
    mutex <- "nobody",
    minimal_mode_owned <- FALSE,
    automatic <- IF auto.ready THEN [ready |-> TRUE, frames |-> cfg.frames, by |-> auto.by]
                 ELSE [ready |-> FALSE, frames |-> NoFrames, by |-> "nobody"],
    pc <- [t \in {"loop", "runtime"} |-> IF t = "loop" /\ pc # "sketch" THEN pc ELSE "idle"]
TakeoverSpec == Takeover!Spec
=============================================================================
