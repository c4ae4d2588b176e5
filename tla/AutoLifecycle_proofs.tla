------------------------ MODULE AutoLifecycle_proofs ------------------------
(***************************************************************************)
(* What holds of AutoLifecycle for any number of blocks, any framebuffer   *)
(* dimensions and any configurations.                                      *)
(*                                                                         *)
(* begin() and end() are lists of steps, and the argument is about the set *)
(* of the steps that are left: the order in which steps may stand in todo  *)
(* (MayPrecede) says what is still left when a step is at its head.  As    *)
(* long as the manager is going to end, every part that has blocks is      *)
(* going to end before it; when it has ended nobody has a block, and a part*)
(* that is built from then on has all it needs once its steps are gone.    *)
(***************************************************************************)
EXTENDS AutoLifecycle, FiniteSetTheorems, TLAPS

PartEnds == {"broker", "dma", "frames", "assets"}
Builds == {"begin manager", "begin broker", "arena", "begin assets", "begin frames",
           "frame a", "frame b", "begin dma", "dma block", "clients", "done"}
StepName == PartEnds \cup Builds \cup {"reset", "manager", "failed"}

(* Builds(s) that come after s. *)
After(s) ==
    CASE s = "begin manager" -> Builds \ {"begin manager"}
      [] s = "begin broker" -> Builds \ {"begin manager", "begin broker"}
      [] s = "arena" -> Builds \ {"begin manager", "begin broker", "arena"}
      [] s = "begin assets" ->
           {"begin frames", "frame a", "frame b", "begin dma", "dma block", "clients", "done"}
      [] s = "begin frames" ->
           {"frame a", "frame b", "begin dma", "dma block", "clients", "done"}
      [] s = "frame a" -> {"frame b", "begin dma", "dma block", "clients", "done"}
      [] s = "frame b" -> {"begin dma", "dma block", "clients", "done"}
      [] s = "begin dma" -> {"dma block", "clients", "done"}
      [] s = "dma block" -> {"clients", "done"}
      [] s = "clients" -> {"done"}
      [] OTHER -> {}

(* s may stand before t in a list of steps. *)
MayPrecede(s, t) ==
    /\ s # t /\ s \notin {"failed", "done"}
    /\ t = "manager" => s \in PartEnds \cup {"reset"}
    /\ t \in PartEnds => s \notin Builds \cup {"reset", "manager"}
    /\ t = "reset" => s \notin Builds
    /\ t \in {"frame a", "dma block"} => FALSE
    /\ t = "arena" => s = "broker"
    /\ t = "frame b" => s = "frame a"
    /\ s \in Builds => t \in After(s)

Ordered(s) == \A i, j \in DOMAIN s : i < j => MayPrecede(s[i], s[j])
StepsOf(s) == {s[i] : i \in DOMAIN s}
Left == StepsOf(todo)

-----------------------------------------------------------------------------
(* Parts without blocks *)

BrokerEmpty == ~broker.begun /\ broker.leases = {}
PairEmpty == pair.a = Null /\ pair.b = Null
PoolEmpty == pool.blocks = <<>>
CacheEmpty == cache.entries = {}
AllEmpty == BrokerEmpty /\ PairEmpty /\ PoolEmpty /\ CacheEmpty

(* The types that TypeOK leaves out, and the order of the steps. *)
ControlOK ==
    /\ pc \in {"idle", "sketch", "begin", "end", "beginning", "ending", "unlock"}
    /\ todo \in Seq(StepName) /\ Ordered(todo)
    /\ cfg \in [broker : BOOLEAN, frames : Dims \cup {NoFrames}, dma : Nat]
    /\ {bridge_active, started_by_bridge} \subseteq BOOLEAN

(* Whose blocks are whose, address by address. *)
Owners ==
    /\ \A x \in Addr :
        /\ held[x] = "control" <=> x = broker.arena
        /\ held[x] = "lease" <=> x \in broker.leases
        /\ held[x] = "frame" <=> x \in {pair.a, pair.b}
        /\ held[x] = "dma" <=> \E i \in DOMAIN pool.blocks : pool.blocks[i].pointer = x
        /\ held[x] = "asset" <=> x \in cache.entries
    /\ pair.a = pair.b => pair.a = Null
    /\ \A i, j \in DOMAIN pool.blocks :
        pool.blocks[i].pointer = pool.blocks[j].pointer => i = j
Bookkeeping ==
    /\ ~manager_ready => \A x \in Addr : held[x] = "free"
    /\ ~broker.begun => broker.leases = {}
    /\ ~PairEmpty => pair.managed
    /\ ~PoolEmpty => pool.managed
    /\ ~CacheEmpty => cache.managed

(* Where the loop task is. *)
Calls ==
    /\ pc \in {"idle", "begin", "end", "ending"} => todo = <<>>
    /\ pc = "sketch" => todo # <<>> /\ ~bridge_active
    /\ pc \in {"begin", "beginning"} => dims \in Dims \cup {BadCall}
    /\ pc = "beginning" /\ todo # <<>> => cfg.frames = dims /\ dims # BadCall
    /\ todo # <<>> => ~auto.ready
    /\ todo = <<>> /\ ~auto.ready => AllEmpty
Pointing ==
    /\ holds # {} => bridge_active /\ auto.ready
    /\ ~KeepsPointers /\ stale # {} => ~bridge_active /\ pc \notin {"begin", "beginning"}

(* The steps that are left. *)
Lists ==
    /\ todo # <<>> => Left \cap {"done", "failed"} # {}
    /\ Left \cap (PartEnds \ {"broker"}) # {} => "manager" \in Left
    /\ "broker" \in Left => "manager" \in Left \/ "arena" \in Left
    /\ "failed" \in Left => Left \cap Builds = {}
    /\ Left \cap Builds # {} => "done" \in Left
    /\ "done" \in Left /\ Left \cap {"manager", "reset"} # {} =>
         {"begin manager", "begin broker", "begin assets", "begin frames", "begin dma"}
           \subseteq Left
Ending ==
    /\ "manager" \in Left =>
        /\ ~BrokerEmpty => "broker" \in Left
        /\ ~PairEmpty => "frames" \in Left
        /\ ~PoolEmpty => "dma" \in Left
        /\ ~CacheEmpty => "assets" \in Left
    /\ "failed" \in Left /\ "manager" \notin Left => AllEmpty
NotYet ==
    "done" \in Left /\ "manager" \notin Left =>
        /\ Left \cap {"begin manager", "begin broker", "arena"} # {} => AllEmpty
        /\ "begin assets" \in Left => CacheEmpty /\ PairEmpty /\ PoolEmpty
        /\ Left \cap {"begin frames", "frame a"} # {} => PairEmpty
        /\ Left \cap {"begin frames", "frame a", "frame b", "begin dma"} # {} => PoolEmpty
HalfBuilt ==
    /\ Left \cap {"frame a", "frame b"} # {} =>
        pair.managed /\ pair.dims = cfg.frames /\ cfg.frames # NoFrames /\ pair.b = Null
    /\ "frame b" \in Left /\ "frame a" \notin Left => pair.a # Null
    /\ "frame a" \in Left => "frame b" \in Left
    /\ "dma block" \in Left => pool.managed /\ Len(pool.blocks) < cfg.dma
    /\ "reset" \notin Left /\ Left \cap {"begin dma", "dma block"} # {} => ~auto.dma
Built ==
    auto.ready \/ ("done" \in Left /\ "manager" \notin Left) =>
        /\ "begin manager" \notin Left => manager_ready
        /\ Left \cap {"begin broker", "arena"} = {} /\ cfg.broker => broker.begun
        /\ "begin assets" \notin Left => cache.managed
        /\ Left \cap {"begin frames", "frame a", "frame b"} = {} =>
            IF cfg.frames = NoFrames THEN PairEmpty
            ELSE pair.a # Null /\ pair.b # Null /\ pair.dims = cfg.frames /\ auto.frames
        /\ Left \cap {"begin dma", "dma block"} = {} =>
            Len(pool.blocks) = cfg.dma /\ (auto.dma <=> cfg.dma # 0)

LifecycleInv ==
    /\ TypeOK /\ ControlOK
    /\ Owners /\ DMAIsLent /\ Bookkeeping
    /\ Calls /\ Pointing
    /\ Lists /\ Ending /\ NotYet /\ HalfBuilt /\ Built

-----------------------------------------------------------------------------
(* Lists of steps *)

(* Two ordered lists, one after the other.                                 *)
LEMMA Concatenated ==
    ASSUME NEW s \in Seq(StepName), NEW t \in Seq(StepName), Ordered(s), Ordered(t),
           \A x \in StepsOf(s), y \in StepsOf(t) : MayPrecede(x, y)
    PROVE  /\ s \o t \in Seq(StepName) /\ Ordered(s \o t)
           /\ StepsOf(s \o t) = StepsOf(s) \cup StepsOf(t)
<1> DEFINE u == s \o t
<1>1. /\ u \in Seq(StepName) /\ Len(u) = Len(s) + Len(t)
      /\ \A i \in 1 .. Len(s) : u[i] = s[i]
      /\ \A i \in DOMAIN u : i > Len(s) => u[i] = t[i - Len(s)] /\ i - Len(s) \in 1 .. Len(t)
      /\ \A i \in 1 .. Len(t) : u[Len(s) + i] = t[i] /\ Len(s) + i \in DOMAIN u
    OBVIOUS
<1>2. Len(s) \in Nat /\ Len(t) \in Nat
      /\ DOMAIN s = 1 .. Len(s) /\ DOMAIN t = 1 .. Len(t) /\ DOMAIN u = 1 .. Len(u)
    OBVIOUS
<1> HIDE DEF u
<1>3. Ordered(u)
  <2> SUFFICES ASSUME NEW i \in DOMAIN u, NEW j \in DOMAIN u, i < j
               PROVE  MayPrecede(u[i], u[j])
      BY DEF Ordered
  <2>1. CASE j <= Len(s)
    <3>1. i \in DOMAIN s /\ j \in DOMAIN s /\ u[i] = s[i] /\ u[j] = s[j]
        BY <1>1, <1>2, <2>1
    <3> QED
        BY <3>1 DEF Ordered
  <2>2. CASE i > Len(s)
    <3>1. /\ i - Len(s) \in DOMAIN t /\ j - Len(s) \in DOMAIN t /\ i - Len(s) < j - Len(s)
          /\ u[i] = t[i - Len(s)] /\ u[j] = t[j - Len(s)]
        BY <1>1, <1>2, <2>2
    <3> QED
        BY <3>1 DEF Ordered
  <2>3. CASE i <= Len(s) /\ j > Len(s)
    <3>1. u[i] \in StepsOf(s) /\ u[j] \in StepsOf(t)
        BY <1>1, <1>2, <2>3 DEF StepsOf
    <3> QED
        BY <3>1
  <2> QED
      BY <1>2, <2>1, <2>2, <2>3
<1>4. StepsOf(u) = StepsOf(s) \cup StepsOf(t)
  <2>1. ASSUME NEW i \in DOMAIN u PROVE u[i] \in StepsOf(s) \cup StepsOf(t)
    <3>1. CASE i <= Len(s)
        BY <1>1, <1>2, <3>1 DEF StepsOf
    <3>2. CASE i > Len(s)
        BY <1>1, <1>2, <3>2 DEF StepsOf
    <3> QED
        BY <1>2, <3>1, <3>2
  <2>2. ASSUME NEW i \in DOMAIN s PROVE s[i] \in StepsOf(u)
      BY <1>1, <1>2 DEF StepsOf
  <2>3. ASSUME NEW i \in DOMAIN t PROVE t[i] \in StepsOf(u)
      BY <1>1, <1>2 DEF StepsOf
  <2> QED
      BY <2>1, <2>2, <2>3 DEF StepsOf
<1> QED
    BY <1>1, <1>3, <1>4 DEF u

(* Lists of no and of one step.                                            *)
LEMMA ShortLists ==
    /\ <<>> \in Seq(StepName) /\ Ordered(<<>>) /\ StepsOf(<<>>) = {}
    /\ \A a \in StepName :
        <<a>> \in Seq(StepName) /\ Ordered(<<a>>) /\ StepsOf(<<a>>) = {a}
  BY DEF Ordered, StepsOf

(* A step in front of a list.                                              *)
LEMMA InFront ==
    ASSUME NEW a \in StepName, NEW t \in Seq(StepName), Ordered(t),
           \A y \in StepsOf(t) : MayPrecede(a, y)
    PROVE  /\ <<a>> \o t \in Seq(StepName) /\ Ordered(<<a>> \o t)
           /\ StepsOf(<<a>> \o t) = {a} \cup StepsOf(t)
<1>1. <<a>> \in Seq(StepName) /\ Ordered(<<a>>) /\ StepsOf(<<a>>) = {a}
    BY ShortLists
<1> QED
    BY <1>1, Concatenated

(* What is known of the step that is done, and of those after it.          *)
LEMMA AtHead ==
    ASSUME ControlOK, NEW s, todo # <<>>, Head(todo) = s
    PROVE  /\ s \in Left /\ s \in StepName
           /\ \A t \in Left \ {s} : MayPrecede(s, t)
           /\ Tail(todo) \in Seq(StepName) /\ Ordered(Tail(todo))
           /\ StepsOf(Tail(todo)) = Left \ {s}
<1> DEFINE r == Tail(todo)
<1> USE DEF ControlOK
<1>1. /\ Len(todo) \in Nat /\ Len(todo) > 0 /\ DOMAIN todo = 1 .. Len(todo)
      /\ s = todo[1] /\ s \in StepName
      /\ r \in Seq(StepName) /\ Len(r) = Len(todo) - 1 /\ DOMAIN r = 1 .. Len(r)
      /\ \A i \in DOMAIN r : r[i] = todo[i + 1]
    OBVIOUS
<1> HIDE DEF r
<1>2. \A i \in DOMAIN todo : i # 1 => MayPrecede(s, todo[i])
    BY <1>1 DEF Ordered
<1>3. \A i \in DOMAIN todo : i # 1 => todo[i] # s
    BY <1>2 DEF MayPrecede
<1>4. s \in Left /\ \A t \in Left \ {s} : MayPrecede(s, t)
    BY <1>1, <1>2 DEF Left, StepsOf
<1>5. Ordered(r)
  <2> SUFFICES ASSUME NEW i \in DOMAIN r, NEW j \in DOMAIN r, i < j
               PROVE  MayPrecede(r[i], r[j])
      BY DEF Ordered
  <2>1. i + 1 \in DOMAIN todo /\ j + 1 \in DOMAIN todo /\ i + 1 < j + 1
      BY <1>1
  <2> QED
      BY <1>1, <2>1 DEF Ordered
<1>6. StepsOf(r) = Left \ {s}
  <2>1. ASSUME NEW i \in DOMAIN r PROVE r[i] \in Left \ {s}
    <3>1. i + 1 \in DOMAIN todo /\ i + 1 # 1
        BY <1>1
    <3> QED
        BY <1>1, <1>3, <3>1 DEF Left, StepsOf
  <2>2. ASSUME NEW i \in DOMAIN todo, todo[i] # s PROVE todo[i] \in StepsOf(r)
    <3>1. i - 1 \in DOMAIN r /\ r[i - 1] = todo[i]
        BY <1>1, <2>2
    <3> QED
        BY <3>1 DEF StepsOf
  <2> QED
      BY <2>1, <2>2 DEF Left, StepsOf
<1> QED
    BY <1>1, <1>4, <1>5, <1>6 DEF r

(* What is known of a step s of begin() or end(), and kept by it.          *)
Going(s) ==
    /\ s \in Left /\ \A t \in Left \ {s} : MayPrecede(s, t)
    /\ UNCHANGED <<pc, cfg, provider, driver>>
    /\ todo # <<>> /\ ~auto.ready /\ holds = {}

(* The steps after the one that is done, and those that replace it.        *)
LEMMA Rest ==
    ASSUME LifecycleInv, NEW s, Doing(s)
    PROVE  /\ Going(s)
           /\ Tail(todo) \in Seq(StepName) /\ Ordered(Tail(todo))
           /\ StepsOf(Tail(todo)) = Left \ {s}
           /\ <<>> \o Tail(todo) = Tail(todo)
<1>1. todo # <<>> /\ Head(todo) = s /\ UNCHANGED <<pc, cfg, provider, driver>>
    BY DEF Doing
<1>2. ~auto.ready /\ holds = {}
    BY <1>1 DEF LifecycleInv, Calls, Pointing
<1>3. /\ s \in Left /\ \A t \in Left \ {s} : MayPrecede(s, t)
      /\ Tail(todo) \in Seq(StepName) /\ Ordered(Tail(todo))
      /\ StepsOf(Tail(todo)) = Left \ {s}
    BY <1>1, AtHead DEF LifecycleInv
<1>4. <<>> \o Tail(todo) = Tail(todo)
    BY <1>3
<1> QED
    BY <1>1, <1>2, <1>3, <1>4 DEF Going

(* Whatever a step of begin() or end() leaves to do, it is a list of steps *)
(* that is not empty, and nothing of the calls changes.                    *)
LEMMA ControlKept ==
    ASSUME LifecycleInv, NEW s, Going(s), todo' \in Seq(StepName), Ordered(todo'),
           Left' \cap {"done", "failed"} # {}, auto'.ready = auto.ready
    PROVE  ControlOK' /\ Calls' /\ Pointing'
<1>1. ControlOK'
    BY DEF LifecycleInv, ControlOK, Going, provider
<1>2. todo' # <<>>
    BY ShortLists DEF Left
<1>3. pc \in {"sketch", "beginning", "unlock"}
    BY DEF LifecycleInv, ControlOK, Calls, Going
<1>4. Calls'
    BY <1>2, <1>3 DEF LifecycleInv, Calls, Going, provider
<1>5. Pointing'
    BY DEF LifecycleInv, Pointing, Going, provider, driver
<1> QED
    BY <1>1, <1>4, <1>5

(* A step that is done.                                                    *)
LEMMA Popped ==
    ASSUME LifecycleInv, NEW s, Doing(s), Then(<<>>), s \notin {"done", "failed"},
           auto'.ready = auto.ready
    PROVE  Going(s) /\ Left' = Left \ {s} /\ ControlOK' /\ Calls' /\ Pointing'
<1>1. /\ Going(s) /\ todo' = Tail(todo)
      /\ Tail(todo) \in Seq(StepName) /\ Ordered(Tail(todo))
      /\ StepsOf(Tail(todo)) = Left \ {s}
    BY Rest DEF Then
<1>2. Left' = Left \ {s}
    BY <1>1 DEF Left
<1>3. Left' \cap {"done", "failed"} # {}
    BY <1>1, <1>2 DEF LifecycleInv, Lists, Going
<1> QED
    BY <1>1, <1>2, <1>3, ControlKept

(* A step that is replaced by others.                                      *)
LEMMA ReplacedByOne ==
    ASSUME LifecycleInv, NEW s, Doing(s), s \notin {"done", "failed"},
           NEW a \in StepName, Then(<<a>>), auto'.ready = auto.ready,
           \A t \in Left \ {s} : MayPrecede(a, t)
    PROVE  Going(s) /\ Left' = (Left \ {s}) \cup {a} /\ ControlOK' /\ Calls' /\ Pointing'
<1> DEFINE r == Tail(todo)
<1>1. Going(s) /\ r \in Seq(StepName) /\ Ordered(r) /\ StepsOf(r) = Left \ {s}
    BY Rest
<1>2. todo' = <<a>> \o r
    BY DEF Then
<1> HIDE DEF r
<1>3. todo' \in Seq(StepName) /\ Ordered(todo') /\ Left' = (Left \ {s}) \cup {a}
  <2>1. \A y \in StepsOf(r) : MayPrecede(a, y)
      BY <1>1
  <2>2. /\ <<a>> \o r \in Seq(StepName) /\ Ordered(<<a>> \o r)
        /\ StepsOf(<<a>> \o r) = {a} \cup StepsOf(r)
      BY <1>1, <2>1, InFront
  <2> QED
      BY <1>1, <1>2, <2>2 DEF Left
<1>4. Left' \cap {"done", "failed"} # {}
    BY <1>1, <1>3 DEF LifecycleInv, Lists, Going
<1> QED
    BY <1>1, <1>3, <1>4, ControlKept

(* A step that puts two others in its place keeps the list in order.       *)
LEMMA ReplacedByTwo ==
    ASSUME LifecycleInv, NEW s, Doing(s), s \notin {"done", "failed"},
           NEW a \in StepName, NEW b \in StepName, Then(<<a, b>>), auto'.ready = auto.ready,
           MayPrecede(a, b),
           \A t \in Left \ {s} : MayPrecede(a, t) /\ MayPrecede(b, t)
    PROVE  /\ Going(s) /\ Left' = (Left \ {s}) \cup {a, b}
           /\ ControlOK' /\ Calls' /\ Pointing'
<1> DEFINE r == Tail(todo)
<1>1. Going(s) /\ r \in Seq(StepName) /\ Ordered(r) /\ StepsOf(r) = Left \ {s}
    BY Rest
<1>2. todo' = <<a, b>> \o r
    BY DEF Then
<1> HIDE DEF r
<1>3. todo' \in Seq(StepName) /\ Ordered(todo') /\ Left' = (Left \ {s}) \cup {a, b}
  <2>1. <<a, b>> \in Seq(StepName) /\ Ordered(<<a, b>>) /\ StepsOf(<<a, b>>) = {a, b}
      BY DEF Ordered, StepsOf
  <2>2. \A x \in StepsOf(<<a, b>>), y \in StepsOf(r) : MayPrecede(x, y)
      BY <1>1, <2>1
  <2>3. /\ <<a, b>> \o r \in Seq(StepName) /\ Ordered(<<a, b>> \o r)
        /\ StepsOf(<<a, b>> \o r) = {a, b} \cup StepsOf(r)
      BY <1>1, <2>1, <2>2, Concatenated
  <2> QED
      BY <1>1, <1>2, <2>3 DEF Left
<1>4. Left' \cap {"done", "failed"} # {}
    BY <1>1, <1>3 DEF LifecycleInv, Lists, Going
<1> QED
    BY <1>1, <1>3, <1>4, ControlKept

(* The lists of what a begin() that fails takes down again.                *)
Unwinding(s, S) == s \in Seq(StepName) /\ Ordered(s) /\ StepsOf(s) = S
FailSteps == PartEnds \cup {"manager", "reset"}

(* Each list that a begin() can unwind is in order.                        *)
LEMMA UnwindLists ==
    /\ Unwinding(<<"manager">>,
         {"manager"})
    /\ Unwinding(<<"broker", "manager">>,
         {"broker", "manager"})
    /\ Unwinding(<<"frames", "assets", "broker", "manager">>,
         {"frames", "assets", "broker", "manager"})
    /\ Unwinding(<<"dma", "frames", "assets", "broker", "manager">>,
         {"dma", "frames", "assets", "broker", "manager"})
    /\ Unwinding(<<"dma", "frames", "assets", "broker", "manager", "reset">>,
         {"dma", "frames", "assets", "broker", "manager", "reset"})
<1>0. /\ \A x \in PartEnds, y \in FailSteps : x # y => MayPrecede(x, y)
      /\ MayPrecede("manager", "reset")
    BY DEF MayPrecede, PartEnds, FailSteps, Builds
<1>1. Unwinding(<<"manager">>, {"manager"})
  <2> DEFINE s == <<"manager">>
  <2>1. s \in Seq(StepName)
      BY DEF StepName, PartEnds
  <2>2. DOMAIN s = 1 .. 1 /\ \A i \in 1 .. 1 : i \in {1}
      OBVIOUS
  <2>3. s[1] = "manager"
      OBVIOUS
  <2> HIDE DEF s
  <2>4. Ordered(s)
    <3> SUFFICES ASSUME NEW i \in DOMAIN s, NEW j \in DOMAIN s, i < j
                 PROVE  MayPrecede(s[i], s[j])
        BY DEF Ordered
    <3> QED
        BY <1>0, <2>2, <2>3 DEF PartEnds, FailSteps
  <2>5. StepsOf(s) = {"manager"}
      BY <2>2, <2>3 DEF StepsOf
  <2> QED
      BY <2>1, <2>4, <2>5 DEF Unwinding, s
<1>2. Unwinding(<<"broker", "manager">>, {"broker", "manager"})
  <2> DEFINE s == <<"broker", "manager">>
  <2>1. s \in Seq(StepName)
      BY DEF StepName, PartEnds
  <2>2. DOMAIN s = 1 .. 2 /\ \A i \in 1 .. 2 : i \in {1, 2}
      OBVIOUS
  <2>3. s[1] = "broker" /\ s[2] = "manager"
      OBVIOUS
  <2> HIDE DEF s
  <2>4. Ordered(s)
    <3> SUFFICES ASSUME NEW i \in DOMAIN s, NEW j \in DOMAIN s, i < j
                 PROVE  MayPrecede(s[i], s[j])
        BY DEF Ordered
    <3> QED
        BY <1>0, <2>2, <2>3 DEF PartEnds, FailSteps
  <2>5. StepsOf(s) = {"broker", "manager"}
      BY <2>2, <2>3 DEF StepsOf
  <2> QED
      BY <2>1, <2>4, <2>5 DEF Unwinding, s
<1>3. Unwinding(<<"frames", "assets", "broker", "manager">>,
         {"frames", "assets", "broker", "manager"})
  <2> DEFINE s == <<"frames", "assets", "broker", "manager">>
  <2>1. s \in Seq(StepName)
      BY DEF StepName, PartEnds
  <2>2. DOMAIN s = 1 .. 4 /\ \A i \in 1 .. 4 : i \in {1, 2, 3, 4}
      OBVIOUS
  <2>3. s[1] = "frames" /\ s[2] = "assets" /\ s[3] = "broker"
       /\ s[4] = "manager"
      OBVIOUS
  <2> HIDE DEF s
  <2>4. Ordered(s)
    <3> SUFFICES ASSUME NEW i \in DOMAIN s, NEW j \in DOMAIN s, i < j
                 PROVE  MayPrecede(s[i], s[j])
        BY DEF Ordered
    <3> QED
        BY <1>0, <2>2, <2>3 DEF PartEnds, FailSteps
  <2>5. StepsOf(s) = {"frames", "assets", "broker", "manager"}
      BY <2>2, <2>3 DEF StepsOf
  <2> QED
      BY <2>1, <2>4, <2>5 DEF Unwinding, s
<1>4. Unwinding(<<"dma", "frames", "assets", "broker", "manager">>,
         {"dma", "frames", "assets", "broker", "manager"})
  <2> DEFINE s == <<"dma", "frames", "assets", "broker", "manager">>
  <2>1. s \in Seq(StepName)
      BY DEF StepName, PartEnds
  <2>2. DOMAIN s = 1 .. 5 /\ \A i \in 1 .. 5 : i \in {1, 2, 3, 4, 5}
      OBVIOUS
  <2>3. s[1] = "dma" /\ s[2] = "frames" /\ s[3] = "assets"
       /\ s[4] = "broker" /\ s[5] = "manager"
      OBVIOUS
  <2> HIDE DEF s
  <2>4. Ordered(s)
    <3> SUFFICES ASSUME NEW i \in DOMAIN s, NEW j \in DOMAIN s, i < j
                 PROVE  MayPrecede(s[i], s[j])
        BY DEF Ordered
    <3> QED
        BY <1>0, <2>2, <2>3 DEF PartEnds, FailSteps
  <2>5. StepsOf(s) = {"dma", "frames", "assets", "broker", "manager"}
      BY <2>2, <2>3 DEF StepsOf
  <2> QED
      BY <2>1, <2>4, <2>5 DEF Unwinding, s
<1>5. Unwinding(<<"dma", "frames", "assets", "broker", "manager", "reset">>,
         {"dma", "frames", "assets", "broker", "manager", "reset"})
  <2> DEFINE s == <<"dma", "frames", "assets", "broker", "manager", "reset">>
  <2>1. s \in Seq(StepName)
      BY DEF StepName, PartEnds
  <2>2. DOMAIN s = 1 .. 6 /\ \A i \in 1 .. 6 : i \in {1, 2, 3, 4, 5, 6}
      OBVIOUS
  <2>3. s[1] = "dma" /\ s[2] = "frames" /\ s[3] = "assets"
       /\ s[4] = "broker" /\ s[5] = "manager" /\ s[6] = "reset"
      OBVIOUS
  <2> HIDE DEF s
  <2>4. Ordered(s)
    <3> SUFFICES ASSUME NEW i \in DOMAIN s, NEW j \in DOMAIN s, i < j
                 PROVE  MayPrecede(s[i], s[j])
        BY DEF Ordered
    <3> QED
        BY <1>0, <2>2, <2>3 DEF PartEnds, FailSteps
  <2>5. StepsOf(s) = {"dma", "frames", "assets", "broker", "manager", "reset"}
      BY <2>2, <2>3 DEF StepsOf
  <2> QED
      BY <2>1, <2>4, <2>5 DEF Unwinding, s
<1> QED
    BY <1>1, <1>2, <1>3, <1>4, <1>5

(* A step that fails, with what it takes down.                             *)
LEMMA Failed ==
    ASSUME LifecycleInv, NEW s, Doing(s), NEW steps, Fails(steps), auto'.ready = auto.ready,
           NEW S \in SUBSET FailSteps, Unwinding(steps, S)
    PROVE  Going(s) /\ Left' = S \cup {"failed"} /\ ControlOK' /\ Calls' /\ Pointing'
<1>1. Going(s)
    BY Rest
<1>2. <<"failed">> \in Seq(StepName) /\ Ordered(<<"failed">>)
      /\ StepsOf(<<"failed">>) = {"failed"}
    BY ShortLists DEF StepName
<1>3. \A x \in S : MayPrecede(x, "failed")
    BY DEF MayPrecede, PartEnds, Builds, FailSteps
<1>4. /\ steps \o <<"failed">> \in Seq(StepName) /\ Ordered(steps \o <<"failed">>)
      /\ StepsOf(steps \o <<"failed">>) = S \cup {"failed"}
  <2>1. \A x \in StepsOf(steps), y \in StepsOf(<<"failed">>) : MayPrecede(x, y)
      BY <1>2, <1>3 DEF Unwinding
  <2>2. steps \in Seq(StepName) /\ Ordered(steps) /\ StepsOf(steps) = S
      BY DEF Unwinding
  <2>3. /\ steps \o <<"failed">> \in Seq(StepName) /\ Ordered(steps \o <<"failed">>)
        /\ StepsOf(steps \o <<"failed">>) = StepsOf(steps) \cup StepsOf(<<"failed">>)
      BY <1>2, <2>1, <2>2, Concatenated
  <2> QED
      BY <1>2, <2>2, <2>3
<1>5. todo' \in Seq(StepName) /\ Ordered(todo') /\ Left' = S \cup {"failed"}
    BY <1>4 DEF Fails, Left
<1> QED
    BY <1>1, <1>5, ControlKept


(* Whose block is whose is a matter of held and of the parts' addresses.   *)
LEMMA OwnersSame ==
    ASSUME Owners, \A x \in Addr : held'[x] = held[x],
           broker'.arena = broker.arena, broker'.leases = broker.leases,
           pair'.a = pair.a, pair'.b = pair.b, pool'.blocks = pool.blocks,
           cache'.entries = cache.entries
    PROVE  Owners'
    BY DEF Owners

(* A step that changes no block and no part.                               *)
LEMMA MemoryKept ==
    ASSUME LifecycleInv, UNCHANGED <<memory, parts, driver>>,
           auto' \in [ready : BOOLEAN, frames : BOOLEAN, dma : BOOLEAN,
                      by : {"nobody", "sketch", "driver"}]
    PROVE  TypeOK' /\ Owners' /\ DMAIsLent' /\ Bookkeeping'
<1> USE DEF LifecycleInv, memory, parts, driver
<1>1. TypeOK'
    BY DEF TypeOK
<1>2. Owners'
    BY OwnersSame
<1>3. DMAIsLent'
    BY DEF DMAIsLent
<1>4. Bookkeeping'
    BY DEF Bookkeeping, PairEmpty, PoolEmpty, CacheEmpty
<1> QED
    BY <1>1, <1>2, <1>3, <1>4

-----------------------------------------------------------------------------
(* The steps of begin() and end(), one by one. *)

(* The DMA pool ends.                                                      *)
LEMMA PoolEndsStep ==
    ASSUME LifecycleInv, PoolEnds
    PROVE  LifecycleInv'
<1> USE DEF LifecycleInv
<1>1. Going("dma") /\ Left' = Left \ {"dma"} /\ ControlOK' /\ Calls' /\ Pointing'
    BY Popped DEF PoolEnds
<1>2. TypeOK'
  <2>1. held' \in [Addr -> Holder]
      BY DEF TypeOK, PoolEnds, Released, Holder
  <2> QED
      BY <1>1, <2>1 DEF TypeOK, PoolEnds, NoPool, Pointers, Going, driver
<1>3. Owners'
    BY <1>1, LifecycleConstants DEF TypeOK, Owners, PoolEnds, NoPool, Pointers, Released,
                                    Bookkeeping, AllEmpty, BrokerEmpty, PairEmpty, PoolEmpty,
                                    CacheEmpty
<1>4. DMAIsLent' /\ Bookkeeping'
    BY <1>1 DEF DMAIsLent, Going, driver, PoolEnds, NoPool, Pointers, Released, Bookkeeping, TypeOK,
       AllEmpty, BrokerEmpty, PairEmpty, PoolEmpty, CacheEmpty
<1>5. Lists' /\ Ending' /\ NotYet' /\ HalfBuilt' /\ Built'
  <2>1. Lists'
      BY <1>1 DEF Going, Lists, MayPrecede, After, PartEnds, Builds, PoolEnds, NoPool,
         Pointers
  <2>2. Ending'
      BY <1>1 DEF Going, Lists, Ending, MayPrecede, After, PartEnds, Builds, AllEmpty,
         BrokerEmpty, PairEmpty, PoolEmpty, CacheEmpty, PoolEnds, NoPool, Pointers
  <2>3. NotYet'
      BY <1>1 DEF Going, Lists, Ending, NotYet, MayPrecede, After, PartEnds, Builds,
         AllEmpty, BrokerEmpty, PairEmpty, PoolEmpty, CacheEmpty, PoolEnds, NoPool, Pointers
  <2>4. HalfBuilt'
      BY <1>1 DEF Going, Lists, NotYet, HalfBuilt, MayPrecede, After, PartEnds, Builds,
         AllEmpty, BrokerEmpty, PairEmpty, PoolEmpty, CacheEmpty, PoolEnds, NoPool, Pointers
  <2>5. Built'
    <3>1. "manager" \in Left' /\ ~auto'.ready
        BY <1>1 DEF Going, Lists, PartEnds, PoolEnds
    <3> QED
        BY <3>1 DEF Built
  <2> QED
      BY <2>1, <2>2, <2>3, <2>4, <2>5
<1> QED
    BY <1>1, <1>2, <1>3, <1>4, <1>5

(* The framebuffers end.                                                   *)
LEMMA PairEndsStep ==
    ASSUME LifecycleInv, PairEnds
    PROVE  LifecycleInv'
<1> USE DEF LifecycleInv
<1>1. Going("frames") /\ Left' = Left \ {"frames"} /\ ControlOK' /\ Calls' /\ Pointing'
    BY Popped DEF PairEnds
<1>2. TypeOK'
  <2>1. held' \in [Addr -> Holder]
      BY DEF TypeOK, PairEnds, Released, Holder
  <2> QED
      BY <1>1, <2>1 DEF TypeOK, PairEnds, NoPair, Going, driver
<1>3. Owners'
    BY <1>1, LifecycleConstants DEF TypeOK, Owners, PairEnds, NoPair, Released, Bookkeeping,
                                    AllEmpty, BrokerEmpty, PairEmpty, PoolEmpty, CacheEmpty
<1>4. DMAIsLent' /\ Bookkeeping'
    BY <1>1 DEF DMAIsLent, Going, driver, PairEnds, NoPair, Released, Bookkeeping, TypeOK,
       AllEmpty, BrokerEmpty, PairEmpty, PoolEmpty, CacheEmpty
<1>5. Lists' /\ Ending' /\ NotYet' /\ HalfBuilt' /\ Built'
  <2>1. Lists'
      BY <1>1 DEF Going, Lists, MayPrecede, After, PartEnds, Builds, PairEnds, NoPair
  <2>2. Ending'
      BY <1>1 DEF Going, Lists, Ending, MayPrecede, After, PartEnds, Builds, AllEmpty,
         BrokerEmpty, PairEmpty, PoolEmpty, CacheEmpty, PairEnds, NoPair
  <2>3. NotYet'
      BY <1>1 DEF Going, Lists, Ending, NotYet, MayPrecede, After, PartEnds, Builds,
         AllEmpty, BrokerEmpty, PairEmpty, PoolEmpty, CacheEmpty, PairEnds, NoPair
  <2>4. HalfBuilt'
      BY <1>1 DEF Going, Lists, NotYet, HalfBuilt, MayPrecede, After, PartEnds, Builds,
         AllEmpty, BrokerEmpty, PairEmpty, PoolEmpty, CacheEmpty, PairEnds, NoPair
  <2>5. Built'
    <3>1. "manager" \in Left' /\ ~auto'.ready
        BY <1>1 DEF Going, Lists, PartEnds, PairEnds
    <3> QED
        BY <3>1 DEF Built
  <2> QED
      BY <2>1, <2>2, <2>3, <2>4, <2>5
<1> QED
    BY <1>1, <1>2, <1>3, <1>4, <1>5

(* The asset cache ends.                                                   *)
LEMMA CacheEndsStep ==
    ASSUME LifecycleInv, CacheEnds
    PROVE  LifecycleInv'
<1> USE DEF LifecycleInv
<1>1. Going("assets") /\ Left' = Left \ {"assets"} /\ ControlOK' /\ Calls' /\ Pointing'
    BY Popped DEF CacheEnds
<1>2. TypeOK'
  <2>1. held' \in [Addr -> Holder]
      BY DEF TypeOK, CacheEnds, Released, Holder
  <2> QED
      BY <1>1, <2>1 DEF TypeOK, CacheEnds, NoCache, Going, driver
<1>3. Owners'
    BY <1>1, LifecycleConstants DEF TypeOK, Owners, CacheEnds, NoCache, Released, Bookkeeping,
                                    AllEmpty, BrokerEmpty, PairEmpty, PoolEmpty, CacheEmpty
<1>4. DMAIsLent' /\ Bookkeeping'
    BY <1>1 DEF DMAIsLent, Going, driver, CacheEnds, NoCache, Released, Bookkeeping, TypeOK,
       AllEmpty, BrokerEmpty, PairEmpty, PoolEmpty, CacheEmpty
<1>5. Lists' /\ Ending' /\ NotYet' /\ HalfBuilt' /\ Built'
  <2>1. Lists'
      BY <1>1 DEF Going, Lists, MayPrecede, After, PartEnds, Builds, CacheEnds, NoCache
  <2>2. Ending'
      BY <1>1 DEF Going, Lists, Ending, MayPrecede, After, PartEnds, Builds, AllEmpty,
         BrokerEmpty, PairEmpty, PoolEmpty, CacheEmpty, CacheEnds, NoCache
  <2>3. NotYet'
      BY <1>1 DEF Going, Lists, Ending, NotYet, MayPrecede, After, PartEnds, Builds,
         AllEmpty, BrokerEmpty, PairEmpty, PoolEmpty, CacheEmpty, CacheEnds, NoCache
  <2>4. HalfBuilt'
      BY <1>1 DEF Going, Lists, NotYet, HalfBuilt, MayPrecede, After, PartEnds, Builds,
         AllEmpty, BrokerEmpty, PairEmpty, PoolEmpty, CacheEmpty, CacheEnds, NoCache
  <2>5. Built'
    <3>1. "manager" \in Left' /\ ~auto'.ready
        BY <1>1 DEF Going, Lists, PartEnds, CacheEnds
    <3> QED
        BY <3>1 DEF Built
  <2> QED
      BY <2>1, <2>2, <2>3, <2>4, <2>5
<1> QED
    BY <1>1, <1>2, <1>3, <1>4, <1>5

(* The broker gives back its tables.                                       *)
LEMMA BrokerEndsStep ==
    ASSUME LifecycleInv, BrokerEnds
    PROVE  LifecycleInv'
<1> USE DEF LifecycleInv
<1>1. Going("broker") /\ Left' = Left \ {"broker"} /\ ControlOK' /\ Calls' /\ Pointing'
    BY Popped DEF BrokerEnds
<1>2. TypeOK'
  <2>1. held' \in [Addr -> Holder]
      BY DEF TypeOK, BrokerEnds, Released, Holder
  <2>2. broker' = NoBroker /\ UNCHANGED <<manager_ready, pair, pool, cache, auto, holds, stale>>
      BY <1>1 DEF BrokerEnds, Walks, Going, driver
  <2>3. TypeOK
      OBVIOUS
  <2> HIDE DEF LifecycleInv
  <2> QED
      BY <2>1, <2>2, <2>3 DEF TypeOK, NoBroker
<1>3. Owners'
    BY <1>1, LifecycleConstants DEF TypeOK, Owners, BrokerEnds, NoBroker, Walks, Released,
                                    Bookkeeping, AllEmpty, BrokerEmpty, PairEmpty, PoolEmpty,
                                    CacheEmpty
<1>4. DMAIsLent' /\ Bookkeeping'
    BY <1>1 DEF DMAIsLent, Going, driver, BrokerEnds, NoBroker, Walks, Released, Bookkeeping,
                TypeOK,
       AllEmpty, BrokerEmpty, PairEmpty, PoolEmpty, CacheEmpty
<1>5. Lists' /\ Ending' /\ NotYet' /\ HalfBuilt' /\ Built'
  <2>1. Lists'
      BY <1>1 DEF Going, Lists, MayPrecede, After, PartEnds, Builds, BrokerEnds, NoBroker,
         Walks
  <2>2. Ending'
      BY <1>1 DEF Going, Lists, Ending, MayPrecede, After, PartEnds, Builds, AllEmpty,
         BrokerEmpty, PairEmpty, PoolEmpty, CacheEmpty, BrokerEnds, NoBroker, Walks
  <2>3. NotYet'
      BY <1>1 DEF Going, Lists, Ending, NotYet, MayPrecede, After, PartEnds, Builds,
         AllEmpty, BrokerEmpty, PairEmpty, PoolEmpty, CacheEmpty, BrokerEnds, NoBroker, Walks
  <2>4. HalfBuilt'
      BY <1>1 DEF Going, Lists, NotYet, HalfBuilt, MayPrecede, After, PartEnds, Builds,
         AllEmpty, BrokerEmpty, PairEmpty, PoolEmpty, CacheEmpty, BrokerEnds, NoBroker, Walks
  <2>5. Built'
      BY <1>1 DEF Going, Lists, Ending, NotYet, HalfBuilt, Built, MayPrecede, After,
         PartEnds, Builds, AllEmpty, BrokerEmpty, PairEmpty, PoolEmpty, CacheEmpty, BrokerEnds,
         NoBroker, Walks
  <2> QED
      BY <2>1, <2>2, <2>3, <2>4, <2>5
<1> QED
    BY <1>1, <1>2, <1>3, <1>4, <1>5

(* The manager ends: nobody has a block then.                              *)
LEMMA ManagerEndsStep ==
    ASSUME LifecycleInv, ManagerEnds
    PROVE  LifecycleInv'
<1> USE DEF LifecycleInv
<1>1. Going("manager") /\ Left' = Left \ {"manager"} /\ ControlOK' /\ Calls' /\ Pointing'
    BY Popped DEF ManagerEnds
<1>2. AllEmpty
    BY <1>1 DEF Going, Ending, AllEmpty, MayPrecede, PartEnds
<1>3. held' = [x \in Addr |-> "free"] /\ manager_ready' = FALSE /\ UNCHANGED <<parts, auto>>
    BY DEF ManagerEnds
<1>4. TypeOK'
  <2>1. held' \in [Addr -> Holder]
      BY <1>3 DEF Holder
  <2>2. manager_ready' \in BOOLEAN /\ UNCHANGED <<broker, pair, pool, cache, auto, holds, stale>>
      BY <1>1, <1>3 DEF Going, driver, parts
  <2>3. TypeOK
      OBVIOUS
  <2> HIDE DEF LifecycleInv
  <2> QED
      BY <2>1, <2>2, <2>3 DEF TypeOK
<1>5. Owners'
    BY <1>2, <1>3, LifecycleConstants DEF TypeOK, Owners, parts, AllEmpty, BrokerEmpty,
       PairEmpty, PoolEmpty, CacheEmpty
<1>6. DMAIsLent' /\ Bookkeeping'
    BY <1>1, <1>2, <1>3 DEF DMAIsLent, Going, driver, Bookkeeping, parts,
       AllEmpty, BrokerEmpty, PairEmpty, PoolEmpty, CacheEmpty
<1>7. Lists' /\ Ending' /\ NotYet' /\ HalfBuilt' /\ Built'
  <2>1. AllEmpty'
      BY <1>2, <1>3 DEF parts, AllEmpty, BrokerEmpty, PairEmpty, PoolEmpty, CacheEmpty
  <2>2. Lists' /\ HalfBuilt'
      BY <1>1, <1>3 DEF Going, Lists, HalfBuilt, MayPrecede, PartEnds, Builds, parts
  <2>3. Ending' /\ NotYet' /\ Built'
    <3>1. "manager" \notin Left' /\ "done" \in Left' =>
            {"begin manager", "begin broker", "begin assets", "begin frames", "begin dma"}
              \subseteq Left'
        BY <1>1 DEF Lists, Going
    <3> QED
        BY <1>1, <1>3, <2>1, <2>2, <3>1 DEF Ending, NotYet, Built, Going, Lists, AllEmpty,
           BrokerEmpty, PairEmpty, PoolEmpty, CacheEmpty
  <2> QED
      BY <2>2, <2>3
<1> QED
    BY <1>1, <1>4, <1>5, <1>6, <1>7

(* The flags are cleared.                                                  *)
LEMMA FlagsResetStep ==
    ASSUME LifecycleInv, FlagsReset
    PROVE  LifecycleInv'
<1> USE DEF LifecycleInv
<1>1. Going("reset") /\ Left' = Left \ {"reset"} /\ ControlOK' /\ Calls' /\ Pointing'
    BY Popped DEF FlagsReset, TypeOK
<1>2. TypeOK' /\ Owners' /\ DMAIsLent' /\ Bookkeeping'
    BY <1>1, MemoryKept DEF FlagsReset, Going, TypeOK
<1>3. Lists' /\ Ending' /\ NotYet' /\ HalfBuilt' /\ Built'
  <2>1. Lists'
      BY <1>1 DEF Going, Lists, MayPrecede, After, PartEnds, Builds, FlagsReset, TypeOK,
         memory, parts
  <2>2. Ending'
      BY <1>1 DEF Going, Lists, Ending, MayPrecede, After, PartEnds, Builds, AllEmpty,
         BrokerEmpty, PairEmpty, PoolEmpty, CacheEmpty, FlagsReset, TypeOK, memory, parts
  <2>3. NotYet'
      BY <1>1 DEF Going, Lists, Ending, NotYet, MayPrecede, After, PartEnds, Builds,
         AllEmpty, BrokerEmpty, PairEmpty, PoolEmpty, CacheEmpty, FlagsReset, TypeOK, memory,
         parts
  <2>4. HalfBuilt'
      BY <1>1 DEF Going, Lists, NotYet, HalfBuilt, MayPrecede, After, PartEnds, Builds,
         AllEmpty, BrokerEmpty, PairEmpty, PoolEmpty, CacheEmpty, FlagsReset, TypeOK, memory,
         parts
  <2>5. Built'
      BY <1>1 DEF Going, Lists, Ending, NotYet, HalfBuilt, Built, MayPrecede, After,
         PartEnds, Builds, AllEmpty, BrokerEmpty, PairEmpty, PoolEmpty, CacheEmpty, FlagsReset,
         TypeOK, memory, parts
  <2> QED
      BY <2>1, <2>2, <2>3, <2>4, <2>5
<1> QED
    BY <1>1, <1>2, <1>3

(* The clients are registered.                                             *)
LEMMA ClientsRegisteredStep ==
    ASSUME LifecycleInv, ClientsRegistered
    PROVE  LifecycleInv'
<1> USE DEF LifecycleInv
<1>1. Going("clients") /\ Left' = Left \ {"clients"} /\ ControlOK' /\ Calls' /\ Pointing'
    BY Popped DEF ClientsRegistered
<1>2. TypeOK' /\ Owners' /\ DMAIsLent' /\ Bookkeeping'
    BY <1>1, MemoryKept DEF ClientsRegistered, Going, TypeOK
<1>3. Lists' /\ Ending' /\ NotYet' /\ HalfBuilt' /\ Built'
  <2>1. Lists'
      BY <1>1 DEF Going, Lists, MayPrecede, After, PartEnds, Builds, ClientsRegistered,
         memory, parts
  <2>2. Ending'
      BY <1>1 DEF Going, Lists, Ending, MayPrecede, After, PartEnds, Builds, AllEmpty,
         BrokerEmpty, PairEmpty, PoolEmpty, CacheEmpty, ClientsRegistered, memory, parts
  <2>3. NotYet'
      BY <1>1 DEF Going, Lists, Ending, NotYet, MayPrecede, After, PartEnds, Builds,
         AllEmpty, BrokerEmpty, PairEmpty, PoolEmpty, CacheEmpty, ClientsRegistered, memory,
         parts
  <2>4. HalfBuilt'
      BY <1>1 DEF Going, Lists, NotYet, HalfBuilt, MayPrecede, After, PartEnds, Builds,
         AllEmpty, BrokerEmpty, PairEmpty, PoolEmpty, CacheEmpty, ClientsRegistered, memory,
         parts
  <2>5. Built'
      BY <1>1 DEF Going, Lists, Ending, NotYet, HalfBuilt, Built, MayPrecede, After,
         PartEnds, Builds, AllEmpty, BrokerEmpty, PairEmpty, PoolEmpty, CacheEmpty,
         ClientsRegistered, memory, parts
  <2> QED
      BY <2>1, <2>2, <2>3, <2>4, <2>5
<1> QED
    BY <1>1, <1>2, <1>3

(* There is no block for the broker's tables.                              *)
LEMMA ArenaFailsStep ==
    ASSUME LifecycleInv, ArenaFails
    PROVE  LifecycleInv'
<1> USE DEF LifecycleInv
<1>1. Going("arena") /\ Left' = {"manager"} \cup {"failed"} /\ ControlOK' /\ Calls' /\ Pointing'
  <2>1. {"manager"} \in SUBSET FailSteps
      BY DEF FailSteps, PartEnds
  <2> QED
      BY <2>1, UnwindLists, Failed DEF ArenaFails
<1>2. TypeOK' /\ Owners' /\ DMAIsLent' /\ Bookkeeping'
    BY <1>1, MemoryKept DEF ArenaFails, Going, TypeOK
<1>3. Lists' /\ Ending' /\ NotYet' /\ HalfBuilt' /\ Built'
    BY <1>1 DEF Going, Lists, Ending, NotYet, HalfBuilt, Built, MayPrecede, After,
       PartEnds, Builds, AllEmpty, BrokerEmpty, PairEmpty, PoolEmpty, CacheEmpty, ArenaFails,
       memory, parts
<1> QED
    BY <1>1, <1>2, <1>3

(* There is no block for the DMA pool.                                     *)
LEMMA DMAFailsStep ==
    ASSUME LifecycleInv, DMAFails
    PROVE  LifecycleInv'
<1> USE DEF LifecycleInv
<1>1. /\ Going("dma block")
      /\ Left' = {"dma", "frames", "assets", "broker", "manager"} \cup {"failed"}
      /\ ControlOK'
      /\ Calls'
      /\ Pointing'
  <2>1. {"dma", "frames", "assets", "broker", "manager"} \in SUBSET FailSteps
      BY DEF FailSteps, PartEnds
  <2> QED
      BY <2>1, UnwindLists, Failed DEF DMAFails
<1>2. TypeOK' /\ Owners' /\ DMAIsLent' /\ Bookkeeping'
    BY <1>1, MemoryKept DEF DMAFails, Going, TypeOK
<1>3. Lists' /\ Ending' /\ NotYet' /\ HalfBuilt' /\ Built'
    BY <1>1 DEF Going, Lists, Ending, NotYet, HalfBuilt, Built, MayPrecede, After,
       PartEnds, Builds, AllEmpty, BrokerEmpty, PairEmpty, PoolEmpty, CacheEmpty, DMAFails,
       memory, parts
<1> QED
    BY <1>1, <1>2, <1>3

(* A client cannot be registered.                                          *)
LEMMA ClientsFailStep ==
    ASSUME LifecycleInv, ClientsFail
    PROVE  LifecycleInv'
<1> USE DEF LifecycleInv
<1>1. /\ Going("clients")
      /\ Left' = {"dma", "frames", "assets", "broker", "manager", "reset"} \cup {"failed"}
      /\ ControlOK'
      /\ Calls'
      /\ Pointing'
  <2>1. {"dma", "frames", "assets", "broker", "manager", "reset"} \in SUBSET FailSteps
      BY DEF FailSteps, PartEnds
  <2> QED
      BY <2>1, UnwindLists, Failed DEF ClientsFail
<1>2. TypeOK' /\ Owners' /\ DMAIsLent' /\ Bookkeeping'
    BY <1>1, MemoryKept DEF ClientsFail, Going, TypeOK
<1>3. Lists' /\ Ending' /\ NotYet' /\ HalfBuilt' /\ Built'
    BY <1>1 DEF Going, Lists, Ending, NotYet, HalfBuilt, Built, MayPrecede, After,
       PartEnds, Builds, AllEmpty, BrokerEmpty, PairEmpty, PoolEmpty, CacheEmpty, ClientsFail,
       memory, parts
<1> QED
    BY <1>1, <1>2, <1>3

(* The broker gives back a lease.                                          *)
LEMMA BrokerEndsLeaseStep ==
    ASSUME LifecycleInv, BrokerEndsLease
    PROVE  LifecycleInv'
<1> USE DEF LifecycleInv
<1>1. Going("broker") /\ todo' = todo /\ Left' = Left
    BY Rest DEF BrokerEndsLease, Left
<1>2. PICK x \in broker.leases : /\ held' = Released({x})
                                 /\ broker' = [broker EXCEPT !.leases = @ \ {x}]
    BY DEF BrokerEndsLease, Walks, TablesLive, TypeOK, Owners
<1>3. x \in Addr /\ manager_ready /\ broker.begun
      /\ UNCHANGED <<manager_ready, pair, pool, cache, auto>>
    BY DEF BrokerEndsLease, Walks, TypeOK
<1>4. TypeOK'
  <2>1. held' \in [Addr -> Holder]
      BY <1>2 DEF TypeOK, Released, Holder
  <2>2. broker' \in [begun : BOOLEAN, arena : Addr \cup {Null}, leases : SUBSET Addr]
        /\ broker'.begun = broker.begun /\ broker'.arena = broker.arena
        /\ broker'.leases = broker.leases \ {x}
      BY <1>2 DEF TypeOK
  <2> QED
      BY <1>1, <1>3, <2>1, <2>2 DEF TypeOK, Going, driver
<1>5. Owners'
    BY <1>2, <1>3 DEF TypeOK, Owners, Released
<1>6. DMAIsLent' /\ Bookkeeping'
    BY <1>1, <1>2, <1>3 DEF DMAIsLent, Bookkeeping, Released, Going, driver, TypeOK,
       PairEmpty, PoolEmpty, CacheEmpty
<1>7. ControlOK' /\ Calls' /\ Pointing'
    BY <1>1, <1>3, ControlKept DEF ControlOK, Lists, Going
<1>8. broker.begun /\ broker'.begun
    BY <1>2, <1>3 DEF TypeOK
<1>9. Lists' /\ Ending' /\ NotYet' /\ HalfBuilt' /\ Built'
  <2>1. Lists' /\ HalfBuilt'
      BY <1>1, <1>3 DEF Going, Lists, HalfBuilt
  <2>2. Ending' /\ NotYet'
      BY <1>1, <1>3, <1>8 DEF Going, Ending, NotYet,
         AllEmpty, BrokerEmpty, PairEmpty, PoolEmpty, CacheEmpty
  <2>3. Built'
      BY <1>1, <1>3, <1>8 DEF Going, Built, PairEmpty
  <2> QED
      BY <2>1, <2>2, <2>3
<1> QED
    BY <1>4, <1>5, <1>6, <1>7, <1>9

(* The blocks of the DMA pool are a list of records.                      *)
LEMMA PoolTyped ==
    ASSUME TypeOK
    PROVE  /\ Len(pool.blocks) \in Nat /\ DOMAIN pool.blocks = 1 .. Len(pool.blocks)
           /\ \A i \in DOMAIN pool.blocks :
                pool.blocks[i] \in [pointer : Addr, inUse : BOOLEAN]
           /\ (pool.blocks = <<>> <=> DOMAIN pool.blocks = {})
<1> DEFINE s == pool.blocks
           R == [pointer : Addr, inUse : BOOLEAN]
<1>1. s \in Seq(R)
    BY DEF TypeOK
<1> HIDE DEF s, R
<1>2. Len(s) \in Nat /\ DOMAIN s = 1 .. Len(s) /\ (s = <<>> <=> DOMAIN s = {})
    BY <1>1
<1>3. \A i \in DOMAIN s : s[i] \in R
    BY <1>1
<1> QED
    BY <1>2, <1>3 DEF s, R

(* A free block is in no part; taking it leaves the other blocks where     *)
(* they are.                                                               *)
LEMMA Taken ==
    ASSUME TypeOK, Owners, NEW x \in Addr, NEW who, Allocates(x, who)
    PROVE  /\ x # broker.arena /\ x \notin broker.leases
           /\ x \notin {pair.a, pair.b} /\ x \notin cache.entries
           /\ \A i \in DOMAIN pool.blocks : pool.blocks[i].pointer # x
           /\ held'[x] = who /\ \A y \in Addr \ {x} : held'[y] = held[y]
           /\ manager_ready
           /\ who \in Holder => held' \in [Addr -> Holder]
<1>1. held[x] = "free" /\ held' = [held EXCEPT ![x] = who] /\ manager_ready
    BY DEF Allocates
<1>2. held'[x] = who /\ \A y \in Addr \ {x} : held'[y] = held[y]
    BY <1>1 DEF TypeOK
<1>3. who \in Holder => held' \in [Addr -> Holder]
    BY <1>1 DEF TypeOK
<1> QED
    BY <1>1, <1>2, <1>3 DEF Owners

(* Without a manager nobody has a block.                                   *)
LEMMA NothingHeld ==
    ASSUME LifecycleInv, ~manager_ready
    PROVE  AllEmpty
<1> USE DEF LifecycleInv
<1>1. \A x \in Addr : held[x] = "free"
    BY DEF Bookkeeping
<1>2. BrokerEmpty
    BY <1>1 DEF TypeOK, Owners, BrokerEmpty, Bookkeeping
<1>3. PairEmpty
    BY <1>1 DEF TypeOK, Owners, PairEmpty
<1>4. PoolEmpty
  <2>1. ASSUME NEW i \in DOMAIN pool.blocks PROVE FALSE
      BY <1>1, PoolTyped DEF Owners
  <2> QED
      BY <2>1, PoolTyped DEF PoolEmpty
<1>5. CacheEmpty
    BY <1>1 DEF TypeOK, Owners, CacheEmpty
<1> QED
    BY <1>2, <1>3, <1>4, <1>5 DEF AllEmpty

(* The manager begins, or has begun already; or it fails.                  *)
LEMMA ManagerBeginsStep ==
    ASSUME LifecycleInv, ManagerBegins
    PROVE  LifecycleInv'
<1> USE DEF LifecycleInv
<1>1. CASE manager_ready' = TRUE /\ Then(<<>>)
  <2>1. Going("begin manager") /\ Left' = Left \ {"begin manager"}
        /\ ControlOK' /\ Calls' /\ Pointing'
      BY <1>1, Popped DEF ManagerBegins
  <2>2. UNCHANGED <<held, parts, auto, driver>>
      BY <2>1 DEF ManagerBegins, Going
  <2>3. TypeOK' /\ Owners' /\ DMAIsLent' /\ Bookkeeping'
      BY <1>1, <2>2 DEF TypeOK, Owners, DMAIsLent, Bookkeeping, parts, driver,
         PairEmpty, PoolEmpty, CacheEmpty
  <2>4. Lists' /\ Ending' /\ NotYet' /\ HalfBuilt' /\ Built'
      BY <1>1, <2>1, <2>2 DEF Going, Lists, Ending, NotYet, HalfBuilt, Built, MayPrecede,
         After, PartEnds, Builds, AllEmpty, BrokerEmpty, PairEmpty, PoolEmpty, CacheEmpty,
         parts
  <2> QED
      BY <2>1, <2>3, <2>4
<1>2. CASE ~manager_ready /\ UNCHANGED manager_ready /\ Fails(<<>>)
  <2>1. Unwinding(<<>>, {}) /\ {} \in SUBSET FailSteps
      BY ShortLists DEF Unwinding
  <2>2. Going("begin manager") /\ Left' = {} \cup {"failed"}
        /\ ControlOK' /\ Calls' /\ Pointing'
      BY <1>2, <2>1, Failed DEF ManagerBegins
  <2>3. UNCHANGED <<memory, parts, auto, driver>>
      BY <1>2, <2>2 DEF ManagerBegins, Going, memory
  <2>4. TypeOK' /\ Owners' /\ DMAIsLent' /\ Bookkeeping'
      BY <2>3, MemoryKept DEF TypeOK
  <2>5. AllEmpty
      BY <2>2, NothingHeld, <1>2
  <2>6. Lists' /\ Ending' /\ NotYet' /\ HalfBuilt' /\ Built'
      BY <2>2, <2>3, <2>5 DEF Going, Lists, Ending, NotYet, HalfBuilt, Built,
         PartEnds, Builds, AllEmpty, BrokerEmpty, PairEmpty, PoolEmpty, CacheEmpty, parts
  <2> QED
      BY <2>2, <2>4, <2>6
<1> QED
    BY <1>1, <1>2 DEF ManagerBegins

(* The broker begins, if the configuration wants one.                      *)
LEMMA BrokerBeginsStep ==
    ASSUME LifecycleInv, BrokerBegins
    PROVE  LifecycleInv'
<1> USE DEF LifecycleInv
<1>1. UNCHANGED <<memory, parts, auto>>
    BY DEF BrokerBegins
<1>2. CASE cfg.broker
  <2>1. Doing("begin broker") /\ Then(<<"broker", "arena">>)
      BY <1>2 DEF BrokerBegins
  <2>2. \A t \in Left \ {"begin broker"} : MayPrecede("begin broker", t)
      BY <2>1, Rest DEF Going
  <2>3. /\ "broker" \in StepName /\ "arena" \in StepName /\ MayPrecede("broker", "arena")
        /\ \A t \in Left \ {"begin broker"} : MayPrecede("broker", t) /\ MayPrecede("arena", t)
      BY <2>2 DEF MayPrecede, After, StepName, PartEnds, Builds
  <2>4. Going("begin broker") /\ Left' = (Left \ {"begin broker"}) \cup {"broker", "arena"}
        /\ ControlOK' /\ Calls' /\ Pointing'
      BY <1>1, <2>1, <2>3, ReplacedByTwo
  <2>5. TypeOK' /\ Owners' /\ DMAIsLent' /\ Bookkeeping'
      BY <1>1, <2>4, MemoryKept DEF Going, TypeOK
  <2>6. Lists' /\ Ending' /\ NotYet' /\ HalfBuilt' /\ Built'
      BY <1>1, <2>4 DEF Going, Lists, Ending, NotYet, HalfBuilt, Built, MayPrecede,
         After, PartEnds, Builds, AllEmpty, BrokerEmpty, PairEmpty, PoolEmpty, CacheEmpty,
         memory, parts
  <2> QED
      BY <2>4, <2>5, <2>6
<1>3. CASE ~cfg.broker
  <2>1. Going("begin broker") /\ Left' = Left \ {"begin broker"}
        /\ ControlOK' /\ Calls' /\ Pointing'
      BY <1>1, <1>3, Popped DEF BrokerBegins
  <2>2. TypeOK' /\ Owners' /\ DMAIsLent' /\ Bookkeeping'
      BY <1>1, <2>1, MemoryKept DEF Going, TypeOK
  <2>3. Lists' /\ Ending' /\ NotYet' /\ HalfBuilt' /\ Built'
      BY <1>1, <1>3, <2>1 DEF Going, Lists, Ending, NotYet, HalfBuilt, Built, MayPrecede,
         After, PartEnds, Builds, AllEmpty, BrokerEmpty, PairEmpty, PoolEmpty, CacheEmpty,
         memory, parts
  <2> QED
      BY <2>1, <2>2, <2>3
<1> QED
    BY <1>2, <1>3

(* The broker takes the block of its tables.                               *)
LEMMA ArenaTakenStep ==
    ASSUME LifecycleInv, ArenaTaken
    PROVE  LifecycleInv'
<1> USE DEF LifecycleInv
<1>1. Going("arena") /\ Left' = Left \ {"arena"} /\ ControlOK' /\ Calls' /\ Pointing'
    BY Popped DEF ArenaTaken
<1>2. PICK x \in Addr : Allocates(x, "control")
                        /\ broker' = [begun |-> TRUE, arena |-> x, leases |-> {}]
    BY DEF ArenaTaken
<1>3. UNCHANGED <<manager_ready, pair, pool, cache, auto>> /\ manager_ready
      /\ held[x] = "free" /\ held' = [held EXCEPT ![x] = "control"]
    BY <1>2 DEF ArenaTaken, Allocates
<1>4. BrokerEmpty
    BY <1>1 DEF Going, MayPrecede, NotYet, AllEmpty, Builds, Lists, PartEnds
<1>5. TypeOK'
  <2>1. held' \in [Addr -> Holder]
      BY <1>2, Taken DEF Holder
  <2>2. broker' \in [begun : BOOLEAN, arena : Addr \cup {Null}, leases : SUBSET Addr]
        /\ broker'.begun /\ broker'.arena # Null
      BY <1>2, LifecycleConstants
  <2> QED
      BY <1>1, <1>3, <2>1, <2>2 DEF TypeOK, Going, driver
<1>6. Owners'
  <2>1. /\ x \notin {pair.a, pair.b} /\ x \notin cache.entries
        /\ \A i \in DOMAIN pool.blocks : pool.blocks[i].pointer # x
        /\ held'[x] = "control" /\ \A y \in Addr \ {x} : held'[y] = held[y]
      BY <1>2, Taken
  <2>2. broker.arena = Null
      BY <1>4 DEF BrokerEmpty, TypeOK
  <2> QED
      BY <1>2, <1>3, <1>4, <2>1, <2>2, LifecycleConstants DEF Owners, BrokerEmpty
<1>7. DMAIsLent' /\ Bookkeeping'
    BY <1>1, <1>2, <1>3 DEF DMAIsLent, Bookkeeping, Going, driver, TypeOK,
       PairEmpty, PoolEmpty, CacheEmpty
<1>8. Lists' /\ Ending' /\ NotYet' /\ HalfBuilt' /\ Built'
  <2>1. Lists'
      BY <1>1, <1>2, <1>3 DEF Going, Lists, MayPrecede, After, PartEnds, Builds
  <2>2. Ending'
      BY <1>1, <1>2, <1>3 DEF Going, Lists, Ending, MayPrecede, After, PartEnds, Builds,
         AllEmpty, BrokerEmpty, PairEmpty, PoolEmpty, CacheEmpty
  <2>3. NotYet'
      BY <1>1, <1>2, <1>3 DEF Going, Lists, Ending, NotYet, MayPrecede, After, PartEnds,
         Builds, AllEmpty, BrokerEmpty, PairEmpty, PoolEmpty, CacheEmpty
  <2>4. HalfBuilt'
      BY <1>1, <1>2, <1>3 DEF Going, Lists, NotYet, HalfBuilt, MayPrecede, After, PartEnds,
         Builds, AllEmpty, BrokerEmpty, PairEmpty, PoolEmpty, CacheEmpty
  <2>5. Built'
      BY <1>1, <1>2, <1>3 DEF Going, Lists, Ending, NotYet, HalfBuilt, Built, MayPrecede,
         After, PartEnds, Builds, AllEmpty, BrokerEmpty, PairEmpty, PoolEmpty, CacheEmpty
  <2> QED
      BY <2>1, <2>2, <2>3, <2>4, <2>5
<1> QED
    BY <1>1, <1>5, <1>6, <1>7, <1>8

(* The asset cache begins, or fails without a manager.                     *)
LEMMA CacheBeginsStep ==
    ASSUME LifecycleInv, CacheBegins
    PROVE  LifecycleInv'
<1> USE DEF LifecycleInv
<1>1. UNCHANGED <<manager_ready, broker, pair, pool, auto>>
      /\ held' = IF cache.managed THEN Released(cache.entries) ELSE held
    BY DEF CacheBegins
<1>2. held' \in [Addr -> Holder]
    BY <1>1 DEF TypeOK, Released, Holder
<1>3. CASE manager_ready
  <2>1. cache' = [managed |-> TRUE, entries |-> {}]
        /\ Going("begin assets") /\ Left' = Left \ {"begin assets"}
        /\ ControlOK' /\ Calls' /\ Pointing'
      BY <1>1, <1>3, Popped DEF CacheBegins
  <2>2. TypeOK'
    <3>1. UNCHANGED <<holds, stale>> /\ TypeOK
        BY <2>1 DEF Going, driver
    <3> HIDE DEF LifecycleInv
    <3>2. cache' \in [managed : BOOLEAN, entries : SUBSET Addr]
        BY <2>1
    <3> QED
        BY <1>1, <1>2, <3>1, <3>2 DEF TypeOK
  <2>3. Owners'
    <3>1. \A x \in Addr : held'[x] = IF cache.managed /\ x \in cache.entries
                                    THEN "free" ELSE held[x]
      <4>1. held = [x \in Addr |-> held[x]]
          BY DEF TypeOK
      <4>2. held' = IF cache.managed
                    THEN [x \in Addr |-> IF x \in cache.entries THEN "free" ELSE held[x]]
                    ELSE held
          BY <1>1, <1>3 DEF Released
      <4> HIDE DEF LifecycleInv
      <4> QED
          BY <4>1, <4>2
    <3>2. cache.managed \/ cache.entries = {}
        BY DEF Bookkeeping, CacheEmpty
    <3>3. cache'.entries = {} /\ Owners
        BY <2>1
    <3> HIDE DEF LifecycleInv
    <3> QED
        BY <1>1, <3>1, <3>2, <3>3 DEF Owners
  <2>4. DMAIsLent' /\ Bookkeeping'
      BY <1>1, <1>3, <2>1 DEF DMAIsLent, Bookkeeping, Released, Going, driver,
         PairEmpty, PoolEmpty, CacheEmpty
  <2>5. Lists' /\ Ending' /\ NotYet' /\ HalfBuilt' /\ Built'
    <3>1. Lists'
        BY <1>1, <2>1 DEF Going, Lists, MayPrecede, After, PartEnds, Builds
    <3>2. Ending'
        BY <1>1, <2>1 DEF Going, Lists, Ending, MayPrecede, After, PartEnds, Builds,
           AllEmpty, BrokerEmpty, PairEmpty, PoolEmpty, CacheEmpty
    <3>3. NotYet'
        BY <1>1, <2>1 DEF Going, Lists, Ending, NotYet, MayPrecede, After, PartEnds, Builds,
           AllEmpty, BrokerEmpty, PairEmpty, PoolEmpty, CacheEmpty
    <3>4. HalfBuilt'
        BY <1>1, <2>1 DEF Going, Lists, NotYet, HalfBuilt, MayPrecede, After, PartEnds,
           Builds, AllEmpty, BrokerEmpty, PairEmpty, PoolEmpty, CacheEmpty
    <3>5. Built'
        BY <1>1, <2>1 DEF Going, Lists, Ending, NotYet, HalfBuilt, Built, MayPrecede, After,
           PartEnds, Builds, AllEmpty, BrokerEmpty, PairEmpty, PoolEmpty, CacheEmpty
    <3> QED
        BY <3>1, <3>2, <3>3, <3>4, <3>5
  <2> QED
      BY <2>1, <2>2, <2>3, <2>4, <2>5
<1>4. CASE ~manager_ready
  <2>1. {"broker", "manager"} \in SUBSET FailSteps
      BY DEF FailSteps, PartEnds
  <2>2. cache' = NoCache /\ Doing("begin assets") /\ Fails(<<"broker", "manager">>)
      BY <1>4 DEF CacheBegins
  <2>3. Going("begin assets") /\ Left' = {"broker", "manager"} \cup {"failed"}
        /\ ControlOK' /\ Calls' /\ Pointing'
      BY <1>1, <2>1, <2>2, UnwindLists, Failed
  <2>4. AllEmpty
      BY <1>4, NothingHeld
  <2>5. \A x \in Addr : held'[x] = held[x]
      BY <1>1, <1>4 DEF Released
  <2>6. TypeOK'
    <3>1. UNCHANGED <<holds, stale>> /\ TypeOK
        BY <2>3 DEF Going, driver
    <3> HIDE DEF LifecycleInv
    <3>2. cache' \in [managed : BOOLEAN, entries : SUBSET Addr]
        BY <2>2 DEF NoCache
    <3> QED
        BY <1>1, <1>2, <3>1, <3>2 DEF TypeOK
  <2>7. Owners'
      BY <1>1, <2>2, <2>4, <2>5, OwnersSame DEF AllEmpty, CacheEmpty, NoCache
  <2>8. DMAIsLent' /\ Bookkeeping'
      BY <1>1, <2>2, <2>3, <2>5 DEF DMAIsLent, Bookkeeping, Going, driver, NoCache,
         PairEmpty, PoolEmpty, CacheEmpty
  <2>9. Lists' /\ Ending' /\ NotYet' /\ HalfBuilt' /\ Built'
    <3>1. AllEmpty'
        BY <1>1, <2>2, <2>4 DEF AllEmpty, BrokerEmpty, PairEmpty, PoolEmpty, CacheEmpty,
           NoCache
    <3> QED
        BY <1>1, <2>3, <3>1 DEF Going, Lists, Ending, NotYet, HalfBuilt, Built,
           PartEnds, Builds, AllEmpty
  <2> QED
      BY <2>3, <2>6, <2>7, <2>8, <2>9
<1> QED
    BY <1>3, <1>4

(* The framebuffers begin, if the configuration wants any.                 *)
LEMMA PairBeginsStep ==
    ASSUME LifecycleInv, PairBegins
    PROVE  LifecycleInv'
<1> USE DEF LifecycleInv
<1>1. CASE cfg.frames # NoFrames
  <2>1. /\ held' = IF pair.managed THEN Released({pair.a, pair.b}) ELSE held
        /\ pair' = [NoPair EXCEPT !.managed = TRUE, !.dims = cfg.frames]
        /\ Doing("begin frames") /\ Then(<<"frame a", "frame b">>)
        /\ UNCHANGED <<manager_ready, broker, pool, cache, auto>>
      BY <1>1 DEF PairBegins
  <2>2. \A t \in Left \ {"begin frames"} : MayPrecede("begin frames", t)
      BY <2>1, Rest DEF Going
  <2>3. /\ "frame a" \in StepName /\ "frame b" \in StepName
        /\ MayPrecede("frame a", "frame b")
      BY DEF MayPrecede, After, StepName, PartEnds, Builds
  <2>4. \A t \in Left \ {"begin frames"} :
            MayPrecede("frame a", t) /\ MayPrecede("frame b", t)
      BY <2>2 DEF MayPrecede, After, PartEnds, Builds
  <2>5. /\ Going("begin frames")
        /\ Left' = (Left \ {"begin frames"}) \cup {"frame a", "frame b"}
        /\ ControlOK' /\ Calls' /\ Pointing'
      BY <2>1, <2>3, <2>4, ReplacedByTwo
  <2>6. /\ pair'.managed = TRUE /\ pair'.a = Null /\ pair'.b = Null
        /\ pair'.dims = cfg.frames /\ pair'.a_is_front = TRUE
        /\ pair' \in [managed : BOOLEAN, a : Addr \cup {Null}, b : Addr \cup {Null},
                      dims : Dims \cup {NoFrames}, a_is_front : BOOLEAN]
      BY <2>1 DEF NoPair, ControlOK
  <2>7. TypeOK'
    <3>1. held' \in [Addr -> Holder]
        BY <2>1 DEF TypeOK, Released, Holder
    <3> QED
        BY <2>1, <2>5, <2>6, <3>1 DEF TypeOK, Going, driver
  <2>8. PairEmpty
      BY <2>5 DEF Going, NotYet, MayPrecede, PartEnds, Builds, Lists
  <2>9. \A x \in Addr : held'[x] = held[x]
      BY <2>1, <2>8, LifecycleConstants DEF Released, PairEmpty
  <2>10. Owners'
      BY <2>1, <2>6, <2>8, <2>9, OwnersSame DEF PairEmpty
  <2>11. DMAIsLent' /\ Bookkeeping'
    <3>1. DMAIsLent'
        BY <2>1, <2>5, <2>6, <2>9 DEF DMAIsLent, Bookkeeping, Going, driver, PairEmpty,
           PoolEmpty, CacheEmpty
    <3>2. Bookkeeping'
        BY <2>1, <2>5, <2>6, <2>9 DEF DMAIsLent, Bookkeeping, Going, driver, PairEmpty,
           PoolEmpty, CacheEmpty
    <3> QED
        BY <3>1, <3>2
  <2>12. Lists' /\ Ending' /\ NotYet' /\ HalfBuilt' /\ Built'
    <3>1. Lists'
        BY <1>1, <2>1, <2>5, <2>6 DEF Going, Lists, MayPrecede, After, PartEnds, Builds
    <3>2. Ending'
        BY <1>1, <2>1, <2>5, <2>6 DEF Going, Lists, Ending, MayPrecede, After, PartEnds,
           Builds, AllEmpty, BrokerEmpty, PairEmpty, PoolEmpty, CacheEmpty
    <3>3. NotYet'
        BY <1>1, <2>1, <2>5, <2>6 DEF Going, Lists, Ending, NotYet, MayPrecede, After,
           PartEnds, Builds, AllEmpty, BrokerEmpty, PairEmpty, PoolEmpty, CacheEmpty
    <3>4. HalfBuilt'
        BY <1>1, <2>1, <2>5, <2>6 DEF Going, Lists, NotYet, HalfBuilt, MayPrecede, After,
           PartEnds, Builds, AllEmpty, BrokerEmpty, PairEmpty, PoolEmpty, CacheEmpty
    <3>5. Built'
        BY <1>1, <2>1, <2>5, <2>6 DEF Going, Lists, Ending, NotYet, HalfBuilt, Built,
           MayPrecede, After, PartEnds, Builds, AllEmpty, BrokerEmpty, PairEmpty, PoolEmpty,
           CacheEmpty
    <3> QED
        BY <3>1, <3>2, <3>3, <3>4, <3>5
  <2> QED
      BY <2>5, <2>7, <2>10, <2>11, <2>12
<1>2. CASE cfg.frames = NoFrames
  <2>1. UNCHANGED <<memory, parts, auto>>
      BY <1>2 DEF PairBegins, memory, parts
  <2>2. Going("begin frames") /\ Left' = Left \ {"begin frames"}
        /\ ControlOK' /\ Calls' /\ Pointing'
      BY <1>2, <2>1, Popped DEF PairBegins
  <2>3. TypeOK' /\ Owners' /\ DMAIsLent' /\ Bookkeeping'
      BY <2>1, <2>2, MemoryKept DEF Going, TypeOK
  <2>4. Lists' /\ Ending' /\ NotYet' /\ HalfBuilt' /\ Built'
    <3>1. Lists'
        BY <1>2, <2>1, <2>2 DEF Going, Lists, MayPrecede, After, PartEnds, Builds, memory,
           parts
    <3>2. Ending'
        BY <1>2, <2>1, <2>2 DEF Going, Lists, Ending, MayPrecede, After, PartEnds, Builds,
           AllEmpty, BrokerEmpty, PairEmpty, PoolEmpty, CacheEmpty, memory, parts
    <3>3. NotYet'
        BY <1>2, <2>1, <2>2 DEF Going, Lists, Ending, NotYet, MayPrecede, After, PartEnds,
           Builds, AllEmpty, BrokerEmpty, PairEmpty, PoolEmpty, CacheEmpty, memory, parts
    <3>4. HalfBuilt'
        BY <1>2, <2>1, <2>2 DEF Going, Lists, NotYet, HalfBuilt, MayPrecede, After,
           PartEnds, Builds, AllEmpty, BrokerEmpty, PairEmpty, PoolEmpty, CacheEmpty, memory,
           parts
    <3>5. Built'
        BY <1>2, <2>1, <2>2 DEF Going, Lists, Ending, NotYet, HalfBuilt, Built, MayPrecede,
           After, PartEnds, Builds, AllEmpty, BrokerEmpty, PairEmpty, PoolEmpty, CacheEmpty,
           memory, parts
    <3> QED
        BY <3>1, <3>2, <3>3, <3>4, <3>5
  <2> QED
      BY <2>2, <2>3, <2>4
<1> QED
    BY <1>1, <1>2

(* The first framebuffer is taken.                                         *)
LEMMA FrameAStep ==
    ASSUME LifecycleInv, FrameA
    PROVE  LifecycleInv'
<1> USE DEF LifecycleInv
<1>1. Going("frame a") /\ Left' = Left \ {"frame a"} /\ ControlOK' /\ Calls' /\ Pointing'
    BY Popped DEF FrameA, TypeOK
<1>2. PICK x \in Addr : Allocates(x, "frame") /\ pair' = [pair EXCEPT !.a = x]
    BY DEF FrameA
<1>3. UNCHANGED <<manager_ready, broker, pool, cache>> /\ UNCHANGED auto
    BY DEF FrameA
<1>4. /\ pair'.a = x /\ pair'.b = pair.b /\ pair'.managed = pair.managed
      /\ pair'.dims = pair.dims /\ pair'.a_is_front = pair.a_is_front
      /\ pair' \in [managed : BOOLEAN, a : Addr \cup {Null}, b : Addr \cup {Null},
                    dims : Dims \cup {NoFrames}, a_is_front : BOOLEAN]
    BY <1>2 DEF TypeOK
<1>5. /\ x # broker.arena /\ x \notin broker.leases
      /\ x \notin {pair.a, pair.b} /\ x \notin cache.entries
      /\ \A i \in DOMAIN pool.blocks : pool.blocks[i].pointer # x
      /\ held'[x] = "frame" /\ \A y \in Addr \ {x} : held'[y] = held[y]
      /\ manager_ready /\ held' \in [Addr -> Holder] /\ x # Null
    BY <1>2, Taken, LifecycleConstants DEF Holder
<1>6. pair.a = Null /\ pair.managed /\ pair.dims = cfg.frames /\ cfg.frames # NoFrames
      /\ pair.b = Null
    BY <1>1 DEF Going, HalfBuilt, NotYet, MayPrecede, PartEnds, Builds, Lists, PairEmpty,
       After
<1>7. TypeOK'
    BY <1>1, <1>3, <1>4, <1>5 DEF TypeOK, Going, driver
<1>8. Owners'
    BY <1>3, <1>4, <1>5, <1>6, LifecycleConstants DEF Owners
<1>9. DMAIsLent' /\ Bookkeeping'
    BY <1>1, <1>3, <1>4, <1>5, <1>6 DEF DMAIsLent, Bookkeeping, Going, driver,
       TypeOK, PairEmpty, PoolEmpty, CacheEmpty
<1>10. Lists' /\ Ending' /\ NotYet' /\ HalfBuilt' /\ Built'
  <2>1. auto'.ready = auto.ready /\ auto'.dma = auto.dma /\ auto'.frames = auto.frames
      BY <1>3 DEF TypeOK
  <2>2. Lists'
      BY <1>1, <1>3, <1>4, <1>5, <1>6, <2>1 DEF Going, Lists, MayPrecede, After, PartEnds,
         Builds
  <2>3. Ending'
      BY <1>1, <1>3, <1>4, <1>5, <1>6, <2>1 DEF Going, Lists, Ending, MayPrecede, After,
         PartEnds, Builds, AllEmpty, BrokerEmpty, PairEmpty, PoolEmpty, CacheEmpty
  <2>4. NotYet'
      BY <1>1, <1>3, <1>4, <1>5, <1>6, <2>1 DEF Going, Lists, Ending, NotYet, MayPrecede,
         After, PartEnds, Builds, AllEmpty, BrokerEmpty, PairEmpty, PoolEmpty, CacheEmpty
  <2>5. HalfBuilt'
      BY <1>1, <1>3, <1>4, <1>5, <1>6, <2>1 DEF Going, Lists, NotYet, HalfBuilt, MayPrecede,
         After, PartEnds, Builds, AllEmpty, BrokerEmpty, PairEmpty, PoolEmpty, CacheEmpty
  <2>6. Built'
      BY <1>1, <1>3, <1>4, <1>5, <1>6, <2>1 DEF Going, Lists, Ending, NotYet, HalfBuilt,
         Built, MayPrecede, After, PartEnds, Builds, AllEmpty, BrokerEmpty, PairEmpty,
         PoolEmpty, CacheEmpty
  <2> QED
      BY <2>2, <2>3, <2>4, <2>5, <2>6
<1> QED
    BY <1>1, <1>7, <1>8, <1>9, <1>10

(* The second framebuffer is taken.                                        *)
LEMMA FrameBStep ==
    ASSUME LifecycleInv, FrameB
    PROVE  LifecycleInv'
<1> USE DEF LifecycleInv
<1>1. Going("frame b") /\ Left' = Left \ {"frame b"} /\ ControlOK' /\ Calls' /\ Pointing'
    BY Popped DEF FrameB, TypeOK
<1>2. PICK x \in Addr : Allocates(x, "frame") /\ pair' = [pair EXCEPT !.b = x]
    BY DEF FrameB
<1>3. UNCHANGED <<manager_ready, broker, pool, cache>>
      /\ auto' = [auto EXCEPT !.frames = TRUE]
    BY DEF FrameB
<1>4. /\ pair'.b = x /\ pair'.a = pair.a /\ pair'.managed = pair.managed
      /\ pair'.dims = pair.dims /\ pair'.a_is_front = pair.a_is_front
      /\ pair' \in [managed : BOOLEAN, a : Addr \cup {Null}, b : Addr \cup {Null},
                    dims : Dims \cup {NoFrames}, a_is_front : BOOLEAN]
    BY <1>2 DEF TypeOK
<1>5. /\ x # broker.arena /\ x \notin broker.leases
      /\ x \notin {pair.a, pair.b} /\ x \notin cache.entries
      /\ \A i \in DOMAIN pool.blocks : pool.blocks[i].pointer # x
      /\ held'[x] = "frame" /\ \A y \in Addr \ {x} : held'[y] = held[y]
      /\ manager_ready /\ held' \in [Addr -> Holder] /\ x # Null
    BY <1>2, Taken, LifecycleConstants DEF Holder
<1>6. pair.b = Null /\ pair.managed /\ pair.dims = cfg.frames /\ cfg.frames # NoFrames
      /\ pair.a # Null
    BY <1>1 DEF Going, HalfBuilt, NotYet, MayPrecede, PartEnds, Builds, Lists, PairEmpty,
       After
<1>7. TypeOK'
    BY <1>1, <1>3, <1>4, <1>5 DEF TypeOK, Going, driver
<1>8. Owners'
    BY <1>3, <1>4, <1>5, <1>6, LifecycleConstants DEF Owners
<1>9. DMAIsLent' /\ Bookkeeping'
    BY <1>1, <1>3, <1>4, <1>5, <1>6 DEF DMAIsLent, Bookkeeping, Going, driver,
       TypeOK, PairEmpty, PoolEmpty, CacheEmpty
<1>10. Lists' /\ Ending' /\ NotYet' /\ HalfBuilt' /\ Built'
  <2>1. auto'.ready = auto.ready /\ auto'.dma = auto.dma /\ auto'.frames
      BY <1>3 DEF TypeOK
  <2>2. Lists'
      BY <1>1, <1>3, <1>4, <1>5, <1>6, <2>1 DEF Going, Lists, MayPrecede, After, PartEnds,
         Builds
  <2>3. Ending'
      BY <1>1, <1>3, <1>4, <1>5, <1>6, <2>1 DEF Going, Lists, Ending, MayPrecede, After,
         PartEnds, Builds, AllEmpty, BrokerEmpty, PairEmpty, PoolEmpty, CacheEmpty
  <2>4. NotYet'
      BY <1>1, <1>3, <1>4, <1>5, <1>6, <2>1 DEF Going, Lists, Ending, NotYet, MayPrecede,
         After, PartEnds, Builds, AllEmpty, BrokerEmpty, PairEmpty, PoolEmpty, CacheEmpty
  <2>5. HalfBuilt'
      BY <1>1, <1>3, <1>4, <1>5, <1>6, <2>1 DEF Going, Lists, NotYet, HalfBuilt, MayPrecede,
         After, PartEnds, Builds, AllEmpty, BrokerEmpty, PairEmpty, PoolEmpty, CacheEmpty
  <2>6. Built'
      BY <1>1, <1>3, <1>4, <1>5, <1>6, <2>1 DEF Going, Lists, Ending, NotYet, HalfBuilt,
         Built, MayPrecede, After, PartEnds, Builds, AllEmpty, BrokerEmpty, PairEmpty,
         PoolEmpty, CacheEmpty
  <2> QED
      BY <2>2, <2>3, <2>4, <2>5, <2>6
<1> QED
    BY <1>1, <1>7, <1>8, <1>9, <1>10

(* There is no block for a framebuffer.                                    *)
LEMMA FrameFailsStep ==
    ASSUME LifecycleInv, FrameFails
    PROVE  LifecycleInv'
<1> USE DEF LifecycleInv
<1> DEFINE s == Head(todo)
<1>1. /\ s \in {"frame a", "frame b"} /\ Doing(s)
      /\ Fails(<<"frames", "assets", "broker", "manager">>)
      /\ UNCHANGED <<memory, parts, auto>>
    BY DEF FrameFails
<1> HIDE DEF s
<1>2. {"frames", "assets", "broker", "manager"} \in SUBSET FailSteps
    BY DEF FailSteps, PartEnds
<1>3. /\ Going(s) /\ Left' = {"frames", "assets", "broker", "manager"} \cup {"failed"}
      /\ ControlOK' /\ Calls' /\ Pointing'
    BY <1>1, <1>2, UnwindLists, Failed
<1>4. TypeOK' /\ Owners' /\ DMAIsLent' /\ Bookkeeping'
    BY <1>1, <1>3, MemoryKept DEF Going, TypeOK
<1>5. Lists' /\ Ending' /\ NotYet' /\ HalfBuilt' /\ Built'
    BY <1>1, <1>3 DEF Going, Lists, Ending, NotYet, HalfBuilt, Built, MayPrecede,
       After, PartEnds, Builds, AllEmpty, BrokerEmpty, PairEmpty, PoolEmpty, CacheEmpty,
       memory, parts
<1> QED
    BY <1>3, <1>4, <1>5

(* The DMA pool begins, if the configuration wants one.                    *)
LEMMA PoolBeginsStep ==
    ASSUME LifecycleInv, PoolBegins
    PROVE  LifecycleInv'
<1> USE DEF LifecycleInv
<1>1. CASE cfg.dma # 0
  <2>1. /\ held' = IF pool.managed THEN Released(Pointers) ELSE held
        /\ pool' = [managed |-> TRUE, blocks |-> <<>>]
        /\ Doing("begin dma") /\ Then(<<"dma block">>)
        /\ UNCHANGED <<manager_ready, broker, pair, cache, auto>>
      BY <1>1 DEF PoolBegins
  <2>2. \A t \in Left \ {"begin dma"} : MayPrecede("begin dma", t)
      BY <2>1, Rest DEF Going
  <2>3. /\ "dma block" \in StepName
        /\ \A t \in Left \ {"begin dma"} : MayPrecede("dma block", t)
      BY <2>2 DEF MayPrecede, After, StepName, PartEnds, Builds
  <2>4. Going("begin dma") /\ Left' = (Left \ {"begin dma"}) \cup {"dma block"}
        /\ ControlOK' /\ Calls' /\ Pointing'
      BY <2>1, <2>3, ReplacedByOne
  <2>5. PoolEmpty
      BY <2>4 DEF Going, NotYet, MayPrecede, PartEnds, Builds, Lists
  <2>6. \A x \in Addr : held'[x] = held[x]
    <3>1. Pointers = {}
        BY <2>5, PoolTyped DEF PoolEmpty, Pointers
    <3> QED
        BY <2>1, <3>1 DEF Released
  <2>7. TypeOK'
    <3>1. held' \in [Addr -> Holder]
        BY <2>1 DEF TypeOK, Released, Holder
    <3>2. pool'.managed = TRUE /\ pool'.blocks = <<>>
        BY <2>1
    <3>3. <<>> \in Seq([pointer : Addr, inUse : BOOLEAN])
        OBVIOUS
    <3>4. pool'.managed \in BOOLEAN /\ pool'.blocks \in Seq([pointer : Addr, inUse : BOOLEAN])
        BY <3>2, <3>3
    <3>5. UNCHANGED <<manager_ready, broker, pair, cache, auto, holds, stale>> /\ TypeOK
        BY <2>1, <2>4 DEF Going, driver
    <3>6. pool' \in [managed : BOOLEAN, blocks : Seq([pointer : Addr, inUse : BOOLEAN])]
        BY <2>1, <3>3
    <3> HIDE DEF LifecycleInv
    <3> QED
        BY <3>1, <3>5, <3>6 DEF TypeOK
  <2>8. Owners'
      BY <2>1, <2>5, <2>6, OwnersSame DEF PoolEmpty
  <2>9. DMAIsLent' /\ Bookkeeping'
      BY <2>1, <2>4, <2>6 DEF DMAIsLent, Bookkeeping, Going, driver,
         PairEmpty, PoolEmpty, CacheEmpty
  <2>10. Len(<<>>) < cfg.dma
      BY <1>1 DEF ControlOK
  <2>11. Lists' /\ Ending' /\ NotYet' /\ HalfBuilt' /\ Built'
    <3>1. Lists'
        BY <1>1, <2>1, <2>4, <2>10 DEF Going, Lists, MayPrecede, After, PartEnds, Builds
    <3>2. Ending'
        BY <1>1, <2>1, <2>4, <2>10 DEF Going, Lists, Ending, MayPrecede, After, PartEnds,
           Builds, AllEmpty, BrokerEmpty, PairEmpty, PoolEmpty, CacheEmpty
    <3>3. NotYet'
        BY <1>1, <2>1, <2>4, <2>10 DEF Going, Lists, Ending, NotYet, MayPrecede, After,
           PartEnds, Builds, AllEmpty, BrokerEmpty, PairEmpty, PoolEmpty, CacheEmpty
    <3>4. HalfBuilt'
        BY <1>1, <2>1, <2>4, <2>10 DEF Going, Lists, NotYet, HalfBuilt, MayPrecede, After,
           PartEnds, Builds, AllEmpty, BrokerEmpty, PairEmpty, PoolEmpty, CacheEmpty
    <3>5. Built'
        BY <1>1, <2>1, <2>4, <2>10 DEF Going, Lists, Ending, NotYet, HalfBuilt, Built,
           MayPrecede, After, PartEnds, Builds, AllEmpty, BrokerEmpty, PairEmpty, PoolEmpty,
           CacheEmpty
    <3> QED
        BY <3>1, <3>2, <3>3, <3>4, <3>5
  <2> QED
      BY <2>4, <2>7, <2>8, <2>9, <2>11
<1>2. CASE cfg.dma = 0
  <2>1. UNCHANGED <<memory, parts, auto>>
      BY <1>2 DEF PoolBegins, memory, parts
  <2>2. Going("begin dma") /\ Left' = Left \ {"begin dma"}
        /\ ControlOK' /\ Calls' /\ Pointing'
      BY <1>2, <2>1, Popped DEF PoolBegins
  <2>3. TypeOK' /\ Owners' /\ DMAIsLent' /\ Bookkeeping'
      BY <2>1, <2>2, MemoryKept DEF Going, TypeOK
  <2>4. Len(pool.blocks) = 0 /\ ~auto.dma
    <3>1. PoolEmpty /\ ~auto.dma
        BY <2>2 DEF Going, NotYet, MayPrecede, PartEnds, Builds, Lists, HalfBuilt
    <3>2. Len(<<>>) = 0
        OBVIOUS
    <3> QED
        BY <3>1, <3>2 DEF PoolEmpty
  <2>5. Lists' /\ Ending' /\ NotYet' /\ HalfBuilt' /\ Built'
    <3>1. Lists' /\ HalfBuilt'
        BY <2>1, <2>2 DEF Going, Lists, HalfBuilt, MayPrecede, After, PartEnds, Builds,
           memory, parts
    <3>2. Ending' /\ NotYet'
        BY <2>1, <2>2 DEF Going, Lists, Ending, NotYet, MayPrecede,
           After, PartEnds, Builds, AllEmpty, BrokerEmpty, PairEmpty, PoolEmpty, CacheEmpty,
           memory, parts
    <3>3. Built'
        BY <1>2, <2>1, <2>2, <2>4 DEF Going, Built, PairEmpty, MayPrecede,
           PartEnds, Builds, memory, parts
    <3> QED
        BY <3>1, <3>2, <3>3
  <2> QED
      BY <2>2, <2>3, <2>5
<1> QED
    BY <1>1, <1>2

(* The DMA pool takes a block, the last or not.                            *)
LEMMA DMABlockStep ==
    ASSUME LifecycleInv, DMABlock
    PROVE  LifecycleInv'
<1> USE DEF LifecycleInv
<1>1. PICK x \in Addr : /\ Allocates(x, "dma")
                        /\ pool' = [pool EXCEPT !.blocks =
                                      Append(@, [pointer |-> x, inUse |-> FALSE])]
    BY DEF DMABlock
<1> DEFINE s == pool.blocks
           n == Len(pool.blocks)
           e == [pointer |-> x, inUse |-> FALSE]
<1>2. /\ UNCHANGED <<manager_ready, broker, pair, cache>>
      /\ Doing("dma block") /\ Going("dma block")
    BY Rest DEF DMABlock
<1>3. /\ n \in Nat /\ DOMAIN s = 1 .. n
      /\ \A i \in 1 .. n : s[i] \in [pointer : Addr, inUse : BOOLEAN]
    BY PoolTyped
<1>4. /\ pool'.managed = pool.managed /\ Len(pool'.blocks) = n + 1
      /\ pool'.blocks \in Seq([pointer : Addr, inUse : BOOLEAN])
      /\ DOMAIN pool'.blocks = 1 .. n + 1
      /\ pool'.blocks[n + 1] = e /\ \A i \in 1 .. n : pool'.blocks[i] = s[i]
  <2>1. pool'.managed = pool.managed /\ pool'.blocks = Append(s, e)
      BY <1>1 DEF TypeOK
  <2>2. s \in Seq([pointer : Addr, inUse : BOOLEAN]) /\ e \in [pointer : Addr, inUse : BOOLEAN]
      BY DEF TypeOK
  <2> HIDE DEF s, e
  <2>3. /\ Append(s, e) \in Seq([pointer : Addr, inUse : BOOLEAN])
        /\ Len(Append(s, e)) = Len(s) + 1 /\ DOMAIN Append(s, e) = 1 .. Len(s) + 1
        /\ Append(s, e)[Len(s) + 1] = e
        /\ \A i \in 1 .. Len(s) : Append(s, e)[i] = s[i]
      BY <2>2
  <2> QED
      BY <2>1, <2>3 DEF s, e
<1>5. /\ x # broker.arena /\ x \notin broker.leases
      /\ x \notin {pair.a, pair.b} /\ x \notin cache.entries
      /\ \A i \in DOMAIN pool.blocks : pool.blocks[i].pointer # x
      /\ held'[x] = "dma" /\ \A y \in Addr \ {x} : held'[y] = held[y]
      /\ manager_ready /\ held' \in [Addr -> Holder]
    BY <1>1, Taken DEF Holder
<1>6. auto'.ready = auto.ready /\ auto'.frames = auto.frames
      /\ auto' \in [ready : BOOLEAN, frames : BOOLEAN, dma : BOOLEAN,
                    by : {"nobody", "sketch", "driver"}]
  <2>1. auto \in [ready : BOOLEAN, frames : BOOLEAN, dma : BOOLEAN,
                  by : {"nobody", "sketch", "driver"}]
      BY DEF TypeOK
  <2>2. auto' = [auto EXCEPT !.dma = TRUE] \/ auto' = auto
      BY DEF DMABlock
  <2> HIDE DEF LifecycleInv
  <2> QED
      BY <2>1, <2>2
<1>7. TypeOK'
  <2>1. pool' \in [managed : BOOLEAN, blocks : Seq([pointer : Addr, inUse : BOOLEAN])]
    <3>1. pool' = [managed |-> pool.managed, blocks |-> pool'.blocks]
        BY <1>1 DEF TypeOK
    <3>2. pool.managed \in BOOLEAN
        BY DEF TypeOK
    <3> QED
        BY <1>4, <3>1, <3>2
  <2>2. UNCHANGED <<manager_ready, broker, pair, cache, holds, stale>>
      BY <1>2 DEF Going, driver
  <2> QED
      BY <1>5, <1>6, <2>1, <2>2 DEF TypeOK
<1>8. e.pointer = x /\ pool'.blocks[n + 1].pointer = x
      /\ \A i \in 1 .. n : pool'.blocks[i].pointer = s[i].pointer
    BY <1>4
<1>9. Owners'
  <2>1. \A y \in Addr :
            (\E i \in DOMAIN pool'.blocks : pool'.blocks[i].pointer = y)
              <=> y = x \/ \E i \in DOMAIN s : s[i].pointer = y
    <3> HIDE DEF s, e, n
    <3> QED
        BY <1>3, <1>4, <1>8
  <2>2. \A i, j \in DOMAIN pool'.blocks :
            pool'.blocks[i].pointer = pool'.blocks[j].pointer => i = j
    <3>1. \A i, j \in 1 .. n : s[i].pointer = s[j].pointer => i = j
        BY <1>3 DEF Owners
    <3>2. \A i \in 1 .. n : s[i].pointer # x
        BY <1>3, <1>5
    <3> HIDE DEF s, e, n
    <3> QED
        BY <1>3, <1>4, <1>8, <3>1, <3>2
  <2>3. /\ \A y \in Addr :
            /\ held'[y] = "control" <=> y = broker.arena
            /\ held'[y] = "lease" <=> y \in broker.leases
            /\ held'[y] = "frame" <=> y \in {pair.a, pair.b}
            /\ held'[y] = "asset" <=> y \in cache.entries
            /\ held'[y] = "dma" <=> y = x \/ \E i \in DOMAIN s : s[i].pointer = y
        /\ pair.a = pair.b => pair.a = Null
      BY <1>5 DEF Owners
  <2> HIDE DEF s, e, n
  <2> QED
      BY <1>2, <2>1, <2>2, <2>3 DEF Owners
<1>10. pool.managed /\ Len(pool.blocks) < cfg.dma /\ cfg.dma \in Nat /\ cfg.dma # 0
  <2>1. pool.managed /\ Len(pool.blocks) < cfg.dma
      BY <1>2 DEF Going, HalfBuilt
  <2>2. cfg.dma \in Nat
      BY DEF ControlOK
  <2> QED
      BY <1>3, <2>1, <2>2
<1>11. ~PoolEmpty'
  <2>1. Len(<<>>) = 0
      OBVIOUS
  <2> QED
      BY <1>3, <1>4, <2>1 DEF PoolEmpty
<1>12. DMAIsLent' /\ Bookkeeping'
    BY <1>2, <1>4, <1>5, <1>10 DEF DMAIsLent, Bookkeeping, Going, driver,
       PairEmpty, CacheEmpty
<1>13. CASE n + 1 = cfg.dma
  <2>1. Then(<<>>) /\ auto' = [auto EXCEPT !.dma = TRUE]
      BY <1>4, <1>13 DEF DMABlock
  <2>2. Left' = Left \ {"dma block"} /\ ControlOK' /\ Calls' /\ Pointing' /\ auto'.dma
      BY <1>2, <1>6, <2>1, Popped DEF TypeOK
  <2>3. Lists' /\ Ending' /\ NotYet' /\ HalfBuilt' /\ Built'
    <3>1. Lists' /\ HalfBuilt'
        BY <1>2, <1>4, <1>6, <2>2 DEF Going, Lists, HalfBuilt, MayPrecede, After,
           PartEnds, Builds
    <3>2. Ending' /\ NotYet'
        BY <1>2, <1>4, <1>6, <1>11, <2>2 DEF Going, Lists, Ending, NotYet, MayPrecede,
           After, PartEnds, Builds, AllEmpty, BrokerEmpty, PairEmpty, CacheEmpty
    <3>3. Built'
        BY <1>2, <1>4, <1>6, <1>10, <1>13, <2>2 DEF Going, Built, PairEmpty, MayPrecede,
           PartEnds, Builds
    <3> QED
        BY <3>1, <3>2, <3>3
  <2> QED
      BY <1>7, <1>9, <1>12, <2>2, <2>3
<1>14. CASE n + 1 # cfg.dma
  <2>1. UNCHANGED <<todo, auto>> /\ Left' = Left
      BY <1>4, <1>14 DEF DMABlock, Left
  <2>2. ControlOK' /\ Calls' /\ Pointing'
      BY <1>2, <2>1, ControlKept DEF ControlOK, Lists, Going
  <2>3. n + 1 < cfg.dma
      BY <1>3, <1>10, <1>14
  <2>4. Lists' /\ Ending' /\ NotYet' /\ HalfBuilt' /\ Built'
    <3>1. Lists' /\ HalfBuilt'
        BY <1>2, <1>4, <1>10, <2>1, <2>3 DEF Going, Lists, HalfBuilt
    <3>2. Ending' /\ NotYet'
      <4>1. Left \subseteq {"dma block", "clients", "done"}
          BY <1>2 DEF Going, MayPrecede, After, Builds
      <4> QED
          BY <1>2, <2>1, <4>1 DEF Ending, NotYet
    <3>3. Built'
        BY <1>2, <2>1 DEF Going, Built, PairEmpty
    <3> QED
        BY <3>1, <3>2, <3>3
  <2> QED
      BY <1>7, <1>9, <1>12, <2>2, <2>4
<1> QED
    BY <1>13, <1>14

-----------------------------------------------------------------------------
(* The lists that begin() and end() start with *)

(* What remains of begin() after the parts are ended.                      *)
LEMMA BeginList ==
    /\ BeginSteps \in Seq(StepName) /\ Ordered(BeginSteps)
    /\ StepsOf(BeginSteps) = {"begin manager", "begin broker", "begin assets",
                              "begin frames", "begin dma", "clients", "done"}
<1> DEFINE s == BeginSteps
<1>1. s \in Seq(StepName)
    BY DEF BeginSteps, StepName, Builds
<1>2. DOMAIN s = 1 .. 7 /\ \A i \in 1 .. 7 : i \in {1, 2, 3, 4, 5, 6, 7}
    BY DEF BeginSteps
<1>3. /\ s[1] = "begin manager" /\ s[2] = "begin broker" /\ s[3] = "begin assets"
      /\ s[4] = "begin frames" /\ s[5] = "begin dma" /\ s[6] = "clients" /\ s[7] = "done"
    BY DEF BeginSteps
<1> HIDE DEF s
<1>4. /\ \A t \in {"begin broker", "begin assets", "begin frames", "begin dma", "clients",
                   "done"} : MayPrecede("begin manager", t)
      /\ \A t \in {"begin assets", "begin frames", "begin dma", "clients", "done"} :
            MayPrecede("begin broker", t)
      /\ \A t \in {"begin frames", "begin dma", "clients", "done"} :
            MayPrecede("begin assets", t)
      /\ \A t \in {"begin dma", "clients", "done"} : MayPrecede("begin frames", t)
      /\ \A t \in {"clients", "done"} : MayPrecede("begin dma", t)
      /\ MayPrecede("clients", "done")
    BY DEF MayPrecede, After, Builds, PartEnds
<1>5. Ordered(s)
  <2> SUFFICES ASSUME NEW i \in DOMAIN s, NEW j \in DOMAIN s, i < j
               PROVE  MayPrecede(s[i], s[j])
      BY DEF Ordered
  <2>0. i \in {1, 2, 3, 4, 5, 6, 7} /\ j \in {1, 2, 3, 4, 5, 6, 7}
      BY <1>2
  <2>1. CASE i = 1
    <3>1. s[i] = "begin manager"
        BY <1>3, <2>1
    <3>2. j \in {2, 3, 4, 5, 6, 7}
        BY <2>0, <2>1
    <3>3. s[j] \in {"begin broker", "begin assets", "begin frames", "begin dma", "clients", "done"}
        BY <1>3, <3>2
    <3> QED
        BY <1>4, <3>1, <3>3
  <2>2. CASE i = 2
    <3>1. s[i] = "begin broker"
        BY <1>3, <2>2
    <3>2. j \in {3, 4, 5, 6, 7}
        BY <2>0, <2>2
    <3>3. s[j] \in {"begin assets", "begin frames", "begin dma", "clients", "done"}
        BY <1>3, <3>2
    <3> QED
        BY <1>4, <3>1, <3>3
  <2>3. CASE i = 3
    <3>1. s[i] = "begin assets"
        BY <1>3, <2>3
    <3>2. j \in {4, 5, 6, 7}
        BY <2>0, <2>3
    <3>3. s[j] \in {"begin frames", "begin dma", "clients", "done"}
        BY <1>3, <3>2
    <3> QED
        BY <1>4, <3>1, <3>3
  <2>4. CASE i = 4
    <3>1. s[i] = "begin frames"
        BY <1>3, <2>4
    <3>2. j \in {5, 6, 7}
        BY <2>0, <2>4
    <3>3. s[j] \in {"begin dma", "clients", "done"}
        BY <1>3, <3>2
    <3> QED
        BY <1>4, <3>1, <3>3
  <2>5. CASE i = 5
    <3>1. s[i] = "begin dma"
        BY <1>3, <2>5
    <3>2. j \in {6, 7}
        BY <2>0, <2>5
    <3>3. s[j] \in {"clients", "done"}
        BY <1>3, <3>2
    <3> QED
        BY <1>4, <3>1, <3>3
  <2>6. CASE i = 6
    <3>1. s[i] = "clients"
        BY <1>3, <2>6
    <3>2. j \in {7}
        BY <2>0, <2>6
    <3>3. s[j] \in {"done"}
        BY <1>3, <3>2
    <3> QED
        BY <1>4, <3>1, <3>3
  <2> QED
      BY <2>0, <2>1, <2>2, <2>3, <2>4, <2>5, <2>6
<1>6. StepsOf(s) = {"begin manager", "begin broker", "begin assets",
                    "begin frames", "begin dma", "clients", "done"}
  <2>1. StepsOf(s) = {s[i] : i \in {1, 2, 3, 4, 5, 6, 7}}
    <3>1. DOMAIN s = {1, 2, 3, 4, 5, 6, 7}
        BY <1>2
    <3> QED
        BY <3>1 DEF StepsOf
  <2>2. {s[i] : i \in {1, 2, 3, 4, 5, 6, 7}} = {s[1], s[2], s[3], s[4], s[5], s[6], s[7]}
      OBVIOUS
  <2> QED
      BY <1>3, <2>1, <2>2
<1> QED
    BY <1>1, <1>5, <1>6 DEF s

(* The steps that end the parts, whoever needs to be ended.                *)
LEMMA EndList ==
    /\ EndSteps \in Seq(StepName) /\ Ordered(EndSteps)
    /\ StepsOf(EndSteps) \subseteq PartEnds \cup {"reset", "manager"}
    /\ {"assets", "reset", "manager"} \subseteq StepsOf(EndSteps)
    /\ BrokerReady => "broker" \in StepsOf(EndSteps)
    /\ auto.dma => "dma" \in StepsOf(EndSteps)
    /\ auto.frames => "frames" \in StepsOf(EndSteps)
<1> DEFINE One(c, x) == IF c THEN <<x>> ELSE <<>>
           b == One(BrokerReady, "broker")
           m == One(auto.dma, "dma")
           f == One(auto.frames, "frames")
           e == <<"assets", "reset", "manager">>
<1>1. ASSUME NEW c, NEW x \in StepName
      PROVE  /\ One(c, x) \in Seq(StepName) /\ Ordered(One(c, x))
             /\ StepsOf(One(c, x)) \subseteq {x} /\ (c => x \in StepsOf(One(c, x)))
  <2>1. CASE c
      BY <2>1, ShortLists
  <2>2. CASE ~c
      BY <2>2, ShortLists
  <2> QED
      BY <2>1, <2>2
<1>2. {"broker", "dma", "frames"} \subseteq StepName
    BY DEF StepName, PartEnds
<1>3. /\ b \in Seq(StepName) /\ Ordered(b) /\ StepsOf(b) \subseteq {"broker"}
      /\ m \in Seq(StepName) /\ Ordered(m) /\ StepsOf(m) \subseteq {"dma"}
      /\ f \in Seq(StepName) /\ Ordered(f) /\ StepsOf(f) \subseteq {"frames"}
      /\ BrokerReady => "broker" \in StepsOf(b)
      /\ auto.dma => "dma" \in StepsOf(m)
      /\ auto.frames => "frames" \in StepsOf(f)
  <2> HIDE DEF One
  <2> QED
      BY <1>1, <1>2
<1>4. e \in Seq(StepName) /\ Ordered(e) /\ StepsOf(e) = {"assets", "reset", "manager"}
  <2>1. e \in Seq(StepName)
      BY DEF StepName, PartEnds
  <2>2. DOMAIN e = 1 .. 3 /\ \A i \in 1 .. 3 : i \in {1, 2, 3}
      OBVIOUS
  <2>3. e[1] = "assets" /\ e[2] = "reset" /\ e[3] = "manager"
      OBVIOUS
  <2> HIDE DEF e
  <2>4. MayPrecede("assets", "reset") /\ MayPrecede("assets", "manager")
        /\ MayPrecede("reset", "manager")
      BY DEF MayPrecede, PartEnds, Builds
  <2>5. Ordered(e)
    <3> SUFFICES ASSUME NEW i \in DOMAIN e, NEW j \in DOMAIN e, i < j
                 PROVE  MayPrecede(e[i], e[j])
        BY DEF Ordered
    <3> QED
        BY <2>2, <2>3, <2>4
  <2>6. StepsOf(e) = {"assets", "reset", "manager"}
      BY <2>2, <2>3 DEF StepsOf
  <2> QED
      BY <2>1, <2>5, <2>6
<1>5. EndSteps = ((b \o m) \o f) \o e
    BY DEF EndSteps
<1>6. \A x \in PartEnds, y \in FailSteps : x # y => MayPrecede(x, y)
    BY DEF MayPrecede, PartEnds, FailSteps, Builds
<1> HIDE DEF One, b, m, f, e
<1> DEFINE bm == b \o m
           bmf == bm \o f
<1>7. bm \in Seq(StepName) /\ Ordered(bm) /\ StepsOf(bm) = StepsOf(b) \cup StepsOf(m)
  <2>1. \A x \in StepsOf(b), y \in StepsOf(m) : MayPrecede(x, y)
      BY <1>3, <1>6 DEF PartEnds, FailSteps
  <2> QED
      BY <1>3, <2>1, Concatenated
<1> HIDE DEF bm
<1>8. bmf \in Seq(StepName) /\ Ordered(bmf) /\ StepsOf(bmf) = StepsOf(bm) \cup StepsOf(f)
  <2>1. \A x \in StepsOf(bm), y \in StepsOf(f) : MayPrecede(x, y)
      BY <1>3, <1>6, <1>7 DEF PartEnds, FailSteps
  <2> QED
      BY <1>3, <1>7, <2>1, Concatenated
<1> HIDE DEF bmf
<1>9. /\ bmf \o e \in Seq(StepName) /\ Ordered(bmf \o e)
      /\ StepsOf(bmf \o e) = StepsOf(bmf) \cup StepsOf(e)
  <2>1. \A x \in StepsOf(bmf), y \in StepsOf(e) : MayPrecede(x, y)
      BY <1>3, <1>4, <1>6, <1>7, <1>8 DEF PartEnds, FailSteps
  <2> QED
      BY <1>4, <1>8, <2>1, Concatenated
<1>10. EndSteps = bmf \o e
    BY <1>5 DEF bmf, bm
<1> QED
    BY <1>3, <1>4, <1>7, <1>8, <1>9, <1>10 DEF PartEnds

(* begin() and end() start: everything that has blocks is going to end.    *)
LEMMA Started ==
    ASSUME LifecycleInv, todo = <<>>, auto'.ready = FALSE,
           UNCHANGED <<memory, parts>>,
           todo' = EndSteps \o BeginSteps \/ todo' = EndSteps \o <<"failed">>
    PROVE  /\ todo' \in Seq(StepName) /\ Ordered(todo') /\ todo' # <<>>
           /\ Lists' /\ Ending' /\ NotYet' /\ HalfBuilt' /\ Built'
<1> DEFINE E == StepsOf(EndSteps)
<1>1. /\ EndSteps \in Seq(StepName) /\ Ordered(EndSteps)
      /\ E \subseteq PartEnds \cup {"reset", "manager"}
      /\ {"assets", "reset", "manager"} \subseteq E
      /\ BrokerReady => "broker" \in E
      /\ auto.dma => "dma" \in E
      /\ auto.frames => "frames" \in E
    BY EndList
<1>2. Left = {}
    BY ShortLists DEF Left
<1>3. ~BrokerEmpty => "broker" \in E
  <2>1. ~manager_ready => BrokerEmpty
      BY NothingHeld DEF AllEmpty
  <2>2. broker.begun => broker.arena \in Addr /\ held[broker.arena] = "control"
      BY DEF LifecycleInv, TypeOK, Owners
  <2>3. ~BrokerEmpty => BrokerReady
      BY <2>1, <2>2, LifecycleConstants
         DEF LifecycleInv, BrokerReady, Owned, BrokerEmpty, Bookkeeping
  <2> QED
      BY <1>1, <2>3
<1>4. (~PairEmpty => "frames" \in E) /\ (~PoolEmpty => "dma" \in E)
  <2>1. CASE auto.ready
    <3>1. ~PairEmpty => auto.frames
        BY <1>2, <2>1 DEF LifecycleInv, Built
    <3>2. ~PoolEmpty => auto.dma
      <4>1. Len(pool.blocks) = cfg.dma /\ (auto.dma <=> cfg.dma # 0)
          BY <1>2, <2>1 DEF LifecycleInv, Built
      <4>2. pool.blocks = <<>> <=> Len(pool.blocks) = 0
          BY PoolTyped DEF LifecycleInv
      <4> QED
          BY <4>1, <4>2 DEF PoolEmpty
    <3> QED
        BY <1>1, <3>1, <3>2
  <2>2. CASE ~auto.ready
      BY <2>2 DEF LifecycleInv, Calls, AllEmpty
  <2> QED
      BY <2>1, <2>2
<1>5. /\ BrokerEmpty' = BrokerEmpty /\ PairEmpty' = PairEmpty
      /\ PoolEmpty' = PoolEmpty /\ CacheEmpty' = CacheEmpty
    BY DEF BrokerEmpty, PairEmpty, PoolEmpty, CacheEmpty, parts
<1>6. CASE todo' = EndSteps \o BeginSteps
  <2>1. \A x \in E, y \in StepsOf(BeginSteps) : MayPrecede(x, y)
      BY <1>1, BeginList DEF MayPrecede, PartEnds, Builds
  <2>2. /\ todo' \in Seq(StepName) /\ Ordered(todo')
        /\ Left' = E \cup {"begin manager", "begin broker", "begin assets",
                           "begin frames", "begin dma", "clients", "done"}
      BY <1>1, <1>6, <2>1, BeginList, Concatenated DEF Left
  <2> HIDE DEF E
  <2>3. todo' # <<>>
      BY <2>2, ShortLists DEF Left
  <2>4. Lists' /\ HalfBuilt'
      BY <1>1, <2>2 DEF Lists, HalfBuilt, PartEnds, Builds
  <2>5. Ending' /\ NotYet' /\ Built'
      BY <1>1, <1>3, <1>4, <1>5, <2>2 DEF Ending, NotYet, Built, PartEnds
  <2> QED
      BY <2>2, <2>3, <2>4, <2>5
<1>7. CASE todo' = EndSteps \o <<"failed">>
  <2>1. /\ <<"failed">> \in Seq(StepName) /\ Ordered(<<"failed">>)
        /\ StepsOf(<<"failed">>) = {"failed"}
      BY ShortLists DEF StepName
  <2>2. \A x \in E, y \in StepsOf(<<"failed">>) : MayPrecede(x, y)
      BY <1>1, <2>1 DEF MayPrecede, PartEnds, Builds
  <2>3. todo' \in Seq(StepName) /\ Ordered(todo') /\ Left' = E \cup {"failed"}
      BY <1>1, <1>7, <2>1, <2>2, Concatenated DEF Left
  <2> HIDE DEF E
  <2>4. todo' # <<>>
      BY <2>3, ShortLists DEF Left
  <2>5. Lists' /\ HalfBuilt'
      BY <1>1, <2>3 DEF Lists, HalfBuilt, PartEnds, Builds
  <2>6. Ending' /\ NotYet' /\ Built'
      BY <1>1, <1>3, <1>4, <1>5, <2>3 DEF Ending, NotYet, Built, PartEnds
  <2> QED
      BY <2>3, <2>4, <2>5, <2>6
<1> QED
    BY <1>6, <1>7

-----------------------------------------------------------------------------
(* Between the steps of begin() and end() *)

(* What a call does that moves no block and changes no part.               *)
LEMMA BlocksKept ==
    ASSUME LifecycleInv, UNCHANGED <<memory, parts>>, holds' \subseteq holds, stale' \subseteq Addr,
           auto' \in [ready : BOOLEAN, frames : BOOLEAN, dma : BOOLEAN,
                      by : {"nobody", "sketch", "driver"}]
    PROVE  TypeOK' /\ Owners' /\ DMAIsLent' /\ Bookkeeping'
<1> USE DEF LifecycleInv, memory, parts
<1>1. TypeOK'
    BY DEF TypeOK
<1>2. Owners'
    BY OwnersSame
<1>3. DMAIsLent'
    BY DEF DMAIsLent
<1>4. Bookkeeping'
    BY DEF Bookkeeping, PairEmpty, PoolEmpty, CacheEmpty
<1> QED
    BY <1>1, <1>2, <1>3, <1>4

(* Somebody who is no part takes or gives back a block.                    *)
LEMMA OthersBlocks ==
    ASSUME LifecycleInv, NEW x \in Addr, NEW w \in {"free", "app", "driver"},
           held[x] \in {"free", "app", "driver"}, held' = [held EXCEPT ![x] = w],
           w = "free" \/ manager_ready, UNCHANGED manager_ready,
           broker' = broker, pair' = pair, cache' = cache, pool'.managed = pool.managed,
           pool'.blocks = pool.blocks
    PROVE  held' \in [Addr -> Holder] /\ Owners' /\ Bookkeeping'
<1> USE DEF LifecycleInv
<1>1. held' \in [Addr -> Holder] /\ held'[x] = w /\ \A y \in Addr \ {x} : held'[y] = held[y]
    BY DEF TypeOK, Holder
<1>2. Owners'
    BY <1>1 DEF Owners
<1>3. Bookkeeping'
    BY <1>1 DEF Bookkeeping, PairEmpty, PoolEmpty, CacheEmpty
<1> QED
    BY <1>1, <1>2, <1>3

(* No steps are left.                                                      *)
LEMMA NoneLeft ==
    ASSUME todo' = <<>>
    PROVE  /\ todo' \in Seq(StepName) /\ Ordered(todo') /\ Left' = {}
           /\ Lists' /\ Ending' /\ NotYet' /\ HalfBuilt'
<1>1. /\ todo' \in Seq(StepName) /\ Ordered(todo') /\ Left' = {}
    BY ShortLists DEF Left
<1> QED
    BY <1>1 DEF Lists, Ending, NotYet, HalfBuilt

(* The same steps are left, and the parts are what they were.              *)
LEMMA SameLeft ==
    ASSUME LifecycleInv, UNCHANGED <<parts, auto, todo, cfg, manager_ready>>
    PROVE  /\ todo' \in Seq(StepName) /\ Ordered(todo') /\ Left' = Left
           /\ Lists' /\ Ending' /\ NotYet' /\ HalfBuilt' /\ Built'
<1> USE DEF LifecycleInv, parts
<1>1. todo' \in Seq(StepName) /\ Ordered(todo') /\ Left' = Left
    BY DEF ControlOK, Left
<1>2. /\ BrokerEmpty' = BrokerEmpty /\ PairEmpty' = PairEmpty
      /\ PoolEmpty' = PoolEmpty /\ CacheEmpty' = CacheEmpty /\ AllEmpty' = AllEmpty
    BY DEF BrokerEmpty, PairEmpty, PoolEmpty, CacheEmpty, AllEmpty
<1>3. Lists' /\ Ending' /\ NotYet'
  <2>1. Lists'
      BY <1>1, <1>2 DEF Lists
  <2>2. Ending'
      BY <1>1, <1>2 DEF Lists, Ending
  <2>3. NotYet'
      BY <1>1, <1>2 DEF Lists, Ending, NotYet
  <2> QED
      BY <2>1, <2>2, <2>3
<1>4. HalfBuilt' /\ Built'
  <2>1. HalfBuilt'
      BY <1>1, <1>2 DEF HalfBuilt
  <2>2. Built'
      BY <1>1, <1>2 DEF HalfBuilt, Built
  <2> QED
      BY <2>1, <2>2
<1> QED
    BY <1>1, <1>3, <1>4

(* While no steps are left, nothing else is told of them.                  *)
LEMMA AtRest ==
    ASSUME LifecycleInv, todo = <<>>
    PROVE  /\ Left = {} /\ (~auto.ready => AllEmpty)
           /\ auto.ready => manager_ready /\ cache.managed
<1>1. Left = {}
    BY ShortLists DEF Left
<1> QED
    BY <1>1 DEF LifecycleInv, Calls, Built

-----------------------------------------------------------------------------
(* The sketch's calls *)

(* begin()                                                                 *)
LEMMA SketchBeginsStep ==
    ASSUME LifecycleInv, SketchBegins
    PROVE  LifecycleInv'
<1> USE DEF LifecycleInv
<1>1. todo = <<>> /\ ~bridge_active /\ holds = {}
    BY DEF SketchBegins, Calls, Pointing
<1>2. auto' \in [ready : BOOLEAN, frames : BOOLEAN, dma : BOOLEAN,
                 by : {"nobody", "sketch", "driver"}] /\ auto'.ready = FALSE
    BY DEF SketchBegins, TypeOK
<1>3. TypeOK' /\ Owners' /\ DMAIsLent' /\ Bookkeeping'
    BY <1>2, MemoryKept DEF SketchBegins
<1>4. /\ todo' \in Seq(StepName) /\ Ordered(todo') /\ todo' # <<>>
      /\ Lists' /\ Ending' /\ NotYet' /\ HalfBuilt' /\ Built'
    BY <1>1, <1>2, Started DEF SketchBegins
<1>5. ControlOK'
    BY <1>4, LifecycleConstants DEF SketchBegins, ControlOK, provider
<1>6. Calls' /\ Pointing'
    BY <1>1, <1>2, <1>4 DEF SketchBegins, Calls, Pointing, provider, driver
<1> QED
    BY <1>3, <1>4, <1>5, <1>6

(* end()                                                                   *)
LEMMA SketchEndsStep ==
    ASSUME LifecycleInv, SketchEnds
    PROVE  LifecycleInv'
<1> USE DEF LifecycleInv
<1>1. todo = <<>> /\ ~bridge_active /\ holds = {}
    BY DEF SketchEnds, Calls, Pointing
<1>2. auto' \in [ready : BOOLEAN, frames : BOOLEAN, dma : BOOLEAN,
                 by : {"nobody", "sketch", "driver"}] /\ auto'.ready = FALSE
    BY DEF SketchEnds, TypeOK
<1>3. TypeOK' /\ Owners' /\ DMAIsLent' /\ Bookkeeping'
    BY <1>2, MemoryKept DEF SketchEnds
<1>4. /\ todo' \in Seq(StepName) /\ Ordered(todo') /\ todo' # <<>>
      /\ Lists' /\ Ending' /\ NotYet' /\ HalfBuilt' /\ Built'
    BY <1>1, <1>2, Started DEF SketchEnds
<1>5. ControlOK'
    BY <1>4 DEF SketchEnds, ControlOK, provider
<1>6. Calls' /\ Pointing'
    BY <1>1, <1>2, <1>4 DEF SketchEnds, Calls, Pointing, provider, driver
<1> QED
    BY <1>3, <1>4, <1>5, <1>6

(* The last step of begin() or end().                                      *)
LEMMA Returned ==
    ASSUME LifecycleInv, UNCHANGED <<parts, cfg, manager_ready>>, todo' = <<>>,
           auto'.frames = auto.frames, auto'.dma = auto.dma,
           \/ todo = <<"done">> /\ auto'.ready
           \/ todo = <<"failed">> /\ ~auto'.ready
    PROVE  Built' /\ (~auto'.ready => AllEmpty') /\ todo # <<>>
<1> USE DEF LifecycleInv, parts
<1>1. Left' = {}
    BY NoneLeft
<1>2. AllEmpty' = AllEmpty
    BY DEF BrokerEmpty, PairEmpty, PoolEmpty, CacheEmpty, AllEmpty
<1>3. CASE todo = <<"done">> /\ auto'.ready
  <2>1. Left = {"done"}
      BY <1>3, ShortLists DEF Left, StepName, Builds
  <2>2. todo # <<>>
      BY <1>3
  <2>3. Built'
      BY <1>1, <2>1 DEF Built, PairEmpty
  <2> QED
      BY <1>3, <2>2, <2>3
<1>4. CASE todo = <<"failed">> /\ ~auto'.ready
  <2>1. Left = {"failed"}
      BY <1>4, ShortLists DEF Left, StepName
  <2>2. todo # <<>>
      BY <1>4
  <2>3. AllEmpty
      BY <2>1 DEF Ending
  <2> QED
      BY <1>1, <1>2, <1>4, <2>2, <2>3 DEF Built
<1> QED
    BY <1>3, <1>4

(* begin() or end() returns to the sketch.                                 *)
LEMMA SketchReturnsStep ==
    ASSUME LifecycleInv, SketchReturns
    PROVE  LifecycleInv'
<1> USE DEF LifecycleInv
<1>1. /\ auto' \in [ready : BOOLEAN, frames : BOOLEAN, dma : BOOLEAN,
                    by : {"nobody", "sketch", "driver"}]
      /\ auto'.frames = auto.frames /\ auto'.dma = auto.dma
  <2>1. auto \in [ready : BOOLEAN, frames : BOOLEAN, dma : BOOLEAN,
                  by : {"nobody", "sketch", "driver"}]
      BY DEF TypeOK
  <2>2. auto' = [auto EXCEPT !.ready = TRUE, !.by = "sketch"] \/ auto' = auto
      BY DEF SketchReturns
  <2> HIDE DEF LifecycleInv
  <2> QED
      BY <2>1, <2>2
<1>2. todo # <<>>
    BY DEF SketchReturns, Calls
<1>3. \/ todo = <<"done">> /\ auto'.ready
      \/ todo = <<"failed">> /\ ~auto'.ready
  <2>1. ~auto.ready
      BY <1>2 DEF Calls
  <2>2. auto \in [ready : BOOLEAN, frames : BOOLEAN, dma : BOOLEAN,
                  by : {"nobody", "sketch", "driver"}]
      BY DEF TypeOK
  <2> HIDE DEF LifecycleInv
  <2> QED
      BY <2>1, <2>2 DEF SketchReturns
<1>4. Built' /\ (~auto'.ready => AllEmpty')
    BY <1>1, <1>3, Returned DEF SketchReturns, memory
<1>5. TypeOK' /\ Owners' /\ DMAIsLent' /\ Bookkeeping'
    BY <1>1, MemoryKept DEF SketchReturns
<1>6. /\ todo' \in Seq(StepName) /\ Ordered(todo')
      /\ Lists' /\ Ending' /\ NotYet' /\ HalfBuilt'
    BY NoneLeft DEF SketchReturns
<1>7. ControlOK'
    BY <1>6 DEF SketchReturns, ControlOK, provider
<1>8. Calls' /\ Pointing'
    BY <1>2, <1>4 DEF SketchReturns, Calls, Pointing, provider, driver
<1> QED
    BY <1>4, <1>5, <1>6, <1>7, <1>8

(* The sketch begins the manager on its own.                               *)
LEMMA SketchBeginsManagerStep ==
    ASSUME LifecycleInv, SketchBeginsManager
    PROVE  LifecycleInv'
<1> USE DEF LifecycleInv
<1>1. todo = <<>> /\ todo' = <<>> /\ UNCHANGED <<held, parts, auto, provider, driver, control>>
    BY DEF SketchBeginsManager, Calls, control
<1>2. ~auto.ready /\ AllEmpty
    BY <1>1, AtRest DEF SketchBeginsManager
<1>3. AllEmpty'
    BY <1>1, <1>2 DEF BrokerEmpty, PairEmpty, PoolEmpty, CacheEmpty, AllEmpty, parts
<1>4. TypeOK' /\ Owners'
    BY <1>1, OwnersSame DEF SketchBeginsManager, TypeOK, parts, driver
<1>5. DMAIsLent' /\ Bookkeeping'
    BY <1>1, <1>3 DEF SketchBeginsManager, DMAIsLent, Bookkeeping, parts, driver,
       BrokerEmpty, AllEmpty
<1>6. /\ todo' \in Seq(StepName) /\ Ordered(todo') /\ Left' = {}
      /\ Lists' /\ Ending' /\ NotYet' /\ HalfBuilt'
    BY <1>1, NoneLeft
<1>7. Built'
    BY <1>1, <1>2, <1>6 DEF Built
<1>8. ControlOK' /\ Calls' /\ Pointing'
    BY <1>1, <1>3, <1>6 DEF ControlOK, Calls, Pointing, provider, driver, control
<1> QED
    BY <1>4, <1>5, <1>6, <1>7, <1>8

(* The sketch ends a manager that AutoMemory does not use.                 *)
LEMMA SketchEndsManagerStep ==
    ASSUME LifecycleInv, SketchEndsManager, ~EndsManager
    PROVE  LifecycleInv'
<1> USE DEF LifecycleInv
<1>1. /\ todo = <<>> /\ todo' = <<>> /\ UNCHANGED <<parts, auto, provider, driver, control>>
      /\ held' = [x \in Addr |-> "free"] /\ manager_ready' = FALSE
    BY DEF SketchEndsManager, Calls, control
<1>2. ~auto.ready /\ AllEmpty /\ holds = {}
    BY <1>1, AtRest DEF SketchEndsManager, Pointing
<1>3. AllEmpty'
    BY <1>1, <1>2 DEF BrokerEmpty, PairEmpty, PoolEmpty, CacheEmpty, AllEmpty, parts
<1>4. TypeOK'
  <2>1. held' \in [Addr -> Holder]
      BY <1>1 DEF Holder
  <2>2. manager_ready' \in BOOLEAN /\ UNCHANGED <<parts, auto, driver>>
      BY <1>1
  <2> QED
      BY <2>1, <2>2 DEF TypeOK, parts, driver
<1>5. Owners'
    BY <1>1, <1>2, LifecycleConstants DEF TypeOK, Owners, parts, AllEmpty, BrokerEmpty,
       PairEmpty, PoolEmpty, CacheEmpty
<1>6. DMAIsLent' /\ Bookkeeping'
    BY <1>1, <1>2, <1>3 DEF DMAIsLent, Bookkeeping, parts, driver, BrokerEmpty, AllEmpty
<1>7. /\ todo' \in Seq(StepName) /\ Ordered(todo') /\ Left' = {}
      /\ Lists' /\ Ending' /\ NotYet' /\ HalfBuilt'
    BY <1>1, NoneLeft
<1>8. Built'
    BY <1>1, <1>2, <1>7 DEF Built
<1>9. ControlOK' /\ Calls' /\ Pointing'
    BY <1>1, <1>3, <1>7 DEF ControlOK, Calls, Pointing, provider, driver, control
<1> QED
    BY <1>4, <1>5, <1>6, <1>7, <1>8, <1>9

(* Other tasks, at any time.                                               *)
LEMMA OthersStep ==
    ASSUME LifecycleInv, OthersAllocate \/ OthersRelease
    PROVE  LifecycleInv'
<1> USE DEF LifecycleInv
<1>1. UNCHANGED <<manager_ready, parts, auto, provider, driver, control>>
    BY DEF OthersAllocate, OthersRelease
<1>2. \A x \in Addr : held[x] # "free" => manager_ready
    BY DEF Bookkeeping
<1>3. PICK x \in Addr, w \in {"free", "app"} :
        /\ held[x] \in {"free", "app"} /\ (w = "free" \/ manager_ready)
        /\ held' = [held EXCEPT ![x] = w]
  <2>1. CASE OthersAllocate
      BY <2>1 DEF OthersAllocate, Allocates
  <2>2. CASE OthersRelease
    <3>1. PICK x \in Addr : held[x] = "app" /\ held' = Released({x})
        BY <2>2 DEF OthersRelease
    <3>2. held' = [held EXCEPT ![x] = "free"]
        BY <1>2, <3>1 DEF Released, TypeOK
    <3> QED
        BY <3>1, <3>2
  <2> QED
      BY <2>1, <2>2
<1>4. held' \in [Addr -> Holder] /\ Owners' /\ Bookkeeping'
    BY <1>1, <1>3, OthersBlocks DEF parts
<1>5. TypeOK'
    BY <1>1, <1>4 DEF TypeOK, parts, driver
<1>6. DMAIsLent'
    BY <1>1, <1>3 DEF DMAIsLent, parts, driver, TypeOK
<1>7. /\ Left' = Left /\ todo' \in Seq(StepName) /\ Ordered(todo')
      /\ Lists' /\ Ending' /\ NotYet' /\ HalfBuilt' /\ Built'
    BY <1>1, SameLeft DEF control
<1>8. ControlOK' /\ Calls' /\ Pointing'
  <2>1. AllEmpty' = AllEmpty
      BY <1>1 DEF BrokerEmpty, PairEmpty, PoolEmpty, CacheEmpty, AllEmpty, parts
  <2> QED
      BY <1>1, <1>7, <2>1 DEF ControlOK, Calls, Pointing, provider, driver, control
<1> QED
    BY <1>4, <1>5, <1>6, <1>7, <1>8

(* A lease is taken or given back.                                         *)
LEMMA UseBrokerStep ==
    ASSUME LifecycleInv, UseBroker
    PROVE  LifecycleInv'
<1> USE DEF LifecycleInv
<1>1. /\ UNCHANGED <<manager_ready, pair, pool, cache, auto, provider, driver, control>>
      /\ pc = "idle" /\ todo = <<>> /\ todo' = <<>> /\ auto.ready /\ manager_ready
      /\ broker.begun
    BY DEF UseBroker, BrokerReady, Owned, Calls, control
<1>2. PICK x \in Addr :
        /\ held[x] \in {"free", "lease"}
        /\ broker' = [broker EXCEPT !.leases = broker'.leases]
        /\ \/ /\ held[x] = "free" /\ held' = [held EXCEPT ![x] = "lease"]
              /\ broker'.leases = broker.leases \cup {x}
           \/ /\ held' = [held EXCEPT ![x] = "free"]
              /\ broker'.leases = broker.leases \ {x}
  <2>1. PICK x \in Addr :
        \/ Allocates(x, "lease") /\ broker' = [broker EXCEPT !.leases = @ \cup {x}]
        \/ x \in broker.leases /\ held' = Released({x})
             /\ broker' = [broker EXCEPT !.leases = @ \ {x}]
      BY DEF UseBroker
  <2>2. x \in broker.leases => held[x] = "lease"
      BY DEF Owners
  <2>3. Released({x}) = [held EXCEPT ![x] = "free"]
      BY <1>1 DEF Released, TypeOK
  <2>4. broker \in [begun : BOOLEAN, arena : Addr \cup {Null}, leases : SUBSET Addr]
      BY DEF TypeOK
  <2> QED
      BY <2>1, <2>2, <2>3, <2>4 DEF Allocates
<1>3. /\ broker'.begun = broker.begun /\ broker'.arena = broker.arena
      /\ broker' \in [begun : BOOLEAN, arena : Addr \cup {Null}, leases : SUBSET Addr]
      /\ held' \in [Addr -> Holder] /\ \A y \in Addr \ {x} : held'[y] = held[y]
      /\ \/ held'[x] = "lease" /\ broker'.leases = broker.leases \cup {x}
         \/ held'[x] = "free" /\ broker'.leases = broker.leases \ {x}
  <2>1. broker'.begun = broker.begun /\ broker'.arena = broker.arena
        /\ broker'.leases \subseteq Addr
      BY <1>2 DEF TypeOK
  <2>2. broker' \in [begun : BOOLEAN, arena : Addr \cup {Null}, leases : SUBSET Addr]
      BY <1>2, <2>1 DEF TypeOK
  <2>3. held \in [Addr -> Holder] /\ {"free", "lease"} \subseteq Holder
      BY DEF TypeOK, Holder
  <2> QED
      BY <1>2, <2>1, <2>2, <2>3
<1>4. TypeOK'
    BY <1>1, <1>3 DEF TypeOK, driver
<1>5. Owners'
    BY <1>1, <1>2, <1>3 DEF Owners
<1>6. DMAIsLent' /\ Bookkeeping'
    BY <1>1, <1>2, <1>3 DEF DMAIsLent, Bookkeeping, driver, PairEmpty, PoolEmpty, CacheEmpty, TypeOK
<1>7. /\ todo' \in Seq(StepName) /\ Ordered(todo') /\ Left' = {} /\ Left = {}
      /\ Lists' /\ Ending' /\ NotYet' /\ HalfBuilt'
    BY <1>1, NoneLeft, ShortLists DEF Left
<1>8. Built'
    BY <1>1, <1>3, <1>7 DEF Built, PairEmpty, control
<1>9. ControlOK' /\ Calls' /\ Pointing'
    BY <1>1, <1>7 DEF ControlOK, Calls, Pointing, provider, driver, control
<1> QED
    BY <1>4, <1>5, <1>6, <1>7, <1>8, <1>9

(* An asset is loaded or let go.                                           *)
LEMMA UseCacheStep ==
    ASSUME LifecycleInv, UseCache
    PROVE  LifecycleInv'
<1> USE DEF LifecycleInv
<1>1. /\ UNCHANGED <<manager_ready, broker, pair, pool, auto, provider, driver, control>>
      /\ pc = "idle" /\ todo = <<>> /\ todo' = <<>> /\ auto.ready /\ cache.managed
    BY DEF UseCache, Calls, control
<1>2. manager_ready
    BY <1>1, AtRest
<1>3. PICK x \in Addr :
        /\ held[x] \in {"free", "asset"}
        /\ cache' = [cache EXCEPT !.entries = cache'.entries]
        /\ \/ /\ held[x] = "free" /\ held' = [held EXCEPT ![x] = "asset"]
              /\ cache'.entries = cache.entries \cup {x}
           \/ /\ held' = [held EXCEPT ![x] = "free"]
              /\ cache'.entries = cache.entries \ {x}
  <2>1. PICK x \in Addr :
        \/ Allocates(x, "asset") /\ cache' = [cache EXCEPT !.entries = @ \cup {x}]
        \/ x \in cache.entries /\ held' = Released({x})
             /\ cache' = [cache EXCEPT !.entries = @ \ {x}]
      BY DEF UseCache
  <2>2. x \in cache.entries => held[x] = "asset"
      BY DEF Owners
  <2>3. Released({x}) = [held EXCEPT ![x] = "free"]
      BY <1>2 DEF Released, TypeOK
  <2>4. cache \in [managed : BOOLEAN, entries : SUBSET Addr]
      BY DEF TypeOK
  <2> QED
      BY <2>1, <2>2, <2>3, <2>4 DEF Allocates
<1>4. /\ cache'.managed = cache.managed
      /\ cache' \in [managed : BOOLEAN, entries : SUBSET Addr]
      /\ held' \in [Addr -> Holder] /\ \A y \in Addr \ {x} : held'[y] = held[y]
      /\ \/ held'[x] = "asset" /\ cache'.entries = cache.entries \cup {x}
         \/ held'[x] = "free" /\ cache'.entries = cache.entries \ {x}
    BY <1>3 DEF TypeOK, Holder
<1>5. TypeOK'
    BY <1>1, <1>4 DEF TypeOK, driver
<1>6. Owners'
    BY <1>1, <1>3, <1>4 DEF Owners
<1>7. DMAIsLent' /\ Bookkeeping'
    BY <1>1, <1>2, <1>3, <1>4 DEF DMAIsLent, Bookkeeping, driver, PairEmpty, PoolEmpty,
       CacheEmpty, TypeOK
<1>8. /\ todo' \in Seq(StepName) /\ Ordered(todo') /\ Left' = {} /\ Left = {}
      /\ Lists' /\ Ending' /\ NotYet' /\ HalfBuilt'
    BY <1>1, NoneLeft, ShortLists DEF Left
<1>9. Built'
    BY <1>1, <1>4, <1>8 DEF Built, PairEmpty, control
<1>10. ControlOK' /\ Calls' /\ Pointing'
    BY <1>1, <1>8 DEF ControlOK, Calls, Pointing, provider, driver, control
<1> QED
    BY <1>5, <1>6, <1>7, <1>8, <1>9, <1>10

-----------------------------------------------------------------------------
(* The driver's calls *)

(* A call that changes neither blocks nor parts nor the lists.             *)
LEMMA QuietCall ==
    ASSUME LifecycleInv, UNCHANGED <<memory, parts, auto, todo, cfg, holds>>, stale' \subseteq Addr
    PROVE  /\ TypeOK' /\ Owners' /\ DMAIsLent' /\ Bookkeeping'
           /\ todo' \in Seq(StepName) /\ Ordered(todo') /\ AllEmpty' = AllEmpty
           /\ Lists' /\ Ending' /\ NotYet' /\ HalfBuilt' /\ Built'
<1>1. auto' \in [ready : BOOLEAN, frames : BOOLEAN, dma : BOOLEAN,
                 by : {"nobody", "sketch", "driver"}]
    BY DEF LifecycleInv, TypeOK
<1>2. TypeOK' /\ Owners' /\ DMAIsLent' /\ Bookkeeping'
    BY <1>1, BlocksKept
<1>3. /\ todo' \in Seq(StepName) /\ Ordered(todo')
      /\ Lists' /\ Ending' /\ NotYet' /\ HalfBuilt' /\ Built'
    BY SameLeft DEF memory
<1>4. AllEmpty' = AllEmpty
    BY DEF BrokerEmpty, PairEmpty, PoolEmpty, CacheEmpty, AllEmpty, parts
<1> QED
    BY <1>2, <1>3, <1>4

(* The driver asks, waits for the mutex, and is refused or adopted.        *)
LEMMA QuietCallsStep ==
    ASSUME LifecycleInv,
           \/ providerBegin \/ providerEnd \/ Enter \/ BeginRefused \/ BeginAdopts
    PROVE  LifecycleInv'
<1> USE DEF LifecycleInv
<1>1. UNCHANGED <<memory, parts, auto, todo, cfg, holds>> /\ stale' \subseteq Addr
    BY DEF providerBegin, providerEnd, Enter, BeginRefused, BeginAdopts, Call, driver, TypeOK
<1>2. /\ TypeOK' /\ Owners' /\ DMAIsLent' /\ Bookkeeping'
      /\ todo' \in Seq(StepName) /\ Ordered(todo') /\ AllEmpty' = AllEmpty
      /\ Lists' /\ Ending' /\ NotYet' /\ HalfBuilt' /\ Built'
    BY <1>1, QuietCall
<1>3. CASE providerBegin
  <2>1. ControlOK' /\ Calls'
      BY <1>1, <1>2, <1>3 DEF providerBegin, Call, ControlOK, Calls
  <2>2. Pointing'
      BY <1>1, <1>3 DEF providerBegin, Call, Pointing
  <2> QED
      BY <1>2, <2>1, <2>2
<1>4. CASE providerEnd
    BY <1>1, <1>2, <1>4 DEF providerEnd, Call, ControlOK, Calls, Pointing
<1>5. CASE Enter
    BY <1>1, <1>2, <1>5 DEF Enter, ControlOK, Calls, Pointing, provider, driver
<1>6. CASE BeginRefused
    BY <1>1, <1>2, <1>6 DEF BeginRefused, ControlOK, Calls, Pointing, provider, driver
<1>7. CASE BeginAdopts
    BY <1>1, <1>2, <1>7 DEF BeginAdopts, ControlOK, Calls, Pointing, provider, driver
<1> QED
    BY <1>3, <1>4, <1>5, <1>6, <1>7

(* The mutex is given back.                                                *)
LEMMA UnlockStep ==
    ASSUME LifecycleInv, Unlock
    PROVE  LifecycleInv'
<1> USE DEF LifecycleInv
<1>1. todo' = <<>> /\ UNCHANGED <<memory, parts, auto, provider, driver, cfg>>
    BY DEF Unlock
<1>2. auto' \in [ready : BOOLEAN, frames : BOOLEAN, dma : BOOLEAN,
                 by : {"nobody", "sketch", "driver"}] /\ auto'.ready = auto.ready
    BY <1>1 DEF TypeOK
<1>3. TypeOK' /\ Owners' /\ DMAIsLent' /\ Bookkeeping'
    BY <1>1, <1>2, MemoryKept
<1>4. /\ todo' \in Seq(StepName) /\ Ordered(todo')
      /\ Lists' /\ Ending' /\ NotYet' /\ HalfBuilt'
    BY <1>1, NoneLeft
<1>5. Built' /\ (~auto'.ready => AllEmpty')
  <2>1. CASE todo = <<>>
    <3>1. Built' /\ AllEmpty' = AllEmpty
      <4>1. UNCHANGED <<parts, auto, todo, cfg, manager_ready>>
          BY <1>1, <2>1 DEF memory
      <4> QED
          BY <4>1, SameLeft DEF BrokerEmpty, PairEmpty, PoolEmpty, CacheEmpty, AllEmpty, parts
    <3> QED
        BY <1>2, <2>1, <3>1 DEF Calls
  <2>2. CASE todo = <<"failed">>
    <3>1. todo # <<>>
        BY <2>2
    <3>2. ~auto'.ready
        BY <1>2, <3>1 DEF Calls
    <3> QED
        BY <1>1, <1>2, <2>2, <3>2, Returned DEF memory
  <2> QED
      BY <2>1, <2>2 DEF Unlock
<1>6. ControlOK'
    BY <1>1, <1>4 DEF Unlock, ControlOK, provider
<1>7. Calls' /\ Pointing'
    BY <1>1, <1>2, <1>5 DEF Unlock, Calls, Pointing, provider, driver
<1> QED
    BY <1>3, <1>4, <1>5, <1>6, <1>7

(* providerBegin begins the singleton.                                     *)
LEMMA BeginStartsStep ==
    ASSUME LifecycleInv, BeginStarts
    PROVE  LifecycleInv'
<1> USE DEF LifecycleInv
<1>1. /\ todo = <<>> /\ pc = "beginning" /\ dims \in Dims /\ dims # BadCall
      /\ UNCHANGED <<memory, parts, auto, provider, driver, pc>>
    BY DEF BeginStarts, Calls
<1>2. auto' \in [ready : BOOLEAN, frames : BOOLEAN, dma : BOOLEAN,
                 by : {"nobody", "sketch", "driver"}] /\ auto'.ready = FALSE
    BY DEF BeginStarts, TypeOK
<1>3. TypeOK' /\ Owners' /\ DMAIsLent' /\ Bookkeeping'
    BY <1>1, <1>2, MemoryKept
<1>4. /\ todo' \in Seq(StepName) /\ Ordered(todo') /\ todo' # <<>>
      /\ Lists' /\ Ending' /\ NotYet' /\ HalfBuilt' /\ Built'
    BY <1>1, <1>2, Started DEF BeginStarts
<1>5. /\ cfg' \in [broker : BOOLEAN, frames : Dims \cup {NoFrames}, dma : Nat]
      /\ cfg'.frames = dims
  <2>1. PICK n \in {0, 1} : cfg' = [broker |-> TRUE, frames |-> dims, dma |-> n]
      BY DEF BeginStarts
  <2> QED
      BY <1>1, <2>1
<1>6. ControlOK'
    BY <1>1, <1>4, <1>5 DEF ControlOK, provider
<1>7. Calls' /\ Pointing'
    BY <1>1, <1>2, <1>4, <1>5 DEF Calls, Pointing, provider, driver
<1> QED
    BY <1>3, <1>4, <1>6, <1>7

(* The singleton has begun, or has failed.                                 *)
LEMMA BeginReturnsStep ==
    ASSUME LifecycleInv, BeginReturns
    PROVE  LifecycleInv'
<1> USE DEF LifecycleInv
<1>1. /\ pc = "beginning" /\ pc' = "unlock" /\ todo' = <<>>
      /\ UNCHANGED <<memory, parts, dims, driver, cfg>>
    BY DEF BeginReturns
<1>2. todo # <<>>
    BY DEF BeginReturns
<1>3. /\ auto' \in [ready : BOOLEAN, frames : BOOLEAN, dma : BOOLEAN,
                    by : {"nobody", "sketch", "driver"}]
      /\ auto'.frames = auto.frames /\ auto'.dma = auto.dma
  <2>1. auto \in [ready : BOOLEAN, frames : BOOLEAN, dma : BOOLEAN,
                  by : {"nobody", "sketch", "driver"}]
      BY DEF TypeOK
  <2>2. auto' = [auto EXCEPT !.ready = TRUE, !.by = "driver"] \/ auto' = auto
      BY DEF BeginReturns
  <2> HIDE DEF LifecycleInv
  <2> QED
      BY <2>1, <2>2
<1>4. ~auto.ready /\ holds = {}
    BY <1>2 DEF Calls, Pointing
<1>5. \/ todo = <<"done">> /\ auto'.ready /\ bridge_active' = TRUE /\ started_by_bridge' = TRUE
      \/ todo = <<"failed">> /\ ~auto'.ready /\ UNCHANGED <<bridge_active, started_by_bridge>>
    BY <1>4 DEF BeginReturns, TypeOK
<1>6. Built' /\ (~auto'.ready => AllEmpty')
    BY <1>1, <1>3, <1>5, Returned DEF memory
<1>7. TypeOK' /\ Owners' /\ DMAIsLent' /\ Bookkeeping'
    BY <1>1, <1>3, MemoryKept
<1>8. /\ todo' \in Seq(StepName) /\ Ordered(todo')
      /\ Lists' /\ Ending' /\ NotYet' /\ HalfBuilt'
    BY <1>1, NoneLeft
<1>9. ControlOK'
    BY <1>1, <1>5, <1>8 DEF ControlOK
<1>10. Calls' /\ Pointing'
    BY <1>1, <1>4, <1>6 DEF Calls, Pointing, driver
<1> QED
    BY <1>6, <1>7, <1>8, <1>9, <1>10

(* providerEnd.                                                            *)
LEMMA EndStep ==
    ASSUME LifecycleInv, End
    PROVE  LifecycleInv'
<1> USE DEF LifecycleInv
<1>1. /\ todo = <<>> /\ pc' = "unlock" /\ bridge_active' = FALSE /\ started_by_bridge' = FALSE
      /\ holds' = {} /\ UNCHANGED <<memory, parts, accepted, dims, cfg>>
    BY DEF End, Calls
<1>2. auto' \in [ready : BOOLEAN, frames : BOOLEAN, dma : BOOLEAN,
                 by : {"nobody", "sketch", "driver"}]
    BY DEF End, TypeOK
<1>3. TypeOK' /\ Owners' /\ DMAIsLent' /\ Bookkeeping'
  <2>1. stale' \subseteq Addr
      BY DEF End, TypeOK
  <2> QED
      BY <1>1, <1>2, <2>1, BlocksKept
<1>4. AllEmpty' = AllEmpty
    BY <1>1 DEF BrokerEmpty, PairEmpty, PoolEmpty, CacheEmpty, AllEmpty, parts
<1>5. CASE auto' = [auto EXCEPT !.ready = FALSE] /\ todo' = EndSteps \o <<"failed">>
  <2>1. auto'.ready = FALSE
      BY <1>5 DEF TypeOK
  <2>2. /\ todo' \in Seq(StepName) /\ Ordered(todo') /\ todo' # <<>>
        /\ Lists' /\ Ending' /\ NotYet' /\ HalfBuilt' /\ Built'
      BY <1>1, <1>5, <2>1, Started
  <2>3. ControlOK' /\ Calls' /\ Pointing'
      BY <1>1, <2>1, <2>2 DEF ControlOK, Calls, Pointing
  <2> QED
      BY <1>3, <2>2, <2>3
<1>6. CASE UNCHANGED <<auto, todo>>
  <2>1. /\ todo' \in Seq(StepName) /\ Ordered(todo')
        /\ Lists' /\ Ending' /\ NotYet' /\ HalfBuilt' /\ Built'
      BY <1>1, <1>6, SameLeft DEF memory
  <2>2. ControlOK' /\ Calls' /\ Pointing'
      BY <1>1, <1>4, <1>6, <2>1 DEF ControlOK, Calls, Pointing
  <2> QED
      BY <1>3, <2>1, <2>2
<1> QED
    BY <1>5, <1>6 DEF End

(* Which of the two framebuffers is shown.                                 *)
LEMMA SwapStep ==
    ASSUME LifecycleInv, providerSwap
    PROVE  LifecycleInv'
<1> USE DEF LifecycleInv
<1>1. /\ pc = "idle" /\ todo = <<>> /\ todo' = <<>>
      /\ UNCHANGED <<memory, broker, pool, cache, auto, provider, driver, control>>
    BY DEF providerSwap, Calls, control
<1>2. /\ pair'.managed = pair.managed /\ pair'.a = pair.a /\ pair'.b = pair.b
      /\ pair'.dims = pair.dims /\ pair'.a_is_front \in BOOLEAN
      /\ pair' \in [managed : BOOLEAN, a : Addr \cup {Null}, b : Addr \cup {Null},
                    dims : Dims \cup {NoFrames}, a_is_front : BOOLEAN]
    BY DEF providerSwap, TypeOK
<1>3. TypeOK'
    BY <1>1, <1>2 DEF TypeOK, memory, driver
<1>4. Owners'
    BY <1>1, <1>2, OwnersSame DEF memory
<1>5. DMAIsLent' /\ Bookkeeping'
    BY <1>1, <1>2 DEF DMAIsLent, Bookkeeping, memory, driver, PairEmpty, PoolEmpty, CacheEmpty
<1>6. /\ todo' \in Seq(StepName) /\ Ordered(todo') /\ Left' = {} /\ Left = {}
      /\ Lists' /\ Ending' /\ NotYet' /\ HalfBuilt'
    BY <1>1, NoneLeft, ShortLists DEF Left
<1>7. Built'
    BY <1>1, <1>2, <1>6 DEF Built, PairEmpty, memory, control
<1>8. ControlOK' /\ Calls' /\ Pointing'
  <2>1. AllEmpty' = AllEmpty
      BY <1>1, <1>2 DEF BrokerEmpty, PairEmpty, PoolEmpty, CacheEmpty, AllEmpty
  <2> QED
      BY <1>1, <1>6, <2>1 DEF ControlOK, Calls, Pointing, provider, driver, control
<1> QED
    BY <1>3, <1>4, <1>5, <1>6, <1>7, <1>8

(* The driver takes a buffer that is too large for the pool, or not in it. *)
LEMMA AcquireOwnStep ==
    ASSUME LifecycleInv, AcquireOwn
    PROVE  LifecycleInv'
<1> USE DEF LifecycleInv
<1>1. /\ pc = "idle" /\ todo = <<>> /\ todo' = <<>> /\ bridge_active /\ auto.ready
      /\ UNCHANGED <<manager_ready, parts, auto, provider, stale, control>>
    BY DEF AcquireOwn, Calls, control, providerReady
<1>2. PICK x \in Addr : Allocates(x, "driver") /\ holds' = holds \cup {x}
    BY DEF AcquireOwn
<1>3. held' \in [Addr -> Holder] /\ Owners' /\ Bookkeeping'
    BY <1>1, <1>2, OthersBlocks DEF Allocates, parts
<1>4. TypeOK'
    BY <1>1, <1>2, <1>3 DEF TypeOK, parts
<1>5. DMAIsLent'
  <2>1. held'[x] = "driver" /\ \A y \in Addr \ {x} : held'[y] = held[y]
      BY <1>2, Taken
  <2> QED
      BY <1>1, <1>2, <2>1 DEF DMAIsLent, parts, TypeOK
<1>6. /\ todo' \in Seq(StepName) /\ Ordered(todo')
      /\ Lists' /\ Ending' /\ NotYet' /\ HalfBuilt' /\ Built'
    BY <1>1, SameLeft DEF control
<1>7. ControlOK' /\ Calls' /\ Pointing'
    BY <1>1, <1>6 DEF ControlOK, Calls, Pointing, provider, control
<1> QED
    BY <1>3, <1>4, <1>5, <1>6, <1>7

(* Which blocks of the pool are lent is all that changes of the parts.     *)
LEMMA LendingOnly ==
    ASSUME LifecycleInv, pc = "idle", pool' = [pool EXCEPT !.blocks = pool'.blocks],
           pool'.blocks \in Seq([pointer : Addr, inUse : BOOLEAN]),
           DOMAIN pool'.blocks = DOMAIN pool.blocks,
           \A i \in DOMAIN pool.blocks : pool'.blocks[i].pointer = pool.blocks[i].pointer,
           UNCHANGED <<memory, broker, pair, cache, auto, provider, control>>,
           holds' \subseteq Addr, stale' \subseteq stale, holds' \subseteq holds \/ providerReady
    PROVE  /\ TypeOK' /\ ControlOK' /\ Owners' /\ Bookkeeping' /\ Calls' /\ Pointing'
           /\ Lists' /\ Ending' /\ NotYet' /\ HalfBuilt' /\ Built'
<1> USE DEF LifecycleInv
<1>1. todo = <<>> /\ todo' = <<>>
    BY DEF Calls, control
<1>2. pool'.managed = pool.managed /\ pool'.blocks = pool'.blocks
    BY DEF TypeOK
<1>3. TypeOK'
    BY <1>2 DEF TypeOK, memory
<1>4. Len(pool'.blocks) = Len(pool.blocks) /\ PoolEmpty' = PoolEmpty
    BY <1>3, PoolTyped DEF PoolEmpty
<1>5. Owners'
    BY DEF Owners, memory
<1>6. Bookkeeping'
    BY <1>2, <1>4 DEF Bookkeeping, memory, PairEmpty, CacheEmpty
<1>7. /\ todo' \in Seq(StepName) /\ Ordered(todo') /\ Left' = {} /\ Left = {}
      /\ Lists' /\ Ending' /\ NotYet' /\ HalfBuilt'
    BY <1>1, NoneLeft, ShortLists DEF Left
<1>8. Built'
    BY <1>4, <1>7 DEF Built, PairEmpty, memory, control
<1>9. ControlOK' /\ Calls' /\ Pointing'
  <2>1. AllEmpty' = AllEmpty
      BY <1>4 DEF BrokerEmpty, PairEmpty, CacheEmpty, AllEmpty
  <2>2. Pointing'
      BY DEF Pointing, provider, control, providerReady
  <2> QED
      BY <1>1, <1>7, <2>1, <2>2 DEF ControlOK, Calls, provider, control
<1> QED
    BY <1>3, <1>5, <1>6, <1>7, <1>8, <1>9

(* A block of the pool whose flag is set.                                  *)
LEMMA BlockMarked ==
    ASSUME NEW r \in [pointer : Addr, inUse : BOOLEAN], NEW v \in BOOLEAN
    PROVE  /\ [r EXCEPT !.inUse = v] = [pointer |-> r.pointer, inUse |-> v]
           /\ [r EXCEPT !.inUse = v] \in [pointer : Addr, inUse : BOOLEAN]
           /\ [r EXCEPT !.inUse = v].pointer = r.pointer
  OBVIOUS

(* The driver takes a block of the pool.                                   *)
LEMMA AcquirePooledStep ==
    ASSUME LifecycleInv, AcquirePooled
    PROVE  LifecycleInv'
<1> USE DEF LifecycleInv
<1> DEFINE R == [pointer : Addr, inUse : BOOLEAN]
           s == pool.blocks
           t == pool'.blocks
<1>1. PICK i \in DOMAIN s :
        /\ Lendable(i)
        /\ pool' = [pool EXCEPT !.blocks = [s EXCEPT ![i].inUse = TRUE]]
        /\ holds' = holds \cup {s[i].pointer}
    BY DEF AcquirePooled
<1>2. /\ pc = "idle" /\ providerReady
      /\ UNCHANGED <<memory, broker, pair, cache, auto, provider, stale, control>>
    BY DEF AcquirePooled
<1>3. s \in Seq(R) /\ \A k \in DOMAIN s : s[k] \in R
    BY PoolTyped DEF TypeOK
<1>4. t = [s EXCEPT ![i].inUse = TRUE]
    BY <1>1, PoolTyped DEF TypeOK
<1>5. /\ DOMAIN t = DOMAIN s /\ t[i] = [pointer |-> s[i].pointer, inUse |-> TRUE]
      /\ \A k \in DOMAIN s : k # i => t[k] = s[k]
  <2> HIDE DEF s, t, R
  <2>1. DOMAIN t = DOMAIN s /\ t[i] = [s[i] EXCEPT !.inUse = TRUE]
        /\ \A k \in DOMAIN s : k # i => t[k] = s[k]
      BY <1>1, <1>4
  <2>2. s[i] \in [pointer : Addr, inUse : BOOLEAN]
      BY <1>1, <1>3 DEF R
  <2> QED
      BY <2>1, <2>2, BlockMarked
<1>6. t \in Seq(R)
  <2>1. s[i] \in [pointer : Addr, inUse : BOOLEAN]
      BY <1>1, <1>3
  <2>2. t[i] \in [pointer : Addr, inUse : BOOLEAN]
      BY <1>5, <2>1
  <2>3. \A k \in DOMAIN t : t[k] \in R
      BY <1>3, <1>5, <2>2
  <2> HIDE DEF s, t, R
  <2>4. s \in [1 .. Len(s) -> R] /\ Len(s) \in Nat
      BY <1>3
  <2>5. t \in [1 .. Len(s) -> R]
      BY <1>4, <1>5, <2>3, <2>4
  <2> QED
      BY <2>4, <2>5
<1>7. /\ TypeOK' /\ ControlOK' /\ Owners' /\ Bookkeeping' /\ Calls' /\ Pointing'
      /\ Lists' /\ Ending' /\ NotYet' /\ HalfBuilt' /\ Built'
  <2>1. \A k \in DOMAIN s : t[k].pointer = s[k].pointer
      BY <1>5
  <2>2. holds' \subseteq Addr
      BY <1>1, <1>3 DEF TypeOK
  <2>3. pool' = [pool EXCEPT !.blocks = t]
      BY <1>1, <1>4
  <2> QED
      BY <1>2, <1>5, <1>6, <2>1, <2>2, <2>3, LendingOnly
<1>8. DMAIsLent'
  <2> SUFFICES ASSUME NEW p \in holds', held'[p] # "driver"
               PROVE  \E k \in DOMAIN t : t[k] = [pointer |-> p, inUse |-> TRUE]
      BY DEF DMAIsLent
  <2>1. CASE p = s[i].pointer
      BY <1>1, <1>5, <2>1
  <2>2. CASE p # s[i].pointer
    <3>1. PICK k \in DOMAIN s : s[k] = [pointer |-> p, inUse |-> TRUE]
        BY <1>1, <1>2, <2>2 DEF DMAIsLent, memory
    <3>2. k # i
        BY <2>2, <3>1
    <3> QED
        BY <1>5, <3>1, <3>2
  <2> QED
      BY <2>1, <2>2
<1> QED
    BY <1>7, <1>8

(* The driver gives a buffer back.                                         *)
LEMMA ReleaseStep ==
    ASSUME LifecycleInv, providerReleaseDMA
    PROVE  LifecycleInv'
<1> USE DEF LifecycleInv
<1> DEFINE R == [pointer : Addr, inUse : BOOLEAN]
           s == pool.blocks
           t == pool'.blocks
<1>1. PICK p \in holds : Returns(p) /\ holds' = holds \ {p}
    BY DEF providerReleaseDMA
<1>2. /\ pc = "idle" /\ p \in Addr
      /\ UNCHANGED <<manager_ready, broker, pair, cache, auto, provider, stale, control>>
    BY DEF providerReleaseDMA, TypeOK
<1>3. s \in Seq(R) /\ \A k \in DOMAIN s : s[k] \in R
    BY PoolTyped DEF TypeOK
<1>4. CASE UNCHANGED <<held, pool>>
  <2>1. UNCHANGED <<memory, broker, pair, cache, auto, provider, control>>
      BY <1>2, <1>4 DEF memory
  <2>2. pool' = [pool EXCEPT !.blocks = pool'.blocks] /\ pool'.blocks \in Seq(R)
      BY <1>4 DEF TypeOK
  <2>3. /\ TypeOK' /\ ControlOK' /\ Owners' /\ Bookkeeping' /\ Calls' /\ Pointing'
        /\ Lists' /\ Ending' /\ NotYet' /\ HalfBuilt' /\ Built'
      BY <1>1, <1>2, <1>4, <2>1, <2>2, LendingOnly DEF TypeOK
  <2>4. DMAIsLent'
      BY <1>1, <1>4 DEF DMAIsLent
  <2> QED
      BY <2>3, <2>4
<1>5. CASE /\ UNCHANGED held
           /\ pool' = [pool EXCEPT !.blocks =
                [k \in DOMAIN s |-> IF s[k].pointer = p
                                    THEN [s[k] EXCEPT !.inUse = FALSE] ELSE s[k]]]
  <2>1. t = [k \in DOMAIN s |-> IF s[k].pointer = p
                                THEN [s[k] EXCEPT !.inUse = FALSE] ELSE s[k]]
      BY <1>5, PoolTyped DEF TypeOK
  <2>2. /\ DOMAIN t = DOMAIN s
        /\ \A k \in DOMAIN s : t[k] \in R /\ t[k].pointer = s[k].pointer
        /\ \A k \in DOMAIN s : s[k].pointer # p => t[k] = s[k]
    <3>1. DOMAIN t = DOMAIN s
        BY <2>1
    <3>2. ASSUME NEW k \in DOMAIN s
          PROVE  /\ t[k] \in R /\ t[k].pointer = s[k].pointer
                 /\ s[k].pointer # p => t[k] = s[k]
      <4>1. t[k] = IF s[k].pointer = p THEN [s[k] EXCEPT !.inUse = FALSE] ELSE s[k]
          BY <2>1
      <4>2. s[k] \in R
          BY <1>3
      <4> HIDE DEF s, t
      <4> QED
          BY <4>1, <4>2
    <3> QED
        BY <3>1, <3>2
  <2>3. t \in Seq(R)
    <3> HIDE DEF s, t, R
    <3>1. s \in [1 .. Len(s) -> R] /\ Len(s) \in Nat
        BY <1>3
    <3>2. t \in [1 .. Len(s) -> R]
        BY <2>1, <2>2, <3>1
    <3> QED
        BY <3>1, <3>2
  <2>4. UNCHANGED <<memory, broker, pair, cache, auto, provider, control>>
      BY <1>2, <1>5 DEF memory
  <2>5. /\ TypeOK' /\ ControlOK' /\ Owners' /\ Bookkeeping' /\ Calls' /\ Pointing'
        /\ Lists' /\ Ending' /\ NotYet' /\ HalfBuilt' /\ Built'
    <3>1. pool' = [pool EXCEPT !.blocks = t]
        BY <1>5, <2>1
    <3>2. holds' \subseteq Addr /\ holds' \subseteq holds /\ stale' \subseteq stale
        BY <1>1, <1>2 DEF TypeOK
    <3> QED
        BY <1>2, <2>2, <2>3, <2>4, <3>1, <3>2, LendingOnly
  <2>6. DMAIsLent'
    <3> SUFFICES ASSUME NEW q \in holds', held'[q] # "driver"
                 PROVE  \E k \in DOMAIN t : t[k] = [pointer |-> q, inUse |-> TRUE]
        BY DEF DMAIsLent
    <3>1. PICK k \in DOMAIN s : s[k] = [pointer |-> q, inUse |-> TRUE]
        BY <1>1, <1>5 DEF DMAIsLent
    <3>2. q # p
        BY <1>1
    <3> QED
        BY <2>2, <3>1, <3>2
  <2> QED
      BY <2>5, <2>6
<1>6. CASE ~(p \in Pointers /\ Owned(p)) /\ held' = Released({p}) /\ UNCHANGED pool
  <2>1. held[p] = "driver" /\ manager_ready
    <3>1. (\E k \in DOMAIN s : s[k] = [pointer |-> p, inUse |-> TRUE]) => p \in Pointers
        BY DEF Pointers
    <3>2. p \in Pointers => held[p] = "dma"
        BY <1>2 DEF Pointers, Owners
    <3>3. held[p] # "free" => manager_ready
        BY <1>2 DEF Bookkeeping
    <3>4. held[p] = "dma" => Owned(p)
        BY <1>2, <3>3, LifecycleConstants DEF Owned
    <3> QED
        BY <1>1, <1>6, <3>1, <3>2, <3>3, <3>4 DEF DMAIsLent
  <2>2. held' = [held EXCEPT ![p] = "free"]
      BY <1>6, <2>1 DEF Released, TypeOK
  <2>3. held' \in [Addr -> Holder] /\ Owners' /\ Bookkeeping'
      BY <1>2, <1>6, <2>1, <2>2, OthersBlocks
  <2>4. TypeOK'
    <3>1. UNCHANGED <<manager_ready, broker, pair, pool, cache, auto, stale>>
          /\ holds' \subseteq holds
        BY <1>1, <1>2, <1>6
    <3> QED
        BY <2>3, <3>1 DEF TypeOK
  <2>5. DMAIsLent'
      BY <1>1, <1>6, <2>2 DEF DMAIsLent, TypeOK
  <2>6. /\ todo' \in Seq(StepName) /\ Ordered(todo')
        /\ Lists' /\ Ending' /\ NotYet' /\ HalfBuilt' /\ Built'
      BY <1>2, <1>6, SameLeft DEF control, parts
  <2>7. AllEmpty' = AllEmpty
      BY <1>2, <1>6 DEF BrokerEmpty, PairEmpty, PoolEmpty, CacheEmpty, AllEmpty
  <2>8. ControlOK' /\ Calls' /\ Pointing'
      BY <1>1, <1>2, <2>6, <2>7 DEF ControlOK, Calls, Pointing, provider, control
  <2> QED
      BY <2>3, <2>4, <2>5, <2>6, <2>8
<1> QED
    BY <1>1, <1>4, <1>5, <1>6 DEF Returns

(* A pointer from before an end is refused: a driver that forgets it before*)
(* it begins again finds no provider that is ready.                        *)
LEMMA ReleaseStaleStep ==
    ASSUME LifecycleInv, ReleaseStale, ~KeepsPointers
    PROVE  LifecycleInv' /\ UNCHANGED <<held, pool>>
<1>1. PICK p \in stale : Returns(p) /\ stale' = stale \ {p}
    BY DEF ReleaseStale
<1>2. ~providerReady
    BY <1>1 DEF LifecycleInv, Pointing, providerReady
<1>3. UNCHANGED <<held, pool>>
    BY <1>1, <1>2 DEF Returns
<1>4. /\ UNCHANGED <<memory, parts, auto, todo, cfg, holds>> /\ stale' \subseteq stale
      /\ UNCHANGED <<provider, pc>> /\ stale' \subseteq Addr
    BY <1>1, <1>3 DEF ReleaseStale, memory, parts, control, LifecycleInv, TypeOK
<1>5. /\ TypeOK' /\ Owners' /\ DMAIsLent' /\ Bookkeeping'
      /\ todo' \in Seq(StepName) /\ Ordered(todo') /\ AllEmpty' = AllEmpty
      /\ Lists' /\ Ending' /\ NotYet' /\ HalfBuilt' /\ Built'
    BY <1>4, QuietCall
<1>6. ControlOK' /\ Calls' /\ Pointing'
    BY <1>4, <1>5 DEF LifecycleInv, ControlOK, Calls, Pointing, provider
<1> QED
    BY <1>3, <1>5, <1>6 DEF LifecycleInv

-----------------------------------------------------------------------------
(* What follows for every behaviour *)

(* The invariant holds before anybody has called begin().                  *)
LEMMA LifecycleInitially == Init => LifecycleInv
<1> SUFFICES ASSUME Init PROVE LifecycleInv
    OBVIOUS
<1> USE DEF Init, NoBroker, NoPair, NoPool, NoCache, NoConfig
<1>1. TypeOK
  <2>1. held \in [Addr -> Holder]
      BY DEF Holder
  <2>2. pool \in [managed : BOOLEAN, blocks : Seq([pointer : Addr, inUse : BOOLEAN])]
    <3>1. <<>> \in Seq([pointer : Addr, inUse : BOOLEAN])
        OBVIOUS
    <3> QED
        BY <3>1
  <2>3. /\ broker \in [begun : BOOLEAN, arena : Addr \cup {Null}, leases : SUBSET Addr]
        /\ broker.begun <=> broker.arena # Null
      OBVIOUS
  <2>4. /\ pair \in [managed : BOOLEAN, a : Addr \cup {Null}, b : Addr \cup {Null},
                     dims : Dims \cup {NoFrames}, a_is_front : BOOLEAN]
        /\ cache \in [managed : BOOLEAN, entries : SUBSET Addr]
        /\ auto \in [ready : BOOLEAN, frames : BOOLEAN, dma : BOOLEAN,
                     by : {"nobody", "sketch", "driver"}]
      OBVIOUS
  <2>5. manager_ready \in BOOLEAN /\ holds = {} /\ stale = {}
      OBVIOUS
  <2> HIDE DEF Init
  <2> QED
      BY <2>1, <2>2, <2>3, <2>4, <2>5 DEF TypeOK
<1>2. todo \in Seq(StepName) /\ Ordered(todo) /\ Left = {}
    BY ShortLists DEF Left
<1>3. ControlOK
    BY <1>2 DEF ControlOK
<1>4. Owners
    BY LifecycleConstants DEF Owners
<1>5. AllEmpty
    BY DEF AllEmpty, BrokerEmpty, PairEmpty, PoolEmpty, CacheEmpty
<1>6. DMAIsLent /\ Bookkeeping
    BY <1>5 DEF DMAIsLent, Bookkeeping, AllEmpty
<1>7. Calls /\ Pointing
    BY <1>5 DEF Calls, Pointing
<1>8. Lists /\ Ending /\ NotYet /\ HalfBuilt /\ Built
    BY <1>2 DEF Lists, Ending, NotYet, HalfBuilt, Built
<1> QED
    BY <1>1, <1>3, <1>4, <1>6, <1>7, <1>8 DEF LifecycleInv

(* Every step keeps it.                                                    *)
LEMMA LifecycleNext ==
    ASSUME ~EndsManager, ~KeepsPointers, LifecycleInv, [Next]_vars
    PROVE  LifecycleInv'
<1>1. CASE Step
    BY <1>1, BrokerEndsLeaseStep, BrokerEndsStep, PoolEndsStep, PairEndsStep, CacheEndsStep,
       FlagsResetStep, ManagerEndsStep, ManagerBeginsStep, BrokerBeginsStep, ArenaTakenStep,
       ArenaFailsStep, CacheBeginsStep, PairBeginsStep, FrameAStep, FrameBStep, FrameFailsStep,
       PoolBeginsStep, DMABlockStep, DMAFailsStep, ClientsRegisteredStep, ClientsFailStep
       DEF Step
<1>2. CASE Sketch
    BY <1>2, SketchBeginsStep, SketchEndsStep, SketchReturnsStep, SketchBeginsManagerStep,
       SketchEndsManagerStep, OthersStep, UseBrokerStep, UseCacheStep DEF Sketch
<1>3. CASE Driver
    BY <1>3, QuietCallsStep, UnlockStep, BeginStartsStep, BeginReturnsStep, EndStep, SwapStep,
       AcquirePooledStep, AcquireOwnStep, ReleaseStep, ReleaseStaleStep DEF Driver
<1>4. CASE UNCHANGED vars
  <2>1. /\ UNCHANGED <<memory, parts, auto, todo, cfg, holds>> /\ stale' \subseteq Addr
        /\ UNCHANGED <<provider, driver, pc>>
      BY <1>4 DEF vars, driver, control, LifecycleInv, TypeOK
  <2>2. /\ TypeOK' /\ Owners' /\ DMAIsLent' /\ Bookkeeping'
        /\ todo' \in Seq(StepName) /\ Ordered(todo') /\ AllEmpty' = AllEmpty
        /\ Lists' /\ Ending' /\ NotYet' /\ HalfBuilt' /\ Built'
      BY <2>1, QuietCall
  <2>3. ControlOK' /\ Calls' /\ Pointing'
      BY <2>1, <2>2 DEF LifecycleInv, ControlOK, Calls, Pointing, provider, driver
  <2> QED
      BY <2>2, <2>3 DEF LifecycleInv
<1> QED
    BY <1>1, <1>2, <1>3, <1>4 DEF Next

(* So it holds in every reachable state.                                   *)
LEMMA LifecycleAlways ==
    ASSUME ~EndsManager, ~KeepsPointers
    PROVE  Spec => []LifecycleInv
<1>1. LifecycleInv /\ [Next]_vars => LifecycleInv'
    BY LifecycleNext
<1> QED
    BY <1>1, LifecycleInitially, PTL DEF Spec

(* The pool has as many addresses as blocks.                               *)
LEMMA PointersDiffer ==
    ASSUME TypeOK, Owners
    PROVE  Cardinality(Pointers) = Len(pool.blocks)
<1> DEFINE n == Len(pool.blocks)
           f == [i \in 1 .. n |-> pool.blocks[i].pointer]
<1>1. n \in Nat /\ DOMAIN pool.blocks = 1 .. n
    BY PoolTyped
<1>2. Pointers = {f[i] : i \in 1 .. n}
    BY <1>1 DEF Pointers
<1>3. \A i, j \in 1 .. n : f[i] = f[j] => i = j
    BY <1>1 DEF Owners
<1>4. IsFiniteSet(1 .. n) /\ Cardinality(1 .. n) = n
    BY <1>1, FS_Interval
<1>5. f \in Bijection(1 .. n, Pointers)
  <2> f \in [1 .. n -> Pointers]
      BY <1>2
  <2> HIDE DEF f, n
  <2> QED
      BY <1>2, <1>3 DEF Bijection, Injection, Surjection, IsInjective
<1> HIDE DEF f, n
<1>6. Cardinality(Pointers) = Cardinality(1 .. n)
    BY <1>4, <1>5, FS_Bijection DEF ExistsBijection
<1> QED
    BY <1>4, <1>6 DEF n

(* It says that the parts agree with the blocks.                           *)
LEMMA AgreeByInvariant == LifecycleInv => PartsAgree
<1> SUFFICES ASSUME LifecycleInv PROVE OneOwner
    BY DEF PartsAgree, LifecycleInv
<1> USE DEF LifecycleInv
<1>1. DOMAIN Claims = {"control", "lease", "frame", "dma", "asset"}
    BY DEF Claims
<1>2. {x \in Addr : held[x] = "control"} = Claims["control"]
    BY LifecycleConstants DEF Claims, Owners, TypeOK
<1>3. {x \in Addr : held[x] = "lease"} = Claims["lease"]
    BY DEF Claims, Owners, TypeOK
<1>4. {x \in Addr : held[x] = "frame"} = Claims["frame"]
    BY LifecycleConstants DEF Claims, Owners, TypeOK
<1>5. {x \in Addr : held[x] = "dma"} = Claims["dma"]
  <2>1. Pointers \subseteq Addr
      BY PoolTyped DEF Pointers
  <2>2. \A x \in Addr : held[x] = "dma" <=> x \in Pointers
      BY DEF Owners, Pointers
  <2>3. Claims["dma"] = Pointers
      BY DEF Claims
  <2> QED
      BY <2>1, <2>2, <2>3
<1>6. {x \in Addr : held[x] = "asset"} = Claims["asset"]
    BY DEF Claims, Owners, TypeOK
<1>7. Cardinality(Pointers) = Len(pool.blocks) /\ (pair.a = pair.b => pair.a = Null)
    BY PointersDiffer DEF Owners
<1> QED
    BY <1>1, <1>2, <1>3, <1>4, <1>5, <1>6, <1>7 DEF OneOwner

(* At every step of begin(), of end() and of their failures the blocks that*)
(* lie in a part's name are those that the part knows, and what the driver *)
(* has acquired is lent to it: for any number of blocks, while no sketch   *)
(* ends the manager under AutoMemory and the driver forgets its old        *)
(* pointers when it begins.                                                *)
THEOREM PartsAlwaysAgree ==
    ASSUME ~EndsManager, ~KeepsPointers
    PROVE  Spec => []PartsAgree
  BY LifecycleAlways, AgreeByInvariant, PTL

(* An AutoMemory that is ready has every part it was asked for.            *)
LEMMA WholeByInvariant == LifecycleInv => ReadyIsWhole
<1> SUFFICES ASSUME LifecycleInv, auto.ready PROVE ReadyIsWhole
    BY DEF ReadyIsWhole
<1> USE DEF LifecycleInv
<1>1. Left = {}
    BY AtRest DEF Calls
<1>2. /\ manager_ready /\ cache.managed /\ (cfg.broker => broker.begun)
      /\ IF cfg.frames = NoFrames THEN PairEmpty
         ELSE pair.a # Null /\ pair.b # Null /\ pair.dims = cfg.frames /\ auto.frames
      /\ Len(pool.blocks) = cfg.dma /\ (auto.dma <=> cfg.dma # 0)
    BY <1>1 DEF Built
<1>3. cfg.broker => BrokerReady
    BY <1>2 DEF BrokerReady, Owned, TypeOK, Owners
<1>4. cfg.frames # NoFrames => PairReady
    BY <1>2 DEF PairReady, Owned, TypeOK, Owners, Bookkeeping, PairEmpty
<1>5. auto.dma = (cfg.dma # 0)
    BY <1>2 DEF TypeOK
<1> QED
    BY <1>2, <1>3, <1>4, <1>5 DEF ReadyIsWhole

(* And that an instance which is not ready has nothing.                    *)
LEMMA NothingByInvariant == LifecycleInv => NothingLeftBehind
<1> SUFFICES ASSUME LifecycleInv, pc = "idle", ~auto.ready
             PROVE  \A who \in DOMAIN Claims : Claims[who] = {}
    BY DEF NothingLeftBehind
<1> USE DEF LifecycleInv
<1>1. AllEmpty
    BY DEF Calls
<1>2. Pointers = {}
    BY <1>1 DEF AllEmpty, PoolEmpty, Pointers
<1>3. broker.arena = Null
    BY <1>1 DEF AllEmpty, BrokerEmpty, TypeOK
<1>4. \A who \in {"control", "lease", "frame", "dma", "asset"} : Claims[who] = {}
    BY <1>1, <1>2, <1>3 DEF AllEmpty, BrokerEmpty, PairEmpty, CacheEmpty, Claims
<1> QED
    BY <1>4 DEF Claims

(* A begin() that fails, wherever it fails, and an end() leave no part with*)
(* a pointer; a begin() that succeeds has built all it was asked for.      *)
THEOREM BeginIsAllOrNothing ==
    ASSUME ~EndsManager, ~KeepsPointers
    PROVE  Spec => []AllOrNothing
<1>1. LifecycleInv => AllOrNothing
    BY WholeByInvariant, NothingByInvariant DEF AllOrNothing
<1> QED
    BY <1>1, LifecycleAlways, PTL

-----------------------------------------------------------------------------
(* AutoMemory as DriverTakeover has it *)

(* What the step does to the state that DriverTakeover speaks of.          *)
Task == {"loop", "runtime"}
Where == [t \in Task |-> IF t = "loop" /\ pc # "sketch" THEN pc ELSE "idle"]
Flags == IF auto.ready THEN [ready |-> TRUE, frames |-> cfg.frames, by |-> auto.by]
         ELSE [ready |-> FALSE, frames |-> NoFrames, by |-> "nobody"]

(* Where the loop task goes.                                               *)
LEMMA Goes ==
    ASSUME NEW p, NEW q, p # "sketch", q # "sketch", pc = p, pc' = q
    PROVE  Where["loop"] = p /\ Where' = [Where EXCEPT !["loop"] = q]
  BY DEF Where, Task

(* A step that DriverTakeover does not see.                                *)
LEMMA Unseen ==
    ASSUME UNCHANGED provider, Flags' = Flags, Where' = Where
    PROVE  UNCHANGED Takeover!vars
  BY DEF provider, Flags, Where, Task, Takeover!vars, Takeover!flags

(* Nobody has begun anything: the takeover starts there, too.              *)
LEMMA TakeoverInitially == Init => Takeover!Init
  BY DEF Init, Takeover!Init, Takeover!Ended, Takeover!Task

(* What happens inside a begin() or end() is not seen from the takeover.   *)
LEMMA StepUnseen ==
    ASSUME LifecycleInv, Step
    PROVE  UNCHANGED Takeover!vars
<1>1. UNCHANGED <<pc, cfg, provider>> /\ todo # <<>>
    BY DEF Step, Doing, BrokerEndsLease, BrokerEnds, PoolEnds, PairEnds,
       CacheEnds, FlagsReset, ManagerEnds, ManagerBegins, BrokerBegins, ArenaTaken, ArenaFails,
       CacheBegins, PairBegins, FrameA, FrameB, FrameFails, PoolBegins, DMABlock, DMAFails,
       ClientsRegistered, ClientsFail
<1>2. auto'.ready = auto.ready
    BY DEF Step, LifecycleInv, TypeOK, BrokerEndsLease, BrokerEnds, PoolEnds, PairEnds,
       CacheEnds, FlagsReset, ManagerEnds, ManagerBegins, BrokerBegins, ArenaTaken, ArenaFails,
       CacheBegins, PairBegins, FrameA, FrameB, FrameFails, PoolBegins, DMABlock, DMAFails,
       ClientsRegistered, ClientsFail
<1>3. ~auto.ready
    BY <1>1 DEF LifecycleInv, Calls
<1> QED
    BY <1>1, <1>2, <1>3, Unseen DEF Flags, Where

(* A call of the sketch is one of the takeover's steps, or none.           *)
LEMMA SketchSeen ==
    ASSUME LifecycleInv, Sketch
    PROVE  [Takeover!Next]_(Takeover!vars)
<1> USE DEF LifecycleInv
<1>1. CASE SketchBegins \/ SketchEnds
  <2>1. ~auto'.ready /\ Where["loop"] = "idle" /\ Where' = Where /\ UNCHANGED provider
      BY <1>1 DEF SketchBegins, SketchEnds, TypeOK, Where, Task
  <2>2. Takeover!SketchEnds
      BY <2>1 DEF Takeover!SketchEnds, Takeover!At, Takeover!Ended, Takeover!flags, provider,
         Where, Task
  <2> QED
      BY <2>2 DEF Takeover!Next
<1>2. CASE SketchReturns
  <2>1. /\ todo # <<>> /\ ~auto.ready /\ ~bridge_active /\ Where["loop"] = "idle"
        /\ Where' = Where /\ UNCHANGED <<provider, cfg>>
      BY <1>2 DEF SketchReturns, Calls, Where, Task
  <2>2. CASE auto' = [auto EXCEPT !.ready = TRUE, !.by = "sketch"]
    <3>1. auto'.ready /\ auto'.by = "sketch" /\ cfg.frames \in Dims \cup {NoFrames}
        BY <2>2 DEF TypeOK, ControlOK
    <3>2. Takeover!SketchBegins
        BY <2>1, <3>1 DEF Takeover!SketchBegins, Takeover!At, Takeover!Begun, Takeover!flags,
           provider, Where, Task
    <3> QED
        BY <3>2 DEF Takeover!Next
  <2>3. CASE UNCHANGED auto
      BY <2>1, <2>3, Unseen DEF Flags
  <2> QED
      BY <1>2, <2>2, <2>3 DEF SketchReturns
<1>3. CASE \/ SketchBeginsManager \/ SketchEndsManager \/ OthersAllocate \/ OthersRelease
           \/ UseBroker \/ UseCache
  <2>1. UNCHANGED <<auto, provider, control>>
      BY <1>3 DEF SketchBeginsManager, SketchEndsManager, OthersAllocate, OthersRelease,
         UseBroker, UseCache
  <2> QED
      BY <2>1, Unseen DEF control, Flags, Where
<1> QED
    BY <1>1, <1>2, <1>3 DEF Sketch

(* So is a call of the driver.                                             *)
LEMMA DriverSeen ==
    ASSUME LifecycleInv, Driver
    PROVE  [Takeover!Next]_(Takeover!vars)
<1> USE DEF LifecycleInv
<1> USE DEF Takeover!At, Takeover!Goto, Takeover!flags
<1>1. CASE providerBegin
  <2>1. /\ pc = "idle" /\ pc' = "begin" /\ ~bridge_active /\ dims' \in Dims \cup {BadCall}
        /\ UNCHANGED <<auto, cfg, bridge_active, started_by_bridge, accepted>>
      BY <1>1 DEF providerBegin, Call
  <2>2. Where["loop"] = "idle" /\ Where' = [Where EXCEPT !["loop"] = "begin"]
      BY <2>1, Goes
  <2>3. Takeover!providerBegin
      BY <2>1, <2>2 DEF Takeover!providerBegin, Takeover!Call, Where, Task
  <2> QED
      BY <2>3 DEF Takeover!Next
<1>2. CASE providerEnd
  <2>1. /\ pc = "idle" /\ pc' = "end"
        /\ UNCHANGED <<auto, cfg, bridge_active, started_by_bridge, accepted, dims>>
      BY <1>2 DEF providerEnd, Call
  <2>2. Where["loop"] = "idle" /\ Where' = [Where EXCEPT !["loop"] = "end"]
      BY <2>1, Goes
  <2>3. Takeover!providerEnd
      BY <2>1, <2>2 DEF Takeover!providerEnd, Takeover!Call, Where, Task
  <2> QED
      BY <2>3 DEF Takeover!Next
<1>3. CASE Enter
  <2>1. UNCHANGED <<auto, provider, cfg>>
      BY <1>3 DEF Enter
  <2>2. CASE pc = "begin" /\ pc' = "beginning"
    <3>1. Where["loop"] = "begin" /\ Where' = [Where EXCEPT !["loop"] = "beginning"]
        BY <2>2, Goes
    <3>2. Takeover!Enter
        BY <2>1, <3>1 DEF Takeover!Enter, Takeover!Lock, Where, Task, provider
    <3> QED
        BY <3>2 DEF Takeover!Next, Takeover!Provider
  <2>3. CASE pc = "end" /\ pc' = "ending"
    <3>1. Where["loop"] = "end" /\ Where' = [Where EXCEPT !["loop"] = "ending"]
        BY <2>3, Goes
    <3>2. Takeover!Enter
        BY <2>1, <3>1 DEF Takeover!Enter, Takeover!Lock, Where, Task, provider
    <3> QED
        BY <3>2 DEF Takeover!Next, Takeover!Provider
  <2> QED
      BY <1>3, <2>2, <2>3 DEF Enter
<1>4. CASE Unlock
  <2>1. pc = "unlock" /\ pc' = "idle" /\ UNCHANGED <<auto, provider, cfg>>
      BY <1>4 DEF Unlock
  <2>2. Where["loop"] = "unlock" /\ Where' = [Where EXCEPT !["loop"] = "idle"]
      BY <2>1, Goes
  <2>3. Takeover!Unlock("loop")
      BY <2>1, <2>2 DEF Takeover!Unlock, Where, Task, provider
  <2> QED
      BY <2>3 DEF Takeover!Next, Takeover!Provider
<1>5. CASE BeginRefused
  <2>1. /\ pc = "beginning" /\ pc' = "unlock" /\ todo = <<>>
        /\ UNCHANGED <<auto, provider, cfg>>
      BY <1>5 DEF BeginRefused
  <2>2. Where["loop"] = "beginning" /\ Where' = [Where EXCEPT !["loop"] = "unlock"]
      BY <2>1, Goes
  <2>3. dims # BadCall => auto.ready /\ cfg.frames # dims
    <3>1. CASE dims # BadCall /\ auto.ready /\ ~(PairReady /\ pair.dims = dims)
      <4>1. dims \in Dims /\ dims # NoFrames
          BY <2>1, <3>1, LifecycleConstants DEF Calls
      <4> QED
          BY <3>1, <4>1, WholeByInvariant DEF ReadyIsWhole
    <3> QED
        BY <1>5, <3>1 DEF BeginRefused
  <2>4. Takeover!BeginRefused
      BY <2>1, <2>2, <2>3 DEF Takeover!BeginRefused, Takeover!Mine, Takeover!Replaceable,
         Where, Task, provider
  <2> QED
      BY <2>4 DEF Takeover!Next, Takeover!Provider
<1>6. CASE BeginAdopts
  <2>1. /\ pc = "beginning" /\ pc' = "unlock" /\ todo = <<>> /\ dims # BadCall
        /\ auto.ready /\ PairReady /\ pair.dims = dims
        /\ bridge_active' = TRUE /\ started_by_bridge' = FALSE /\ accepted' = dims
        /\ UNCHANGED <<auto, cfg, dims>>
      BY <1>6 DEF BeginAdopts
  <2>2. Where["loop"] = "beginning" /\ Where' = [Where EXCEPT !["loop"] = "unlock"]
      BY <2>1, Goes
  <2>3. cfg.frames = dims
    <3>1. Left = {}
        BY <2>1, AtRest
    <3>2. cfg.frames = NoFrames => PairEmpty
        BY <2>1, <3>1 DEF Built
    <3>3. ~PairEmpty
        BY <2>1 DEF PairReady, Owned, PairEmpty
    <3> QED
        BY <2>1, <3>2, <3>3, WholeByInvariant DEF ReadyIsWhole
  <2>4. Takeover!BeginAdopts
      BY <2>1, <2>2, <2>3 DEF Takeover!BeginAdopts, Takeover!Mine, Where, Task
  <2> QED
      BY <2>4 DEF Takeover!Next, Takeover!Provider
<1>7. CASE BeginStarts
    BY <1>7, Unseen DEF BeginStarts, Flags, Where
<1>8. CASE BeginReturns
  <2>1. /\ pc = "beginning" /\ pc' = "unlock" /\ todo # <<>>
        /\ ~auto.ready /\ cfg.frames = dims /\ dims # BadCall /\ UNCHANGED <<cfg, dims>>
      BY <1>8 DEF BeginReturns, Calls
  <2>2. Where["loop"] = "beginning" /\ Where' = [Where EXCEPT !["loop"] = "unlock"]
      BY <2>1, Goes
  <2>3. CASE /\ auto' = [auto EXCEPT !.ready = TRUE, !.by = "driver"]
             /\ bridge_active' = TRUE /\ started_by_bridge' = TRUE /\ accepted' = dims
    <3>1. auto'.ready /\ auto'.by = "driver"
        BY <2>3 DEF TypeOK
    <3>2. Takeover!BeginStarts
        BY <2>1, <2>2, <2>3, <3>1 DEF Takeover!BeginStarts, Takeover!Begun, Where, Task
    <3> QED
        BY <3>2 DEF Takeover!Next, Takeover!Provider
  <2>4. CASE UNCHANGED <<auto, bridge_active, started_by_bridge, accepted>>
    <3>1. Takeover!BeginStarts
        BY <2>1, <2>2, <2>4 DEF Takeover!BeginStarts, Where, Task
    <3> QED
        BY <3>1 DEF Takeover!Next, Takeover!Provider
  <2> QED
      BY <1>8, <2>3, <2>4 DEF BeginReturns
<1>9. CASE End
  <2>1. /\ pc = "ending" /\ pc' = "unlock"
        /\ bridge_active' = FALSE /\ started_by_bridge' = FALSE
        /\ auto'.ready = (auto.ready /\ ~started_by_bridge) /\ auto'.by = auto.by
        /\ UNCHANGED <<accepted, dims, cfg>>
      BY <1>9 DEF End, TypeOK, ControlOK
  <2>2. Where["loop"] = "ending" /\ Where' = [Where EXCEPT !["loop"] = "unlock"]
      BY <2>1, Goes
  <2>3. Takeover!End
      BY <2>1, <2>2 DEF Takeover!End, Takeover!Ended, Where, Task
  <2> QED
      BY <2>3 DEF Takeover!Next, Takeover!Provider
<1>10. CASE providerSwap \/ AcquirePooled \/ AcquireOwn \/ providerReleaseDMA \/ ReleaseStale
  <2>1. UNCHANGED <<auto, provider, control>>
      BY <1>10 DEF providerSwap, AcquirePooled, AcquireOwn, providerReleaseDMA, ReleaseStale
  <2> QED
      BY <2>1, Unseen DEF control, Flags, Where
<1> QED
    BY <1>1, <1>2, <1>3, <1>4, <1>5, <1>6, <1>7, <1>8, <1>9, <1>10 DEF Driver

(* To whoever looks at the flags alone, begin() and end() succeed or fail  *)
(* as a whole: the lifecycle implements DriverTakeover, and what is proved *)
(* of the takeover there holds of the lifecycle here.                      *)
THEOREM ImplementsTakeover ==
    ASSUME ~EndsManager, ~KeepsPointers
    PROVE  Spec => TakeoverSpec
<1>1. LifecycleInv /\ [Next]_vars => [Takeover!Next]_(Takeover!vars)
  <2> SUFFICES ASSUME LifecycleInv, [Next]_vars PROVE [Takeover!Next]_(Takeover!vars)
      OBVIOUS
  <2>1. CASE UNCHANGED vars
      BY <2>1, Unseen DEF vars, control, Flags, Where
  <2> QED
      BY <2>1, StepUnseen, SketchSeen, DriverSeen DEF Next
<1> QED
    BY <1>1, LifecycleAlways, TakeoverInitially, PTL DEF Spec, TakeoverSpec, Takeover!Spec
=============================================================================
