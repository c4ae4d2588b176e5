--------------------------- MODULE DriverTakeover ---------------------------
(***************************************************************************)
(* Who owns the AutoMemory singleton: the include-only background runtime  *)
(* (src/src/NV3047_AutoRuntime.cpp), the display driver through the        *)
(* provider bridge (src/src/NV3047_DriverTakeover.cpp) or the sketch.      *)
(*                                                                         *)
(* Two tasks share it: the Arduino loop task, in which the driver and the  *)
(* sketch run, and the runtime's own.  runtime_mutex is held over every    *)
(* provider call that changes something and over each pass of the runtime. *)
(* The sketch's AutoMemory::begin() and end() do not take it; they are     *)
(* modelled for sketches that disable the runtime, as the README tells     *)
(* them to, and outside a driver takeover in the case of begin().          *)
(*                                                                         *)
(* AutoMemory::begin() brings up manager, broker, cache, framebuffers and  *)
(* DMA pool, or takes down again what it brought up; here it succeeds or   *)
(* fails as a whole.                                                       *)
(***************************************************************************)
CONSTANTS
    Dims,       \* framebuffer dimensions the driver can be built for
    NoFrames,   \* an AutoMemory without framebuffers
    BadCall,    \* a providerBegin whose other arguments are refused
    Rebegins    \* whether the driver may begin twice without an end

ASSUME TakeoverConstants ==
    /\ NoFrames \notin Dims
    /\ BadCall \notin Dims \cup {NoFrames}
    /\ Rebegins \in BOOLEAN

VARIABLES
    installed,          \* the runtime task and its mutex exist
    mutex,              \* holder of runtime_mutex
    bridge_active,
    started_by_bridge,
    minimal_mode_owned,
    automatic,          \* the AutoMemory singleton, and who has begun it
    accepted,           \* dimensions of the driver's last successful begin
    pc,
    dims                \* argument of the current providerBegin

flags == <<bridge_active, started_by_bridge, minimal_mode_owned>>
vars == <<installed, mutex, flags, automatic, accepted, pc, dims>>

Task == {"loop", "runtime"}
Ended == [ready |-> FALSE, frames |-> NoFrames, by |-> "nobody"]
Begun(f, who) == [ready |-> TRUE, frames |-> f, by |-> who]

providerReady == bridge_active /\ automatic.ready /\ automatic.frames # NoFrames

Init ==
    /\ installed \in BOOLEAN
    /\ mutex = "nobody"
    /\ bridge_active = FALSE
    /\ started_by_bridge = FALSE
    /\ minimal_mode_owned = FALSE
    /\ automatic = Ended
    /\ accepted = NoFrames
    /\ pc = [t \in Task |-> "idle"]
    /\ dims = NoFrames

Goto(t, l) == pc' = [pc EXCEPT ![t] = l]
At(t, l) == pc[t] = l /\ UNCHANGED installed

-----------------------------------------------------------------------------
(* runtime_mutex; without a runtime there is none and locking succeeds *)

Lock(t, l) ==
    /\ IF installed THEN mutex = "nobody" /\ mutex' = t ELSE UNCHANGED mutex
    /\ Goto(t, l)
    /\ UNCHANGED <<flags, automatic, accepted, dims>>
Unlock(t) ==
    /\ At(t, "unlock")
    /\ mutex' = IF mutex = t THEN "nobody" ELSE mutex
    /\ Goto(t, "idle")
    /\ UNCHANGED <<flags, automatic, accepted, dims>>

-----------------------------------------------------------------------------
(* The background runtime *)

(* A variant that does not take the mutex. *)
Pass_NoMutex ==
    /\ At("runtime", "idle")
    /\ installed
    /\ Goto("runtime", "inside")
    /\ UNCHANGED <<mutex, flags, automatic, accepted, dims>>
Pass ==
    /\ At("runtime", "idle")
    /\ installed
    /\ Lock("runtime", "inside")

(* A variant that stands aside too when nothing is running. *)
Look_NeverStarts ==
    /\ At("runtime", "inside")
    /\ Goto("runtime", IF ~automatic.ready \/ bridge_active THEN "unlock" ELSE "service")
    /\ UNCHANGED <<mutex, flags, automatic, accepted, dims>>
(* Under the mutex: start, stand aside or service. *)
Look ==
    /\ At("runtime", "inside")
    /\ Goto("runtime", IF ~automatic.ready THEN "start"
                       ELSE IF bridge_active THEN "unlock" ELSE "service")
    /\ UNCHANGED <<mutex, flags, automatic, accepted, dims>>

(* startMinimalAutomaticMemory *)
StartMinimal ==
    /\ At("runtime", "start")
    /\ automatic' = Begun(NoFrames, "runtime")
    /\ minimal_mode_owned' = TRUE
    /\ Goto("runtime", "unlock")
    /\ UNCHANGED <<mutex, bridge_active, started_by_bridge, accepted, dims>>
StartFails ==
    /\ At("runtime", "start")
    /\ automatic' = Ended
    /\ Goto("runtime", "unlock")
    /\ UNCHANGED <<mutex, flags, accepted, dims>>

Serviced ==
    /\ At("runtime", "service")
    /\ Goto("runtime", "unlock")
    /\ UNCHANGED <<mutex, flags, automatic, accepted, dims>>

-----------------------------------------------------------------------------
(* The driver, through the provider *)

Call(l) == Goto("loop", l) /\ UNCHANGED <<mutex, flags, automatic, accepted>>

providerBegin ==
    /\ At("loop", "idle")
    /\ bridge_active => Rebegins
    /\ dims' \in Dims \cup {BadCall}
    /\ Call("begin")
providerEnd == At("loop", "idle") /\ Call("end") /\ UNCHANGED dims
providerService ==
    /\ At("loop", "idle")
    /\ providerReady
    /\ Call("frame")
    /\ UNCHANGED dims

Enter ==
    \/ At("loop", "begin") /\ Lock("loop", "beginning")
    \/ At("loop", "end") /\ Lock("loop", "ending")
    \/ At("loop", "frame") /\ Lock("loop", "unlock")

(* Refused: bad arguments, other dimensions, or somebody else's instance. *)
Replaceable == automatic.frames = NoFrames /\ minimal_mode_owned
Mine == automatic.frames = dims
BeginRefused ==
    /\ At("loop", "beginning")
    /\ \/ dims = BadCall
       \/ automatic.ready /\ ~Mine /\ ~Replaceable
    /\ Goto("loop", "unlock")
    /\ UNCHANGED <<mutex, flags, automatic, accepted, dims>>

(* An instance that has framebuffers is used as it is.  The variant does   *)
(* not compare dimensions.                                                 *)
BeginAdopts_AnySize ==
    /\ At("loop", "beginning")
    /\ dims # BadCall
    /\ automatic.ready /\ automatic.frames # NoFrames
    /\ bridge_active' = TRUE
    /\ started_by_bridge' = FALSE
    /\ accepted' = dims
    /\ Goto("loop", "unlock")
    /\ UNCHANGED <<mutex, minimal_mode_owned, automatic, dims>>
BeginAdopts ==
    /\ At("loop", "beginning")
    /\ automatic.ready /\ Mine
    /\ bridge_active' = TRUE
    /\ started_by_bridge' = FALSE
    /\ accepted' = dims
    /\ Goto("loop", "unlock")
    /\ UNCHANGED <<mutex, minimal_mode_owned, automatic, dims>>

(* The runtime's lightweight instance is ended, the mark that it is one    *)
(* cleared.  The variant ends any that has no framebuffers.                *)
BeginReplaces_Any ==
    /\ At("loop", "beginning")
    /\ dims # BadCall
    /\ automatic.ready /\ automatic.frames = NoFrames
    /\ automatic' = Ended
    /\ minimal_mode_owned' = FALSE
    /\ UNCHANGED <<mutex, bridge_active, started_by_bridge, accepted, pc, dims>>
BeginReplaces ==
    /\ At("loop", "beginning")
    /\ dims # BadCall
    /\ automatic.ready /\ Replaceable
    /\ automatic' = Ended
    /\ minimal_mode_owned' = FALSE
    /\ UNCHANGED <<mutex, bridge_active, started_by_bridge, accepted, pc, dims>>

BeginStarts ==
    /\ At("loop", "beginning")
    /\ dims # BadCall
    /\ ~automatic.ready
    /\ \/ /\ automatic' = Begun(dims, "driver")
          /\ bridge_active' = TRUE
          /\ started_by_bridge' = TRUE
          /\ accepted' = dims
       \/ UNCHANGED <<automatic, bridge_active, started_by_bridge, accepted>>
    /\ Goto("loop", "unlock")
    /\ UNCHANGED <<mutex, minimal_mode_owned, dims>>

(* The variant forgets who has started the instance before it asks. *)
End_ForgetsFirst ==
    /\ At("loop", "ending")
    /\ bridge_active' = FALSE
    /\ started_by_bridge' = FALSE
    /\ automatic' = IF started_by_bridge' /\ automatic.ready THEN Ended ELSE automatic
    /\ Goto("loop", "unlock")
    /\ UNCHANGED <<mutex, minimal_mode_owned, accepted, dims>>
End ==
    /\ At("loop", "ending")
    /\ bridge_active' = FALSE
    /\ started_by_bridge' = FALSE
    /\ automatic' = IF started_by_bridge /\ automatic.ready THEN Ended ELSE automatic
    /\ Goto("loop", "unlock")
    /\ UNCHANGED <<mutex, minimal_mode_owned, accepted, dims>>

-----------------------------------------------------------------------------
(* A sketch that has disabled the runtime manages AutoMemory itself *)

SketchBegins ==
    /\ At("loop", "idle")
    /\ ~installed /\ ~bridge_active
    /\ \/ \E f \in Dims \cup {NoFrames} : automatic' = Begun(f, "sketch")
       \/ automatic' = Ended
    /\ UNCHANGED <<mutex, flags, accepted, pc, dims>>
SketchEnds ==
    /\ At("loop", "idle")
    /\ ~installed
    /\ automatic' = Ended
    /\ UNCHANGED <<mutex, flags, accepted, pc, dims>>

-----------------------------------------------------------------------------
Runtime == Pass \/ Look \/ StartMinimal \/ StartFails \/ Serviced \/ Unlock("runtime")
Provider == \/ Enter \/ BeginRefused \/ BeginAdopts \/ BeginReplaces
            \/ BeginStarts \/ End \/ Unlock("loop")
Next == \/ Runtime \/ Provider
        \/ providerBegin \/ providerEnd \/ providerService
        \/ SketchBegins \/ SketchEnds

Spec == Init /\ [][Next]_vars

(* A task that waits for the mutex gets it: FreeRTOS hands it to the       *)
(* longest waiting of two tasks of equal priority.  A lightweight start,   *)
(* which allocates no more than the broker's tables, does not fail forever.*)
FairSpec ==
    /\ Spec
    /\ WF_vars(Runtime) /\ SF_vars(Pass) /\ SF_vars(StartMinimal)
    /\ WF_vars(Provider) /\ SF_vars(Enter)

-----------------------------------------------------------------------------
(* Properties *)

(* Every variable has its type. *)
TypeOK ==
    /\ mutex \in Task \cup {"nobody"}
    /\ <<installed, bridge_active, started_by_bridge, minimal_mode_owned>>
         \in BOOLEAN \X BOOLEAN \X BOOLEAN \X BOOLEAN
    /\ automatic \in [ready : BOOLEAN, frames : Dims \cup {NoFrames},
                      by : {"nobody", "runtime", "driver", "sketch"}]
    /\ accepted \in Dims \cup {NoFrames}
    /\ dims \in Dims \cup {NoFrames, BadCall}
    /\ pc \in [Task -> {"idle", "inside", "start", "service", "unlock", "begin",
                        "end", "frame", "beginning", "ending"}]

(* INTEGRATION_PLAN: "While the external NV3047 driver takeover is active, *)
(* background full reclaim is suppressed".  The runtime is never in the    *)
(* middle of a service pass while the bridge is active, whichever of the   *)
(* two came first.                                                         *)
NoReclaimBehindTheDriver == pc["runtime"] = "service" => ~bridge_active

(* What the provider reports ready has the dimensions the driver asked for *)
(* last: nobody else's framebuffers are passed off as the driver's.        *)
DriverGetsItsFrames == providerReady => automatic.frames = accepted

(* The comment in providerEnd: "If the bridge started the full framebuffer/*)
(* DMA configuration it also tears it down."  Once the driver has ended,   *)
(* no instance that the driver has begun remains.                          *)
BridgeTearsDown ==
    ~bridge_active /\ pc["loop"] = "idle" => automatic.by # "driver"

(* The comment in providerBegin: "A manually-created AutoMemory instance   *)
(* is not silently destroyed": whatever the driver calls, the instance of a*)
(* sketch that runs without the background runtime stays as it was.        *)
ManualInstanceKept ==
    [][automatic.by = "sketch" /\ pc["loop"] # "idle" => UNCHANGED automatic]_vars

(* README: the runtime "returns to lightweight mode if the driver-owned    *)
(* configuration is later shut down", or could not be started.             *)
LightweightRestored == installed /\ ~automatic.ready ~> automatic.ready
=============================================================================
