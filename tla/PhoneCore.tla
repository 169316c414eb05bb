----------------------------- MODULE PhoneCore -----------------------------
(***************************************************************************)
(* The C interface of rickynet-core (lib.rs): rn_start and rn_stop on any  *)
(* thread of the app, the INSTANCE they guard, the core thread each start  *)
(* creates (run_runtime, serve) and the desktops that connect to it.  What *)
(* happens inside one connection is Link.tla.                              *)
(*                                                                         *)
(* A caller is at  idle -> start -> spawn -> wait (-> join) -> idle        *)
(*             or  idle -> stop -> stopping -> idle;                       *)
(* a core at  none -> spawned -> accept <-> bridge -> closing -> exited.   *)
(***************************************************************************)
EXTENDS Integers, Sequences, SequencesExt

CONSTANTS
    Callers,     \* threads of the app that may call the interface
    NoCaller,
    Transports,  \* transport arguments rn_start may be given
    MaxStarts,   \* bound on the cores ever spawned
    Desktops,    \* desktops that may connect
    CoreFaults   \* "runtime", "port", "slow"

ASSUME PhoneCoreAssumption ==
    /\ NoCaller \notin Callers
    /\ MaxStarts \in Nat
    /\ "usb" \in Transports
    /\ CoreFaults \subseteq {"runtime", "port", "slow"}

Cores == 1..MaxStarts
NoCore == 0

VARIABLES
    lock,     \* who holds INSTANCE's mutex
    inst,     \* the core INSTANCE names
    caller,   \* per caller: where it is, the core in its hands, its last code
    core,     \* per core: where it is, its transport, its readiness message,
              \* its shutdown flag, whether it has connection tasks, and its
              \* established connections, of which bridge() drives the first
    gone,     \* desktops that closed a connection the core still holds
    counted,  \* history: cores whose bytes are in the counters
    late      \* history: cores alive when the counters were last reset

vars == <<lock, inst, caller, core, gone, counted, late>>

Code == {"none", "ok", "not running", "already running", "bind", "runtime"}
Caller == [at : {"idle", "start", "spawn", "wait", "join", "stop", "stopping"},
           core : Cores \cup {NoCore}, code : Code]
Core == [at : {"none", "spawned", "accept", "bridge", "closing", "exited"},
         transport : Transports, ready : {"none", "ok", "err"},
         shutdown : BOOLEAN, tasks : BOOLEAN, queue : Seq(Desktops)]

At(g, where) == core[g].at \in where
Listening == {g \in Cores : At(g, {"accept", "bridge"})}
Alive     == {g \in Cores : ~At(g, {"none", "exited"})}
Connected == UNION {ToSet(core[g].queue) : g \in Cores}
Waiting(d) == \E g \in Cores :
    d \in ToSet(core[g].queue) /\ ~(At(g, {"bridge"}) /\ d = Head(core[g].queue))

Init ==
    /\ lock = NoCaller /\ inst = NoCore
    /\ caller = [c \in Callers |-> [at |-> "idle", core |-> NoCore, code |-> "none"]]
    /\ core = [g \in Cores |-> [at |-> "none", transport |-> "usb", ready |-> "none",
                                shutdown |-> FALSE, tasks |-> FALSE, queue |-> <<>>]]
    /\ gone = {} /\ counted = {} /\ late = {}

-----------------------------------------------------------------------------
(* The callers. *)

Goto(c, from, to) == caller[c].at = from /\ caller' = [caller EXCEPT ![c].at = to]
Return(c, from, code) ==
    /\ caller[c].at = from
    /\ caller' = [caller EXCEPT ![c] = [at |-> "idle", core |-> NoCore, code |-> code]]

Call(c, entry) ==
    /\ caller[c].at = "idle"
    /\ caller' = [caller EXCEPT ![c] = [at |-> entry, core |-> NoCore, code |-> "none"]]
    /\ UNCHANGED <<lock, inst, core, gone, counted, late>>

KeepCounters == UNCHANGED counted  \* mutant: they go on from the last session
ResetCounters == counted' = {}

(* rn_start takes the lock and keeps it until it returns. *)
StartLocks(c) ==
    /\ lock = NoCaller /\ inst = NoCore
    /\ Goto(c, "start", "spawn")
    /\ lock' = c
    /\ ResetCounters /\ late' = Alive
    /\ UNCHANGED <<inst, core, gone>>

AlreadyRunning(c) ==
    /\ lock = NoCaller /\ inst # NoCore
    /\ Return(c, "start", "already running")
    /\ UNCHANGED <<lock, inst, core, gone, counted, late>>

Unused == {g \in Cores : At(g, {"none"})}

SpawnCore(c) ==
    /\ caller[c].at = "spawn"
    /\ \E g \in Unused, t \in Transports :
        /\ \A h \in Unused : g <= h
        /\ caller' = [caller EXCEPT ![c].at = "wait", ![c].core = g]
        /\ core' = [core EXCEPT ![g].at = "spawned", ![g].transport = t]
    /\ UNCHANGED <<lock, inst, gone, counted, late>>

SpawnFails(c) ==
    /\ "runtime" \in CoreFaults \/ Unused = {}
    /\ Return(c, "spawn", "runtime")
    /\ lock' = NoCaller
    /\ UNCHANGED <<inst, core, gone, counted, late>>

(* recv_timeout: the bind succeeded, it failed, or five seconds passed. *)
Ready(c) == core[caller[c].core].ready

StartSucceeds(c) ==
    /\ caller[c].at = "wait" /\ Ready(c) = "ok"
    /\ inst' = caller[c].core
    /\ Return(c, "wait", "ok")
    /\ lock' = NoCaller
    /\ UNCHANGED <<core, gone, counted, late>>

BindReported(c) ==
    /\ caller[c].at = "wait" /\ Ready(c) = "err"
    /\ Goto(c, "wait", "join")
    /\ UNCHANGED <<lock, inst, core, gone, counted, late>>

NoSignal(g) == UNCHANGED core  \* mutant: the core is not told to end
Signal(g) == core' = [core EXCEPT ![g].shutdown = TRUE]

TimesOut(c) ==
    /\ "slow" \in CoreFaults
    /\ caller[c].at = "wait" /\ Ready(c) = "none"
    /\ Goto(c, "wait", "join")
    /\ Signal(caller[c].core)
    /\ UNCHANGED <<lock, inst, gone, counted, late>>

Detached(g) == TRUE  \* mutant: nobody waits for the thread
Joined(g) == At(g, {"exited"})

(* The code is the one of the way "join" was reached. *)
CodeByMessage(g) == core[g].ready  \* mutant: the thread's message is returned
StartError(g) == IF core[g].shutdown THEN "runtime" ELSE "bind"

StartJoins(c) ==
    /\ caller[c].at = "join" /\ Joined(caller[c].core)
    /\ Return(c, "join", StartError(caller[c].core))
    /\ lock' = NoCaller
    /\ UNCHANGED <<inst, core, gone, counted, late>>

LeftIn == inst  \* mutant: the instance is copied and not taken
Taken == NoCore

(* rn_stop holds the lock only to take the instance. *)
StopTakes(c) ==
    /\ lock = NoCaller /\ inst # NoCore
    /\ caller[c].at = "stop"
    /\ caller' = [caller EXCEPT ![c].at = "stopping", ![c].core = inst]
    /\ inst' = Taken
    /\ Signal(inst)
    /\ UNCHANGED <<lock, gone, counted, late>>

NotRunning(c) ==
    /\ lock = NoCaller /\ inst = NoCore
    /\ Return(c, "stop", "not running")
    /\ UNCHANGED <<lock, inst, core, gone, counted, late>>

StopJoins(c) ==
    /\ caller[c].at = "stopping" /\ Joined(caller[c].core)
    /\ Return(c, "stopping", "ok")
    /\ UNCHANGED <<lock, inst, core, gone, counted, late>>

CallerStep(c) ==
    \/ StartLocks(c) \/ AlreadyRunning(c) \/ SpawnCore(c) \/ SpawnFails(c)
    \/ StartSucceeds(c) \/ BindReported(c) \/ TimesOut(c) \/ StartJoins(c)
    \/ StopTakes(c) \/ NotRunning(c) \/ StopJoins(c)

-----------------------------------------------------------------------------
(* The core thread. *)

(* Two sockets cannot listen on one address; 127.0.0.1 and 0.0.0.0 differ.  *)
AddressFree(g) == \A h \in Listening : core[h].transport # core[g].transport

Bind(g) ==
    /\ At(g, {"spawned"})
    /\ core[g].transport \in {"usb", "wifi"} /\ AddressFree(g)
    /\ core' = [core EXCEPT ![g].at = "accept", ![g].ready = "ok"]
    /\ UNCHANGED <<lock, inst, caller, gone, counted, late>>

(* The runtime cannot be built, the transport is unknown, the bind fails.   *)
BindFails(g) ==
    /\ At(g, {"spawned"})
    /\ \/ core[g].transport \notin {"usb", "wifi"} \/ ~AddressFree(g)
       \/ CoreFaults \cap {"runtime", "port"} # {}
    /\ core' = [core EXCEPT ![g].at = "exited", ![g].ready = "err"]
    /\ UNCHANGED <<lock, inst, caller, gone, counted, late>>

(* serve: one desktop at a time. *)
Accept(g) ==
    /\ At(g, {"accept"}) /\ core[g].queue # <<>>
    /\ core' = [core EXCEPT ![g].at = "bridge", ![g].tasks = TRUE]
    /\ UNCHANGED <<lock, inst, caller, gone, counted, late>>

NeverTold(g) == core[g].shutdown  \* mutant: the reader parks at end of stream
Left(g) == Head(core[g].queue) \in gone

BridgeReturns(g) ==
    /\ At(g, {"bridge"}) /\ Left(g)
    /\ gone' = gone \ {Head(core[g].queue)}
    /\ core' = [core EXCEPT ![g].at = "accept", ![g].queue = Tail(@)]
    /\ UNCHANGED <<lock, inst, caller, counted, late>>

(* Both selects watch the flag; leaving serve drops the listener, and with  *)
(* it the connections still queued.                                         *)
SeesShutdown(g) ==
    /\ At(g, {"accept", "bridge"}) /\ core[g].shutdown
    /\ gone' = gone \ ToSet(core[g].queue)
    /\ core' = [core EXCEPT ![g].at = "closing", ![g].queue = <<>>]
    /\ UNCHANGED <<lock, inst, caller, counted, late>>

(* The runtime is dropped with the tasks left in it, then the thread ends.  *)
RuntimeDrops(g) ==
    /\ At(g, {"closing"})
    /\ core' = [core EXCEPT ![g].at = "exited", ![g].tasks = FALSE]
    /\ UNCHANGED <<lock, inst, caller, gone, counted, late>>

CoreStep(g) == Bind(g) \/ BindFails(g) \/ Accept(g) \/ BridgeReturns(g)
                 \/ SeesShutdown(g) \/ RuntimeDrops(g)

(* A connection's reader or writer task adds to RX_BYTES or TX_BYTES; the   *)
(* writer may still drain its queue after its bridge has returned.          *)
Count(g) ==
    /\ core[g].tasks
    /\ counted' = counted \cup {g}
    /\ UNCHANGED <<lock, inst, caller, core, gone, late>>

-----------------------------------------------------------------------------
(* The desktops: a connect succeeds as soon as the kernel queues it. *)

Connect(d) ==
    /\ d \notin Connected
    /\ \E g \in Listening : core' = [core EXCEPT ![g].queue = Append(@, d)]
    /\ UNCHANGED <<lock, inst, caller, gone, counted, late>>

Disconnect(d) ==
    /\ d \in Connected \ gone
    /\ gone' = gone \cup {d}
    /\ UNCHANGED <<lock, inst, caller, core, counted, late>>

-----------------------------------------------------------------------------
Next ==
    \/ \E c \in Callers : Call(c, "start") \/ Call(c, "stop") \/ CallerStep(c)
    \/ \E g \in Cores : CoreStep(g) \/ Count(g)
    \/ \E d \in Desktops : Connect(d) \/ Disconnect(d)

Spec == Init /\ [][Next]_vars

(* Threads inside a call and core threads are scheduled; select! polls its  *)
(* branches in random order, so a shutdown that is ready is seen.  Nobody   *)
(* has to call or to connect, but a desktop being served eventually leaves. *)
Fairness ==
    /\ \A c \in Callers : WF_vars(CallerStep(c))
    /\ \A g \in Cores : WF_vars(CoreStep(g)) /\ WF_vars(SeesShutdown(g))
    /\ \A d \in Desktops : WF_vars(~Waiting(d) /\ Disconnect(d))

LiveSpec == Spec /\ Fairness

-----------------------------------------------------------------------------
(* Types; a core's place, flags and queue are its own (lib.rs 39-52).       *)
TypeOK ==
    /\ lock \in Callers \cup {NoCaller} /\ inst \in Cores \cup {NoCore}
    /\ caller \in [Callers -> Caller] /\ core \in [Cores -> Core]
    /\ gone \subseteq Desktops /\ counted \subseteq Cores /\ late \subseteq Cores

(* What INSTANCE names is listening, or told to stop by nobody: rn_start    *)
(* returned 0 only for a bound listener, and nothing but the rn_stop that   *)
(* takes it out can end it (lib.rs 89-99, 119-141).                         *)
InstanceListens == inst # NoCore => inst \in Listening /\ ~core[inst].shutdown

(* No core is ever orphaned: a live core thread is the instance or in the   *)
(* hands of exactly one call that will join it, on success, on a failed     *)
(* bind, on the five-second timeout and on stop (lib.rs 62-141).            *)
Holders(g) == {c \in Callers : caller[c].core = g}

NoOrphan ==
    \A g \in Alive :
        \/ inst = g /\ Holders(g) = {}
        \/ inst # g /\ \E c \in Callers : Holders(g) = {c}

(* The counters hold bytes of the current core only, but for a core that    *)
(* was still going down when rn_start reset them: nothing a session that    *)
(* rn_stop has finished with is added later (lib.rs 35-37, 74-75, 119-141). *)
CountersFresh == inst # NoCore => counted \subseteq {inst} \cup late

(* rn_stop returns, and rn_start returns once it has spawned its core: no   *)
(* join waits for a core that nobody told to end (lib.rs 89-141).           *)
CallsReturn ==
    \A c \in Callers :
        (caller[c].at \in {"wait", "join", "stopping"}) ~> (caller[c].at = "idle")

(* A desktop waiting behind another one is served once that one leaves, or  *)
(* its listener closes (lib.rs 206-256).                                    *)
NextIsServed == \A d \in Desktops : Waiting(d) ~> ~Waiting(d)
=============================================================================
