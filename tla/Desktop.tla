------------------------------ MODULE Desktop ------------------------------
(***************************************************************************)
(* The Windows bridge: the UI thread (app.rs) or the console (worker.rs,   *)
(* headless), the worker threads that run worker::run_connect, the Shared  *)
(* state they communicate through (state.rs), and what they do to the      *)
(* operating system: Wintun adapter and session (tun.rs), forwarding table *)
(* (routing.rs).  The pump inside a session is Link.tla.                   *)
(*                                                                         *)
(* A worker's pc names the step it executes next:                          *)
(*                                                                         *)
(*   spawned -> cleared -> open (-> create) -> start -> dial -> carve ->   *)
(*   lo -> hi -> announce -> clone -> pump -> teardown -> remove -> close  *)
(*   -> (failed ->) tail (-> settle) -> idle                               *)
(*                                                                         *)
(* and "drop" is Tun::up's early return with an adapter in hand.           *)
(***************************************************************************)
EXTENDS Routing

CONSTANTS
    Workers,      \* thread slots: a slot is reused once its thread is reaped
    NoAdapter,
    Modes,        \* how the program may be launched
    Kinds,        \* transports that may be chosen
    Faults,       \* which external failures may happen
    PromptStart,  \* TRUE: the user acts only when no thread is in a few-
                  \* instruction window around its first or last state change
    MaxLaunches   \* bound on process incarnations

AllFaults == {"adapter", "dial", "carve", "route", "clone", "link",
              "delete", "kill", "survive", "badip"}

ASSUME DesktopAssumption ==
    /\ NoAdapter \notin Interface
    /\ Modes \subseteq {"gui", "headless"}
    /\ Kinds \subseteq {"usb", "wifi", "host"}
    /\ Faults \subseteq AllFaults
    /\ PromptStart \in BOOLEAN
    /\ MaxLaunches \in Nat

VARIABLES
    proc,      \* is the process running
    mode,      \* "gui" or "headless"
    tray,      \* did build_tray give an icon
    admin,     \* Shared.admin
    closing,   \* the window close was accepted (Quit, or close with no tray)
    launches,
    state,     \* Shared.state
    stop,      \* Shared.stop
    pc,        \* of every worker thread
    kind,      \* "usb", "wifi" (an IPv4 address), "host" (a name: no carve-out)
    rows,      \* Routes.rows
    err,       \* connect_inner returned Err
    alive,     \* the pump's alive flag
    table,     \* forwarding rows besides BaseTable
    present,   \* Wintun adapters in the system
    tun,       \* the adapter a worker has a handle of, in Tun::up or in its Tun
    made,      \* workers that created that adapter, and did not just open it
    (* History, read by properties only. *)
    asked,     \* workers that were running when a stop was last requested
    lost,      \* rows of the table that no Routes value will delete any more
    company,   \* of a running worker: did another run beside it, "none", only
               \* before it announced its outcome ("before"), or also "since"
    past       \* how the previous process ended

procVars   == <<proc, mode, tray, admin, closing, launches>>
sharedVars == <<state, stop>>
threadVars == <<kind, rows, err, alive>>
netVars    == <<table, present, tun, made>>
history    == <<asked, lost, company, past>>
vars == <<procVars, sharedVars, pc, threadVars, netVars, history>>

ConnState == {"Disconnected", "Connecting", "Connected", "Error"}
Starting  == {"spawned", "cleared"}
Owning    == {"dial", "carve", "lo", "hi", "announce", "clone", "pump",
              "teardown", "remove", "close"}
Tunnelled == {"announce", "clone", "pump", "teardown"}
Ending    == {"failed", "tail", "settle"}
PC        == {"idle", "open", "create", "start", "drop"}
               \cup Starting \cup Owning \cup Ending

BusyUntilUp == state = "Connecting"  \* mutant: Connected is forgotten

FullTable == BaseTable \cup table
Running   == {w \in Workers : pc[w] # "idle"}
Busy      == state \in {"Connecting", "Connected"}
Quiet     == PromptStart => \A w \in Workers : pc[w] \notin Starting \cup Ending

TypeOK ==
    /\ proc \in {"up", "down"}
    /\ mode \in {"gui", "headless"}
    /\ tray \in BOOLEAN /\ admin \in BOOLEAN /\ closing \in BOOLEAN
    /\ launches \in 0..MaxLaunches
    /\ state \in ConnState /\ stop \in BOOLEAN
    /\ pc \in [Workers -> PC]
    /\ kind \in [Workers -> {"usb", "wifi", "host"}]
    /\ rows \in [Workers -> SUBSET Row]
    /\ err \in [Workers -> BOOLEAN] /\ alive \in [Workers -> BOOLEAN]
    /\ table \subseteq Row
    /\ present \subseteq Adapters
    /\ tun \in [Workers -> Adapters \cup {NoAdapter}]
    /\ made \subseteq Workers
    /\ asked \subseteq Workers /\ lost \subseteq Row
    /\ company \in [Workers -> {"none", "before", "since"}]
    /\ past \in {"none", "exit", "kill"}

Init ==
    /\ proc = "down" /\ mode = "gui" /\ tray = FALSE /\ admin = FALSE
    /\ closing = FALSE /\ launches = 0
    /\ state = "Disconnected" /\ stop = FALSE
    /\ pc = [w \in Workers |-> "idle"]
    /\ kind = [w \in Workers |-> "usb"]
    /\ rows = [w \in Workers |-> {}]
    /\ err = [w \in Workers |-> FALSE]
    /\ alive = [w \in Workers |-> FALSE]
    /\ table = {} /\ present = {}
    /\ tun = [w \in Workers |-> NoAdapter] /\ made = {}
    /\ asked = {} /\ lost = {} /\ past = "none"
    /\ company = [w \in Workers |-> "none"]

-----------------------------------------------------------------------------
(* Shared (state.rs), and a worker's program counter. *)

SetState(s) == state' = s
RequestStop == stop' = TRUE /\ asked' = Running
StopNotCleared == UNCHANGED stop  \* mutant: the flag outlives its session
ClearStop   == stop' = FALSE
Goto(w, from, to) == pc[w] = from /\ pc' = [pc EXCEPT ![w] = to]

(* A thread enters run_connect with its own copy of the arguments. *)
Spawn(w, k) ==
    /\ Goto(w, "idle", "spawned")
    /\ kind' = [kind EXCEPT ![w] = k]
    /\ company' = [v \in Workers |->
                    CASE Running = {} -> "none"
                      [] v \in Running \cup {w} -> "since"
                      [] OTHER -> "none"]

(* It returns, and its locals are gone. *)
Return(w) ==
    /\ kind' = [kind EXCEPT ![w] = "usb"]
    /\ err' = [err EXCEPT ![w] = FALSE]
    /\ alive' = [alive EXCEPT ![w] = FALSE]
    /\ asked' = asked \ {w}
    /\ company' = [company EXCEPT ![w] = "none"]
    /\ UNCHANGED rows

(* A worker that announces its outcome with no other thread about has left  *)
(* the company it may have had behind.                                      *)
Announce(w) ==
    company' = [company EXCEPT ![w] =
                    IF Running = {w} /\ @ = "since" THEN "before" ELSE @]

-----------------------------------------------------------------------------
(* worker::run_connect and connect_inner, one step per effect on shared     *)
(* state or on the operating system.                                        *)

(* run_connect's prologue: the stop flag, then the state. *)
ClearFlag(w) ==
    /\ Goto(w, "spawned", "cleared")
    /\ ClearStop
    /\ UNCHANGED <<procVars, state, threadVars, netVars, history>>

SetConnecting(w) ==
    /\ Goto(w, "cleared", "open")
    /\ SetState("Connecting")
    /\ UNCHANGED <<procVars, stop, threadVars, netVars, history>>

(* Tun::up: three unlocked calls, each with an outcome of its own.  An      *)
(* adapter of that name is opened if there is one, and otherwise, or when   *)
(* opening it fails, another is created under a LUID nothing refers to.     *)
OpenAdapter(w) ==
    /\ Goto(w, "open", "start")
    /\ \E a \in present : tun' = [tun EXCEPT ![w] = a]
    /\ UNCHANGED <<procVars, sharedVars, threadVars, table, present, made, history>>

OpenMisses(w) ==
    /\ present = {} \/ "adapter" \in Faults
    /\ Goto(w, "open", "create")
    /\ UNCHANGED <<procVars, sharedVars, threadVars, netVars, history>>

Unused(a) ==
    /\ a \notin present
    /\ \A v \in Workers : tun[v] # a /\ \A r \in rows[v] : r.via # a

CreateAdapter(w) ==
    /\ Goto(w, "create", "start")
    /\ \E a \in Adapters :
        /\ Unused(a)
        /\ present' = present \cup {a}
        /\ tun' = [tun EXCEPT ![w] = a]
    /\ made' = made \cup {w}
    /\ UNCHANGED <<procVars, sharedVars, threadVars, table, history>>

(* The library does not load, or the creation is refused: no more rights,   *)
(* or the name has been taken since it was looked up.                       *)
AdapterFails(w) ==
    /\ \/ "adapter" \in Faults /\ Goto(w, "open", "failed")
       \/ ("adapter" \in Faults \/ present # {}) /\ Goto(w, "create", "failed")
    /\ err' = [err EXCEPT ![w] = TRUE]
    /\ UNCHANGED <<procVars, sharedVars, kind, rows, alive, netVars, history>>

(* start_session on an adapter that is there and carries none.              *)
CanStart(w) ==
    /\ tun[w] \in present
    /\ \A v \in Workers : pc[v] \in Owning => tun[v] # tun[w]

StartSession(w) ==
    /\ CanStart(w)
    /\ Goto(w, "start", "dial")
    /\ UNCHANGED <<procVars, sharedVars, threadVars, netVars, history>>

StartFails(w) ==
    /\ ~CanStart(w) \/ "adapter" \in Faults
    /\ Goto(w, "start", "drop")
    /\ err' = [err EXCEPT ![w] = TRUE]
    /\ UNCHANGED <<procVars, sharedVars, kind, rows, alive, netVars, history>>

(* Mutants of InstallOrder: the upper half is forgotten; the carve-out      *)
(* comes last.                                                              *)
OneHalfOrder == [dial |-> "carve", carve |-> "lo", lo |-> "announce", hi |-> "announce"]
CarveLastOrder == [dial |-> "lo", lo |-> "hi", hi |-> "carve", carve |-> "announce"]

(* The order of Routes::install: the carve-out while the table still shows  *)
(* the physical network, then the two halves.                               *)
InstallOrder == [dial |-> "carve", carve |-> "lo", lo |-> "hi", hi |-> "announce"]

(* transport::connect, before the tunnel's routes exist.  A Wi-Fi phone is  *)
(* reached only off the tunnel.                                             *)
PhoneReachable == Via(FullTable, Phone) = {"phys"}

Dial(w) ==
    /\ kind[w] = "usb" \/ PhoneReachable
    /\ Goto(w, "dial", InstallOrder["dial"])
    /\ UNCHANGED <<procVars, sharedVars, threadVars, netVars, history>>

(* connect_inner's early returns drop the Tun: straight to "close". *)
GiveUp(w, from, to) ==
    /\ Goto(w, from, to)
    /\ err' = [err EXCEPT ![w] = TRUE]

DialFails(w) ==
    /\ "dial" \in Faults \/ (kind[w] # "usb" /\ ~PhoneReachable)
    /\ GiveUp(w, "dial", "close")
    /\ UNCHANGED <<procVars, sharedVars, kind, rows, alive, netVars, history>>

(* Mutant of AddRow: a row that exists is taken as added. *)
AddOrAdopt(w, r) ==
    /\ r.via \in present \cup {"phys"}
    /\ table' = table \cup {r}
    /\ rows' = [rows EXCEPT ![w] = @ \cup {r}]

(* CreateIpForwardEntry2 refuses a row that exists, or an interface that    *)
(* does not; on success the row is in the table and in this worker's Routes.*)
AddRow(w, r) ==
    /\ r \notin table
    /\ r.via \in present \cup {"phys"}
    /\ table' = table \cup {r}
    /\ rows' = [rows EXCEPT ![w] = @ \cup {r}]

(* Routes::install, first part: the /32 for a Wi-Fi phone, through the best *)
(* hop of the moment.  A failure is only a warning.                         *)
Carve(w) ==
    /\ kind[w] = "wifi"
    /\ \E hop \in Via(FullTable, Phone) : AddRow(w, CarveRow(hop))
    /\ Goto(w, "carve", InstallOrder["carve"])
    /\ UNCHANGED <<procVars, sharedVars, kind, err, alive, present, tun, made,
                   history>>

(* Mutant of CarveSkipped: a row that already exists is waited for. *)
CarveWaits(w) ==
    /\ kind[w] # "wifi" \/ "carve" \in Faults
    /\ Goto(w, "carve", InstallOrder["carve"])
    /\ UNCHANGED <<procVars, sharedVars, threadVars, netVars, history>>

CarveSkipped(w) ==
    /\ \/ kind[w] # "wifi"
       \/ "carve" \in Faults
       \/ \E hop \in Via(FullTable, Phone) : CarveRow(hop) \in table
    /\ Goto(w, "carve", InstallOrder["carve"])
    /\ UNCHANGED <<procVars, sharedVars, threadVars, netVars, history>>

(* Routes::install, second part: the split default on the tunnel adapter.   *)
AddHalf(w, d) ==
    /\ AddRow(w, OnLinkRow(d, tun[w]))
    /\ Goto(w, d, InstallOrder[d])
    /\ UNCHANGED <<procVars, sharedVars, kind, err, alive, present, tun, made,
                   history>>

(* The adapter may be gone, closed by the worker that created it.           *)
HalfRefused(w, d) == OnLinkRow(d, tun[w]) \in table \/ tun[w] \notin present

(* Mutant of HalfFails: install returns without removing what it added. *)
HalfFailsInPlace(w, d) ==
    /\ "route" \in Faults \/ HalfRefused(w, d)
    /\ GiveUp(w, d, "close")
    /\ rows' = [rows EXCEPT ![w] = {}]
    /\ UNCHANGED <<procVars, sharedVars, kind, alive, netVars, history>>

(* A half that cannot be added removes what was: Routes::remove, Err.       *)
HalfFails(w, d) ==
    /\ "route" \in Faults \/ HalfRefused(w, d)
    /\ GiveUp(w, d, "remove")
    /\ UNCHANGED <<procVars, sharedVars, kind, rows, alive, netVars, history>>

SetConnected(w) ==
    /\ Goto(w, "announce", "clone")
    /\ SetState("Connected")
    /\ Announce(w)
    /\ UNCHANGED <<procVars, stop, threadVars, netVars, asked, lost, past>>

(* stream.try_clone()?, twice, then the pump threads.  The early return     *)
(* drops Routes, which has no Drop: its rows are nobody's.                  *)
StartPump(w) ==
    /\ Goto(w, "clone", "pump")
    /\ alive' = [alive EXCEPT ![w] = TRUE]
    /\ UNCHANGED <<procVars, sharedVars, kind, rows, err, netVars, history>>

CloneFails(w) ==
    /\ "clone" \in Faults
    /\ GiveUp(w, "clone", "close")
    /\ rows' = [rows EXCEPT ![w] = {}]
    /\ lost' = lost \cup (rows[w] \cap table)
    /\ UNCHANGED <<procVars, sharedVars, kind, alive, netVars, asked, company,
                   past>>

(* A pump thread ends by itself: the phone closed, the ring is full, the    *)
(* adapter is gone, ...                                                     *)
LinkDies(w) ==
    /\ "link" \in Faults \/ tun[w] \notin present
    /\ pc[w] = "pump" /\ alive[w]
    /\ alive' = [alive EXCEPT ![w] = FALSE]
    /\ UNCHANGED <<procVars, sharedVars, pc, kind, rows, err, netVars, history>>

DeadOnly(w) == ~alive[w]  \* mutant: the loop forgets the stop flag
(* The 200 ms wait loop's exit condition. *)
MustLeave(w) == stop \/ ~alive[w]

LeavePump(w) ==
    /\ MustLeave(w)
    /\ Goto(w, "pump", "teardown")
    /\ UNCHANGED <<procVars, sharedVars, threadVars, netVars, history>>

(* stop_session, shutdown(Both), join A, join B: see Link.tla. *)
JoinPumps(w) ==
    /\ Goto(w, "teardown", "remove")
    /\ alive' = [alive EXCEPT ![w] = FALSE]
    /\ UNCHANGED <<procVars, sharedVars, kind, rows, err, netVars, history>>

(* Routes::remove: each row in turn, best effort. *)
RemoveRow(w) ==
    /\ pc[w] = "remove"
    /\ \E r \in NextToRemove(rows[w]) :
        /\ rows' = [rows EXCEPT ![w] = @ \ {r}]
        /\ \/ table' = table \ {r} /\ UNCHANGED lost
           \/ /\ "delete" \in Faults
              /\ lost' = lost \cup ({r} \cap table)
              /\ UNCHANGED table
    /\ UNCHANGED <<procVars, sharedVars, pc, kind, err, alive, present, tun, made,
                   asked, company, past>>

RemovedAll(w) ==
    /\ rows[w] = {}
    /\ Goto(w, "remove", "close")
    /\ UNCHANGED <<procVars, sharedVars, threadVars, netVars, history>>

(* Adapters go, and the rows on them with them; orphans are rows that have  *)
(* just lost their Routes.                                                  *)
Off(T, gone) == {r \in T : r.via \notin gone}
Vanish(gone, orphans) ==
    /\ present' = present \ gone
    /\ table' = Off(table, gone)
    /\ lost' = Off(lost \cup (orphans \cap table), gone)

(* Mutant of Release: a handle that is neither an adapter nor none. *)
ReleaseUntyped(w) ==
    /\ Vanish(IF w \in made THEN {tun[w]} ELSE {}, {})
    /\ tun' = [tun EXCEPT ![w] = "closed"]
    /\ made' = made \ {w}

(* WintunCloseAdapter: closing an adapter that was created removes *)
(* it, whoever else has opened it.  One that was only opened may stay, and  *)
(* does while another worker has it.                                        *)
Release(w) ==
    /\ \/ w \in made /\ Vanish({tun[w]}, {})
       \/ w \notin made /\ UNCHANGED <<table, present, lost>>
       \/ /\ w \notin made
          /\ \A v \in Workers \ {w} : tun[v] # tun[w]
          /\ Vanish({tun[w]}, {})
    /\ tun' = [tun EXCEPT ![w] = NoAdapter]
    /\ made' = made \ {w}

(* drop(tun) ends the session and closes the adapter; Tun::up's early       *)
(* returns close an adapter without a session.                              *)
CloseTun(w) ==
    /\ \/ Goto(w, "close", IF err[w] THEN "failed" ELSE "tail")
       \/ Goto(w, "drop", "failed")
    /\ Release(w)
    /\ UNCHANGED <<procVars, sharedVars, threadVars, asked, company, past>>

(* run_connect's epilogue: set_error, then the test of the state, then the  *)
(* store it guards: three separate accesses to Shared.                      *)
SetError(w) ==
    /\ Goto(w, "failed", "tail")
    /\ SetState("Error")
    /\ Announce(w)
    /\ UNCHANGED <<procVars, stop, threadVars, netVars, asked, lost, past>>

SettleUnless(w, s) ==
    \/ /\ state = s
       /\ Goto(w, "tail", "idle")
       /\ Return(w)
       /\ UNCHANGED <<procVars, sharedVars, netVars, lost, past>>
    \/ /\ state # s
       /\ Goto(w, "tail", "settle")
       /\ UNCHANGED <<procVars, sharedVars, threadVars, netVars, history>>

(* Mutants of TestState: the state of an earlier moment is kept; no state   *)
(* is.                                                                      *)
TestConnected(w) == SettleUnless(w, "Connected")
TestNothing(w) == SettleUnless(w, "none")

TestState(w) == SettleUnless(w, "Error")

Settle(w) ==
    /\ Goto(w, "settle", "idle")
    /\ SetState("Disconnected")
    /\ Return(w)
    /\ UNCHANGED <<procVars, stop, netVars, lost, past>>

(* Everything worker w does by itself. *)
WorkerStep(w) ==
    /\ proc = "up"
    /\ \/ ClearFlag(w) \/ SetConnecting(w)
       \/ OpenAdapter(w) \/ OpenMisses(w) \/ CreateAdapter(w) \/ AdapterFails(w)
       \/ StartSession(w) \/ StartFails(w)
       \/ Dial(w) \/ DialFails(w)
       \/ Carve(w) \/ CarveSkipped(w)
       \/ \E d \in {"lo", "hi"} : AddHalf(w, d) \/ HalfFails(w, d)
       \/ SetConnected(w) \/ StartPump(w) \/ CloneFails(w)
       \/ LeavePump(w) \/ JoinPumps(w)
       \/ RemoveRow(w) \/ RemovedAll(w) \/ CloseTun(w)
       \/ SetError(w) \/ TestState(w) \/ Settle(w)

-----------------------------------------------------------------------------
(* The user: the button and the tray menu, on the UI thread.                *)

UserTurn == proc = "up" /\ Quiet
AtWindow == UserTurn /\ mode = "gui" /\ ~closing

(* toggle_connection while busy.  The button is live when Connected, the    *)
(* tray item always.                                                        *)
ClickDisconnect ==
    /\ AtWindow
    /\ Busy
    /\ state = "Connected" \/ tray
    /\ RequestStop
    /\ UNCHANGED <<procVars, state, pc, threadVars, netVars, lost, company, past>>

(* toggle_connection while not busy: start_worker. *)
ClickConnect ==
    /\ AtWindow
    /\ ~Busy
    /\ admin
    /\ \E w \in Workers, k \in Kinds \ {"host"} : Spawn(w, k)
    /\ UNCHANGED <<procVars, sharedVars, rows, err, alive, netVars, asked, lost, past>>

(* start_worker's refusals: not elevated (the button is disabled, the tray  *)
(* item is not), or a phone address that does not parse.                    *)
ConnectRefused ==
    /\ AtWindow
    /\ ~Busy
    /\ (~admin /\ tray) \/ (admin /\ "badip" \in Faults)
    /\ SetState("Error")
    /\ UNCHANGED <<procVars, stop, pc, threadVars, netVars, history>>

(* Tray Quit, or the window's close button when there is no tray. *)
Quit ==
    /\ AtWindow
    /\ closing' = TRUE
    /\ RequestStop
    /\ UNCHANGED <<proc, mode, tray, admin, launches, state, pc, threadVars,
                   netVars, lost, company, past>>

(* Headless: the console control handler. *)
CtrlC ==
    /\ UserTurn
    /\ mode = "headless"
    /\ RequestStop
    /\ UNCHANGED <<procVars, state, pc, threadVars, netVars, lost, company, past>>

UserStep == ClickDisconnect \/ ClickConnect \/ ConnectRefused \/ Quit \/ CtrlC

-----------------------------------------------------------------------------
(* The process. *)

(* GUI: wait for the user.  Headless: run_connect on the main thread, the   *)
(* handler already installed.                                               *)
Launch ==
    /\ proc = "down"
    /\ launches < MaxLaunches
    /\ launches' = launches + 1
    /\ proc' = "up" /\ closing' = FALSE
    /\ mode' \in Modes
    /\ IF mode' = "headless"
         THEN /\ admin' = TRUE /\ tray' = FALSE
              /\ \E w \in Workers, k \in Kinds : Spawn(w, k)
         ELSE /\ admin' \in BOOLEAN /\ tray' \in BOOLEAN
              /\ UNCHANGED <<pc, kind, company>>
    /\ UNCHANGED <<sharedVars, rows, err, alive, netVars, asked, lost, past>>

(* The end of the process, whatever its threads are doing: nothing joins    *)
(* the worker.  Handles close; forwarding rows on real interfaces remain.   *)
Die(how) ==
    /\ proc = "up"
    /\ proc' = "down"
    /\ past' = how
    /\ pc' = [w \in Workers |-> "idle"]
    /\ rows' = [w \in Workers |-> {}]
    /\ \E gone \in SUBSET present :
        /\ "survive" \notin Faults => {tun[w] : w \in made} \cap present \subseteq gone
        /\ Vanish(gone, UNION {rows[w] : w \in Workers})
    /\ tun' = [w \in Workers |-> NoAdapter] /\ made' = {}
    /\ company' = [w \in Workers |-> "none"]
    /\ state' = "Disconnected" /\ stop' = FALSE /\ asked' = {}
    /\ kind' = [w \in Workers |-> "usb"]
    /\ err' = [w \in Workers |-> FALSE] /\ alive' = [w \in Workers |-> FALSE]
    /\ UNCHANGED <<mode, tray, admin, closing, launches>>

Exit ==
    /\ IF mode = "gui" THEN closing ELSE Running = {}
    /\ Die("exit")

Kill == "kill" \in Faults /\ Die("kill")

Finished == proc = "down" /\ launches = MaxLaunches /\ UNCHANGED vars

Next ==
    \/ \E w \in Workers : WorkerStep(w) \/ (proc = "up" /\ LinkDies(w))
    \/ UserStep
    \/ Launch \/ Exit \/ Kill
    \/ Finished

(* Threads are scheduled and the process ends once it is told to; every     *)
(* blocking call of a worker has an end (connect timeouts; the pump's joins *)
(* are Link.tla's subject).  Nothing is assumed of users or of failures.    *)
Fairness == /\ \A w \in Workers : WF_vars(WorkerStep(w))
            /\ WF_vars(Exit)

Spec == Init /\ [][Next]_vars
LiveSpec == Spec /\ Fairness

-----------------------------------------------------------------------------
(* Safety. *)

(* Whatever run_connect calls raced or failed, and however their last tests *)
(* of the state interleaved, once no worker runs the state shown is neither *)
(* Connecting nor Connected: the button offers Connect again (worker.rs     *)
(* 46-49, app.rs 287-297).                                                  *)
NoStaleConnected == Running = {} => ~Busy

(* Routes::remove never takes another session's row.  A row that a worker   *)
(* will delete is in the table, or went with its adapter; its halves stand  *)
(* on the adapter of its own session; and no two workers will delete the    *)
(* same row, though two run_connect calls may open one adapter, create two  *)
(* of one name, or close an adapter under each other (tun.rs 57-91,         *)
(* routing.rs 50-122, worker.rs 61-191).                                    *)
Holding == {"lo", "hi", "announce", "clone", "pump", "teardown", "remove"}

Ownership ==
    \A w \in Workers :
        /\ rows[w] # {} => pc[w] \in Holding
        /\ \A r \in rows[w] :
            /\ r \in table \/ r.via \in Adapters \ present
            /\ r.dest # "phone" => r.via = tun[w]
            /\ \A v \in Workers \ {w} : r \notin rows[v]

(* A forwarding row exists only while some running worker's Routes will     *)
(* delete it, or it is one the history names as lost: an early return after *)
(* Routes::install, a failed delete, the death of the process (routing.rs   *)
(* 50-122, worker.rs 78-191).                                               *)
RowsAccounted ==
    \A r \in table : r \in lost \/ \E w \in Running : r \in rows[w]

(* While a worker pumps over an adapter that is there, longest-prefix match *)
(* sends every destination that is neither on-link nor the phone into a     *)
(* tunnel, whatever rows and adapters a raced worker, an earlier one or an  *)
(* earlier process left behind (routing.rs 3-7, worker.rs 78-81).           *)
FullCapture ==
    \A w \in Workers : pc[w] \in Tunnelled /\ tun[w] \in present =>
        \A a \in Addr \ (Lan \cup {Phone}) : Via(FullTable, a) \subseteq Adapters

(* A Wi-Fi session whose carve-out points at the physical network never     *)
(* routes its own TCP connection into a tunnel, whatever other workers add  *)
(* and remove; and the carve-out of a session that never ran beside another *)
(* does point there (routing.rs 9-13, 53-70).                               *)
PhoneOffTunnel ==
    \A w \in Workers : pc[w] \in Tunnelled =>
        \A r \in rows[w] : r.dest = "phone" =>
            /\ r.via = "phys" => PhoneReachable
            /\ company[w] = "none" => r.via = "phys"

(* A pumping tunnel is shown as Connected, so that the user can see it and  *)
(* disconnect it, unless another thread was still about when it announced   *)
(* itself: no click and no refusal can write the state from there, whenever *)
(* it comes (app.rs 114-150, worker.rs 46-81).                              *)
ShownConnected ==
    \A w \in Workers :
        pc[w] \in {"clone", "pump"} /\ company[w] # "since" => state = "Connected"

(* A worker leaves a pump that is alive only because a stop was requested   *)
(* during its own session, never for a flag an earlier session left set     *)
(* (worker.rs 37, 162-175).                                                 *)
StopOnlyWhenAsked ==
    [][\A w \in Workers :
        (pc[w] = "pump" /\ pc'[w] = "teardown" /\ alive[w]) => w \in asked]_vars

(* An attempt that failed leaves Error on display, not Disconnected, unless *)
(* another thread was about when it set the error or was started before the *)
(* state was tested (worker.rs 41-49, app.rs 121-158).                      *)
ErrorShown ==
    [][\A w \in Workers :
        (pc[w] # "idle" /\ pc'[w] = "idle" /\ proc' = "up" /\ err[w]
          /\ company[w] # "since") => state' = "Error"]_vars

(* Liveness. *)

(* A stop requested while a worker runs ends that worker's session          *)
(* (app.rs 121-125, worker.rs 162-198).                                     *)
DisconnectHonoured ==
    \A w \in Workers : (w \in asked /\ pc[w] # "idle") ~> (pc[w] = "idle")

(* A connection attempt comes to an end: the pump runs, or the thread has   *)
(* returned (worker.rs 29-87).                                              *)
AttemptEnds ==
    \A w \in Workers : (pc[w] = "spawned") ~> (pc[w] \in {"pump", "idle"})

-----------------------------------------------------------------------------
(* What the documentation says and the code does not do. *)

(* "Whatever happened, we've returned to a torn-down state" (worker.rs 46). *)
TornDownAfterRun == (proc = "up" /\ Running = {}) => table = {}

(* "use the tray menu's Quit to exit fully (which also disconnects)"        *)
(* (docs/RUNBOOK.md 59-60).                                                 *)
QuitDisconnects == (proc = "down" /\ past = "exit") => table = {}

(* "If rickynet.exe is killed hard, re-running it once and disconnecting    *)
(* cleanly will tidy up" (docs/RUNBOOK.md 113-114).                         *)
ReRunTidiesUp ==
    [][\A w \in Workers :
        (past = "kill" /\ pc[w] = "close" /\ pc'[w] = "tail") => table' = {}]_vars

(* "Run the bridge without a GUI until Ctrl+C" (worker.rs 205).             *)
CtrlCStops ==
    \A w \in Workers :
        (mode = "headless" /\ w \in asked /\ pc[w] # "idle") ~> (pc[w] = "idle")
=============================================================================
