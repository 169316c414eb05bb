--------------------------- MODULE DesktopProofs ---------------------------
(* What holds of Desktop for every set of workers, every address space and  *)
(* every choice of faults.                                                  *)
EXTENDS Desktop, TLAPS

(* The groups of variables a step leaves alone, expanded together. *)
USE DEF procVars, sharedVars, threadVars, netVars, history

(* Every variable keeps its type through every step of every worker, user   *)
(* and process (Desktop.TypeOK).                                            *)
THEOREM TypeCorrect == Spec => []TypeOK
<1>1. Init => TypeOK
  <2> SUFFICES ASSUME Init PROVE TypeOK
    OBVIOUS
  <2>1. /\ tray \in BOOLEAN /\ admin \in BOOLEAN /\ closing \in BOOLEAN
        /\ stop \in BOOLEAN
    BY Zenon DEF Init
  <2>2. err \in [Workers -> BOOLEAN] /\ alive \in [Workers -> BOOLEAN]
    BY Zenon DEF Init
  <2>3. /\ proc \in {"up", "down"} /\ mode \in {"gui", "headless"}
        /\ launches \in 0..MaxLaunches /\ state \in ConnState
        /\ pc \in [Workers -> PC] /\ kind \in [Workers -> {"usb", "wifi", "host"}]
        /\ rows \in [Workers -> SUBSET Row]
    BY DesktopAssumption DEF Init, PC, ConnState
  <2>4. /\ table \subseteq Row /\ present \subseteq Adapters
        /\ tun \in [Workers -> Adapters \cup {NoAdapter}] /\ made \subseteq Workers
        /\ company \in [Workers -> {"none", "before", "since"}]
        /\ asked \subseteq Workers /\ lost \subseteq Row
        /\ past \in {"none", "exit", "kill"}
    BY DEF Init
  <2> QED BY <2>1, <2>2, <2>3, <2>4 DEF TypeOK
<1>2. TypeOK /\ [Next]_vars => TypeOK'
  <2> SUFFICES ASSUME TypeOK, [Next]_vars PROVE TypeOK'
    OBVIOUS
  <2> USE DesktopAssumption DEF TypeOK, PC, ConnState, Starting, Owning, Ending, Goto, SetState
  <2>1. ASSUME NEW w \in Workers, WorkerStep(w) PROVE TypeOK'
    <3>1. CASE ClearFlag(w)
      <4>1. stop' \in BOOLEAN BY <3>1, Zenon DEF ClearFlag, ClearStop
      <4> QED BY <3>1, <4>1 DEF ClearFlag
    <3>2. CASE SetConnecting(w) BY <3>2 DEF SetConnecting
    <3>3. CASE OpenAdapter(w) \/ OpenMisses(w) \/ CreateAdapter(w) \/ StartSession(w)
      BY <3>3 DEF OpenAdapter, OpenMisses, CreateAdapter, StartSession
    <3>4. CASE AdapterFails(w) \/ StartFails(w)
      <4>1. err' \in [Workers -> BOOLEAN]
        BY <3>4, Zenon DEF AdapterFails, StartFails
      <4>2. pc' \in [Workers -> PC]
        BY <3>4 DEF AdapterFails, StartFails
      <4> QED BY <3>4, <4>1, <4>2 DEF AdapterFails, StartFails
    <3>5. CASE Dial(w) BY <3>5 DEF Dial, InstallOrder
    <3>6. CASE DialFails(w) BY <3>6 DEF DialFails, GiveUp
    <3>7. CASE Carve(w)
      <4>1. PICK hop \in Via(FullTable, Phone) : AddRow(w, CarveRow(hop))
        BY <3>7 DEF Carve
      <4>2. hop \in Interface
        BY DEF Via, Longest, Matching, FullTable, BaseTable, Row, Interface, Dest
      <4>3. CarveRow(hop) \in Row
        BY <4>2 DEF CarveRow, Row, Dest
      <4> QED BY <3>7, <4>1, <4>3 DEF Carve, AddRow, InstallOrder
    <3>8. CASE CarveSkipped(w) BY <3>8 DEF CarveSkipped, InstallOrder
    <3>9. ASSUME NEW d \in {"lo", "hi"}, AddHalf(w, d) PROVE TypeOK'
      <4>1. tun[w] \in Interface
        BY <3>9, DesktopAssumption DEF AddHalf, AddRow, OnLinkRow, Interface
      <4>2. OnLinkRow(d, tun[w]) \in Row
        BY <4>1 DEF OnLinkRow, Row, Dest
      <4> QED BY <3>9, <4>2 DEF AddHalf, AddRow, InstallOrder
    <3>10. ASSUME NEW d \in {"lo", "hi"}, HalfFails(w, d) PROVE TypeOK'
      BY <3>10 DEF HalfFails, GiveUp
    <3>11. CASE SetConnected(w)
      <4>1. company' \in [Workers -> {"none", "before", "since"}]
        BY <3>11 DEF SetConnected, Announce
      <4> QED BY <3>11, <4>1 DEF SetConnected
    <3>12. CASE StartPump(w) BY <3>12 DEF StartPump
    <3>13. CASE CloneFails(w) BY <3>13 DEF CloneFails, GiveUp
    <3>14. CASE LeavePump(w) BY <3>14 DEF LeavePump
    <3>15. CASE JoinPumps(w) BY <3>15 DEF JoinPumps
    <3>16. CASE RemoveRow(w) BY <3>16 DEF RemoveRow, NextToRemove
    <3>17. CASE RemovedAll(w) BY <3>17 DEF RemovedAll
    <3>18. CASE CloseTun(w)
      <4>1. /\ table' \subseteq Row /\ present' \subseteq Adapters /\ lost' \subseteq Row
            /\ tun' \in [Workers -> Adapters \cup {NoAdapter}] /\ made' \subseteq Workers
        BY <3>18 DEF CloseTun, Release, Vanish, Off
      <4>2. pc' \in [Workers -> PC]
        BY <3>18 DEF CloseTun
      <4> QED BY <3>18, <4>1, <4>2 DEF CloseTun
    <3>19. CASE SetError(w)
      <4>1. company' \in [Workers -> {"none", "before", "since"}]
        BY <3>19 DEF SetError, Announce
      <4> QED BY <3>19, <4>1 DEF SetError
    <3>20. CASE TestState(w)
      <4>1. pc' \in [Workers -> PC]
        BY <3>20 DEF TestState, SettleUnless
      <4>2. CASE Return(w)
        BY <3>20, <4>1, <4>2 DEF TestState, SettleUnless, Return
      <4>3. CASE UNCHANGED <<threadVars, history>>
        BY <3>20, <4>1, <4>3 DEF TestState, SettleUnless
      <4> QED BY <3>20, <4>2, <4>3 DEF TestState, SettleUnless
    <3>21. CASE Settle(w) BY <3>21 DEF Settle, Return
    <3> QED
      BY <2>1, <3>1, <3>2, <3>3, <3>4, <3>5, <3>6, <3>7, <3>8, <3>9, <3>10, <3>11,
         <3>12, <3>13, <3>14, <3>15, <3>16, <3>17, <3>18, <3>19, <3>20, <3>21
      DEF WorkerStep
  <2>2. ASSUME NEW w \in Workers, LinkDies(w) PROVE TypeOK'
    BY <2>2 DEF LinkDies
  <2>3. CASE ClickDisconnect BY <2>3 DEF ClickDisconnect, RequestStop, Running
  <2>4. CASE ClickConnect
    <3>1. PICK w \in Workers, k \in Kinds : Spawn(w, k)
      BY <2>4 DEF ClickConnect
    <3>2. company' \in [Workers -> {"none", "before", "since"}]
      BY <3>1 DEF Spawn
    <3> QED BY <2>4, <3>1, <3>2 DEF ClickConnect, Spawn
  <2>5. CASE ConnectRefused BY <2>5 DEF ConnectRefused
  <2>6. CASE Quit BY <2>6 DEF Quit, RequestStop, Running
  <2>7. CASE CtrlC BY <2>7 DEF CtrlC, RequestStop, Running
  <2>8. CASE Launch
    <3>1. closing' \in BOOLEAN
      BY <2>8, Zenon DEF Launch
    <3>2. admin' \in BOOLEAN /\ tray' \in BOOLEAN
      BY <2>8, Zenon DEF Launch
    <3>3. /\ pc' \in [Workers -> PC] /\ kind' \in [Workers -> {"usb", "wifi", "host"}]
          /\ company' \in [Workers -> {"none", "before", "since"}]
      <4>1. CASE mode' = "headless"
        <5>1. PICK w \in Workers, k \in Kinds : Spawn(w, k)
          BY <2>8, <4>1, Zenon DEF Launch
        <5>2. company' \in [Workers -> {"none", "before", "since"}]
          BY <5>1 DEF Spawn
        <5> QED BY <5>1, <5>2 DEF Spawn
      <4>2. CASE mode' # "headless"
        BY <2>8, <4>2 DEF Launch
      <4> QED BY <4>1, <4>2
    <3>4. /\ proc' \in {"up", "down"} /\ mode' \in {"gui", "headless"}
          /\ launches' \in 0..MaxLaunches
          /\ UNCHANGED <<state, stop, rows, err, alive, table, present, tun, made,
                         asked, lost, past>>
      BY <2>8 DEF Launch
    <3> QED BY <3>1, <3>2, <3>3, <3>4
  <2>9. ASSUME NEW how \in {"exit", "kill"}, Die(how) PROVE TypeOK'
    <3>1. /\ stop' \in BOOLEAN /\ err' \in [Workers -> BOOLEAN]
          /\ alive' \in [Workers -> BOOLEAN]
      BY <2>9, Zenon DEF Die
    <3>2. /\ pc' \in [Workers -> PC] /\ kind' \in [Workers -> {"usb", "wifi", "host"}]
          /\ rows' \in [Workers -> SUBSET Row]
          /\ tun' \in [Workers -> Adapters \cup {NoAdapter}] /\ made' \subseteq Workers
          /\ company' \in [Workers -> {"none", "before", "since"}]
      BY <2>9 DEF Die
    <3>3. /\ table' \subseteq Row /\ present' \subseteq Adapters
          /\ lost' \subseteq Row /\ asked' \subseteq Workers
          /\ proc' \in {"up", "down"} /\ past' \in {"none", "exit", "kill"}
          /\ state' \in ConnState
      BY <2>9 DEF Die, Vanish, Off
    <3>4. UNCHANGED <<mode, tray, admin, closing, launches>>
      BY <2>9 DEF Die
    <3> QED BY <3>1, <3>2, <3>3, <3>4
  <2>10. CASE UNCHANGED vars BY <2>10 DEF vars
  <2> QED
    BY <2>1, <2>2, <2>3, <2>4, <2>5, <2>6, <2>7, <2>8, <2>9, <2>10
    DEF Next, UserStep, Exit, Kill, Finished
<1> QED BY <1>1, <1>2, PTL DEF Spec

-----------------------------------------------------------------------------
(* A row in some Routes is in the table or went with its adapter, and in no *)
(* other Routes: AddRow is refused what is in the table or on an adapter    *)
(* that is not there, and a new adapter has a LUID that no Routes names     *)
(* (routing.rs 40-122, tun.rs 57-91).                                       *)
THEOREM OwnershipHolds == Spec => []Ownership
<1>1. Init => Ownership
  BY DEF Init, Ownership
<1>2. TypeOK /\ Ownership /\ [Next]_vars => Ownership'
  <2> SUFFICES ASSUME TypeOK, Ownership, [Next]_vars PROVE Ownership'
    OBVIOUS
  <2>0. /\ pc \in [Workers -> PC] /\ rows \in [Workers -> SUBSET Row]
        /\ tun \in [Workers -> Adapters \cup {NoAdapter}]
    BY DEF TypeOK
  <2> USE <2>0, DesktopAssumption DEF Ownership, Holding, Goto
  <2>1. ASSUME NEW w \in Workers, WorkerStep(w) PROVE Ownership'
    <3>1. CASE ClearFlag(w) \/ SetConnecting(w) \/ SetConnected(w) \/ SetError(w)
               \/ TestState(w) \/ Settle(w)
      BY <3>1 DEF ClearFlag, SetConnecting, SetConnected, SetError, TestState,
         SettleUnless, Settle, Return
    <3>2. CASE OpenAdapter(w) BY <3>2 DEF OpenAdapter
    <3>3. CASE CreateAdapter(w)
      <4>1. PICK a \in Adapters : /\ Unused(a)
                                  /\ present' = present \cup {a}
                                  /\ tun' = [tun EXCEPT ![w] = a]
        BY <3>3 DEF CreateAdapter
      <4>2. rows[w] = {} /\ \A v \in Workers : \A r \in rows[v] : r.via # a
        BY <3>3, <4>1 DEF CreateAdapter, Unused
      <4> QED BY <3>3, <4>1, <4>2 DEF CreateAdapter
    <3>4. CASE OpenMisses(w) \/ AdapterFails(w) \/ StartSession(w) \/ StartFails(w)
               \/ Dial(w) \/ DialFails(w) \/ CarveSkipped(w)
      BY <3>4 DEF OpenMisses, AdapterFails, StartSession, StartFails, Dial, DialFails,
         CarveSkipped, GiveUp, InstallOrder
    <3>5. CASE Carve(w)
      <4>1. PICK hop \in Via(FullTable, Phone) : AddRow(w, CarveRow(hop))
        BY <3>5 DEF Carve
      <4> DEFINE new == CarveRow(hop)
      <4>2. AddRow(w, new) /\ new.dest = "phone"
        BY <4>1 DEF CarveRow
      <4>3. \A v \in Workers : new \notin rows[v]
        BY <4>2, AddressAssumption DEF AddRow
      <4> HIDE DEF new
      <4>4. /\ pc' = [pc EXCEPT ![w] = "lo"] /\ rows' = [rows EXCEPT ![w] = @ \cup {new}]
            /\ table' = table \cup {new} /\ tun' = tun /\ present' = present
        BY <3>5, <4>2 DEF Carve, AddRow, InstallOrder
      <4> QED BY <4>2, <4>3, <4>4
    <3>6. ASSUME NEW d \in {"lo", "hi"}, AddHalf(w, d) PROVE Ownership'
      <4> DEFINE new == OnLinkRow(d, tun[w])
      <4>1. new.via = tun[w]
        BY DEF OnLinkRow
      <4>2. AddRow(w, new)
        BY <3>6 DEF AddHalf
      <4>3. \A v \in Workers : new \notin rows[v]
        BY <4>2, AddressAssumption DEF AddRow
      <4> HIDE DEF new
      <4>4. /\ rows' = [rows EXCEPT ![w] = @ \cup {new}]
            /\ table' = table \cup {new} /\ tun' = tun /\ present' = present
        BY <3>6, <4>2 DEF AddHalf, AddRow
      <4>5. pc' = [pc EXCEPT ![w] = InstallOrder[d]]
        BY <3>6 DEF AddHalf
      <4>6. InstallOrder[d] \in {"hi", "announce"}
        BY DEF InstallOrder
      <4> QED BY <4>1, <4>2, <4>3, <4>4, <4>5, <4>6
    <3>7. ASSUME NEW d \in {"lo", "hi"}, HalfFails(w, d) PROVE Ownership'
      BY <3>7 DEF HalfFails, GiveUp
    <3>8. CASE StartPump(w) \/ LeavePump(w) \/ JoinPumps(w) \/ RemovedAll(w)
      BY <3>8 DEF StartPump, LeavePump, JoinPumps, RemovedAll
    <3>9. CASE CloneFails(w) BY <3>9 DEF CloneFails, GiveUp
    <3>10. CASE RemoveRow(w) BY <3>10 DEF RemoveRow, NextToRemove
    <3>11. CASE CloseTun(w)
      <4>1. rows[w] = {} /\ rows' = rows
        BY <3>11 DEF CloseTun
      <4>2. \A v \in Workers : \A r \in rows[v] :
               r \in table' \/ r.via \in Adapters \ present'
        <5> SUFFICES ASSUME NEW v \in Workers, NEW r \in rows[v], r \notin table'
                     PROVE  r.via \in Adapters \ present'
          OBVIOUS
        <5>1. r.via \in Interface
          BY DEF Row
        <5> QED BY <3>11, <5>1 DEF CloseTun, Release, Vanish, Off, Interface
      <4>3. \A v \in Workers : v # w => pc'[v] = pc[v] /\ tun'[v] = tun[v]
        BY <3>11 DEF CloseTun, Release
      <4> QED BY <4>1, <4>2, <4>3
    <3> QED
      BY <2>1, <3>1, <3>2, <3>3, <3>4, <3>5, <3>6, <3>7, <3>8, <3>9, <3>10, <3>11
      DEF WorkerStep
  <2>2. ASSUME NEW w \in Workers, LinkDies(w) PROVE Ownership'
    BY <2>2 DEF LinkDies
  <2>3. CASE ClickDisconnect \/ ConnectRefused \/ Quit \/ CtrlC
    BY <2>3 DEF ClickDisconnect, ConnectRefused, Quit, CtrlC
  <2>4. CASE ClickConnect BY <2>4 DEF ClickConnect, Spawn
  <2>5. CASE Launch
    <3>1. CASE mode' = "headless"
      <4>1. PICK w \in Workers, k \in Kinds : Spawn(w, k)
        BY <2>5, <3>1, Zenon DEF Launch
      <4> QED BY <2>5, <4>1 DEF Launch, Spawn
    <3>2. CASE mode' # "headless" BY <2>5, <3>2 DEF Launch
    <3> QED BY <3>1, <3>2
  <2>6. ASSUME NEW how \in {"exit", "kill"}, Die(how) PROVE Ownership'
    BY <2>6 DEF Die
  <2>7. CASE UNCHANGED vars BY <2>7 DEF vars
  <2> QED
    BY <2>1, <2>2, <2>3, <2>4, <2>5, <2>6, <2>7
    DEF Next, UserStep, Exit, Kill, Finished
<1> QED BY <1>1, <1>2, TypeCorrect, PTL DEF Spec

-----------------------------------------------------------------------------
(* A step of one worker leaves the program counters of the others alone.    *)
LEMMA OneMoves ==
  ASSUME NEW v \in Workers, WorkerStep(v), pc \in [Workers -> PC]
  PROVE  /\ pc[v] # "idle"
         /\ \A w \in Workers : w # v => pc'[w] = pc[w]
<1> USE DEF Goto
<1>1. ASSUME NEW d \in {"lo", "hi"}, AddHalf(v, d) \/ HalfFails(v, d)
      PROVE  pc[v] # "idle" /\ \A w \in Workers : w # v => pc'[w] = pc[w]
  BY <1>1 DEF AddHalf, HalfFails, GiveUp
<1>2. CASE ClearFlag(v) \/ SetConnecting(v) \/ OpenAdapter(v) \/ OpenMisses(v)
           \/ CreateAdapter(v) \/ AdapterFails(v) \/ StartSession(v) \/ StartFails(v)
  BY <1>2 DEF ClearFlag, SetConnecting, OpenAdapter, OpenMisses, CreateAdapter,
     AdapterFails, StartSession, StartFails
<1>3. CASE Dial(v) \/ DialFails(v) \/ Carve(v) \/ CarveSkipped(v) \/ SetConnected(v)
           \/ StartPump(v) \/ CloneFails(v) \/ LeavePump(v) \/ JoinPumps(v)
  BY <1>3 DEF Dial, DialFails, GiveUp, Carve, CarveSkipped, SetConnected, StartPump,
     CloneFails, LeavePump, JoinPumps
<1>4. CASE RemoveRow(v) \/ RemovedAll(v) \/ CloseTun(v) \/ SetError(v) \/ TestState(v)
           \/ Settle(v)
  BY <1>4 DEF RemoveRow, RemovedAll, CloseTun, SetError, TestState, SettleUnless, Settle
<1> QED BY <1>1, <1>2, <1>3, <1>4 DEF WorkerStep

-----------------------------------------------------------------------------
(* A state of Connecting or Connected always has a worker behind it that    *)
(* has yet to test the state for the last time: its store, or its finding   *)
(* Error there, is what takes Busy away.  NoStaleConnected is not inductive *)
(* without this.                                                            *)
BusyHasWorker == Busy => \E w \in Workers : pc[w] \notin {"idle"} \cup Starting

(* When no worker runs, the state is neither Connecting nor Connected       *)
(* (worker.rs 46-49).                                                       *)
THEOREM NeverStale == Spec => []NoStaleConnected
<1>1. Init => BusyHasWorker
  BY DEF Init, BusyHasWorker, Busy
<1>2. TypeOK /\ BusyHasWorker /\ [Next]_vars => BusyHasWorker'
  <2> SUFFICES ASSUME TypeOK, BusyHasWorker, [Next]_vars PROVE BusyHasWorker'
    OBVIOUS
  <2>0. pc \in [Workers -> PC]
    BY DEF TypeOK
  <2> USE <2>0 DEF BusyHasWorker, Busy, Starting, Goto, SetState
  <2>1. ASSUME NEW w \in Workers, WorkerStep(w) PROVE BusyHasWorker'
    <3>1. CASE ClearFlag(w) BY <3>1 DEF ClearFlag
    <3>2. CASE SetConnecting(w) \/ SetConnected(w) \/ SetError(w)
      BY <3>2 DEF SetConnecting, SetConnected, SetError
    <3>3. CASE TestState(w) BY <3>3 DEF TestState, SettleUnless
    <3>4. CASE Settle(w) BY <3>4 DEF Settle
    <3>5. CASE Dial(w) \/ DialFails(w) BY <3>5 DEF Dial, DialFails, GiveUp, InstallOrder
    <3>6. CASE Carve(w) \/ CarveSkipped(w)
      BY <3>6 DEF Carve, CarveSkipped, InstallOrder
    <3>7. ASSUME NEW d \in {"lo", "hi"}, AddHalf(w, d) \/ HalfFails(w, d)
          PROVE  BusyHasWorker'
      BY <3>7 DEF AddHalf, HalfFails, GiveUp, InstallOrder
    <3>8. CASE StartPump(w) \/ CloneFails(w) \/ LeavePump(w) \/ JoinPumps(w)
      BY <3>8 DEF StartPump, CloneFails, GiveUp, LeavePump, JoinPumps
    <3>9. CASE RemoveRow(w) \/ RemovedAll(w)
      BY <3>9 DEF RemoveRow, RemovedAll
    <3>10. CASE CloseTun(w) BY <3>10 DEF CloseTun
    <3>11. CASE OpenAdapter(w) \/ OpenMisses(w) \/ CreateAdapter(w)
      BY <3>11 DEF OpenAdapter, OpenMisses, CreateAdapter
    <3>12. CASE AdapterFails(w) \/ StartSession(w) \/ StartFails(w)
      BY <3>12 DEF AdapterFails, StartSession, StartFails
    <3> QED
      BY <2>1, <3>1, <3>2, <3>3, <3>4, <3>5, <3>6, <3>7, <3>8, <3>9, <3>10, <3>11,
         <3>12
      DEF WorkerStep
  <2>2. ASSUME NEW w \in Workers, LinkDies(w) PROVE BusyHasWorker'
    BY <2>2 DEF LinkDies
  <2>3. CASE ClickDisconnect \/ ConnectRefused \/ Quit \/ CtrlC
    BY <2>3 DEF ClickDisconnect, ConnectRefused, Quit, CtrlC
  <2>4. CASE ClickConnect BY <2>4 DEF ClickConnect
  <2>5. CASE Launch
    <3>1. CASE mode' = "headless"
      <4>1. PICK w \in Workers, k \in Kinds : Spawn(w, k)
        BY <2>5, <3>1, Zenon DEF Launch
      <4> QED BY <2>5, <4>1 DEF Launch, Spawn
    <3>2. CASE mode' # "headless" BY <2>5, <3>2 DEF Launch
    <3> QED BY <3>1, <3>2
  <2>6. ASSUME NEW how \in {"exit", "kill"}, Die(how) PROVE BusyHasWorker'
    BY <2>6 DEF Die
  <2>7. CASE UNCHANGED vars BY <2>7 DEF vars
  <2> QED
    BY <2>1, <2>2, <2>3, <2>4, <2>5, <2>6, <2>7
    DEF Next, UserStep, Exit, Kill, Finished
<1>3. BusyHasWorker => NoStaleConnected
  BY DEF BusyHasWorker, NoStaleConnected, Running
<1> QED BY <1>1, <1>2, <1>3, TypeCorrect, PTL DEF Spec

-----------------------------------------------------------------------------
(* A stop flag that is up was raised during the session of every worker     *)
(* that is past clear_stop.                                                 *)
StopIsFresh ==
    stop => \A w \in Workers : pc[w] \in {"idle", "spawned"} \/ w \in asked

(* A pump that is alive is left only on a stop requested during its own     *)
(* session (worker.rs 37, 162-175).                                         *)
THEOREM StopsAreFresh == Spec => StopOnlyWhenAsked
<1>1. Init => StopIsFresh
  BY DEF Init, StopIsFresh
<1>2. TypeOK /\ StopIsFresh /\ [Next]_vars => StopIsFresh'
  <2> SUFFICES ASSUME TypeOK, StopIsFresh, [Next]_vars PROVE StopIsFresh'
    OBVIOUS
  <2>0. pc \in [Workers -> PC]
    BY DEF TypeOK
  <2> USE <2>0 DEF StopIsFresh, Goto
  <2>1. ASSUME NEW w \in Workers, WorkerStep(w) PROVE StopIsFresh'
    <3>1. CASE ClearFlag(w) BY <3>1 DEF ClearFlag, ClearStop
    <3>2. CASE SetConnecting(w) \/ SetConnected(w) \/ SetError(w) \/ TestState(w) \/ Settle(w)
      BY <3>2 DEF SetConnecting, SetConnected, SetError, TestState, SettleUnless, Settle,
         Return
    <3>3. CASE Dial(w) \/ DialFails(w) BY <3>3 DEF Dial, DialFails, GiveUp, InstallOrder
    <3>4. CASE Carve(w) \/ CarveSkipped(w)
      BY <3>4 DEF Carve, CarveSkipped, InstallOrder
    <3>5. ASSUME NEW d \in {"lo", "hi"}, AddHalf(w, d) \/ HalfFails(w, d)
          PROVE  StopIsFresh'
      BY <3>5 DEF AddHalf, HalfFails, GiveUp, InstallOrder
    <3>6. CASE StartPump(w) \/ CloneFails(w) \/ LeavePump(w) \/ JoinPumps(w)
      BY <3>6 DEF StartPump, CloneFails, GiveUp, LeavePump, JoinPumps
    <3>7. CASE RemoveRow(w) \/ RemovedAll(w) \/ CloseTun(w)
      BY <3>7 DEF RemoveRow, RemovedAll, CloseTun
    <3>8. CASE OpenAdapter(w) \/ OpenMisses(w) \/ CreateAdapter(w)
      BY <3>8 DEF OpenAdapter, OpenMisses, CreateAdapter
    <3>9. CASE AdapterFails(w) \/ StartSession(w) \/ StartFails(w)
      BY <3>9 DEF AdapterFails, StartSession, StartFails
    <3> QED
      BY <2>1, <3>1, <3>2, <3>3, <3>4, <3>5, <3>6, <3>7, <3>8, <3>9 DEF WorkerStep
  <2>2. ASSUME NEW w \in Workers, LinkDies(w) PROVE StopIsFresh'
    BY <2>2 DEF LinkDies
  <2>3. CASE ClickDisconnect \/ Quit \/ CtrlC
    BY <2>3 DEF ClickDisconnect, Quit, CtrlC, RequestStop, Running
  <2>4. CASE ConnectRefused BY <2>4 DEF ConnectRefused
  <2>5. CASE ClickConnect BY <2>5 DEF ClickConnect, Spawn
  <2>6. CASE Launch
    <3>1. CASE mode' = "headless"
      <4>1. PICK w \in Workers, k \in Kinds : Spawn(w, k)
        BY <2>6, <3>1, Zenon DEF Launch
      <4> QED BY <2>6, <4>1 DEF Launch, Spawn
    <3>2. CASE mode' # "headless" BY <2>6, <3>2 DEF Launch
    <3> QED BY <3>1, <3>2
  <2>7. ASSUME NEW how \in {"exit", "kill"}, Die(how) PROVE StopIsFresh'
    BY <2>7 DEF Die
  <2>8. CASE UNCHANGED vars BY <2>8 DEF vars
  <2> QED
    BY <2>1, <2>2, <2>3, <2>4, <2>5, <2>6, <2>7, <2>8
    DEF Next, UserStep, Exit, Kill, Finished
<1> DEFINE Fresh == \A w \in Workers :
                     (pc[w] = "pump" /\ pc'[w] = "teardown" /\ alive[w]) => w \in asked
<1>3. TypeOK /\ StopIsFresh /\ [Next]_vars => [Fresh]_vars
  <2> SUFFICES ASSUME TypeOK, StopIsFresh, Next,
                      NEW w \in Workers, pc[w] = "pump", pc'[w] = "teardown", alive[w]
               PROVE  w \in asked
    OBVIOUS
  <2>0. pc \in [Workers -> PC]
    BY DEF TypeOK
  <2>1. LeavePump(w)
    <3>1. ASSUME NEW v \in Workers, WorkerStep(v) PROVE LeavePump(w)
      <4>1. v = w
        BY <2>0, <3>1, OneMoves
      <4> USE <2>0 DEF Goto
      <4>2. ASSUME NEW d \in {"lo", "hi"}, AddHalf(w, d) \/ HalfFails(w, d) PROVE FALSE
        BY <4>2 DEF AddHalf, HalfFails, GiveUp
      <4> QED
        BY <3>1, <4>1, <4>2 DEF WorkerStep, ClearFlag, SetConnecting, OpenAdapter,
           OpenMisses, CreateAdapter, AdapterFails, StartSession, StartFails, Dial,
           DialFails, GiveUp, Carve, CarveSkipped, SetConnected, StartPump, CloneFails,
           JoinPumps, RemoveRow, RemovedAll, CloseTun, SetError, TestState, SettleUnless,
           Settle
    <3>2. ASSUME NEW v \in Workers, LinkDies(v) PROVE FALSE
      BY <3>2 DEF LinkDies
    <3>3. ASSUME UserStep PROVE FALSE
      BY <2>0, <3>3 DEF UserStep, ClickDisconnect, ClickConnect, ConnectRefused, Quit, CtrlC,
         Spawn, Goto
    <3>4. ASSUME Launch PROVE FALSE
      BY <2>0, <3>4 DEF Launch, Spawn, Goto
    <3>5. ASSUME NEW how \in {"exit", "kill"}, Die(how) PROVE FALSE
      BY <3>5 DEF Die
    <3> QED
      BY <3>1, <3>2, <3>3, <3>4, <3>5 DEF Next, Exit, Kill, Finished, vars
  <2>2. stop
    BY <2>1 DEF LeavePump, MustLeave
  <2> QED BY <2>2 DEF StopIsFresh
<1> QED BY <1>1, <1>2, <1>3, TypeCorrect, PTL DEF Spec, StopOnlyWhenAsked
-----------------------------------------------------------------------------
(* What keeps the state one worker's story.  Two workers that run beside    *)
(* each other both know it (company), and what a worker that has been alone *)
(* since its announcement wrote is still there: ShownConnected and          *)
(* ErrorShown are not inductive without this.                               *)
Company ==
    /\ \A v, w \in Running : v # w => company[v] = "since"
    /\ \A w \in Workers : company[w] # "since" =>
        /\ pc[w] \in {"clone", "pump"} => state = "Connected"
        /\ pc[w] = "tail" /\ err[w] => state = "Error"
        /\ pc[w] = "settle" => ~err[w]

(* Whoever runs beside another worker is marked, and a worker that is not   *)
(* sees the state it wrote (worker.rs 29-81, app.rs 114-158).               *)
THEOREM CompanyIsKept == Spec => []Company
<1>1. Init => Company
  BY DEF Init, Company, Running
<1>2. TypeOK /\ Company /\ [Next]_vars => Company'
  <2> SUFFICES ASSUME TypeOK, Company, [Next]_vars PROVE Company'
    OBVIOUS
  <2>0. /\ pc \in [Workers -> PC] /\ err \in [Workers -> BOOLEAN]
        /\ company \in [Workers -> {"none", "before", "since"}]
    BY DEF TypeOK
  <2> USE <2>0 DEF Company, Running, Goto, SetState
  <2>1. ASSUME NEW w \in Workers, WorkerStep(w) PROVE Company'
    <3>0. /\ pc[w] # "idle"
          /\ \A v \in Workers : v # w => pc'[v] = pc[v]
          /\ \A v \in Workers : v # w /\ pc[v] # "idle"
               => company[v] = "since" /\ company[w] = "since"
      BY <2>1, OneMoves
    <3> USE <3>0
    <3>1. CASE ClearFlag(w) \/ OpenAdapter(w) \/ OpenMisses(w) \/ CreateAdapter(w)
               \/ StartSession(w)
      BY <3>1 DEF ClearFlag, OpenAdapter, OpenMisses, CreateAdapter, StartSession
    <3>2. CASE SetConnecting(w) BY <3>2 DEF SetConnecting
    <3>3. CASE AdapterFails(w) \/ StartFails(w) BY <3>3 DEF AdapterFails, StartFails
    <3>4. CASE Dial(w) \/ CarveSkipped(w) \/ Carve(w)
      BY <3>4 DEF Dial, CarveSkipped, Carve, InstallOrder
    <3>5. CASE DialFails(w) BY <3>5 DEF DialFails, GiveUp
    <3>6. ASSUME NEW d \in {"lo", "hi"}, AddHalf(w, d) PROVE Company'
      <4>1. pc' = [pc EXCEPT ![w] = InstallOrder[d]]
        BY <3>6 DEF AddHalf
      <4>2. InstallOrder[d] \in {"hi", "announce"}
        BY DEF InstallOrder
      <4> QED BY <3>6, <4>1, <4>2 DEF AddHalf
    <3>7. ASSUME NEW d \in {"lo", "hi"}, HalfFails(w, d) PROVE Company'
      BY <3>7 DEF HalfFails, GiveUp
    <3>8. CASE SetConnected(w)
      <4>1. state' = "Connected" /\ pc' = [pc EXCEPT ![w] = "clone"]
            /\ err' = err
        BY <3>8 DEF SetConnected
      <4>2. \A v \in Workers : v # w => company'[v] = company[v]
        BY <3>8 DEF SetConnected, Announce
      <4>3. \A v \in Workers : v # w /\ pc[v] # "idle" => company'[w] = company[w]
        BY <3>8 DEF SetConnected, Announce
      <4> QED BY <4>1, <4>2, <4>3
    <3>9. CASE StartPump(w) BY <3>9 DEF StartPump
    <3>10. CASE CloneFails(w) BY <3>10 DEF CloneFails, GiveUp
    <3>11. CASE LeavePump(w) \/ JoinPumps(w) \/ RemoveRow(w) \/ RemovedAll(w)
      BY <3>11 DEF LeavePump, JoinPumps, RemoveRow, RemovedAll
    <3>12. CASE CloseTun(w) BY <3>12 DEF CloseTun
    <3>13. CASE SetError(w)
      <4>1. state' = "Error" /\ pc' = [pc EXCEPT ![w] = "tail"]
        BY <3>13 DEF SetError
      <4>2. \A v \in Workers : v # w => company'[v] = company[v]
        BY <3>13 DEF SetError, Announce
      <4>3. \A v \in Workers : v # w /\ pc[v] # "idle" => company'[w] = company[w]
        BY <3>13 DEF SetError, Announce
      <4> QED BY <4>1, <4>2, <4>3
    <3>14. CASE TestState(w)
      <4>1. CASE Goto(w, "tail", "idle") /\ Return(w)
        BY <3>14, <4>1 DEF TestState, SettleUnless, Return
      <4>2. CASE Goto(w, "tail", "settle") /\ state # "Error" /\ UNCHANGED <<err, company>>
        BY <3>14, <4>2 DEF TestState, SettleUnless
      <4> QED BY <3>14, <4>1, <4>2 DEF TestState, SettleUnless
    <3>15. CASE Settle(w) BY <3>15 DEF Settle, Return
    <3> QED
      BY <2>1, <3>1, <3>2, <3>3, <3>4, <3>5, <3>6, <3>7, <3>8, <3>9, <3>10, <3>11,
         <3>12, <3>13, <3>14, <3>15
      DEF WorkerStep
  <2>2. ASSUME NEW w \in Workers, LinkDies(w) PROVE Company'
    BY <2>2 DEF LinkDies
  <2>3. CASE ClickDisconnect \/ Quit \/ CtrlC
    BY <2>3 DEF ClickDisconnect, Quit, CtrlC
  <2>4. CASE ConnectRefused BY <2>4 DEF ConnectRefused, Busy
  <2>5. ASSUME NEW w \in Workers, NEW k, Spawn(w, k), UNCHANGED <<state, err>>
        PROVE  Company'
    <3>1. pc' = [pc EXCEPT ![w] = "spawned"]
      BY <2>5 DEF Spawn
    <3>2. CASE Running = {}
      <4>1. \A v \in Workers : pc[v] = "idle"
        BY <3>2
      <4> QED BY <2>5, <3>1, <4>1
    <3>3. CASE Running # {}
      <4>1. \A v \in Workers : v = w \/ pc[v] # "idle" => company'[v] = "since"
        BY <2>5, <3>3 DEF Spawn
      <4> QED BY <2>5, <3>1, <4>1
    <3> QED BY <3>2, <3>3
  <2>6. CASE ClickConnect BY <2>5, <2>6 DEF ClickConnect
  <2>7. CASE Launch
    <3>1. CASE mode' = "headless"
      <4>1. PICK w \in Workers, k \in Kinds : Spawn(w, k)
        BY <2>7, <3>1, Zenon DEF Launch
      <4> QED BY <2>5, <2>7, <4>1 DEF Launch
    <3>2. CASE mode' # "headless" BY <2>7, <3>2 DEF Launch
    <3> QED BY <3>1, <3>2
  <2>8. ASSUME NEW how \in {"exit", "kill"}, Die(how) PROVE Company'
    BY <2>8 DEF Die
  <2>9. CASE UNCHANGED vars BY <2>9 DEF vars
  <2> QED
    BY <2>1, <2>2, <2>3, <2>4, <2>6, <2>7, <2>8, <2>9
    DEF Next, UserStep, Exit, Kill, Finished
<1> QED BY <1>1, <1>2, TypeCorrect, PTL DEF Spec

(* A worker that pumps is shown as Connected, so that the user can          *)
(* disconnect it, unless another was still about when it announced itself:  *)
(* for any number of workers, every fault and clicks at any moment (app.rs  *)
(* 114-129, worker.rs 81).                                                  *)
THEOREM ConnectedIsShown == Spec => []ShownConnected
<1>1. Company => ShownConnected
  BY DEF Company, ShownConnected
<1> QED BY <1>1, CompanyIsKept, PTL

(* An attempt that fails leaves Error on display, whenever the user clicks, *)
(* unless another worker ran between its set_error and its last test of the *)
(* state (worker.rs 41-49).                                                 *)
THEOREM FailureStaysShown == Spec => ErrorShown
<1> DEFINE Shown == \A w \in Workers :
                     (pc[w] # "idle" /\ pc'[w] = "idle" /\ proc' = "up" /\ err[w]
                       /\ company[w] # "since") => state' = "Error"
<1>1. TypeOK /\ Company /\ [Next]_vars => [Shown]_vars
  <2> SUFFICES ASSUME TypeOK, Company, Next, NEW w \in Workers, pc[w] # "idle",
                      pc'[w] = "idle", proc' = "up", err[w], company[w] # "since"
               PROVE  state' = "Error"
    OBVIOUS
  <2>0. pc \in [Workers -> PC]
    BY DEF TypeOK
  <2>1. TestState(w) \/ Settle(w)
    <3>1. ASSUME NEW v \in Workers, WorkerStep(v) PROVE TestState(w) \/ Settle(w)
      <4>1. v = w
        BY <2>0, <3>1, OneMoves
      <4> USE <2>0 DEF Goto
      <4>2. ASSUME NEW d \in {"lo", "hi"}, AddHalf(w, d) \/ HalfFails(w, d) PROVE FALSE
        <5>1. InstallOrder[d] \in {"hi", "announce"}
          BY DEF InstallOrder
        <5> QED BY <4>2, <5>1 DEF AddHalf, HalfFails, GiveUp
      <4> QED
        BY <3>1, <4>1, <4>2 DEF WorkerStep, ClearFlag, SetConnecting, OpenAdapter,
           OpenMisses, CreateAdapter, AdapterFails, StartSession, StartFails, Dial,
           DialFails, GiveUp, Carve, CarveSkipped, SetConnected, StartPump, CloneFails,
           LeavePump, JoinPumps, RemoveRow, RemovedAll, CloseTun, SetError, InstallOrder
    <3>2. ASSUME NEW v \in Workers, LinkDies(v) PROVE FALSE
      BY <3>2 DEF LinkDies
    <3>3. ASSUME UserStep PROVE FALSE
      BY <2>0, <3>3 DEF UserStep, ClickDisconnect, ClickConnect, ConnectRefused, Quit, CtrlC,
         Spawn, Goto
    <3>4. ASSUME Launch PROVE FALSE
      BY <2>0, <3>4 DEF Launch, Spawn, Goto
    <3>5. ASSUME NEW how \in {"exit", "kill"}, Die(how) PROVE FALSE
      BY <3>5 DEF Die
    <3> QED
      BY <3>1, <3>2, <3>3, <3>4, <3>5 DEF Next, Exit, Kill, Finished, vars
  <2>2. ~Settle(w)
    BY DEF Settle, Goto, Company
  <2>3. pc[w] = "tail" /\ state' = state
    BY <2>0, <2>1, <2>2 DEF TestState, SettleUnless, Goto
  <2> QED BY <2>3 DEF Company
<1> QED BY <1>1, TypeCorrect, CompanyIsKept, PTL DEF Spec, ErrorShown
-----------------------------------------------------------------------------
(* Longest-prefix match over what Routes::install can leave in the table:   *)
(* halves on adapters, and one carve-out through whatever led to the phone. *)

OurRows == [dest : {"lo", "hi"}, via : Adapters] \cup [dest : {"phone"}, via : Interface]

OneCarve(T) == \A r, s \in T : r.dest = "phone" /\ s.dest = "phone" => r = s

(* A row longer than every other of a set is the set's only longest row.    *)
LEMMA LongestUnique ==
  ASSUME NEW M, NEW h \in M,
         \A r \in M : Length[r.dest] \in Nat,
         \A r \in M : r # h => Length[r.dest] < Length[h.dest]
  PROVE  {r.via : r \in Longest(M)} = {h.via}
<1>1. Longest(M) = {h}
  <2>1. h \in Longest(M)
    BY DEF Longest
  <2>2. ASSUME NEW r \in Longest(M) PROVE r = h
    BY DEF Longest
  <2> QED BY <2>1, <2>2
<1> QED BY <1>1

LEMMA PrefixLengths ==
  /\ Length["phone"] = 32 /\ Length["lan"] = 24 /\ Length["all"] = 0
  /\ Length["lo"] = 1 /\ Length["hi"] = 1
BY DEF Length, Dest

(* With both halves on an adapter, an address that is neither on-link nor   *)
(* the phone's goes to adapters only, whoever else has halves: a /1 row     *)
(* beats the /0 (routing.rs 3-7).                                           *)
LEMMA SplitDefaultCaptures ==
  ASSUME NEW T, T \subseteq OurRows, NEW u, SplitDefault(u) \subseteq T,
         NEW a \in Addr, a \notin Lan, a # Phone
  PROVE  Via(BaseTable \cup T, a) \subseteq Adapters
<1> DEFINE half == IF a \in LowHalf THEN OnLinkRow("lo", u) ELSE OnLinkRow("hi", u)
           M == Matching(BaseTable \cup T, a)
<1>1. half \in M /\ Length[half.dest] = 1
  BY PrefixLengths DEF Matching, SplitDefault, OnLinkRow, Net, Dest
<1>2. \A r \in M : r.via \in Adapters \/ r.dest = "all"
  BY DEF Matching, OurRows, BaseTable, Net, Dest
<1>3. \A r \in Longest(M) : r.via \in Adapters
  <2> HIDE DEF M, half
  <2> QED BY <1>1, <1>2, PrefixLengths DEF Longest
<1> QED BY <1>3 DEF Via

(* The phone is reached through the carve-out and nothing else: /32 beats   *)
(* everything (routing.rs 9-13).                                            *)
LEMMA CarveOutWins ==
  ASSUME NEW T, T \subseteq OurRows, OneCarve(T), NEW s \in T, s.dest = "phone"
  PROVE  Via(BaseTable \cup T, Phone) = {s.via}
<1> DEFINE M == Matching(BaseTable \cup T, Phone)
<1>1. s \in M
  BY DEF Matching, Net, Dest
<1>2. \A r \in M : r = s \/ r.dest \in {"lan", "all", "lo", "hi"}
  BY DEF Matching, OurRows, BaseTable, OneCarve
<1>3. \A r \in M : Length[r.dest] \in Nat
  <2> HIDE DEF M
  <2> QED BY <1>2, PrefixLengths
<1>4. \A r \in M : r # s => Length[r.dest] < Length[s.dest]
  <2> HIDE DEF M
  <2> QED BY <1>2, PrefixLengths
<1>5. {r.via : r \in Longest(M)} = {s.via}
  <2> HIDE DEF M
  <2> QED BY <1>1, <1>3, <1>4, LongestUnique
<1> QED BY <1>5 DEF Via

-----------------------------------------------------------------------------
(* What the table holds at each point of Routes::install.  A worker that    *)
(* never ran beside another still sees at "carve" the physical network it   *)
(* dialled over; one that did may have dialled or looked the hop up through *)
(* the other's halves.                                                      *)
Table == table \subseteq OurRows /\ OneCarve(table)

Installed ==
    \A w \in Workers :
        /\ pc[w] = "hi" => OnLinkRow("lo", tun[w]) \in rows[w]
        /\ pc[w] \in Tunnelled => SplitDefault(tun[w]) \subseteq rows[w]
        /\ company[w] = "none" =>
            /\ (pc[w] = "carve" /\ kind[w] # "usb") => PhoneReachable
            /\ \A r \in rows[w] : r.dest = "phone" => r.via = "phys"

(* The interface a hop leads through is one there is. *)
LEMMA HopIsInterface ==
  ASSUME table \subseteq Row, NEW hop \in Via(FullTable, Phone)
  PROVE  hop \in Interface
BY DEF Via, Longest, Matching, FullTable, BaseTable, Row, Interface, Dest

(* Every row is a half on an adapter or the only carve-out: with a row for  *)
(* the phone in the table the next carve-out is refused (routing.rs 53-98). *)
THEOREM TableHolds == Spec => []Table
<1>1. Init => Table
  BY DEF Init, Table, OneCarve
<1>2. TypeOK /\ Table /\ [Next]_vars => Table'
  <2> SUFFICES ASSUME TypeOK, Table, [Next]_vars PROVE Table'
    OBVIOUS
  <2>0. /\ table \subseteq Row /\ rows \in [Workers -> SUBSET Row]
        /\ tun \in [Workers -> Adapters \cup {NoAdapter}] /\ present \subseteq Adapters
    BY DEF TypeOK
  <2> USE <2>0, DesktopAssumption DEF Table, OneCarve
  <2>1. ASSUME NEW w \in Workers, WorkerStep(w) PROVE Table'
    <3>1. CASE Carve(w)
      <4>1. PICK hop \in Via(FullTable, Phone) : AddRow(w, CarveRow(hop))
        BY <3>1 DEF Carve
      <4>2. hop \in Interface
        BY <4>1, HopIsInterface
      <4>3. \A r \in table : r.dest # "phone"
        <5> SUFFICES ASSUME NEW s \in table, s.dest = "phone" PROVE FALSE
          OBVIOUS
        <5>1. Via(FullTable, Phone) = {s.via}
          BY CarveOutWins DEF FullTable
        <5>2. s = CarveRow(hop)
          BY <4>1, <5>1 DEF CarveRow, Row
        <5> QED BY <4>1, <5>2 DEF AddRow
      <4>4. table' = table \cup {CarveRow(hop)}
        BY <4>1 DEF AddRow
      <4>5. CarveRow(hop) \in OurRows
        BY <4>2 DEF CarveRow, OurRows
      <4> QED BY <4>3, <4>4, <4>5
    <3>2. ASSUME NEW d \in {"lo", "hi"}, AddHalf(w, d) PROVE Table'
      <4>1. tun[w] \in Adapters /\ table' = table \cup {OnLinkRow(d, tun[w])}
        BY <3>2 DEF AddHalf, AddRow, OnLinkRow, Interface
      <4>2. OnLinkRow(d, tun[w]) \in OurRows /\ OnLinkRow(d, tun[w]).dest # "phone"
        BY <4>1 DEF OnLinkRow, OurRows
      <4> QED BY <4>1, <4>2
    <3>3. CASE RemoveRow(w) BY <3>3 DEF RemoveRow
    <3>4. CASE CloseTun(w) BY <3>4 DEF CloseTun, Release, Vanish, Off
    <3>5. ASSUME NEW d \in {"lo", "hi"}, HalfFails(w, d) PROVE Table'
      BY <3>5 DEF HalfFails
    <3> QED
      BY <2>1, <3>1, <3>2, <3>3, <3>4, <3>5
      DEF WorkerStep, ClearFlag, SetConnecting, OpenAdapter, OpenMisses, CreateAdapter,
          AdapterFails, StartSession, StartFails, Dial, DialFails, CarveSkipped,
          SetConnected, StartPump, CloneFails, LeavePump, JoinPumps, RemovedAll,
          SetError, TestState, SettleUnless, Settle
  <2>2. ASSUME NEW how \in {"exit", "kill"}, Die(how) PROVE Table'
    BY <2>2 DEF Die, Vanish, Off
  <2> QED
    BY <2>1, <2>2 DEF Next, UserStep, LinkDies, ClickDisconnect, ClickConnect,
       ConnectRefused, Quit, CtrlC, Launch, Exit, Kill, Finished, vars
<1> QED BY <1>1, <1>2, TypeCorrect, PTL DEF Spec

(* A step of one worker leaves what the others hold alone.                  *)
LEMMA OthersKeep ==
  ASSUME NEW v \in Workers, WorkerStep(v), TypeOK, NEW w \in Workers, w # v
  PROVE  /\ rows'[w] = rows[w] /\ tun'[w] = tun[w] /\ kind'[w] = kind[w]
         /\ company'[w] = company[w]
<1>0. /\ rows \in [Workers -> SUBSET Row] /\ tun \in [Workers -> Adapters \cup {NoAdapter}]
      /\ kind \in [Workers -> {"usb", "wifi", "host"}]
      /\ company \in [Workers -> {"none", "before", "since"}]
  BY DEF TypeOK
<1> DEFINE Kept == /\ rows'[w] = rows[w] /\ tun'[w] = tun[w] /\ kind'[w] = kind[w]
                   /\ company'[w] = company[w]
<1>1. ASSUME NEW d \in {"lo", "hi"}, AddHalf(v, d) \/ HalfFails(v, d) PROVE Kept
  BY <1>0, <1>1 DEF AddHalf, AddRow, HalfFails
<1>2. CASE ClearFlag(v) \/ SetConnecting(v) \/ OpenAdapter(v) \/ OpenMisses(v)
           \/ CreateAdapter(v) \/ AdapterFails(v) \/ StartSession(v) \/ StartFails(v)
  BY <1>0, <1>2 DEF ClearFlag, SetConnecting, OpenAdapter, OpenMisses, CreateAdapter,
     AdapterFails, StartSession, StartFails
<1>3. CASE Dial(v) \/ DialFails(v) \/ Carve(v) \/ CarveSkipped(v) \/ SetConnected(v)
           \/ StartPump(v) \/ CloneFails(v) \/ LeavePump(v) \/ JoinPumps(v)
  BY <1>0, <1>3 DEF Dial, DialFails, Carve, AddRow, CarveSkipped, SetConnected, Announce,
     StartPump, CloneFails, LeavePump, JoinPumps
<1>4. CASE RemoveRow(v) \/ RemovedAll(v) \/ CloseTun(v) \/ SetError(v)
  BY <1>0, <1>4 DEF RemoveRow, RemovedAll, CloseTun, Release, SetError, Announce
<1>5. CASE TestState(v) \/ Settle(v)
  BY <1>0, <1>5 DEF TestState, SettleUnless, Settle, Return
<1> QED BY <1>1, <1>2, <1>3, <1>4, <1>5 DEF WorkerStep

(* Each point of Routes::install finds the rows the points before it added, *)
(* and a worker alone finds the phone off the tunnel (routing.rs 50-101).   *)
THEOREM RoutesHold == Spec => []Installed
<1>1. Init => Installed
  BY DEF Init, Installed, Tunnelled
<1>2. TypeOK /\ Ownership /\ Company /\ Installed /\ [Next]_vars => Installed'
  <2> SUFFICES ASSUME TypeOK, Ownership, Company, Installed, [Next]_vars
               PROVE  Installed'
    OBVIOUS
  <2>0. /\ pc \in [Workers -> PC] /\ rows \in [Workers -> SUBSET Row]
        /\ kind \in [Workers -> {"usb", "wifi", "host"}]
        /\ tun \in [Workers -> Adapters \cup {NoAdapter}]
        /\ company \in [Workers -> {"none", "before", "since"}]
    BY DEF TypeOK
  <2>1. \A w \in Workers : pc[w] = "idle" => rows[w] = {}
    BY DEF Ownership, Holding
  <2> USE <2>0, <2>1 DEF Installed, Tunnelled, Goto
  <2>2. ASSUME NEW w \in Workers, WorkerStep(w) PROVE Installed'
    <3> DEFINE Mine(v) ==
          /\ pc[v] = "hi" => OnLinkRow("lo", tun[v]) \in rows[v]
          /\ pc[v] \in Tunnelled => SplitDefault(tun[v]) \subseteq rows[v]
          /\ company[v] = "none" =>
              /\ (pc[v] = "carve" /\ kind[v] # "usb") => PhoneReachable
              /\ \A r \in rows[v] : r.dest = "phone" => r.via = "phys"
    <3>0. \A v \in Workers : v # w =>
             /\ pc'[v] = pc[v] /\ rows'[v] = rows[v] /\ tun'[v] = tun[v]
             /\ kind'[v] = kind[v] /\ company'[v] = company[v]
             /\ pc[v] # "idle" => company[v] = "since"
      <4> TAKE v \in Workers
      <4> HAVE v # w
      <4>1. pc[w] # "idle" /\ pc'[v] = pc[v]
        BY <2>2, OneMoves
      <4>2. pc[v] # "idle" => company[v] = "since"
        BY <4>1 DEF Company, Running
      <4> QED BY <2>2, <4>1, <4>2, OthersKeep
    <3>1. \A v \in Workers : v # w => Mine(v)'
      BY <3>0
    <3> HIDE DEF PhoneReachable
    <3>2. CASE ClearFlag(w) \/ SetConnecting(w) \/ OpenAdapter(w) \/ OpenMisses(w)
               \/ CreateAdapter(w) \/ AdapterFails(w) \/ StartSession(w) \/ StartFails(w)
      <4>1. /\ pc'[w] \in {"cleared", "open", "create", "start", "failed", "dial", "drop"}
            /\ rows' = rows /\ company' = company
        BY <3>2 DEF ClearFlag, SetConnecting, OpenAdapter, OpenMisses, CreateAdapter,
           AdapterFails, StartSession, StartFails
      <4>2. Mine(w)'
        BY <4>1
      <4> QED BY <3>1, <4>2
    <3>3. CASE Dial(w)
      <4>1. PhoneReachable' = PhoneReachable
        BY <3>3 DEF Dial, PhoneReachable, FullTable
      <4>2. Mine(w)'
        BY <3>3, <4>1 DEF Dial, InstallOrder
      <4> QED BY <3>1, <4>2
    <3>4. CASE Carve(w)
      <4>1. PICK hop \in Via(FullTable, Phone) : AddRow(w, CarveRow(hop))
        BY <3>4 DEF Carve
      <4>2. /\ rows'[w] = rows[w] \cup {CarveRow(hop)} /\ pc'[w] = "lo"
            /\ company' = company /\ tun' = tun
        BY <3>4, <4>1 DEF Carve, AddRow, InstallOrder
      <4>3. company[w] = "none" => hop = "phys"
        BY <3>4, <4>1 DEF Carve, PhoneReachable
      <4>4. \A r \in rows'[w] : r \in rows[w] \/ r.via = hop
        BY <4>2 DEF CarveRow
      <4>5. Mine(w)'
        BY <4>2, <4>3, <4>4
      <4> QED BY <3>1, <4>5
    <3>5. CASE DialFails(w) \/ CarveSkipped(w)
      <4>1. pc'[w] \in {"close", "lo"} /\ rows' = rows /\ company' = company
        BY <3>5 DEF DialFails, GiveUp, CarveSkipped, InstallOrder
      <4>2. Mine(w)'
        BY <4>1
      <4> QED BY <3>1, <4>2
    <3>6. ASSUME NEW d \in {"lo", "hi"}, AddHalf(w, d) PROVE Installed'
      <4>1. /\ pc[w] = d /\ pc'[w] = InstallOrder[d] /\ tun' = tun /\ company' = company
            /\ rows'[w] = rows[w] \cup {OnLinkRow(d, tun[w])}
        BY <3>6 DEF AddHalf, AddRow
      <4>2. (d = "lo" /\ pc'[w] = "hi") \/ (d = "hi" /\ pc'[w] = "announce")
        BY <4>1 DEF InstallOrder
      <4>3. \A r \in rows'[w] : r \in rows[w] \/ r.dest # "phone"
        BY <4>1 DEF OnLinkRow
      <4>4. Mine(w)'
        BY <4>1, <4>2, <4>3 DEF SplitDefault
      <4> QED BY <3>1, <4>4
    <3>7. ASSUME NEW d \in {"lo", "hi"}, HalfFails(w, d) PROVE Installed'
      <4>1. pc'[w] = "remove" /\ rows' = rows /\ company' = company
        BY <3>7 DEF HalfFails, GiveUp
      <4>2. Mine(w)'
        BY <4>1
      <4> QED BY <3>1, <4>2
    <3>8. CASE SetConnected(w)
      <4>1. /\ pc[w] = "announce" /\ pc'[w] = "clone" /\ rows' = rows /\ tun' = tun
            /\ company'[w] = "none" => company[w] = "none"
        BY <3>8 DEF SetConnected, Announce
      <4>2. Mine(w)'
        BY <4>1
      <4> QED BY <3>1, <4>2
    <3>9. CASE StartPump(w) \/ LeavePump(w)
      <4>1. /\ pc[w] \in Tunnelled /\ pc'[w] \in {"pump", "teardown"}
            /\ rows' = rows /\ tun' = tun /\ company' = company
        BY <3>9 DEF StartPump, LeavePump
      <4>2. Mine(w)'
        BY <4>1
      <4> QED BY <3>1, <4>2
    <3>10. CASE JoinPumps(w) \/ CloneFails(w) \/ RemoveRow(w) \/ RemovedAll(w)
      <4>1. /\ pc'[w] \in {"remove", "close"} /\ company' = company
            /\ rows'[w] \subseteq rows[w]
        BY <3>10 DEF JoinPumps, CloneFails, GiveUp, RemoveRow, RemovedAll
      <4>2. Mine(w)'
        BY <4>1
      <4> QED BY <3>1, <4>2
    <3>11. CASE CloseTun(w) \/ SetError(w)
      <4>1. pc'[w] \in {"failed", "tail"} /\ rows' = rows /\ rows[w] = {}
        BY <3>11 DEF CloseTun, SetError, Ownership, Holding
      <4>2. Mine(w)'
        BY <4>1
      <4> QED BY <3>1, <4>2
    <3>12. CASE TestState(w) \/ Settle(w)
      <4>1. pc'[w] \in {"settle", "idle"} /\ rows' = rows /\ rows[w] = {}
        BY <3>12 DEF TestState, SettleUnless, Settle, Return, Ownership, Holding
      <4>2. Mine(w)'
        BY <4>1
      <4> QED BY <3>1, <4>2
    <3> QED
      BY <2>2, <3>2, <3>3, <3>4, <3>5, <3>6, <3>7, <3>8, <3>9, <3>10, <3>11, <3>12
      DEF WorkerStep
  <2>3. PhoneReachable' = PhoneReachable \/ table' # table
    BY DEF PhoneReachable, FullTable
  <2> HIDE DEF PhoneReachable
  <2>4. ASSUME NEW w \in Workers, LinkDies(w) PROVE Installed'
    BY <2>3, <2>4 DEF LinkDies
  <2>5. CASE ClickDisconnect \/ ConnectRefused \/ Quit \/ CtrlC
    BY <2>3, <2>5 DEF ClickDisconnect, ConnectRefused, Quit, CtrlC
  <2>6. ASSUME NEW w \in Workers, NEW k, Spawn(w, k), UNCHANGED <<rows, table, tun>>
        PROVE  Installed'
    <3>1. PhoneReachable' = PhoneReachable
      BY <2>3, <2>6
    <3>2. /\ pc[w] = "idle" /\ pc'[w] = "spawned"
          /\ \A v \in Workers : v # w => pc'[v] = pc[v] /\ kind'[v] = kind[v]
      BY <2>6 DEF Spawn
    <3>3. \A v \in Workers : company'[v] = "none" => v = w \/ pc[v] = "idle"
      BY <2>6 DEF Spawn, Running
    <3>4. rows' = rows /\ tun' = tun
      BY <2>6
    <3> QED BY <3>1, <3>2, <3>3, <3>4
  <2>7. CASE ClickConnect BY <2>6, <2>7 DEF ClickConnect
  <2>8. CASE Launch
    <3>1. CASE mode' = "headless"
      <4>1. PICK w \in Workers, k \in Kinds : Spawn(w, k)
        BY <2>8, <3>1, Zenon DEF Launch
      <4> QED BY <2>6, <2>8, <4>1 DEF Launch
    <3>2. CASE mode' # "headless" BY <2>3, <2>8, <3>2 DEF Launch
    <3> QED BY <3>1, <3>2
  <2>9. ASSUME NEW how \in {"exit", "kill"}, Die(how) PROVE Installed'
    BY <2>9 DEF Die
  <2>10. CASE UNCHANGED vars BY <2>3, <2>10 DEF vars
  <2> QED
    BY <2>2, <2>4, <2>5, <2>7, <2>8, <2>9, <2>10
    DEF Next, UserStep, Exit, Kill, Finished
<1> QED BY <1>1, <1>2, TypeCorrect, OwnershipHolds, CompanyIsKept, PTL DEF Spec

-----------------------------------------------------------------------------
(* No row of the table is ever without an owner or a recorded loss          *)
(* (routing.rs 50-122, worker.rs 78-191).                                   *)
THEOREM RowsAlwaysAccounted == Spec => []RowsAccounted
<1>1. Init => RowsAccounted
  BY DEF Init, RowsAccounted
<1>2. TypeOK /\ Ownership /\ RowsAccounted /\ [Next]_vars => RowsAccounted'
  <2> SUFFICES ASSUME TypeOK, Ownership, RowsAccounted, [Next]_vars
               PROVE  RowsAccounted'
    OBVIOUS
  <2>0. /\ pc \in [Workers -> PC] /\ rows \in [Workers -> SUBSET Row]
        /\ tun \in [Workers -> Adapters \cup {NoAdapter}]
    BY DEF TypeOK
  <2>1. \A w \in Workers : rows[w] # {} => pc[w] \in Holding
    BY DEF Ownership
  <2> USE <2>0 DEF RowsAccounted, Running, Goto
  <2>2. ASSUME NEW w \in Workers, WorkerStep(w) PROVE RowsAccounted'
    <3>1. CASE ClearFlag(w) \/ SetConnecting(w) \/ OpenAdapter(w) \/ OpenMisses(w)
               \/ CreateAdapter(w) \/ AdapterFails(w) \/ StartSession(w) \/ StartFails(w)
               \/ Dial(w) \/ DialFails(w) \/ CarveSkipped(w) \/ SetConnected(w)
               \/ StartPump(w) \/ LeavePump(w) \/ JoinPumps(w) \/ RemovedAll(w) \/ SetError(w)
      <4>1. \A v \in Workers : pc[v] # "idle" => pc'[v] # "idle"
        BY <3>1 DEF ClearFlag, SetConnecting, OpenAdapter, OpenMisses, CreateAdapter,
           AdapterFails, StartSession, StartFails, Dial, DialFails, GiveUp, CarveSkipped,
           SetConnected, StartPump, LeavePump, JoinPumps, RemovedAll, SetError, InstallOrder
      <4>2. rows' = rows /\ table' = table /\ lost' = lost
        BY <3>1 DEF ClearFlag, SetConnecting, OpenAdapter, OpenMisses, CreateAdapter,
           AdapterFails, StartSession, StartFails, Dial, DialFails, CarveSkipped,
           SetConnected, StartPump, LeavePump, JoinPumps, RemovedAll, SetError
      <4> QED BY <4>1, <4>2
    <3>2. CASE Carve(w)
      <4>1. PICK hop \in Via(FullTable, Phone) : AddRow(w, CarveRow(hop))
        BY <3>2 DEF Carve
      <4>2. pc' = [pc EXCEPT ![w] = "lo"] /\ lost' = lost
        BY <3>2 DEF Carve, InstallOrder
      <4> QED BY <4>1, <4>2 DEF AddRow
    <3>3. ASSUME NEW d \in {"lo", "hi"}, AddHalf(w, d) PROVE RowsAccounted'
      <4>1. pc' = [pc EXCEPT ![w] = InstallOrder[d]] /\ lost' = lost
        BY <3>3 DEF AddHalf
      <4>2. InstallOrder[d] \in {"hi", "announce"}
        BY DEF InstallOrder
      <4> QED BY <3>3, <4>1, <4>2 DEF AddHalf, AddRow
    <3>4. ASSUME NEW d \in {"lo", "hi"}, HalfFails(w, d) PROVE RowsAccounted'
      BY <3>4 DEF HalfFails, GiveUp
    <3>5. CASE CloneFails(w) BY <3>5 DEF CloneFails, GiveUp
    <3>6. CASE RemoveRow(w) BY <3>6 DEF RemoveRow, NextToRemove
    <3>7. CASE CloseTun(w)
      <4>1. \A v \in Workers : pc[v] # "idle" => pc'[v] # "idle"
        BY <3>7 DEF CloseTun
      <4>2. /\ rows' = rows /\ table' \subseteq table
            /\ \A r \in table' : r \in lost => r \in lost'
        BY <3>7 DEF CloseTun, Release, Vanish, Off
      <4> QED BY <4>1, <4>2
    <3>8. CASE TestState(w) \/ Settle(w)
      <4>1. rows[w] = {} /\ rows' = rows /\ table' = table /\ lost' = lost
        BY <2>1, <3>8 DEF TestState, SettleUnless, Settle, Return, Holding
      <4>2. \A v \in Workers : v # w => pc'[v] = pc[v]
        BY <2>2, OneMoves
      <4> QED BY <4>1, <4>2
    <3> QED
      BY <2>2, <3>1, <3>2, <3>3, <3>4, <3>5, <3>6, <3>7, <3>8 DEF WorkerStep
  <2>3. ASSUME NEW w \in Workers, LinkDies(w) PROVE RowsAccounted'
    BY <2>3 DEF LinkDies
  <2>4. CASE ClickDisconnect \/ ConnectRefused \/ Quit \/ CtrlC
    BY <2>4 DEF ClickDisconnect, ConnectRefused, Quit, CtrlC
  <2>5. CASE ClickConnect BY <2>5 DEF ClickConnect, Spawn
  <2>6. CASE Launch
    <3>1. CASE mode' = "headless"
      <4>1. PICK w \in Workers, k \in Kinds : Spawn(w, k)
        BY <2>6, <3>1, Zenon DEF Launch
      <4> QED BY <2>6, <4>1 DEF Launch, Spawn
    <3>2. CASE mode' # "headless" BY <2>6, <3>2 DEF Launch
    <3> QED BY <3>1, <3>2
  <2>7. ASSUME NEW how \in {"exit", "kill"}, Die(how) PROVE RowsAccounted'
    BY <2>7 DEF Die, Vanish, Off
  <2>8. CASE UNCHANGED vars BY <2>8 DEF vars
  <2> QED
    BY <2>2, <2>3, <2>4, <2>5, <2>6, <2>7, <2>8
    DEF Next, UserStep, Exit, Kill, Finished
<1> QED BY <1>1, <1>2, TypeCorrect, OwnershipHolds, PTL DEF Spec

(* A worker that pumps over an adapter captures every destination that is   *)
(* neither on-link nor the phone, for every address space, any number of    *)
(* workers and adapters, and whatever rows are left over (routing.rs 3-7).  *)
THEOREM TrafficCaptured == Spec => []FullCapture
<1>1. Ownership /\ Table /\ Installed => FullCapture
  <2> SUFFICES ASSUME Ownership, Table, Installed, NEW w \in Workers,
                      pc[w] \in Tunnelled, tun[w] \in present,
                      NEW a \in Addr \ (Lan \cup {Phone})
               PROVE  Via(FullTable, a) \subseteq Adapters
    BY DEF FullCapture
  <2>1. SplitDefault(tun[w]) \subseteq rows[w]
    BY DEF Installed
  <2>2. \A r \in SplitDefault(tun[w]) : r.via = tun[w]
    BY DEF SplitDefault, OnLinkRow
  <2>3. \A r \in rows[w] : r \in table \/ r.via \in Adapters \ present
    BY DEF Ownership
  <2>4. SplitDefault(tun[w]) \subseteq table
    BY <2>1, <2>2, <2>3
  <2> QED BY <2>4, SplitDefaultCaptures DEF FullTable, Table
<1> QED BY <1>1, OwnershipHolds, TableHolds, RoutesHold, PTL

(* A carve-out through the physical network keeps the phone's connection    *)
(* off every tunnel, and one of a worker that never ran beside another is   *)
(* such a carve-out (routing.rs 9-13, 53-70).                               *)
THEOREM PhoneStaysOffTunnel == Spec => []PhoneOffTunnel
<1>1. Ownership /\ Table /\ Installed => PhoneOffTunnel
  <2> SUFFICES ASSUME Ownership, Table, Installed, NEW w \in Workers,
                      NEW r \in rows[w], r.dest = "phone"
               PROVE  /\ r.via = "phys" => PhoneReachable
                      /\ company[w] = "none" => r.via = "phys"
    BY DEF PhoneOffTunnel
  <2>1. company[w] = "none" => r.via = "phys"
    BY DEF Installed
  <2>2. ASSUME r.via = "phys" PROVE PhoneReachable
    <3>1. r \in table
      BY <2>2, AddressAssumption DEF Ownership
    <3>2. Via(FullTable, Phone) = {r.via}
      BY <3>1, CarveOutWins DEF FullTable, Table
    <3> QED BY <2>2, <3>2 DEF PhoneReachable
  <2> QED BY <2>1, <2>2
<1> QED BY <1>1, OwnershipHolds, TableHolds, RoutesHold, PTL
=============================================================================
