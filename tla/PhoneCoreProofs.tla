-------------------------- MODULE PhoneCoreProofs --------------------------
(***************************************************************************)
(* What holds of PhoneCore for any number of callers, starts and desktops  *)
(* and every choice of transports and faults.  The invariant Inv ties each *)
(* thread handle to one owner; the steps are grouped by what they do to    *)
(* it: a core moves on (CoreMoves), a call begins or ends with no live     *)
(* core in its hands (HandsFree), rn_start turns to its join (GivesUp), and*)
(* the few steps that take the lock or pass a handle on.                   *)
(***************************************************************************)
EXTENDS PhoneCore, SequenceTheorems, TLAPS

(* A call that holds the lock found no instance and will name the only one. *)
LockOK ==
    \A c \in Callers :
        /\ lock = c <=> caller[c].at \in {"spawn", "wait", "join"}
        /\ lock = c => inst = NoCore

(* A call has a thread handle exactly while it waits for readiness or       *)
(* joins, and shares it with nobody.                                        *)
HandlesOK ==
    \A c \in Callers :
        /\ caller[c].core # NoCore <=> caller[c].at \in {"wait", "join", "stopping"}
        /\ caller[c].core # NoCore => caller[c].core # inst
                                      /\ ~At(caller[c].core, {"none"})
        /\ caller[c].at = "wait" => ~core[caller[c].core].shutdown

Unshared ==
    \A c, e \in Callers :
        caller[c].core # NoCore /\ caller[c].core = caller[e].core => c = e

(* What a core reported and was told, against where it is.                  *)
CoreOK(g) ==
    /\ core[g].ready = "none" <=> At(g, {"none", "spawned"})
    /\ core[g].ready = "ok" => core[g].shutdown \/ At(g, {"accept", "bridge"})
    /\ core[g].ready = "err" => At(g, {"exited"})
    /\ core[g].tasks => At(g, {"accept", "bridge", "closing"})
    /\ core[g].shutdown => ~At(g, {"none"})
    /\ At(g, {"bridge"}) => core[g].queue # <<>>

CoresOK == \A g \in Cores : CoreOK(g)

Owned == \A g \in Alive : g = inst \/ \E c \in Callers : caller[c].core = g

(* Of the cores born after the counters' last reset, at most one is alive   *)
(* or has counted: the instance, or the core rn_start waits for.            *)
Current == (Alive \cup counted) \ late

FreshOK ==
    /\ \A g, h \in Current : g = h
    /\ inst \notin late
    /\ \A c \in Callers :
        /\ caller[c].at = "spawn" => Current = {}
        /\ caller[c].at = "wait" => caller[c].core \notin late
    /\ \A g \in counted \cup late : ~At(g, {"none"})

Inv == TypeOK /\ LockOK /\ HandlesOK /\ Unshared /\ CoresOK
         /\ InstanceListens /\ Owned /\ FreshOK

-----------------------------------------------------------------------------
(* The effects the steps are grouped by. *)

CallerGoes(c, where, g) ==
    /\ caller'[c].at \in where /\ caller'[c].core = g
    /\ \A e \in Callers \ {c} : caller'[e] = caller[e]

HandsFree(c) ==
    /\ CallerGoes(c, {"idle", "start", "stop"}, NoCore)
    /\ caller[c].core \notin Alive
    /\ lock' = IF lock = c THEN NoCaller ELSE lock
    /\ UNCHANGED <<inst, core, counted, late>>

GivesUp(c) ==
    /\ caller[c].at = "wait" /\ CallerGoes(c, {"join"}, caller[c].core)
    /\ \A h \in Cores \ {caller[c].core} : core'[h] = core[h]
    /\ \A h \in Cores : core'[h].at = core[h].at
    /\ CoresOK'
    /\ UNCHANGED <<lock, inst, counted, late>>

CoreMoves(g) ==
    /\ g \in Alive /\ core'[g].at # "none"
    /\ core'[g].shutdown = core[g].shutdown
    /\ At(g, {"accept", "bridge"}) /\ ~core[g].shutdown
         => core'[g].at \in {"accept", "bridge"}
    /\ CoreOK(g)'
    /\ \A h \in Cores \ {g} : core'[h] = core[h]
    /\ UNCHANGED <<lock, inst, caller, counted, late>>

-----------------------------------------------------------------------------
LEMMA NotACore == NoCore \notin Cores /\ NoCore \notin Alive
  BY DEF NoCore, Cores, Alive

LEMMA LateAreCores ==
    TypeOK => NoCore \notin late /\ late \subseteq Cores /\ counted \subseteq Cores
  BY NotACore DEF TypeOK

LEMMA InHand ==
    ASSUME Inv, NEW c \in Callers, caller[c].core # NoCore
    PROVE  caller[c].core \in Cores
  BY DEF Inv, TypeOK, Caller

LEMMA InstanceIsCore == Inv /\ inst # NoCore => inst \in Cores
  BY DEF Inv, TypeOK

-----------------------------------------------------------------------------
(* Which step has which effect. *)

LEMMA BindMoves == ASSUME Inv, NEW g \in Cores, Bind(g) PROVE CoreMoves(g)
  BY DEF Inv, TypeOK, Core, CoresOK, CoreOK, At, Alive, CoreMoves, Bind

LEMMA BindFailsMoves == ASSUME Inv, NEW g \in Cores, BindFails(g) PROVE CoreMoves(g)
  BY DEF Inv, TypeOK, Core, CoresOK, CoreOK, At, Alive, CoreMoves, BindFails

LEMMA AcceptMoves == ASSUME Inv, NEW g \in Cores, Accept(g) PROVE CoreMoves(g)
  BY DEF Inv, TypeOK, Core, CoresOK, CoreOK, At, Alive, CoreMoves, Accept

LEMMA BridgeReturnsMoves == ASSUME Inv, NEW g \in Cores, BridgeReturns(g) PROVE CoreMoves(g)
  BY DEF Inv, TypeOK, Core, CoresOK, CoreOK, At, Alive, CoreMoves, BridgeReturns

LEMMA SeesShutdownMoves == ASSUME Inv, NEW g \in Cores, SeesShutdown(g) PROVE CoreMoves(g)
  BY DEF Inv, TypeOK, Core, CoresOK, CoreOK, At, Alive, CoreMoves, SeesShutdown

LEMMA RuntimeDropsMoves == ASSUME Inv, NEW g \in Cores, RuntimeDrops(g) PROVE CoreMoves(g)
  BY DEF Inv, TypeOK, Core, CoresOK, CoreOK, At, Alive, CoreMoves, RuntimeDrops

LEMMA ConnectMoves ==
    ASSUME Inv, NEW d \in Desktops, Connect(d)
    PROVE  \E g \in Cores : CoreMoves(g)
  <1>1. PICK g \in Listening : core' = [core EXCEPT ![g].queue = Append(@, d)]
    BY DEF Connect
  <1>2. g \in Cores /\ core[g].queue \in Seq(Desktops)
    BY DEF Listening, Inv, TypeOK, Core
  <1>3. /\ core'[g].queue = Append(core[g].queue, d)
        /\ core'[g].at = core[g].at /\ core'[g].ready = core[g].ready
        /\ core'[g].shutdown = core[g].shutdown /\ core'[g].tasks = core[g].tasks
        /\ \A h \in Cores \ {g} : core'[h] = core[h]
    BY <1>1, <1>2 DEF Inv, TypeOK, Core
  <1>4. core'[g].queue # <<>>
    BY <1>2, <1>3, AppendProperties
  <1>5. CoreOK(g)'
    BY <1>2, <1>3, <1>4 DEF Inv, CoresOK, CoreOK, At
  <1>6. CoreMoves(g)
    BY <1>2, <1>3, <1>5 DEF CoreMoves, Connect, Listening, Alive, At
  <1> QED BY <1>2, <1>6

LEMMA NoneInHand ==
    ASSUME Inv, NEW c \in Callers, caller[c].at \in {"idle", "start", "stop", "spawn"}
    PROVE  caller[c].core \notin Alive
  BY NotACore DEF Inv, HandlesOK, Alive

LEMMA CallFrees ==
    ASSUME Inv, NEW c \in Callers, NEW entry \in {"start", "stop"}, Call(c, entry)
    PROVE  HandsFree(c)
  <1>1. CallerGoes(c, {"idle", "start", "stop"}, NoCore)
    BY DEF Inv, TypeOK, Caller, CallerGoes, Call
  <1>2. caller[c].core \notin Alive /\ lock # c
    BY NoneInHand DEF Call, Inv, LockOK
  <1> QED BY <1>1, <1>2 DEF Call, HandsFree

LEMMA ReturnFrees ==
    ASSUME Inv, NEW c \in Callers, NEW from, NEW code, Return(c, from, code)
    PROVE  CallerGoes(c, {"idle", "start", "stop"}, NoCore)
  BY DEF Inv, TypeOK, Caller, CallerGoes, Return

LEMMA AlreadyRunningFrees ==
    ASSUME Inv, NEW c \in Callers, AlreadyRunning(c) PROVE HandsFree(c)
  <1>1. caller[c].core \notin Alive /\ lock # c
    BY NoneInHand, PhoneCoreAssumption DEF AlreadyRunning, Return
  <1> QED BY <1>1, ReturnFrees DEF AlreadyRunning, HandsFree

LEMMA NotRunningFrees ==
    ASSUME Inv, NEW c \in Callers, NotRunning(c) PROVE HandsFree(c)
  <1>1. caller[c].core \notin Alive /\ lock # c
    BY NoneInHand, PhoneCoreAssumption DEF NotRunning, Return
  <1> QED BY <1>1, ReturnFrees DEF NotRunning, HandsFree

LEMMA SpawnFailsFrees ==
    ASSUME Inv, NEW c \in Callers, SpawnFails(c) PROVE HandsFree(c)
  <1>1. caller[c].core \notin Alive /\ lock = c
    BY NoneInHand DEF SpawnFails, Return, Inv, LockOK
  <1> QED BY <1>1, ReturnFrees DEF SpawnFails, HandsFree

LEMMA StartJoinsFrees ==
    ASSUME Inv, NEW c \in Callers, StartJoins(c) PROVE HandsFree(c)
  <1>1. caller[c].core \notin Alive /\ lock = c
    BY DEF StartJoins, Joined, At, Alive, Inv, LockOK
  <1> QED BY <1>1, ReturnFrees DEF StartJoins, HandsFree

LEMMA StopJoinsFrees ==
    ASSUME Inv, NEW c \in Callers, StopJoins(c) PROVE HandsFree(c)
  <1>1. caller[c].core \notin Alive /\ lock # c
    BY DEF StopJoins, Joined, At, Alive, Inv, LockOK
  <1> QED BY <1>1, ReturnFrees DEF StopJoins, HandsFree

LEMMA BindReportedGivesUp ==
    ASSUME Inv, NEW c \in Callers, BindReported(c) PROVE GivesUp(c)
  <1>1. CallerGoes(c, {"join"}, caller[c].core)
    BY DEF Inv, TypeOK, Caller, CallerGoes, BindReported, Goto
  <1> QED BY <1>1 DEF BindReported, GivesUp, Inv, CoresOK, CoreOK, At

LEMMA TimesOutGivesUp ==
    ASSUME Inv, NEW c \in Callers, TimesOut(c) PROVE GivesUp(c)
  <1>1. CallerGoes(c, {"join"}, caller[c].core)
    BY DEF Inv, TypeOK, Caller, CallerGoes, TimesOut, Goto
  <1>2. caller[c].core \in Cores
    BY InHand DEF TimesOut, Inv, HandlesOK
  <1>3. /\ \A h \in Cores \ {caller[c].core} : core'[h] = core[h]
        /\ \A h \in Cores : /\ core'[h].at = core[h].at
                            /\ core'[h].ready = core[h].ready
                            /\ core'[h].tasks = core[h].tasks
                            /\ core'[h].queue = core[h].queue
                            /\ core[h].shutdown => core'[h].shutdown
    BY <1>2 DEF Inv, TypeOK, Core, TimesOut, Signal
  <1>4. ~At(caller[c].core, {"none"})
    BY <1>2, NotACore DEF Inv, HandlesOK
  <1> QED BY <1>1, <1>3, <1>4 DEF TimesOut, GivesUp, Inv, CoresOK, CoreOK, At

-----------------------------------------------------------------------------
(* What each effect preserves. *)

LEMMA CoreMovesPreserves ==
    ASSUME Inv, NEW g \in Cores, CoreMoves(g)
    PROVE  TypeOK' => Inv'
  <1>1. LockOK' /\ Unshared'
    BY DEF Inv, CoreMoves, LockOK, Unshared
  <1>2. HandlesOK'
    BY InHand DEF Inv, CoreMoves, HandlesOK, Alive, At
  <1>3. CoresOK'
    BY DEF Inv, CoreMoves, CoresOK, CoreOK, At
  <1>4. InstanceListens'
    BY InstanceIsCore DEF Inv, CoreMoves, InstanceListens, Listening, At
  <1>5. Alive' \subseteq Alive
    BY DEF CoreMoves, Alive, At
  <1>6. Owned'
    BY <1>5 DEF Inv, CoreMoves, Owned
  <1>7. FreshOK'
    <2>1. Current' \subseteq Current
      BY <1>5 DEF CoreMoves, Current
    <2>2. \A h \in counted' \cup late' : ~At(h, {"none"})'
      BY LateAreCores DEF Inv, CoreMoves, FreshOK, At
    <2> QED BY <2>1, <2>2 DEF Inv, CoreMoves, FreshOK
  <1> QED BY <1>1, <1>2, <1>3, <1>4, <1>6, <1>7 DEF Inv

LEMMA HandsFreePreserves ==
    ASSUME Inv, NEW c \in Callers, HandsFree(c)
    PROVE  TypeOK' => Inv'
  <1>1. LockOK'
    BY PhoneCoreAssumption DEF Inv, HandsFree, CallerGoes, LockOK
  <1>2. HandlesOK' /\ Unshared'
    BY DEF Inv, HandsFree, CallerGoes, HandlesOK, Unshared, At
  <1>3. CoresOK' /\ InstanceListens' /\ Alive' = Alive
    BY DEF Inv, HandsFree, CoresOK, CoreOK, InstanceListens, Listening, Alive, At
  <1>4. Owned'
    BY <1>3 DEF Inv, HandsFree, CallerGoes, Owned
  <1>5. FreshOK'
    <2>1. Current' = Current
      BY <1>3 DEF HandsFree, Current
    <2> QED BY <2>1 DEF Inv, HandsFree, CallerGoes, FreshOK, At
  <1> QED BY <1>1, <1>2, <1>3, <1>4, <1>5 DEF Inv

LEMMA GivesUpPreserves ==
    ASSUME Inv, NEW c \in Callers, GivesUp(c)
    PROVE  TypeOK' => Inv'
  <1>1. LockOK' /\ Unshared' /\ CoresOK'
    BY DEF Inv, GivesUp, CallerGoes, LockOK, Unshared
  <1>2. HandlesOK'
    BY InHand DEF Inv, GivesUp, CallerGoes, HandlesOK, Unshared, At
  <1>3. InstanceListens'
    BY InstanceIsCore DEF Inv, GivesUp, InstanceListens, HandlesOK, Listening, At
  <1>4. Alive' = Alive
    BY DEF GivesUp, Alive, At
  <1>5. Owned'
    BY <1>4 DEF Inv, GivesUp, CallerGoes, Owned
  <1>6. FreshOK'
    <2>1. Current' = Current
      BY <1>4 DEF GivesUp, Current
    <2>2. \A h \in counted' \cup late' : ~At(h, {"none"})'
      BY LateAreCores DEF Inv, GivesUp, FreshOK, At
    <2> QED BY <2>1, <2>2 DEF Inv, GivesUp, CallerGoes, FreshOK
  <1> QED BY <1>1, <1>2, <1>3, <1>5, <1>6 DEF Inv

LEMMA StartLocksPreserves ==
    ASSUME Inv, NEW c \in Callers, StartLocks(c)
    PROVE  TypeOK' => Inv'
  <1>1. CallerGoes(c, {"spawn"}, NoCore) /\ caller[c].core = NoCore
    BY DEF Inv, TypeOK, Caller, HandlesOK, CallerGoes, StartLocks, Goto
  <1>2. LockOK' /\ \A e \in Callers : caller[e].at \notin {"spawn", "wait", "join"}
    BY <1>1, PhoneCoreAssumption DEF Inv, StartLocks, CallerGoes, LockOK
  <1>3. HandlesOK' /\ Unshared'
    BY <1>1 DEF Inv, StartLocks, CallerGoes, HandlesOK, Unshared, At
  <1>4. CoresOK' /\ InstanceListens' /\ Alive' = Alive
    BY DEF Inv, StartLocks, CoresOK, CoreOK, InstanceListens, Listening, Alive, At
  <1>5. Owned'
    BY <1>1, <1>4 DEF Inv, StartLocks, CallerGoes, Owned
  <1>6. FreshOK'
    <2>1. Current' = {} /\ counted' = {} /\ late' = Alive
      BY <1>4 DEF StartLocks, ResetCounters, Current
    <2>2. NoCore \notin Alive
      BY NotACore DEF Alive
    <2> QED BY <1>1, <1>2, <2>1, <2>2 DEF StartLocks, CallerGoes, FreshOK, Alive, At
  <1> QED BY <1>2, <1>3, <1>4, <1>5, <1>6 DEF Inv

LEMMA SpawnCorePreserves ==
    ASSUME Inv, NEW c \in Callers, SpawnCore(c)
    PROVE  TypeOK' => Inv'
  <1>1. PICK g \in Unused, t \in Transports :
            /\ caller' = [caller EXCEPT ![c].at = "wait", ![c].core = g]
            /\ core' = [core EXCEPT ![g].at = "spawned", ![g].transport = t]
    BY DEF SpawnCore
  <1>2. g \in Cores /\ core[g].at = "none" /\ caller[c].at = "spawn"
    BY DEF Unused, At, SpawnCore
  <1>a. UNCHANGED <<lock, inst, counted, late>>
    BY DEF SpawnCore
  <1>b. ~core[g].shutdown
    BY <1>2 DEF Inv, CoresOK, CoreOK, At
  <1>3. CallerGoes(c, {"wait"}, g) /\ caller[c].core = NoCore
    BY <1>1, <1>2 DEF Inv, TypeOK, Caller, HandlesOK, CallerGoes
  <1>4. /\ core'[g].at = "spawned"
        /\ core'[g].ready = core[g].ready
        /\ core'[g].shutdown = core[g].shutdown
        /\ core'[g].tasks = core[g].tasks
        /\ \A h \in Cores \ {g} : core'[h] = core[h]
    BY <1>1, <1>2 DEF Inv, TypeOK, Core
  <1>5. LockOK'
    BY <1>2, <1>3 DEF Inv, SpawnCore, CallerGoes, LockOK
  <1>6. HandlesOK' /\ Unshared'
    <2>1. g # NoCore /\ g # inst /\ \A e \in Callers : caller[e].core # g
      BY <1>2, <1>3, <1>a, NotACore DEF Inv, HandlesOK, LockOK, At
    <2>2. Unshared'
      BY <1>3, <2>1 DEF Inv, CallerGoes, Unshared
    <2>3. HandlesOK'
      BY <1>2, <1>3, <1>4, <1>a, <1>b, <2>1, InHand DEF Inv, CallerGoes, HandlesOK, At
    <2> QED BY <2>2, <2>3
  <1>7. CoresOK'
    BY <1>2, <1>4 DEF Inv, CoresOK, CoreOK, At
  <1>8. InstanceListens'
    BY <1>2, <1>4, InstanceIsCore DEF Inv, SpawnCore, InstanceListens, Listening, At
  <1>9. Alive' = Alive \cup {g}
    BY <1>2, <1>4 DEF Alive, At
  <1>10. Owned'
    BY <1>3, <1>9, <1>a, NotACore DEF Inv, CallerGoes, Owned
  <1>11. FreshOK'
    <2>1. Current = {} /\ g \notin late
      BY <1>2 DEF Inv, FreshOK, At
    <2>2. Current' = {g}
      BY <1>9, <2>1 DEF SpawnCore, Current
    <2>3. \A h \in counted' \cup late' : ~At(h, {"none"})'
      BY <1>4, LateAreCores DEF Inv, SpawnCore, FreshOK, At
    <2>4. \A e \in Callers : caller[e].at = "spawn" => e = c
      BY <1>2 DEF Inv, LockOK
    <2> QED BY <1>2, <1>3, <2>1, <2>2, <2>3, <2>4 DEF Inv, SpawnCore, CallerGoes, FreshOK
  <1> QED BY <1>5, <1>6, <1>7, <1>8, <1>10, <1>11 DEF Inv

LEMMA StartSucceedsPreserves ==
    ASSUME Inv, NEW c \in Callers, StartSucceeds(c)
    PROVE  TypeOK' => Inv'
  <1> DEFINE g == caller[c].core
  <1>1. CallerGoes(c, {"idle"}, NoCore) /\ caller[c].at = "wait"
    BY DEF Inv, TypeOK, Caller, CallerGoes, StartSucceeds, Return
  <1>2. g \in Cores /\ g # NoCore /\ lock = c
    BY <1>1, InHand DEF Inv, HandlesOK, LockOK
  <1>3. LockOK'
    BY <1>1, <1>2, PhoneCoreAssumption DEF Inv, StartSucceeds, CallerGoes, LockOK
  <1>4. HandlesOK' /\ Unshared'
    BY <1>1, <1>2 DEF Inv, StartSucceeds, CallerGoes, HandlesOK, Unshared, At
  <1>5. CoresOK' /\ Alive' = Alive
    BY DEF Inv, StartSucceeds, CoresOK, CoreOK, Alive, At
  <1>6. InstanceListens'
    BY <1>1, <1>2 DEF Inv, StartSucceeds, Ready, HandlesOK, CoresOK, CoreOK,
                      InstanceListens, Listening, At
  <1>7. Owned'
    BY <1>1, <1>2, <1>5 DEF Inv, StartSucceeds, CallerGoes, LockOK, Owned
  <1>8. FreshOK'
    <2>1. Current' = Current
      BY <1>5 DEF StartSucceeds, Current
    <2> QED BY <1>1, <1>2, <2>1 DEF Inv, StartSucceeds, CallerGoes, FreshOK, At
  <1> QED BY <1>3, <1>4, <1>5, <1>6, <1>7, <1>8 DEF Inv

LEMMA StopTakesPreserves ==
    ASSUME Inv, NEW c \in Callers, StopTakes(c)
    PROVE  TypeOK' => Inv'
  <1>1. /\ CallerGoes(c, {"stopping"}, inst)
        /\ inst \in Cores /\ inst # NoCore /\ caller[c].core = NoCore
    BY DEF Inv, TypeOK, Caller, HandlesOK, CallerGoes, StopTakes
  <1>2. /\ core'[inst].at = core[inst].at
        /\ core'[inst].ready = core[inst].ready
        /\ core'[inst].tasks = core[inst].tasks
        /\ core'[inst].queue = core[inst].queue
        /\ core'[inst].shutdown
        /\ \A h \in Cores \ {inst} : core'[h] = core[h]
    BY <1>1 DEF Inv, TypeOK, Core, StopTakes, Signal
  <1>3. inst \in Listening
    BY <1>1 DEF Inv, InstanceListens
  <1>4. LockOK'
    BY <1>1, PhoneCoreAssumption DEF Inv, StopTakes, Taken, CallerGoes, LockOK
  <1>5. HandlesOK' /\ Unshared'
    <2>1. ~At(inst, {"none"}) /\ \A e \in Callers : caller[e].core # inst
      BY <1>1, <1>3 DEF Inv, HandlesOK, Listening, At
    <2>2. Unshared'
      BY <1>1, <2>1 DEF Inv, CallerGoes, Unshared
    <2>3. HandlesOK'
      <3>1. inst' = NoCore
        BY DEF StopTakes, Taken
      <3>2. ASSUME NEW e \in Callers \ {c}, caller[e].core # NoCore
            PROVE  core'[caller[e].core] = core[caller[e].core]
        BY <3>2, <1>2, <2>1, InHand
      <3> QED BY <1>1, <1>2, <2>1, <3>1, <3>2 DEF Inv, CallerGoes, HandlesOK, At
    <2> QED BY <2>2, <2>3
  <1>6. CoresOK'
    BY <1>1, <1>2, <1>3 DEF Inv, CoresOK, CoreOK, Listening, At
  <1>7. InstanceListens' /\ Alive' = Alive
    BY <1>1, <1>2 DEF StopTakes, Taken, InstanceListens, Alive, At
  <1>8. Owned'
    <2>1. ASSUME NEW h \in Alive, h # inst
          PROVE  \E e \in Callers : caller'[e].core = h
      <3>1. PICK e \in Callers : caller[e].core = h
        BY <2>1 DEF Inv, Owned
      <3> QED BY <1>1, <3>1, NotACore DEF CallerGoes
    <2> QED BY <1>1, <1>7, <2>1 DEF CallerGoes, Owned
  <1>9. FreshOK'
    <2>1. Current' = Current
      BY <1>7 DEF StopTakes, Current
    <2>2. \A h \in counted' \cup late' : ~At(h, {"none"})'
      BY <1>1, <1>2, LateAreCores DEF Inv, StopTakes, FreshOK, At
    <2>3. inst' \notin late'
      BY LateAreCores DEF Inv, StopTakes, Taken
    <2>4. late' = late /\ counted' = counted
      BY DEF StopTakes
    <2> QED BY <1>1, <2>1, <2>2, <2>3, <2>4 DEF Inv, CallerGoes, FreshOK
  <1> QED BY <1>4, <1>5, <1>6, <1>7, <1>8, <1>9 DEF Inv

LEMMA CountPreserves ==
    ASSUME Inv, NEW g \in Cores, Count(g)
    PROVE  TypeOK' => Inv'
  <1>1. LockOK' /\ HandlesOK' /\ Unshared' /\ CoresOK'
    BY DEF Inv, Count, LockOK, HandlesOK, Unshared, CoresOK, CoreOK, At
  <1>2. InstanceListens' /\ Owned' /\ Alive' = Alive
    BY DEF Inv, Count, InstanceListens, Owned, Listening, Alive, At
  <1>3. g \in Alive
    BY DEF Inv, Count, CoresOK, CoreOK, Alive, At
  <1>4. FreshOK'
    <2>1. Current' = Current
      BY <1>2, <1>3 DEF Count, Current
    <2> QED BY <1>3, <2>1 DEF Inv, Count, FreshOK, Alive, At
  <1> QED BY <1>1, <1>2, <1>4 DEF Inv

-----------------------------------------------------------------------------
(* Types. *)

LEMMA GotoTyped ==
    ASSUME TypeOK, NEW c \in Callers, NEW from, NEW to \in {"spawn", "join"},
           Goto(c, from, to)
    PROVE  caller' \in [Callers -> Caller]
  BY DEF TypeOK, Caller, Goto

LEMMA ReturnTyped ==
    ASSUME TypeOK, NEW c \in Callers, NEW from, NEW code \in Code, Return(c, from, code)
    PROVE  caller' \in [Callers -> Caller]
  BY DEF TypeOK, Caller, Return

LEMMA HandTyped ==
    ASSUME TypeOK, NEW c \in Callers, NEW where \in {"wait", "stopping"}, NEW g \in Cores
    PROVE  [caller EXCEPT ![c].at = where, ![c].core = g] \in [Callers -> Caller]
  <1>1. caller \in [Callers -> Caller] /\ caller[c] \in Caller
    BY DEF TypeOK
  <1>2. [caller[c] EXCEPT !.at = where, !.core = g] \in Caller
    BY <1>1 DEF Caller
  <1>3. [caller EXCEPT ![c].at = where, ![c].core = g]
          = [caller EXCEPT ![c] = [caller[c] EXCEPT !.at = where, !.core = g]]
    BY <1>1
  <1> QED BY <1>1, <1>2, <1>3

(* One core's record replaced by a typed one, then each update the steps use. *)
LEMMA Replaced ==
    ASSUME TypeOK, NEW g \in Cores, NEW r \in Core
    PROVE  [core EXCEPT ![g] = r] \in [Cores -> Core]
  BY DEF TypeOK

LEMMA RecordTyped ==
    ASSUME TypeOK, NEW g \in Cores
    PROVE  core \in [Cores -> Core] /\ core[g] \in Core
  BY DEF TypeOK

Places == {"none", "spawned", "accept", "bridge", "closing", "exited"}

LEMMA SpawnTyped ==
    ASSUME TypeOK, NEW g \in Cores, NEW t \in Transports
    PROVE  [core EXCEPT ![g].at = "spawned", ![g].transport = t] \in [Cores -> Core]
  <1>1. [core[g] EXCEPT !.at = "spawned", !.transport = t] \in Core
    BY RecordTyped DEF Core, Places
  <1>2. [core EXCEPT ![g].at = "spawned", ![g].transport = t]
          = [core EXCEPT ![g] = [core[g] EXCEPT !.at = "spawned", !.transport = t]]
    BY RecordTyped
  <1> QED BY <1>1, <1>2, Replaced

LEMMA ReadyTyped ==
    ASSUME TypeOK, NEW g \in Cores, NEW where \in Places, NEW r \in {"ok", "err"}
    PROVE  [core EXCEPT ![g].at = where, ![g].ready = r] \in [Cores -> Core]
  <1>1. [core[g] EXCEPT !.at = where, !.ready = r] \in Core
    BY RecordTyped DEF Core, Places
  <1>2. [core EXCEPT ![g].at = where, ![g].ready = r]
          = [core EXCEPT ![g] = [core[g] EXCEPT !.at = where, !.ready = r]]
    BY RecordTyped
  <1> QED BY <1>1, <1>2, Replaced

LEMMA TasksTyped ==
    ASSUME TypeOK, NEW g \in Cores, NEW where \in Places, NEW b \in BOOLEAN
    PROVE  [core EXCEPT ![g].at = where, ![g].tasks = b] \in [Cores -> Core]
  <1>1. [core[g] EXCEPT !.at = where, !.tasks = b] \in Core
    BY RecordTyped DEF Core, Places
  <1>2. [core EXCEPT ![g].at = where, ![g].tasks = b]
          = [core EXCEPT ![g] = [core[g] EXCEPT !.at = where, !.tasks = b]]
    BY RecordTyped
  <1> QED BY <1>1, <1>2, Replaced

LEMMA QueueTyped ==
    ASSUME TypeOK, NEW g \in Cores, NEW q \in Seq(Desktops)
    PROVE  [core EXCEPT ![g].queue = q] \in [Cores -> Core]
  <1>1. [core[g] EXCEPT !.queue = q] \in Core
    BY RecordTyped DEF Core, Places
  <1>2. [core EXCEPT ![g].queue = q]
          = [core EXCEPT ![g] = [core[g] EXCEPT !.queue = q]]
    BY RecordTyped
  <1> QED BY <1>1, <1>2, Replaced

LEMMA LeaveTyped ==
    ASSUME TypeOK, NEW g \in Cores, NEW where \in Places, NEW q \in Seq(Desktops)
    PROVE  [core EXCEPT ![g].at = where, ![g].queue = q] \in [Cores -> Core]
  <1>1. [core[g] EXCEPT !.at = where, !.queue = q] \in Core
    BY RecordTyped DEF Core, Places
  <1>2. [core EXCEPT ![g].at = where, ![g].queue = q]
          = [core EXCEPT ![g] = [core[g] EXCEPT !.at = where, !.queue = q]]
    BY RecordTyped
  <1> QED BY <1>1, <1>2, Replaced

LEMMA SignalTyped ==
    ASSUME TypeOK, NEW g \in Cores, Signal(g)
    PROVE  core' \in [Cores -> Core]
  <1>1. [core[g] EXCEPT !.shutdown = TRUE] \in Core
    BY RecordTyped DEF Core
  <1>2. core' = [core EXCEPT ![g] = [core[g] EXCEPT !.shutdown = TRUE]]
    BY RecordTyped DEF Signal
  <1> QED BY <1>1, <1>2, Replaced

LEMMA InitTyped == Init => TypeOK
  <1> SUFFICES ASSUME Init PROVE TypeOK
    OBVIOUS
  <1>1. caller \in [Callers -> Caller]
    BY PhoneCoreAssumption DEF Init, Caller, Code
  <1>2. ASSUME NEW b \in BOOLEAN, NEW q \in Seq(Desktops)
        PROVE  [at |-> "none", transport |-> "usb", ready |-> "none",
                shutdown |-> b, tasks |-> b, queue |-> q] \in Core
    BY PhoneCoreAssumption DEF Core
  <1>3. FALSE \in BOOLEAN /\ <<>> \in Seq(Desktops)
    OBVIOUS
  <1>4. core \in [Cores -> Core]
    BY <1>2, <1>3 DEF Init
  <1> QED BY <1>1, <1>4 DEF Init, TypeOK

LEMMA CallTyped ==
    ASSUME TypeOK, NEW c \in Callers, NEW entry \in {"start", "stop"}, Call(c, entry)
    PROVE  TypeOK'
  <1>1. caller' \in [Callers -> Caller]
    BY DEF Call, TypeOK, Caller, Code
  <1> QED BY <1>1 DEF TypeOK, Call

LEMMA CallerStepTyped ==
    ASSUME TypeOK, NEW c \in Callers, CallerStep(c)
    PROVE  TypeOK'
  <1>a. Alive \subseteq Cores
    BY DEF Alive
  <1>1. CASE StartLocks(c)
    BY <1>1, <1>a, GotoTyped DEF TypeOK, StartLocks, ResetCounters
  <1>2. CASE AlreadyRunning(c)
    BY <1>2, ReturnTyped DEF TypeOK, AlreadyRunning, Code
  <1>3. CASE SpawnCore(c)
    <2>1. PICK g \in Unused, t \in Transports :
            /\ caller' = [caller EXCEPT ![c].at = "wait", ![c].core = g]
            /\ core' = [core EXCEPT ![g].at = "spawned", ![g].transport = t]
      BY <1>3 DEF SpawnCore
    <2>2. g \in Cores
      BY DEF Unused
    <2>3. caller' \in [Callers -> Caller]
      BY <2>1, <2>2, HandTyped
    <2>4. core' \in [Cores -> Core]
      BY <2>1, <2>2, SpawnTyped
    <2> QED BY <1>3, <2>3, <2>4 DEF TypeOK, SpawnCore
  <1>4. CASE SpawnFails(c)
    BY <1>4, ReturnTyped DEF TypeOK, SpawnFails, Code
  <1>5. CASE StartSucceeds(c)
    <2>1. caller[c].core \in Cores \cup {NoCore}
      BY DEF TypeOK, Caller
    <2> QED BY <1>5, ReturnTyped, <2>1 DEF TypeOK, StartSucceeds, Code
  <1>6. CASE BindReported(c)
    BY <1>6, GotoTyped DEF TypeOK, BindReported
  <1>7. CASE TimesOut(c)
    <2>1. caller' \in [Callers -> Caller]
      BY <1>7, GotoTyped DEF TimesOut
    <2>2. core' \in [Cores -> Core]
      <3>1. caller[c].core \in Cores \cup {NoCore}
        BY DEF TypeOK, Caller
      <3>2. caller[c].core = NoCore => core' = core
        BY <1>7, NotACore DEF TimesOut, Signal, TypeOK
      <3> QED BY <1>7, <3>1, <3>2, SignalTyped DEF TimesOut, TypeOK
    <2> QED BY <1>7, <2>1, <2>2 DEF TypeOK, TimesOut
  <1>8. CASE StartJoins(c)
    BY <1>8, ReturnTyped DEF TypeOK, StartJoins, StartError, Code
  <1>9. CASE StopTakes(c)
    <2>1. inst \in Cores
      BY <1>9 DEF TypeOK, StopTakes
    <2>2. caller' \in [Callers -> Caller]
      BY <1>9, <2>1, HandTyped DEF StopTakes
    <2>3. core' \in [Cores -> Core]
      BY <1>9, <2>1, SignalTyped DEF StopTakes
    <2> QED BY <1>9, <2>2, <2>3 DEF TypeOK, StopTakes, Taken
  <1>10. CASE NotRunning(c)
    BY <1>10, ReturnTyped DEF TypeOK, NotRunning, Code
  <1>11. CASE StopJoins(c)
    BY <1>11, ReturnTyped DEF TypeOK, StopJoins, Code
  <1> QED BY <1>1, <1>2, <1>3, <1>4, <1>5, <1>6, <1>7, <1>8, <1>9, <1>10, <1>11
             DEF CallerStep

LEMMA CoreStepTyped ==
    ASSUME TypeOK, CoresOK, NEW g \in Cores, CoreStep(g)
    PROVE  TypeOK'
  <1>a. core[g].queue \in Seq(Desktops) /\ <<>> \in Seq(Desktops)
    BY DEF TypeOK, Core
  <1>1. CASE Bind(g)
    <2>1. core' \in [Cores -> Core]
      BY <1>1, ReadyTyped DEF Bind, Places
    <2> QED BY <1>1, <2>1 DEF TypeOK, Bind
  <1>2. CASE BindFails(g)
    <2>1. core' \in [Cores -> Core]
      BY <1>2, ReadyTyped DEF BindFails, Places
    <2> QED BY <1>2, <2>1 DEF TypeOK, BindFails
  <1>3. CASE Accept(g)
    <2>1. core' \in [Cores -> Core]
      BY <1>3, TasksTyped DEF Accept, Places
    <2> QED BY <1>3, <2>1 DEF TypeOK, Accept
  <1>4. CASE BridgeReturns(g)
    <2>1. core' \in [Cores -> Core]
      <3>1. core' = [core EXCEPT ![g].at = "accept", ![g].queue = Tail(core[g].queue)]
        BY <1>4 DEF BridgeReturns, TypeOK, Core
      <3>2. core[g].queue # <<>>
        BY <1>4 DEF BridgeReturns, CoresOK, CoreOK
      <3> QED BY <1>a, <3>1, <3>2, HeadTailProperties, LeaveTyped DEF Places
    <2> QED BY <1>4, <2>1 DEF TypeOK, BridgeReturns
  <1>5. CASE SeesShutdown(g)
    <2>1. core' \in [Cores -> Core]
      BY <1>5, <1>a, LeaveTyped DEF SeesShutdown, Places
    <2> QED BY <1>5, <2>1 DEF TypeOK, SeesShutdown
  <1>6. CASE RuntimeDrops(g)
    <2>1. core' \in [Cores -> Core]
      BY <1>6, TasksTyped DEF RuntimeDrops, Places
    <2> QED BY <1>6, <2>1 DEF TypeOK, RuntimeDrops
  <1> QED BY <1>1, <1>2, <1>3, <1>4, <1>5, <1>6 DEF CoreStep

LEMMA DesktopTyped ==
    ASSUME TypeOK, NEW d \in Desktops, Connect(d) \/ Disconnect(d)
    PROVE  TypeOK'
  <1>1. CASE Connect(d)
    <2>1. PICK g \in Listening : core' = [core EXCEPT ![g].queue = Append(@, d)]
      BY <1>1 DEF Connect
    <2>2. g \in Cores /\ core[g].queue \in Seq(Desktops)
      BY DEF Listening, TypeOK, Core
    <2>3. Append(core[g].queue, d) \in Seq(Desktops)
      BY <2>2
    <2>4. core' = [core EXCEPT ![g].queue = Append(core[g].queue, d)]
      BY <2>1, <2>2 DEF TypeOK, Core
    <2>5. core' \in [Cores -> Core]
      BY <2>2, <2>3, <2>4, QueueTyped
    <2> QED BY <1>1, <2>5 DEF TypeOK, Connect
  <1>2. CASE Disconnect(d)
    BY <1>2 DEF TypeOK, Disconnect
  <1> QED BY <1>1, <1>2

-----------------------------------------------------------------------------
LEMMA InitInv == Init => Inv
  <1> SUFFICES ASSUME Init PROVE Inv
    OBVIOUS
  <1>1. \A c \in Callers : caller[c].at = "idle" /\ caller[c].core = NoCore
    BY DEF Init
  <1>2. \A g \in Cores : /\ core[g].at = "none" /\ core[g].ready = "none"
                         /\ ~core[g].shutdown /\ ~core[g].tasks
    BY DEF Init
  <1>3. LockOK /\ HandlesOK /\ Unshared /\ InstanceListens
    BY <1>1, PhoneCoreAssumption DEF Init, LockOK, HandlesOK, Unshared, InstanceListens
  <1>4. CoresOK /\ Owned /\ Alive = {}
    BY <1>2 DEF CoresOK, CoreOK, Owned, Alive, At
  <1>5. FreshOK
    BY <1>1, <1>4 DEF Init, FreshOK, Current
  <1> QED BY <1>3, <1>4, <1>5, InitTyped DEF Inv

LEMMA NextInv == Inv /\ [Next]_vars => Inv'
  <1> SUFFICES ASSUME Inv, [Next]_vars PROVE Inv'
    OBVIOUS
  <1>1. CASE Next
    <2>1. CASE \E c \in Callers : Call(c, "start") \/ Call(c, "stop")
      BY <2>1, CallTyped, CallFrees, HandsFreePreserves DEF Inv
    <2>2. ASSUME NEW c \in Callers, CallerStep(c) PROVE Inv'
      <3>1. TypeOK'
        BY <2>2, CallerStepTyped DEF Inv
      <3>2. CASE AlreadyRunning(c) \/ SpawnFails(c) \/ StartJoins(c)
                   \/ NotRunning(c) \/ StopJoins(c)
        BY <3>1, <3>2, AlreadyRunningFrees, SpawnFailsFrees, StartJoinsFrees,
           NotRunningFrees, StopJoinsFrees, HandsFreePreserves DEF Inv
      <3>3. CASE BindReported(c) \/ TimesOut(c)
        BY <3>1, <3>3, BindReportedGivesUp, TimesOutGivesUp, GivesUpPreserves DEF Inv
      <3>4. CASE StartLocks(c)
        BY <3>1, <3>4, StartLocksPreserves DEF Inv
      <3>5. CASE SpawnCore(c)
        BY <3>1, <3>5, SpawnCorePreserves DEF Inv
      <3>6. CASE StartSucceeds(c)
        BY <3>1, <3>6, StartSucceedsPreserves DEF Inv
      <3>7. CASE StopTakes(c)
        BY <3>1, <3>7, StopTakesPreserves DEF Inv
      <3> QED BY <2>2, <3>2, <3>3, <3>4, <3>5, <3>6, <3>7 DEF CallerStep
    <2>3. ASSUME NEW g \in Cores, CoreStep(g) PROVE Inv'
      <3>1. TypeOK'
        BY <2>3, CoreStepTyped DEF Inv
      <3>2. CoreMoves(g)
        BY <2>3, BindMoves, BindFailsMoves, AcceptMoves, BridgeReturnsMoves,
           SeesShutdownMoves, RuntimeDropsMoves DEF CoreStep
      <3> QED BY <3>1, <3>2, CoreMovesPreserves DEF Inv
    <2>4. ASSUME NEW g \in Cores, Count(g) PROVE Inv'
      <3>1. TypeOK'
        BY <2>4 DEF Inv, TypeOK, Count
      <3> QED BY <2>4, <3>1, CountPreserves DEF Inv
    <2>5. ASSUME NEW d \in Desktops, Connect(d) PROVE Inv'
      BY <2>5, DesktopTyped, ConnectMoves, CoreMovesPreserves DEF Inv
    <2>6. ASSUME NEW d \in Desktops, Disconnect(d) PROVE Inv'
      <3>1. TypeOK'
        BY <2>6, DesktopTyped DEF Inv
      <3> QED BY <2>6, <3>1 DEF Disconnect, Inv, LockOK, HandlesOK, Unshared, CoresOK,
                 CoreOK, InstanceListens, Owned, FreshOK, Current, Listening, Alive, At
    <2> QED BY <1>1, <2>1, <2>2, <2>3, <2>4, <2>5, <2>6 DEF Next
  <1>2. CASE UNCHANGED vars
    BY <1>2 DEF vars, Inv, TypeOK, LockOK, HandlesOK, Unshared, CoresOK, CoreOK,
                InstanceListens, Owned, FreshOK, Current, Listening, Alive, At
  <1> QED BY <1>1, <1>2

(* Every reachable state of the C interface satisfies the invariant.        *)
THEOREM Invariance == Spec => []Inv
  BY InitInv, NextInv, PTL DEF Spec

(* Every reachable state is well typed.                                     *)
THEOREM TypeCorrect == Spec => []TypeOK
  <1>1. Inv => TypeOK
    BY DEF Inv
  <1> QED BY <1>1, Invariance, PTL

(* The core INSTANCE names is listening and nobody told it to stop: so a    *)
(* caller of rn_start that got RN_OK has a listener until somebody calls    *)
(* rn_stop, however the calls are interleaved.                              *)
THEOREM InstanceAlwaysListens == Spec => []InstanceListens
  <1>1. Inv => InstanceListens
    BY DEF Inv
  <1> QED BY <1>1, Invariance, PTL

(* Every live core thread is the instance, or in the hands of exactly one   *)
(* call of rn_start or rn_stop.                                             *)
THEOREM NoCoreOrphaned == Spec => []NoOrphan
  <1>1. Inv => NoOrphan
    <2> SUFFICES ASSUME Inv, NEW g \in Alive
                 PROVE  \/ inst = g /\ Holders(g) = {}
                        \/ inst # g /\ \E c \in Callers : Holders(g) = {c}
      BY DEF NoOrphan
    <2>1. g # NoCore
      BY NotACore
    <2>2. CASE inst = g
      BY <2>1, <2>2 DEF Inv, HandlesOK, Holders
    <2>3. CASE inst # g
      <3>1. PICK c \in Callers : caller[c].core = g
        BY <2>3 DEF Inv, Owned
      <3>2. Holders(g) = {c}
        BY <2>1, <3>1 DEF Inv, Unshared, Holders
      <3> QED BY <2>3, <3>2
    <2> QED BY <2>2, <2>3
  <1> QED BY <1>1, Invariance, PTL

(* The counters a running core shows hold its own bytes and those of cores  *)
(* that were still going down when rn_start reset them, of no other.        *)
THEOREM CountersStayFresh == Spec => []CountersFresh
  <1>1. Inv => CountersFresh
    <2> SUFFICES ASSUME Inv, inst # NoCore, NEW g \in counted, g \notin late PROVE g = inst
      BY DEF CountersFresh
    <2>1. inst \in Alive /\ inst \notin late
      BY DEF Inv, InstanceListens, FreshOK, Listening, Alive, At
    <2> QED BY <2>1 DEF Inv, FreshOK, Current
  <1> QED BY <1>1, Invariance, PTL
=============================================================================
