-------------------------------- MODULE Logs --------------------------------
(***************************************************************************)
(* The way of a log line on the phone: from any thread of the core to the  *)
(* ring buffer and the callback (logger.rs), and from there, or from the   *)
(* Swift shell, through LogStore's serial queue to the file and in batches *)
(* over the main queue to the screen (LogStore.swift).                     *)
(*                                                                         *)
(* A line is a number.  Lines below the level in force are never formatted *)
(* and are left out.  The callback is registered once, on the main thread, *)
(* when the shell creates the core, and never cleared; lines logged before *)
(* that (logger::init's own, or those of an early rn_start) wait in the    *)
(* ring.                                                                   *)
(***************************************************************************)
EXTENDS Naturals, Sequences, Functions, FiniteSets

CONSTANTS
    CoreThreads, MainThread,
    RingCap,     \* logger.rs RING_CAP (1000 lines)
    ScreenCap,   \* LogStore.swift maxLines (2000 lines)
    MaxLines,    \* bound on the lines logged; registering logs one
    MaxClears    \* bound on the times the user clears the log

ASSUME LogsAssumption ==
    /\ MainThread \notin CoreThreads
    /\ RingCap \in Nat \ {0} /\ ScreenCap \in Nat \ {0}
    /\ MaxLines \in Nat \ {0} /\ MaxClears \in Nat

VARIABLES
    made,            \* lines logged so far
    ring,            \* LogState.ring
    callback,        \* LogState.callback is set
    emitting,        \* per thread: the line it is about to hand to the callback
    registering,     \* rn_log_set_callback: "no", "replay", "tell", "done"
    backlog,         \* what it still has to replay
    queue,           \* closures waiting on LogStore's queue
    timers,          \* flushUI calls waiting for their 0.2 s
    mainQueue,       \* batches and wipes waiting on the main queue
    file,            \* rickynet.log
    uiBuffer, flushScheduled,
    lines,           \* the published lines
    clears,          \* times the log was cleared
    dropped          \* history: lines pushed out of a buffer or cleared

coreVars  == <<ring, callback, emitting, registering, backlog>>
storeVars == <<file, uiBuffer, flushScheduled>>
mainVars  == <<timers, mainQueue, lines, clears>>
vars == <<made, coreVars, queue, storeVars, mainVars, dropped>>

Threads == CoreThreads \cup {MainThread}
Write(l) == [op |-> "append", line |-> l]
Flush    == [op |-> "flush", line |-> 0]
Wipe     == [op |-> "wipe", line |-> 0]
Show(b)  == [op |-> "show", batch |-> b]
Blank    == [op |-> "blank", batch |-> <<>>]

LogsInit ==
    /\ made = 0 /\ ring = <<>> /\ callback = FALSE
    /\ emitting = [t \in Threads |-> <<>>]
    /\ registering = "no" /\ backlog = <<>>
    /\ queue = <<>> /\ timers = 0 /\ mainQueue = <<>>
    /\ file = <<>> /\ uiBuffer = <<>> /\ flushScheduled = FALSE
    /\ lines = <<>> /\ clears = 0 /\ dropped = {}

(* The main thread runs nothing else while it is inside set_callback, which *)
(* logs a line of its own at the end.                                       *)
MainFree == registering \in {"no", "done"} /\ emitting[MainThread] = <<>>
CanLog   == made + (IF registering = "done" THEN 0 ELSE 1) < MaxLines

-----------------------------------------------------------------------------
(* logger.rs.                                                               *)

(* CoreLogger::log: under the lock, make room, push, snapshot the callback. *)
PushLate(l) ==                             \* mutant: room for one too many
    ring' = Append(IF Len(ring) > RingCap THEN Tail(ring) ELSE ring, l)
Push(l) == ring' = Append(IF Len(ring) >= RingCap THEN Tail(ring) ELSE ring, l)
PushedOut == IF Len(ring) >= RingCap /\ ~callback THEN {Head(ring)} ELSE {}

Log(t) ==
    /\ IF t = MainThread THEN registering = "tell" ELSE CanLog
    /\ emitting[t] = <<>>
    /\ made' = made + 1
    /\ Push(made') /\ dropped' = dropped \cup PushedOut
    /\ emitting' = [emitting EXCEPT ![t] = IF callback THEN <<made'>> ELSE <<>>]
    /\ registering' = IF t = MainThread THEN "done" ELSE registering
    /\ UNCHANGED <<callback, backlog, queue, storeVars, mainVars>>

(* emit, outside the lock: the callback appends to LogStore's queue. *)
Emit(t) ==
    /\ emitting[t] # <<>>
    /\ queue' = Append(queue, Write(emitting[t][1]))
    /\ emitting' = [emitting EXCEPT ![t] = <<>>]
    /\ UNCHANGED <<made, ring, callback, registering, backlog, storeVars, mainVars, dropped>>

(* Mutant of SetCallback: the backlog is copied under a lock of its own. *)
SetCallbackThenCopy ==
    /\ registering = "no" /\ callback' = TRUE
    /\ IF callback THEN backlog' = ring /\ registering' = "replay"
                   ELSE UNCHANGED <<backlog, registering>>
    /\ UNCHANGED <<made, ring, emitting, queue, storeVars, mainVars, dropped>>

(* set_callback: install and copy the backlog under the lock, replay it     *)
(* outside, then log that it did.                                           *)
SetCallback ==
    /\ registering = "no"
    /\ callback' = TRUE /\ backlog' = ring
    /\ registering' = "replay"
    /\ UNCHANGED <<made, ring, emitting, queue, storeVars, mainVars, dropped>>

Replay ==
    /\ registering = "replay"
    /\ IF backlog = <<>>
         THEN /\ registering' = "tell"
              /\ UNCHANGED <<backlog, queue>>
         ELSE /\ queue' = Append(queue, Write(Head(backlog)))
              /\ backlog' = Tail(backlog)
              /\ UNCHANGED registering
    /\ UNCHANGED <<made, ring, callback, emitting, storeVars, mainVars, dropped>>

-----------------------------------------------------------------------------
(* LogStore.swift.                                                          *)

(* A line of the shell's own goes straight to the queue. *)
AppLog ==
    /\ MainFree /\ CanLog
    /\ made' = made + 1
    /\ queue' = Append(queue, Write(made'))
    /\ UNCHANGED <<coreVars, storeVars, mainVars, dropped>>

(* clear: what is on the queue already runs first; then a new header. *)
Clear ==
    /\ MainFree /\ clears < MaxClears /\ CanLog
    /\ clears' = clears + 1 /\ made' = made + 1
    /\ queue' = queue \o <<Wipe, Write(made')>>
    /\ mainQueue' = Append(mainQueue, Blank)
    /\ UNCHANGED <<coreVars, storeVars, timers, lines, dropped>>

Runs(op) == queue # <<>> /\ Head(queue).op = op /\ queue' = Tail(queue)

RunAppend ==
    /\ Runs("append")
    /\ file' = Append(file, Head(queue).line)
    /\ uiBuffer' = Append(uiBuffer, Head(queue).line)
    /\ flushScheduled' = TRUE
    /\ timers' = IF flushScheduled THEN timers ELSE timers + 1
    /\ UNCHANGED <<made, coreVars, mainQueue, lines, clears, dropped>>

(* Mutant of RunFlush: the flag is not reset. *)
RunFlushOnce ==
    /\ Runs("flush")
    /\ uiBuffer' = <<>>
    /\ mainQueue' = IF uiBuffer = <<>> THEN mainQueue ELSE Append(mainQueue, Show(uiBuffer))
    /\ UNCHANGED <<made, coreVars, file, flushScheduled, timers, lines, clears, dropped>>

RunFlush ==
    /\ Runs("flush")
    /\ flushScheduled' = FALSE /\ uiBuffer' = <<>>
    /\ mainQueue' = IF uiBuffer = <<>> THEN mainQueue ELSE Append(mainQueue, Show(uiBuffer))
    /\ UNCHANGED <<made, coreVars, file, timers, lines, clears, dropped>>

RunWipe ==
    /\ Runs("wipe")
    /\ file' = <<>> /\ uiBuffer' = <<>>
    /\ dropped' = dropped \cup Range(uiBuffer)
    /\ UNCHANGED <<made, coreVars, flushScheduled, mainVars>>

(* flushUI, 0.2 s after it was scheduled. *)
FlushUI ==
    /\ MainFree /\ timers > 0
    /\ timers' = timers - 1 /\ queue' = Append(queue, Flush)
    /\ UNCHANGED <<made, coreVars, storeVars, mainQueue, lines, clears, dropped>>

Newest(s) == IF Len(s) <= ScreenCap THEN s
             ELSE SubSeq(s, Len(s) - ScreenCap + 1, Len(s))

MainRuns ==
    /\ MainFree /\ mainQueue # <<>>
    /\ LET after == lines \o Head(mainQueue).batch IN
       /\ lines' = IF Head(mainQueue).op = "blank" THEN <<>> ELSE Newest(after)
       /\ dropped' = dropped \cup (Range(after) \ Range(lines'))
    /\ mainQueue' = Tail(mainQueue)
    /\ UNCHANGED <<made, coreVars, queue, storeVars, timers, clears>>

-----------------------------------------------------------------------------
Register == SetCallback \/ Replay \/ Log(MainThread)
Queue == RunAppend \/ RunFlush \/ RunWipe
LogsNext ==
    \/ \E t \in CoreThreads : Log(t)
    \/ \E t \in Threads : Emit(t)
    \/ Register \/ AppLog \/ Clear \/ Queue \/ FlushUI \/ MainRuns

(* The shell registers the callback when it creates the core; a thread that *)
(* is inside log returns; both queues and the timer run.                    *)
LogsSpec ==
    /\ LogsInit /\ [][LogsNext]_vars
    /\ WF_vars(Register) /\ \A t \in Threads : WF_vars(Emit(t))
    /\ WF_vars(Queue) /\ WF_vars(FlushUI) /\ WF_vars(MainRuns)

-----------------------------------------------------------------------------
LogsTypeOK ==
    /\ made \in 0..MaxLines /\ clears \in 0..MaxClears /\ callback \in BOOLEAN
    /\ Len(ring) <= RingCap /\ Len(backlog) <= RingCap
    /\ \A t \in Threads : Len(emitting[t]) <= 1
    /\ registering \in {"no", "replay", "tell", "done"}
    /\ timers \in 0..1 /\ flushScheduled \in BOOLEAN
    /\ Len(lines) <= ScreenCap /\ dropped \subseteq 1..made

(* The positions of line l at each place a line can be.                     *)
At(s, l) == {i \in 1..Len(s) : s[i] = l}
Where(l) ==
    [ring    |-> IF callback THEN {} ELSE At(ring, l),
     backlog |-> At(backlog, l),
     thread  |-> {t \in Threads : emitting[t] = <<l>>},
     queue   |-> At(queue, Write(l)),
     buffer  |-> At(uiBuffer, l),
     main    |-> UNION {{i} \X At(mainQueue[i].batch, l) : i \in 1..Len(mainQueue)},
     screen  |-> At(lines, l),
     gone    |-> dropped \cap {l}]
Place == {"ring", "backlog", "thread", "queue", "buffer", "main", "screen", "gone"}

(* No line is lost or doubled on its way, whatever threads are logging      *)
(* while the callback is registered and the log cleared: each is in exactly *)
(* one place, or was pushed out of a full buffer or cleared, and the file   *)
(* has it at most once (logger.rs 7-8, 60-69, 124-132, LogStore.swift 59-90).*)
EachLineOnce ==
    /\ \A l \in 1..MaxLines : LET w == Where(l) IN
        IF l <= made
          THEN \E p \in Place : Cardinality(w[p]) = 1 /\ \A q \in Place \ {p} : w[q] = {}
          ELSE \A p \in Place : w[p] = {}
    /\ IsInjective(file)

(* Every line comes to the screen: no interleaving of flushes, clears and   *)
(* bursts leaves lines in the buffer with nothing scheduled to publish them *)
(* (LogStore.swift 23-26, 66-82, 92-98).                                    *)
EveryLineShown ==
    \A l \in 1..MaxLines : (made >= l) ~> (l \in Range(lines) \cup dropped)
=============================================================================
