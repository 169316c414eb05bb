-------------------------------- MODULE Link --------------------------------
(***************************************************************************)
(* One session's pump, from Wintun to the phone's network stack and back:  *)
(* the two threads connect_inner spawns and the wait loop and teardown     *)
(* around them (worker.rs 83-198), the framed TCP stream (rickynet-wire),  *)
(* and the reader and writer tasks, the channels and the disconnect signal *)
(* of FramedDevice with the bridge() that waits on it (device.rs, lib.rs). *)
(*                                                                         *)
(* A packet is a number of payload units; MaxFrame stands for the 65535    *)
(* bytes a u16 prefix can announce.  The stream is a sequence of tokens, a *)
(* prefix or one unit of a payload, so a frame can be cut anywhere, and a  *)
(* reader that loses its place reads payload as prefix.                    *)
(***************************************************************************)
EXTENDS Integers, Sequences, SequencesExt

CONSTANTS
    MaxFrame,     \* largest payload a prefix can announce (65535 bytes)
    TcpCap,       \* tokens one direction of the socket buffers
    IncomingCap,  \* device.rs INCOMING_CAP (2048 packets)
    DownSizes,    \* payloads ipstack may hand to poll_write
    MaxPackets,   \* bound on the packets offered in each direction
    LinkFaults    \* "cut", "ringfull", "corestop"

ASSUME LinkAssumption ==
    /\ MaxFrame \in Nat \ {0} /\ TcpCap \in Nat \ {0} /\ IncomingCap \in Nat \ {0}
    /\ DownSizes \subseteq Nat /\ MaxPackets \in Nat
    /\ LinkFaults \subseteq {"cut", "ringfull", "corestop"}

VARIABLES
    ring,      \* packets Windows queued on the Wintun receive ring
    running,   \* the Wintun session accepts receive_blocking
    alive,     \* the pump's shared flag
    main,      \* the worker: "wait", "stop", "shutdown", "join", "done"
    socket,    \* the desktop's end: "open" or "shut"
    cut,       \* the connection was reset under both ends
    tcp,       \* tokens in flight, per direction
    writer,    \* per direction: thread A, writer_task
    reader,    \* per direction: reader_task, thread B
    incoming,  \* FramedDevice.incoming
    outgoing,  \* FramedDevice.outgoing
    bridge,    \* "up" while bridge() runs and the device exists, then "down"
    offered,   \* history: how many packets each side produced
    taken,     \* history: packets the tunnel accepted, per direction
    given      \* history: packets it delivered, per direction

desktopVars == <<ring, running, alive, main, socket>>
wireVars    == <<cut, tcp>>
phoneVars   == <<incoming, outgoing, bridge>>
historyVars == <<offered, taken, given>>
vars == <<desktopVars, wireVars, writer, reader, phoneVars, historyVars>>

Direction == {"up", "down"}

(* A packet is known by its number and its size; its payload on the wire is *)
(* that many units carrying the number, after a prefix of 16 bits.          *)
Packet == [id : 1..MaxPackets, size : DownSizes \cup {1}]
Prefix(n)   == [kind |-> "len", value |-> n % (MaxFrame + 1)]
Payload(p)  == [i \in 1..p.size |-> [kind |-> "body", value |-> p.id]]
AsLength(t) == IF t.kind = "len" THEN t.value ELSE 1

LinkInit ==
    /\ ring = <<>> /\ running = TRUE /\ alive = TRUE
    /\ main = "wait" /\ socket = "open" /\ cut = FALSE
    /\ tcp = [d \in Direction |-> <<>>]
    /\ writer = [d \in Direction |-> [at |-> "take", left |-> <<>>]]
    /\ reader = [d \in Direction |-> [at |-> "head", need |-> 0, frame |-> <<>>]]
    /\ incoming = <<>> /\ outgoing = <<>> /\ bridge = "up"
    /\ offered = [d \in Direction |-> 0]
    /\ taken = [d \in Direction |-> <<>>]
    /\ given = [d \in Direction |-> <<>>]

-----------------------------------------------------------------------------
(* The socket.  The phone's socket closes when both its halves are dropped; *)
(* dropping the write half alone sends the FIN.                             *)

PhoneClosed == reader["up"].at = "done" /\ writer["down"].at = "done"
WriteFails(d) == cut \/ socket = "shut" \/ (d = "up" /\ PhoneClosed)
ReadFails(d) ==
    \/ cut
    \/ d = "up" /\ socket = "shut" /\ tcp["up"] = <<>>
    \/ d = "down" /\ socket = "shut"
    \/ d = "down" /\ writer["down"].at = "done" /\ tcp["down"] = <<>>

(* Thread A and thread B report their end through the alive flag; the       *)
(* reader task reports it by dropping the disconnect sender, see BridgeEnds.*)
EndsSilently(onDesktop) == UNCHANGED alive  \* mutant: the flag is not lowered
ThreadEnds(onDesktop) == IF onDesktop THEN alive' = FALSE ELSE UNCHANGED alive

(* One write_all of a frame, token by token: it blocks while the socket's   *)
(* buffer is full, and ends the writer if the socket is gone.               *)
WriteToken(d) ==
    /\ writer[d].at = "write" /\ writer[d].left # <<>>
    /\ ~WriteFails(d) /\ Len(tcp[d]) < TcpCap
    /\ tcp' = [tcp EXCEPT ![d] = Append(@, Head(writer[d].left))]
    /\ writer' = [writer EXCEPT ![d].left = Tail(@),
                                ![d].at = IF Len(writer[d].left) = 1 THEN "take" ELSE @]
    /\ UNCHANGED <<desktopVars, cut, reader, phoneVars, historyVars>>

WriterFails(d) ==
    /\ writer[d].at = "write" /\ WriteFails(d)
    /\ writer' = [writer EXCEPT ![d] = [at |-> "done", left |-> <<>>]]
    /\ ThreadEnds(d = "up")
    /\ UNCHANGED <<ring, running, main, socket, wireVars, reader, phoneVars,
                   historyVars>>

(* The frame that begins with this prefix, once all of it has been read.    *)
AfterPrefix(n) == [at |-> IF n = 0 THEN "put" ELSE "body", need |-> n, frame |-> <<>>]

ReadToken(d) ==
    /\ reader[d].at \in {"head", "body"}
    /\ ~ReadFails(d) /\ tcp[d] # <<>>
    /\ LET t == Head(tcp[d])
           r == reader[d]
           frame == Append(r.frame, t)
       IN reader' = [reader EXCEPT ![d] =
              IF r.at = "head" THEN AfterPrefix(AsLength(t))
              ELSE [r EXCEPT !.frame = frame,
                             !.at = IF Len(frame) = r.need THEN "put" ELSE "body"]]
    /\ tcp' = [tcp EXCEPT ![d] = Tail(@)]
    /\ UNCHANGED <<desktopVars, cut, writer, phoneVars, historyVars>>

ReaderDone == [at |-> "done", need |-> 0, frame |-> <<>>]
NextFrame  == [at |-> "head", need |-> 0, frame |-> <<>>]

ReaderFails(d) ==
    /\ reader[d].at \in {"head", "body"} /\ ReadFails(d)
    /\ reader' = [reader EXCEPT ![d] = ReaderDone]
    /\ ThreadEnds(d = "down")
    /\ UNCHANGED <<ring, running, main, socket, wireVars, writer, phoneVars,
                   historyVars>>

-----------------------------------------------------------------------------
(* Windows.                                                                 *)

(* An application's packet is routed into the adapter. *)
AppSends ==
    /\ running /\ offered["up"] < MaxPackets
    /\ offered' = [offered EXCEPT !["up"] = @ + 1]
    /\ ring' = Append(ring, [id |-> offered'["up"], size |-> 1])
    /\ UNCHANGED <<running, alive, main, socket, wireVars, writer, reader,
                   phoneVars, taken, given>>

(* Thread A: receive_blocking, then write_frame.  A packet already on the   *)
(* ring may still be received after the session was shut down.              *)
Receive ==
    /\ writer["up"].at = "take" /\ ring # <<>>
    /\ ring' = Tail(ring)
    /\ writer' = [writer EXCEPT !["up"] =
          [at |-> "write", left |-> <<Prefix(Head(ring).size)>> \o Payload(Head(ring))]]
    /\ taken' = [taken EXCEPT !["up"] = Append(@, Payload(Head(ring)))]
    /\ UNCHANGED <<running, alive, main, socket, wireVars, reader, phoneVars,
                   offered, given>>

ReceiveFails ==
    /\ writer["up"].at = "take" /\ ~running
    /\ writer' = [writer EXCEPT !["up"].at = "done"]
    /\ ThreadEnds(TRUE)
    /\ UNCHANGED <<ring, running, main, socket, wireVars, reader, phoneVars,
                   historyVars>>

(* Thread B: an empty frame is skipped; the rest is sent into Windows.      *)
Inject ==
    /\ reader["down"].at = "put"
    /\ given' = IF reader["down"].frame = <<>> THEN given
                ELSE [given EXCEPT !["down"] = Append(@, reader["down"].frame)]
    /\ reader' = [reader EXCEPT !["down"] = NextFrame]
    /\ UNCHANGED <<desktopVars, wireVars, writer, phoneVars, offered, taken>>

(* allocate_send_packet finds the ring full: thread B gives up for good.    *)
InjectFails ==
    /\ "ringfull" \in LinkFaults
    /\ reader["down"].at = "put" /\ reader["down"].frame # <<>>
    /\ reader' = [reader EXCEPT !["down"] = ReaderDone]
    /\ ThreadEnds(TRUE)
    /\ UNCHANGED <<ring, running, main, socket, wireVars, writer, phoneVars,
                   historyVars>>

(* The worker: the wait loop and the teardown that follows it.              *)
LeaveLoop(stopRequested) ==
    /\ main = "wait"
    /\ stopRequested \/ ~alive
    /\ main' = "stop"
    /\ UNCHANGED <<ring, running, alive, socket, wireVars, writer, reader,
                   phoneVars, historyVars>>

StopSession ==
    /\ main = "stop"
    /\ main' = "shutdown" /\ running' = FALSE
    /\ UNCHANGED <<ring, alive, socket, wireVars, writer, reader, phoneVars,
                   historyVars>>

(* Mutant of ShutdownSocket: left open, to be closed by its last clone. *)
KeepSocket ==
    /\ main = "shutdown"
    /\ main' = "join"
    /\ UNCHANGED <<ring, running, alive, socket, wireVars, writer, reader,
                   phoneVars, historyVars>>

ShutdownSocket ==
    /\ main = "shutdown"
    /\ main' = "join" /\ socket' = "shut"
    /\ UNCHANGED <<ring, running, alive, wireVars, writer, reader, phoneVars,
                   historyVars>>

Join ==
    /\ main = "join"
    /\ writer["up"].at = "done" /\ reader["down"].at = "done"
    /\ main' = "done"
    /\ UNCHANGED <<ring, running, alive, socket, wireVars, writer, reader,
                   phoneVars, historyVars>>

-----------------------------------------------------------------------------
(* The phone.                                                               *)

(* reader_task: wait for room in the channel, or find the device dropped.   *)
NoLimit  == TRUE                             \* mutant: an unbounded channel
OneShort == Len(incoming) < IncomingCap - 1  \* mutant: the last slot is not used
HasRoom  == Len(incoming) < IncomingCap

Forward ==
    /\ reader["up"].at = "put"
    /\ IF bridge = "up"
         THEN /\ HasRoom
              /\ incoming' = Append(incoming, reader["up"].frame)
              /\ reader' = [reader EXCEPT !["up"] = NextFrame]
         ELSE /\ reader' = [reader EXCEPT !["up"] = ReaderDone]
              /\ UNCHANGED incoming
    /\ UNCHANGED <<desktopVars, wireVars, writer, outgoing, bridge, historyVars>>

(* poll_read: ipstack takes one packet. *)
StackReads ==
    /\ bridge = "up" /\ incoming # <<>>
    /\ incoming' = Tail(incoming)
    /\ given' = [given EXCEPT !["up"] = Append(@, Head(incoming))]
    /\ UNCHANGED <<desktopVars, wireVars, writer, reader, outgoing, bridge,
                   offered, taken>>

(* poll_write: ipstack hands over one packet.  The queue has no bound; with *)
(* the writer gone it is a BrokenPipe, which ends ipstack and the bridge.   *)
DropDevice == bridge' = "down" /\ incoming' = <<>>

StackWrites(size) ==
    /\ bridge = "up" /\ offered["down"] < MaxPackets
    /\ offered' = [offered EXCEPT !["down"] = @ + 1]
    /\ IF writer["down"].at = "done"
         THEN DropDevice /\ UNCHANGED <<outgoing, taken>>
         ELSE LET p == [id |-> offered'["down"], size |-> size] IN
              /\ outgoing' = Append(outgoing, p)
              /\ taken' = IF size \in 1..MaxFrame
                          THEN [taken EXCEPT !["down"] = Append(@, Payload(p))]
                          ELSE taken
              /\ UNCHANGED <<bridge, incoming>>
    /\ UNCHANGED <<desktopVars, wireVars, writer, reader, given>>

(* writer_task: oversize packets are dropped rather than framed; a dropped  *)
(* device ends it once the queue is empty.                                  *)
FrameAny(p) == TRUE  \* mutant: the length is truncated, the payload is not
CanFrame(p) == p.size <= MaxFrame

Dequeue ==
    /\ writer["down"].at = "take" /\ outgoing # <<>>
    /\ outgoing' = Tail(outgoing)
    /\ writer' = IF CanFrame(Head(outgoing))
                 THEN [writer EXCEPT !["down"] =
                         [at |-> "write",
                          left |-> <<Prefix(Head(outgoing).size)>> \o Payload(Head(outgoing))]]
                 ELSE writer
    /\ UNCHANGED <<desktopVars, wireVars, reader, incoming, bridge, historyVars>>

QueueClosed ==
    /\ writer["down"].at = "take" /\ outgoing = <<>> /\ bridge = "down"
    /\ writer' = [writer EXCEPT !["down"].at = "done"]
    /\ UNCHANGED <<desktopVars, wireVars, reader, phoneVars, historyVars>>

(* Mutant of BridgeEnds: the bridge waits for both tasks. *)
BridgeEndsLate ==
    /\ bridge = "up" /\ reader["up"].at = "done" /\ writer["down"].at = "done"
    /\ DropDevice
    /\ UNCHANGED <<desktopVars, wireVars, writer, reader, outgoing, historyVars>>

(* bridge(): the disconnect signal resolves when reader_task has ended.     *)
BridgeEnds ==
    /\ bridge = "up" /\ reader["up"].at = "done"
    /\ DropDevice
    /\ UNCHANGED <<desktopVars, wireVars, writer, reader, outgoing, historyVars>>

(* rn_stop: the runtime is dropped with every task in it.                   *)
CoreStops ==
    /\ "corestop" \in LinkFaults
    /\ bridge = "up"
    /\ DropDevice
    /\ outgoing' = <<>>
    /\ reader' = [reader EXCEPT !["up"] = ReaderDone]
    /\ writer' = [writer EXCEPT !["down"] = [at |-> "done", left |-> <<>>]]
    /\ UNCHANGED <<desktopVars, wireVars, historyVars>>

(* The cable is pulled or a reset arrives: what was in flight is gone.      *)
Cut ==
    /\ "cut" \in LinkFaults /\ ~cut
    /\ cut' = TRUE
    /\ tcp' = [d \in Direction |-> <<>>]
    /\ UNCHANGED <<desktopVars, writer, reader, phoneVars, historyVars>>

-----------------------------------------------------------------------------
Desktop == Receive \/ ReceiveFails \/ Inject \/ LeaveLoop(FALSE) \/ StopSession
             \/ ShutdownSocket \/ Join
Phone == Forward \/ StackReads \/ Dequeue \/ QueueClosed \/ BridgeEnds
Wire(d) == WriteToken(d) \/ WriterFails(d) \/ ReadToken(d) \/ ReaderFails(d)

Outside == AppSends \/ (\E size \in DownSizes : StackWrites(size)) \/ InjectFails
             \/ LeaveLoop(TRUE) \/ CoreStops \/ Cut

Settled == main = "done" /\ bridge = "down" /\ PhoneClosed /\ UNCHANGED vars

Next == Desktop \/ Phone \/ (\E d \in Direction : Wire(d)) \/ Outside \/ Settled

(* Every thread and task is scheduled, each direction of the socket makes   *)
(* progress, and ipstack polls its device.  Nothing is assumed of the user, *)
(* of the traffic or of failures.                                           *)
LinkFairness ==
    /\ WF_vars(Receive) /\ WF_vars(ReceiveFails) /\ WF_vars(Inject)
    /\ WF_vars(LeaveLoop(FALSE) \/ StopSession \/ ShutdownSocket \/ Join)
    /\ WF_vars(Forward) /\ WF_vars(StackReads) /\ WF_vars(BridgeEnds)
    /\ WF_vars(Dequeue \/ QueueClosed)
    /\ \A d \in Direction :
        WF_vars(WriteToken(d) \/ WriterFails(d)) /\ WF_vars(ReadToken(d) \/ ReaderFails(d))

LinkSpec == LinkInit /\ [][Next]_vars /\ LinkFairness

-----------------------------------------------------------------------------
LinkTypeOK ==
    /\ running \in BOOLEAN /\ alive \in BOOLEAN /\ cut \in BOOLEAN
    /\ main \in {"wait", "stop", "shutdown", "join", "done"}
    /\ socket \in {"open", "shut"} /\ bridge \in {"up", "down"}
    /\ ring \in Seq(Packet) /\ outgoing \in Seq(Packet)
    /\ \A d \in Direction :
        /\ Len(tcp[d]) <= TcpCap
        /\ writer[d].at \in {"take", "write", "done"}
        /\ reader[d].at \in {"head", "body", "put", "done"}
        /\ offered[d] \in 0..MaxPackets
    /\ Len(incoming) <= IncomingCap

(* Through any cut, stop and teardown, each direction delivers exactly the  *)
(* packets it accepted, whole, in order and once: a reader never loses its  *)
(* place in the byte stream (worker.rs 88-158, device.rs 67-123, wire       *)
(* lib.rs 150-171).                                                         *)
Promise == INSTANCE Tunnel WITH
    Packets   <- {Payload(p) : p \in Packet},
    accepted  <- taken,
    delivered <- given,
    closed    <- main = "done" /\ bridge = "down"

KeepsPromise == Promise!TunnelSpec

(* Once the worker leaves the loop both threads end, wherever each of them  *)
(* is blocked, and the joins return (worker.rs 182-187).                    *)
TeardownCompletes == (main = "stop") ~> (main = "done")

(* A dead connection is noticed: the desktop tears the session down though  *)
(* one of its threads may be blocked elsewhere (worker.rs 117-120, 154-157).*)
LossNoticed == (cut \/ bridge = "down") ~> (main = "done")

(* When the desktop's session is over the phone drops its stack, so that    *)
(* serve() accepts the next desktop (lib.rs 206-208, device.rs 13-17).      *)
PhoneFreed == (main = "done") ~> (bridge = "down" /\ PhoneClosed)

(* Neither direction ever wedges: a packet accepted is delivered unless the *)
(* session comes down, with the bounded queue of one direction and the      *)
(* socket buffers full in any combination (device.rs 31, 90-92).            *)
NoWedge ==
    \A d \in Direction : \A i \in 1..MaxPackets :
        (Len(taken[d]) >= i) ~> (Len(given[d]) >= i \/ main = "done")
=============================================================================
