------------------------------- MODULE Flows -------------------------------
(***************************************************************************)
(* The phone's side of one desktop session above the packet device: the    *)
(* accept loop of bridge() (lib.rs), the task it spawns for each flow      *)
(* ipstack terminates (flow.rs), and the socket that task opens over the   *)
(* cellular interface (egress.rs).                                         *)
(*                                                                         *)
(* Each flow joins a near end, ipstack's stream to the desktop, and a far  *)
(* end, the re-originated socket.  Data is a sequence of numbered items, a *)
(* segment of a TCP flow or a datagram of a UDP flow; Empty is a datagram  *)
(* without payload.  ipstack, the sockets and tokio's copy_bidirectional   *)
(* are modelled from the way the handlers use them.                        *)
(***************************************************************************)
EXTENDS Naturals, Sequences, FiniteSets

CONSTANTS
    Flows,       \* flows the desktop may open during the session
    Kinds,       \* "tcp", "udp", "ping": what each of them may be
    MaxItems,    \* bounds on the items sent, per flow and direction
    FlowFaults   \* "nosocket", "nolookup", "nobind", "refused", "noecho"

ASSUME FlowsAssumption ==
    /\ IsFiniteSet(Flows)
    /\ Kinds \in [Flows -> SUBSET {"tcp", "udp", "ping"}]
    /\ MaxItems \in [Flows -> [{"up", "down"} -> Nat]]
    /\ FlowFaults \subseteq {"nosocket", "nolookup", "nobind", "refused", "noecho"}

VARIABLES
    bridge,    \* "up" while bridge() loops, then "down"
    waiting,   \* flows terminated by ipstack that accept() has not returned
    kind,      \* what each flow turned out to be
    at,        \* where each flow's handler is
    ends,      \* per flow and side: not there yet, open, or over
    pipe,      \* per flow and direction: what is being relayed
    cellular,  \* an interface pdp_ip* exists
    bound,     \* flows whose open socket carries IP_BOUND_IF
    via,       \* the interface the kernel chose for each open socket
    lapsed,    \* history: starting flows that could not be bound all along
    echoed     \* ping flows answered to the desktop

session   == <<bridge, waiting, kind>>
binding   == <<cellular, bound, via, lapsed>>
vars      == <<session, at, ends, pipe, binding, echoed>>

Direction == {"up", "down"}
Side      == {"near", "far"}
Source(d) == IF d = "up" THEN "near" ELSE "far"
Sink(d)   == IF d = "up" THEN "far" ELSE "near"
Empty     == 0
Item      == UNION {UNION {Empty..MaxItems[f][d] : d \in Direction} : f \in Flows}
Preparing == {f \in Flows : at[f] \in {"new", "bind", "dial"}}

Idle == [src |-> <<>>, hand |-> <<>>, out |-> <<>>, fin |-> FALSE, done |-> FALSE]
Elements(q) == {q[i] : i \in 1..Len(q)}
Sent(p) == p.out \o p.hand \o p.src

FlowsInit ==
    /\ bridge = "up" /\ waiting = <<>>
    /\ kind = [f \in Flows |-> "none"]
    /\ at = [f \in Flows |-> "none"]
    /\ ends = [f \in Flows |-> [s \in Side |-> "none"]]
    /\ pipe = [f \in Flows |-> [d \in Direction |-> Idle]]
    /\ cellular \in BOOLEAN
    /\ bound = {} /\ via = [f \in Flows |-> "none"]
    /\ lapsed = {} /\ echoed = {}

-----------------------------------------------------------------------------
(* bridge(): the accept loop, raced with the disconnect signal.             *)

(* ipstack terminates a flow of the desktop's. *)
Arrive(f) ==
    /\ bridge = "up" /\ ends[f]["near"] = "none"
    /\ \E k \in Kinds[f] : kind' = [kind EXCEPT ![f] = k]
    /\ ends' = [ends EXCEPT ![f]["near"] = "open"]
    /\ waiting' = Append(waiting, f)
    /\ UNCHANGED <<bridge, at, pipe, binding, echoed>>

(* Mutant of Accept: the handler is awaited instead of spawned. *)
AcceptInline ==
    /\ bridge = "up" /\ waiting # <<>>
    /\ \A f \in Flows : at[f] \in {"none", "ended"}
    /\ LET f == Head(waiting) IN
       /\ at' = [at EXCEPT ![f] = "new"]
       /\ lapsed' = IF cellular THEN lapsed ELSE lapsed \cup {f}
    /\ waiting' = Tail(waiting)
    /\ UNCHANGED <<bridge, kind, ends, pipe, cellular, bound, via, echoed>>

Accept ==
    /\ bridge = "up" /\ waiting # <<>>
    /\ LET f == Head(waiting) IN
       /\ at' = [at EXCEPT ![f] = "new"]
       /\ lapsed' = IF cellular THEN lapsed ELSE lapsed \cup {f}
    /\ waiting' = Tail(waiting)
    /\ UNCHANGED <<bridge, kind, ends, pipe, cellular, bound, via, echoed>>

(* The desktop disconnected or ipstack failed: the stack is dropped with   *)
(* the flows nobody accepted; the tasks of the others run on.               *)
LeaveBridge ==
    /\ bridge = "up" /\ bridge' = "down" /\ waiting' = <<>>
    /\ ends' = [f \in Flows |-> [s \in Side |->
                  IF at[f] = "none" /\ ends[f][s] = "open" THEN "over" ELSE ends[f][s]]]
    /\ UNCHANGED <<kind, at, pipe, binding, echoed>>

-----------------------------------------------------------------------------
(* egress.rs: a socket, its interface, its route.                           *)
(* The interface comes and goes; with every route chosen nothing looks.     *)

CellularChanges ==
    /\ \E f \in Flows : at[f] = "none" \/ f \in Preparing
    /\ cellular' = ~cellular
    /\ lapsed' = IF cellular THEN lapsed \cup Preparing ELSE lapsed
    /\ UNCHANGED <<session, at, ends, pipe, bound, via, echoed>>

(* The handler returns: its stream, its socket and its buffers are dropped, *)
(* and what had not come out is lost, whether it had been read or not.      *)
Dropped(f) ==
    /\ at' = [at EXCEPT ![f] = "ended"]
    /\ ends' = [ends EXCEPT ![f] = [s \in Side |-> "over"]]
    /\ bound' = bound \ {f} /\ via' = [via EXCEPT ![f] = "none"]
    /\ lapsed' = lapsed \ {f}
    /\ pipe' = [pipe EXCEPT ![f] = [d \in Direction |->
                   [Idle EXCEPT !.src = pipe[f][d].hand \o pipe[f][d].src,
                                !.out = pipe[f][d].out]]]
    /\ UNCHANGED <<session, cellular>>

Return(f, step) == at[f] = step /\ Dropped(f)

(* Mutant of OpenSocket: the interface is left for after the connect. *)
OpenUnbound(f) ==
    /\ at[f] = "new"
    /\ at' = [at EXCEPT ![f] = "dial"]
    /\ UNCHANGED <<session, ends, pipe, binding, echoed>>

(* Socket::new, then cellular_ifindex. *)
OpenSocket(f) ==
    /\ at[f] = "new"
    /\ at' = [at EXCEPT ![f] = IF cellular THEN "bind" ELSE "dial"]
    /\ UNCHANGED <<session, ends, pipe, binding, echoed>>

(* getifaddrs fails, though an interface other than pdp_ip0 may be there.   *)
LookupFails(f) ==
    /\ "nolookup" \in FlowFaults
    /\ at[f] = "new"
    /\ at' = [at EXCEPT ![f] = "dial"]
    /\ lapsed' = lapsed \cup {f}
    /\ UNCHANGED <<session, ends, pipe, cellular, bound, via, echoed>>

(* Without a socket a ping is answered on the spot. *)
NoSocket(f) ==
    /\ "nosocket" \in FlowFaults
    /\ Return(f, "new")
    /\ echoed' = IF kind[f] = "ping" THEN echoed \cup {f} ELSE echoed

(* handle_unknown drops what is not an IPv4 echo request. *)
NotAnEcho(f) ==
    /\ "noecho" \in FlowFaults /\ kind[f] = "ping"
    /\ Return(f, "new") /\ UNCHANGED echoed

(* setsockopt(IP_BOUND_IF); a failure is only logged. *)
Bind(f) ==
    /\ at[f] = "bind" /\ cellular
    /\ at' = [at EXCEPT ![f] = "dial"]
    /\ bound' = bound \cup {f}
    /\ UNCHANGED <<session, ends, pipe, cellular, via, lapsed, echoed>>

BindFails(f) ==
    /\ at[f] = "bind"
    /\ ~cellular \/ "nobind" \in FlowFaults
    /\ at' = [at EXCEPT ![f] = "dial"]
    /\ lapsed' = lapsed \cup {f}
    /\ UNCHANGED <<session, ends, pipe, cellular, bound, via, echoed>>

(* connect, or send_to for a ping, is when the kernel chooses the route.    *)
Reachable(f) == f \in bound => cellular

Dial(f) ==
    /\ at[f] = "dial" /\ Reachable(f)
    /\ at' = [at EXCEPT ![f] = IF kind[f] = "ping" THEN "wait" ELSE "relay"]
    /\ ends' = [ends EXCEPT ![f]["far"] = "open"]
    /\ via' = [via EXCEPT ![f] = IF f \in bound THEN "cellular" ELSE "default"]
    /\ lapsed' = lapsed \ {f}
    /\ UNCHANGED <<session, pipe, cellular, bound, echoed>>

DialFails(f) ==
    /\ ~Reachable(f) \/ "refused" \in FlowFaults
    /\ Return(f, "dial") /\ UNCHANGED echoed

(* Any ICMP message that reaches the socket counts as the answer. *)
Pong(f) ==
    /\ Return(f, "wait")
    /\ echoed' = echoed \cup {f}

PingTimeout(f) ==
    /\ Return(f, "wait") /\ UNCHANGED echoed

-----------------------------------------------------------------------------
(* The two ends.  The desktop may send before the far end is connected.     *)

(* Nothing after an empty datagram matters: the relay returns at it.        *)
CanSend(f, d) ==
    /\ kind[f] # "ping" /\ ends[f][Source(d)] = "open" /\ ~pipe[f][d].fin
    /\ Empty \notin Elements(pipe[f][d].src)

Send(f, d) ==
    /\ CanSend(f, d) /\ Len(Sent(pipe[f][d])) < MaxItems[f][d]
    /\ \E i \in {Empty, Len(Sent(pipe[f][d])) + 1} :
        /\ i = Empty => kind[f] = "udp"
        /\ pipe' = [pipe EXCEPT ![f][d].src = Append(@, i)]
    /\ UNCHANGED <<session, at, ends, binding, echoed>>

(* A TCP end says it will send no more. *)
Finish(f, d) ==
    /\ CanSend(f, d) /\ kind[f] = "tcp"
    /\ pipe' = [pipe EXCEPT ![f][d].fin = TRUE]
    /\ UNCHANGED <<session, at, ends, binding, echoed>>

(* An end is over: a reset, an idle timeout, an unreachable destination, or *)
(* the stack was dropped.                                                   *)
EndOver(f, s) ==
    /\ ends[f][s] = "open"
    /\ ends' = [ends EXCEPT ![f][s] = "over"]
    /\ UNCHANGED <<session, at, pipe, binding, echoed>>

-----------------------------------------------------------------------------
(* The relays of handle_tcp and handle_udp.                                 *)

Reading(f, d) == at[f] = "relay" /\ ~pipe[f][d].done /\ pipe[f][d].hand = <<>>
Writing(f, d) == at[f] = "relay" /\ pipe[f][d].hand # <<>>

(* Mutants of Read: the source is drained before anything is written; the   *)
(* buffer is filled again before it was written.                            *)
ReadOn(f, d) ==
    /\ at[f] = "relay" /\ ~pipe[f][d].done
    /\ pipe[f][d].src # <<>> /\ Head(pipe[f][d].src) # Empty
    /\ pipe' = [pipe EXCEPT ![f][d].src = Tail(@),
                            ![f][d].hand = Append(@, Head(pipe[f][d].src))]
    /\ UNCHANGED <<session, at, ends, binding, echoed>>

ReadAhead(f, d) ==
    /\ at[f] = "relay" /\ ~pipe[f][d].done
    /\ pipe[f][d].src # <<>> /\ Head(pipe[f][d].src) # Empty
    /\ pipe' = [pipe EXCEPT ![f][d].src = Tail(@),
                            ![f][d].hand = <<Head(pipe[f][d].src)>>]
    /\ UNCHANGED <<session, at, ends, binding, echoed>>

Read(f, d) ==
    /\ Reading(f, d)
    /\ pipe[f][d].src # <<>> /\ Head(pipe[f][d].src) # Empty
    /\ pipe' = [pipe EXCEPT ![f][d].src = Tail(@),
                            ![f][d].hand = <<Head(pipe[f][d].src)>>]
    /\ UNCHANGED <<session, at, ends, binding, echoed>>

Write(f, d) ==
    /\ Writing(f, d) /\ ends[f][Sink(d)] = "open"
    /\ pipe' = [pipe EXCEPT ![f][d].hand = <<>>,
                            ![f][d].out = @ \o pipe[f][d].hand]
    /\ UNCHANGED <<session, at, ends, binding, echoed>>

(* A read or a write of either direction fails. *)
Fails(f, d) == \/ Reading(f, d) /\ ends[f][Source(d)] = "over"
               \/ Writing(f, d) /\ ends[f][Sink(d)] = "over"

RelayFails(f) ==
    /\ \E d \in Direction : Fails(f, d)
    /\ Return(f, "relay") /\ UNCHANGED echoed

(* copy_bidirectional: end of stream on one side shuts the other for        *)
(* writing, once what was read has been written; the call returns when both *)
(* directions have.                                                         *)
AtEof(f, d) == Reading(f, d) /\ pipe[f][d].src = <<>>
                 /\ (pipe[f][d].fin \/ ends[f][Source(d)] = "over")

(* Mutant of HalfClose: the first end of stream ends the flow. *)
CloseBoth(f, d) ==
    /\ kind[f] = "tcp" /\ AtEof(f, d)
    /\ Return(f, "relay") /\ UNCHANGED echoed

HalfClose(f, d) ==
    /\ kind[f] = "tcp" /\ AtEof(f, d)
    /\ IF pipe[f][IF d = "up" THEN "down" ELSE "up"].done
         THEN Dropped(f)
         ELSE /\ pipe' = [pipe EXCEPT ![f][d].done = TRUE]
              /\ UNCHANGED <<session, at, ends, binding>>
    /\ UNCHANGED echoed

(* A datagram without payload reads as the end of its side. *)
EmptyDatagram(f) ==
    /\ \E d \in Direction : Reading(f, d) /\ pipe[f][d].src # <<>>
                              /\ Head(pipe[f][d].src) = Empty
    /\ Return(f, "relay") /\ UNCHANGED echoed

-----------------------------------------------------------------------------
Prepare(f) == OpenSocket(f) \/ LookupFails(f) \/ NoSocket(f) \/ NotAnEcho(f)
                \/ Bind(f) \/ BindFails(f)
Connect(f) == Dial(f) \/ DialFails(f)
Move(f, d) == Read(f, d) \/ Write(f, d) \/ HalfClose(f, d)
GiveUp(f)  == RelayFails(f) \/ EmptyDatagram(f)

Handler(f) ==
    \/ Prepare(f) \/ Connect(f) \/ Pong(f) \/ PingTimeout(f) \/ GiveUp(f)
    \/ \E d \in Direction : Move(f, d)

World(f) ==
    \/ Arrive(f)
    \/ \E d \in Direction : Send(f, d) \/ Finish(f, d)
    \/ \E s \in Side : EndOver(f, s)

FlowsNext ==
    \/ Accept \/ LeaveBridge \/ CellularChanges
    \/ \E f \in Flows : Handler(f) \/ World(f)

(* The runtime polls the bridge and every handler; a connect may take for   *)
(* ever on a TCP flow only.  A stream of a dropped stack ends, by its       *)
(* timeout at the latest, and each end takes what is written to it.         *)
FlowsFairness ==
    /\ WF_vars(Accept)
    /\ \A f \in Flows :
        /\ WF_vars(Prepare(f) \/ (kind[f] # "tcp" /\ Connect(f)) \/ PingTimeout(f))
        /\ WF_vars(GiveUp(f)) /\ \A d \in Direction : WF_vars(Move(f, d))
        /\ WF_vars(bridge = "down" /\ EndOver(f, "near"))

FlowsSpec == FlowsInit /\ [][FlowsNext]_vars /\ FlowsFairness

-----------------------------------------------------------------------------
FlowsTypeOK ==
    /\ bridge \in {"up", "down"}
    /\ kind \in [Flows -> {"none", "tcp", "udp", "ping"}]
    /\ waiting \in Seq(Flows) /\ Len(waiting) <= Cardinality(Flows)
    /\ at \in [Flows -> {"none", "new", "bind", "dial", "wait", "relay", "ended"}]
    /\ ends \in [Flows -> [Side -> {"none", "open", "over"}]]
    /\ \A f \in Flows, d \in Direction :
        /\ Sent(pipe[f][d]) \in Seq(Item) /\ Len(pipe[f][d].hand) <= 1
        /\ pipe[f][d].fin \in BOOLEAN /\ pipe[f][d].done \in BOOLEAN
    /\ cellular \in BOOLEAN /\ bound \subseteq Flows /\ lapsed \subseteq Flows
    /\ via \in [Flows -> {"none", "cellular", "default"}] /\ echoed \subseteq Flows

(* While a cellular interface is there from the moment a handler starts,    *)
(* the lookup finds it and the option is accepted, no flow's route is       *)
(* chosen over Wi-Fi, however the interface comes and goes before and after *)
(* (egress.rs 3-15, 36-125, 135-147).                                       *)
RidesCellular ==
    [][\A f \in Flows : via[f] = "none" /\ via'[f] = "default" => f \in lapsed]_vars

(* Each relayed flow is a tunnel of its own: both directions deliver what   *)
(* their source sent, whole, in order and once, and lose at most what was   *)
(* inside when the handler returned (flow.rs 57-70, 96-123).                *)
Relay(f) == INSTANCE Tunnel WITH
    Packets   <- Item,
    accepted  <- [d \in Direction |-> Sent(pipe[f][d])],
    delivered <- [d \in Direction |-> pipe[f][d].out],
    closed    <- at[f] = "ended"

FlowsAreTunnels ==
    /\ \A f \in Flows : Relay(f)!TunnelInit
    /\ [][\A f \in Flows : [Relay(f)!TunnelNext]_(Relay(f)!tunnelVars)]_vars

(* A relay whose ends are both healthy returns only when nothing is left:   *)
(* a desktop that has finished sending still receives its answer (flow.rs   *)
(* 58-59).  The exception is the UDP datagram that looks like an end.       *)
NothingCutShort ==
    [][\A f \in Flows :
        (/\ at[f] = "relay" /\ at'[f] = "ended"
         /\ \A s \in Side : ends[f][s] = "open")
        => \/ \A d \in Direction : pipe[f][d].fin /\ pipe[f][d].out = Sent(pipe[f][d])
           \/ kind[f] = "udp"
              /\ \E d \in Direction : Empty \in Elements(pipe[f][d].src)]_vars

(* A flow whose stream is over gives its socket back, with other flows      *)
(* hanging in their dials or open for ever (flow.rs 5-8, 125-126, lib.rs    *)
(* 327-340).  A TCP relay waits for its far end as well: with the desktop   *)
(* silent and its own direction shut, only the far end can end it.          *)
Reaped ==
    \A f \in Flows :
        (/\ ends[f]["near"] = "over"
         /\ kind[f] = "tcp" => ends[f]["far"] = "over" \/ pipe[f]["down"].fin)
        ~> (at[f] = "ended" \/ (bridge = "down" /\ at[f] = "none"))
=============================================================================
