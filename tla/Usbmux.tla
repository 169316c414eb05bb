------------------------------- MODULE Usbmux -------------------------------
(***************************************************************************)
(* One dial of the phone by the desktop (transport.rs, usbmux.rs): over    *)
(* USB, a ListDevices exchange with Apple's service on one socket, then a  *)
(* Connect exchange on a second one, which becomes the pipe to the phone's *)
(* listener; over Wi-Fi, a plain connection.                               *)
(*                                                                         *)
(* What reaches the desktop's socket is a sequence of tokens: the header   *)
(* of a reply, its body, or one byte the phone sent.  Phones come and go   *)
(* at any step.  The service never gives an id twice.                      *)
(***************************************************************************)
EXTENDS Naturals, Sequences, SequencesExt

CONSTANTS
    Phones, NoPhone,
    Base,        \* values of one byte of a port number
    Port,        \* the port the app listens on
    MaxAttach,   \* bound on the times a phone is attached
    MaxBytes,    \* bound on the bytes the phone sends
    DialFaults   \* "hangup", "garbled", "unplug"

ASSUME UsbmuxAssumption ==
    /\ NoPhone \notin Phones
    /\ Base \in Nat \ {0} /\ Port \in 0..(Base * Base - 1)
    /\ MaxAttach \in Nat /\ MaxBytes \in Nat
    /\ DialFaults \subseteq {"hangup", "garbled", "unplug"}

VARIABLES
    attached,   \* the service's devices, in the order it lists them
    given,      \* ids it has given out
    listening,  \* phones whose app is started
    link,       \* "usb" or "wifi", the transport asked for
    at,         \* the desktop's place in transport::connect
    picked,     \* the device id it connects to
    request,    \* what the service has been asked on the current socket
    wire,       \* tokens on their way to the desktop on that socket
    hung,       \* the other side of the socket has closed it
    peer,       \* the phone it has been joined to
    timeouts,   \* the socket carries the 5 s timeouts
    listed,     \* history: the devices the service answered with
    said,       \* history: bytes the phone sent into the pipe
    got,        \* history: tokens the packet pump read
    excused     \* history: something outside the desktop went wrong

world == <<attached, given, listening>>
desk  == <<link, at, picked, timeouts>>
sock  == <<request, wire, hung, peer>>
hist  == <<listed, said, got, excused>>
vars  == <<world, desk, sock, hist>>

Device == [id : 1..MaxAttach, phone : Phones, conn : {"USB", "Network"}]
Waiting == {"list", "listbody", "connect", "connectbody"}

head == [kind |-> "head", devices |-> <<>>, number |-> 0]
ListBody(ds)  == [kind |-> "list", devices |-> ds, number |-> 0]
ResultBody(n) == [kind |-> "result", devices |-> <<>>, number |-> n]
Garbage       == [kind |-> "garbage", devices |-> <<>>, number |-> 0]
Byte(n)       == [kind |-> "byte", devices |-> <<>>, number |-> n]

UsbmuxInit ==
    /\ attached = <<>> /\ given = 0 /\ listening \in SUBSET Phones
    /\ link \in {"usb", "wifi"} /\ at = "start" /\ picked = 0
    /\ request = [msg |-> "none", id |-> 0, port |-> 0]
    /\ wire = <<>> /\ hung = FALSE /\ peer = NoPhone /\ timeouts = FALSE
    /\ listed = <<>> /\ said = 0 /\ got = <<>> /\ excused = FALSE

-----------------------------------------------------------------------------
(* The desktop.                                                             *)

(* PortNumber travels in network order: the two bytes of the port swapped. *)
AsIs(port)        == port                           \* mutant: host order
Untruncated(port) == port * Base + port \div Base   \* mutant: not cut to 16 bits
port_network_order(port) == (port % Base) * Base + port \div Base

(* Mutant of Ask: the socket has no timeouts. *)
AskForever(msg, id, port, next) ==
    /\ request' = [msg |-> msg, id |-> id, port |-> port]
    /\ wire' = <<>> /\ hung' = FALSE /\ peer' = NoPhone
    /\ timeouts' = FALSE /\ at' = next

(* connect_muxd and send_plist: a fresh socket, its timeouts, a request. *)
Ask(msg, id, port, next) ==
    /\ request' = [msg |-> msg, id |-> id, port |-> port]
    /\ wire' = <<>> /\ hung' = FALSE /\ peer' = NoPhone
    /\ timeouts' = TRUE /\ at' = next

ListDevices ==
    /\ at = "start" /\ link = "usb"
    /\ Ask("list", 0, 0, "list")
    /\ UNCHANGED <<world, link, picked, hist>>

Connect ==
    /\ at = "picked"
    /\ Ask("connect", picked, port_network_order(Port), "connect")
    /\ UNCHANGED <<world, link, picked, hist>>

(* The service is not there: either connect_muxd may find that out. *)
Fail == at' = "failed" /\ timeouts' = FALSE

NoService ==
    /\ "hangup" \in DialFaults
    /\ link = "usb" /\ at \in {"start", "picked"}
    /\ Fail /\ excused' = TRUE
    /\ UNCHANGED <<world, link, picked, sock, listed, said, got>>

(* recv_plist: sixteen bytes of header, then the body it announces.         *)
RecvHeader ==
    /\ at \in {"list", "connect"} /\ wire # <<>>
    /\ IF Head(wire) = head
         THEN at' = (IF at = "list" THEN "listbody" ELSE "connectbody")
              /\ UNCHANGED timeouts
         ELSE Fail
    /\ wire' = Tail(wire)
    /\ UNCHANGED <<world, link, picked, request, hung, peer, hist>>

(* parse_device_list, and the first device of what is left. *)
AnyDevice(d) == TRUE                           \* mutant: no filter
OverUsb(d)   == d.conn = "USB"
FirstUsb(ds, i) == OverUsb(ds[i]) /\ \A j \in 1..(i - 1) : ~OverUsb(ds[j])

RecvList ==
    /\ at = "listbody" /\ wire # <<>>
    /\ LET ds == Head(wire).devices IN
       \/ \E i \in 1..Len(ds) :
            /\ FirstUsb(ds, i)
            /\ at' = "picked" /\ picked' = ds[i].id
            /\ UNCHANGED timeouts
       \/ /\ \A i \in 1..Len(ds) : ~OverUsb(ds[i])
          /\ Fail /\ UNCHANGED picked
    /\ wire' = Tail(wire)
    /\ UNCHANGED <<world, link, request, hung, peer, hist>>

(* Mutants of RecvResult: the socket keeps its timeouts; the reply is read  *)
(* with whatever has arrived behind it.                                     *)
ResultTimed ==
    /\ at = "connectbody" /\ wire # <<>>
    /\ at' = IF Head(wire) = ResultBody(0) THEN "piped" ELSE "failed"
    /\ wire' = Tail(wire)
    /\ UNCHANGED <<world, link, picked, timeouts, request, hung, peer, hist>>

ResultBuffered ==
    /\ at = "connectbody" /\ wire # <<>>
    /\ at' = IF Head(wire) = ResultBody(0) THEN "piped" ELSE "failed"
    /\ timeouts' = FALSE
    /\ wire' = <<>>
    /\ UNCHANGED <<world, link, picked, request, hung, peer, hist>>

RecvResult ==
    /\ at = "connectbody" /\ wire # <<>>
    /\ at' = IF Head(wire) = ResultBody(0) THEN "piped" ELSE "failed"
    /\ timeouts' = FALSE
    /\ wire' = Tail(wire)
    /\ UNCHANGED <<world, link, picked, request, hung, peer, hist>>

(* A read finds the end of the stream, or nothing for 5 s. *)
RecvFails ==
    /\ at \in Waiting /\ wire = <<>>
    /\ hung \/ timeouts
    /\ Fail /\ excused' = TRUE
    /\ UNCHANGED <<world, link, picked, sock, listed, said, got>>

(* Over Wi-Fi the phone is an address somebody typed, or none at all.       *)
DialWifi(p) ==
    /\ at = "start" /\ link = "wifi"
    /\ IF p \in listening
         THEN at' = "piped" /\ peer' = p /\ UNCHANGED excused
         ELSE at' = "failed" /\ excused' = TRUE /\ UNCHANGED peer
    /\ UNCHANGED <<world, link, picked, timeouts, request, wire, hung, listed, said, got>>

(* The packet pump reads the stream it was handed; its end, or an error, is *)
(* the end of the session.                                                  *)
PumpReads ==
    /\ at = "piped" /\ wire # <<>>
    /\ got' = Append(got, Head(wire)) /\ wire' = Tail(wire)
    /\ UNCHANGED <<world, desk, request, hung, peer, listed, said, excused>>

PumpEnds ==
    /\ at = "piped" /\ wire = <<>>
    /\ hung \/ timeouts
    /\ at' = "over"
    /\ UNCHANGED <<world, link, picked, timeouts, sock, hist>>

-----------------------------------------------------------------------------
(* Apple's service and the phones.                                          *)

Attach(p, conn) ==
    /\ given < MaxAttach
    /\ ~\E i \in 1..Len(attached) : attached[i].phone = p /\ attached[i].conn = conn
    /\ given' = given + 1
    /\ \E order \in {"first", "last"} :
        LET d == <<[id |-> given', phone |-> p, conn |-> conn]>> IN
        attached' = IF order = "first" THEN d \o attached ELSE attached \o d
    /\ UNCHANGED <<listening, desk, sock, hist>>

(* A pipe dies with the connection it ran over. *)
Detach(i) ==
    /\ "unplug" \in DialFaults
    /\ attached' = RemoveAt(attached, i)
    /\ hung' = (hung \/ (link = "usb" /\ peer = attached[i].phone
                           /\ attached[i].id = request.id))
    /\ UNCHANGED <<given, listening, desk, request, wire, peer, hist>>

AppStarts(p) ==
    /\ p \notin listening
    /\ listening' = listening \cup {p}
    /\ UNCHANGED <<attached, given, desk, sock, hist>>

AppStops(p) ==
    /\ p \in listening
    /\ listening' = listening \ {p}
    /\ hung' = (hung \/ peer = p)
    /\ UNCHANGED <<attached, given, desk, request, wire, peer, hist>>

Served == request' = [request EXCEPT !.msg = "none"]

ServeList ==
    /\ request.msg = "list" /\ ~hung
    /\ Served /\ wire' = <<head, ListBody(attached)>>
    /\ listed' = attached
    /\ excused' = (excused \/ ~\E d \in ToSet(attached) : d.conn = "USB")
    /\ UNCHANGED <<world, desk, hung, peer, said, got>>

(* The service joins the socket to the port it reads from PortNumber, or    *)
(* says why not: 2 for no such device, 3 for a refused connection.          *)
ServeConnect ==
    /\ request.msg = "connect" /\ ~hung
    /\ Served
    /\ LET there == {d \in ToSet(attached) : d.id = request.id}
           ready == {d \in there : d.phone \in listening}
           port  == (request.port % Base) * Base + request.port \div Base
           ok    == ready # {} /\ port = Port
       IN /\ wire' = <<head, ResultBody(IF ok THEN 0 ELSE IF there = {} THEN 2 ELSE 3)>>
          /\ peer' = IF ok THEN (CHOOSE d \in ready : TRUE).phone ELSE NoPhone
          /\ excused' = (excused \/ ready = {})
    /\ UNCHANGED <<world, desk, hung, listed, said, got>>

ServeGarbage ==
    /\ "garbled" \in DialFaults
    /\ request.msg # "none" /\ ~hung
    /\ Served /\ wire' \in {<<Garbage>>, <<head, Garbage>>}
    /\ excused' = TRUE
    /\ UNCHANGED <<world, desk, hung, peer, listed, said, got>>

HangUp ==
    /\ "hangup" \in DialFaults /\ at \in Waiting \cup {"piped"}
    /\ ~hung /\ hung' = TRUE
    /\ UNCHANGED <<world, desk, request, wire, peer, hist>>

PhoneSends ==
    /\ peer # NoPhone /\ ~hung /\ said < MaxBytes
    /\ said' = said + 1 /\ wire' = Append(wire, Byte(said'))
    /\ UNCHANGED <<world, desk, request, hung, peer, listed, got, excused>>

-----------------------------------------------------------------------------
Desktop == ListDevices \/ Connect \/ NoService \/ RecvHeader \/ RecvList
             \/ RecvResult \/ RecvFails \/ \E p \in Phones \cup {NoPhone} : DialWifi(p)
Pump == PumpReads \/ PumpEnds
Service == ServeList \/ ServeConnect \/ ServeGarbage \/ HangUp
Outside ==
    \/ \E p \in Phones : AppStarts(p) \/ AppStops(p)
                           \/ \E conn \in {"USB", "Network"} : Attach(p, conn)
    \/ \E i \in 1..Len(attached) : Detach(i)
    \/ PhoneSends

UsbmuxNext == Desktop \/ Pump \/ Service \/ Outside

(* The desktop's thread runs, and its sockets' timeouts fire.  Nothing is   *)
(* assumed of the service, which may never answer.                          *)
UsbmuxSpec == UsbmuxInit /\ [][UsbmuxNext]_vars /\ WF_vars(Desktop)

-----------------------------------------------------------------------------
UsbmuxTypeOK ==
    /\ attached \in Seq(Device) /\ listed \in Seq(Device) /\ given \in 0..MaxAttach
    /\ listening \subseteq Phones /\ peer \in Phones \cup {NoPhone}
    /\ at \in Waiting \cup {"start", "picked", "piped", "over", "failed"}
    /\ picked \in 0..MaxAttach /\ request.id \in 0..MaxAttach
    /\ request.port \in 0..(Base * Base - 1) /\ timeouts \in BOOLEAN /\ hung \in BOOLEAN
    /\ said \in 0..MaxBytes /\ Len(got) <= said /\ excused \in BOOLEAN

(* Whatever is plugged in or out between the two exchanges, the pipe leads  *)
(* to the phone the service listed first over USB, or there is no pipe: the *)
(* id names the device even when its place in the list has changed          *)
(* (usbmux.rs 14-18, 208-220).                                              *)
FirstOverUsb(p) ==
    \E i \in 1..Len(listed) :
        /\ listed[i].phone = p /\ listed[i].conn = "USB"
        /\ \A j \in 1..(i - 1) : listed[j].conn # "USB"

RightPhone == (at = "piped" /\ link = "usb") => FirstOverUsb(peer)

(* The framing of the handshake and the bytes of the pipe never mix: the    *)
(* pump reads every byte the phone sent, from the first, and no part of a   *)
(* reply; and no timeout of the handshake ever ends an idle pipe (usbmux.rs *)
(* 16-18, 84-103, 201-203).                                                 *)
PipeIntact ==
    /\ at \in {"piped", "over"} => got \o wire = [i \in 1..said |-> Byte(i)]
    /\ at = "over" => hung

(* A dial over any silent, garbled or broken service comes to an end, and   *)
(* it fails only if something outside the desktop went wrong while it ran   *)
(* (usbmux.rs 51-56, 105-117, 184-200).                                     *)
DialEnds == (at = "list") ~> (at \in {"piped", "over"} \/ (at = "failed" /\ excused))
=============================================================================
