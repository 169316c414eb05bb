---------------------------- MODULE UsbmuxProofs ----------------------------
(***************************************************************************)
(* What holds of a dial for any phones, any port and any of the service's  *)
(* answers.  The invariant says, for each place in transport::connect,     *)
(* what the service can have been asked and what can be on the wire: the   *)
(* reply to this request, garbage, or nothing yet.  What happens outside   *)
(* the desktop only plugs devices (Unfolds), hangs up, or adds a byte.     *)
(***************************************************************************)
EXTENDS Usbmux, SequenceTheorems, TLAPS

Requests == [msg : {"none", "list", "connect"}, id : 0..MaxAttach,
             port : 0..(Base * Base - 1)]

Tokens == [kind : {"head", "list", "result", "garbage", "byte"},
           devices : Seq(Device), number : Nat]

TypesOK ==
    UsbmuxTypeOK /\ request \in Requests /\ wire \in Seq(Tokens) /\ got \in Seq(Tokens)

Spoken == [i \in 1..said |-> Byte(i)]

(* The service's ids are fresh, and an id means one device for good. *)
Seen == ToSet(attached) \cup ToSet(listed)
IdsOK ==
    /\ \A d \in Seen : d.id <= given
    /\ \A d, e \in Seen : d.id = e.id => d = e

Silent == peer = NoPhone /\ said = 0
Asked(msg) == request.msg = msg /\ wire = <<>> /\ Silent

(* The device the list gave. *)
Chosen == \E i \in 1..Len(listed) : FirstUsb(listed, i) /\ picked = listed[i].id

NoUsb(ds) == \A i \in 1..Len(ds) : ~OverUsb(ds[i])

(* What can follow the header of the answer to Connect. *)
Reply(r) ==
    \/ /\ peer \in Phones /\ FirstOverUsb(peer)
       /\ r # <<>> /\ Head(r) = ResultBody(0) /\ Tail(r) = Spoken
    \/ /\ Silent /\ excused
       /\ r \in {<<ResultBody(2)>>, <<ResultBody(3)>>, <<Garbage>>}

Listing(r) == r = <<ListBody(listed)>> /\ (NoUsb(listed) => excused)
Garbled(r) == r = <<Garbage>> /\ excused
Headed == wire # <<>> /\ Head(wire) = head

StartOK == at = "start" => Asked("none") /\ ~timeouts
ListOK ==
    at = "list" =>
        \/ Asked("list")
        \/ /\ request.msg = "none" /\ Silent
           /\ \/ Garbled(wire)
              \/ Headed /\ (Listing(Tail(wire)) \/ Garbled(Tail(wire)))
ListBodyOK ==
    at = "listbody" =>
        request.msg = "none" /\ Silent /\ (Listing(wire) \/ Garbled(wire))
PickedOK == at = "picked" => Asked("none") /\ Chosen
ConnectOK ==
    at = "connect" =>
        /\ Chosen
        /\ \/ /\ Asked("connect")
              /\ request.id = picked /\ request.port = port_network_order(Port)
           \/ /\ request.msg = "none"
              /\ (Silent /\ Garbled(wire)) \/ (Headed /\ Reply(Tail(wire)))
ConnectBodyOK == at = "connectbody" => request.msg = "none" /\ Reply(wire)
PipeOK ==
    at \in {"piped", "over"} =>
        /\ request.msg = "none"
        /\ link = "usb" => FirstOverUsb(peer)
        /\ got \o wire = Spoken
        /\ IF at = "piped" THEN ~timeouts ELSE hung
FailedOK == at = "failed" => excused
UnreadOK == at \notin {"piped", "over"} => got = <<>>

Phases ==
    /\ StartOK /\ ListOK /\ ListBodyOK /\ PickedOK /\ ConnectOK /\ ConnectBodyOK
    /\ PipeOK /\ FailedOK /\ UnreadOK

Inv == TypesOK /\ IdsOK /\ Phases

-----------------------------------------------------------------------------
(* PortNumber is a byte swap: swapping again, as the service does, gives    *)
(* the port back, whatever it is (usbmux.rs port_network_order).            *)
LEMMA DivMod ==
    ASSUME NEW b \in Nat \ {0}, NEW q \in Nat, NEW r \in Nat, r < b
    PROVE  (q * b + r) % b = r /\ (q * b + r) \div b = q
  OBVIOUS

LEMMA PortSwaps ==
    ASSUME NEW P \in 0..(Base * Base - 1)
    PROVE  LET S == port_network_order(P) IN
           S \in 0..(Base * Base - 1) /\ (S % Base) * Base + S \div Base = P
  <1> DEFINE q == P \div Base
             r == P % Base
  <1>1. Base \in Nat \ {0} /\ P \in Nat /\ P < Base * Base
    BY UsbmuxAssumption
  <1>2. q \in Nat /\ r \in Nat /\ r < Base /\ P = q * Base + r
    BY <1>1
  <1>3. q < Base
    BY <1>1, <1>2
  <1>4. (r * Base + q) % Base = q /\ (r * Base + q) \div Base = r
    BY <1>1, <1>2, <1>3, DivMod
  <1>5. r * Base + q \in Nat /\ r * Base + q < Base * Base
    BY <1>1, <1>2, <1>3
  <1> QED BY <1>1, <1>2, <1>4, <1>5 DEF port_network_order

LEMMA NoPort == 0 \in 0..(Base * Base - 1)
  <1>1. Base \in Nat /\ Base >= 1
    BY UsbmuxAssumption
  <1>2. Base * Base \in Nat /\ Base * Base >= 1
    BY <1>1
  <1> QED BY <1>2

(* The sequences the service keeps. *)
LEMMA SetOfConcat ==
    ASSUME NEW S, NEW s \in Seq(S), NEW t \in Seq(S)
    PROVE  ToSet(s \o t) = ToSet(s) \cup ToSet(t)
  <1>1. Range(s \o t) = Range(s) \cup Range(t)
    BY RangeConcatenation
  <1> QED BY <1>1 DEF ToSet, Range

LEMMA SetOfOne == ASSUME NEW d PROVE ToSet(<<d>>) = {d}
  BY DEF ToSet

LEMMA RemoveShrinks ==
    ASSUME NEW S, NEW s \in Seq(S), NEW i \in 1..Len(s)
    PROVE  RemoveAt(s, i) \in Seq(S) /\ ToSet(RemoveAt(s, i)) \subseteq ToSet(s)
  <1> DEFINE a == SubSeq(s, 1, i - 1)
             b == SubSeq(s, i + 1, Len(s))
  <1>1. s \in [1..Len(s) -> S] /\ Len(s) \in Nat /\ DOMAIN s = 1..Len(s)
    BY LenProperties
  <1>2. /\ a \in Seq(S) /\ Len(a) = i - 1
        /\ \A k \in 1..(i - 1) : a[k] = s[k]
    BY <1>1, SubSeqProperties
  <1>3. \A k \in (i + 1)..Len(s) : s[k] \in S
    BY <1>1
  <1>4. /\ b \in Seq(S) /\ Len(b) = Len(s) - i
        /\ \A k \in 1..(Len(s) - i) : b[k] = s[(i + 1) + k - 1]
    <2>1. i + 1 \in Int /\ Len(s) \in Int
      BY <1>1
    <2>2. /\ b \in Seq(S)
          /\ Len(b) = IF i + 1 <= Len(s) THEN Len(s) - (i + 1) + 1 ELSE 0
          /\ \A k \in 1..(Len(s) - (i + 1) + 1) : b[k] = s[(i + 1) + k - 1]
      BY <1>3, <2>1, SubSeqProperties
    <2>3. \A n \in Nat : \A k \in 1..n :
            n - (k + 1) + 1 = n - k /\ (~(k + 1 <= n) => n - k = 0)
      OBVIOUS
    <2>4. Len(s) - (i + 1) + 1 = Len(s) - i /\ (~(i + 1 <= Len(s)) => Len(s) - i = 0)
      BY <1>1, <2>3
    <2> QED BY <2>2, <2>4
  <1>5. DOMAIN a = 1..(i - 1) /\ DOMAIN b = 1..(Len(s) - i)
    BY <1>2, <1>4, LenProperties
  <1>6. ToSet(a) \subseteq ToSet(s)
    BY <1>1, <1>2, <1>5 DEF ToSet
  <1>7. ToSet(b) \subseteq ToSet(s)
    <2>1. \A k \in 1..(Len(s) - i) : (i + 1) + k - 1 \in 1..Len(s)
      BY <1>1
    <2> QED BY <1>1, <1>4, <1>5, <2>1 DEF ToSet
  <1>8. a \o b \in Seq(S) /\ ToSet(a \o b) = ToSet(a) \cup ToSet(b)
    <2>1. a \in Seq(S) /\ b \in Seq(S)
      BY <1>2, <1>4
    <2> HIDE DEF a, b
    <2>2. a \o b \in Seq(S)
      BY <2>1, ConcatProperties
    <2> QED BY <2>1, <2>2, SetOfConcat
  <1>9. RemoveAt(s, i) = a \o b
    BY DEF RemoveAt
  <1> QED BY <1>6, <1>7, <1>8, <1>9

LEMMA TokensTyped ==
    /\ head \in Tokens /\ Garbage \in Tokens
    /\ \A n \in Nat : ResultBody(n) \in Tokens /\ Byte(n) \in Tokens
    /\ \A ds \in Seq(Device) : ListBody(ds) \in Tokens
  BY DEF Tokens, head, Garbage, ResultBody, Byte, ListBody

LEMMA TokenOfWire ==
    ASSUME TypesOK, wire # <<>>
    PROVE  /\ Head(wire) \in Tokens /\ Tail(wire) \in Seq(Tokens)
           /\ Head(wire).devices \in Seq(Device)
  <1>1. Head(wire) \in Tokens /\ Tail(wire) \in Seq(Tokens)
    BY HeadTailProperties DEF TypesOK
  <1> QED BY <1>1 DEF Tokens

LEMMA SpokenTyped ==
    ASSUME said \in Nat
    PROVE  Spoken \in Seq(Tokens) /\ Len(Spoken) = said
  BY TokensTyped DEF Spoken

-----------------------------------------------------------------------------
(* What happens around the desktop disturbs no phase. *)
Around ==
    /\ UNCHANGED <<desk, request, wire, peer, hist>>
    /\ hung => hung'

LEMMA AroundPhases == Phases /\ Around => Phases'
  BY DEF Phases, Around, desk, hist, StartOK, ListOK, ListBodyOK, PickedOK, ConnectOK,
        ConnectBodyOK, PipeOK, FailedOK, UnreadOK, Asked, Silent, Chosen, FirstUsb,
        OverUsb, FirstOverUsb, Reply, Spoken, Listing, Garbled, Headed, NoUsb

LEMMA InitInv == UsbmuxInit => Inv
  <1> SUFFICES ASSUME UsbmuxInit PROVE Inv
    OBVIOUS
  <1>1. TypesOK
    <2>1. request \in Requests
      BY UsbmuxAssumption, NoPort DEF UsbmuxInit, Requests
    <2>2. request.port \in 0..(Base * Base - 1) /\ request.id \in 0..MaxAttach
      BY <2>1 DEF Requests
    <2>3. timeouts \in BOOLEAN /\ hung \in BOOLEAN /\ excused \in BOOLEAN
      BY DEF UsbmuxInit
    <2> QED BY <2>1, <2>2, <2>3, UsbmuxAssumption DEF UsbmuxInit, TypesOK, UsbmuxTypeOK
  <1>2. IdsOK
    BY DEF UsbmuxInit, IdsOK, Seen, ToSet
  <1>3. Phases
    BY DEF UsbmuxInit, Phases, StartOK, ListOK, ListBodyOK, PickedOK, ConnectOK,
           ConnectBodyOK, PipeOK, FailedOK, UnreadOK, Asked, Silent
  <1> QED BY <1>1, <1>2, <1>3 DEF Inv

-----------------------------------------------------------------------------
(* The desktop's steps. *)
LEMMA AskTyped ==
    ASSUME TypesOK, NEW msg \in {"list", "connect"}, NEW id \in 0..MaxAttach,
           NEW port \in 0..(Base * Base - 1), NEW next \in Waiting,
           Ask(msg, id, port, next), UNCHANGED <<world, link, picked, hist>>
    PROVE  TypesOK'
  <1>1. request' \in Requests
    BY DEF Ask, Requests
  <1>2. request'.port \in 0..(Base * Base - 1) /\ request'.id \in 0..MaxAttach
    BY <1>1 DEF Requests
  <1>3. wire' \in Seq(Tokens) /\ peer' = NoPhone /\ at' \in Waiting
    BY DEF Ask
  <1>4. timeouts' \in BOOLEAN /\ hung' \in BOOLEAN
    BY DEF Ask
  <1> QED BY <1>1, <1>2, <1>3, <1>4 DEF TypesOK, UsbmuxTypeOK, world, hist
LEMMA AskInv ==
    ASSUME Inv, ListDevices \/ Connect
    PROVE  Inv'
  <1>1. UNCHANGED <<attached, given, listening, listed, said, got, excused, picked, link>>
    BY DEF ListDevices, Connect, world, hist
  <1>2. wire' = <<>> /\ hung' = FALSE /\ peer' = NoPhone /\ timeouts' = TRUE
    BY DEF ListDevices, Connect, Ask
  <1>3. said = 0 /\ got = <<>>
    BY DEF Inv, Phases, ListDevices, Connect, StartOK, PickedOK, Asked, Silent, UnreadOK
  <1>4. CASE ListDevices
    <2>1. at' = "list" /\ request' = [msg |-> "list", id |-> 0, port |-> 0]
      BY <1>4 DEF ListDevices, Ask
    <2>2. TypesOK'
      BY <1>4, AskTyped, UsbmuxAssumption, NoPort DEF Inv, ListDevices, Waiting
    <2>3. Phases'
      BY <1>1, <1>2, <1>3, <2>1 DEF Phases, StartOK, ListOK, ListBodyOK, PickedOK,
            ConnectOK, ConnectBodyOK, PipeOK, FailedOK, UnreadOK, Asked, Silent
    <2> QED BY <1>1, <2>2, <2>3 DEF Inv, IdsOK, Seen
  <1>5. CASE Connect
    <2>1. /\ at' = "connect" /\ at = "picked"
          /\ request' = [msg |-> "connect", id |-> picked, port |-> port_network_order(Port)]
      BY <1>5 DEF Connect, Ask
    <2>2. port_network_order(Port) \in 0..(Base * Base - 1)
      BY UsbmuxAssumption, PortSwaps
    <2>3. TypesOK'
      <3>1. picked \in 0..MaxAttach
        BY DEF Inv, TypesOK, UsbmuxTypeOK
      <3> QED BY <1>5, <2>2, <3>1, AskTyped DEF Inv, Connect, Waiting
    <2>4. Chosen'
      BY <1>1, <2>1 DEF Inv, Phases, PickedOK, Chosen, FirstUsb, OverUsb
    <2>5. Phases'
      BY <1>1, <1>2, <1>3, <2>1, <2>4 DEF Phases, StartOK, ListOK, ListBodyOK, PickedOK,
            ConnectOK, ConnectBodyOK, PipeOK, FailedOK, UnreadOK, Asked, Silent
    <2> QED BY <1>1, <2>3, <2>5 DEF Inv, IdsOK, Seen
  <1> QED BY <1>4, <1>5

(* A dial fails in the end of the exchange it was in. *)
LEMMA FailInv ==
    ASSUME Inv, at' = "failed", at \notin {"piped", "over"}, excused',
           UNCHANGED <<world, link, request, hung, peer, listed, said, got>>,
           picked' = picked, timeouts' \in BOOLEAN, excused' \in BOOLEAN,
           wire' \in Seq(Tokens)
    PROVE  Inv'
  <1>1. TypesOK'
    BY DEF Inv, TypesOK, UsbmuxTypeOK, Requests, world
  <1>2. Phases'
    BY DEF Inv, Phases, StartOK, ListOK, ListBodyOK, PickedOK, ConnectOK,
           ConnectBodyOK, PipeOK, FailedOK, UnreadOK
  <1> QED BY <1>1, <1>2 DEF Inv, IdsOK, Seen, world

LEMMA NoServiceInv == ASSUME Inv, NoService \/ RecvFails PROVE Inv'
  <1>1. /\ at' = "failed" /\ at \notin {"piped", "over"} /\ excused' = TRUE
        /\ timeouts' = FALSE
        /\ UNCHANGED <<world, link, picked, request, wire, hung, peer, listed, said, got>>
    BY DEF NoService, RecvFails, Fail, sock, Waiting
  <1>2. wire' \in Seq(Tokens)
    BY <1>1 DEF Inv, TypesOK
  <1> QED BY <1>1, <1>2, FailInv

LEMMA RecvHeaderInv == ASSUME Inv, RecvHeader PROVE Inv'
  <1>1. /\ at \in {"list", "connect"} /\ wire # <<>> /\ wire' = Tail(wire)
        /\ UNCHANGED <<world, link, picked, request, hung, peer, listed, said, got, excused>>
    BY DEF RecvHeader, hist
  <1>2. wire' \in Seq(Tokens) /\ TypesOK /\ IdsOK
    BY <1>1, TokenOfWire DEF Inv
  <1>3. CASE Head(wire) # head
    <2>1. at' = "failed" /\ timeouts' = FALSE
      BY <1>3 DEF RecvHeader, Fail
    <2>2. excused
      BY <1>1, <1>3 DEF Inv, Phases, ListOK, ConnectOK, Asked, Garbled, Headed
    <2> QED BY <1>1, <1>2, <2>1, <2>2, FailInv DEF TypesOK, UsbmuxTypeOK
  <1>4. CASE Head(wire) = head /\ at = "list"
    <2>1. at' = "listbody" /\ UNCHANGED timeouts
      BY <1>4 DEF RecvHeader
    <2>2. request.msg = "none" /\ Silent /\ (Listing(wire') \/ Garbled(wire'))
      BY <1>1, <1>4 DEF Inv, Phases, ListOK, Asked, Garbled, head, Garbage, Headed
    <2>3. ListBodyOK'
      BY <1>1, <2>2 DEF ListBodyOK, Silent, Listing, Garbled, NoUsb, OverUsb
    <2>4. UnreadOK'
      BY <1>1, <1>4, <2>1 DEF Inv, Phases, UnreadOK
    <2>5. Phases'
      BY <2>1, <2>3, <2>4 DEF Phases, StartOK, ListOK, PickedOK, ConnectOK,
            ConnectBodyOK, PipeOK, FailedOK
    <2>6. TypesOK'
      BY <1>1, <1>2, <2>1 DEF TypesOK, UsbmuxTypeOK, Requests, world, Waiting
    <2> QED BY <1>1, <1>2, <2>5, <2>6 DEF Inv, IdsOK, Seen, world
  <1>5. CASE Head(wire) = head /\ at = "connect"
    <2>1. at' = "connectbody" /\ UNCHANGED timeouts
      BY <1>5 DEF RecvHeader
    <2>2. request.msg = "none" /\ Reply(wire')
      BY <1>1, <1>5 DEF Inv, Phases, ConnectOK, Asked, Garbled, head, Garbage
    <2>3. ConnectBodyOK'
      BY <1>1, <2>2 DEF ConnectBodyOK, Silent, Reply, FirstOverUsb, Spoken
    <2>4. UnreadOK'
      BY <1>1, <1>5, <2>1 DEF Inv, Phases, UnreadOK
    <2>5. Phases'
      BY <2>1, <2>3, <2>4 DEF Phases, StartOK, ListOK, PickedOK, ConnectOK,
            ListBodyOK, PipeOK, FailedOK
    <2>6. TypesOK'
      BY <1>1, <1>2, <2>1 DEF TypesOK, UsbmuxTypeOK, Requests, world, Waiting
    <2> QED BY <1>1, <1>2, <2>5, <2>6 DEF Inv, IdsOK, Seen, world
  <1> QED BY <1>1, <1>3, <1>4, <1>5

LEMMA RecvListInv == ASSUME Inv, RecvList PROVE Inv'
  <1> DEFINE ds == Head(wire).devices
  <1>1. /\ at = "listbody" /\ wire # <<>> /\ wire' = Tail(wire)
        /\ UNCHANGED <<world, link, request, hung, peer, listed, said, got, excused>>
    BY DEF RecvList, hist
  <1>2. wire' \in Seq(Tokens) /\ TypesOK /\ IdsOK
    BY <1>1, TokenOfWire DEF Inv
  <1>3. /\ request.msg = "none" /\ Silent /\ got = <<>>
        /\ Listing(wire) \/ Garbled(wire)
    BY <1>1 DEF Inv, Phases, ListBodyOK, UnreadOK
  <1>4. ASSUME NEW i \in 1..Len(ds), FirstUsb(ds, i), at' = "picked", picked' = ds[i].id,
               UNCHANGED timeouts
        PROVE  Inv'
    <2>1. ds = listed /\ wire' = <<>>
      <3>1. CASE Listing(wire)
        BY <1>1, <3>1 DEF Listing, ListBody
      <3>2. CASE Garbled(wire)
        <4>1. ds = <<>>
          BY <3>2 DEF Garbled, Garbage
        <4> QED BY <1>4, <4>1
      <3> QED BY <1>3, <3>1, <3>2
    <2>2. picked' \in 0..MaxAttach
      <3>1. listed[i] \in Device
        BY <1>2, <1>4, <2>1, ElementOfSeq DEF TypesOK, UsbmuxTypeOK
      <3> QED BY <1>4, <2>1, <3>1, UsbmuxAssumption DEF Device
    <2>3. TypesOK'
      BY <1>1, <1>2, <1>4, <2>2 DEF TypesOK, UsbmuxTypeOK, Requests, world, Waiting
    <2>4. PickedOK'
      <3>1. Asked("none")'
        BY <1>1, <1>3, <2>1 DEF Asked, Silent
      <3>2. Chosen'
        BY <1>1, <1>4, <2>1 DEF Chosen, FirstUsb, OverUsb
      <3> QED BY <3>1, <3>2 DEF PickedOK
    <2>5. UnreadOK'
      BY <1>1, <1>3 DEF UnreadOK
    <2>6. Phases'
      BY <1>4, <2>4, <2>5 DEF Phases, StartOK, ListOK, ListBodyOK, ConnectOK,
            ConnectBodyOK, PipeOK, FailedOK
    <2> QED BY <1>1, <1>2, <2>3, <2>6 DEF Inv, IdsOK, Seen, world
  <1>5. ASSUME \A i \in 1..Len(ds) : ~OverUsb(ds[i]), Fail, UNCHANGED picked
        PROVE  Inv'
    <2>1. Listing(wire) => ds = listed
      BY DEF Listing, ListBody
    <2>2. excused
      BY <1>3, <1>5, <2>1 DEF Listing, Garbled, NoUsb
    <2> QED BY <1>1, <1>2, <1>5, <2>2, FailInv DEF Fail, TypesOK, UsbmuxTypeOK
  <1> QED BY <1>4, <1>5 DEF RecvList

LEMMA RecvResultInv == ASSUME Inv, RecvResult PROVE Inv'
  <1>1. /\ at = "connectbody" /\ wire # <<>> /\ wire' = Tail(wire)
        /\ timeouts' = FALSE
        /\ UNCHANGED <<world, link, picked, request, hung, peer, listed, said, got, excused>>
    BY DEF RecvResult, hist
  <1>2. wire' \in Seq(Tokens) /\ TypesOK /\ IdsOK
    BY <1>1, TokenOfWire DEF Inv
  <1>3. request.msg = "none" /\ got = <<>> /\ Reply(wire)
    BY <1>1 DEF Inv, Phases, ConnectBodyOK, UnreadOK
  <1>4. CASE Head(wire) = ResultBody(0)
    <2>1. at' = "piped"
      BY <1>4 DEF RecvResult
    <2>2. peer \in Phones /\ FirstOverUsb(peer) /\ wire' = Spoken
      BY <1>1, <1>3, <1>4 DEF Reply, ResultBody, Garbage
    <2>3. got' \o wire' = Spoken'
      BY <1>1, <1>2, <1>3, <2>2, ConcatEmptySeq DEF Spoken
    <2>4. PipeOK'
      BY <1>1, <1>3, <2>1, <2>2, <2>3 DEF PipeOK, FirstOverUsb
    <2>5. Phases'
      BY <2>1, <2>4 DEF Phases, StartOK, ListOK, ListBodyOK, PickedOK, ConnectOK,
            ConnectBodyOK, FailedOK, UnreadOK
    <2>6. TypesOK'
      BY <1>1, <1>2, <2>1 DEF TypesOK, UsbmuxTypeOK, Requests, world
    <2> QED BY <1>1, <1>2, <2>5, <2>6 DEF Inv, IdsOK, Seen, world
  <1>5. CASE Head(wire) # ResultBody(0)
    <2>1. at' = "failed"
      BY <1>5 DEF RecvResult
    <2>2. excused
      BY <1>3, <1>5 DEF Reply
    <2> QED BY <1>1, <1>2, <2>1, <2>2, FailInv DEF TypesOK, UsbmuxTypeOK
  <1> QED BY <1>4, <1>5

LEMMA DialWifiInv ==
    ASSUME Inv, NEW p \in Phones \cup {NoPhone}, DialWifi(p)
    PROVE  Inv'
  <1>1. /\ at = "start" /\ link = "wifi"
        /\ UNCHANGED <<world, link, picked, timeouts, request, wire, hung, listed, said, got>>
    BY DEF DialWifi
  <1>2. Asked("none") /\ ~timeouts /\ got = <<>> /\ TypesOK /\ IdsOK
    BY <1>1 DEF Inv, Phases, StartOK, UnreadOK
  <1>3. CASE p \in listening
    <2>1. at' = "piped" /\ peer' = p /\ excused' = excused
      BY <1>3 DEF DialWifi
    <2>2. wire = <<>> /\ said = 0 /\ Spoken' = <<>> /\ got' \o wire' = <<>>
      BY <1>1, <1>2 DEF Asked, Silent, Spoken
    <2>3. PipeOK'
      BY <1>1, <1>2, <2>1, <2>2 DEF PipeOK, Asked
    <2>4. Phases'
      BY <2>1, <2>3 DEF Phases, StartOK, ListOK, ListBodyOK, PickedOK, ConnectOK,
            ConnectBodyOK, FailedOK, UnreadOK
    <2>5. TypesOK'
      BY <1>1, <1>2, <2>1 DEF TypesOK, UsbmuxTypeOK, Requests, world
    <2> QED BY <1>1, <1>2, <2>4, <2>5 DEF Inv, IdsOK, Seen, world
  <1>4. CASE p \notin listening
    <2>1. at' = "failed" /\ excused' = TRUE /\ peer' = peer
      BY <1>4 DEF DialWifi
    <2> QED BY <1>1, <1>2, <2>1, FailInv DEF TypesOK, UsbmuxTypeOK
  <1> QED BY <1>3, <1>4

-----------------------------------------------------------------------------
(* The pump's steps. *)
LEMMA PumpReadsInv == ASSUME Inv, PumpReads PROVE Inv'
  <1>1. /\ at = "piped" /\ wire # <<>> /\ wire' = Tail(wire)
        /\ got' = Append(got, Head(wire))
        /\ UNCHANGED <<world, desk, request, hung, peer, listed, said, excused>>
    BY DEF PumpReads
  <1>2. TypesOK /\ IdsOK /\ PipeOK
    BY DEF Inv, Phases
  <1>3. /\ Head(wire) \in Tokens /\ wire' \in Seq(Tokens) /\ got' \in Seq(Tokens)
        /\ got \in Seq(Tokens) /\ wire \in Seq(Tokens)
    BY <1>1, <1>2, TokenOfWire, AppendProperties DEF TypesOK
  <1>4. got' \o wire' = got \o wire
    <2>1. Append(got, Head(wire)) = got \o <<Head(wire)>>
      BY <1>3, AppendIsConcat
    <2>2. wire = <<Head(wire)>> \o Tail(wire)
      BY <1>1, <1>3
    <2> HIDE DEF Tokens
    <2> QED BY <1>1, <1>3, <2>1, <2>2, ConcatAssociative
  <1>5. Len(got') <= said
    <2>1. Len(got' \o wire') = said
      <3>1. said \in Nat
        BY <1>2, UsbmuxAssumption DEF TypesOK, UsbmuxTypeOK
      <3>2. got \o wire = Spoken
        BY <1>1, <1>2 DEF PipeOK
      <3> QED BY <1>4, <3>1, <3>2, SpokenTyped
    <2> QED BY <1>3, <2>1, ConcatProperties, LenProperties
  <1>6. PipeOK'
    BY <1>1, <1>2, <1>4 DEF PipeOK, desk, FirstOverUsb, Spoken
  <1>7. Phases'
    BY <1>1, <1>6 DEF Phases, StartOK, ListOK, ListBodyOK, PickedOK, ConnectOK,
            ConnectBodyOK, FailedOK, UnreadOK, desk
  <1>8. TypesOK'
    BY <1>1, <1>2, <1>3, <1>5 DEF TypesOK, UsbmuxTypeOK, world, desk
  <1> QED BY <1>1, <1>2, <1>7, <1>8 DEF Inv, IdsOK, Seen, world

LEMMA PumpEndsInv == ASSUME Inv, PumpEnds PROVE Inv'
  <1>1. /\ at = "piped" /\ at' = "over"
        /\ hung \/ timeouts
        /\ UNCHANGED <<world, link, picked, timeouts, request, wire, hung, peer,
                       listed, said, got, excused>>
    BY DEF PumpEnds, sock, hist
  <1>2. TypesOK /\ IdsOK /\ PipeOK
    BY DEF Inv, Phases
  <1>3. PipeOK'
    BY <1>1, <1>2 DEF PipeOK, FirstOverUsb, Spoken
  <1>4. Phases'
    BY <1>1, <1>3 DEF Phases, StartOK, ListOK, ListBodyOK, PickedOK, ConnectOK,
            ConnectBodyOK, FailedOK, UnreadOK
  <1>5. TypesOK'
    BY <1>1, <1>2 DEF TypesOK, UsbmuxTypeOK, world
  <1> QED BY <1>1, <1>2, <1>4, <1>5 DEF Inv, IdsOK, Seen, world

-----------------------------------------------------------------------------
(* The service and the phones. *)
LEMMA AttachInv ==
    ASSUME Inv, NEW p \in Phones, NEW conn \in {"USB", "Network"}, Attach(p, conn)
    PROVE  Inv'
  <1> DEFINE d == [id |-> given + 1, phone |-> p, conn |-> conn]
  <1>1. /\ given < MaxAttach /\ given' = given + 1
        /\ attached' = <<d>> \o attached \/ attached' = attached \o <<d>>
        /\ UNCHANGED <<listening, desk, sock, hist>>
    BY DEF Attach
  <1>2. TypesOK /\ IdsOK /\ Phases
    BY DEF Inv
  <1>3. given \in Nat /\ d \in Device /\ given' \in 0..MaxAttach
    BY <1>1, <1>2, UsbmuxAssumption DEF TypesOK, UsbmuxTypeOK, Device
  <1>4. attached' \in Seq(Device) /\ ToSet(attached') = ToSet(attached) \cup {d}
    <2>1. <<d>> \in Seq(Device) /\ attached \in Seq(Device)
      BY <1>2, <1>3 DEF TypesOK, UsbmuxTypeOK
    <2> HIDE DEF d
    <2>2. /\ <<d>> \o attached \in Seq(Device) /\ attached \o <<d>> \in Seq(Device)
          /\ ToSet(<<d>> \o attached) = ToSet(attached) \cup {d}
          /\ ToSet(attached \o <<d>>) = ToSet(attached) \cup {d}
      <3>1. /\ ToSet(<<d>> \o attached) = ToSet(<<d>>) \cup ToSet(attached)
            /\ ToSet(attached \o <<d>>) = ToSet(attached) \cup ToSet(<<d>>)
        <4>1. \A s, t \in Seq(Device) : ToSet(s \o t) = ToSet(s) \cup ToSet(t)
          BY SetOfConcat
        <4> QED BY <2>1, <4>1, Zenon
      <3>2. <<d>> \o attached \in Seq(Device) /\ attached \o <<d>> \in Seq(Device)
        BY <2>1, ConcatProperties
      <3> QED BY <3>1, <3>2, SetOfOne
    <2> QED BY <1>1, <2>2
  <1>5. TypesOK'
    BY <1>1, <1>2, <1>3, <1>4 DEF TypesOK, UsbmuxTypeOK, desk, sock, hist
  <1>6. IdsOK'
    <2>1. Seen' = Seen \cup {d}
      BY <1>1, <1>4 DEF Seen, hist
    <2>2. \A e \in Seen : e.id \in Nat /\ e.id <= given
      <3>1. \A s \in Seq(Device) : ToSet(s) \subseteq Device
        BY ElementOfSeq, LenProperties DEF ToSet
      <3>2. Seen \subseteq Device
        BY <1>2, <3>1 DEF Seen, TypesOK, UsbmuxTypeOK
      <3> QED BY <1>2, <3>2 DEF Device, IdsOK
    <2>3. \A e \in Seen : e.id # d.id /\ e.id <= given'
      BY <1>1, <1>3, <2>2
    <2> QED BY <1>1, <1>2, <1>3, <2>1, <2>3 DEF IdsOK
  <1>7. Phases'
    BY <1>1, <1>2, AroundPhases DEF Around, sock
  <1> QED BY <1>5, <1>6, <1>7 DEF Inv

LEMMA DetachInv == ASSUME Inv, NEW i \in 1..Len(attached), Detach(i) PROVE Inv'
  <1>1. /\ attached' = RemoveAt(attached, i)
        /\ UNCHANGED <<given, listening, desk, request, wire, peer, hist>>
        /\ hung => hung'
        /\ hung' \in BOOLEAN
    BY DEF Detach
  <1>2. TypesOK /\ IdsOK /\ Phases
    BY DEF Inv
  <1>3. attached' \in Seq(Device) /\ ToSet(attached') \subseteq ToSet(attached)
    BY <1>1, <1>2, RemoveShrinks DEF TypesOK, UsbmuxTypeOK
  <1>4. TypesOK'
    BY <1>1, <1>2, <1>3 DEF TypesOK, UsbmuxTypeOK, desk, hist
  <1>5. IdsOK'
    BY <1>1, <1>2, <1>3 DEF IdsOK, Seen, hist
  <1>6. Phases'
    BY <1>1, <1>2, AroundPhases DEF Around
  <1> QED BY <1>4, <1>5, <1>6 DEF Inv

(* An app starts or stops, or the service hangs up. *)
LEMMA AppInv ==
    ASSUME Inv, HangUp \/ \E p \in Phones : AppStarts(p) \/ AppStops(p)
    PROVE  Inv'
  <1>1. /\ UNCHANGED <<attached, given, desk, request, wire, peer, hist>>
        /\ listening' \subseteq Phones
        /\ hung => hung'
        /\ hung' \in BOOLEAN
    BY DEF AppStarts, AppStops, HangUp, Inv, TypesOK, UsbmuxTypeOK, world, sock
  <1>2. TypesOK /\ IdsOK /\ Phases
    BY DEF Inv
  <1>3. TypesOK'
    BY <1>1, <1>2 DEF TypesOK, UsbmuxTypeOK, desk, hist
  <1>4. IdsOK'
    BY <1>1, <1>2 DEF IdsOK, Seen, hist
  <1>5. Phases'
    BY <1>1, <1>2, AroundPhases DEF Around
  <1> QED BY <1>3, <1>4, <1>5 DEF Inv

(* The service answers while the desktop is at the request it answers, or   *)
(* after the dial has failed.                                               *)
LEMMA ServedAt ==
    ASSUME Inv, request.msg # "none", ~hung
    PROVE  /\ at \in {"list", "connect", "failed"}
           /\ at = "list" => Asked("list")
           /\ at = "connect" => Asked("connect")
  BY DEF Inv, Phases, StartOK, ListOK, ListBodyOK, PickedOK, ConnectOK, ConnectBodyOK,
         PipeOK, Asked, TypesOK, UsbmuxTypeOK, Waiting

LEMMA ServedTyped ==
    ASSUME request \in Requests, Served
    PROVE  /\ request' \in Requests /\ request'.msg = "none"
           /\ request'.id = request.id /\ request'.port = request.port
  BY DEF Served, Requests

LEMMA ServeListInv == ASSUME Inv, ServeList PROVE Inv'
  <1>1. /\ request.msg = "list" /\ ~hung /\ Served
        /\ wire' = <<head, ListBody(attached)>> /\ listed' = attached
        /\ excused' = (excused \/ ~\E d \in ToSet(attached) : d.conn = "USB")
        /\ UNCHANGED <<world, desk, hung, peer, said, got>>
    BY DEF ServeList
  <1>2. TypesOK /\ IdsOK /\ Phases
    BY DEF Inv
  <1>3. /\ at \in {"list", "failed"}
        /\ at = "list" => Asked("list")
    BY <1>1, ServedAt DEF Asked
  <1>4. request' \in Requests /\ request'.msg = "none" /\ request'.port = request.port
          /\ request'.id = request.id
    BY <1>1, <1>2, ServedTyped DEF TypesOK
  <1>5. wire' \in Seq(Tokens) /\ excused' \in BOOLEAN
    <2>1. head \in Tokens /\ ListBody(attached) \in Tokens
      BY <1>2, TokensTyped DEF TypesOK, UsbmuxTypeOK
    <2> HIDE DEF Tokens
    <2> QED BY <1>1, <2>1
  <1>6. TypesOK'
    BY <1>1, <1>2, <1>4, <1>5 DEF TypesOK, UsbmuxTypeOK, world, desk
  <1>7. IdsOK'
    BY <1>1, <1>2 DEF IdsOK, Seen, world
  <1>8. NoUsb(listed') => excused'
    <2>1. DOMAIN attached = 1..Len(attached)
      BY <1>2, LenProperties DEF TypesOK, UsbmuxTypeOK
    <2> QED BY <1>1, <2>1 DEF NoUsb, OverUsb, ToSet
  <1>9. ListOK'
    <2>1. CASE at = "list"
      <3>1. Silent'
        BY <1>1, <1>3, <2>1 DEF Asked, Silent
      <3>2. Headed' /\ Tail(wire') = <<ListBody(listed')>>
        BY <1>1 DEF Headed
      <3> QED BY <1>4, <1>8, <3>1, <3>2 DEF ListOK, Listing, ListBody
    <2>2. CASE at # "list"
      BY <1>1, <2>2 DEF ListOK, desk
    <2> QED BY <2>1, <2>2
  <1>10. Phases'
    BY <1>1, <1>2, <1>3, <1>9 DEF Phases, StartOK, ListBodyOK, PickedOK, ConnectOK,
            ConnectBodyOK, PipeOK, FailedOK, UnreadOK, desk
  <1> QED BY <1>6, <1>7, <1>10 DEF Inv

LEMMA ServeGarbageInv == ASSUME Inv, ServeGarbage PROVE Inv'
  <1>1. /\ request.msg # "none" /\ ~hung /\ Served
        /\ wire' = <<Garbage>> \/ wire' = <<head, Garbage>>
        /\ excused' = TRUE
        /\ UNCHANGED <<world, desk, hung, peer, listed, said, got>>
    BY DEF ServeGarbage
  <1>2. TypesOK /\ IdsOK /\ Phases
    BY DEF Inv
  <1>3. /\ at \in {"list", "connect", "failed"}
        /\ at = "list" => Asked("list")
        /\ at = "connect" => Asked("connect")
    BY <1>1, ServedAt
  <1>4. request' \in Requests /\ request'.msg = "none" /\ request'.port = request.port
          /\ request'.id = request.id
    BY <1>1, <1>2, ServedTyped DEF TypesOK
  <1>5. wire' \in Seq(Tokens) /\ excused' \in BOOLEAN
    <2>1. head \in Tokens /\ Garbage \in Tokens
      BY TokensTyped
    <2> HIDE DEF Tokens
    <2>2. <<Garbage>> \in Seq(Tokens) /\ <<head, Garbage>> \in Seq(Tokens)
      BY <2>1
    <2>3. wire' \in Seq(Tokens)
      BY <1>1, <2>2
    <2> QED BY <1>1, <2>3
  <1>6. TypesOK'
    BY <1>1, <1>2, <1>4, <1>5 DEF TypesOK, UsbmuxTypeOK, world, desk
  <1>7. IdsOK'
    BY <1>1, <1>2 DEF IdsOK, Seen, world
  <1>8. \/ Garbled(wire)'
        \/ Headed' /\ Garbled(Tail(wire))'
    <2>1. excused'
      BY <1>1
    <2>2. CASE wire' = <<Garbage>>
      BY <2>1, <2>2 DEF Garbled
    <2>3. CASE wire' = <<head, Garbage>>
      <3>1. wire' # <<>> /\ Head(wire') = head /\ Tail(wire') = <<Garbage>>
        BY <2>3
      <3> QED BY <2>1, <3>1 DEF Garbled, Headed
    <2> QED BY <1>1, <2>2, <2>3
  <1>9. at \in {"list", "connect"} => Silent'
    BY <1>1, <1>3 DEF Asked, Silent
  <1>10. ListOK'
    BY <1>1, <1>4, <1>8, <1>9 DEF ListOK, desk, Garbled, Listing
  <1>11. ConnectOK'
    <2>1. at = "connect" => Chosen'
      BY <1>1, <1>2 DEF Phases, ConnectOK, Chosen, FirstUsb, OverUsb, desk
    <2>2. at = "connect" /\ Garbled(Tail(wire))' => Reply(Tail(wire))'
      BY <1>1, <1>9 DEF Garbled, Reply, Silent
    <2> QED BY <1>1, <1>4, <1>8, <1>9, <2>1, <2>2 DEF ConnectOK, desk, Garbled
  <1>12. Phases'
    BY <1>1, <1>2, <1>3, <1>10, <1>11 DEF Phases, StartOK, ListBodyOK, PickedOK,
            ConnectBodyOK, PipeOK, FailedOK, UnreadOK, desk
  <1> QED BY <1>6, <1>7, <1>12 DEF Inv

(* The id the request carries finds no device but the one listed.           *)
LEMMA ServeConnectInv == ASSUME Inv, ServeConnect PROVE Inv'
  <1> DEFINE there == {d \in ToSet(attached) : d.id = request.id}
             ready == {d \in there : d.phone \in listening}
             port  == (request.port % Base) * Base + request.port \div Base
             ok    == ready # {} /\ port = Port
             n     == IF ok THEN 0 ELSE IF there = {} THEN 2 ELSE 3
  <1>1. /\ request.msg = "connect" /\ ~hung /\ Served
        /\ wire' = <<head, ResultBody(n)>>
        /\ peer' = IF ok THEN (CHOOSE d \in ready : TRUE).phone ELSE NoPhone
        /\ excused' = (excused \/ ready = {})
        /\ UNCHANGED <<world, desk, hung, listed, said, got>>
    BY DEF ServeConnect
  <1>2. TypesOK /\ IdsOK /\ Phases
    BY DEF Inv
  <1>3. /\ at \in {"connect", "failed"}
        /\ at = "connect" => Asked("connect")
    BY <1>1, ServedAt DEF Asked
  <1>4. request' \in Requests /\ request'.msg = "none" /\ request'.port = request.port
          /\ request'.id = request.id
    BY <1>1, <1>2, ServedTyped DEF TypesOK
  <1>5. excused' \in BOOLEAN /\ (excused => excused')
    BY <1>1, <1>2 DEF TypesOK, UsbmuxTypeOK
  <1>6. wire' \in Seq(Tokens)
    <2>1. head \in Tokens /\ ResultBody(n) \in Tokens
      BY TokensTyped
    <2> HIDE DEF Tokens
    <2> QED BY <1>1, <2>1
  <1>7. ASSUME ok
        PROVE  \E d \in ToSet(attached) : d.id = request.id /\ d \in Device /\ peer' = d.phone
    <2>1. (CHOOSE d \in ready : TRUE) \in ready
      BY <1>7
    <2>2. \A d \in ToSet(attached) : d \in Device
      BY <1>2, ElementOfSeq, LenProperties DEF ToSet, TypesOK, UsbmuxTypeOK
    <2> QED BY <1>1, <1>7, <2>1, <2>2
  <1>8. peer' \in Phones \cup {NoPhone}
    BY <1>1, <1>7 DEF Device
  <1>9. TypesOK'
    BY <1>1, <1>2, <1>4, <1>5, <1>6, <1>8 DEF TypesOK, UsbmuxTypeOK, world, desk
  <1>10. IdsOK'
    BY <1>1, <1>2 DEF IdsOK, Seen, world
  <1>11. ASSUME at = "connect" PROVE ConnectOK'
    <2>1. /\ Chosen /\ Asked("connect")
          /\ request.id = picked /\ request.port = port_network_order(Port)
      BY <1>1, <1>2, <1>3, <1>11 DEF Phases, ConnectOK, Garbled, Asked
    <2>2. Chosen'
      BY <1>1, <2>1 DEF Chosen, FirstUsb, OverUsb, desk
    <2>3. port = Port
      BY <2>1, PortSwaps, UsbmuxAssumption
    <2>4. wire' # <<>> /\ Head(wire') = head /\ Tail(wire') = <<ResultBody(n)>>
      BY <1>1
    <2>5. Reply(Tail(wire))'
      <3>1. CASE ok
        <4>1. PICK i \in 1..Len(listed) : FirstUsb(listed, i) /\ picked = listed[i].id
          BY <2>1 DEF Chosen
        <4>2. PICK d \in ToSet(attached) : d.id = picked /\ d \in Device /\ peer' = d.phone
          BY <1>7, <2>1, <3>1
        <4>3. listed[i] \in ToSet(listed)
          BY <1>2, <4>1, LenProperties DEF ToSet, TypesOK, UsbmuxTypeOK
        <4>4. d = listed[i]
          BY <1>2, <4>1, <4>2, <4>3 DEF IdsOK, Seen
        <4>5. peer' \in Phones /\ FirstOverUsb(peer)'
          BY <1>1, <4>1, <4>2, <4>4 DEF FirstOverUsb, FirstUsb, OverUsb, Device
        <4>6. Spoken' = <<>>
          BY <1>1, <2>1 DEF Spoken, Asked, Silent
        <4>7. /\ Tail(wire') # <<>> /\ Head(Tail(wire')) = ResultBody(0)
              /\ Tail(Tail(wire')) = <<>>
          <5>1. n = 0
            BY <3>1
          <5>2. Tail(wire') = <<ResultBody(0)>>
            BY <2>4, <5>1
          <5>3. \A x : <<x>> # <<>> /\ Head(<<x>>) = x /\ Tail(<<x>>) = <<>>
            OBVIOUS
          <5> HIDE DEF n
          <5> QED BY <5>2, <5>3, Zenon
        <4> QED BY <4>5, <4>6, <4>7 DEF Reply
      <3>2. CASE ~ok
        <4>1. excused' /\ Silent'
          BY <1>1, <2>1, <2>3, <3>2 DEF Asked, Silent
        <4>2. Tail(wire') = <<ResultBody(2)>> \/ Tail(wire') = <<ResultBody(3)>>
          BY <2>4, <3>2
        <4> QED BY <4>1, <4>2 DEF Reply
      <3> QED BY <3>1, <3>2
    <2> QED BY <1>4, <2>2, <2>4, <2>5 DEF ConnectOK, Headed
  <1>12. at # "connect" => ConnectOK'
    BY <1>1 DEF ConnectOK, desk
  <1>13. Phases'
    BY <1>1, <1>2, <1>3, <1>5, <1>11, <1>12 DEF Phases, StartOK, ListOK, ListBodyOK, PickedOK,
            ConnectBodyOK, PipeOK, FailedOK, UnreadOK, desk
  <1> QED BY <1>9, <1>10, <1>13 DEF Inv

LEMMA PhoneSendsInv == ASSUME Inv, PhoneSends PROVE Inv'
  <1>1. /\ peer # NoPhone /\ ~hung /\ said < MaxBytes /\ said' = said + 1
        /\ wire' = Append(wire, Byte(said + 1))
        /\ UNCHANGED <<world, desk, request, hung, peer, listed, got, excused>>
    BY DEF PhoneSends
  <1>2. TypesOK /\ IdsOK /\ Phases
    BY DEF Inv
  <1>3. said \in Nat /\ said' \in 0..MaxBytes /\ Byte(said + 1) \in Tokens
    BY <1>1, <1>2, TokensTyped, UsbmuxAssumption DEF TypesOK, UsbmuxTypeOK
  <1>4. wire \in Seq(Tokens) /\ got \in Seq(Tokens) /\ wire' \in Seq(Tokens)
    BY <1>1, <1>2, <1>3, AppendProperties DEF TypesOK
  <1>5. TypesOK'
    <2>1. Len(got) \in Nat
      BY <1>4, LenProperties
    <2> QED BY <1>1, <1>2, <1>3, <1>4, <2>1 DEF TypesOK, UsbmuxTypeOK, world, desk
  <1>6. Spoken' = Append(Spoken, Byte(said + 1))
    BY <1>1, <1>3 DEF Spoken
  <1>7. ASSUME NEW r \in Seq(Tokens), Reply(r)
        PROVE  LET t == Append(r, Byte(said + 1)) IN
               /\ peer' \in Phones /\ FirstOverUsb(peer)'
               /\ t # <<>> /\ Head(t) = ResultBody(0) /\ Tail(t) = Spoken'
    <2>1. /\ peer \in Phones /\ FirstOverUsb(peer)
          /\ r # <<>> /\ Head(r) = ResultBody(0) /\ Tail(r) = Spoken
      BY <1>1, <1>7 DEF Reply, Silent
    <2>2. Append(r, Byte(said + 1)) # <<>>
      BY <1>3, <1>7, AppendProperties
    <2>3. /\ Head(Append(r, Byte(said + 1))) = Head(r)
          /\ Tail(Append(r, Byte(said + 1))) = Append(Tail(r), Byte(said + 1))
      BY <1>7, <2>1, HeadTailAppend
    <2> QED BY <1>1, <1>6, <2>1, <2>2, <2>3 DEF FirstOverUsb
  <1>8. ConnectBodyOK'
    BY <1>1, <1>2, <1>4, <1>7 DEF Phases, ConnectBodyOK, Reply, desk
  <1>9. ConnectOK'
    <2>1. CASE at = "connect"
      <3>1. /\ Chosen /\ request.msg = "none" /\ Headed /\ Reply(Tail(wire))
        BY <1>1, <1>2, <2>1 DEF Phases, ConnectOK, Asked, Silent
      <3>2. /\ wire' # <<>> /\ Head(wire') = head
            /\ Tail(wire') = Append(Tail(wire), Byte(said + 1))
        BY <1>1, <1>3, <1>4, <3>1, HeadTailAppend, AppendProperties DEF Headed
      <3>3. Tail(wire) \in Seq(Tokens)
        BY <1>2, <3>1, TokenOfWire DEF Headed
      <3>4. Reply(Tail(wire))'
        BY <1>7, <3>1, <3>2, <3>3 DEF Reply
      <3>5. Chosen'
        BY <1>1, <3>1 DEF Chosen, FirstUsb, OverUsb, desk
      <3> QED BY <1>1, <3>1, <3>2, <3>4, <3>5 DEF ConnectOK, Headed
    <2>2. CASE at # "connect"
      BY <1>1, <2>2 DEF ConnectOK, desk
    <2> QED BY <2>1, <2>2
  <1>10. PipeOK'
    <2>1. CASE at = "piped"
      <3>1. got \o wire = Spoken
        BY <1>2, <2>1 DEF Phases, PipeOK
      <3>2. got \o Append(wire, Byte(said + 1)) = Append(got \o wire, Byte(said + 1))
        <4> DEFINE b == Byte(said + 1)
        <4>1. <<b>> \in Seq(Tokens) /\ got \o wire \in Seq(Tokens)
          BY <1>3, <1>4, ConcatProperties
        <4>2. Append(wire, b) = wire \o <<b>> /\ Append(got \o wire, b) = (got \o wire) \o <<b>>
          BY <1>3, <1>4, <4>1, AppendIsConcat
        <4> QED BY <1>4, <4>1, <4>2, ConcatAssociative
      <3>3. got' \o wire' = Spoken'
        BY <1>1, <1>6, <3>1, <3>2
      <3> QED BY <1>1, <1>2, <2>1, <3>3 DEF Phases, PipeOK, FirstOverUsb, desk
    <2>2. at # "over"
      BY <1>1, <1>2 DEF Phases, PipeOK
    <2> QED BY <1>1, <2>1, <2>2 DEF PipeOK, desk
  <1>11. at \notin {"start", "list", "listbody", "picked"}
    BY <1>1, <1>2 DEF Phases, StartOK, ListOK, ListBodyOK, PickedOK, Asked, Silent
  <1>12. Phases'
    BY <1>1, <1>2, <1>8, <1>9, <1>10, <1>11 DEF Phases, StartOK, ListOK, ListBodyOK,
            PickedOK, FailedOK, UnreadOK, desk
  <1>13. IdsOK'
    BY <1>1, <1>2 DEF IdsOK, Seen, world
  <1> QED BY <1>5, <1>12, <1>13 DEF Inv

LEMMA NextInv == Inv /\ [UsbmuxNext]_vars => Inv'
  <1> SUFFICES ASSUME Inv, [UsbmuxNext]_vars PROVE Inv'
    OBVIOUS
  <1>1. CASE UNCHANGED vars
    <2>1. Around /\ attached' = attached /\ given' = given /\ listening' = listening
          /\ hung' = hung
      BY <1>1 DEF vars, Around, world, sock, desk, hist
    <2>2. Phases'
      BY <2>1, AroundPhases DEF Inv
    <2>3. TypesOK' /\ IdsOK'
      BY <2>1 DEF Inv, TypesOK, UsbmuxTypeOK, IdsOK, Seen, Around, desk, hist
    <2> QED BY <2>2, <2>3 DEF Inv
  <1>2. CASE Desktop
    BY <1>2, AskInv, NoServiceInv, RecvHeaderInv, RecvListInv, RecvResultInv, DialWifiInv
    DEF Desktop
  <1>3. CASE Pump
    BY <1>3, PumpReadsInv, PumpEndsInv DEF Pump
  <1>4. CASE Service
    BY <1>4, ServeListInv, ServeConnectInv, ServeGarbageInv, AppInv DEF Service
  <1>5. CASE Outside
    BY <1>5, AppInv, AttachInv, DetachInv, PhoneSendsInv DEF Outside
  <1> QED BY <1>1, <1>2, <1>3, <1>4, <1>5 DEF UsbmuxNext

(* The inductive invariant of a dial: its phase fixes what was asked, what  *)
(* the service said and which phone the answer names (usbmux.rs 84-220).    *)
THEOREM UsbmuxInvariant == UsbmuxSpec => []Inv
  <1> QED BY InitInv, NextInv, PTL DEF UsbmuxSpec

-----------------------------------------------------------------------------
(* Every variable of a dial keeps its type, and the pump never reads more   *)
(* than the phone said.                                                     *)
THEOREM UsbmuxTypeCorrect == UsbmuxSpec => []UsbmuxTypeOK
  <1>1. Inv => UsbmuxTypeOK
    BY DEF Inv, TypesOK
  <1> QED BY <1>1, UsbmuxInvariant, PTL

(* For any number of phones, and whatever is attached, removed, started or  *)
(* stopped between the two exchanges, a pipe over USB leads to the phone    *)
(* the service listed first (usbmux.rs 14-18, 208-220).                     *)
THEOREM PipeToTheRightPhone == UsbmuxSpec => []RightPhone
  <1>1. Inv => RightPhone
    BY DEF Inv, Phases, PipeOK, RightPhone
  <1> QED BY <1>1, UsbmuxInvariant, PTL

(* The pump reads the bytes of the pipe, all of them from the first, and    *)
(* none of the handshake; and a pipe ends because the other side closed it, *)
(* never on a timeout of the handshake (usbmux.rs 16-18, 84-103, 201-203).  *)
THEOREM PipeStaysIntact == UsbmuxSpec => []PipeIntact
  <1>1. Inv => PipeIntact
    BY DEF Inv, Phases, PipeOK, PipeIntact, Spoken
  <1> QED BY <1>1, UsbmuxInvariant, PTL

(* A dial that fails was not the desktop's fault: the service went silent,  *)
(* garbled an answer or hung up, no phone was on USB, or the one chosen was *)
(* gone or its app not listening.  For every port, no dial fails because    *)
(* the swapped PortNumber names another one (usbmux.rs 105-117, 184-220).   *)
THEOREM FailuresAreExcused == UsbmuxSpec => [](at = "failed" => excused)
  <1>1. Inv => (at = "failed" => excused)
    BY DEF Inv, Phases, FailedOK
  <1> QED BY <1>1, UsbmuxInvariant, PTL
=============================================================================
