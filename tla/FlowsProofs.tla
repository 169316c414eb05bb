---------------------------- MODULE FlowsProofs ----------------------------
(***************************************************************************)
(* Every flow of Flows is a Tunnel, rides the cellular interface unless it *)
(* could not, and is not cut short, for any flows, traffic and faults.     *)
(***************************************************************************)
EXTENDS Flows, FiniteSetTheorems, FunctionTheorems, SequenceTheorems, TLAPS

Step == {"none", "new", "bind", "dial", "wait", "relay", "ended"}
Half == [src : Seq(Item), hand : Seq(Item), out : Seq(Item), fin : BOOLEAN, done : BOOLEAN]

TypesOK ==
    /\ bridge \in {"up", "down"} /\ waiting \in Seq(Flows)
    /\ kind \in [Flows -> {"none", "tcp", "udp", "ping"}]
    /\ at \in [Flows -> Step]
    /\ ends \in [Flows -> [Side -> {"none", "open", "over"}]]
    /\ pipe \in [Flows -> [Direction -> Half]]
    /\ cellular \in BOOLEAN /\ bound \subseteq Flows /\ lapsed \subseteq Flows
    /\ via \in [Flows -> {"none", "cellular", "default"}] /\ echoed \subseteq Flows

(* A flow waits once, and before its handler. *)
QueueOK ==
    /\ \A i \in 1..Len(waiting) :
        at[waiting[i]] = "none" /\ ends[waiting[i]]["near"] # "none"
    /\ \A i, j \in 1..Len(waiting) : waiting[i] = waiting[j] => i = j

(* A handler that reaches its dial without the option has lapsed. *)
BoundOK(f) ==
    /\ at[f] \in {"new", "bind"} /\ ~cellular => f \in lapsed
    /\ at[f] = "dial" /\ f \notin bound => f \in lapsed

EndsOK(f) ==
    /\ ends[f]["near"] = "none" =>
        at[f] = "none" /\ ends[f]["far"] # "open" /\ \A d \in Direction : pipe[f][d].src = <<>>
    /\ at[f] = "ended" => \A s \in Side : ends[f][s] = "over"

(* A direction that is done has nothing left and gets nothing more; an      *)
(* empty item is a datagram.                                                *)
HalfOK(f, d) ==
    /\ Len(pipe[f][d].hand) <= 1
    /\ pipe[f][d].done =>
        /\ at[f] = "relay" /\ pipe[f][d].src = <<>> /\ pipe[f][d].hand = <<>>
        /\ pipe[f][d].fin \/ ends[f][Source(d)] = "over"
    /\ at[f] # "ended" /\ kind[f] # "udp" =>
        \A i \in 1..Len(pipe[f][d].src) : pipe[f][d].src[i] # Empty

FlowOK(f) == BoundOK(f) /\ EndsOK(f) /\ \A d \in Direction : HalfOK(f, d)
FlowsOK == \A f \in Flows : FlowOK(f)

Inv == TypesOK /\ QueueOK /\ FlowsOK

-----------------------------------------------------------------------------
LEMMA PipeTyped ==
    ASSUME TypesOK, NEW f \in Flows, NEW d \in Direction
    PROVE  /\ pipe[f] \in [Direction -> Half] /\ pipe[f][d] \in Half
           /\ pipe[f][d].src \in Seq(Item) /\ pipe[f][d].hand \in Seq(Item)
           /\ pipe[f][d].out \in Seq(Item)
           /\ pipe[f][d].fin \in BOOLEAN /\ pipe[f][d].done \in BOOLEAN
           /\ Sent(pipe[f][d]) \in Seq(Item)
  <1>1. pipe[f] \in [Direction -> Half] /\ pipe[f][d] \in Half
    BY DEF TypesOK
  <1>2. /\ pipe[f][d].src \in Seq(Item) /\ pipe[f][d].hand \in Seq(Item)
        /\ pipe[f][d].out \in Seq(Item)
        /\ pipe[f][d].fin \in BOOLEAN /\ pipe[f][d].done \in BOOLEAN
    BY <1>1 DEF Half
  <1>3. Sent(pipe[f][d]) \in Seq(Item)
    BY <1>2, ConcatProperties DEF Sent
  <1> QED BY <1>1, <1>2, <1>3

LEMMA PipeUpdated ==
    ASSUME TypesOK, NEW f \in Flows, NEW d \in Direction, NEW h,
           pipe' = [pipe EXCEPT ![f] = [pipe[f] EXCEPT ![d] = h]]
    PROVE  pipe'[f][d] = h
  BY DEF TypesOK

(* A flow nothing happens to. *)
SameFlow(f) ==
    /\ at[f]' = at[f] /\ ends[f]' = ends[f] /\ pipe[f]' = pipe[f] /\ kind[f]' = kind[f]

LEMMA SameFlowOK ==
    ASSUME NEW f \in Flows, FlowOK(f), SameFlow(f), BoundOK(f)'
    PROVE  FlowOK(f)'
  BY DEF FlowOK, SameFlow, EndsOK, HalfOK

SameBinding(f) ==
    /\ at[f]' = at[f] /\ cellular' = cellular
    /\ f \in bound => f \in bound' 
    /\ f \in lapsed => f \in lapsed'

LEMMA SameBindingOK ==
    ASSUME NEW f \in Flows, BoundOK(f), SameBinding(f)
    PROVE  BoundOK(f)'
  BY DEF BoundOK, SameBinding

LEMMA SameQueueOK ==
    ASSUME TypesOK, QueueOK, waiting' = waiting,
           \A f \in Flows : at[f] = "none" /\ ends[f]["near"] # "none"
                => at'[f] = "none" /\ ends'[f]["near"] # "none"
    PROVE  QueueOK'
  <1>1. \A i \in 1..Len(waiting) : waiting[i] \in Flows
    BY ElementOfSeq DEF TypesOK
  <1> QED BY <1>1 DEF QueueOK

(* One direction of one flow changes, and nothing else of it. *)
LEMMA PipeStep ==
    ASSUME Inv, NEW f \in Flows, NEW d \in Direction, NEW h \in Half,
           pipe' = [pipe EXCEPT ![f] = [pipe[f] EXCEPT ![d] = h]],
           UNCHANGED <<session, at, ends, binding, echoed>>,
           ends[f]["near"] = "none" => h.src = <<>>,
           HalfOK(f, d)'
    PROVE  Inv'
  <1>1. /\ pipe' \in [Flows -> [Direction -> Half]] /\ pipe'[f][d] = h
        /\ \A e \in Direction : e # d => pipe'[f][e] = pipe[f][e]
        /\ \A g \in Flows : g # f => pipe'[g] = pipe[g]
    BY DEF Inv, TypesOK
  <1>2. TypesOK'
    BY <1>1 DEF Inv, TypesOK, session, binding
  <1>3. QueueOK'
    BY SameQueueOK DEF Inv, session
  <1>4. ASSUME NEW g \in Flows PROVE FlowOK(g)'
    <2>1. BoundOK(g)'
      BY SameBindingOK DEF Inv, FlowsOK, FlowOK, SameBinding, binding
    <2>2. CASE g # f
      BY <1>1, <2>1, <2>2, SameFlowOK DEF Inv, FlowsOK, SameFlow, session
    <2>3. CASE g = f
      <3>1. EndsOK(f)'
        BY <1>1 DEF Inv, FlowsOK, FlowOK, EndsOK
      <3>2. ASSUME NEW e \in Direction PROVE HalfOK(f, e)'
        BY <1>1 DEF Inv, FlowsOK, FlowOK, HalfOK, session
      <3> QED BY <2>1, <2>3, <3>1, <3>2 DEF FlowOK
    <2> QED BY <2>2, <2>3
  <1> QED BY <1>2, <1>3, <1>4 DEF Inv, FlowsOK

LEMMA SendInv ==
    ASSUME Inv, NEW f \in Flows, NEW d \in Direction, Send(f, d)
    PROVE  Inv'
  <1> DEFINE p == pipe[f][d]
  <1>1. /\ CanSend(f, d) /\ Len(Sent(p)) < MaxItems[f][d]
        /\ UNCHANGED <<session, at, ends, binding, echoed>>
    BY DEF Send
  <1>2. PICK i \in {Empty, Len(Sent(p)) + 1} :
            /\ i = Empty => kind[f] = "udp"
            /\ pipe' = [pipe EXCEPT ![f][d].src = Append(@, i)]
    BY DEF Send
  <1> DEFINE h == [p EXCEPT !.src = Append(p.src, i)]
  <1>3. pipe' = [pipe EXCEPT ![f] = [pipe[f] EXCEPT ![d] = h]]
    BY <1>2
  <1>4. p \in Half /\ p.src \in Seq(Item) /\ Sent(p) \in Seq(Item)
    BY PipeTyped DEF Inv
  <1>5. i \in Item
    <2>1. Len(Sent(p)) \in Nat
      BY <1>4, LenProperties
    <2>2. MaxItems[f][d] \in Nat
      BY FlowsAssumption DEF Direction
    <2>3. i \in Empty..MaxItems[f][d]
      BY <1>1, <1>2, <2>1, <2>2 DEF Empty
    <2> HIDE DEF p
    <2> QED BY <2>3 DEF Item
  <1>6. /\ Append(p.src, i) \in Seq(Item) /\ Len(Append(p.src, i)) = Len(p.src) + 1
        /\ Len(p.src) \in Nat
        /\ \A j \in 1..Len(p.src) : Append(p.src, i)[j] = p.src[j]
        /\ Append(p.src, i)[Len(p.src) + 1] = i
    BY <1>4, <1>5, AppendProperties, LenProperties
  <1>7. h \in Half /\ h.src = Append(p.src, i) /\ h.hand = p.hand /\ h.done = p.done
        /\ h.fin = p.fin
    <2> HIDE DEF p
    <2> QED BY <1>4, <1>6 DEF Half
  <1>8. pipe'[f][d] = h
    BY <1>3, PipeUpdated DEF Inv
  <1>9. HalfOK(f, d)'
    <2>1. HalfOK(f, d) /\ ends[f][Source(d)] = "open" /\ ~p.fin
      BY <1>1 DEF Inv, FlowsOK, FlowOK, CanSend
    <2>2. ~p.done
      BY <2>1 DEF HalfOK
    <2>3. at'[f] # "ended" /\ kind'[f] # "udp" => \A j \in 1..Len(h.src) : h.src[j] # Empty
      <3>1. \A j \in 1..Len(h.src) : j \in 1..Len(p.src) \/ j = Len(p.src) + 1
        BY <1>6, <1>7
      <3> QED BY <1>1, <1>2, <1>6, <1>7, <2>1, <3>1 DEF HalfOK, session
    <2> HIDE DEF h
    <2> QED BY <1>7, <1>8, <2>1, <2>2, <2>3 DEF HalfOK
  <1>10. ends[f]["near"] # "none"
    BY <1>1 DEF Inv, FlowsOK, FlowOK, EndsOK, CanSend, Source, Direction
  <1> HIDE DEF h
  <1> QED BY <1>1, <1>3, <1>7, <1>9, <1>10, PipeStep
LEMMA FinishInv ==
    ASSUME Inv, NEW f \in Flows, NEW d \in Direction, Finish(f, d)
    PROVE  Inv'
  <1> DEFINE p == pipe[f][d]
  <1> DEFINE h == [p EXCEPT !.fin = TRUE]
  <1>1. /\ CanSend(f, d) /\ pipe' = [pipe EXCEPT ![f] = [pipe[f] EXCEPT ![d] = h]]
        /\ UNCHANGED <<session, at, ends, binding, echoed>>
    BY DEF Finish
  <1>2. h \in Half /\ h.src = p.src /\ h.hand = p.hand /\ h.done = p.done
    BY PipeTyped DEF Inv, Half
  <1>3. pipe'[f][d] = h
    BY <1>1, PipeUpdated DEF Inv
  <1>4. HalfOK(f, d) /\ ends[f]["near"] # "none" /\ ~p.done
    BY <1>1 DEF Inv, FlowsOK, FlowOK, HalfOK, EndsOK, CanSend, Source, Direction
  <1> HIDE DEF h
  <1>5. HalfOK(f, d)'
    BY <1>1, <1>2, <1>3, <1>4 DEF HalfOK, session
  <1> QED BY <1>1, <1>2, <1>4, <1>5, PipeStep

(* A relay that reads moves the head of its source to its hand. *)
LEMMA ReadInv ==
    ASSUME Inv, NEW f \in Flows, NEW d \in Direction, Read(f, d)
    PROVE  Inv'
  <1> DEFINE p == pipe[f][d]
  <1> DEFINE next == <<Head(p.src)>>
  <1> DEFINE h == [p EXCEPT !.src = Tail(p.src), !.hand = next]
  <1>1. /\ Reading(f, d) /\ p.src # <<>>
        /\ pipe' = [pipe EXCEPT ![f] = [pipe[f] EXCEPT ![d] = h]]
        /\ UNCHANGED <<session, at, ends, binding, echoed>>
    BY PipeTyped DEF Inv, TypesOK, Read
  <1>2. p \in Half /\ p.src \in Seq(Item)
    BY PipeTyped DEF Inv
  <1>3. /\ Head(p.src) \in Item /\ Tail(p.src) \in Seq(Item) /\ Len(p.src) \in Nat
        /\ Len(Tail(p.src)) = Len(p.src) - 1
        /\ \A i \in 1..Len(Tail(p.src)) : Tail(p.src)[i] = p.src[i + 1]
    BY <1>1, <1>2, HeadTailProperties, LenProperties
  <1>4. h \in Half /\ h.src = Tail(p.src) /\ h.hand = next /\ h.done = p.done
    <2>1. next \in Seq(Item)
      BY <1>3
    <2> HIDE DEF p, next
    <2> QED BY <2>1, <1>2, <1>3 DEF Half
  <1>5. pipe'[f][d] = h
    BY <1>1, PipeUpdated DEF Inv
  <1>6. HalfOK(f, d) /\ ends[f]["near"] # "none" /\ ~p.done
    BY <1>1 DEF Inv, FlowsOK, FlowOK, EndsOK, Reading
  <1>7. at[f] # "ended" /\ kind[f] # "udp" => \A i \in 1..Len(h.src) : h.src[i] # Empty
    <2>1. \A i \in 1..Len(h.src) : i + 1 \in 1..Len(p.src)
      BY <1>3, <1>4
    <2> QED BY <1>3, <1>4, <1>6, <2>1 DEF HalfOK
  <1>8. Len(h.hand) = 1
    BY <1>4
  <1>10. ~p.done /\ ~h.done
    BY <1>4, <1>6
  <1> HIDE DEF h, next
  <1>9. HalfOK(f, d)'
    <2>1. Len(pipe'[f][d].hand) <= 1 /\ ~pipe'[f][d].done
      BY <1>5, <1>8, <1>10
    <2>2. at'[f] # "ended" /\ kind'[f] # "udp" =>
            \A i \in 1..Len(pipe'[f][d].src) : pipe'[f][d].src[i] # Empty
      BY <1>1, <1>5, <1>7 DEF session
    <2> QED BY <2>1, <2>2 DEF HalfOK
  <1> QED BY <1>1, <1>4, <1>6, <1>9, PipeStep

LEMMA WriteInv ==
    ASSUME Inv, NEW f \in Flows, NEW d \in Direction, Write(f, d)
    PROVE  Inv'
  <1> DEFINE p == pipe[f][d]
  <1> DEFINE none == <<>>
  <1> DEFINE h == [p EXCEPT !.hand = none, !.out = p.out \o p.hand]
  <1>1. /\ Writing(f, d)
        /\ pipe' = [pipe EXCEPT ![f] = [pipe[f] EXCEPT ![d] = h]]
        /\ UNCHANGED <<session, at, ends, binding, echoed>>
    BY PipeTyped DEF Inv, TypesOK, Write
  <1>2. p \in Half /\ p.out \o p.hand \in Seq(Item)
    BY PipeTyped, ConcatProperties DEF Inv
  <1>3. h \in Half /\ h.src = p.src /\ h.hand = none /\ h.done = p.done
    <2>1. none \in Seq(Item)
      OBVIOUS
    <2> HIDE DEF p, none
    <2> QED BY <2>1, <1>2 DEF Half
  <1>4. pipe'[f][d] = h
    BY <1>1, PipeUpdated DEF Inv
  <1>5. HalfOK(f, d) /\ ends[f]["near"] # "none"
    BY <1>1 DEF Inv, FlowsOK, FlowOK, EndsOK, Writing
  <1>6. ~p.done
    BY <1>1, <1>5 DEF HalfOK, Writing
  <1>7. Len(h.hand) = 0
    BY <1>3
  <1> HIDE DEF h
  <1>8. HalfOK(f, d)'
    BY <1>1, <1>3, <1>4, <1>5, <1>6, <1>7 DEF HalfOK, session
  <1> QED BY <1>1, <1>3, <1>5, <1>8, PipeStep

(* The first end of stream of the two is only noted. *)
LEMMA NoteEof ==
    ASSUME Inv, NEW f \in Flows, NEW d \in Direction, AtEof(f, d),
           pipe' = [pipe EXCEPT ![f][d].done = TRUE],
           UNCHANGED <<session, at, ends, binding, echoed>>
    PROVE  Inv'
  <1> DEFINE p == pipe[f][d]
  <1> DEFINE h == [p EXCEPT !.done = TRUE]
  <1>1. pipe' = [pipe EXCEPT ![f] = [pipe[f] EXCEPT ![d] = h]]
    BY PipeTyped DEF Inv, TypesOK
  <1>2. h \in Half /\ h.src = p.src /\ h.hand = p.hand /\ h.fin = p.fin
    BY PipeTyped DEF Inv, Half
  <1> HIDE DEF h
  <1>3. pipe'[f][d] = h
    BY <1>1 DEF Inv, TypesOK
  <1>4. HalfOK(f, d) /\ ends[f]["near"] # "none"
    BY DEF Inv, FlowsOK, FlowOK, EndsOK, AtEof, Reading
  <1>5. HalfOK(f, d)'
    BY <1>2, <1>3, <1>4 DEF HalfOK, AtEof, Reading, session
  <1> QED BY <1>1, <1>2, <1>4, <1>5, PipeStep
-----------------------------------------------------------------------------
(* Steps of one handler or one end: what another flow is told by stays.     *)
Untouched(g) == SameFlow(g) /\ SameBinding(g)

LEMMA OneFlow ==
    ASSUME Inv, NEW f \in Flows, TypesOK', QueueOK', FlowOK(f)',
           \A g \in Flows \ {f} : Untouched(g)
    PROVE  Inv'
  <1>1. ASSUME NEW g \in Flows PROVE FlowOK(g)'
    <2>1. CASE g # f
      <3>1. FlowOK(g) /\ BoundOK(g) /\ SameFlow(g) /\ SameBinding(g)
        BY <2>1 DEF Inv, FlowsOK, FlowOK, Untouched
      <3> QED BY <3>1, SameFlowOK, SameBindingOK
    <2>2. CASE g = f
      BY <2>2
    <2> QED BY <2>1, <2>2
  <1> QED BY <1>1 DEF Inv, FlowsOK

(* A handler on its way to its relay takes one step. *)
LEMMA PrepareStep ==
    ASSUME Inv, NEW f \in Flows, NEW w \in Step \ {"none", "ended"},
           at[f] \in {"new", "bind", "dial"}, at' = [at EXCEPT ![f] = w],
           ends' = ends \/ ends' = [ends EXCEPT ![f]["far"] = "open"],
           bound' = bound \/ bound' = bound \cup {f},
           via' \in [Flows -> {"none", "cellular", "default"}],
           lapsed' \in SUBSET Flows, \A g \in Flows \ {f} : g \in lapsed => g \in lapsed',
           UNCHANGED <<session, pipe, cellular, echoed>>,
           BoundOK(f)'
    PROVE  Inv'
  <1>1. at'[f] = w /\ \A g \in Flows \ {f} : at'[g] = at[g]
    BY DEF Inv, TypesOK
  <1>2. /\ ends' \in [Flows -> [Side -> {"none", "open", "over"}]]
        /\ ends'[f]["near"] = ends[f]["near"]
        /\ \A g \in Flows \ {f} : ends'[g] = ends[g]
    <2>1. CASE ends' = ends
      BY <2>1 DEF Inv, TypesOK
    <2>2. CASE ends' = [ends EXCEPT ![f]["far"] = "open"]
      <3> DEFINE e == [ends[f] EXCEPT !["far"] = "open"]
      <3>1. e \in [Side -> {"none", "open", "over"}] /\ e["near"] = ends[f]["near"]
        BY DEF Inv, TypesOK, Side
      <3>2. ends' = [ends EXCEPT ![f] = e]
        BY <2>2
      <3> HIDE DEF e
      <3> QED BY <3>1, <3>2 DEF Inv, TypesOK
    <2> QED BY <2>1, <2>2
  <1>3. TypesOK'
    BY <1>2 DEF Inv, TypesOK, session
  <1>4. QueueOK'
    <2>1. \A g \in Flows : at[g] = "none" => g # f /\ at'[g] = "none" /\ ends'[g] = ends[g]
      BY <1>1, <1>2
    <2> QED BY <2>1, SameQueueOK DEF Inv, session
  <1>5. FlowOK(f)'
    <2>1. FlowOK(f) /\ ends[f]["near"] # "none"
      BY DEF Inv, FlowsOK, FlowOK, EndsOK
    <2>2. EndsOK(f)'
      BY <1>1, <1>2, <2>1 DEF EndsOK
    <2>3. ASSUME NEW d \in Direction PROVE HalfOK(f, d)'
      <3>1. HalfOK(f, d) /\ ~pipe[f][d].done
        BY <2>1 DEF FlowOK, HalfOK
      <3> QED BY <3>1 DEF HalfOK, session
    <2> QED BY <2>2, <2>3 DEF FlowOK
  <1>6. \A g \in Flows \ {f} : Untouched(g)
    BY <1>1, <1>2 DEF Untouched, SameFlow, SameBinding, session
  <1> QED BY <1>3, <1>4, <1>5, <1>6, OneFlow

(* What a handler leaves when it returns. *)
Left(p) == [Idle EXCEPT !.src = p.hand \o p.src, !.out = p.out]

LEMMA LeftTyped ==
    ASSUME TypesOK, NEW f \in Flows, NEW d \in Direction
    PROVE  /\ Left(pipe[f][d]) \in Half
           /\ Left(pipe[f][d]).src = pipe[f][d].hand \o pipe[f][d].src
           /\ Left(pipe[f][d]).hand = <<>> /\ Left(pipe[f][d]).out = pipe[f][d].out
           /\ Left(pipe[f][d]).done = FALSE
  <1> DEFINE p == pipe[f][d]
  <1>1. p.hand \o p.src \in Seq(Item) /\ p.out \in Seq(Item)
    BY PipeTyped, ConcatProperties
  <1> DEFINE rest == p.hand \o p.src
  <1> DEFINE none == <<>>
  <1>2. none \in Seq(Item)
    OBVIOUS
  <1>3. Idle \in Half /\ Idle.hand = none /\ Idle.done = FALSE
    <2> DEFINE h == [src |-> none, hand |-> none, out |-> none, fin |-> FALSE, done |-> FALSE]
    <2>1. h \in Half /\ h.hand = none /\ h.done = FALSE
      <3> HIDE DEF none
      <3> QED BY <1>2 DEF Half
    <2> QED BY <2>1 DEF Idle
  <1> DEFINE i == Idle
  <1> DEFINE h == [i EXCEPT !.src = rest, !.out = p.out]
  <1>4. h \in Half /\ h.src = rest /\ h.hand = i.hand /\ h.out = p.out /\ h.done = i.done
    <2>1. i \in Half /\ rest \in Seq(Item) /\ p.out \in Seq(Item)
      BY <1>1, <1>3
    <2> HIDE DEF p, rest, i
    <2> QED BY <2>1 DEF Half
  <1>5. Left(p) = h
    BY DEF Left
  <1> HIDE DEF h
  <1> QED BY <1>3, <1>4, <1>5

LEMMA DroppedPipe ==
    ASSUME TypesOK, NEW f \in Flows, Dropped(f)
    PROVE  /\ pipe' = [pipe EXCEPT ![f] = [d \in Direction |-> Left(pipe[f][d])]]
           /\ pipe' \in [Flows -> [Direction -> Half]]
           /\ \A d \in Direction : pipe'[f][d] = Left(pipe[f][d])
           /\ \A g \in Flows \ {f} : pipe'[g] = pipe[g]
  <1>1. pipe' = [pipe EXCEPT ![f] = [d \in Direction |-> Left(pipe[f][d])]]
    BY DEF Dropped, Left
  <1> DEFINE q == [d \in Direction |-> Left(pipe[f][d])]
  <1>2. q \in [Direction -> Half] /\ \A d \in Direction : q[d] = Left(pipe[f][d])
    BY LeftTyped
  <1> HIDE DEF q
  <1> QED BY <1>1, <1>2 DEF q, TypesOK
LEMMA DroppedInv ==
    ASSUME Inv, NEW f \in Flows, at[f] \notin {"none", "ended"}, Dropped(f),
           echoed' \in SUBSET Flows
    PROVE  Inv'
  <1>1. /\ at' = [at EXCEPT ![f] = "ended"] /\ bound' = bound \ {f} /\ lapsed' = lapsed \ {f}
        /\ ends' = [ends EXCEPT ![f] = [s \in Side |-> "over"]]
        /\ via' = [via EXCEPT ![f] = "none"] /\ UNCHANGED <<session, cellular>>
    BY DEF Dropped
  <1>2. at'[f] = "ended" /\ \A g \in Flows \ {f} : at'[g] = at[g]
    BY <1>1 DEF Inv, TypesOK
  <1>3. /\ ends' \in [Flows -> [Side -> {"none", "open", "over"}]]
        /\ \A s \in Side : ends'[f][s] = "over"
        /\ \A g \in Flows \ {f} : ends'[g] = ends[g]
    <2> DEFINE e == [s \in Side |-> "over"]
    <2>1. e \in [Side -> {"none", "open", "over"}] /\ \A s \in Side : e[s] = "over"
      OBVIOUS
    <2> HIDE DEF e
    <2> QED BY <1>1, <2>1 DEF Inv, TypesOK, e
  <1>4. /\ pipe' \in [Flows -> [Direction -> Half]]
        /\ \A d \in Direction : pipe'[f][d] = Left(pipe[f][d])
        /\ \A g \in Flows \ {f} : pipe'[g] = pipe[g]
    BY DroppedPipe DEF Inv
  <1>5. TypesOK'
    <2>1. at' \in [Flows -> Step] /\ via' \in [Flows -> {"none", "cellular", "default"}]
      BY <1>1 DEF Inv, TypesOK, Step
    <2> QED BY <1>1, <1>3, <1>4, <2>1 DEF Inv, TypesOK, session
  <1>6. QueueOK'
    <2>1. \A g \in Flows : at[g] = "none" => g # f /\ at'[g] = "none" /\ ends'[g] = ends[g]
      BY <1>2, <1>3
    <2> QED BY <1>1, <2>1, SameQueueOK DEF Inv, session
  <1>7. FlowOK(f)'
    <2>1. BoundOK(f)'
      BY <1>2 DEF BoundOK
    <2>2. EndsOK(f)'
      <3>1. ends'[f]["near"] = "over"
        BY <1>3 DEF Side
      <3> QED BY <1>3, <3>1 DEF EndsOK
    <2>3. ASSUME NEW d \in Direction PROVE HalfOK(f, d)'
      <3>1. pipe'[f][d].hand = <<>> /\ ~pipe'[f][d].done
        BY <1>4, LeftTyped DEF Inv
      <3>2. Len(pipe'[f][d].hand) = 0
        BY <3>1
      <3> QED BY <1>2, <3>1, <3>2 DEF HalfOK
    <2> QED BY <2>1, <2>2, <2>3 DEF FlowOK
  <1>8. ASSUME NEW g \in Flows \ {f} PROVE Untouched(g)
    BY <1>1, <1>2, <1>3, <1>4 DEF Untouched, SameFlow, SameBinding, session
  <1> QED BY <1>5, <1>6, <1>7, <1>8, OneFlow

(* Every way a handler has of returning. *)
LEMMA ReturnInv ==
    ASSUME Inv, NEW f \in Flows, NEW w \in {"new", "dial", "wait", "relay"}, Return(f, w),
           echoed' \in {echoed, echoed \cup {f}}
    PROVE  Inv'
  <1>1. at[f] \notin {"none", "ended"} /\ Dropped(f)
    BY DEF Return
  <1>2. echoed' \in SUBSET Flows
    BY DEF Inv, TypesOK
  <1> QED BY <1>1, <1>2, DroppedInv

LEMMA OpenSocketInv ==
    ASSUME Inv, NEW f \in Flows, OpenSocket(f)
    PROVE  Inv'
  <1> DEFINE w == IF cellular THEN "bind" ELSE "dial"
  <1>1. /\ at[f] = "new" /\ at' = [at EXCEPT ![f] = w]
        /\ UNCHANGED <<session, ends, pipe, binding, echoed>>
    BY DEF OpenSocket
  <1>2. w \in Step \ {"none", "ended"} /\ at'[f] = w
    BY <1>1 DEF Inv, TypesOK, Step
  <1>3. BoundOK(f)'
    <2>1. BoundOK(f)
      BY DEF Inv, FlowsOK, FlowOK
    <2>2. cellular \in BOOLEAN
      BY DEF Inv, TypesOK
    <2> QED BY <1>1, <1>2, <2>1, <2>2 DEF BoundOK, binding
  <1>4. /\ lapsed' = lapsed /\ bound' = bound /\ cellular' = cellular /\ via' = via
        /\ via \in [Flows -> {"none", "cellular", "default"}] /\ lapsed \in SUBSET Flows
    BY <1>1 DEF binding, Inv, TypesOK
  <1> HIDE DEF w
  <1> QED BY <1>1, <1>2, <1>3, <1>4, PrepareStep

LEMMA BindInv ==
    ASSUME Inv, NEW f \in Flows, LookupFails(f) \/ Bind(f) \/ BindFails(f)
    PROVE  Inv'
  <1>1. /\ at[f] \in {"new", "bind"} /\ at' = [at EXCEPT ![f] = "dial"]
        /\ UNCHANGED <<session, ends, pipe, cellular, via, echoed>>
        /\ \/ bound' = bound \cup {f} /\ lapsed' = lapsed
           \/ bound' = bound /\ lapsed' = lapsed \cup {f}
    BY DEF LookupFails, Bind, BindFails
  <1>2. "dial" \in Step \ {"none", "ended"} /\ at'[f] = "dial"
    BY <1>1 DEF Inv, TypesOK, Step
  <1>3. BoundOK(f)'
    BY <1>1, <1>2 DEF BoundOK
  <1>4. /\ lapsed' \in SUBSET Flows /\ \A g \in Flows \ {f} : g \in lapsed => g \in lapsed'
        /\ via' \in [Flows -> {"none", "cellular", "default"}]
    BY <1>1 DEF Inv, TypesOK
  <1> QED BY <1>1, <1>2, <1>3, <1>4, PrepareStep

LEMMA DialInv ==
    ASSUME Inv, NEW f \in Flows, Dial(f)
    PROVE  Inv'
  <1> DEFINE w == IF kind[f] = "ping" THEN "wait" ELSE "relay"
  <1>1. /\ at[f] = "dial" /\ at' = [at EXCEPT ![f] = w]
        /\ ends' = [ends EXCEPT ![f]["far"] = "open"]
        /\ via' = [via EXCEPT ![f] = IF f \in bound THEN "cellular" ELSE "default"]
        /\ lapsed' = lapsed \ {f} /\ UNCHANGED <<session, pipe, cellular, bound, echoed>>
    BY DEF Dial
  <1>2. w \in Step \ {"none", "ended"} /\ w \notin {"new", "bind", "dial"} /\ at'[f] = w
    BY <1>1 DEF Inv, TypesOK, Step
  <1>3. BoundOK(f)'
    <2> HIDE DEF w
    <2> QED BY <1>2 DEF BoundOK
  <1>4. /\ lapsed' \in SUBSET Flows /\ \A g \in Flows \ {f} : g \in lapsed => g \in lapsed'
        /\ via' \in [Flows -> {"none", "cellular", "default"}]
    BY <1>1 DEF Inv, TypesOK
  <1> HIDE DEF w
  <1> QED BY <1>1, <1>2, <1>3, <1>4, PrepareStep
LEMMA EndOverInv ==
    ASSUME Inv, NEW f \in Flows, NEW s \in Side, EndOver(f, s)
    PROVE  Inv'
  <1> DEFINE e == [ends[f] EXCEPT ![s] = "over"]
  <1>1. /\ ends[f][s] = "open" /\ ends' = [ends EXCEPT ![f] = e]
        /\ UNCHANGED <<session, at, pipe, binding, echoed>>
    BY DEF EndOver
  <1>2. /\ e \in [Side -> {"none", "open", "over"}] /\ e[s] = "over"
        /\ \A t \in Side : t # s => e[t] = ends[f][t]
    BY DEF Inv, TypesOK
  <1>3. /\ ends' \in [Flows -> [Side -> {"none", "open", "over"}]] /\ ends'[f] = e
        /\ \A g \in Flows \ {f} : ends'[g] = ends[g]
    <2> HIDE DEF e
    <2> QED BY <1>1, <1>2 DEF Inv, TypesOK
  <1> HIDE DEF e
  <1>4. TypesOK'
    BY <1>1, <1>3 DEF Inv, TypesOK, session, binding
  <1>5. ends'[f]["near"] = "none" <=> ends[f]["near"] = "none"
    BY <1>1, <1>2, <1>3 DEF Side
  <1>6. QueueOK'
    <2>1. \A g \in Flows : at[g] = "none" /\ ends[g]["near"] # "none"
              => at'[g] = "none" /\ ends'[g]["near"] # "none"
      BY <1>1, <1>3, <1>5
    <2> QED BY <1>1, <2>1, SameQueueOK DEF Inv, session
  <1>7. FlowOK(f)'
    <2>1. FlowOK(f)
      BY DEF Inv, FlowsOK
    <2>2. BoundOK(f)'
      BY <1>1, <2>1, SameBindingOK DEF FlowOK, SameBinding, binding
    <2>3. EndsOK(f)'
      <3>1. ends'[f]["far"] = "open" => ends[f]["far"] = "open"
        BY <1>2, <1>3 DEF Side
      <3>2. at'[f] # "ended"
        BY <1>1, <2>1 DEF FlowOK, EndsOK
      <3> QED BY <1>1, <1>5, <2>1, <3>1, <3>2 DEF FlowOK, EndsOK
    <2>4. ASSUME NEW d \in Direction PROVE HalfOK(f, d)'
      <3>1. ends[f][Source(d)] = "over" => ends'[f][Source(d)] = "over"
        BY <1>2, <1>3 DEF Side, Source
      <3> QED BY <1>1, <2>1, <3>1 DEF FlowOK, HalfOK, session
    <2> QED BY <2>2, <2>3, <2>4 DEF FlowOK
  <1>8. \A g \in Flows \ {f} : Untouched(g)
    BY <1>1, <1>3 DEF Untouched, SameFlow, SameBinding, session, binding
  <1> QED BY <1>4, <1>6, <1>7, <1>8, OneFlow

(* A new flow is in no queue yet. *)
LEMMA ArriveInv ==
    ASSUME Inv, NEW f \in Flows, Arrive(f)
    PROVE  Inv'
  <1> DEFINE e == [ends[f] EXCEPT !["near"] = "open"]
  <1>1. /\ ends[f]["near"] = "none" /\ ends' = [ends EXCEPT ![f] = e]
        /\ waiting' = Append(waiting, f)
        /\ UNCHANGED <<bridge, at, pipe, binding, echoed>>
    BY DEF Arrive
  <1>2. PICK k \in Kinds[f] : kind' = [kind EXCEPT ![f] = k]
    BY DEF Arrive
  <1>3. /\ kind' \in [Flows -> {"none", "tcp", "udp", "ping"}]
        /\ \A g \in Flows \ {f} : kind'[g] = kind[g]
    <2>1. k \in {"tcp", "udp", "ping"}
      BY <1>2, FlowsAssumption
    <2> QED BY <1>2, <2>1 DEF Inv, TypesOK
  <1>4. /\ e \in [Side -> {"none", "open", "over"}] /\ e["near"] = "open"
        /\ e["far"] = ends[f]["far"]
    BY DEF Inv, TypesOK, Side
  <1>5. /\ ends' \in [Flows -> [Side -> {"none", "open", "over"}]] /\ ends'[f] = e
        /\ \A g \in Flows \ {f} : ends'[g] = ends[g]
    <2> HIDE DEF e
    <2> QED BY <1>1, <1>4 DEF Inv, TypesOK
  <1> HIDE DEF e
  <1>6. /\ waiting' \in Seq(Flows) /\ Len(waiting) \in Nat /\ Len(waiting') = Len(waiting) + 1
        /\ \A i \in 1..Len(waiting) : waiting'[i] = waiting[i] /\ waiting[i] \in Flows
        /\ waiting'[Len(waiting) + 1] = f
    BY <1>1, AppendProperties, LenProperties, ElementOfSeq DEF Inv, TypesOK
  <1>7. TypesOK'
    BY <1>1, <1>3, <1>5, <1>6 DEF Inv, TypesOK, binding
  <1>8. FlowOK(f) /\ at[f] = "none"
    BY <1>1 DEF Inv, FlowsOK, FlowOK, EndsOK
  <1>9. QueueOK'
    <2>1. \A i \in 1..Len(waiting') : i \in 1..Len(waiting) \/ i = Len(waiting) + 1
      BY <1>6
    <2>2. ASSUME NEW i \in 1..Len(waiting)
          PROVE  /\ at'[waiting'[i]] = "none" /\ ends'[waiting'[i]]["near"] # "none"
                 /\ waiting'[i] # f /\ waiting'[i] = waiting[i]
      <3>1. at[waiting[i]] = "none" /\ ends[waiting[i]]["near"] # "none"
        BY DEF Inv, QueueOK
      <3>2. waiting[i] # f /\ waiting[i] \in Flows
        BY <1>1, <1>6, <3>1
      <3> QED BY <1>1, <1>5, <1>6, <3>1, <3>2
    <2>3. at'[f] = "none" /\ ends'[f]["near"] # "none"
      BY <1>1, <1>4, <1>5, <1>8
    <2>4. \A i \in 1..Len(waiting') : at'[waiting'[i]] = "none" /\ ends'[waiting'[i]]["near"] # "none"
      BY <1>6, <2>1, <2>2, <2>3
    <2>5. \A i, j \in 1..Len(waiting) : waiting[i] = waiting[j] => i = j
      BY DEF Inv, QueueOK
    <2>6. \A i, j \in 1..Len(waiting') : waiting'[i] = waiting'[j] => i = j
      BY <1>6, <2>1, <2>2, <2>5
    <2> QED BY <2>4, <2>6 DEF QueueOK
  <1>10. FlowOK(f)'
    <2>1. BoundOK(f)' /\ EndsOK(f)'
      BY <1>1, <1>4, <1>5, <1>8 DEF BoundOK, EndsOK
    <2>2. ASSUME NEW d \in Direction PROVE HalfOK(f, d)'
      <3>1. HalfOK(f, d) /\ pipe[f][d].src = <<>>
        BY <1>1, <1>8 DEF FlowOK, EndsOK
      <3>2. Len(pipe[f][d].src) = 0
        BY <3>1
      <3> QED BY <1>1, <1>8, <3>1, <3>2 DEF HalfOK
    <2> QED BY <2>1, <2>2 DEF FlowOK
  <1>11. \A g \in Flows \ {f} : Untouched(g)
    BY <1>1, <1>3, <1>5 DEF Untouched, SameFlow, SameBinding, binding
  <1> QED BY <1>7, <1>9, <1>10, <1>11, OneFlow
-----------------------------------------------------------------------------
(* The oldest flow of the queue is at its head and nowhere else.            *)
LEMMA AcceptInv ==
    ASSUME Inv, Accept
    PROVE  Inv'
  <1>0. PICK f \in Flows : waiting # <<>> /\ f = Head(waiting)
    <2>1. waiting # <<>> /\ waiting \in Seq(Flows)
      BY DEF Accept, Inv, TypesOK
    <2> QED BY <2>1, HeadTailProperties
  <1>1. /\ waiting # <<>> /\ at' = [at EXCEPT ![f] = "new"] /\ waiting' = Tail(waiting)
        /\ lapsed' = IF cellular THEN lapsed ELSE lapsed \cup {f}
        /\ UNCHANGED <<bridge, kind, ends, pipe, cellular, bound, via, echoed>>
    BY <1>0 DEF Accept
  <1>2. /\ f \in Flows /\ f = waiting[1] /\ Len(waiting) \in Nat /\ Len(waiting) >= 1
        /\ waiting' \in Seq(Flows) /\ Len(waiting') = Len(waiting) - 1
        /\ \A i \in 1..Len(waiting') : waiting'[i] = waiting[i + 1]
    <2>1. waiting \in Seq(Flows)
      BY DEF Inv, TypesOK
    <2> QED BY <1>0, <1>1, <2>1, HeadTailProperties, LenProperties, EmptySeq
  <1>3. at[f] = "none" /\ ends[f]["near"] # "none" /\ 1 \in 1..Len(waiting)
    BY <1>2 DEF Inv, QueueOK
  <1>4. /\ at' \in [Flows -> Step] /\ at'[f] = "new"
        /\ \A g \in Flows \ {f} : at'[g] = at[g]
    BY <1>1, <1>2 DEF Inv, TypesOK, Step
  <1>5. /\ lapsed' \in SUBSET Flows /\ \A g \in Flows : g \in lapsed => g \in lapsed'
        /\ ~cellular => f \in lapsed'
    <2>1. CASE cellular
      BY <1>1, <2>1 DEF Inv, TypesOK
    <2>2. CASE ~cellular
      BY <1>1, <1>2, <2>2 DEF Inv, TypesOK
    <2> QED BY <2>1, <2>2
  <1>6. TypesOK'
    BY <1>1, <1>2, <1>4, <1>5 DEF Inv, TypesOK
  <1>7. QueueOK'
    <2>1. ASSUME NEW i \in 1..Len(waiting')
          PROVE  /\ i + 1 \in 1..Len(waiting) /\ i + 1 # 1
                 /\ waiting'[i] = waiting[i + 1] /\ waiting[i + 1] \in Flows
      <3>1. i + 1 \in 1..Len(waiting)
        BY <1>2
      <3> QED BY <1>2, <3>1, ElementOfSeq DEF Inv, TypesOK
    <2>2. ASSUME NEW i \in 1..Len(waiting') PROVE waiting'[i] # f
      BY <1>2, <1>3, <2>1 DEF Inv, QueueOK
    <2>3. ASSUME NEW i \in 1..Len(waiting')
          PROVE  at'[waiting'[i]] = "none" /\ ends'[waiting'[i]]["near"] # "none"
      <3>1. at[waiting[i + 1]] = "none" /\ ends[waiting[i + 1]]["near"] # "none"
        BY <2>1 DEF Inv, QueueOK
      <3> QED BY <1>1, <1>4, <2>1, <2>2, <3>1
    <2>4. ASSUME NEW i \in 1..Len(waiting'), NEW j \in 1..Len(waiting'),
                 waiting'[i] = waiting'[j]
          PROVE  i = j
      <3>1. i + 1 = j + 1
        BY <2>1, <2>4 DEF Inv, QueueOK
      <3> QED BY <3>1
    <2> QED BY <2>3, <2>4 DEF QueueOK
  <1>8. FlowOK(f) /\ FlowOK(f)'
    <2>1. FlowOK(f)
      BY <1>2 DEF Inv, FlowsOK
    <2>2. BoundOK(f)'
      BY <1>1, <1>4, <1>5 DEF BoundOK
    <2>3. EndsOK(f)'
      BY <1>1, <1>3, <1>4 DEF EndsOK
    <2>4. ASSUME NEW d \in Direction PROVE HalfOK(f, d)'
      BY <1>1, <1>3, <1>4, <2>1 DEF FlowOK, HalfOK
    <2> QED BY <2>1, <2>2, <2>3, <2>4 DEF FlowOK
  <1>9. \A g \in Flows \ {f} : Untouched(g)
    BY <1>1, <1>4, <1>5 DEF Untouched, SameFlow, SameBinding
  <1> QED BY <1>2, <1>6, <1>7, <1>8, <1>9, OneFlow

(* The stack takes the ends of the flows nobody accepted with it.           *)
LEMMA LeaveBridgeInv ==
    ASSUME Inv, LeaveBridge
    PROVE  Inv'
  <1>1. /\ bridge' = "down" /\ waiting' = <<>>
        /\ UNCHANGED <<kind, at, pipe, binding, echoed>>
    BY DEF LeaveBridge
  <1>2. /\ ends' \in [Flows -> [Side -> {"none", "open", "over"}]]
        /\ \A f \in Flows, s \in Side :
              ends'[f][s] = IF at[f] = "none" /\ ends[f][s] = "open" THEN "over" ELSE ends[f][s]
    BY DEF LeaveBridge, Inv, TypesOK
  <1>3. TypesOK'
    BY <1>1, <1>2 DEF Inv, TypesOK, binding
  <1>4. QueueOK'
    <2>1. Len(waiting') = 0
      BY <1>1
    <2> QED BY <2>1 DEF QueueOK
  <1>5. ASSUME NEW f \in Flows PROVE FlowOK(f)'
    <2>1. FlowOK(f)
      BY DEF Inv, FlowsOK
    <2>2. BoundOK(f)'
      BY <1>1, <2>1 DEF FlowOK, BoundOK, binding
    <2>3. /\ ends'[f]["near"] = "none" => ends[f]["near"] = "none"
          /\ ends'[f]["far"] = "open" => ends[f]["far"] = "open"
          /\ \A s \in Side : ends[f][s] = "over" => ends'[f][s] = "over"
      BY <1>2 DEF Side
    <2>4. EndsOK(f)'
      BY <1>1, <2>1, <2>3 DEF FlowOK, EndsOK
    <2>5. ASSUME NEW d \in Direction PROVE HalfOK(f, d)'
      <3>1. HalfOK(f, d) /\ Source(d) \in Side
        BY <2>1 DEF FlowOK, Source, Side
      <3> QED BY <1>1, <2>3, <3>1 DEF HalfOK
    <2> QED BY <2>2, <2>4, <2>5 DEF FlowOK
  <1> QED BY <1>3, <1>4, <1>5 DEF Inv, FlowsOK

LEMMA CellularInv ==
    ASSUME Inv, CellularChanges
    PROVE  Inv'
  <1>1. /\ cellular' = ~cellular
        /\ lapsed' = IF cellular THEN lapsed \cup Preparing ELSE lapsed
        /\ UNCHANGED <<session, at, ends, pipe, bound, via, echoed>>
    BY DEF CellularChanges
  <1>2. /\ cellular' \in BOOLEAN /\ lapsed' \in SUBSET Flows
        /\ \A f \in Flows : f \in lapsed => f \in lapsed'
        /\ ~cellular' => Preparing \subseteq lapsed'
    <2>1. CASE cellular
      BY <1>1, <2>1 DEF Inv, TypesOK, Preparing
    <2>2. CASE ~cellular
      BY <1>1, <2>2 DEF Inv, TypesOK, Preparing
    <2> QED BY <2>1, <2>2
  <1>3. TypesOK'
    BY <1>1, <1>2 DEF Inv, TypesOK, session
  <1>4. QueueOK'
    BY <1>1, SameQueueOK DEF Inv, session
  <1>5. ASSUME NEW f \in Flows PROVE FlowOK(f)'
    <2>1. FlowOK(f)
      BY DEF Inv, FlowsOK
    <2>2. BoundOK(f)'
      BY <1>1, <1>2, <2>1 DEF FlowOK, BoundOK, Preparing
    <2> QED BY <1>1, <2>1, <2>2, SameFlowOK DEF SameFlow, session
  <1> QED BY <1>3, <1>4, <1>5 DEF Inv, FlowsOK

LEMMA InitInv ==
    ASSUME FlowsInit
    PROVE  Inv
  <1>1. Idle \in Half /\ Idle.src = <<>> /\ Idle.hand = <<>> /\ Idle.done = FALSE
    <2> DEFINE none == <<>>
    <2> DEFINE h == [src |-> none, hand |-> none, out |-> none, fin |-> FALSE, done |-> FALSE]
    <2>1. none \in Seq(Item)
      OBVIOUS
    <2>2. h \in Half /\ h.src = none /\ h.hand = none /\ h.done = FALSE
      <3> HIDE DEF none
      <3> QED BY <2>1 DEF Half
    <2> QED BY <2>2 DEF Idle
  <1>2. TypesOK
    <2>1. waiting \in Seq(Flows)
      BY DEF FlowsInit
    <2>2. /\ kind \in [Flows -> {"none", "tcp", "udp", "ping"}] /\ at \in [Flows -> Step]
          /\ ends \in [Flows -> [Side -> {"none", "open", "over"}]]
          /\ via \in [Flows -> {"none", "cellular", "default"}]
      BY DEF FlowsInit, Step
    <2>3. pipe \in [Flows -> [Direction -> Half]]
      BY <1>1 DEF FlowsInit
    <2> QED BY <2>1, <2>2, <2>3 DEF FlowsInit, TypesOK
  <1>3. QueueOK
    <2>1. Len(waiting) = 0
      BY DEF FlowsInit
    <2> QED BY <2>1 DEF QueueOK
  <1>4. ASSUME NEW f \in Flows PROVE FlowOK(f)
    <2>1. /\ at[f] = "none" /\ \A s \in Side : ends[f][s] = "none"
          /\ \A d \in Direction : pipe[f][d] = Idle
      BY DEF FlowsInit
    <2>2. BoundOK(f)
      BY <2>1 DEF BoundOK
    <2>3. EndsOK(f)
      BY <1>1, <2>1 DEF EndsOK, Side
    <2>4. ASSUME NEW d \in Direction PROVE HalfOK(f, d)
      <3>1. pipe[f][d] = Idle /\ Len(pipe[f][d].src) = 0 /\ Len(pipe[f][d].hand) = 0
        BY <1>1, <2>1
      <3> QED BY <1>1, <3>1 DEF HalfOK
    <2> QED BY <2>2, <2>3, <2>4 DEF FlowOK
  <1> QED BY <1>2, <1>3, <1>4 DEF Inv, FlowsOK
LEMMA HandlerInv ==
    ASSUME Inv, NEW f \in Flows, Handler(f)
    PROVE  Inv'
  <1>1. CASE Prepare(f)
    <2>1. CASE NoSocket(f)
      BY <2>1, ReturnInv DEF NoSocket
    <2>2. CASE NotAnEcho(f)
      BY <2>2, ReturnInv DEF NotAnEcho
    <2> QED BY <1>1, <2>1, <2>2, OpenSocketInv, BindInv DEF Prepare
  <1>2. CASE Connect(f)
    <2>1. CASE DialFails(f)
      BY <2>1, ReturnInv DEF DialFails
    <2> QED BY <1>2, <2>1, DialInv DEF Connect
  <1>3. CASE Pong(f)
    BY <1>3, ReturnInv DEF Pong
  <1>4. CASE PingTimeout(f)
    BY <1>4, ReturnInv DEF PingTimeout
  <1>5. CASE GiveUp(f)
    <2>1. Return(f, "relay") /\ echoed' = echoed
      BY <1>5 DEF GiveUp, RelayFails, EmptyDatagram
    <2> QED BY <2>1, ReturnInv
  <1>6. ASSUME NEW d \in Direction, Move(f, d) PROVE Inv'
    <2>1. CASE HalfClose(f, d)
      <3>1. AtEof(f, d) /\ echoed' = echoed
        BY <2>1 DEF HalfClose
      <3>2. CASE Dropped(f)
        <4>1. at[f] \notin {"none", "ended"}
          BY <3>1 DEF AtEof, Reading
        <4> QED BY <3>1, <3>2, <4>1, DroppedInv DEF Inv, TypesOK
      <3>3. CASE pipe' = [pipe EXCEPT ![f][d].done = TRUE] /\ UNCHANGED <<session, at, ends, binding>>
        BY <3>1, <3>3, NoteEof
      <3> QED BY <2>1, <3>2, <3>3 DEF HalfClose
    <2> QED BY <1>6, <2>1, ReadInv, WriteInv DEF Move
  <1> QED BY <1>1, <1>2, <1>3, <1>4, <1>5, <1>6 DEF Handler

LEMMA NextInv ==
    ASSUME Inv, [FlowsNext]_vars
    PROVE  Inv'
  <1>1. CASE UNCHANGED vars
    BY <1>1 DEF vars, session, binding, Inv, TypesOK, QueueOK, FlowsOK, FlowOK, BoundOK,
                EndsOK, HalfOK
  <1>2. CASE Accept \/ LeaveBridge \/ CellularChanges
    BY <1>2, AcceptInv, LeaveBridgeInv, CellularInv
  <1>3. ASSUME NEW f \in Flows, World(f) PROVE Inv'
    BY <1>3, ArriveInv, SendInv, FinishInv, EndOverInv DEF World
  <1> QED BY <1>1, <1>2, <1>3, HandlerInv DEF FlowsNext

-----------------------------------------------------------------------------
(* The inductive invariant: queue, handlers, ends and pipes of every flow   *)
(* agree, however the flows interleave (lib.rs 300-345, flow.rs, egress.rs).*)
THEOREM FlowsInvariant == FlowsSpec => []Inv
  <1>1. FlowsInit => Inv
    BY InitInv
  <1>2. Inv /\ [FlowsNext]_vars => Inv'
    BY NextInv
  <1> QED BY <1>1, <1>2, PTL DEF FlowsSpec

(* Flows queue once each, so that no more wait than the desktop opened.     *)
LEMMA QueueBounded ==
    ASSUME TypesOK, QueueOK
    PROVE  Len(waiting) <= Cardinality(Flows)
  <1> DEFINE n == Len(waiting)
  <1>1. n \in Nat /\ waiting \in [1..n -> Flows] /\ IsFiniteSet(Flows)
    BY LenProperties, SeqDef, FlowsAssumption DEF TypesOK
  <1>2. waiting \in Injection(1..n, Flows)
    BY <1>1 DEF QueueOK, Injection, IsInjective
  <1>3. Cardinality(1..n) <= Cardinality(Flows)
    BY <1>1, <1>2, FS_Injection
  <1>4. Cardinality(1..n) = n
    BY <1>1, FS_Interval
  <1> QED BY <1>3, <1>4

(* Every variable keeps its type; at most one item is in a relay's hand and *)
(* the accept queue is bounded by the flows (flow.rs 57-70, lib.rs 300-345).*)
THEOREM FlowsTypeCorrect == FlowsSpec => []FlowsTypeOK
  <1>1. Inv => FlowsTypeOK
    <2> SUFFICES ASSUME Inv PROVE FlowsTypeOK
      OBVIOUS
    <2>1. ASSUME NEW f \in Flows, NEW d \in Direction
          PROVE  /\ Sent(pipe[f][d]) \in Seq(Item) /\ Len(pipe[f][d].hand) <= 1
                 /\ pipe[f][d].fin \in BOOLEAN /\ pipe[f][d].done \in BOOLEAN
      BY PipeTyped DEF Inv, FlowsOK, FlowOK, HalfOK
    <2>2. Len(waiting) <= Cardinality(Flows)
      BY QueueBounded DEF Inv
    <2> QED BY <2>1, <2>2 DEF Inv, TypesOK, Step, FlowsTypeOK
  <1> QED BY <1>1, FlowsInvariant, PTL
-----------------------------------------------------------------------------
(* Every step that ends the handler of a flow drops that flow alone.        *)
Drops(f) == at[f] \notin {"none", "ended"} /\ Dropped(f)

LEMMA DropsAlone ==
    ASSUME TypesOK, NEW f \in Flows, Drops(f)
    PROVE  /\ at'[f] = "ended" /\ via'[f] = "none"
           /\ \A g \in Flows \ {f} : at'[g] = at[g] /\ via'[g] = via[g] /\ pipe'[g] = pipe[g]
           /\ kind' = kind
  <1>1. /\ at' = [at EXCEPT ![f] = "ended"] /\ via' = [via EXCEPT ![f] = "none"] /\ kind' = kind
    BY DEF Drops, Dropped, session
  <1>2. \A g \in Flows \ {f} : pipe'[g] = pipe[g]
    BY DroppedPipe DEF Drops
  <1> QED BY <1>1, <1>2 DEF TypesOK

(* The handlers' steps by what they do.                                     *)
LEMMA HandlerSteps ==
    ASSUME NEW f \in Flows, Handler(f)
    PROVE  \/ Return(f, "new") \/ Return(f, "dial") \/ Return(f, "wait")
           \/ OpenSocket(f) \/ LookupFails(f) \/ Bind(f) \/ BindFails(f) \/ Dial(f)
           \/ RelayFails(f) \/ EmptyDatagram(f)
           \/ \E d \in Direction : Move(f, d)
  BY DEF Handler, Prepare, NoSocket, NotAnEcho, Connect, DialFails, Pong, PingTimeout, GiveUp

(* Only a dial chooses a route.                                             *)
LEMMA RouteChosen ==
    ASSUME TypesOK, FlowsNext, NEW f \in Flows, via[f] = "none", via'[f] = "default"
    PROVE  Dial(f) /\ f \notin bound
  <1>1. CASE Accept \/ LeaveBridge \/ CellularChanges
    BY <1>1 DEF Accept, LeaveBridge, CellularChanges, binding
  <1>2. ASSUME NEW g \in Flows, World(g) PROVE FALSE
    BY <1>2 DEF World, Arrive, Send, Finish, EndOver, binding
  <1>3. ASSUME NEW g \in Flows, Handler(g) PROVE Dial(f) /\ f \notin bound
    <2>1. ASSUME Dropped(g) PROVE FALSE
      BY <2>1 DEF Dropped, TypesOK
    <2>2. CASE Dial(g)
      <3>1. via' = [via EXCEPT ![g] = IF g \in bound THEN "cellular" ELSE "default"]
        BY <2>2 DEF Dial
      <3>2. g = f /\ f \notin bound
        BY <3>1 DEF TypesOK
      <3> QED BY <2>2, <3>2
    <2>3. CASE OpenSocket(g) \/ LookupFails(g) \/ Bind(g) \/ BindFails(g)
      BY <2>3 DEF OpenSocket, LookupFails, Bind, BindFails, binding
    <2>4. ASSUME NEW d \in Direction, Move(g, d) PROVE FALSE
      BY <2>1, <2>4 DEF Move, Read, Write, HalfClose, binding
    <2> QED BY <1>3, <2>1, <2>2, <2>3, <2>4, HandlerSteps DEF Return, RelayFails, EmptyDatagram
  <1> QED BY <1>1, <1>2, <1>3 DEF FlowsNext

(* A flow whose route is chosen over Wi-Fi could not be bound at some point *)
(* of its start (egress.rs 3-15, 135-147), for any number of flows.         *)
THEOREM FlowsRideCellular == FlowsSpec => RidesCellular
  <1> DEFINE A == \A f \in Flows : via[f] = "none" /\ via'[f] = "default" => f \in lapsed
  <1>1. Inv /\ [FlowsNext]_vars => [A]_vars
    <2> SUFFICES ASSUME Inv, FlowsNext, NEW f \in Flows, via[f] = "none", via'[f] = "default"
                 PROVE  f \in lapsed
      BY DEF vars
    <2>1. Dial(f) /\ f \notin bound
      BY RouteChosen DEF Inv
    <2> QED BY <2>1 DEF Inv, FlowsOK, FlowOK, BoundOK, Dial
  <1> HIDE DEF A
  <1>2. FlowsSpec => [][A]_vars
    BY <1>1, FlowsInvariant, PTL DEF FlowsSpec
  <1> QED BY <1>2 DEF A, RidesCellular
(* A relay returns in one of three ways.                                    *)
LEMMA RelayReturns ==
    ASSUME TypesOK, FlowsNext, NEW f \in Flows, at[f] = "relay", at'[f] = "ended"
    PROVE  \/ RelayFails(f) \/ EmptyDatagram(f)
           \/ \E d \in Direction :
                AtEof(f, d) /\ pipe[f][IF d = "up" THEN "down" ELSE "up"].done
  <1>1. ASSUME Accept PROVE FALSE
    BY <1>1 DEF Accept, TypesOK
  <1>2. ASSUME LeaveBridge \/ CellularChanges PROVE FALSE
    BY <1>2 DEF LeaveBridge, CellularChanges
  <1>3. ASSUME NEW g \in Flows, World(g) PROVE FALSE
    BY <1>3 DEF World, Arrive, Send, Finish, EndOver
  <1>4. ASSUME NEW g \in Flows, Handler(g)
        PROVE  \/ RelayFails(f) \/ EmptyDatagram(f)
               \/ \E d \in Direction :
                    AtEof(f, d) /\ pipe[f][IF d = "up" THEN "down" ELSE "up"].done
    <2>1. Dropped(g) => g = f
      BY DEF Dropped, TypesOK
    <2>2. CASE Return(g, "new") \/ Return(g, "dial") \/ Return(g, "wait")
      BY <2>1, <2>2 DEF Return
    <2>3. CASE OpenSocket(g) \/ LookupFails(g) \/ Bind(g) \/ BindFails(g) \/ Dial(g)
      BY <2>3 DEF OpenSocket, LookupFails, Bind, BindFails, Dial, TypesOK
    <2>4. CASE RelayFails(g) \/ EmptyDatagram(g)
      BY <2>1, <2>4 DEF RelayFails, EmptyDatagram, Return
    <2>5. ASSUME NEW d \in Direction, Move(g, d)
          PROVE  g = f /\ AtEof(f, d) /\ pipe[f][IF d = "up" THEN "down" ELSE "up"].done
      BY <2>1, <2>5 DEF Move, Read, Write, HalfClose
    <2> QED BY <1>4, <2>2, <2>3, <2>4, <2>5, HandlerSteps
  <1> QED BY <1>1, <1>2, <1>3, <1>4 DEF FlowsNext

(* Nothing left inside: everything sent came out.                           *)
LEMMA Drained ==
    ASSUME TypesOK, NEW f \in Flows, NEW d \in Direction,
           pipe[f][d].src = <<>>, pipe[f][d].hand = <<>>
    PROVE  pipe[f][d].out = Sent(pipe[f][d])
  <1>1. pipe[f][d].out \in Seq(Item)
    BY PipeTyped
  <1>2. pipe[f][d].out \o <<>> = pipe[f][d].out
    BY <1>1, ConcatEmptySeq
  <1> QED BY <1>2 DEF Sent

(* A relay with two open ends returns when both directions have ended and   *)
(* everything came out, or at an empty datagram (flow.rs 57-70, 96-123).    *)
THEOREM FlowsNotCutShort == FlowsSpec => NothingCutShort
  <1> DEFINE Whole(f) ==
        \/ \A d \in Direction : pipe[f][d].fin /\ pipe[f][d].out = Sent(pipe[f][d])
        \/ kind[f] = "udp" /\ \E d \in Direction : Empty \in Elements(pipe[f][d].src)
  <1> DEFINE A == \A f \in Flows :
        (/\ at[f] = "relay" /\ at'[f] = "ended"
         /\ \A s \in Side : ends[f][s] = "open") => Whole(f)
  <1>1. Inv /\ [FlowsNext]_vars => [A]_vars
    <2> SUFFICES ASSUME Inv, FlowsNext, NEW f \in Flows, at[f] = "relay", at'[f] = "ended",
                        \A s \in Side : ends[f][s] = "open"
                 PROVE  Whole(f)
      BY DEF vars
    <2>1. /\ RelayFails(f) \/ EmptyDatagram(f)
             \/ \E d \in Direction :
                  AtEof(f, d) /\ pipe[f][IF d = "up" THEN "down" ELSE "up"].done
          /\ \A d \in Direction : HalfOK(f, d) /\ Source(d) \in Side /\ Sink(d) \in Side
      BY RelayReturns DEF Inv, FlowsOK, FlowOK, Source, Sink, Side
    <2>2. ~RelayFails(f)
      BY <2>1 DEF RelayFails, Fails
    <2>3. CASE EmptyDatagram(f)
      <3>1. PICK d \in Direction : pipe[f][d].src # <<>> /\ Head(pipe[f][d].src) = Empty
        BY <2>3 DEF EmptyDatagram
      <3>2. pipe[f][d].src \in Seq(Item)
        BY PipeTyped DEF Inv
      <3>3. 1 \in 1..Len(pipe[f][d].src) /\ pipe[f][d].src[1] = Empty
        BY <3>1, <3>2, HeadTailProperties, LenProperties, EmptySeq
      <3>4. Empty \in Elements(pipe[f][d].src)
        BY <3>3 DEF Elements
      <3>5. kind[f] = "udp"
        BY <2>1, <3>3 DEF HalfOK
      <3> QED BY <3>4, <3>5
    <2>4. ASSUME NEW d \in Direction, AtEof(f, d),
                 pipe[f][IF d = "up" THEN "down" ELSE "up"].done
          PROVE  Whole(f)
      <3>1. ASSUME NEW e \in Direction
            PROVE  pipe[f][e].src = <<>> /\ pipe[f][e].hand = <<>> /\ pipe[f][e].fin
        <4>1. CASE e = d
          BY <2>1, <2>4, <4>1 DEF AtEof, Reading
        <4>2. CASE e # d
          <5>1. pipe[f][e].done
            BY <2>4, <4>2 DEF Direction
          <5> QED BY <2>1, <5>1 DEF HalfOK
        <4> QED BY <4>1, <4>2
      <3>2. \A e \in Direction : pipe[f][e].out = Sent(pipe[f][e])
        BY <3>1, Drained DEF Inv
      <3> QED BY <3>1, <3>2
    <2> QED BY <2>1, <2>2, <2>3, <2>4
  <1>2. A <=> \A f \in Flows :
        (/\ at[f] = "relay" /\ at'[f] = "ended"
         /\ \A s \in Side : ends[f][s] = "open")
        => \/ \A d \in Direction : pipe[f][d].fin /\ pipe[f][d].out = Sent(pipe[f][d])
           \/ kind[f] = "udp"
              /\ \E d \in Direction : Empty \in Elements(pipe[f][d].src)
    OBVIOUS
  <1> HIDE DEF A
  <1>3. FlowsSpec => [][A]_vars
    BY <1>1, FlowsInvariant, PTL DEF FlowsSpec
  <1> QED BY <1>2, <1>3, PTL DEF NothingCutShort
-----------------------------------------------------------------------------
(* Each flow is a tunnel.                                                   *)
TunnelStep(f) == [Relay(f)!TunnelNext]_(Relay(f)!tunnelVars)
TunnelSame(f) == UNCHANGED Relay(f)!tunnelVars

LEMMA QuietFlow ==
    ASSUME NEW f \in Flows, (at'[f] = "ended") = (at[f] = "ended"),
           \A d \in Direction : /\ Sent(pipe'[f][d]) = Sent(pipe[f][d])
                                /\ pipe'[f][d].out = pipe[f][d].out
    PROVE  TunnelSame(f)
  <1>1. [d \in Direction |-> Sent(pipe'[f][d])] = [d \in Direction |-> Sent(pipe[f][d])]
    OBVIOUS
  <1>2. [d \in Direction |-> pipe'[f][d].out] = [d \in Direction |-> pipe[f][d].out]
    OBVIOUS
  <1> QED BY <1>1, <1>2 DEF TunnelSame, Relay!tunnelVars, Sent

(* Sequences cut where a relay cuts them.                                   *)
LEMMA Regrouped ==
    ASSUME NEW S, NEW a \in Seq(S), NEW b \in Seq(S), NEW c \in Seq(S)
    PROVE  (a \o <<>>) \o (b \o c) = (a \o b) \o c
  <1>1. a \o <<>> = a
    BY ConcatEmptySeq
  <1>2. (a \o b) \o c = a \o (b \o c)
    BY ConcatAssociative
  <1> QED BY <1>1, <1>2

LEMMA ConcatAppend ==
    ASSUME NEW S, NEW a \in Seq(S), NEW b \in Seq(S), NEW e \in S
    PROVE  a \o Append(b, e) = Append(a \o b, e)
  <1>1. <<e>> \in Seq(S) /\ a \o b \in Seq(S)
    BY ConcatProperties
  <1>2. Append(b, e) = b \o <<e>> /\ Append(a \o b, e) = (a \o b) \o <<e>>
    BY <1>1, AppendIsConcat
  <1> QED BY <1>1, <1>2, ConcatAssociative

LEMMA LastIn ==
    ASSUME NEW S, NEW a \in Seq(S), NEW b \in Seq(S), NEW c \in Seq(S), NEW e \in S
    PROVE  (a \o b) \o Append(c, e) = Append((a \o b) \o c, e)
  <1>1. a \o b \in Seq(S)
    BY ConcatProperties
  <1>2. \A r \in Seq(S) : r \o Append(c, e) = Append(r \o c, e)
    BY ConcatAppend
  <1> QED BY <1>1, <1>2

LEMMA HeadMoved ==
    ASSUME NEW S, NEW a \in Seq(S), NEW c \in Seq(S), c # <<>>
    PROVE  (a \o <<Head(c)>>) \o Tail(c) = (a \o <<>>) \o c
  <1> DEFINE next == <<Head(c)>>
             rest == Tail(c)
  <1>1. next \in Seq(S) /\ rest \in Seq(S) /\ c = next \o rest
    OBVIOUS
  <1>2. a \o <<>> = a
    BY ConcatEmptySeq
  <1> HIDE DEF next, rest
  <1>3. (a \o next) \o rest = a \o (next \o rest)
    BY <1>1, ConcatAssociative
  <1> QED BY <1>1, <1>2, <1>3 DEF next, rest

LEMMA OldestOut ==
    ASSUME NEW S, NEW a \in Seq(S), NEW b \in Seq(S), Len(b) = 1, NEW c \in Seq(S)
    PROVE  /\ Len(a) < Len((a \o b) \o c)
           /\ a \o b = Append(a, ((a \o b) \o c)[Len(a) + 1])
  <1>1. Len(a) \in Nat /\ Len(c) \in Nat
    BY LenProperties
  <1>2. /\ a \o b \in Seq(S) /\ Len(a \o b) = Len(a) + Len(b)
        /\ \A i \in 1..(Len(a) + Len(b)) :
              (a \o b)[i] = IF i <= Len(a) THEN a[i] ELSE b[i - Len(a)]
    BY ConcatProperties
  <1>3. \A r \in Seq(S) :
            /\ Len(r \o c) = Len(r) + Len(c)
            /\ \A i \in 1..(Len(r) + Len(c)) : i <= Len(r) => (r \o c)[i] = r[i]
    BY ConcatProperties
  <1>4. \A m, k \in Nat : /\ m + 1 \in 1..(m + 1 + k) /\ m < m + 1 + k /\ ~(m + 1 <= m)
                          /\ m + 1 <= m + 1 /\ (m + 1) - m = 1 /\ m + 1 \in 1..(m + 1)
    OBVIOUS
  <1>5. Len(a \o b) = Len(a) + 1 /\ (a \o b)[Len(a) + 1] = b[1]
    <2> DEFINE n == Len(a) + 1
    <2>1. n \in 1..(Len(a) + Len(b)) /\ ~(n <= Len(a)) /\ n - Len(a) = 1
      BY <1>1, <1>4
    <2> HIDE DEF n
    <2>2. (a \o b)[n] = b[1]
      BY <1>2, <2>1
    <2> QED BY <1>2, <2>2 DEF n
  <1>6. /\ Len((a \o b) \o c) = Len(a) + 1 + Len(c)
        /\ ((a \o b) \o c)[Len(a) + 1] = b[1]
    <2> DEFINE r == a \o b
               n == Len(a) + 1
    <2>1. r \in Seq(S) /\ Len(r) = n /\ r[n] = b[1] /\ n \in 1..(n + Len(c)) /\ n <= n
      BY <1>1, <1>2, <1>4, <1>5
    <2> HIDE DEF r, n
    <2>2. Len(r \o c) = n + Len(c) /\ (r \o c)[n] = b[1]
      BY <1>3, <2>1
    <2> QED BY <2>2 DEF r, n
  <1>7. b = <<b[1]>> /\ b[1] \in S
    OBVIOUS
  <1>8. a \o b = Append(a, b[1])
    BY <1>7, AppendIsConcat
  <1> QED BY <1>1, <1>4, <1>6, <1>8

LEMMA DropCloses ==
    ASSUME Inv, NEW f \in Flows, Drops(f)
    PROVE  TunnelStep(f)
  <1>1. at[f] # "ended" /\ at'[f] = "ended"
    BY DropsAlone DEF Drops, Inv
  <1>2. ASSUME NEW d \in Direction
        PROVE  Sent(pipe'[f][d]) = Sent(pipe[f][d]) /\ pipe'[f][d].out = pipe[f][d].out
    <2> DEFINE p == pipe[f][d]
    <2>1. pipe'[f][d] = Left(p)
      BY DroppedPipe DEF Drops, Inv
    <2>2. /\ Left(p).src = p.hand \o p.src /\ Left(p).hand = <<>> /\ Left(p).out = p.out
          /\ p.out \in Seq(Item) /\ p.hand \in Seq(Item) /\ p.src \in Seq(Item)
      BY LeftTyped, PipeTyped DEF Inv
    <2>3. (p.out \o <<>>) \o (p.hand \o p.src) = (p.out \o p.hand) \o p.src
        <3> DEFINE a == p.out
                 b == p.hand
                 c == p.src
      <3>1. a \in Seq(Item) /\ b \in Seq(Item) /\ c \in Seq(Item)
        BY <2>2
      <3> HIDE DEF a, b, c
      <3>2. (a \o <<>>) \o (b \o c) = (a \o b) \o c
        BY <3>1, Regrouped
      <3> QED BY <3>2 DEF a, b, c
    <2> QED BY <2>1, <2>2, <2>3 DEF Sent
  <1>3. [d \in Direction |-> Sent(pipe'[f][d])] = [d \in Direction |-> Sent(pipe[f][d])]
    BY <1>2
  <1>4. [d \in Direction |-> pipe'[f][d].out] = [d \in Direction |-> pipe[f][d].out]
    BY <1>2
  <1>5. Relay(f)!Close
    BY <1>1, <1>3, <1>4 DEF Relay!Close, Sent
  <1> QED BY <1>1, <1>5 DEF TunnelStep, Relay!TunnelNext

(* One direction of a flow whose handler has not ended.                     *)
PipeMoves(f, d, p) ==
    /\ at' = at /\ at[f] # "ended"
    /\ pipe' = [pipe EXCEPT ![f] = [pipe[f] EXCEPT ![d] = p]]

LEMMA PipeMoved ==
    ASSUME TypesOK, NEW f \in Flows, NEW d \in Direction, NEW p, PipeMoves(f, d, p)
    PROVE  /\ at'[f] = at[f] /\ at[f] # "ended"
           /\ pipe'[f][d] = p /\ \A e \in Direction \ {d} : pipe'[f][e] = pipe[f][e]
           /\ \A g \in Flows \ {f} : pipe'[g] = pipe[g] /\ at'[g] = at[g]
  BY DEF TypesOK, PipeMoves

LEMMA OthersQuiet ==
    ASSUME TypesOK, NEW f \in Flows, NEW d \in Direction, NEW p, PipeMoves(f, d, p),
           NEW g \in Flows \ {f}
    PROVE  TunnelSame(g)
  BY PipeMoved, QuietFlow

(* The source takes an item: the tunnel accepts it.                         *)
LEMMA SendAccepts ==
    ASSUME Inv, NEW f \in Flows, NEW d \in Direction, NEW p, PipeMoves(f, d, p),
           NEW i \in Item, p.src = Append(pipe[f][d].src, i),
           p.hand = pipe[f][d].hand, p.out = pipe[f][d].out
    PROVE  TunnelStep(f)
  <1> DEFINE q == pipe[f][d]
  <1>1. q.out \in Seq(Item) /\ q.hand \in Seq(Item) /\ q.src \in Seq(Item)
    BY PipeTyped DEF Inv
  <1>2. (q.out \o q.hand) \o Append(q.src, i) = Append((q.out \o q.hand) \o q.src, i)
    <2> DEFINE a == q.out
               b == q.hand
               c == q.src
    <2>1. a \in Seq(Item) /\ b \in Seq(Item) /\ c \in Seq(Item)
      BY <1>1
    <2> HIDE DEF a, b, c
    <2>2. (a \o b) \o Append(c, i) = Append((a \o b) \o c, i)
      BY <2>1, LastIn
    <2> QED BY <2>2 DEF a, b, c
  <1>5. Sent(p) = Append(Sent(q), i)
    BY <1>2 DEF Sent
  <1>6. /\ at'[f] = at[f] /\ at[f] # "ended" /\ pipe'[f][d] = p
        /\ \A e \in Direction \ {d} : pipe'[f][e] = pipe[f][e]
    BY PipeMoved DEF Inv
  <1> DEFINE acc == [e \in Direction |-> Sent(pipe[f][e])]
  <1>7. [e \in Direction |-> Sent(pipe'[f][e])] = [acc EXCEPT ![d] = Append(@, i)]
    <2>1. \A e \in Direction :
            Sent(pipe'[f][e]) = IF e = d THEN Append(Sent(pipe[f][e]), i) ELSE Sent(pipe[f][e])
      BY <1>5, <1>6
    <2> QED BY <2>1
  <1>8. [e \in Direction |-> pipe'[f][e].out] = [e \in Direction |-> pipe[f][e].out]
    BY <1>6
  <1>9. Relay(f)!Accept(d, i)
    BY <1>6, <1>7, <1>8 DEF Relay!Accept, Sent
  <1> QED BY <1>6, <1>9 DEF TunnelStep, Relay!TunnelNext, Relay!Direction, Direction

(* The sink takes what is in the relay's hand, the oldest item inside.      *)
LEMMA WriteDelivers ==
    ASSUME Inv, NEW f \in Flows, NEW d \in Direction, NEW p, PipeMoves(f, d, p),
           pipe[f][d].hand # <<>>, p.src = pipe[f][d].src, p.hand = <<>>,
           p.out = pipe[f][d].out \o pipe[f][d].hand
    PROVE  TunnelStep(f)
  <1> DEFINE q == pipe[f][d]
  <1>1. q.out \in Seq(Item) /\ q.hand \in Seq(Item) /\ q.src \in Seq(Item)
    BY PipeTyped DEF Inv
  <1>2. q.out \o q.hand \in Seq(Item) /\ (q.out \o q.hand) \o <<>> = q.out \o q.hand
    BY <1>1, ConcatProperties, ConcatEmptySeq
  <1>3. Sent(p) = Sent(q)
    BY <1>2 DEF Sent
  <1>4. Len(q.hand) = 1
    <2>1. Len(q.hand) <= 1
      BY DEF Inv, FlowsOK, FlowOK, HalfOK
    <2>2. Len(q.hand) \in Nat \ {0}
      BY <1>1, EmptySeq
    <2>3. \A n \in Nat \ {0} : n <= 1 => n = 1
      OBVIOUS
    <2> QED BY <2>1, <2>2, <2>3
  <1>5. /\ Len(q.out) < Len(Sent(q))
        /\ q.out \o q.hand = Append(q.out, Sent(q)[Len(q.out) + 1])
    BY <1>1, <1>4, OldestOut DEF Sent
  <1>7. /\ at'[f] = at[f] /\ at[f] # "ended" /\ pipe'[f][d] = p
        /\ \A e \in Direction \ {d} : pipe'[f][e] = pipe[f][e]
    BY PipeMoved DEF Inv
  <1> DEFINE acc == [e \in Direction |-> Sent(pipe[f][e])]
             del == [e \in Direction |-> pipe[f][e].out]
  <1>8. [e \in Direction |-> Sent(pipe'[f][e])] = acc
    BY <1>3, <1>7
  <1>9. [e \in Direction |-> pipe'[f][e].out] = [del EXCEPT ![d] = Append(@, acc[d][Len(@) + 1])]
    <2>1. \A e \in Direction : pipe'[f][e].out =
            IF e = d THEN Append(pipe[f][e].out, Sent(pipe[f][e])[Len(pipe[f][e].out) + 1])
                     ELSE pipe[f][e].out
      BY <1>5, <1>7
    <2> QED BY <2>1
  <1>10. Relay(f)!Deliver(d)
    BY <1>5, <1>7, <1>8, <1>9 DEF Relay!Deliver, Sent
  <1> QED BY <1>7, <1>10 DEF TunnelStep, Relay!TunnelNext, Relay!Direction, Direction
LEMMA ReadKeeps ==
    ASSUME Inv, NEW f \in Flows, NEW d \in Direction, Read(f, d)
    PROVE  \A g \in Flows : TunnelSame(g)
  <1> DEFINE q == pipe[f][d]
             next == <<Head(q.src)>>
             p == [q EXCEPT !.src = Tail(q.src), !.hand = next]
  <1>1. PipeMoves(f, d, p) /\ q.src # <<>> /\ q.hand = <<>>
    BY DEF Read, Reading, PipeMoves
  <1>2. /\ q \in Half /\ q.src \in Seq(Item) /\ q.out \in Seq(Item)
        /\ Tail(q.src) \in Seq(Item) /\ next \in Seq(Item)
    <2>1. q \in Half /\ q.src \in Seq(Item) /\ q.out \in Seq(Item)
      BY PipeTyped DEF Inv
    <2>2. Tail(q.src) \in Seq(Item) /\ Head(q.src) \in Item
      BY <1>1, <2>1, HeadTailProperties
    <2> QED BY <2>1, <2>2
  <1>3. p.src = Tail(q.src) /\ p.hand = next /\ p.out = q.out
    <2> HIDE DEF q, next
    <2> QED BY <1>2 DEF Half
  <1> HIDE DEF p
  <1>4. Sent(p) = Sent(q)
    <2>1. (q.out \o next) \o Tail(q.src) = (q.out \o <<>>) \o q.src
      BY <1>1, <1>2, HeadMoved
    <2> QED BY <1>1, <1>3, <2>1 DEF Sent
  <1>5. ASSUME NEW e \in Direction
        PROVE  Sent(pipe'[f][e]) = Sent(pipe[f][e]) /\ pipe'[f][e].out = pipe[f][e].out
    BY <1>1, <1>3, <1>4, PipeMoved DEF Inv
  <1>6. at'[f] = at[f]
    BY <1>1 DEF PipeMoves
  <1>7. TunnelSame(f)
    BY <1>5, <1>6, QuietFlow
  <1> QED BY <1>1, <1>7, OthersQuiet DEF Inv

(* An end of stream is no step of the tunnel.                               *)
LEMMA FlagKeeps ==
    ASSUME Inv, NEW f \in Flows, NEW d \in Direction, NEW p, PipeMoves(f, d, p),
           p.src = pipe[f][d].src, p.hand = pipe[f][d].hand, p.out = pipe[f][d].out
    PROVE  \A g \in Flows : TunnelSame(g)
  <1>1. ASSUME NEW e \in Direction
        PROVE  Sent(pipe'[f][e]) = Sent(pipe[f][e]) /\ pipe'[f][e].out = pipe[f][e].out
    <2>1. Sent(p) = Sent(pipe[f][d])
      BY DEF Sent
    <2>2. pipe'[f][d] = p /\ \A k \in Direction \ {d} : pipe'[f][k] = pipe[f][k]
      BY PipeMoved DEF Inv
    <2> QED BY <2>1, <2>2
  <1>2. at'[f] = at[f]
    BY DEF PipeMoves
  <1>3. TunnelSame(f)
    BY <1>1, <1>2, QuietFlow
  <1> QED BY <1>3, OthersQuiet DEF Inv

LEMMA DropSteps ==
    ASSUME Inv, NEW f \in Flows, Drops(f), NEW g \in Flows
    PROVE  TunnelStep(g)
  <1>1. CASE g = f
    BY <1>1, DropCloses
  <1>2. CASE g # f
    <2>1. TunnelSame(g)
      BY <1>2, DropsAlone, QuietFlow DEF Inv
    <2> QED BY <2>1 DEF TunnelStep, TunnelSame
  <1> QED BY <1>1, <1>2

LEMMA QuietStep ==
    ASSUME TypesOK, pipe' = pipe, NEW f \in Flows, NEW w \in Step \ {"ended"},
           at[f] # "ended", at' = [at EXCEPT ![f] = w], NEW g \in Flows
    PROVE  TunnelSame(g)
  <1>1. (at'[g] = "ended") = (at[g] = "ended")
    <2>1. CASE g = f
      BY <2>1 DEF TypesOK
    <2>2. CASE g # f
      BY <2>2 DEF TypesOK
    <2> QED BY <2>1, <2>2
  <1> QED BY <1>1, QuietFlow
LEMMA WorldSteps ==
    ASSUME Inv, NEW f \in Flows, World(f), NEW g \in Flows
    PROVE  TunnelStep(g)
  <1>1. CASE Arrive(f) \/ \E s \in Side : EndOver(f, s)
    <2>1. pipe' = pipe /\ at' = at
      BY <1>1 DEF Arrive, EndOver
    <2> QED BY <2>1, QuietFlow DEF TunnelStep, TunnelSame
  <1>2. ASSUME NEW d \in Direction, Send(f, d) PROVE TunnelStep(g)
    <2> DEFINE q == pipe[f][d]
    <2>1. PICK i \in {Empty, Len(Sent(q)) + 1} : pipe' = [pipe EXCEPT ![f][d].src = Append(@, i)]
      BY <1>2 DEF Send
    <2> DEFINE p == [q EXCEPT !.src = Append(q.src, i)]
    <2>2. at[f] # "ended"
      BY <1>2 DEF Send, CanSend, Inv, FlowsOK, FlowOK, EndsOK, Source, Side
    <2>3. PipeMoves(f, d, p)
      BY <1>2, <2>1, <2>2 DEF Send, PipeMoves
    <2>4. p.src = Append(q.src, i) /\ p.hand = q.hand /\ p.out = q.out
      <3>1. q \in Half
        BY PipeTyped DEF Inv
      <3> HIDE DEF q
      <3> QED BY <3>1 DEF Half
    <2>5. i \in Item
      <3>1. Len(Sent(q)) \in Nat
        BY PipeTyped, LenProperties DEF Inv
      <3>2. MaxItems[f][d] \in Nat /\ Len(Sent(q)) < MaxItems[f][d]
        BY <1>2, FlowsAssumption DEF Direction, Send
      <3>3. i \in Empty..MaxItems[f][d]
        BY <3>1, <3>2 DEF Empty
      <3> HIDE DEF q
      <3> QED BY <3>3 DEF Item
    <2> HIDE DEF p
    <2>6. CASE g = f
      BY <2>3, <2>4, <2>5, <2>6, SendAccepts
    <2>7. CASE g # f
      BY <2>3, <2>7, OthersQuiet DEF Inv, TunnelStep, TunnelSame
    <2> QED BY <2>6, <2>7
  <1>3. ASSUME NEW d \in Direction, Finish(f, d) PROVE TunnelStep(g)
    <2> DEFINE q == pipe[f][d]
               p == [q EXCEPT !.fin = TRUE]
    <2>1. at[f] # "ended"
      BY <1>3 DEF Finish, CanSend, Inv, FlowsOK, FlowOK, EndsOK, Source, Side
    <2>2. PipeMoves(f, d, p)
      BY <1>3, <2>1 DEF Finish, PipeMoves
    <2>3. p.src = q.src /\ p.hand = q.hand /\ p.out = q.out
      <3>1. q \in Half
        BY PipeTyped DEF Inv
      <3> HIDE DEF q
      <3> QED BY <3>1 DEF Half
    <2> HIDE DEF p
    <2> QED BY <2>2, <2>3, FlagKeeps DEF TunnelStep, TunnelSame
  <1> QED BY <1>1, <1>2, <1>3 DEF World

LEMMA MoveSteps ==
    ASSUME Inv, NEW f \in Flows, NEW d \in Direction, Move(f, d), NEW g \in Flows
    PROVE  TunnelStep(g)
  <1> DEFINE q == pipe[f][d]
  <1>1. CASE Read(f, d)
    BY <1>1, ReadKeeps DEF TunnelStep, TunnelSame
  <1>2. CASE Write(f, d)
    <2> DEFINE none == <<>>
               p == [q EXCEPT !.hand = none, !.out = q.out \o q.hand]
    <2>1. PipeMoves(f, d, p) /\ q.hand # <<>>
      BY <1>2 DEF Write, Writing, PipeMoves
    <2>2. p.src = q.src /\ p.hand = none /\ p.out = q.out \o q.hand
      <3>1. q \in Half
        BY PipeTyped DEF Inv
      <3> DEFINE out == q.out \o q.hand
      <3> HIDE DEF q, none, out
      <3> QED BY <3>1 DEF Half
    <2> HIDE DEF p
    <2>3. CASE g = f
      BY <2>1, <2>2, <2>3, WriteDelivers
    <2>4. CASE g # f
      BY <2>1, <2>4, OthersQuiet DEF Inv, TunnelStep, TunnelSame
    <2> QED BY <2>3, <2>4
  <1>3. CASE HalfClose(f, d)
    <2>1. at[f] = "relay"
      BY <1>3 DEF HalfClose, AtEof, Reading
    <2>2. CASE Dropped(f)
      BY <2>1, <2>2, DropSteps DEF Drops
    <2>3. CASE pipe' = [pipe EXCEPT ![f][d].done = TRUE] /\ UNCHANGED <<session, at, ends, binding>>
      <3> DEFINE p == [q EXCEPT !.done = TRUE]
      <3>1. PipeMoves(f, d, p)
        BY <2>1, <2>3 DEF PipeMoves
      <3>2. p.src = q.src /\ p.hand = q.hand /\ p.out = q.out
        <4>1. q \in Half
          BY PipeTyped DEF Inv
        <4> HIDE DEF q
        <4> QED BY <4>1 DEF Half
      <3> HIDE DEF p
      <3> QED BY <3>1, <3>2, FlagKeeps DEF TunnelStep, TunnelSame
    <2> QED BY <1>3, <2>2, <2>3 DEF HalfClose
  <1> QED BY <1>1, <1>2, <1>3 DEF Move

LEMMA HandlerTunnel ==
    ASSUME Inv, NEW f \in Flows, Handler(f), NEW g \in Flows
    PROVE  TunnelStep(g)
  <1>1. CASE Drops(f)
    BY <1>1, DropSteps
  <1>2. CASE OpenSocket(f) \/ LookupFails(f) \/ Bind(f) \/ BindFails(f) \/ Dial(f)
    <2>1. /\ pipe' = pipe /\ at[f] # "ended"
          /\ \E w \in Step \ {"ended"} : at' = [at EXCEPT ![f] = w]
      BY <1>2 DEF OpenSocket, LookupFails, Bind, BindFails, Dial, Step
    <2> QED BY <2>1, QuietStep DEF Inv, TunnelStep, TunnelSame
  <1>3. ASSUME NEW d \in Direction, Move(f, d) PROVE TunnelStep(g)
    BY <1>3, MoveSteps
  <1> QED BY <1>1, <1>2, <1>3, HandlerSteps DEF Return, RelayFails, EmptyDatagram, Drops

LEMMA AnyStep ==
    ASSUME Inv, [FlowsNext]_vars, NEW g \in Flows
    PROVE  TunnelStep(g)
  <1>1. CASE UNCHANGED vars
    <2>1. pipe' = pipe /\ at' = at
      BY <1>1 DEF vars
    <2> QED BY <2>1, QuietFlow DEF TunnelStep, TunnelSame
  <1>2. CASE LeaveBridge \/ CellularChanges
    <2>1. pipe' = pipe /\ at' = at
      BY <1>2 DEF LeaveBridge, CellularChanges
    <2> QED BY <2>1, QuietFlow DEF TunnelStep, TunnelSame
  <1>3. CASE Accept
    <2>1. waiting # <<>> /\ waiting \in Seq(Flows)
      BY <1>3 DEF Accept, Inv, TypesOK
    <2>2. PICK f \in Flows : f = Head(waiting)
      BY <2>1, HeadTailProperties
    <2>3. f = waiting[1] /\ 1 \in 1..Len(waiting)
      BY <2>1, <2>2, HeadTailProperties, LenProperties, EmptySeq
    <2>4. at[f] # "ended" /\ "new" \in Step \ {"ended"}
      BY <2>3 DEF Inv, QueueOK, Step
    <2>5. pipe' = pipe /\ at' = [at EXCEPT ![f] = "new"]
      BY <1>3, <2>2 DEF Accept
    <2> QED BY <2>4, <2>5, QuietStep DEF Inv, TunnelStep, TunnelSame
  <1> QED BY <1>1, <1>2, <1>3, WorldSteps, HandlerTunnel DEF FlowsNext

(* Each flow's relay implements the tunnel: whatever the other flows, the   *)
(* sockets and the ends do, each direction delivers what its source sent,   *)
(* in order and once, up to what the handler's return drops (flow.rs 57-70, *)
(* 96-123).                                                                 *)
THEOREM FlowsImplementTunnels == FlowsSpec => FlowsAreTunnels
  <1> DEFINE I == \A f \in Flows : Relay(f)!TunnelInit
             A == \A f \in Flows : TunnelStep(f)
  <1>1. FlowsInit => I
    <2> SUFFICES ASSUME FlowsInit, NEW f \in Flows PROVE Relay(f)!TunnelInit
      OBVIOUS
    <2>1. \A d \in Direction : /\ pipe[f][d].out = <<>> /\ pipe[f][d].hand = <<>>
                               /\ pipe[f][d].src = <<>>
      BY DEF FlowsInit, Idle
    <2>2. \A d \in Direction : Sent(pipe[f][d]) = <<>>
      BY <2>1 DEF Sent
    <2>3. at[f] # "ended"
      BY DEF FlowsInit
    <2> QED BY <2>1, <2>2, <2>3 DEF Relay!TunnelInit, Relay!Direction, Direction, Sent
  <1>2. Inv /\ [FlowsNext]_vars => A
    BY AnyStep
  <1>3. A <=> \A f \in Flows : [Relay(f)!TunnelNext]_(Relay(f)!tunnelVars)
    BY DEF TunnelStep
  <1> HIDE DEF I, A
  <1>4. FlowsSpec => I /\ [][A]_vars
    BY <1>1, <1>2, FlowsInvariant, PTL DEF FlowsSpec
  <1>5. FlowsSpec => I /\ [][\A f \in Flows : [Relay(f)!TunnelNext]_(Relay(f)!tunnelVars)]_vars
    BY <1>3, <1>4, PTL
  <1> QED BY <1>5 DEF I, FlowsAreTunnels
=============================================================================
