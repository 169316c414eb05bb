------------------------------- MODULE FlowsMC -------------------------------
(* Two flows for TLC: one that carries data, of either kind, and one of any *)
(* kind that only takes its place in the queue and holds its socket.        *)
EXTENDS Flows

MCFlows == 1..2
MCKinds == <<{"tcp", "udp"}, {"ping"}>>
MCItems == <<[up |-> 2, down |-> 1], [up |-> 0, down |-> 0]>>
=============================================================================
