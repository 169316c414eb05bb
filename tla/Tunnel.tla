------------------------------- MODULE Tunnel -------------------------------
(***************************************************************************)
(* What one session of the bridge promises: two independent pipes, "up"    *)
(* from Windows to the phone's network stack and "down" the other way.     *)
(* Each delivers the packets it accepted, whole, in order, once each, and  *)
(* loses at most those still inside when the session closes.               *)
(***************************************************************************)
EXTENDS Sequences, Naturals

CONSTANT Packets

VARIABLES
    accepted,   \* packets each pipe has taken in
    delivered,  \* packets each pipe has put out
    closed      \* the session is over

Direction == {"up", "down"}
tunnelVars == <<accepted, delivered, closed>>

TunnelInit ==
    /\ accepted = [d \in Direction |-> <<>>]
    /\ delivered = [d \in Direction |-> <<>>]
    /\ closed = FALSE

Accept(d, p) ==
    /\ accepted' = [accepted EXCEPT ![d] = Append(@, p)]
    /\ UNCHANGED <<delivered, closed>>

(* The oldest packet that is still inside comes out, unchanged. *)
Deliver(d) ==
    /\ Len(delivered[d]) < Len(accepted[d])
    /\ delivered' = [delivered EXCEPT
                       ![d] = Append(@, accepted[d][Len(@) + 1])]
    /\ UNCHANGED <<accepted, closed>>

Close == closed' = TRUE /\ UNCHANGED <<accepted, delivered>>

TunnelNext ==
    /\ ~closed
    /\ \/ \E d \in Direction, p \in Packets : Accept(d, p)
       \/ \E d \in Direction : Deliver(d)
       \/ Close

TunnelSpec == TunnelInit /\ [][TunnelNext]_tunnelVars
=============================================================================
