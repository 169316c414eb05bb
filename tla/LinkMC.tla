------------------------------- MODULE LinkMC -------------------------------
(* Link with one-unit frames: an empty packet, one that fits and one that   *)
(* does not.                                                                *)
EXTENDS Link
AllLinkFaults == {"cut", "ringfull", "corestop"}
Sizes == {0, 1, 2}
=============================================================================
