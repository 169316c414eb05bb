----------------------------- MODULE DesktopMC -----------------------------
(* Desktop with the address space TLC uses: the phone, a LAN neighbour and  *)
(* one far host in each half.  The phone is on the LAN (LanOnLink) or       *)
(* behind a router.  Workers are interchangeable, and so are adapters.      *)
EXTENDS Desktop, TLC

AddrSet == {"phone", "neighbour", "lowhost", "highhost"}
LowSet == {"lowhost"}
LanOffLink == {"neighbour"}
LanOnLink == {"neighbour", "phone"}
EveryFault == AllFaults
Symmetry == Permutations(Workers) \cup Permutations(Adapters)
=============================================================================
