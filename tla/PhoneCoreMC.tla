---------------------------- MODULE PhoneCoreMC ----------------------------
(* PhoneCore with every fault. *)
EXTENDS PhoneCore
AllCoreFaults == {"runtime", "port", "slow"}
=============================================================================
