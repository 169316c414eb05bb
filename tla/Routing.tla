------------------------------ MODULE Routing ------------------------------
(***************************************************************************)
(* The IPv4 forwarding table the desktop bridge edits (routing.rs), with   *)
(* the operating system's longest-prefix match.  An address is an opaque   *)
(* value; a destination prefix is one of the five the program meets: the   *)
(* phone's /32 carve-out, the on-link LAN, the two halves of the address   *)
(* space, and the system default.                                          *)
(***************************************************************************)
EXTENDS Integers, FiniteSets

CONSTANTS
    Adapters,  \* LUIDs of Wintun adapters
    Addr,      \* IPv4 destinations
    Phone,     \* the phone's address on the Wi-Fi network
    Lan,       \* the on-link subnet of the physical interface
    LowHalf    \* the addresses of 0.0.0.0/1

ASSUME AddressAssumption ==
    /\ Phone \in Addr
    /\ Lan \subseteq Addr
    /\ LowHalf \subseteq Addr
    /\ "phys" \notin Adapters

Dest == {"phone", "lan", "lo", "hi", "all"}
Interface == Adapters \cup {"phys"}
Row == [dest : Dest, via : Interface]

(* The addresses a destination prefix matches, and its length. *)
Net == [d \in Dest |-> CASE d = "phone" -> {Phone}
                         [] d = "lan"   -> Lan
                         [] d = "lo"    -> LowHalf
                         [] d = "hi"    -> Addr \ LowHalf
                         [] d = "all"   -> Addr]

Length == [d \in Dest |-> CASE d = "phone" -> 32
                            [] d = "lan"   -> 24
                            [] d = "all"   -> 0
                            [] OTHER       -> 1]

(* What the table holds when RickyNet has added nothing. *)
BaseTable == {[dest |-> "all", via |-> "phys"], [dest |-> "lan", via |-> "phys"]}

(* The interfaces the longest matching rows of T send address a to. *)
Matching(T, a) == {r \in T : a \in Net[r.dest]}
Longest(M) == {r \in M : \A o \in M : Length[o.dest] <= Length[r.dest]}
Via(T, a) == {r.via : r \in Longest(Matching(T, a))}

(* The rows Routes::install creates, in the order of its vector.           *)
OnLinkRow(d, a) == [dest |-> d, via |-> a]
CarveRow(hop) == [dest |-> "phone", via |-> hop]
SplitDefault(a) == {OnLinkRow("lo", a), OnLinkRow("hi", a)}
InstallRank == [d \in Dest |-> CASE d = "phone" -> 1
                                 [] d = "lo"    -> 2
                                 [] OTHER       -> 3]

(* The row Routes::remove deletes next: insertion order. *)
NextToRemove(R) ==
    {r \in R : \A o \in R : InstallRank[r.dest] <= InstallRank[o.dest]}
=============================================================================
