-------------------------- MODULE MCIpamProjection --------------------------
(* IpamProjection on a handful of addresses, all of them in one /24. *)
EXTENDS IpamProjection

CONSTANTS net1, n1, m1, m2

MCNetOf == [a \in Addresses |-> net1]

\* An address changes hands: the one client has a name, the other has none, and the
\* operator reserves the address for the first, with the name or without.
MCLeases == {[mac |-> m1, name |-> n1], [mac |-> m2, name |-> NONE]}
MCReservations == {[mac |-> m1, name |-> n1], [mac |-> m1, name |-> NONE]}
MCAnyLease == [mac : Macs, name : Names \cup {NONE}]
=============================================================================
