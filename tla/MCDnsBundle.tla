----------------------------- MODULE MCDnsBundle -----------------------------
(* DnsBundle on an apex and one child zone with two keys to rotate between. *)
EXTENDS DnsBundle
=============================================================================
