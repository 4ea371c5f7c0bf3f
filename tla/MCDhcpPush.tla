----------------------------- MODULE MCDhcpPush -----------------------------
(* Instances of DhcpPush for TLC. *)
EXTENDS DhcpPush, TLC

CONSTANTS c1, c2

MCScopes == {1, 2}
MCFamily == [s \in MCScopes |-> 4]
MCCalls == {c1, c2}
MCNewScopes == {[text |-> "linked", enabled |-> TRUE]}
MCEditedScopes == {[text |-> "stored", enabled |-> FALSE]}
SymCalls == Permutations(MCCalls)
=============================================================================
