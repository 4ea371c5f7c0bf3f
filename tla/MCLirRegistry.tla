--------------------------- MODULE MCLirRegistry ---------------------------
(* An instance of the LIR registry for TLC. *)
EXTENDS LirLedger, TLC

CONSTANTS p1, p2, s1, s2, r1, r2, n1

MCPools == {p1, p2}
MCSupernets == {s1, s2}
MCRequests == {r1, r2}
MCNics == {n1}

\* Two halves of a four-address space.
MCPrefix == s1 :> [addr |-> 0, bits |-> 1] @@ s2 :> [addr |-> 2, bits |-> 1]
MCFamily == s1 :> 4 @@ s2 :> 4
MCSettings == {[fam |-> 4, min |-> 0, max |-> 2, enabled |-> TRUE, handle |-> "null"]}

SymRequests == Permutations(MCRequests)
=============================================================================
