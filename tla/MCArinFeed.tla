----------------------------- MODULE MCArinFeed -----------------------------
(* Instances of ArinFeed for TLC. *)
EXTENDS ArinFeed, TLC

CONSTANTS p1, s1, r1, r2, n1, w1, w2

MCPools == {p1}
MCSupernets == {s1}
MCNics == {n1}
MCRequests1 == {r1}
MCRequests2 == {r1, r2}
MCWorkers1 == {w1}
MCWorkers2 == {w1, w2}

MCPrefix == s1 :> [addr |-> 0, bits |-> 0]
MCFamily == s1 :> 4
\* A pool that is fed to ARIN, and the same pool after its handle was cleared.
MCSet == {[fam |-> 4, min |-> 1, max |-> 1, enabled |-> TRUE, handle |-> "set"]}
MCSetOrCleared == {[fam |-> 4, min |-> 1, max |-> 1, enabled |-> TRUE, handle |-> h] :
                        h \in {"set", "null"}}

SymWorkers == Permutations(MCWorkers2)

\* Where the liveness run starts: a pool in use, and every request approved and
\* queued for ARIN.  A state of the specification, reached by createPool, attach,
\* submit and approve.
MCSettled ==
    /\ pools = [p \in Pools |-> Row(CHOOSE c \in PoolSettings : TRUE)]
    /\ source = [s \in Supernets |-> p1]
    /\ requests = [r \in Requests |-> [status |-> "approved", fam |-> 4, len |-> 1,
                                       pool |-> p1, approved |-> p1]]
    /\ allocs = [r \in Requests |->
            [status |-> "active", pool |-> p1, sn |-> s1,
             prefix |-> [addr |-> IF r = r1 THEN 0 ELSE 1, bits |-> 1],
             arin |-> "pending", net |-> FALSE, attempts |-> 0, due |-> TRUE,
             err |-> "none"]]
    /\ sess = [n \in Nics |-> Idle]
    /\ workers = [w \in Workers |-> Resting]
    /\ upstream = {}
    /\ arinOn = TRUE
    /\ crashes = 0

MCFairSpec == MCSettled /\ [][FeedNext]_allVars /\ FeedFairness
=============================================================================
