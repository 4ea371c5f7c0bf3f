---------------------------- MODULE MCDnssecKeys ----------------------------
(* Instances of DnssecKeys for TLC. *)
EXTENDS DnssecKeys, TLC

CONSTANTS c1, c2, cron

MCCallers == {c1, c2}
MCCrons == {cron}

SymCallers == Permutations(MCCallers)
=============================================================================
