--------------------------- MODULE MCAlertEngine ---------------------------
(* Instances of AlertEngine for TLC. *)
EXTENDS AlertEngine

CONSTANTS r1, a1, k1, d1, d2

MCRules == {r1}
MCAssets == {a1}
MCCollectors == {k1}
MCDrains == {d1, d2}
=============================================================================
