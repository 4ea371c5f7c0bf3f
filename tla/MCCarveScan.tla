---------------------------- MODULE MCCarveScan ----------------------------
(* CarveScan over every parent of a small family and every pair of          *)
(* allocated prefixes, nested and equal ones included.                      *)
EXTENDS CarveScan

MCAllocatedSets == {{p, q} : p, q \in Prefixes} \cup {{}}
=============================================================================
