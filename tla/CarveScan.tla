----------------------------- MODULE CarveScan -----------------------------
(***************************************************************************)
(* The carver's scan loop, one iteration per step.                         *)
(*                                                                         *)
(* ipam/carve.go findFreePrefixesInSupernet walks the candidates of a      *)
(* parent in address order and collects up to `limit` free ones;           *)
(* lir/carve.go findFirstFreePrefix is the same loop that returns at the   *)
(* first one (limit = 1).  A candidate is named by its index.              *)
(*                                                                         *)
(* Both loops also stop at a candidate that needs more bytes than the      *)
(* parent's address has.  StaysInFamily shows that this never happens, so  *)
(* the guard has no action here.                                           *)
(***************************************************************************)
EXTENDS Cidr, Sequences

CONSTANTS AllocatedSets,    \* what a caller may pass as allocated
          Sizes,            \* requested prefix lengths
          Limits            \* limit_per_supernet; 1 for the LIR

ASSUME AllocatedSetsAssumption == AllocatedSets \subseteq SUBSET Prefixes
ASSUME SizesAssumption == Sizes \subseteq Int
ASSUME LimitsAssumption == Limits \subseteq Nat \ {0}

VARIABLES parent, size, allocated, limit,   \* the arguments
          idx,                              \* the loop counter
          out,                              \* the collected candidates
          pc                                \* "scan" or "done"

args == <<parent, size, allocated, limit>>
scanVars == <<parent, size, allocated, limit, idx, out, pc>>

ScanInit ==
    /\ parent \in Prefixes
    /\ size \in Sizes
    /\ allocated \in AllocatedSets
    /\ limit \in Limits
    /\ idx = 0
    /\ out = <<>>
    /\ pc = IF SizeOk(parent, size) THEN "scan" ELSE "done"

\* The loop's condition fails: every candidate has been looked at.
Exhausted ==
    /\ pc = "scan"
    /\ idx >= maxCount(parent, size)
    /\ pc' = "done"
    /\ UNCHANGED <<args, idx, out>>

Skip_TwoAtOnce ==
    /\ pc = "scan"
    /\ idx < maxCount(parent, size)
    /\ ~IsFree(Candidate(parent, size, idx), allocated)
    /\ idx' = idx + 2
    /\ UNCHANGED <<args, out, pc>>

Skip_NoAdvance ==
    /\ pc = "scan"
    /\ idx < maxCount(parent, size)
    /\ ~IsFree(Candidate(parent, size, idx), allocated)
    /\ UNCHANGED scanVars

\* The candidate overlaps an allocated prefix.
Skip ==
    /\ pc = "scan"
    /\ idx < maxCount(parent, size)
    /\ ~IsFree(Candidate(parent, size, idx), allocated)
    /\ idx' = idx + 1
    /\ UNCHANGED <<args, out, pc>>

\* The candidate is free: keep it, and stop once limit are found.
Take ==
    /\ pc = "scan"
    /\ idx < maxCount(parent, size)
    /\ IsFree(Candidate(parent, size, idx), allocated)
    /\ out' = Append(out, idx)
    /\ IF Len(out') >= limit
       THEN pc' = "done" /\ UNCHANGED idx
       ELSE idx' = idx + 1 /\ UNCHANGED pc
    /\ UNCHANGED args

ScanNext == Exhausted \/ Skip \/ Take

ScanSpec == ScanInit /\ [][ScanNext]_scanVars /\ WF_scanVars(ScanNext)

-----------------------------------------------------------------------------
\* Whether a candidate shares an address with what is allocated, by the sets of
\* addresses and not by the containment test of the code.
TrulyFree(i) ==
    \A o \in allocated : Addresses(Candidate(parent, size, i)) \cap Addresses(o) = {}

\* carve.go: the result is the lowest-numbered free sub-prefixes, in address
\* order, as many as there are but at most limit; nil for an unusable size.
\* "Free" is judged by address sets, so the containment test is checked too.
FirstFit ==
    pc = "done" =>
        LET free == IF SizeOk(parent, size)
                    THEN {i \in 0 .. (Min({ScanCap, 2^(size - parent.bits)}) - 1) : TrulyFree(i)}
                    ELSE {}
        IN  /\ {out[k] : k \in DOMAIN out} \subseteq free
            /\ \A k \in 2 .. Len(out) : out[k - 1] < out[k]
            /\ Len(out) = Min({limit, Cardinality(free)})
            /\ \A k \in DOMAIN out, i \in free :
                    i < out[k] => \E j \in DOMAIN out : out[j] = i

\* Every candidate the loop looks at lies inside the parent, so its address
\* never outgrows the family and the `len(b) > byteLen` exit is dead code.
StaysInFamily ==
    (pc = "scan" /\ idx < maxCount(parent, size)) =>
        /\ parent.addr + idx * Span(size) < 2^AddrBits
        /\ Addresses(Candidate(parent, size, idx)) \subseteq Addresses(parent)

\* With limit 1 the loop computes the operator the LIR registry is modelled with.
ComputesFirstFree ==
    (pc = "done" /\ limit = 1) =>
        findFirstFreePrefix(parent, size, allocated) =
            IF out = <<>> THEN NONE ELSE Candidate(parent, size, out[1])

\* The scan ends.
Terminates == <>(pc = "done")
=============================================================================
