-------------------------------- MODULE Cidr --------------------------------
(***************************************************************************)
(* CIDR arithmetic shared by the IPAM and LIR carvers                      *)
(* (packages/otter-go/internal/{ipam,lir}/carve.go).                       *)
(*                                                                         *)
(* One address family is modelled: both carvers first drop the occupied    *)
(* prefixes of the other family, and a pool, its source supernets and its  *)
(* requests are of one family.  An address is a number below 2^AddrBits,   *)
(* a prefix is a network address with its mask length.  Stored prefixes    *)
(* are of the Postgres type CIDR, so their host bits are zero.             *)
(***************************************************************************)
EXTENDS Integers, FiniteSets, FiniteSetsExt

CONSTANTS AddrBits,     \* netip.Addr.BitLen(): 32 or 128 in the code
          ScanCap,      \* carveScanCap, 2^20 in the code
          NONE          \* nil, NULL, "not found"

ASSUME AddrBitsAssumption == AddrBits \in Nat
ASSUME ScanCapAssumption == ScanCap \in Nat \ {0}
\* Arithmetic of shifts, which the proofs need and the provers have no rule for.
ASSUME PowersOfTwo ==
    /\ \A n \in 0 .. AddrBits : 2^n \in Nat \ {0}
    /\ \A m, n \in 0 .. AddrBits : m + n <= AddrBits => 2^(m + n) = 2^m * 2^n

\* netip.Prefix values, host bits included.
RawPrefixes == [addr : 0 .. (2^AddrBits - 1), bits : 0 .. AddrBits]

\* The number of addresses a mask length leaves.
Span(bits) == 2^(AddrBits - bits)

\* Postgres CIDR values: the host bits are zero.
Prefixes == {p \in RawPrefixes : p.addr % Span(p.bits) = 0}

ASSUME NoneAssumption == NONE \notin Prefixes

\* The addresses a prefix stands for: the reference the code is held to.
Addresses(p) == {a \in 0 .. (2^AddrBits - 1) :
                    a \div Span(p.bits) = p.addr \div Span(p.bits)}

\* netip.Prefix.Contains: compares the leading bits only.
Contains(p, a) == a \div Span(p.bits) = p.addr \div Span(p.bits)

prefixesOverlap_OneSided(p, q) == Contains(p, q.addr)

\* carve.go prefixesOverlap: one contains the other's network address.
prefixesOverlap(p, q) == Contains(p, q.addr) \/ Contains(q, p.addr)

Candidate_ParentStep(parent, size, idx) ==
    [addr |-> parent.addr + idx * Span(parent.bits), bits |-> size]

\* The idx-th sub-prefix of the parent at the requested size.
Candidate(parent, size, idx) ==
    [addr |-> parent.addr + idx * Span(size), bits |-> size]

maxCount_OneMore(parent, size) == 2^(size - parent.bits) + 1

\* How many candidates the scan looks at: all of them, or the cap.
maxCount(parent, size) == Min({ScanCap, 2^(size - parent.bits)})

\* A size is usable when it is strictly longer than the parent's mask and
\* within the family.
SizeOk(parent, size) == size > parent.bits /\ size <= AddrBits

IsFree(p, occupied) == \A o \in occupied : ~prefixesOverlap(p, o)

\* The indices of the free candidates the scan may look at.
FreeIndices(parent, size, occupied) ==
    IF SizeOk(parent, size)
    THEN {i \in 0 .. (maxCount(parent, size) - 1) :
              IsFree(Candidate(parent, size, i), occupied)}
    ELSE {}

\* What lir/carve.go findFirstFreePrefix returns.
findFirstFreePrefix(parent, size, occupied) ==
    LET free == FreeIndices(parent, size, occupied)
    IN  IF free = {} THEN NONE ELSE Candidate(parent, size, Min(free))
=============================================================================
