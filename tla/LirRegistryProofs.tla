------------------------- MODULE LirRegistryProofs -------------------------
(***************************************************************************)
(* First the carver: what it hands out, for every family width and scan    *)
(* cap, is a prefix of the asked length, inside its parent, that overlaps  *)
(* nothing that is occupied; the loop of ipam/carve.go returns the lowest  *)
(* free candidates, that of lir/carve.go computes findFirstFreePrefix, and *)
(* neither leaves the parent, for every parent, len, limit and set of      *)
(* allocated prefixes.                                                     *)
(*                                                                         *)
(* Then the registry that carves: what holds of it for every number of     *)
(* pools, supernets, requests and concurrent NIC operators, what it        *)
(* promises when NIC review is sequential, and what holds of the ARIN feed *)
(* that is composed with it for every number of workers, attempts and      *)
(* crashes.                                                                *)
(***************************************************************************)
EXTENDS ArinFeed, LirLedger, CarveScan, FiniteSetTheorems, WellFoundedInduction, TLAPS

-----------------------------------------------------------------------------
(* The carver (Cidr, CarveScan)                                            *)

\* A non-empty set of naturals has a least element, and Min finds it.
LEMMA MinOfNaturals ==
    ASSUME NEW S \in SUBSET Nat, S # {}
    PROVE  Min(S) \in S /\ \A y \in S : Min(S) <= y
  <1>0. IsWellFoundedOn(OpToRel(<, Nat), Nat)
    BY NatLessThanWellFounded, Zenon
  <1>1. PICK x \in S : \A y \in S : ~(<<y, x>> \in OpToRel(<, Nat))
    BY <1>0, WFMin, Zenon
  <1>2. \A y \in S : x <= y
    <2>1. TAKE y \in S
    <2>2. x \in Nat /\ y \in Nat
      OBVIOUS
    <2>3. ~(y < x)
      BY <1>1, <2>2 DEF OpToRel
    <2>4. QED
      BY <2>2, <2>3
  <1>3. QED
    BY <1>2 DEF Min

\* The minimum of two naturals is below both.
LEMMA MinOfTwo ==
    ASSUME NEW a \in Nat, NEW b \in Nat
    PROVE  Min({a, b}) \in Nat /\ Min({a, b}) <= a /\ Min({a, b}) <= b
  <1>1. {a, b} \in SUBSET Nat /\ {a, b} # {}
    OBVIOUS
  <1>2. QED
    BY <1>1, MinOfNaturals

\* An address in the block that starts at a multiple of the block's len.
LEMMA BlockOf ==
    ASSUME NEW d \in Nat \ {0}, NEW q \in Nat, NEW x \in Nat,
           q * d <= x, x < (q + 1) * d
    PROVE  x \div d = q
  OBVIOUS

\* The block a number is in.
LEMMA BlockBounds ==
    ASSUME NEW d \in Nat \ {0}, NEW x \in Nat
    PROVE  /\ x \div d \in Nat
           /\ (x \div d) * d <= x
           /\ x < (x \div d) * d + d
           /\ x % d = 0 => x = (x \div d) * d
  OBVIOUS
\* Address x starts the i-th of the k sub-blocks of len d of the m-th block of
\* len e.
IsSubBlock(x, m, e, k, i, d) ==
    /\ m \in Nat /\ k \in Nat \ {0} /\ d \in Nat \ {0} /\ i \in Nat /\ i < k
    /\ e = k * d
    /\ x = m * e + i * d

\* A sub-block lies inside its block.
LEMMA SubBlock ==
    ASSUME NEW x, NEW m, NEW e, NEW k, NEW i, NEW d, IsSubBlock(x, m, e, k, i, d),
           NEW a \in Nat, a \div d = x \div d
    PROVE  a \div e = m
  <1> USE DEF IsSubBlock
  <1> DEFINE j == m * k + i
  <1>1. j \in Nat /\ k * d \in Nat \ {0}
    OBVIOUS
  <1>2. m * (k * d) + i * d = j * d
    OBVIOUS
  <1>3. j * d <= j * d /\ j * d < (j + 1) * d /\ j * d \in Nat
    BY <1>1
  <1>4. (j * d) \div d = j
    BY <1>1, <1>3, BlockOf
  <1>5. a \div d = j
    BY <1>2, <1>4
  <1>6. j * d <= a /\ a < j * d + d
    BY <1>5, BlockBounds
  <1>7. m * (k * d) <= j * d
    BY <1>1, <1>2
  <1>8. j + 1 <= (m + 1) * k
    BY <1>1
  <1>9. (j + 1) * d <= ((m + 1) * k) * d
    BY <1>1, <1>8
  <1>10. j * d + d = (j + 1) * d /\ ((m + 1) * k) * d = (m + 1) * (k * d)
    BY <1>1
  <1>11. m * (k * d) <= a /\ a < (m + 1) * (k * d)
    BY <1>1, <1>6, <1>7, <1>9, <1>10
  <1>12. QED
    BY <1>1, <1>11, BlockOf

\* Mask lengths and spans are natural numbers.
LEMMA SpanFacts ==
    ASSUME NEW p \in Prefixes, NEW len \in Int, SizeOk(p, len)
    PROVE  /\ p.bits \in 0 .. AddrBits /\ p.addr \in 0 .. (2^AddrBits - 1)
           /\ p.addr % Span(p.bits) = 0
           /\ Span(p.bits) \in Nat \ {0}
           /\ Span(len) \in Nat \ {0}
           /\ 2^(len - p.bits) \in Nat \ {0}
           /\ Span(p.bits) = 2^(len - p.bits) * Span(len)
           /\ 2^AddrBits = 2^(p.bits) * Span(p.bits)
           /\ 2^(p.bits) \in Nat \ {0}
           /\ 2^AddrBits \in Nat \ {0}
  <1>1. p.bits \in 0 .. AddrBits /\ p.addr \in 0 .. (2^AddrBits - 1)
            /\ p.addr % Span(p.bits) = 0
    BY DEF Prefixes, RawPrefixes
  <1>2. /\ AddrBits - p.bits \in 0 .. AddrBits
        /\ AddrBits - len \in 0 .. AddrBits
        /\ len - p.bits \in 0 .. AddrBits
        /\ (len - p.bits) + (AddrBits - len) = AddrBits - p.bits
        /\ p.bits + (AddrBits - p.bits) = AddrBits
        /\ AddrBits \in 0 .. AddrBits
        /\ AddrBits - p.bits <= AddrBits
    BY <1>1, AddrBitsAssumption DEF SizeOk
  <1>3. 2^(AddrBits - p.bits) = 2^(len - p.bits) * 2^(AddrBits - len)
    BY <1>2, PowersOfTwo
  <1>4. 2^AddrBits = 2^(p.bits) * 2^(AddrBits - p.bits)
    BY <1>1, <1>2, PowersOfTwo
  <1>5. QED
    BY <1>1, <1>2, <1>3, <1>4, PowersOfTwo DEF Span

\* A candidate the scan looks at is an address of the family, and every address
\* it stands for belongs to the parent.
LEMMA CandidateInside ==
    ASSUME NEW p \in Prefixes, NEW len \in Int, SizeOk(p, len),
           NEW i \in 0 .. (maxCount(p, len) - 1)
    PROVE  /\ Candidate(p, len, i).addr \in 0 .. (2^AddrBits - 1)
           /\ Candidate(p, len, i).bits = len
           /\ Addresses(Candidate(p, len, i)) \subseteq Addresses(p)
  <1> DEFINE D == Span(p.bits)
             d == Span(len)
             k == 2^(len - p.bits)
             m == p.addr \div D
             c == Candidate(p, len, i)
  <1>1. /\ p.bits \in 0 .. AddrBits /\ p.addr \in 0 .. (2^AddrBits - 1)
        /\ p.addr % D = 0 /\ D \in Nat \ {0} /\ d \in Nat \ {0}
        /\ k \in Nat \ {0} /\ D = k * d /\ 2^AddrBits = 2^(p.bits) * D
        /\ 2^(p.bits) \in Nat \ {0} /\ 2^AddrBits \in Nat \ {0}
    BY SpanFacts
  <1>2. i \in Nat /\ i < k
    <2>1. maxCount(p, len) \in Nat /\ maxCount(p, len) <= k
      BY <1>1, MinOfTwo, ScanCapAssumption DEF maxCount
    <2>2. QED
      BY <1>1, <2>1
  <1>3. m \in Nat /\ p.addr = m * (k * d)
    <2>1. p.addr \in Nat
      BY <1>1
    <2>2. m \in Nat /\ p.addr = m * D
      BY <1>1, <2>1, BlockBounds
    <2>3. QED
      BY <1>1, <2>2
  <1>4. c.addr = m * (k * d) + i * d /\ c.bits = len
    BY <1>3 DEF Candidate
  <1>5. c.addr \in 0 .. (2^AddrBits - 1)
    <2> DEFINE top == 2^(p.bits)
    <2> HIDE DEF top
    <2>0. top \in Nat /\ 2^AddrBits = top * (k * d) /\ k * d \in Nat \ {0}
      BY <1>1 DEF top
    <2>1. m * (k * d) < top * (k * d)
      BY <1>1, <1>3, <2>0
    <2>2. m < top
      BY <1>3, <2>0, <2>1
    <2>3. (m + 1) * (k * d) <= top * (k * d)
      BY <1>3, <2>0, <2>2
    <2>4. i * d < k * d
      BY <1>1, <1>2
    <2>5. (m + 1) * (k * d) = m * (k * d) + k * d
      BY <1>3, <2>0
    <2>6. m * (k * d) \in Nat /\ i * d \in Nat
      BY <1>1, <1>2, <1>3
    <2>7. QED
      BY <1>1, <1>4, <2>0, <2>3, <2>4, <2>5, <2>6
  <1>6. ASSUME NEW a \in 0 .. (2^AddrBits - 1),
               a \div d = c.addr \div d
        PROVE  a \div D = p.addr \div D
    <2>1. a \in Nat
      BY <1>1
    <2>2. a \div d = c.addr \div d
      BY <1>6
    <2>3. IsSubBlock(c.addr, m, D, k, i, d)
      BY <1>1, <1>2, <1>3, <1>4 DEF IsSubBlock
    <2> HIDE DEF m, D, k, d, c
    <2>4. a \div D = m
      BY <2>1, <2>2, <2>3, SubBlock
    <2>5. QED
      BY <2>4 DEF m
  <1>7. Addresses(c) \subseteq Addresses(p)
    BY <1>4, <1>6 DEF Addresses
  <1>8. QED
    BY <1>4, <1>5, <1>7

\* What findFirstFreePrefix returns: nothing, or a prefix of the asked length
\* inside the parent that overlaps none of the occupied ones.
THEOREM FirstFreeIsFree ==
    ASSUME NEW p \in Prefixes, NEW len \in Int, NEW occupied,
           findFirstFreePrefix(p, len, occupied) # NONE
    PROVE  LET c == findFirstFreePrefix(p, len, occupied)
           IN  /\ c \in [addr : 0 .. (2^AddrBits - 1), bits : Int]
               /\ c.bits = len
               /\ Addresses(c) \subseteq Addresses(p)
               /\ \A o \in occupied : ~prefixesOverlap(c, o)
  <1> DEFINE free == FreeIndices(p, len, occupied)
  <1>1. free # {} /\ SizeOk(p, len)
    BY DEF findFirstFreePrefix, FreeIndices
  <1>2. maxCount(p, len) \in Nat
    <2>1. 2^(len - p.bits) \in Nat
      BY <1>1, SpanFacts
    <2>2. QED
      BY <2>1, MinOfTwo, ScanCapAssumption DEF maxCount
  <1>3. free \in SUBSET Nat
    BY <1>1, <1>2 DEF FreeIndices
  <1>4. Min(free) \in free
    BY <1>1, <1>3, MinOfNaturals
  <1>5. /\ Min(free) \in 0 .. (maxCount(p, len) - 1)
        /\ IsFree(Candidate(p, len, Min(free)), occupied)
    BY <1>1, <1>4 DEF FreeIndices
  <1>6. findFirstFreePrefix(p, len, occupied) = Candidate(p, len, Min(free))
    BY <1>1 DEF findFirstFreePrefix
  <1>7. /\ Candidate(p, len, Min(free)).addr \in 0 .. (2^AddrBits - 1)
        /\ Candidate(p, len, Min(free)).bits = len
        /\ Addresses(Candidate(p, len, Min(free))) \subseteq Addresses(p)
    BY <1>1, <1>5, CandidateInside
  <1>8. Candidate(p, len, Min(free)) \in [addr : 0 .. (2^AddrBits - 1), bits : Int]
    BY <1>7 DEF Candidate
  <1>9. QED
    BY <1>5, <1>6, <1>7, <1>8 DEF IsFree

-----------------------------------------------------------------------------
(* The scan loop *)

\* A type invariant without the shape of prefixes, which the loop never uses.
Shape ==
    /\ parent \in Prefixes
    /\ size \in Int
    /\ limit \in Nat \ {0}
    /\ idx \in Nat
    /\ out \in Seq(Nat)
    /\ pc \in {"scan", "done"}

\* The loop invariant of a first-fit scan: nothing before the counter is free,
\* and a scan that ended names the least free candidate, or there is none.
ScanInv ==
    /\ Shape
    /\ pc = "scan" => SizeOk(parent, size)
    /\ (pc = "scan" /\ limit = 1) =>
            /\ out = <<>>
            /\ \A i \in Nat : i < idx => ~IsFree(Candidate(parent, size, i), allocated)
    /\ (pc = "done" /\ limit = 1) =>
            \/ /\ out = <<>>
               /\ FreeIndices(parent, size, allocated) = {}
            \/ /\ out # <<>>
               /\ out[1] \in FreeIndices(parent, size, allocated)
               /\ \A i \in FreeIndices(parent, size, allocated) : out[1] <= i

\* The least element of a set is the one Min chooses.
LEMMA MinIsLeast ==
    ASSUME NEW S \in SUBSET Int, NEW m \in S, \A x \in S : m <= x
    PROVE  Min(S) = m
  <1>1. \E x \in S : \A y \in S : x <= y
    OBVIOUS
  <1>2. Min(S) \in S /\ \A y \in S : Min(S) <= y
    BY <1>1 DEF Min
  <1>3. /\ m \in Int
        /\ Min(S) \in Int
        /\ m <= Min(S)
        /\ Min(S) <= m
    BY <1>2
  <1>4. \A a, b \in Int : (a <= b /\ b <= a) => a = b
    OBVIOUS
  <1>5. QED
    BY <1>3, <1>4

\* The number of candidates is an integer.
LEMMA MaxCountInt ==
    ASSUME NEW p \in Prefixes, NEW s \in Int, SizeOk(p, s)
    PROVE  maxCount(p, s) \in Int
  <1>1. p.bits \in Int
    BY AddrBitsAssumption DEF Prefixes, RawPrefixes
  <1>2. s - p.bits \in Nat
    BY <1>1 DEF SizeOk
  <1>3. 2^(s - p.bits) \in Int
    BY <1>2
  <1>4. \/ Min({ScanCap, 2^(s - p.bits)}) = ScanCap
        \/ Min({ScanCap, 2^(s - p.bits)}) = 2^(s - p.bits)
    <2>1. CASE ScanCap <= 2^(s - p.bits)
      BY <2>1, <1>3, MinIsLeast, ScanCapAssumption
    <2>2. CASE ~(ScanCap <= 2^(s - p.bits))
      BY <2>2, <1>3, MinIsLeast, ScanCapAssumption
    <2>3. QED
      BY <2>1, <2>2
  <1>5. QED
    BY <1>3, <1>4, ScanCapAssumption DEF maxCount

LEMMA InitScanInv == ScanInit => ScanInv
  BY SizesAssumption, LimitsAssumption DEF ScanInit, ScanInv, Shape, FreeIndices

LEMMA NextScanInv == ScanInv /\ [ScanNext]_scanVars => ScanInv'
  <1> SUFFICES ASSUME ScanInv, [ScanNext]_scanVars PROVE ScanInv'
    OBVIOUS
  <1> USE DEF ScanInv, Shape
  <1>1. CASE Exhausted
    <2>1. maxCount(parent, size) \in Int
      BY <1>1, MaxCountInt DEF Exhausted
    <2>2. limit = 1 => FreeIndices(parent, size, allocated) = {}
      BY <1>1, <2>1 DEF Exhausted, FreeIndices
    <2>3. QED
      BY <1>1, <2>2 DEF Exhausted, args
  <1>2. CASE Skip
    BY <1>2 DEF Skip, args
  <1>3. CASE Take
    <2>1. maxCount(parent, size) \in Int
      BY <1>3, MaxCountInt DEF Take
    <2>2. out' \in Seq(Nat) /\ Shape'
      BY <1>3 DEF Take, args
    <2>3. CASE limit = 1
      <3>1. out = <<>> /\ out' = <<idx>> /\ pc' = "done"
        BY <1>3, <2>3 DEF Take, args
      <3>2. idx \in FreeIndices(parent, size, allocated)
        BY <1>3, <2>1 DEF Take, FreeIndices
      <3>3. \A i \in FreeIndices(parent, size, allocated) : idx <= i
        BY <1>3, <2>1, <2>3 DEF Take, FreeIndices
      <3>4. QED
        BY <1>3, <2>2, <3>1, <3>2, <3>3 DEF Take, args
    <2>4. CASE limit # 1
      BY <1>3, <2>2, <2>4 DEF Take, args
    <2>5. QED
      BY <2>3, <2>4
  <1>4. CASE UNCHANGED scanVars
    BY <1>4 DEF scanVars
  <1>5. QED
    BY <1>1, <1>2, <1>3, <1>4 DEF ScanNext

LEMMA ScanInvComputes == ScanInv => ComputesFirstFree
  <1> SUFFICES ASSUME ScanInv, pc = "done", limit = 1
               PROVE  findFirstFreePrefix(parent, size, allocated) =
                        IF out = <<>> THEN NONE ELSE Candidate(parent, size, out[1])
    BY DEF ComputesFirstFree
  <1> DEFINE F == FreeIndices(parent, size, allocated)
  <1>1. CASE out = <<>> /\ F = {}
    BY <1>1 DEF findFirstFreePrefix
  <1>2. CASE out # <<>> /\ out[1] \in F /\ \A i \in F : out[1] <= i
    <2>1. F \in SUBSET Int
      BY DEF FreeIndices
    <2>2. Min(F) = out[1]
      BY <1>2, <2>1, MinIsLeast
    <2>3. QED
      BY <1>2, <2>2 DEF findFirstFreePrefix
  <1>3. QED
    BY <1>1, <1>2 DEF ScanInv

\* The loop of lir/carve.go, whatever it is called with, returns the operator
\* findFirstFreePrefix that LirRegistry carves with.
THEOREM LoopComputesFirstFree == ScanSpec => []ComputesFirstFree
  <1>1. ScanSpec => []ScanInv
    BY InitScanInv, NextScanInv, PTL DEF ScanSpec
  <1>2. QED
    BY <1>1, ScanInvComputes, PTL

-----------------------------------------------------------------------------
(* The containment test of the code against the sets of addresses *)

\* Numbers in one block are in one block of any multiple of its size.
LEMMA CoarserBlock ==
    ASSUME NEW x \in Nat, NEW y \in Nat, NEW d \in Nat \ {0}, NEW k \in Nat \ {0},
           x \div d = y \div d
    PROVE  x \div (k * d) = y \div (k * d)
  <1> DEFINE e == k * d
             j == x \div d
             q == x \div e
  <1>1. e \in Nat \ {0}
    OBVIOUS
  <1>2. j \in Nat /\ j * d <= x /\ x < j * d + d /\ j * d <= y /\ y < j * d + d
    BY BlockBounds
  <1>3. q \in Nat /\ q * e <= x /\ x < q * e + e
    BY <1>1, BlockBounds
  <1> HIDE DEF j, q
  <1>4. q * e = (q * k) * d /\ q * e + e = ((q + 1) * k) * d /\ j * d + d = (j + 1) * d
    BY <1>2, <1>3
  <1>5. q * k \in Nat /\ (q + 1) * k \in Nat /\ j + 1 \in Nat
    BY <1>2, <1>3
  <1>6. \A m, n \in Nat : m * d < n * d => m < n
    OBVIOUS
  <1>7. \A m, n \in Nat : m <= n => m * d <= n * d
    OBVIOUS
  <1>8. (q * k) * d < (j + 1) * d /\ j * d < ((q + 1) * k) * d
    <2> HIDE DEF e
    <2>1. (q * k) * d \in Nat /\ (j + 1) * d \in Nat /\ j * d \in Nat
          /\ ((q + 1) * k) * d \in Nat
      BY <1>2, <1>5
    <2>2. QED
      BY <1>2, <1>3, <1>4, <2>1
  <1>9. q * k < j + 1 /\ j < (q + 1) * k
    BY <1>2, <1>5, <1>6, <1>8
  <1>10. q * k <= j /\ j + 1 <= (q + 1) * k
    BY <1>2, <1>5, <1>9
  <1>11. (q * k) * d <= j * d /\ (j + 1) * d <= ((q + 1) * k) * d
    BY <1>2, <1>5, <1>7, <1>10
  <1>12. q * e <= y /\ y < (q + 1) * e
    <2>1. (q + 1) * e = q * e + e
      BY <1>1, <1>3
    <2> HIDE DEF e
    <2>2. (q * k) * d \in Nat /\ (j + 1) * d \in Nat /\ j * d \in Nat
          /\ ((q + 1) * k) * d \in Nat
      BY <1>2, <1>5
    <2>3. QED
      BY <1>2, <1>4, <1>11, <2>1, <2>2
  <1>13. y \div e = q
    BY <1>1, <1>3, <1>12, BlockOf
  <1>14. QED
    BY <1>13 DEF q

\* The span of a shorter mask is a multiple of the span of a longer one.
LEMMA SpanMultiple ==
    ASSUME NEW m \in 0 .. AddrBits, NEW n \in 0 .. AddrBits, m <= n
    PROVE  /\ Span(n) \in Nat \ {0}
           /\ \E k \in Nat \ {0} : Span(m) = k * Span(n)
  <1>1. /\ n - m \in 0 .. AddrBits /\ AddrBits - n \in 0 .. AddrBits
        /\ (n - m) + (AddrBits - n) = AddrBits - m
        /\ AddrBits - m <= AddrBits
    BY AddrBitsAssumption
  <1>2. 2^(AddrBits - m) = 2^(n - m) * 2^(AddrBits - n)
    BY <1>1, PowersOfTwo
  <1>3. 2^(n - m) \in Nat \ {0} /\ 2^(AddrBits - n) \in Nat \ {0}
    BY <1>1, PowersOfTwo
  <1>4. QED
    BY <1>2, <1>3 DEF Span

\* A prefix as it is stored, with a mask length of the family.
IsPrefix(p) == p.addr \in 0 .. (2^AddrBits - 1) /\ p.bits \in 0 .. AddrBits

\* An address that both prefixes stand for shows in the longer one's address.
LEMMA SharedAddress ==
    ASSUME NEW p, NEW q, IsPrefix(p), IsPrefix(q), p.bits <= q.bits,
           NEW a \in Addresses(p), a \in Addresses(q)
    PROVE  Contains(p, q.addr)
  <1>0. /\ p.bits \in 0 .. AddrBits /\ q.bits \in 0 .. AddrBits
        /\ q.addr \in 0 .. (2^AddrBits - 1)
    BY DEF IsPrefix
  <1>1. a \in 0 .. (2^AddrBits - 1)
        /\ a \div Span(p.bits) = p.addr \div Span(p.bits)
        /\ a \div Span(q.bits) = q.addr \div Span(q.bits)
    BY DEF Addresses
  <1>2. a \in Nat /\ q.addr \in Nat
    BY <1>0, <1>1
  <1>3. Span(q.bits) \in Nat \ {0}
    BY <1>0, SpanMultiple
  <1>4. PICK k \in Nat \ {0} : Span(p.bits) = k * Span(q.bits)
    BY <1>0, SpanMultiple
  <1>5. a \div Span(p.bits) = q.addr \div Span(p.bits)
    BY <1>1, <1>2, <1>3, <1>4, CoarserBlock
  <1>6. QED
    BY <1>1, <1>5 DEF Contains

\* prefixesOverlap holds exactly when the prefixes share an address.
LEMMA OverlapIsSharing ==
    ASSUME NEW p, NEW q, IsPrefix(p), IsPrefix(q)
    PROVE  prefixesOverlap(p, q) <=> Addresses(p) \cap Addresses(q) # {}
  <1>1. /\ p.bits \in 0 .. AddrBits /\ q.bits \in 0 .. AddrBits
        /\ p.addr \in 0 .. (2^AddrBits - 1) /\ q.addr \in 0 .. (2^AddrBits - 1)
    BY DEF IsPrefix
  <1>2. p.addr \in Addresses(p) /\ q.addr \in Addresses(q)
    BY <1>1 DEF Addresses
  <1>3. Contains(p, q.addr) => q.addr \in Addresses(p)
    BY <1>1 DEF Contains, Addresses
  <1>4. Contains(q, p.addr) => p.addr \in Addresses(q)
    BY <1>1 DEF Contains, Addresses
  <1>5. prefixesOverlap(p, q) => Addresses(p) \cap Addresses(q) # {}
    BY <1>2, <1>3, <1>4 DEF prefixesOverlap
  <1>6. ASSUME NEW a \in Addresses(p), a \in Addresses(q)
        PROVE  prefixesOverlap(p, q)
    <2>1. CASE p.bits <= q.bits
      BY <1>6, <2>1, SharedAddress DEF prefixesOverlap
    <2>2. CASE q.bits <= p.bits
      BY <1>6, <2>2, SharedAddress DEF prefixesOverlap
    <2>3. QED
      BY <1>1, <2>1, <2>2
  <1>7. QED
    BY <1>5, <1>6

\* The scan judges its candidates right.
LEMMA FreeIsTrulyFree ==
    ASSUME parent \in Prefixes, allocated \subseteq Prefixes, size \in Int,
           SizeOk(parent, size), NEW i \in 0 .. (maxCount(parent, size) - 1)
    PROVE  IsFree(Candidate(parent, size, i), allocated) <=> TrulyFree(i)
  <1> DEFINE c == Candidate(parent, size, i)
  <1>1. c.addr \in 0 .. (2^AddrBits - 1) /\ c.bits = size
    BY CandidateInside
  <1>2. size \in 0 .. AddrBits
    BY SpanFacts, AddrBitsAssumption DEF SizeOk
  <1>3. IsPrefix(c)
    BY <1>1, <1>2 DEF IsPrefix
  <1>4. \A o \in allocated : IsPrefix(o)
    BY DEF Prefixes, RawPrefixes, IsPrefix
  <1> HIDE DEF c
  <1>5. \A o \in allocated : prefixesOverlap(c, o) <=> Addresses(c) \cap Addresses(o) # {}
    BY <1>3, <1>4, OverlapIsSharing
  <1>6. QED
    BY <1>5 DEF IsFree, TrulyFree, c

-----------------------------------------------------------------------------
(* The collected candidates *)

Found == {out[k] : k \in DOMAIN out}
Free == FreeIndices(parent, size, allocated)

\* Every free index before the counter is collected, in order and once, and the
\* scan ended because it was full or had looked at every candidate.
CollectInv ==
    /\ Shape
    /\ allocated \subseteq Prefixes
    /\ pc = "scan" => SizeOk(parent, size)
    /\ Found \subseteq Free
    /\ IsFiniteSet(Found) /\ Cardinality(Found) = Len(out)
    /\ \A k \in 2 .. Len(out) : out[k - 1] < out[k]
    /\ \A k \in DOMAIN out, i \in Free : i < out[k] => i \in Found
    /\ pc = "scan" =>
          /\ Len(out) < limit
          /\ \A i \in Found : i < idx
          /\ \A i \in Free : i < idx => i \in Found
    /\ pc = "done" => (Len(out) = limit \/ (Len(out) < limit /\ Found = Free))

LEMMA FreeIsFinite ==
    ASSUME Shape
    PROVE  /\ IsFiniteSet(Free) /\ Cardinality(Free) \in Nat
           /\ Free \subseteq Nat
  <1>1. CASE SizeOk(parent, size)
    <2>1. maxCount(parent, size) \in Int
      BY <1>1, MaxCountInt DEF Shape
    <2>2. IsFiniteSet(0 .. (maxCount(parent, size) - 1))
      BY <2>1, FS_Interval
    <2>3. Free \subseteq 0 .. (maxCount(parent, size) - 1)
      BY DEF Free, FreeIndices
    <2>4. IsFiniteSet(Free)
      BY <2>2, <2>3, FS_Subset
    <2>5. QED
      BY <2>1, <2>3, <2>4, FS_CardinalityType
  <1>2. CASE ~SizeOk(parent, size)
    <2>1. Free = {}
      BY <1>2 DEF Free, FreeIndices
    <2>2. QED
      BY <2>1, FS_EmptySet
  <1>3. QED
    BY <1>1, <1>2

LEMMA InitCollect == ScanInit => CollectInv
  <1> SUFFICES ASSUME ScanInit PROVE CollectInv
    OBVIOUS
  <1> USE DEF ScanInit
  <1>1. Shape
    BY SizesAssumption, LimitsAssumption DEF Shape
  <1>2. allocated \subseteq Prefixes
    BY AllocatedSetsAssumption
  <1>3. out = <<>> /\ Found = {} /\ Len(out) = 0
    BY DEF Found
  <1>4. IsFiniteSet(Found) /\ Cardinality(Found) = Len(out)
    BY <1>3, FS_EmptySet
  <1>5. 0 < limit
    BY <1>1 DEF Shape
  <1>6. Free \subseteq Nat
    BY <1>1, FreeIsFinite
  <1>7. pc = "scan" => SizeOk(parent, size)
    OBVIOUS
  <1>8. pc = "done" => Free = {}
    BY DEF Free, FreeIndices
  <1>9. QED
    BY <1>1, <1>2, <1>3, <1>4, <1>5, <1>6, <1>7, <1>8 DEF CollectInv

\* What Append adds to a sequence.
LEMMA AppendFacts ==
    ASSUME NEW s \in Seq(Nat), NEW e \in Nat
    PROVE  /\ Append(s, e) \in Seq(Nat)
           /\ Len(s) \in Nat
           /\ Len(Append(s, e)) = Len(s) + 1
           /\ DOMAIN s = 1 .. Len(s)
           /\ DOMAIN Append(s, e) = 1 .. (Len(s) + 1)
           /\ \A k \in 1 .. Len(s) : Append(s, e)[k] = s[k]
           /\ Append(s, e)[Len(s) + 1] = e
  OBVIOUS

LEMMA TakeCollects ==
    ASSUME CollectInv, Take
    PROVE  CollectInv'
  <1> USE DEF CollectInv, Take
  <1>1. /\ UNCHANGED <<parent, size, allocated, limit>>
        /\ out' = Append(out, idx)
        /\ idx \in Nat /\ out \in Seq(Nat) /\ limit \in Nat \ {0}
    BY DEF args, Shape
  <1>2. /\ out' \in Seq(Nat) /\ Len(out) \in Nat /\ Len(out') = Len(out) + 1
        /\ DOMAIN out = 1 .. Len(out) /\ DOMAIN out' = 1 .. (Len(out) + 1)
        /\ \A k \in 1 .. Len(out) : out'[k] = out[k]
        /\ out'[Len(out) + 1] = idx
    BY <1>1, AppendFacts
  <1>3. Free' = Free
    BY <1>1 DEF Free
  <1>4. Found' = Found \cup {idx}
    <2>1. Found' = {out'[k] : k \in 1 .. (Len(out) + 1)}
      BY <1>2 DEF Found
    <2>2. Found = {out[k] : k \in 1 .. Len(out)}
      BY <1>2 DEF Found
    <2>3. \A k \in 1 .. (Len(out) + 1) : k \in 1 .. Len(out) \/ k = Len(out) + 1
      BY <1>2
    <2>4. Len(out) + 1 \in 1 .. (Len(out) + 1) /\ 1 .. Len(out) \subseteq 1 .. (Len(out) + 1)
      BY <1>2
    <2>5. ASSUME NEW k \in 1 .. (Len(out) + 1)
          PROVE  out'[k] \in Found \cup {idx}
      <3>1. CASE k \in 1 .. Len(out)
        BY <1>2, <2>2, <3>1
      <3>2. CASE k = Len(out) + 1
        BY <1>2, <3>2
      <3>3. QED
        BY <2>3, <3>1, <3>2
    <2>6. \A k \in 1 .. Len(out) : out[k] \in Found'
      BY ONLY <1>2, <2>1, <2>4
    <2>7. idx \in Found'
      BY ONLY <1>2, <2>1, <2>4
    <2>8. Found' \subseteq Found \cup {idx}
      BY ONLY <2>1, <2>5
    <2>9. Found \subseteq Found'
      BY ONLY <2>2, <2>6
    <2>10. QED
      BY ONLY <2>7, <2>8, <2>9
  <1>5. \A i \in Found : i \in Nat /\ i < idx
    BY FreeIsFinite
  <1>6. idx \notin Found
    BY <1>1, <1>5
  <1>7. idx \in Free
    <2>1. maxCount(parent, size) \in Int
      BY MaxCountInt DEF Shape
    <2>2. QED
      BY <1>1, <2>1 DEF Free, FreeIndices
  <1>8. IsFiniteSet(Found') /\ Cardinality(Found') = Len(out')
    BY <1>2, <1>4, <1>6, FS_AddElement
  <1>9. Free \subseteq Nat
    BY FreeIsFinite
  <1>10. Found' \subseteq Free'
    BY <1>3, <1>4, <1>7
  <1>11. \A k \in 2 .. Len(out') : out'[k - 1] < out'[k]
    <2>1. TAKE k \in 2 .. Len(out')
    <2>2. CASE k <= Len(out)
      <3>1. k \in 2 .. Len(out) /\ k \in 1 .. Len(out) /\ k - 1 \in 1 .. Len(out)
        BY <1>2, <2>2
      <3>2. QED
        BY <1>2, <3>1
    <2>3. CASE k = Len(out) + 1
      <3>1. k - 1 \in 1 .. Len(out) /\ k - 1 = Len(out)
        BY <1>2, <2>3
      <3>2. out[k - 1] \in Found
        BY <1>2, <3>1 DEF Found
      <3>3. out'[k] = idx /\ out'[k - 1] = out[k - 1]
        BY <1>2, <2>3, <3>1
      <3>4. QED
        BY <1>5, <3>2, <3>3
    <2>4. QED
      BY <1>2, <2>2, <2>3
  <1>12. \A k \in DOMAIN out', i \in Free' : i < out'[k] => i \in Found'
    <2>1. TAKE k \in DOMAIN out', i \in Free'
    <2>2. HAVE i < out'[k]
    <2>3. CASE k \in 1 .. Len(out)
      BY <1>2, <1>3, <1>4, <2>2, <2>3
    <2>4. CASE k = Len(out) + 1
      BY <1>2, <1>3, <1>4, <2>2, <2>4
    <2>5. QED
      BY <1>2, <2>3, <2>4
  <1>13. CASE Len(out') >= limit
    <2>1. pc' = "done" /\ idx' = idx
      BY <1>13
    <2>2. Len(out') = limit
      BY <1>1, <1>2, <1>13
    <2>3. Shape'
      BY <1>1, <1>2, <2>1 DEF Shape
    <2>4. QED
      BY <1>1, <1>8, <1>10, <1>11, <1>12, <2>1, <2>2, <2>3
  <1>14. CASE ~(Len(out') >= limit)
    <2>1. pc' = "scan" /\ idx' = idx + 1
      BY <1>14
    <2>2. Len(out') < limit
      BY <1>1, <1>2, <1>14
    <2>3. Shape'
      BY <1>1, <1>2, <2>1 DEF Shape
    <2>4. \A i \in Found' : i < idx'
      BY <1>1, <1>4, <1>5, <2>1
    <2>5. \A i \in Free' : i < idx' => i \in Found'
      BY <1>1, <1>3, <1>4, <1>9, <2>1
    <2>6. SizeOk(parent, size)'
      BY <1>1 DEF SizeOk
    <2>7. QED
      BY <1>1, <1>8, <1>10, <1>11, <1>12, <2>1, <2>2, <2>3, <2>4, <2>5, <2>6
  <1>15. QED
    BY <1>13, <1>14

LEMMA NextCollect == CollectInv /\ [ScanNext]_scanVars => CollectInv'
  <1> SUFFICES ASSUME CollectInv, [ScanNext]_scanVars PROVE CollectInv'
    OBVIOUS
  <1>1. CASE Exhausted
    <2>1. UNCHANGED <<parent, size, allocated, limit, idx, out>> /\ pc = "scan" /\ pc' = "done"
      BY <1>1 DEF Exhausted, args
    <2>2. Found' = Found /\ Free' = Free
      BY <2>1 DEF Found, Free
    <2>3. \A i \in Free : i < idx
      <3>1. maxCount(parent, size) \in Int
        BY <2>1, MaxCountInt DEF CollectInv, Shape
      <3>2. QED
        BY <1>1, <3>1 DEF Free, FreeIndices, Exhausted, CollectInv, Shape
    <2>4. Len(out) < limit /\ Found = Free
      BY <2>1, <2>3 DEF CollectInv
    <2>5. QED
      BY <2>1, <2>2, <2>4 DEF CollectInv, Shape
  <1>2. CASE Skip
    <2>1. /\ UNCHANGED <<parent, size, allocated, limit, out, pc>>
          /\ pc = "scan" /\ idx' = idx + 1
      BY <1>2 DEF Skip, args
    <2>2. Found' = Found /\ Free' = Free
      BY <2>1 DEF Found, Free
    <2>3. idx \notin Free
      BY <1>2 DEF Skip, Free, FreeIndices
    <2>4. Shape' /\ idx \in Nat
      BY <2>1 DEF CollectInv, Shape
    <2>5. Free \subseteq Nat
      BY FreeIsFinite DEF CollectInv
    <2>6. Found \subseteq Nat
      BY <2>5 DEF CollectInv
    <2>7. \A i \in Free : i < idx + 1 => i \in Found
      BY <2>1, <2>3, <2>4, <2>5 DEF CollectInv
    <2>8. \A i \in Found : i < idx + 1
      BY <2>1, <2>4, <2>6 DEF CollectInv
    <2>9. SizeOk(parent, size)'
      BY <2>1 DEF SizeOk, CollectInv
    <2>10. QED
      BY <2>1, <2>2, <2>4, <2>7, <2>8, <2>9 DEF CollectInv
  <1>3. CASE Take
    BY <1>3, TakeCollects
  <1>4. CASE UNCHANGED scanVars
    BY <1>4 DEF scanVars, CollectInv, Shape, Found, Free
  <1>5. QED
    BY <1>1, <1>2, <1>3, <1>4 DEF ScanNext

LEMMA CollectInvariant == ScanSpec => []CollectInv
  BY InitCollect, NextCollect, PTL DEF ScanSpec

LEMMA CollectIsFirstFit == CollectInv => FirstFit
  <1> SUFFICES ASSUME CollectInv, pc = "done" PROVE FirstFit
    BY DEF FirstFit
  <1> DEFINE free == IF SizeOk(parent, size)
                     THEN {i \in 0 .. (Min({ScanCap, 2^(size - parent.bits)}) - 1) : TrulyFree(i)}
                     ELSE {}
  <1>1. free = Free
    <2>1. CASE SizeOk(parent, size)
      <3>1. \A i \in 0 .. (maxCount(parent, size) - 1) :
                IsFree(Candidate(parent, size, i), allocated) <=> TrulyFree(i)
        BY <2>1, FreeIsTrulyFree DEF CollectInv, Shape
      <3>2. QED
        BY <2>1, <3>1 DEF Free, FreeIndices, maxCount
    <2>2. CASE ~SizeOk(parent, size)
      BY <2>2 DEF Free, FreeIndices
    <2>3. QED
      BY <2>1, <2>2
  <1> HIDE DEF free
  <1>2. Len(out) = Min({limit, Cardinality(free)})
    <2>1. IsFiniteSet(Free) /\ Cardinality(Free) \in Nat
      BY FreeIsFinite DEF CollectInv
    <2>2. Cardinality(Found) <= Cardinality(Free)
      BY <2>1, FS_Subset DEF CollectInv
    <2>3. limit \in Nat /\ Len(out) \in Nat /\ Len(out) = Cardinality(Found)
      BY DEF CollectInv, Shape
    <2>4. /\ Len(out) \in {limit, Cardinality(Free)}
          /\ Len(out) <= limit /\ Len(out) <= Cardinality(Free)
      BY <2>2, <2>3 DEF CollectInv
    <2>5. {limit, Cardinality(Free)} \in SUBSET Int
      BY <2>1, <2>3
    <2>6. QED
      BY <1>1, <2>4, <2>5, MinIsLeast
  <1>3. \A k \in DOMAIN out, i \in free : i < out[k] => \E j \in DOMAIN out : out[j] = i
    BY <1>1 DEF CollectInv, Found
  <1>4. {out[k] : k \in DOMAIN out} \subseteq free
    BY <1>1 DEF CollectInv, Found
  <1>5. \A k \in 2 .. Len(out) : out[k - 1] < out[k]
    BY DEF CollectInv
  <1>6. QED
    BY <1>2, <1>3, <1>4, <1>5 DEF FirstFit, free

\* findFreePrefixesInSupernet returns the lowest-numbered candidates that share
\* no address with what is allocated, in order, as many as there are up to the
\* limit and the scan cap: its containment test misses nothing and excludes
\* nothing too much.
THEOREM ScanIsFirstFit == ScanSpec => []FirstFit
  BY CollectInvariant, CollectIsFirstFit, PTL

\* No candidate the loop looks at leaves its parent or outgrows the family, so
\* the `len(b) > byteLen` exit of carve.go is never taken.
THEOREM ScanStaysInFamily == ScanSpec => []StaysInFamily
  <1>1. CollectInv => StaysInFamily
    <2> SUFFICES ASSUME CollectInv, pc = "scan", idx < maxCount(parent, size)
                 PROVE  /\ parent.addr + idx * Span(size) < 2^AddrBits
                        /\ Addresses(Candidate(parent, size, idx)) \subseteq Addresses(parent)
      BY DEF StaysInFamily
    <2>1. parent \in Prefixes /\ size \in Int /\ SizeOk(parent, size) /\ idx \in Nat
      BY DEF CollectInv, Shape
    <2>2. maxCount(parent, size) \in Int
      BY <2>1, MaxCountInt
    <2>3. idx \in 0 .. (maxCount(parent, size) - 1)
      BY <2>1, <2>2
    <2>4. /\ Candidate(parent, size, idx).addr \in 0 .. (2^AddrBits - 1)
          /\ Addresses(Candidate(parent, size, idx)) \subseteq Addresses(parent)
      BY <2>1, <2>3, CandidateInside
    <2>5. Candidate(parent, size, idx).addr = parent.addr + idx * Span(size)
      BY DEF Candidate
    <2>6. 2^AddrBits \in Nat
      BY <2>1, SpanFacts
    <2>7. QED
      BY <2>4, <2>5, <2>6
  <1>2. QED
    BY <1>1, CollectInvariant, PTL

-----------------------------------------------------------------------------
(* The registry: approvals, allocations and deletes                        *)

ApprovePc == {"app_pool", "app_srcs", "app_carve", "app_commit"}
SourcePc == {"att_write", "det_count", "det_write"}
DeletePc == {"del_detach", "del_row"}

\* A session under way knows what it works on.
SessionsBound ==
    \A n \in Nics :
        /\ sess[n].pc \in ApprovePc => sess[n].req \in Requests /\ sess[n].pool \in Pools
        /\ sess[n].pc = "app_commit" => sess[n].sn \in Supernets
        /\ sess[n].pc \in SourcePc => sess[n].sn \in Supernets /\ sess[n].pool \in Pools
        /\ sess[n].pc \in DeletePc => sess[n].pool \in Pools

\* The inductive invariant of the type and approval theorems.
Inv == TypeOK /\ SessionsBound /\ ApprovedHasAllocation

\* The rows of each table, as TypeOK gives them.
PoolRow == [state : {"absent", "live", "gone"}, fam : Families, min : Int, max : Int,
            enabled : BOOLEAN, handle : ArinHandles]
RequestRow == [status : RequestStatus, fam : Families, len : Int,
               pool : Pools \cup {NONE}, approved : Pools \cup {NONE}]
AllocRow == [status : AllocStatus, pool : Pools \cup {NONE},
             sn : Supernets \cup {NONE}, prefix : PrefixColumn,
             arin : ArinStatus, net : BOOLEAN,
             attempts : Nat, due : BOOLEAN, err : ArinErrors]
SessionRow == [pc : SessionPc, req : Requests \cup {NONE},
               pool : Pools \cup {NONE}, sn : Supernets \cup {NONE},
               srcs : SUBSET Supernets, prefix : PrefixColumn,
               arin : {"none", "pending"}]

LEMMA Rows ==
    TypeOK <=> /\ pools \in [Pools -> PoolRow]
               /\ source \in [Supernets -> Pools \cup {NONE}]
               /\ requests \in [Requests -> RequestRow]
               /\ allocs \in [Requests -> AllocRow]
               /\ sess \in [Nics -> SessionRow]
  BY DEF TypeOK, PoolRow, RequestRow, AllocRow, SessionRow

LEMMA RowsNext ==
    TypeOK' <=> /\ pools' \in [Pools -> PoolRow]
                /\ source' \in [Supernets -> Pools \cup {NONE}]
                /\ requests' \in [Requests -> RequestRow]
                /\ allocs' \in [Requests -> AllocRow]
                /\ sess' \in [Nics -> SessionRow]
  BY DEF TypeOK, PoolRow, RequestRow, AllocRow, SessionRow

LEMMA IdleIsSession == Idle \in SessionRow
  BY DEF Idle, SessionRow, SessionPc, PrefixColumn

LEMMA InitInv == Init => Inv
  <1>1. SUFFICES ASSUME Init PROVE Inv
    OBVIOUS
  <1>2. TypeOK
    BY <1>1, IdleIsSession, Rows DEF Init, PoolRow, RequestRow, AllocRow, Families,
       ArinHandles, RequestStatus, AllocStatus, ArinStatus, ArinErrors, PrefixColumn
  <1>3. SessionsBound
    BY <1>1 DEF Init, SessionsBound, Idle, ApprovePc, SourcePc, DeletePc
  <1>4. ApprovedHasAllocation
    BY <1>1 DEF Init, ApprovedHasAllocation
  <1>5. QED
    BY <1>2, <1>3, <1>4 DEF Inv
\* Ending a call, by refusal, success or interruption, without touching the database.
LEMMA IdleStep ==
    ASSUME Inv, NEW n \in Nics, sess' = [sess EXCEPT ![n] = Idle] /\ UNCHANGED dbVars
    PROVE  Inv'
  <1>1. TypeOK'
    BY IdleIsSession, Rows, RowsNext DEF Inv, dbVars
  <1>2. SessionsBound'
    BY Rows DEF Inv, Idle, SessionsBound, ApprovePc, SourcePc, DeletePc
  <1>3. QED
    BY <1>1, <1>2 DEF Inv, dbVars, ApprovedHasAllocation

\* The carver is called with an integer length and answers with a prefix or none.
LEMMA CarveIsPrefix ==
    ASSUME TypeOK, SessionsBound, NEW n \in Nics, sess[n].pc = "app_carve",
           NEW s \in Supernets
    PROVE  Carve(n, s) \in PrefixColumn
  <1>1. SupernetPrefix[s] \in Prefixes
    BY SupernetPrefixAssumption
  <1>2. requests[sess[n].req].len \in Int
    BY Rows DEF SessionsBound, ApprovePc, RequestRow
  <1>3. CASE Carve(n, s) = NONE
    BY <1>3 DEF PrefixColumn
  <1>4. CASE Carve(n, s) # NONE
    <2>1. Carve(n, s) \in [addr : 0 .. (2^AddrBits - 1), bits : Int]
      BY <1>1, <1>2, <1>4, FirstFreeIsFree DEF Carve
    <2>2. 2^AddrBits \in Int
      BY AddrBitsAssumption
    <2>3. QED
      BY <2>1, <2>2 DEF PrefixColumn
  <1>5. QED
    BY <1>3, <1>4

\* Every step of the registry keeps the invariant: one step per handler statement.
LEMMA StepInv == Inv /\ [Next]_vars => Inv'
  <1> SUFFICES ASSUME Inv, [Next]_vars PROVE Inv'
    OBVIOUS
  <1>0. /\ pools \in [Pools -> PoolRow]
        /\ source \in [Supernets -> Pools \cup {NONE}]
        /\ requests \in [Requests -> RequestRow]
        /\ allocs \in [Requests -> AllocRow]
        /\ sess \in [Nics -> SessionRow]
        /\ SessionsBound
        /\ ApprovedHasAllocation
    BY Rows DEF Inv
  <1> USE DEF dbVars
  <1>1. ASSUME NEW p \in Pools, NEW c \in PoolSettings, createPool(p, c)
        PROVE  Inv'
    <2>1. TypeOK'
      BY <1>0, <1>1, IdleIsSession, RowsNext, PoolSettingsAssumption DEF createPool, Row, Settings, PoolRow
    <2>2. SessionsBound'
      BY <1>0, <1>1 DEF createPool, Idle, SessionsBound, ApprovePc, SourcePc, DeletePc, SessionRow
    <2>3. ApprovedHasAllocation'
      BY <1>0, <1>1 DEF createPool, ApprovedHasAllocation
    <2>4. QED
      BY <2>1, <2>2, <2>3 DEF Inv
  <1>2. ASSUME NEW p \in Pools, NEW c \in PoolSettings, updatePool(p, c)
        PROVE  Inv'
    <2>1. TypeOK'
      BY <1>0, <1>2, IdleIsSession, RowsNext, PoolSettingsAssumption DEF updatePool, Row, Settings, PoolRow
    <2>2. SessionsBound'
      BY <1>0, <1>2 DEF updatePool, Idle, SessionsBound, ApprovePc, SourcePc, DeletePc, SessionRow
    <2>3. ApprovedHasAllocation'
      BY <1>0, <1>2 DEF updatePool, ApprovedHasAllocation, Row
    <2>4. QED
      BY <2>1, <2>2, <2>3 DEF Inv
  <1>3. ASSUME NEW n \in Nics, NEW p \in Pools, DeleteCheck(n, p)
        PROVE  Inv'
    <2>1. TypeOK'
      BY <1>0, <1>3, IdleIsSession, RowsNext DEF DeleteCheck, SessionRow, SessionPc
    <2>2. SessionsBound'
      BY <1>0, <1>3 DEF DeleteCheck, Idle, SessionsBound, ApprovePc, SourcePc, DeletePc, SessionRow
    <2>3. ApprovedHasAllocation'
      BY <1>0, <1>3 DEF DeleteCheck, ApprovedHasAllocation
    <2>4. QED
      BY <2>1, <2>2, <2>3 DEF Inv
  <1>4. ASSUME NEW n \in Nics, DeleteDetachAll(n)
        PROVE  Inv'
    <2>1. TypeOK'
      BY <1>0, <1>4, IdleIsSession, RowsNext DEF DeleteDetachAll, SessionRow, SessionPc
    <2>2. SessionsBound'
      BY <1>0, <1>4 DEF DeleteDetachAll, Idle, SessionsBound, ApprovePc, SourcePc, DeletePc, SessionRow
    <2>3. ApprovedHasAllocation'
      BY <1>0, <1>4 DEF DeleteDetachAll, ApprovedHasAllocation
    <2>4. QED
      BY <2>1, <2>2, <2>3 DEF Inv
  <1>5. ASSUME NEW n \in Nics, DeleteRow(n)
        PROVE  Inv'
    <2>1. TypeOK'
      <3>1. pools' \in [Pools -> PoolRow]
        BY <1>0, <1>5 DEF DeleteRow, PoolRow
      <3>2. source' \in [Supernets -> Pools \cup {NONE}]
        BY <1>0, <1>5 DEF DeleteRow
      <3>3. sess' \in [Nics -> SessionRow]
        BY <1>0, <1>5, IdleIsSession DEF DeleteRow
      <3>4. QED
        BY <1>0, <1>5, <3>1, <3>2, <3>3, RowsNext DEF DeleteRow
    <2>2. SessionsBound'
      BY <1>0, <1>5 DEF DeleteRow, Idle, SessionsBound, ApprovePc, SourcePc, DeletePc, SessionRow
    <2>3. ApprovedHasAllocation'
      <3>1. CASE pools' = pools
        BY <1>0, <1>5, <3>1 DEF DeleteRow, ApprovedHasAllocation
      <3>2. CASE /\ pools' = [pools EXCEPT ![sess[n].pool].state = "gone"]
                 /\ ~PoolReferenced(sess[n].pool)
        BY <1>0, <1>5, <3>2
           DEF DeleteRow, ApprovedHasAllocation, PoolReferenced, AllocationsOfPool
      <3>3. QED
        BY <1>5, <3>1, <3>2 DEF DeleteRow
    <2>4. QED
      BY <2>1, <2>2, <2>3 DEF Inv
  <1>6. ASSUME NEW n \in Nics, NEW p \in Pools, NEW s \in Supernets, AttachCheck(n, p, s)
        PROVE  Inv'
    <2>1. TypeOK'
      BY <1>0, <1>6, IdleIsSession, RowsNext DEF AttachCheck, SessionRow, SessionPc
    <2>2. SessionsBound'
      BY <1>0, <1>6 DEF AttachCheck, Idle, SessionsBound, ApprovePc, SourcePc, DeletePc, SessionRow
    <2>3. ApprovedHasAllocation'
      BY <1>0, <1>6 DEF AttachCheck, ApprovedHasAllocation
    <2>4. QED
      BY <2>1, <2>2, <2>3 DEF Inv
  <1>7. ASSUME NEW n \in Nics, AttachWrite(n)
        PROVE  Inv'
    <2>1. TypeOK'
      BY <1>0, <1>7, IdleIsSession, RowsNext DEF AttachWrite, SessionRow, SessionsBound, SourcePc
    <2>2. SessionsBound'
      BY <1>0, <1>7 DEF AttachWrite, Idle, SessionsBound, ApprovePc, SourcePc, DeletePc, SessionRow
    <2>3. ApprovedHasAllocation'
      BY <1>0, <1>7 DEF AttachWrite, ApprovedHasAllocation
    <2>4. QED
      BY <2>1, <2>2, <2>3 DEF Inv
  <1>8. ASSUME NEW n \in Nics, NEW p \in Pools, NEW s \in Supernets, DetachLoad(n, p, s)
        PROVE  Inv'
    <2>1. TypeOK'
      BY <1>0, <1>8, IdleIsSession, RowsNext DEF DetachLoad, SessionRow, SessionPc
    <2>2. SessionsBound'
      BY <1>0, <1>8 DEF DetachLoad, Idle, SessionsBound, ApprovePc, SourcePc, DeletePc, SessionRow
    <2>3. ApprovedHasAllocation'
      BY <1>0, <1>8 DEF DetachLoad, ApprovedHasAllocation
    <2>4. QED
      BY <2>1, <2>2, <2>3 DEF Inv
  <1>9. ASSUME NEW n \in Nics, DetachCount(n)
        PROVE  Inv'
    <2>1. TypeOK'
      BY <1>0, <1>9, IdleIsSession, RowsNext DEF DetachCount, SessionRow, SessionPc
    <2>2. SessionsBound'
      BY <1>0, <1>9 DEF DetachCount, Idle, SessionsBound, ApprovePc, SourcePc, DeletePc, SessionRow
    <2>3. ApprovedHasAllocation'
      BY <1>0, <1>9 DEF DetachCount, ApprovedHasAllocation
    <2>4. QED
      BY <2>1, <2>2, <2>3 DEF Inv
  <1>10. ASSUME NEW n \in Nics, DetachWrite(n)
        PROVE  Inv'
    <2>1. TypeOK'
      BY <1>0, <1>10, IdleIsSession, RowsNext DEF DetachWrite, SessionRow, SessionPc
    <2>2. SessionsBound'
      BY <1>0, <1>10 DEF DetachWrite, Idle, SessionsBound, ApprovePc, SourcePc, DeletePc, SessionRow
    <2>3. ApprovedHasAllocation'
      BY <1>0, <1>10 DEF DetachWrite, ApprovedHasAllocation
    <2>4. QED
      BY <2>1, <2>2, <2>3 DEF Inv
  <1>11. ASSUME NEW r \in Requests, NEW f \in AskedFamilies, NEW l \in Lengths,
               NEW p \in Pools \cup {NONE}, submitRequest(r, f, l, p)
        PROVE  Inv'
    <2>1. TypeOK'
      BY <1>0, <1>11, IdleIsSession, RowsNext, AskedFamiliesAssumption, LengthsAssumption DEF submitRequest, RequestRow, RequestStatus
    <2>2. SessionsBound'
      BY <1>0, <1>11 DEF submitRequest, Idle, SessionsBound, ApprovePc, SourcePc, DeletePc, SessionRow
    <2>3. ApprovedHasAllocation'
      BY <1>0, <1>11 DEF submitRequest, ApprovedHasAllocation
    <2>4. QED
      BY <2>1, <2>2, <2>3 DEF Inv
  <1>12. ASSUME NEW r \in Requests, cancelRequest(r)
        PROVE  Inv'
    <2>1. TypeOK'
      BY <1>0, <1>12, IdleIsSession, RowsNext DEF cancelRequest, RequestRow, RequestStatus
    <2>2. SessionsBound'
      BY <1>0, <1>12 DEF cancelRequest, Idle, SessionsBound, ApprovePc, SourcePc, DeletePc, SessionRow
    <2>3. ApprovedHasAllocation'
      BY <1>0, <1>12 DEF cancelRequest, ApprovedHasAllocation
    <2>4. QED
      BY <2>1, <2>2, <2>3 DEF Inv
  <1>13. ASSUME NEW r \in Requests, rejectRequest(r)
        PROVE  Inv'
    <2>1. TypeOK'
      BY <1>0, <1>13, IdleIsSession, RowsNext DEF rejectRequest, RequestRow, RequestStatus
    <2>2. SessionsBound'
      BY <1>0, <1>13 DEF rejectRequest, Idle, SessionsBound, ApprovePc, SourcePc, DeletePc, SessionRow
    <2>3. ApprovedHasAllocation'
      BY <1>0, <1>13 DEF rejectRequest, ApprovedHasAllocation
    <2>4. QED
      BY <2>1, <2>2, <2>3 DEF Inv
  <1>14. ASSUME NEW n \in Nics, NEW r \in Requests, NEW p \in Pools \cup {NONE}, ApproveLoad(n, r, p)
        PROVE  Inv'
    <2>1. TypeOK'
      BY <1>0, <1>14, IdleIsSession, RowsNext DEF ApproveLoad, SessionRow, SessionPc, RequestRow, resolveApprovedPoolID
    <2>2. SessionsBound'
      <3>1. resolveApprovedPoolID(p, requests[r].pool) \in Pools
        BY <1>0, <1>14 DEF ApproveLoad, resolveApprovedPoolID, RequestRow
      <3>2. QED
        BY <1>0, <1>14, <3>1
           DEF ApproveLoad, Idle, SessionsBound, ApprovePc, SourcePc, DeletePc
    <2>3. ApprovedHasAllocation'
      BY <1>0, <1>14 DEF ApproveLoad, ApprovedHasAllocation
    <2>4. QED
      BY <2>1, <2>2, <2>3 DEF Inv
  <1>15. ASSUME NEW n \in Nics, ApprovePool(n)
        PROVE  Inv'
    <2> DEFINE row == [sess[n] EXCEPT !.pc = "app_srcs",
                    !.arin = IF pools[sess[n].pool].handle = "set" THEN "pending" ELSE "none"]
    <2>1. CASE PoolFits(pools[sess[n].pool], requests[sess[n].req])
      <3>1. /\ row \in SessionRow
            /\ row.req = sess[n].req /\ row.pool = sess[n].pool
            /\ row.pc = "app_srcs"
        BY <1>0, <2>1 DEF SessionRow, SessionPc
      <3>2. sess' = [sess EXCEPT ![n] = row] /\ UNCHANGED dbVars
        BY <1>15, <2>1 DEF ApprovePool
      <3>3. sess[n].pc \in ApprovePc
        BY <1>15 DEF ApprovePool, ApprovePc
      <3> HIDE DEF row
      <3>4. TypeOK'
        BY <1>0, <3>1, <3>2, RowsNext
      <3>5. SessionsBound'
        BY <1>0, <3>1, <3>2, <3>3 DEF SessionsBound, ApprovePc, SourcePc, DeletePc
      <3>6. QED
        BY <1>0, <3>2, <3>4, <3>5 DEF Inv, ApprovedHasAllocation
    <2>2. CASE sess' = [sess EXCEPT ![n] = Idle] /\ UNCHANGED dbVars
      BY <1>0, <2>2, IdleStep
    <2>3. QED
      BY <1>15, <2>1, <2>2 DEF ApprovePool
  <1>16. ASSUME NEW n \in Nics, ApproveSources(n)
        PROVE  Inv'
    <2> DEFINE row == [sess[n] EXCEPT !.pc = "app_carve",
                    !.srcs = {s \in Supernets : source[s] = sess[n].pool}]
    <2>1. CASE {s \in Supernets : source[s] = sess[n].pool} # {}
      <3>1. /\ row \in SessionRow
            /\ row.req = sess[n].req /\ row.pool = sess[n].pool
            /\ row.pc = "app_carve"
        BY <1>0, <2>1 DEF SessionRow, SessionPc
      <3>2. sess' = [sess EXCEPT ![n] = row] /\ UNCHANGED dbVars
        BY <1>16, <2>1 DEF ApproveSources
      <3>3. sess[n].pc \in ApprovePc
        BY <1>16 DEF ApproveSources, ApprovePc
      <3> HIDE DEF row
      <3>4. TypeOK'
        BY <1>0, <3>1, <3>2, RowsNext
      <3>5. SessionsBound'
        BY <1>0, <3>1, <3>2, <3>3 DEF SessionsBound, ApprovePc, SourcePc, DeletePc
      <3>6. QED
        BY <1>0, <3>2, <3>4, <3>5 DEF Inv, ApprovedHasAllocation
    <2>2. CASE sess' = [sess EXCEPT ![n] = Idle] /\ UNCHANGED dbVars
      BY <1>0, <2>2, IdleStep
    <2>3. QED
      BY <1>16, <2>1, <2>2 DEF ApproveSources
  <1>17. ASSUME NEW n \in Nics, ApproveCarve(n)
        PROVE  Inv'
    <2>1. ASSUME NEW s \in sess[n].srcs,
                 sess' = [sess EXCEPT ![n] =
                            [@ EXCEPT !.pc = "app_commit", !.sn = s, !.prefix = Carve(n, s)]]
          PROVE  Inv'
      <3> DEFINE row == [sess[n] EXCEPT !.pc = "app_commit", !.sn = s, !.prefix = Carve(n, s)]
      <3>1. s \in Supernets
        BY <1>0 DEF SessionRow
      <3>2. Carve(n, s) \in PrefixColumn
        BY <1>17, <3>1, CarveIsPrefix DEF ApproveCarve, Inv
      <3>3. /\ row \in SessionRow
            /\ row.req = sess[n].req /\ row.pool = sess[n].pool /\ row.sn = s
            /\ row.pc = "app_commit"
        BY <1>0, <3>1, <3>2 DEF SessionRow, SessionPc
      <3>4. sess' = [sess EXCEPT ![n] = row] /\ UNCHANGED dbVars
        BY <1>17, <2>1 DEF ApproveCarve
      <3>5. sess[n].pc \in ApprovePc
        BY <1>17 DEF ApproveCarve, ApprovePc
      <3> HIDE DEF row
      <3>6. TypeOK'
        BY <1>0, <3>3, <3>4, RowsNext
      <3>7. SessionsBound'
        BY <1>0, <3>1, <3>3, <3>4, <3>5 DEF SessionsBound, ApprovePc, SourcePc, DeletePc
      <3>8. QED
        BY <1>0, <3>4, <3>6, <3>7 DEF Inv, ApprovedHasAllocation
    <2>2. CASE sess' = [sess EXCEPT ![n] = Idle] /\ UNCHANGED dbVars
      BY <1>0, <2>2, IdleStep
    <2>3. QED
      BY <1>17, <2>1, <2>2 DEF ApproveCarve
  <1>18. ASSUME NEW n \in Nics, ApproveCommit(n)
        PROVE  Inv'
    <2> DEFINE r == sess[n].req
               rq == [requests[r] EXCEPT !.status = "approved", !.approved = sess[n].pool]
               al == [status |-> "active", pool |-> sess[n].pool, sn |-> sess[n].sn,
                      prefix |-> sess[n].prefix, arin |-> sess[n].arin,
                      net |-> FALSE, attempts |-> 0, due |-> TRUE, err |-> "none"]
    <2>0. r \in Requests /\ sess[n].pool \in Pools /\ sess[n].sn \in Supernets
      BY <1>0, <1>18 DEF ApproveCommit, SessionsBound, ApprovePc
    <2>1. CASE requests[r].status = "pending_approval" /\ pools[sess[n].pool].state = "live"
      <3>1. rq \in RequestRow /\ rq.status = "approved" /\ rq.approved = sess[n].pool
        <4>1. requests[r] \in RequestRow
          BY <1>0, <2>0
        <4>2. QED
          BY <2>0, <4>1 DEF RequestRow, RequestStatus
      <3>2. al \in AllocRow /\ al.status = "active" /\ al.pool = sess[n].pool
        BY <1>0, <2>0 DEF SessionRow, AllocRow, AllocStatus, ArinStatus, ArinErrors
      <3>3. /\ requests' = [requests EXCEPT ![r] = rq] /\ allocs' = [allocs EXCEPT ![r] = al]
            /\ sess' = [sess EXCEPT ![n] = Idle] /\ UNCHANGED <<pools, source>>
        BY <1>18, <2>1 DEF ApproveCommit
      <3> HIDE DEF rq, al, r
      <3>4. TypeOK'
        BY <1>0, <2>0, <3>1, <3>2, <3>3, IdleIsSession, RowsNext
      <3>5. SessionsBound'
        BY <1>0, <3>3 DEF Idle, SessionsBound, ApprovePc, SourcePc, DeletePc
      <3>6. ApprovedHasAllocation'
        BY <1>0, <2>0, <2>1, <3>1, <3>2, <3>3 DEF ApprovedHasAllocation
      <3>7. QED
        BY <3>4, <3>5, <3>6 DEF Inv
    <2>2. CASE sess' = [sess EXCEPT ![n] = Idle] /\ UNCHANGED dbVars
      BY <1>0, <2>2, IdleStep
    <2>3. QED
      BY <1>18, <2>1, <2>2 DEF ApproveCommit
  <1>19. ASSUME NEW n \in Nics, Abort(n)
        PROVE  Inv'
    <2>1. TypeOK'
      BY <1>0, <1>19, IdleIsSession, RowsNext DEF Abort, SessionRow
    <2>2. SessionsBound'
      BY <1>0, <1>19 DEF Abort, Idle, SessionsBound, ApprovePc, SourcePc, DeletePc, SessionRow
    <2>3. ApprovedHasAllocation'
      BY <1>0, <1>19 DEF Abort, ApprovedHasAllocation
    <2>4. QED
      BY <2>1, <2>2, <2>3 DEF Inv
  <1>20. ASSUME NEW r \in Requests, requestReturnAllocation(r)
        PROVE  Inv'
    <2>1. TypeOK'
      BY <1>0, <1>20, IdleIsSession, RowsNext DEF requestReturnAllocation, AllocRow, AllocStatus
    <2>2. SessionsBound'
      BY <1>0, <1>20 DEF requestReturnAllocation, Idle, SessionsBound, ApprovePc, SourcePc, DeletePc, SessionRow
    <2>3. ApprovedHasAllocation'
      BY <1>0, <1>20 DEF requestReturnAllocation, ApprovedHasAllocation
    <2>4. QED
      BY <2>1, <2>2, <2>3 DEF Inv
  <1>21. ASSUME NEW r \in Requests, confirmReturnAllocation(r)
        PROVE  Inv'
    <2>1. PICK row \in AllocRow :
                /\ allocs' = [allocs EXCEPT ![r] = row]
                /\ row.status # "absent" /\ row.pool = allocs[r].pool
      <3> DEFINE queued == [allocs[r] EXCEPT !.status = "returned", !.arin = "removing",
                                             !.attempts = 0, !.due = TRUE, !.err = "none"]
                 closed == [allocs[r] EXCEPT !.status = "returned"]
      <3>1. allocs[r] \in AllocRow
        BY <1>0
      <3>2. /\ queued \in AllocRow /\ queued.status # "absent" /\ queued.pool = allocs[r].pool
            /\ closed \in AllocRow /\ closed.status # "absent" /\ closed.pool = allocs[r].pool
        BY <3>1 DEF AllocRow, AllocStatus, ArinStatus, ArinErrors
      <3>3. \/ allocs' = [allocs EXCEPT ![r] = queued]
            \/ allocs' = [allocs EXCEPT ![r] = closed]
        BY <1>21 DEF confirmReturnAllocation
      <3>4. QED
        BY <3>2, <3>3
    <2>2. allocs[r].status # "absent"
      BY <1>21 DEF confirmReturnAllocation
    <2>3. TypeOK'
      BY <1>0, <1>21, <2>1, RowsNext DEF confirmReturnAllocation
    <2>4. ApprovedHasAllocation'
      BY <1>0, <1>21, <2>1, <2>2 DEF confirmReturnAllocation, ApprovedHasAllocation
    <2>5. SessionsBound'
      BY <1>0, <1>21 DEF confirmReturnAllocation, SessionsBound
    <2>6. QED
      BY <2>3, <2>4, <2>5 DEF Inv
  <1>22. ASSUME NEW r \in Requests, retryAllocationArin(r)
        PROVE  Inv'
    <2>1. PICK row \in AllocRow :
                /\ allocs' = [allocs EXCEPT ![r] = row]
                /\ row.status # "absent" /\ row.pool = allocs[r].pool
      <3> DEFINE row == [allocs[r] EXCEPT
                            !.arin = IF allocs[r].net THEN "removing" ELSE "pending",
                            !.attempts = 0, !.due = TRUE, !.err = "none"]
      <3>1. allocs[r] \in AllocRow /\ allocs[r].status # "absent"
        BY <1>0, <1>22 DEF retryAllocationArin
      <3>2. row \in AllocRow /\ row.status # "absent" /\ row.pool = allocs[r].pool
        BY <3>1 DEF AllocRow, AllocStatus, ArinStatus, ArinErrors
      <3>3. allocs' = [allocs EXCEPT ![r] = row]
        BY <1>22 DEF retryAllocationArin
      <3>4. QED
        BY <3>2, <3>3
    <2>2. allocs[r].status # "absent"
      BY <1>22 DEF retryAllocationArin
    <2>3. TypeOK'
      BY <1>0, <1>22, <2>1, RowsNext DEF retryAllocationArin
    <2>4. ApprovedHasAllocation'
      BY <1>0, <1>22, <2>1, <2>2 DEF retryAllocationArin, ApprovedHasAllocation
    <2>5. SessionsBound'
      BY <1>0, <1>22 DEF retryAllocationArin, SessionsBound
    <2>6. QED
      BY <2>3, <2>4, <2>5 DEF Inv
  <1>23. CASE UNCHANGED vars
    BY <1>0, <1>23 DEF vars, Inv, TypeOK, SessionsBound, ApprovedHasAllocation
  <1>24. QED
    BY <1>1, <1>2, <1>3, <1>4, <1>5, <1>6, <1>7, <1>8, <1>9, <1>10, <1>11, <1>12, <1>13, <1>14, <1>15, <1>16, <1>17, <1>18, <1>19, <1>20, <1>21, <1>22, <1>23
       DEF Next, PoolStep, SourceStep, TenantStep, ApproveStep, AllocationStep

\* The type invariant holds for any number of pools, supernets, requests and NIC
\* operators.
THEOREM TypeCorrect == Spec => []TypeOK
  <1>1. Inv => TypeOK
    BY DEF Inv
  <1>2. QED
    BY InitInv, StepInv, <1>1, PTL DEF Spec

\* An approved request has its allocation, in a pool that exists, however many
\* operators approve, cancel, reject and delete pools at the same time.
THEOREM ApprovalIsConsistent == Spec => []ApprovedHasAllocation
  <1>1. Inv => ApprovedHasAllocation
    BY DEF Inv
  <1>2. QED
    BY InitInv, StepInv, <1>1, PTL DEF Spec

\* A decided or withdrawn request is never written again: an approval that was
\* under way finds it gone from pending_approval when it commits.
THEOREM DecisionsStand == Spec => DecisionIsFinal
  <1> DEFINE Final == \A r \in Requests :
                        requests[r].status \in {"approved", "rejected", "cancelled"}
                            => requests'[r] = requests[r]
  <1>1. ASSUME Inv, [Next]_vars PROVE Final
    <2> SUFFICES ASSUME NEW r \in Requests,
                        requests[r].status \in {"approved", "rejected", "cancelled"}
                 PROVE  requests'[r] = requests[r]
      OBVIOUS
    <2>0. requests \in [Requests -> RequestRow] /\ sess \in [Nics -> SessionRow]
      BY <1>1, Rows DEF Inv
    <2>1. CASE UNCHANGED requests
      BY <2>1
    <2>2. ASSUME NEW q \in Requests, cancelRequest(q) \/ rejectRequest(q)
          PROVE  requests'[r] = requests[r]
      BY <2>0, <2>2 DEF cancelRequest, rejectRequest
    <2>3. ASSUME NEW q \in Requests, NEW f, NEW l, NEW p, submitRequest(q, f, l, p)
          PROVE  requests'[r] = requests[r]
      BY <2>0, <2>3 DEF submitRequest
    <2>4. ASSUME NEW n \in Nics, ApproveCommit(n)
          PROVE  requests'[r] = requests[r]
      BY <2>0, <2>4 DEF ApproveCommit
    <2>5. CASE PoolStep \/ SourceStep \/ UNCHANGED vars
               \/ \E q \in Requests : AllocationStep(q)
      <3>1. UNCHANGED requests
        BY <2>5 DEF PoolStep, createPool, updatePool, DeleteCheck, DeleteDetachAll,
           DeleteRow, SourceStep, AttachCheck, AttachWrite, DetachLoad, DetachCount,
           DetachWrite, AllocationStep, requestReturnAllocation,
           confirmReturnAllocation, retryAllocationArin, dbVars, vars
      <3>2. QED
        BY <3>1, <2>1
    <2>6. CASE TenantStep
      BY <2>2, <2>3, <2>6 DEF TenantStep
    <2>7. CASE ApproveStep
      <3>1. UNCHANGED requests \/ \E n \in Nics : ApproveCommit(n)
        BY <2>7 DEF ApproveStep, ApproveLoad, ApprovePool, ApproveSources,
           ApproveCarve, Abort, dbVars
      <3>2. QED
        BY <3>1, <2>1, <2>4
    <2>8. QED
      BY <1>1, <2>5, <2>6, <2>7 DEF Next
  <1>2. Inv /\ [Next]_vars => [Final]_vars
    BY <1>1
  <1>3. QED
    BY InitInv, StepInv, <1>2, PTL DEF Spec, DecisionIsFinal

\* How one step may change allocation r.
Forward(r) ==
    allocs[r].status # "absent" =>
        /\ <<allocs[r].status, allocs'[r].status>> \in
                {<<"active", "return_requested">>, <<"return_requested", "returned">>}
           \/ allocs'[r].status = allocs[r].status
        /\ allocs'[r].prefix = allocs[r].prefix
        /\ allocs'[r].pool = allocs[r].pool
        /\ allocs'[r].sn = allocs[r].sn

\* An approval finds no allocation to overwrite; the allocation's own operations
\* keep what was carved.
LEMMA StepForward ==
    ASSUME Inv, [Next]_vars, NEW r \in Requests
    PROVE  Forward(r)
  <1> USE DEF Forward
  <1>0. /\ allocs \in [Requests -> AllocRow]
        /\ SessionsBound /\ ApprovedHasAllocation
    BY Rows DEF Inv
  <1>1. CASE UNCHANGED allocs
    BY <1>1
  <1>2. ASSUME NEW q \in Requests, AllocationStep(q)
        PROVE  Forward(r)
    <2>1. CASE q # r
      <3>1. allocs'[r] = allocs[r]
        BY <1>0, <1>2, <2>1 DEF AllocationStep, requestReturnAllocation,
           confirmReturnAllocation, retryAllocationArin
      <3>2. QED
        BY <3>1
    <2>2. CASE q = r
      <3>1. allocs[r] \in AllocRow
        BY <1>0
      <3>2. CASE requestReturnAllocation(r)
        BY <1>0, <3>1, <3>2 DEF requestReturnAllocation, AllocRow
      <3>3. CASE confirmReturnAllocation(r)
        <4>1. \/ allocs'[r] = [allocs[r] EXCEPT !.status = "returned", !.arin = "removing",
                                  !.attempts = 0, !.due = TRUE, !.err = "none"]
              \/ allocs'[r] = [allocs[r] EXCEPT !.status = "returned"]
          BY <1>0, <3>3 DEF confirmReturnAllocation
        <4>2. allocs[r].status = "return_requested"
          BY <3>3 DEF confirmReturnAllocation
        <4>3. QED
          BY <3>1, <4>1, <4>2 DEF AllocRow
      <3>4. CASE retryAllocationArin(r)
        <4>1. allocs'[r] = [allocs[r] EXCEPT
                              !.arin = IF allocs[r].net THEN "removing" ELSE "pending",
                              !.attempts = 0, !.due = TRUE, !.err = "none"]
          BY <1>0, <3>4 DEF retryAllocationArin
        <4>2. QED
          BY <3>1, <4>1 DEF AllocRow
      <3>5. QED
        BY <1>2, <2>2, <3>2, <3>3, <3>4 DEF AllocationStep
    <2>3. QED
      BY <2>1, <2>2
  <1>3. ASSUME NEW n \in Nics, ApproveCommit(n)
        PROVE  Forward(r)
    <2>1. CASE allocs[r].status # "absent"
      <3>1. requests[r].status # "pending_approval"
        BY <1>0, <2>1 DEF ApprovedHasAllocation
      <3>2. allocs'[r] = allocs[r]
        BY <1>0, <1>3, <3>1 DEF ApproveCommit
      <3>3. QED
        BY <3>2
    <2>2. QED
      BY <2>1
  <1>4. CASE PoolStep \/ SourceStep \/ TenantStep \/ UNCHANGED vars
    <2>1. UNCHANGED allocs
      BY <1>4 DEF PoolStep, createPool, updatePool, DeleteCheck, DeleteDetachAll,
         DeleteRow, SourceStep, AttachCheck, AttachWrite, DetachLoad, DetachCount,
         DetachWrite, TenantStep, submitRequest, cancelRequest, rejectRequest,
         dbVars, vars
    <2>2. QED
      BY <2>1, <1>1
  <1>5. CASE ApproveStep
    <2>1. UNCHANGED allocs \/ \E n \in Nics : ApproveCommit(n)
      BY <1>5 DEF ApproveStep, ApproveLoad, ApprovePool, ApproveSources,
         ApproveCarve, Abort, dbVars
    <2>2. QED
      BY <2>1, <1>1, <1>3
  <1>6. QED
    BY <1>2, <1>4, <1>5 DEF Next

\* An allocation moves forward only, and its prefix, source and pool are fixed when
\* it is carved; an approval never overwrites the allocation of a request.
THEOREM LifecycleHolds == Spec => AllocationLifecycle
  <1>1. Inv /\ [Next]_vars => [\A r \in Requests : Forward(r)]_vars
    BY StepForward
  <1>2. QED
    BY InitInv, StepInv, <1>1, PTL DEF Spec, AllocationLifecycle, Forward
-----------------------------------------------------------------------------
(***************************************************************************)
(* Every allocation is what the tenant asked for, carved out of a supernet *)
(* of the right family, although the approval reads the request, the pool, *)
(* the sources and the allocations in separate statements while other      *)
(* operators attach, detach, reconfigure and delete.                       *)
(***************************************************************************)

\* Prefix c is what request rq asked for, inside supernet s.
Carved(c, s, rq) ==
    /\ s \in Supernets
    /\ c \in [addr : 0 .. (2^AddrBits - 1), bits : Int]
    /\ c.bits = rq.len
    /\ Addresses(c) \subseteq Addresses(SupernetPrefix[s])
    /\ SupernetFamily[s] = rq.fam

\* What session x has established so far stays true until it commits.
SessionCarve(x) ==
    /\ x.pc \in ApprovePc => requests[x.req].status # "absent"
    /\ x.pc \in {"app_srcs", "app_carve", "app_commit"} =>
            pools[x.pool].state # "absent" /\ pools[x.pool].fam = requests[x.req].fam
    /\ x.pc = "app_carve" => \A s \in x.srcs : SupernetFamily[s] = pools[x.pool].fam
    /\ x.pc = "app_commit" => Carved(x.prefix, x.sn, requests[x.req])
    /\ x.pc = "att_write" =>
            pools[x.pool].state # "absent" /\ SupernetFamily[x.sn] = pools[x.pool].fam

\* A source is of its pool's family.
SourcesMatch ==
    \A s \in Supernets : source[s] # NONE =>
        pools[source[s]].state # "absent" /\ SupernetFamily[s] = pools[source[s]].fam

AllocsCarved ==
    \A r \in Requests : allocs[r].status # "absent" =>
        requests[r].status # "absent" /\ Carved(allocs[r].prefix, allocs[r].sn, requests[r])

CarveInv ==
    /\ Inv
    /\ SourcesMatch
    /\ \A n \in Nics : SessionCarve(sess[n])
    /\ AllocsCarved

\* A pool's family and what a request asks for never change.
Kept ==
    /\ \A p \in Pools : pools[p].state # "absent" =>
            pools'[p].state # "absent" /\ pools'[p].fam = pools[p].fam
    /\ \A r \in Requests : requests[r].status # "absent" =>
            /\ requests'[r].status # "absent"
            /\ requests'[r].fam = requests[r].fam
            /\ requests'[r].len = requests[r].len

LEMMA StepKept ==
    ASSUME Inv, [Next]_vars
    PROVE  Kept
  <1>0. /\ pools \in [Pools -> PoolRow] /\ requests \in [Requests -> RequestRow]
        /\ sess \in [Nics -> SessionRow] /\ SessionsBound
    BY Rows DEF Inv
  <1>1. CASE UNCHANGED <<pools, requests>>
    BY <1>1 DEF Kept
  <1>2. ASSUME NEW p \in Pools, NEW c \in PoolSettings, createPool(p, c) \/ updatePool(p, c)
        PROVE  Kept
    BY <1>0, <1>2 DEF createPool, updatePool, Row, Kept
  <1>3. ASSUME NEW n \in Nics, DeleteRow(n)
        PROVE  Kept
    BY <1>0, <1>3 DEF DeleteRow, Kept, PoolRow
  <1>4. ASSUME NEW r \in Requests, cancelRequest(r) \/ rejectRequest(r)
        PROVE  Kept
    BY <1>0, <1>4 DEF cancelRequest, rejectRequest, Kept, RequestRow
  <1>5. ASSUME NEW r \in Requests, NEW f, NEW l, NEW p, submitRequest(r, f, l, p)
        PROVE  Kept
    BY <1>0, <1>5 DEF submitRequest, Kept
  <1>6. ASSUME NEW n \in Nics, ApproveCommit(n)
        PROVE  Kept
    <2>1. sess[n].req \in Requests
      BY <1>0, <1>6 DEF ApproveCommit, SessionsBound, ApprovePc
    <2> DEFINE rq == requests[sess[n].req]
               row == [rq EXCEPT !.status = "approved", !.approved = sess[n].pool]
    <2>2. row.status = "approved" /\ row.fam = rq.fam /\ row.len = rq.len
      <3>1. rq \in RequestRow
        BY <1>0, <2>1
      <3>2. QED
        BY <3>1 DEF RequestRow
    <2>3. \/ UNCHANGED requests
          \/ requests' = [requests EXCEPT ![sess[n].req] = row]
      BY <1>6 DEF ApproveCommit
    <2> HIDE DEF row
    <2>4. UNCHANGED pools
      BY <1>6 DEF ApproveCommit
    <2>5. \A r \in Requests : requests[r].status # "absent" =>
            /\ requests'[r].status # "absent"
            /\ requests'[r].fam = requests[r].fam
            /\ requests'[r].len = requests[r].len
      BY <1>0, <2>1, <2>2, <2>3
    <2>6. QED
      BY <2>4, <2>5 DEF Kept
  <1>7. CASE PoolStep
    <2>1. \/ UNCHANGED <<pools, requests>> \/ \E n \in Nics : DeleteRow(n)
          \/ \E p \in Pools, c \in PoolSettings : createPool(p, c) \/ updatePool(p, c)
      BY <1>7 DEF PoolStep, DeleteCheck, DeleteDetachAll, dbVars
    <2>2. QED
      BY <2>1, <1>1, <1>2, <1>3
  <1>8. CASE SourceStep \/ UNCHANGED vars \/ \E r \in Requests : AllocationStep(r)
    <2>1. UNCHANGED <<pools, requests>>
      BY <1>8 DEF SourceStep, AttachCheck, AttachWrite, DetachLoad, DetachCount,
         DetachWrite, AllocationStep, requestReturnAllocation,
         confirmReturnAllocation, retryAllocationArin, dbVars, vars
    <2>2. QED
      BY <2>1, <1>1
  <1>9. CASE TenantStep
    BY <1>4, <1>5, <1>9 DEF TenantStep
  <1>10. CASE ApproveStep
    <2>1. UNCHANGED <<pools, requests>> \/ \E n \in Nics : ApproveCommit(n)
      BY <1>10 DEF ApproveStep, ApproveLoad, ApprovePool, ApproveSources,
         ApproveCarve, Abort, dbVars
    <2>2. QED
      BY <2>1, <1>1, <1>6
  <1>11. QED
    BY <1>7, <1>8, <1>9, <1>10 DEF Next

\* A session that does not step keeps what it has established.
LEMMA SessionKept ==
    ASSUME Inv, Kept, NEW n \in Nics, SessionCarve(sess[n]), sess'[n] = sess[n]
    PROVE  SessionCarve(sess[n])'
  <1>0. SessionsBound
    BY DEF Inv
  <1>1. /\ sess[n].pc \in ApprovePc => sess[n].req \in Requests /\ sess[n].pool \in Pools
        /\ sess[n].pc = "att_write" => sess[n].pool \in Pools
    BY <1>0 DEF SessionsBound, SourcePc
  <1>2. QED
    BY <1>1 DEF SessionCarve, Kept, Carved, ApprovePc

\* An idle session has nothing to establish.
LEMMA IdleCarves ==
    ASSUME NEW n \in Nics, sess'[n] = Idle
    PROVE  SessionCarve(sess[n])'
  BY DEF SessionCarve, Idle, ApprovePc

\* An allocation that was carved stays carved.
LEMMA AllocKept ==
    ASSUME Inv, Kept, AllocsCarved, NEW r \in Requests, allocs[r].status # "absent",
           allocs'[r].prefix = allocs[r].prefix, allocs'[r].sn = allocs[r].sn
    PROVE  requests'[r].status # "absent" /\ Carved(allocs'[r].prefix, allocs'[r].sn, requests'[r])
  BY DEF AllocsCarved, Kept, Carved
\* Sources only change by detaching, or by an attach that was checked.
LEMMA StepSources ==
    ASSUME CarveInv, [Next]_vars
    PROVE  SourcesMatch'
  <1>0. /\ source \in [Supernets -> Pools \cup {NONE}] /\ pools \in [Pools -> PoolRow]
        /\ sess \in [Nics -> SessionRow] /\ SessionsBound /\ SourcesMatch
        /\ \A n \in Nics : SessionCarve(sess[n])
    BY Rows DEF Inv, CarveInv
  <1>1. Kept
    BY StepKept DEF CarveInv
  <1>2. ASSUME \A s \in Supernets : source'[s] = source[s] \/ source'[s] = NONE
        PROVE  SourcesMatch'
    BY <1>0, <1>1, <1>2 DEF SourcesMatch, Kept
  <1>3. ASSUME NEW n \in Nics, AttachWrite(n)
        PROVE  SourcesMatch'
    <2>1. /\ sess[n].pool \in Pools /\ sess[n].sn \in Supernets
          /\ pools[sess[n].pool].state # "absent"
          /\ SupernetFamily[sess[n].sn] = pools[sess[n].pool].fam
      BY <1>0, <1>3 DEF AttachWrite, SessionsBound, SourcePc, SessionCarve
    <2>2. /\ UNCHANGED pools
          /\ UNCHANGED source \/ source' = [source EXCEPT ![sess[n].sn] = sess[n].pool]
      BY <1>3 DEF AttachWrite
    <2>3. QED
      BY <1>0, <2>1, <2>2 DEF SourcesMatch
  <1>4. CASE SourceStep
    <2>1. \/ \E n \in Nics : AttachWrite(n)
          \/ \A s \in Supernets : source'[s] = source[s] \/ source'[s] = NONE
      BY <1>0, <1>4 DEF SourceStep, AttachCheck, DetachLoad, DetachCount, DetachWrite, dbVars
    <2>2. QED
      BY <2>1, <1>2, <1>3
  <1>5. CASE PoolStep
    <2>1. \A s \in Supernets : source'[s] = source[s] \/ source'[s] = NONE
      BY <1>0, <1>5 DEF PoolStep, createPool, updatePool, DeleteCheck,
         DeleteDetachAll, DeleteRow, dbVars
    <2>2. QED
      BY <2>1, <1>2
  <1>6. CASE TenantStep \/ ApproveStep \/ UNCHANGED vars
             \/ \E r \in Requests : AllocationStep(r)
    <2>1. UNCHANGED source
      BY <1>6 DEF TenantStep, submitRequest, cancelRequest, rejectRequest,
         ApproveStep, ApproveLoad, ApprovePool, ApproveSources, ApproveCarve,
         ApproveCommit, Abort, AllocationStep, requestReturnAllocation,
         confirmReturnAllocation, retryAllocationArin, dbVars, vars
    <2>2. QED
      BY <2>1, <1>2
  <1>7. QED
    BY <1>4, <1>5, <1>6 DEF Next

\* What the carver answers is carved for the session's request.
LEMMA CarveIsCarved ==
    ASSUME CarveInv, NEW n \in Nics, sess[n].pc = "app_carve",
           NEW s \in sess[n].srcs, Carve(n, s) # NONE
    PROVE  Carved(Carve(n, s), s, requests[sess[n].req])
  <1>0. /\ requests \in [Requests -> RequestRow] /\ sess \in [Nics -> SessionRow]
        /\ SessionsBound /\ SessionCarve(sess[n])
    BY Rows DEF Inv, CarveInv
  <1>1. s \in Supernets /\ sess[n].req \in Requests
    BY <1>0 DEF SessionRow, SessionsBound, ApprovePc
  <1>2. SupernetPrefix[s] \in Prefixes /\ requests[sess[n].req].len \in Int
    BY <1>0, <1>1, SupernetPrefixAssumption DEF RequestRow
  <1>3. /\ Carve(n, s) \in [addr : 0 .. (2^AddrBits - 1), bits : Int]
        /\ Carve(n, s).bits = requests[sess[n].req].len
        /\ Addresses(Carve(n, s)) \subseteq Addresses(SupernetPrefix[s])
    BY <1>2, FirstFreeIsFree DEF Carve
  <1>4. SupernetFamily[s] = requests[sess[n].req].fam
    BY <1>0 DEF SessionCarve
  <1>5. QED
    BY <1>1, <1>3, <1>4 DEF Carved

\* Every statement of a call leaves its session with what it has to know.
LEMMA StepSessions ==
    ASSUME CarveInv, [Next]_vars, NEW m \in Nics
    PROVE  SessionCarve(sess[m])'
  <1>0. /\ pools \in [Pools -> PoolRow] /\ requests \in [Requests -> RequestRow]
        /\ source \in [Supernets -> Pools \cup {NONE}]
        /\ sess \in [Nics -> SessionRow] /\ SessionsBound /\ SourcesMatch
        /\ \A n \in Nics : SessionCarve(sess[n])
    BY Rows DEF Inv, CarveInv
  <1>1. CASE sess'[m] = sess[m]
    BY <1>0, <1>1, StepKept, SessionKept DEF CarveInv
  <1>2. CASE sess'[m] = Idle
    BY <1>2, IdleCarves
  <1>3. ASSUME NEW n \in Nics, NEW p \in Pools, DeleteCheck(n, p)
        PROVE  SessionCarve(sess[m])'
    <2>1. CASE n = m
      BY <1>0, <1>3, <2>1 DEF DeleteCheck, Idle, SessionCarve, ApprovePc
    <2>2. CASE n # m
      BY <1>0, <1>1, <1>3, <2>2 DEF DeleteCheck
    <2>3. QED
      BY <2>1, <2>2
  <1>4. ASSUME NEW n \in Nics, DeleteDetachAll(n)
        PROVE  SessionCarve(sess[m])'
    <2>1. CASE n = m
      <3>1. sess'[m].pc = "del_row"
        BY <1>0, <1>4, <2>1 DEF DeleteDetachAll, SessionRow
      <3>2. QED
        BY <3>1 DEF SessionCarve, ApprovePc
    <2>2. CASE n # m
      BY <1>0, <1>1, <1>4, <2>2 DEF DeleteDetachAll
    <2>3. QED
      BY <2>1, <2>2
  <1>5. ASSUME NEW n \in Nics, NEW p \in Pools, NEW s \in Supernets,
               AttachCheck(n, p, s) \/ DetachLoad(n, p, s)
        PROVE  SessionCarve(sess[m])'
    <2>1. CASE n = m
      <3>1. CASE AttachCheck(m, p, s)
        BY <1>0, <3>1 DEF AttachCheck, Idle, SessionCarve, ApprovePc, dbVars
      <3>2. CASE DetachLoad(m, p, s)
        BY <1>0, <3>2 DEF DetachLoad, Idle, SessionCarve, ApprovePc, dbVars
      <3>3. QED
        BY <1>5, <2>1, <3>1, <3>2
    <2>2. CASE n # m
      BY <1>0, <1>1, <1>5, <2>2 DEF AttachCheck, DetachLoad
    <2>3. QED
      BY <2>1, <2>2
  <1>6. ASSUME NEW n \in Nics, DetachCount(n)
        PROVE  SessionCarve(sess[m])'
    <2>1. CASE n = m
      <3>1. sess'[m] = Idle \/ sess'[m].pc = "det_write"
        BY <1>0, <1>6, <2>1 DEF DetachCount, SessionRow
      <3>2. QED
        BY <3>1, <1>2 DEF SessionCarve, ApprovePc
    <2>2. CASE n # m
      BY <1>0, <1>1, <1>6, <2>2 DEF DetachCount
    <2>3. QED
      BY <2>1, <2>2
  <1>7. ASSUME NEW n \in Nics, NEW r \in Requests, NEW p \in Pools \cup {NONE},
               ApproveLoad(n, r, p)
        PROVE  SessionCarve(sess[m])'
    <2>1. CASE n = m
      BY <1>0, <1>7, <2>1 DEF ApproveLoad, Idle, SessionCarve, ApprovePc, dbVars
    <2>2. CASE n # m
      BY <1>0, <1>1, <1>7, <2>2 DEF ApproveLoad
    <2>3. QED
      BY <2>1, <2>2
  <1>8. ASSUME NEW n \in Nics, ApprovePool(n)
        PROVE  SessionCarve(sess[m])'
    <2>1. CASE n = m
      <3> DEFINE row == [sess[m] EXCEPT !.pc = "app_srcs",
                    !.arin = IF pools[sess[m].pool].handle = "set" THEN "pending" ELSE "none"]
      <3>1. sess[m] \in SessionRow
        BY <1>0
      <3>2. row.pc = "app_srcs" /\ row.req = sess[m].req /\ row.pool = sess[m].pool
        BY <3>1 DEF SessionRow
      <3>3. CASE sess'[m] = row /\ PoolFits(pools[sess[m].pool], requests[sess[m].req])
        <4>1. /\ sess[m].pc = "app_pool" /\ UNCHANGED dbVars
          BY <1>8, <2>1 DEF ApprovePool
        <4> HIDE DEF row
        <4>2. QED
          BY <1>0, <3>2, <3>3, <4>1 DEF SessionCarve, PoolFits, ApprovePc, dbVars
      <3>4. QED
        BY <1>0, <1>2, <1>8, <2>1, <3>3 DEF ApprovePool
    <2>2. CASE n # m
      BY <1>0, <1>1, <1>8, <2>2 DEF ApprovePool
    <2>3. QED
      BY <2>1, <2>2
  <1>9. ASSUME NEW n \in Nics, ApproveSources(n)
        PROVE  SessionCarve(sess[m])'
    <2>1. CASE n = m
      <3> DEFINE srcs == {s \in Supernets : source[s] = sess[m].pool}
                 row == [sess[m] EXCEPT !.pc = "app_carve", !.srcs = srcs]
      <3>1. sess[m] \in SessionRow /\ sess[m].pc = "app_srcs" /\ UNCHANGED dbVars
        BY <1>0, <1>9, <2>1 DEF ApproveSources
      <3>2. /\ row.pc = "app_carve" /\ row.req = sess[m].req
            /\ row.pool = sess[m].pool /\ row.srcs = srcs
        BY <3>1 DEF SessionRow
      <3>3. sess[m].pool \in Pools
        BY <1>0, <3>1 DEF SessionsBound, ApprovePc
      <3>4. \A s \in srcs : SupernetFamily[s] = pools[sess[m].pool].fam
        BY <1>0, <3>3, NoneIsNoRow DEF SourcesMatch
      <3>5. CASE sess'[m] = row
        <4> HIDE DEF row, srcs
        <4>1. QED
          BY <1>0, <3>1, <3>2, <3>4, <3>5 DEF SessionCarve, ApprovePc, dbVars
      <3>6. QED
        BY <1>0, <1>2, <1>9, <2>1, <3>5 DEF ApproveSources
    <2>2. CASE n # m
      BY <1>0, <1>1, <1>9, <2>2 DEF ApproveSources
    <2>3. QED
      BY <2>1, <2>2
  <1>10. ASSUME NEW n \in Nics, ApproveCarve(n)
        PROVE  SessionCarve(sess[m])'
    <2>1. CASE n = m
      <3>1. sess[m] \in SessionRow /\ sess[m].pc = "app_carve" /\ UNCHANGED dbVars
        BY <1>0, <1>10, <2>1 DEF ApproveCarve
      <3>2. ASSUME NEW s \in sess[m].srcs, Carve(m, s) # NONE,
                   sess'[m] = [sess[m] EXCEPT !.pc = "app_commit", !.sn = s,
                                              !.prefix = Carve(m, s)]
            PROVE  SessionCarve(sess[m])'
        <4>1. /\ sess'[m].pc = "app_commit" /\ sess'[m].req = sess[m].req
              /\ sess'[m].pool = sess[m].pool /\ sess'[m].sn = s
              /\ sess'[m].prefix = Carve(m, s)
          BY <3>1, <3>2 DEF SessionRow
        <4>2. Carved(Carve(m, s), s, requests[sess[m].req])
          BY <3>1, <3>2, CarveIsCarved
        <4>3. QED
          BY <1>0, <3>1, <4>1, <4>2 DEF SessionCarve, ApprovePc, dbVars, Carved
      <3>3. QED
        BY <1>0, <1>2, <1>10, <2>1, <3>2 DEF ApproveCarve
    <2>2. CASE n # m
      BY <1>0, <1>1, <1>10, <2>2 DEF ApproveCarve
    <2>3. QED
      BY <2>1, <2>2
  <1>11. ASSUME NEW n \in Nics,
                DeleteRow(n) \/ AttachWrite(n) \/ DetachWrite(n) \/ ApproveCommit(n) \/ Abort(n)
        PROVE  SessionCarve(sess[m])'
    <2>1. sess'[m] = Idle \/ sess'[m] = sess[m]
      BY <1>0, <1>11 DEF DeleteRow, AttachWrite, DetachWrite, ApproveCommit, Abort
    <2>2. QED
      BY <2>1, <1>1, <1>2
  <1>12. CASE UNCHANGED vars \/ TenantStep \/ (\E r \in Requests : AllocationStep(r))
              \/ \E p \in Pools, c \in PoolSettings : createPool(p, c) \/ updatePool(p, c)
    <2>1. UNCHANGED sess
      BY <1>12 DEF vars, TenantStep, submitRequest, cancelRequest, rejectRequest,
         AllocationStep, requestReturnAllocation, confirmReturnAllocation,
         retryAllocationArin, createPool, updatePool
    <2>2. QED
      BY <2>1, <1>1
  <1>13. CASE PoolStep
    BY <1>13, <1>3, <1>4, <1>11, <1>12 DEF PoolStep
  <1>14. CASE SourceStep
    BY <1>14, <1>5, <1>6, <1>11 DEF SourceStep
  <1>15. CASE ApproveStep
    BY <1>15, <1>7, <1>8, <1>9, <1>10, <1>11 DEF ApproveStep
  <1>16. QED
    BY <1>12, <1>13, <1>14, <1>15 DEF Next

\* Only a commit makes an allocation, from what its session has carved.
LEMMA StepAllocs ==
    ASSUME CarveInv, [Next]_vars
    PROVE  AllocsCarved'
  <1>0. /\ requests \in [Requests -> RequestRow] /\ allocs \in [Requests -> AllocRow]
        /\ sess \in [Nics -> SessionRow] /\ SessionsBound /\ Inv /\ AllocsCarved
        /\ \A n \in Nics : SessionCarve(sess[n])
    BY Rows DEF Inv, CarveInv
  <1>1. Kept
    BY <1>0, StepKept
  <1> SUFFICES ASSUME NEW r \in Requests, allocs'[r].status # "absent"
               PROVE  /\ requests'[r].status # "absent"
                      /\ Carved(allocs'[r].prefix, allocs'[r].sn, requests'[r])
    BY DEF AllocsCarved, Carved
  <1>2. CASE allocs[r].status # "absent"
    <2>1. allocs'[r].prefix = allocs[r].prefix /\ allocs'[r].sn = allocs[r].sn
      BY <1>0, <1>2, StepForward DEF Forward
    <2>2. QED
      BY <1>0, <1>1, <1>2, <2>1, AllocKept
  <1>3. CASE allocs[r].status = "absent"
    <2>1. ASSUME UNCHANGED allocs PROVE FALSE
      BY <1>3, <2>1
    <2>2. ASSUME NEW n \in Nics, ApproveCommit(n)
          PROVE  /\ requests'[r].status # "absent"
                 /\ Carved(allocs'[r].prefix, allocs'[r].sn, requests'[r])
      <3>1. sess[n].pc = "app_commit" /\ sess[n].req \in Requests
        BY <1>0, <2>2 DEF ApproveCommit, SessionsBound, ApprovePc
      <3>2. r = sess[n].req
        BY <1>0, <1>3, <2>2 DEF ApproveCommit
      <3>3. allocs'[r].prefix = sess[n].prefix /\ allocs'[r].sn = sess[n].sn
        BY <1>0, <1>3, <2>2, <3>1, <3>2 DEF ApproveCommit
      <3>4. requests[r].status # "absent" /\ Carved(sess[n].prefix, sess[n].sn, requests[r])
        BY <1>0, <3>1, <3>2 DEF SessionCarve, ApprovePc
      <3>5. QED
        BY <1>1, <3>3, <3>4 DEF Kept, Carved
    <2>3. ASSUME NEW q \in Requests, AllocationStep(q) PROVE FALSE
      <3>1. CASE q = r
        BY <1>3, <2>3, <3>1 DEF AllocationStep, requestReturnAllocation,
           confirmReturnAllocation, retryAllocationArin
      <3>2. CASE q # r
        <4>1. allocs'[r] = allocs[r]
          BY <1>0, <2>3, <3>2 DEF AllocationStep, requestReturnAllocation,
             confirmReturnAllocation, retryAllocationArin
        <4>2. QED
          BY <1>3, <4>1
      <3>3. QED
        BY <3>1, <3>2
    <2>4. CASE PoolStep \/ SourceStep \/ TenantStep \/ UNCHANGED vars
      <3>1. UNCHANGED allocs
        BY <2>4 DEF PoolStep, createPool, updatePool, DeleteCheck, DeleteDetachAll,
           DeleteRow, SourceStep, AttachCheck, AttachWrite, DetachLoad, DetachCount,
           DetachWrite, TenantStep, submitRequest, cancelRequest, rejectRequest,
           dbVars, vars
      <3>2. QED
        BY <3>1, <2>1
    <2>5. CASE ApproveStep
      <3>1. UNCHANGED allocs \/ \E n \in Nics : ApproveCommit(n)
        BY <2>5 DEF ApproveStep, ApproveLoad, ApprovePool, ApproveSources,
           ApproveCarve, Abort, dbVars
      <3>2. QED
        BY <3>1, <2>1, <2>2
    <2>6. QED
      BY <2>3, <2>4, <2>5 DEF Next
  <1>4. QED
    BY <1>2, <1>3

LEMMA InitCarve == Init => CarveInv
  <1>1. SUFFICES ASSUME Init PROVE CarveInv
    OBVIOUS
  <1>2. SourcesMatch /\ AllocsCarved
    BY <1>1 DEF Init, SourcesMatch, AllocsCarved
  <1>3. \A n \in Nics : SessionCarve(sess[n])
    BY <1>1 DEF Init, SessionCarve, Idle, ApprovePc
  <1>4. QED
    BY <1>1, <1>2, <1>3, InitInv DEF CarveInv

LEMMA StepCarve == CarveInv /\ [Next]_vars => CarveInv'
  <1>1. SUFFICES ASSUME CarveInv, [Next]_vars PROVE CarveInv'
    OBVIOUS
  <1>2. Inv'
    BY <1>1, StepInv DEF CarveInv
  <1>3. SourcesMatch' /\ AllocsCarved'
    BY <1>1, StepSources, StepAllocs
  <1>4. (\A n \in Nics : SessionCarve(sess[n]))'
    BY <1>1, StepSessions
  <1>5. QED
    BY <1>2, <1>3, <1>4 DEF CarveInv

\* Whatever interleaving of approvals, attaches, detaches, pool updates and pool
\* deletions produced it, an allocation has the length its tenant asked for and
\* lies inside a source supernet of the tenant's family.
THEOREM AllocationsAreCarved == Spec => []CarvedAsAsked
  <1>1. CarveInv => CarvedAsAsked
    BY DEF CarveInv, AllocsCarved, Carved, CarvedAsAsked
  <1>2. QED
    BY InitCarve, StepCarve, <1>1, PTL DEF Spec

-----------------------------------------------------------------------------
(***************************************************************************)
(* What the registry promises when NIC review is sequential, which is what *)
(* db/queries/lir_allocations.sql counts on: with one operator call at a   *)
(* time (tenants and allocation holders still act at any moment, and a     *)
(* call may stop half-way) and sources that do not overlap, no address is  *)
(* ever given out twice, and the registry implements the ledger of         *)
(* AllocationLedger.                                                       *)
(***************************************************************************)

OneNic == \A m, n \in Nics : m = n

DisjointSources ==
    \A s, t \in Supernets :
        s # t => Addresses(SupernetPrefix[s]) \cap Addresses(SupernetPrefix[t]) = {}

\* What the only session x has read is still true.
SessionFresh(x) ==
    /\ x.pc = "app_carve" => \A s \in x.srcs : source[s] = x.pool
    /\ x.pc = "app_commit" =>
            /\ source[x.sn] = x.pool
            /\ \A r \in Requests :
                    Live(allocs[r]) => ~prefixesOverlap(x.prefix, allocs[r].prefix)
    /\ x.pc = "att_write" => source[x.sn] = NONE
    /\ x.pc = "det_write" => \A r \in Requests : Live(allocs[r]) => allocs[r].sn # x.sn
    /\ x.pc \in DeletePc => AllocationsOfPool(x.pool) = {}

Fresh == \A n \in Nics : SessionFresh(sess[n])

SeqInv == CarveInv /\ LiveSourceAttached /\ NoOverlap /\ Fresh

\* The allocations only lost or closed rows, and kept the others.
Shrunk ==
    \A r \in Requests :
        /\ allocs'[r].status # "absent" =>
                /\ allocs[r].status # "absent"
                /\ allocs'[r].prefix = allocs[r].prefix
                /\ allocs'[r].pool = allocs[r].pool
                /\ allocs'[r].sn = allocs[r].sn
        /\ Live(allocs'[r]) => Live(allocs[r])

\* A step that adds no allocation and touches neither sources nor sessions.
LEMMA ShrinkKeeps ==
    ASSUME LiveSourceAttached, NoOverlap, Fresh, Shrunk, UNCHANGED <<source, sess>>
    PROVE  LiveSourceAttached' /\ NoOverlap' /\ Fresh'
  <1>1. \A r \in Requests : Live(allocs'[r]) =>
            /\ Live(allocs[r]) /\ allocs'[r].prefix = allocs[r].prefix
            /\ allocs'[r].pool = allocs[r].pool /\ allocs'[r].sn = allocs[r].sn
    BY DEF Shrunk, Live
  <1>2. LiveSourceAttached'
    BY <1>1 DEF LiveSourceAttached
  <1>3. NoOverlap'
    BY <1>1 DEF NoOverlap
  <1>4. Fresh'
    BY <1>1 DEF Fresh, SessionFresh, Shrunk, AllocationsOfPool
  <1>5. QED
    BY <1>2, <1>3, <1>4

\* Two prefixes inside different sources do not overlap.
LEMMA AcrossSources ==
    ASSUME DisjointSources, NEW s \in Supernets, NEW t \in Supernets, s # t,
           NEW c, NEW d, NEW rq, NEW rd, Carved(c, s, rq), Carved(d, t, rd)
    PROVE  ~prefixesOverlap(c, d)
  <1>1. /\ c.addr \in 0 .. (2^AddrBits - 1) /\ d.addr \in 0 .. (2^AddrBits - 1)
        /\ Addresses(c) \subseteq Addresses(SupernetPrefix[s])
        /\ Addresses(d) \subseteq Addresses(SupernetPrefix[t])
    BY DEF Carved
  <1>2. c.addr \in Addresses(c) /\ d.addr \in Addresses(d)
    BY <1>1 DEF Addresses
  <1>3. Contains(c, d.addr) => d.addr \in Addresses(c)
    BY <1>1 DEF Contains, Addresses
  <1>4. Contains(d, c.addr) => c.addr \in Addresses(d)
    BY <1>1 DEF Contains, Addresses
  <1>5. Addresses(SupernetPrefix[s]) \cap Addresses(SupernetPrefix[t]) = {}
    BY DEF DisjointSources
  <1>6. QED
    BY <1>1, <1>2, <1>3, <1>4, <1>5 DEF prefixesOverlap

\* What the carver offers overlaps no live allocation at all, of any source.
LEMMA CarveIsFree ==
    ASSUME SeqInv, DisjointSources, NEW n \in Nics, sess[n].pc = "app_carve",
           NEW s \in sess[n].srcs, Carve(n, s) # NONE,
           NEW r \in Requests, Live(allocs[r])
    PROVE  ~prefixesOverlap(Carve(n, s), allocs[r].prefix)
  <1>0. /\ requests \in [Requests -> RequestRow] /\ sess \in [Nics -> SessionRow]
        /\ SessionsBound /\ AllocsCarved /\ CarveInv
        /\ LiveSourceAttached /\ SessionFresh(sess[n])
    BY Rows DEF SeqInv, Inv, CarveInv, Fresh
  <1>1. s \in Supernets /\ sess[n].req \in Requests
    BY <1>0 DEF SessionRow, SessionsBound, ApprovePc
  <1>2. Carved(Carve(n, s), s, requests[sess[n].req])
    BY <1>0, CarveIsCarved
  <1>3. Carved(allocs[r].prefix, allocs[r].sn, requests[r]) /\ allocs[r].sn \in Supernets
    BY <1>0 DEF AllocsCarved, Carved, Live
  <1>4. CASE allocs[r].sn # s
    BY <1>1, <1>2, <1>3, <1>4, AcrossSources
  <1>5. CASE allocs[r].sn = s
    <2>1. allocs[r].pool = sess[n].pool
      BY <1>0, <1>5 DEF LiveSourceAttached, SessionFresh
    <2>2. allocs[r].prefix \in Occupied(sess[n].pool, s)
      BY <1>5, <2>1 DEF Occupied
    <2>3. SupernetPrefix[s] \in Prefixes /\ requests[sess[n].req].len \in Int
      BY <1>0, <1>1, SupernetPrefixAssumption DEF RequestRow
    <2>4. \A o \in Occupied(sess[n].pool, s) : ~prefixesOverlap(Carve(n, s), o)
      BY <2>3, FirstFreeIsFree DEF Carve
    <2>5. QED
      BY <2>2, <2>4
  <1>6. QED
    BY <1>4, <1>5
\* Steps that neither tenants' nor holders' sessions see: no allocation is added.
LEMMA HolderStep ==
    ASSUME SeqInv, NEW q \in Requests, AllocationStep(q)
    PROVE  LiveSourceAttached' /\ NoOverlap' /\ Fresh'
  <1>0. allocs \in [Requests -> AllocRow]
    BY Rows DEF SeqInv, CarveInv, Inv
  <1>1. AllocationStep(q) => [Next]_vars
    BY DEF Next
  <1>2. \A r \in Requests : Forward(r)
    BY <1>1, StepForward DEF SeqInv, CarveInv
  <1>3. \A r \in Requests : allocs[r].status = "absent" => allocs'[r].status = "absent"
    BY <1>0 DEF AllocationStep, requestReturnAllocation, confirmReturnAllocation,
       retryAllocationArin
  <1>4. UNCHANGED <<source, sess>>
    BY DEF AllocationStep, requestReturnAllocation, confirmReturnAllocation,
       retryAllocationArin
  <1>5. Shrunk
    BY <1>2, <1>3 DEF Forward, Shrunk, Live
  <1>6. QED
    BY <1>4, <1>5, ShrinkKeeps DEF SeqInv

\* A call that only reads leaves the registry as it is.
LEMMA ReadStep ==
    ASSUME SeqInv, UNCHANGED dbVars, \A n \in Nics : SessionFresh(sess[n])'
    PROVE  LiveSourceAttached' /\ NoOverlap' /\ Fresh'
  BY DEF SeqInv, LiveSourceAttached, NoOverlap, Fresh, dbVars

LEMMA IdleFresh ==
    ASSUME NEW n \in Nics, sess'[n] = Idle
    PROVE  SessionFresh(sess[n])'
  BY DEF SessionFresh, Idle, DeletePc

\* With one session, every statement finds what the earlier ones read unchanged.
LEMMA StepSeq ==
    ASSUME OneNic, DisjointSources, SeqInv, [Next]_vars
    PROVE  LiveSourceAttached' /\ NoOverlap' /\ Fresh'
  <1> DEFINE Goal == LiveSourceAttached' /\ NoOverlap' /\ Fresh'
  <1> SUFFICES Goal
    OBVIOUS
  <1>0. /\ pools \in [Pools -> PoolRow] /\ source \in [Supernets -> Pools \cup {NONE}]
        /\ requests \in [Requests -> RequestRow] /\ allocs \in [Requests -> AllocRow]
        /\ sess \in [Nics -> SessionRow]
        /\ SessionsBound /\ ApprovedHasAllocation /\ AllocsCarved
        /\ LiveSourceAttached /\ NoOverlap /\ Fresh
    BY Rows DEF SeqInv, Inv, CarveInv
  <1>a. \A r \in Requests : Live(allocs[r]) =>
            allocs[r].status # "absent" /\ allocs[r].sn \in Supernets /\ allocs[r].pool \in Pools
    BY <1>0 DEF Live, AllocsCarved, Carved, ApprovedHasAllocation
  <1>1. CASE UNCHANGED <<source, allocs, sess>>
    <2>1. Shrunk
      BY <1>1 DEF Shrunk
    <2>2. QED
      BY <1>0, <1>1, <2>1, ShrinkKeeps
  <1>2. ASSUME NEW n \in Nics, UNCHANGED dbVars, sess' = [sess EXCEPT ![n] = Idle]
        PROVE  Goal
    <2>1. \A m \in Nics : sess'[m] = Idle
      BY <1>0, <1>2 DEF OneNic
    <2>2. QED
      BY <1>2, <2>1, IdleFresh, ReadStep
  <1>3. ASSUME NEW n \in Nics, NEW p \in Pools, DeleteCheck(n, p)
        PROVE  Goal
    <2>1. \A m \in Nics : sess'[m] = [Idle EXCEPT !.pc = "del_detach", !.pool = p]
      BY <1>0, <1>3 DEF OneNic, DeleteCheck
    <2>2. AllocationsOfPool(p) = {} /\ UNCHANGED dbVars
      BY <1>3 DEF DeleteCheck
    <2>3. \A m \in Nics : SessionFresh(sess[m])'
      BY <2>1, <2>2 DEF SessionFresh, Idle, DeletePc, AllocationsOfPool, dbVars
    <2>4. QED
      BY <2>2, <2>3, ReadStep
  <1>4. ASSUME NEW n \in Nics, DeleteDetachAll(n)
        PROVE  Goal
    <2>1. /\ sess[n].pc = "del_detach" /\ sess[n] \in SessionRow
          /\ UNCHANGED allocs /\ AllocationsOfPool(sess[n].pool) = {}
      BY <1>0, <1>4 DEF DeleteDetachAll, Fresh, SessionFresh, DeletePc
    <2>2. \A m \in Nics : sess'[m].pc = "del_row" /\ sess'[m].pool = sess[n].pool
      BY <1>0, <1>4, <2>1 DEF OneNic, DeleteDetachAll, SessionRow
    <2>3. Fresh'
      BY <2>1, <2>2 DEF Fresh, SessionFresh, DeletePc, AllocationsOfPool
    <2>4. LiveSourceAttached'
      BY <1>0, <1>a, <1>4, <2>1 DEF DeleteDetachAll, LiveSourceAttached, AllocationsOfPool
    <2>5. QED
      BY <1>0, <2>1, <2>3, <2>4 DEF NoOverlap
  <1>5. ASSUME NEW n \in Nics, DeleteRow(n)
        PROVE  Goal
    <2>1. sess[n].pc = "del_row" /\ UNCHANGED allocs /\ AllocationsOfPool(sess[n].pool) = {}
      BY <1>0, <1>5 DEF DeleteRow, Fresh, SessionFresh, DeletePc
    <2>2. \A m \in Nics : sess'[m] = Idle
      BY <1>0, <1>5 DEF OneNic, DeleteRow
    <2>3. Fresh'
      BY <2>2, IdleFresh DEF Fresh
    <2>4. LiveSourceAttached'
      BY <1>0, <1>a, <1>5, <2>1 DEF DeleteRow, LiveSourceAttached, AllocationsOfPool
    <2>5. QED
      BY <1>0, <2>1, <2>3, <2>4 DEF NoOverlap
  <1>6. ASSUME NEW n \in Nics, NEW p \in Pools, NEW s \in Supernets, AttachCheck(n, p, s)
        PROVE  Goal
    <2>1. \A m \in Nics : sess'[m] = [Idle EXCEPT !.pc = "att_write", !.pool = p, !.sn = s]
      BY <1>0, <1>6 DEF OneNic, AttachCheck
    <2>2. source[s] = NONE /\ UNCHANGED dbVars
      BY <1>6 DEF AttachCheck
    <2>3. \A m \in Nics : SessionFresh(sess[m])'
      BY <2>1, <2>2 DEF SessionFresh, Idle, DeletePc, dbVars
    <2>4. QED
      BY <2>2, <2>3, ReadStep
  <1>7. ASSUME NEW n \in Nics, AttachWrite(n)
        PROVE  Goal
    <2>1. /\ UNCHANGED allocs /\ source[sess[n].sn] = NONE
          /\ sess[n].sn \in Supernets /\ sess[n].pool \in Pools
      BY <1>0, <1>7 DEF AttachWrite, Fresh, SessionFresh, SessionsBound, SourcePc
    <2>2. \A m \in Nics : sess'[m] = Idle
      BY <1>0, <1>7 DEF OneNic, AttachWrite
    <2>3. Fresh'
      BY <2>2, IdleFresh DEF Fresh
    <2>4. LiveSourceAttached'
      BY <1>0, <1>a, <1>7, <2>1, NoneIsNoRow DEF AttachWrite, LiveSourceAttached
    <2>5. QED
      BY <1>0, <2>1, <2>3, <2>4 DEF NoOverlap
  <1>8. ASSUME NEW n \in Nics, NEW p \in Pools, NEW s \in Supernets, DetachLoad(n, p, s)
        PROVE  Goal
    <2>1. \A m \in Nics : sess'[m] = [Idle EXCEPT !.pc = "det_count", !.pool = p, !.sn = s]
      BY <1>0, <1>8 DEF OneNic, DetachLoad
    <2>2. UNCHANGED dbVars
      BY <1>8 DEF DetachLoad
    <2>3. \A m \in Nics : SessionFresh(sess[m])'
      BY <2>1, <2>2 DEF SessionFresh, Idle, DeletePc
    <2>4. QED
      BY <2>2, <2>3, ReadStep
  <1>9. ASSUME NEW n \in Nics, DetachCount(n)
        PROVE  Goal
    <2>0. UNCHANGED dbVars /\ sess[n] \in SessionRow
      BY <1>0, <1>9 DEF DetachCount
    <2>1. CASE sess' = [sess EXCEPT ![n] = Idle]
      BY <1>2, <2>0, <2>1
    <2>2. CASE /\ sess' = [sess EXCEPT ![n].pc = "det_write"]
               /\ ~\E r \in Requests : Live(allocs[r]) /\ allocs[r].sn = sess[n].sn
      <3>1. \A m \in Nics : sess'[m].pc = "det_write" /\ sess'[m].sn = sess[n].sn
        BY <1>0, <2>0, <2>2 DEF OneNic, SessionRow
      <3>2. \A m \in Nics : SessionFresh(sess[m])'
        BY <2>0, <2>2, <3>1 DEF SessionFresh, DeletePc, dbVars
      <3>3. QED
        BY <2>0, <3>2, ReadStep
    <2>3. QED
      BY <1>9, <2>1, <2>2 DEF DetachCount
  <1>10. ASSUME NEW n \in Nics, DetachWrite(n)
        PROVE  Goal
    <2>1. /\ UNCHANGED allocs /\ sess[n].sn \in Supernets
          /\ \A r \in Requests : Live(allocs[r]) => allocs[r].sn # sess[n].sn
      BY <1>0, <1>10 DEF DetachWrite, Fresh, SessionFresh, SessionsBound, SourcePc
    <2>2. \A m \in Nics : sess'[m] = Idle
      BY <1>0, <1>10 DEF OneNic, DetachWrite
    <2>3. Fresh'
      BY <2>2, IdleFresh DEF Fresh
    <2>4. LiveSourceAttached'
      BY <1>0, <1>a, <1>10, <2>1 DEF DetachWrite, LiveSourceAttached
    <2>5. QED
      BY <1>0, <2>1, <2>3, <2>4 DEF NoOverlap
  <1>11. ASSUME NEW n \in Nics, NEW r \in Requests, NEW p \in Pools \cup {NONE},
                ApproveLoad(n, r, p)
        PROVE  Goal
    <2>1. /\ UNCHANGED dbVars
          /\ \A m \in Nics : sess'[m].pc = "app_pool"
      BY <1>0, <1>11 DEF OneNic, ApproveLoad, Idle
    <2>2. \A m \in Nics : SessionFresh(sess[m])'
      BY <2>1 DEF SessionFresh, DeletePc
    <2>3. QED
      BY <2>1, <2>2, ReadStep
  <1>12. ASSUME NEW n \in Nics, ApprovePool(n)
        PROVE  Goal
    <2>0. UNCHANGED dbVars /\ sess[n] \in SessionRow
      BY <1>0, <1>12 DEF ApprovePool
    <2>1. CASE sess' = [sess EXCEPT ![n] = Idle]
      BY <1>2, <2>0, <2>1
    <2>2. CASE sess' # [sess EXCEPT ![n] = Idle]
      <3>1. sess'[n].pc = "app_srcs"
        BY <1>0, <1>12, <2>0, <2>2 DEF ApprovePool, SessionRow
      <3>2. \A m \in Nics : SessionFresh(sess[m])'
        BY <3>1 DEF OneNic, SessionFresh, DeletePc
      <3>3. QED
        BY <2>0, <3>2, ReadStep
    <2>3. QED
      BY <2>1, <2>2
  <1>13. ASSUME NEW n \in Nics, ApproveSources(n)
        PROVE  Goal
    <2> DEFINE srcs == {s \in Supernets : source[s] = sess[n].pool}
               row == [sess[n] EXCEPT !.pc = "app_carve", !.srcs = srcs]
    <2>0. UNCHANGED dbVars /\ sess[n] \in SessionRow
      BY <1>0, <1>13 DEF ApproveSources
    <2>1. CASE sess' = [sess EXCEPT ![n] = Idle]
      BY <1>2, <2>0, <2>1
    <2>2. CASE sess' = [sess EXCEPT ![n] = row]
      <3>1. row.pc = "app_carve" /\ row.pool = sess[n].pool /\ row.srcs = srcs
        BY <2>0 DEF SessionRow
      <3>2. \A m \in Nics : sess'[m] = row
        BY <1>0, <2>2 DEF OneNic
      <3> HIDE DEF row
      <3>3. \A m \in Nics : SessionFresh(sess[m])'
        BY <2>0, <3>1, <3>2 DEF SessionFresh, DeletePc, dbVars
      <3>4. QED
        BY <2>0, <3>3, ReadStep
    <2>3. QED
      BY <1>13, <2>1, <2>2 DEF ApproveSources
  <1>14. ASSUME NEW n \in Nics, ApproveCarve(n)
        PROVE  Goal
    <2>0. UNCHANGED dbVars /\ sess[n] \in SessionRow /\ sess[n].pc = "app_carve"
      BY <1>0, <1>14 DEF ApproveCarve
    <2>1. CASE sess' = [sess EXCEPT ![n] = Idle]
      BY <1>2, <2>0, <2>1
    <2>2. ASSUME NEW s \in sess[n].srcs, Carve(n, s) # NONE,
                 sess' = [sess EXCEPT ![n] =
                            [@ EXCEPT !.pc = "app_commit", !.sn = s, !.prefix = Carve(n, s)]]
          PROVE  Goal
      <3> DEFINE row == [sess[n] EXCEPT !.pc = "app_commit", !.sn = s, !.prefix = Carve(n, s)]
      <3>1. /\ row.pc = "app_commit" /\ row.pool = sess[n].pool
            /\ row.sn = s /\ row.prefix = Carve(n, s)
        BY <2>0 DEF SessionRow
      <3>2. \A m \in Nics : sess'[m] = row
        BY <1>0, <2>2 DEF OneNic
      <3>3. source[s] = sess[n].pool
        BY <1>0, <2>0 DEF Fresh, SessionFresh
      <3>4. \A r \in Requests :
                Live(allocs[r]) => ~prefixesOverlap(Carve(n, s), allocs[r].prefix)
        BY <2>0, <2>2, CarveIsFree
      <3> HIDE DEF row
      <3>5. \A m \in Nics : SessionFresh(sess[m])'
        BY <2>0, <3>1, <3>2, <3>3, <3>4 DEF SessionFresh, DeletePc, dbVars
      <3>6. QED
        BY <2>0, <3>5, ReadStep
    <2>3. QED
      BY <1>14, <2>1, <2>2 DEF ApproveCarve
  <1>15. ASSUME NEW n \in Nics, ApproveCommit(n)
        PROVE  Goal
    <2> DEFINE r == sess[n].req
               al == [status |-> "active", pool |-> sess[n].pool, sn |-> sess[n].sn,
                      prefix |-> sess[n].prefix, arin |-> sess[n].arin,
                      net |-> FALSE, attempts |-> 0, due |-> TRUE, err |-> "none"]
    <2>0. /\ r \in Requests /\ UNCHANGED source /\ source[sess[n].sn] = sess[n].pool
          /\ \A q \in Requests :
                Live(allocs[q]) => ~prefixesOverlap(sess[n].prefix, allocs[q].prefix)
      BY <1>0, <1>15 DEF ApproveCommit, SessionsBound, ApprovePc, Fresh, SessionFresh
    <2>1. \A m \in Nics : sess'[m] = Idle
      BY <1>0, <1>15 DEF OneNic, ApproveCommit
    <2>2. Fresh'
      BY <2>1, IdleFresh DEF Fresh
    <2>3. CASE UNCHANGED allocs
      BY <1>0, <2>0, <2>2, <2>3 DEF LiveSourceAttached, NoOverlap
    <2>4. CASE allocs' = [allocs EXCEPT ![r] = al]
      <3>1. /\ al.prefix = sess[n].prefix /\ al.sn = sess[n].sn /\ al.pool = sess[n].pool
        OBVIOUS
      <3> HIDE DEF al, r
      <3>2. LiveSourceAttached'
        BY <1>0, <2>0, <2>4, <3>1 DEF LiveSourceAttached
      <3>3. NoOverlap'
        BY <1>0, <2>0, <2>4, <3>1 DEF NoOverlap, prefixesOverlap
      <3>4. QED
        BY <2>2, <3>2, <3>3
    <2>5. QED
      BY <1>15, <2>3, <2>4 DEF ApproveCommit
  <1>16. ASSUME NEW n \in Nics, Abort(n)
        PROVE  Goal
    BY <1>2, <1>16 DEF Abort
  <1>17. CASE TenantStep \/ UNCHANGED vars
              \/ \E p \in Pools, c \in PoolSettings : createPool(p, c) \/ updatePool(p, c)
    <2>1. UNCHANGED <<source, allocs, sess>>
      BY <1>17 DEF vars, TenantStep, submitRequest, cancelRequest, rejectRequest,
         createPool, updatePool
    <2>2. QED
      BY <2>1, <1>1
  <1>18. ASSUME NEW q \in Requests, AllocationStep(q)
        PROVE  Goal
    BY <1>18, HolderStep
  <1> HIDE DEF Goal
  <1>19. CASE PoolStep
    BY <1>19, <1>3, <1>4, <1>5, <1>17 DEF PoolStep
  <1>20. CASE SourceStep
    BY <1>20, <1>6, <1>7, <1>8, <1>9, <1>10 DEF SourceStep
  <1>21. CASE ApproveStep
    BY <1>21, <1>11, <1>12, <1>13, <1>14, <1>15, <1>16 DEF ApproveStep
  <1>22. QED
    BY <1>17, <1>18, <1>19, <1>20, <1>21 DEF Next

LEMMA InitSeq == Init => SeqInv
  <1>1. SUFFICES ASSUME Init PROVE SeqInv
    OBVIOUS
  <1>2. LiveSourceAttached /\ NoOverlap
    BY <1>1 DEF Init, LiveSourceAttached, NoOverlap, Live
  <1>3. Fresh
    BY <1>1 DEF Init, Fresh, SessionFresh, Idle, DeletePc
  <1>4. QED
    BY <1>1, <1>2, <1>3, InitCarve DEF SeqInv

\* One NIC operator at a time: two live allocations never share an address, and
\* the source of a live allocation stays attached, for any number of pools,
\* supernets, requests and lengths, whatever tenants and holders do meanwhile.
THEOREM SequentialReviewIsSafe ==
    (OneNic /\ DisjointSources) => (Spec => [](NoOverlap /\ LiveSourceAttached))
  <1> SUFFICES ASSUME OneNic, DisjointSources
               PROVE  Spec => [](NoOverlap /\ LiveSourceAttached)
    OBVIOUS
  <1>1. SeqInv /\ [Next]_vars => SeqInv'
    <2>1. SUFFICES ASSUME SeqInv, [Next]_vars PROVE SeqInv'
      OBVIOUS
    <2>2. CarveInv'
      BY <2>1, StepCarve DEF SeqInv
    <2>3. QED
      BY <2>1, <2>2, StepSeq DEF SeqInv
  <1>2. SeqInv => NoOverlap /\ LiveSourceAttached
    BY DEF SeqInv
  <1>3. QED
    BY InitSeq, <1>1, <1>2, PTL DEF Spec

-----------------------------------------------------------------------------
(* The refinement of the ledger *)

\* submitRequest lets only mask lengths of the family in.
LengthsInFamily ==
    \A r \in Requests : requests[r].status # "absent" => requests[r].len \in 0 .. AddrBits

LEMMA StepLengths ==
    ASSUME Inv, [Next]_vars, LengthsInFamily
    PROVE  LengthsInFamily'
  <1>0. requests \in [Requests -> RequestRow] /\ Kept
    BY Rows, StepKept DEF Inv
  <1>1. ASSUME NEW r \in Requests, NEW f, NEW l \in Lengths, NEW p, submitRequest(r, f, l, p)
        PROVE  LengthsInFamily'
    BY <1>0, <1>1, LengthsAssumption, AddrBitsAssumption DEF submitRequest, LengthsInFamily
  <1>2. CASE \A r \in Requests : requests[r].status = "absent" => requests'[r].status = "absent"
    BY <1>0, <1>2 DEF Kept, LengthsInFamily
  <1>3. CASE UNCHANGED requests
    BY <1>3 DEF LengthsInFamily
  <1>4. CASE PoolStep \/ SourceStep \/ UNCHANGED vars
    <2>1. UNCHANGED requests
      BY <1>4 DEF PoolStep, createPool, updatePool, DeleteCheck, DeleteDetachAll, DeleteRow,
         SourceStep, AttachCheck, AttachWrite, DetachLoad, DetachCount, DetachWrite, dbVars, vars
    <2>2. QED
      BY <2>1, <1>3
  <1>5. CASE TenantStep
    <2>1. CASE \E r \in Requests : cancelRequest(r) \/ rejectRequest(r)
      BY <1>0, <1>2, <2>1 DEF cancelRequest, rejectRequest
    <2>2. QED
      BY <1>1, <1>5, <2>1 DEF TenantStep
  <1>6. CASE ApproveStep
    <2>1. UNCHANGED requests \/ \E n \in Nics : ApproveCommit(n)
      BY <1>6 DEF ApproveStep, ApproveLoad, ApprovePool, ApproveSources, ApproveCarve, Abort, dbVars
    <2>2. ASSUME NEW n \in Nics, ApproveCommit(n)
          PROVE  \A r \in Requests : requests[r].status = "absent" => requests'[r].status = "absent"
      BY <1>0, <2>2 DEF ApproveCommit
    <2>3. QED
      BY <1>2, <1>3, <2>1, <2>2
  <1>7. CASE \E r \in Requests : AllocationStep(r)
    <2>1. UNCHANGED requests
      BY <1>7 DEF AllocationStep, requestReturnAllocation, confirmReturnAllocation, retryAllocationArin
    <2>2. QED
      BY <2>1, <1>3
  <1>8. QED
    BY <1>4, <1>5, <1>6, <1>7 DEF Next

LedgerInv == SeqInv /\ LengthsInFamily

-----------------------------------------------------------------------------
(* The refinement, one lemma for each step of the ledger *)

\* The columns that standing and held are read from.
SameRow(r) ==
    /\ requests'[r].status = requests[r].status
    /\ allocs'[r].status = allocs[r].status
    /\ allocs'[r].prefix = allocs[r].prefix

LEMMA SameRowStands ==
    ASSUME NEW r \in Requests, SameRow(r)
    PROVE  Standing(r)' = Standing(r) /\ HeldAddresses(r)' = HeldAddresses(r)
  BY DEF SameRow, Standing, HeldAddresses, Live

\* A step that changes no such column stutters.
LEMMA LedgerStutters ==
    ASSUME \A r \in Requests : SameRow(r)
    PROVE  UNCHANGED Ledger!ledgerVars
  BY SameRowStands DEF Ledger!ledgerVars

\* A step that moves one request moves it in the ledger.
LEMMA LedgerMoves ==
    ASSUME NEW r \in Requests, NEW from, NEW to, Standing(r) = from, Standing(r)' = to,
           \A q \in Requests \ {r} : SameRow(q)
    PROVE  /\ Ledger!Move(r, from, to)
           /\ [q \in Requests |-> HeldAddresses(q)']
                = [[q \in Requests |-> HeldAddresses(q)] EXCEPT ![r] = HeldAddresses(r)']
  BY SameRowStands DEF Ledger!Move

\* ... and touches no block when the request's holding stays.
LEMMA LedgerMovesOnly ==
    ASSUME NEW r \in Requests, NEW from, NEW to, Standing(r) = from, Standing(r)' = to,
           \A q \in Requests \ {r} : SameRow(q), HeldAddresses(r)' = HeldAddresses(r)
    PROVE  /\ Ledger!Move(r, from, to)
           /\ UNCHANGED [q \in Requests |-> HeldAddresses(q)]
  <1>1. \A q \in Requests : HeldAddresses(q)' = HeldAddresses(q)
    BY SameRowStands
  <1>2. QED
    BY <1>1, LedgerMoves

LEMMA SubmitIsAsk ==
    ASSUME LedgerInv, NEW r \in Requests, NEW f, NEW l, NEW p, submitRequest(r, f, l, p)
    PROVE  Ledger!Ask(r)
  <1>0. requests \in [Requests -> RequestRow] /\ ApprovedHasAllocation
    BY Rows DEF LedgerInv, SeqInv, CarveInv, Inv
  <1>1. requests[r].status = "absent" /\ requests'[r].status = "pending_approval"
    BY <1>0 DEF submitRequest
  <1>2. \A q \in Requests \ {r} : SameRow(q)
    BY <1>0 DEF submitRequest, SameRow
  <1>3. Standing(r) = "new" /\ Standing(r)' = "asked"
    BY <1>1 DEF Standing
  <1>4. HeldAddresses(r)' = HeldAddresses(r)
    BY DEF submitRequest, HeldAddresses
  <1>5. QED
    BY <1>2, <1>3, <1>4, LedgerMovesOnly DEF Ledger!Ask

LEMMA WithdrawalAndRefusal ==
    ASSUME LedgerInv, NEW r \in Requests
    PROVE  /\ cancelRequest(r) => Ledger!Withdraw(r)
           /\ rejectRequest(r) => Ledger!Refuse(r)
  <1>0. requests \in [Requests -> RequestRow]
    BY Rows DEF LedgerInv, SeqInv, CarveInv, Inv
  <1>1. ASSUME cancelRequest(r) \/ rejectRequest(r)
        PROVE  /\ \A q \in Requests \ {r} : SameRow(q)
               /\ HeldAddresses(r)' = HeldAddresses(r)
               /\ Standing(r) = "asked"
    BY <1>0, <1>1 DEF cancelRequest, rejectRequest, SameRow, HeldAddresses, Standing
  <1>2. ASSUME cancelRequest(r) PROVE Standing(r)' = "withdrawn"
    BY <1>0, <1>2 DEF cancelRequest, Standing
  <1>3. ASSUME rejectRequest(r) PROVE Standing(r)' = "refused"
    BY <1>0, <1>3 DEF rejectRequest, Standing
  <1>4. QED
    BY <1>1, <1>2, <1>3, LedgerMovesOnly DEF Ledger!Withdraw, Ledger!Refuse

\* The block an approval commits: what the session carved is disjoint from
\* every live allocation, because nobody else approved in between.
LEMMA ApprovalIsGrant ==
    ASSUME LedgerInv, NEW n \in Nics, ApproveCommit(n), ~UNCHANGED <<requests, allocs>>,
           NEW r \in Requests, NEW c, r = sess[n].req, c = sess[n].prefix
    PROVE  Ledger!Grant(r)
  <1>0. /\ requests \in [Requests -> RequestRow] /\ allocs \in [Requests -> AllocRow]
        /\ sess \in [Nics -> SessionRow] /\ SessionsBound /\ ApprovedHasAllocation
        /\ AllocsCarved /\ SessionCarve(sess[n]) /\ SessionFresh(sess[n]) /\ LengthsInFamily
    BY Rows DEF LedgerInv, SeqInv, CarveInv, Inv, Fresh
  <1>1. sess[n].pc = "app_commit" /\ requests[r].status = "pending_approval"
    BY <1>0 DEF ApproveCommit
  <1>2. /\ requests'[r].status = "approved" /\ allocs'[r].status = "active"
        /\ allocs'[r].prefix = c
        /\ \A q \in Requests \ {r} : requests'[q] = requests[q] /\ allocs'[q] = allocs[q]
    <2>1. /\ requests' = [requests EXCEPT ![r] =
                  [@ EXCEPT !.status = "approved", !.approved = sess[n].pool]]
          /\ allocs' = [allocs EXCEPT ![r] =
                  [status |-> "active", pool |-> sess[n].pool, sn |-> sess[n].sn,
                   prefix |-> c, arin |-> sess[n].arin,
                   net |-> FALSE, attempts |-> 0, due |-> TRUE, err |-> "none"]]
      BY DEF ApproveCommit
    <2>2. requests[r] \in RequestRow
      BY <1>0
    <2>3. requests'[r].status = "approved"
      BY <1>0, <2>1, <2>2 DEF RequestRow
    <2>4. QED
      BY <1>0, <2>1, <2>3
  <1>3. allocs[r].status = "absent"
    BY <1>0, <1>1 DEF ApprovedHasAllocation
  <1>4. Ledger!Move(r, "asked", "granted")
        /\ [q \in Requests |-> HeldAddresses(q)']
             = [[q \in Requests |-> HeldAddresses(q)] EXCEPT ![r] = HeldAddresses(r)']
    <2>1. Standing(r) = "asked" /\ Standing(r)' = "granted"
      BY <1>1, <1>2 DEF Standing
    <2>2. \A q \in Requests \ {r} : SameRow(q)
      BY <1>2 DEF SameRow
    <2>3. QED
      BY <1>1, <2>1, <2>2, LedgerMoves
  <1>5. HeldAddresses(r)' = Addresses(c)
    BY <1>2 DEF HeldAddresses, Live
  <1>6. IsPrefix(c)
    BY <1>0, <1>1 DEF SessionCarve, Carved, LengthsInFamily, IsPrefix
  <1>7. Addresses(c) # {}
    <2>1. c.addr \in Addresses(c)
      BY <1>6 DEF IsPrefix, Addresses
    <2>2. QED
      BY <2>1
  <1>8. ASSUME NEW q \in Requests \ {r}
        PROVE  Addresses(c) \cap HeldAddresses(q) = {}
    <2>1. CASE ~Live(allocs[q])
      BY <2>1 DEF HeldAddresses
    <2>2. CASE Live(allocs[q])
      <3>1. ~prefixesOverlap(c, allocs[q].prefix)
        BY <1>0, <1>1, <2>2 DEF SessionFresh
      <3>2. IsPrefix(allocs[q].prefix)
        BY <1>0, <2>2 DEF AllocsCarved, Carved, LengthsInFamily, IsPrefix, Live
      <3>3. QED
        BY <1>6, <2>2, <3>1, <3>2, OverlapIsSharing DEF HeldAddresses
    <2>3. QED
      BY <2>1, <2>2
  <1>9. Addresses(c) \in SUBSET (0 .. (2^AddrBits - 1))
    BY DEF Addresses
  <1>10. Ledger!FreeFor(r, Addresses(c))
    BY <1>7, <1>8 DEF Ledger!FreeFor
  <1>11. QED
    BY <1>4, <1>5, <1>9, <1>10 DEF Ledger!Grant

\* What the holder of an allocation does, and the retry of an ARIN job.
LEMMA HolderKeepsLedger ==
    ASSUME LedgerInv, NEW r \in Requests, AllocationStep(r)
    PROVE  \/ Ledger!OfferReturn(r) \/ Ledger!TakeBack(r)
           \/ \A q \in Requests : SameRow(q)
  <1>0. /\ allocs \in [Requests -> AllocRow] /\ ApprovedHasAllocation
        /\ allocs[r] \in AllocRow
    BY Rows DEF LedgerInv, SeqInv, CarveInv, Inv
  <1>1. UNCHANGED requests /\ \A q \in Requests \ {r} : SameRow(q)
    BY <1>0 DEF AllocationStep, requestReturnAllocation, confirmReturnAllocation,
       retryAllocationArin, SameRow
  <1>2. allocs[r].status # "absent" => requests[r].status = "approved"
    BY <1>0 DEF ApprovedHasAllocation
  <1>3. CASE requestReturnAllocation(r)
    <2>1. allocs[r].status = "active" /\ allocs'[r] = [allocs[r] EXCEPT !.status = "return_requested"]
      BY <1>0, <1>3 DEF requestReturnAllocation
    <2>2. /\ allocs'[r].status = "return_requested" /\ allocs'[r].prefix = allocs[r].prefix
      BY <1>0, <2>1 DEF AllocRow
    <2>3. Standing(r) = "granted" /\ Standing(r)' = "returning"
      BY <1>1, <1>2, <2>1, <2>2 DEF Standing
    <2>4. HeldAddresses(r)' = HeldAddresses(r)
      BY <2>1, <2>2 DEF HeldAddresses, Live
    <2>5. QED
      BY <1>1, <2>3, <2>4, LedgerMovesOnly DEF Ledger!OfferReturn
  <1>4. CASE confirmReturnAllocation(r)
    <2>1. /\ allocs[r].status = "return_requested"
          /\ \/ allocs'[r] = [allocs[r] EXCEPT !.status = "returned", !.arin = "removing",
                                   !.attempts = 0, !.due = TRUE, !.err = "none"]
             \/ allocs'[r] = [allocs[r] EXCEPT !.status = "returned"]
      BY <1>0, <1>4 DEF confirmReturnAllocation
    <2>2. allocs'[r].status = "returned"
      BY <1>0, <2>1 DEF AllocRow
    <2>3. Standing(r) = "returning" /\ Standing(r)' = "returned"
      BY <1>1, <1>2, <2>1, <2>2 DEF Standing
    <2>4. HeldAddresses(r)' = {}
      BY <2>2 DEF HeldAddresses, Live
    <2>5. QED
      BY <1>1, <2>3, <2>4, LedgerMoves DEF Ledger!TakeBack
  <1>5. CASE retryAllocationArin(r)
    <2>1. allocs'[r] = [allocs[r] EXCEPT
                          !.arin = IF allocs[r].net THEN "removing" ELSE "pending",
                          !.attempts = 0, !.due = TRUE, !.err = "none"]
      BY <1>0, <1>5 DEF retryAllocationArin
    <2>2. allocs'[r].status = allocs[r].status /\ allocs'[r].prefix = allocs[r].prefix
      BY <1>0, <2>1 DEF AllocRow
    <2>3. QED
      BY <1>1, <2>2 DEF SameRow
  <1>6. QED
    BY <1>3, <1>4, <1>5 DEF AllocationStep

\* Every step of the registry is a step of the ledger, or none.
LEMMA StepLedger ==
    ASSUME LedgerInv, [Next]_vars
    PROVE  [Ledger!LedgerNext]_(Ledger!ledgerVars)
  <1>1. CASE UNCHANGED <<requests, allocs>>
    <2>1. \A r \in Requests : SameRow(r)
      BY <1>1 DEF SameRow
    <2>2. QED
      BY <2>1, LedgerStutters
  <1>2. CASE PoolStep \/ SourceStep \/ UNCHANGED vars
    <2>1. UNCHANGED <<requests, allocs>>
      BY <1>2 DEF PoolStep, createPool, updatePool, DeleteCheck, DeleteDetachAll, DeleteRow,
         SourceStep, AttachCheck, AttachWrite, DetachLoad, DetachCount, DetachWrite, dbVars, vars
    <2>2. QED
      BY <1>1, <2>1
  <1>3. CASE TenantStep
    BY <1>3, SubmitIsAsk, WithdrawalAndRefusal DEF TenantStep, Ledger!LedgerNext
  <1>4. CASE ApproveStep
    <2>1. UNCHANGED <<requests, allocs>> \/ \E n \in Nics : ApproveCommit(n)
      BY <1>4 DEF ApproveStep, ApproveLoad, ApprovePool, ApproveSources, ApproveCarve, Abort, dbVars
    <2>2. ASSUME NEW n \in Nics, ApproveCommit(n), ~UNCHANGED <<requests, allocs>>
          PROVE  Ledger!LedgerNext
      <3>1. sess[n].req \in Requests
        BY <2>2 DEF LedgerInv, SeqInv, CarveInv, Inv, ApproveCommit, SessionsBound, ApprovePc
      <3>2. QED
        BY <2>2, <3>1, ApprovalIsGrant DEF Ledger!LedgerNext
    <2>3. QED
      BY <1>1, <2>1, <2>2
  <1>5. CASE \E r \in Requests : AllocationStep(r)
    BY <1>5, HolderKeepsLedger, LedgerStutters DEF Ledger!LedgerNext
  <1>6. QED
    BY <1>2, <1>3, <1>4, <1>5 DEF Next

LEMMA InitLedger == Init => LedgerInv /\ Ledger!LedgerInit
  <1> SUFFICES ASSUME Init PROVE LedgerInv /\ Ledger!LedgerInit
    OBVIOUS
  <1>1. LedgerInv
    BY InitSeq DEF Init, LedgerInv, LengthsInFamily
  <1>2. \A r \in Requests : Standing(r) = "new" /\ HeldAddresses(r) = {}
    BY DEF Init, Standing, HeldAddresses, Live
  <1>3. QED
    BY <1>1, <1>2 DEF Ledger!LedgerInit

\* With one operator at a time and disjoint sources the registry is a ledger:
\* a block goes to one tenant, comes back only by a confirmed return, and an
\* answer is never changed, for any number of pools, supernets, requests,
\* lengths and operators' settings (lir/approval.go, lir/returns.go).
THEOREM RegistryImplementsLedger ==
    (OneNic /\ DisjointSources) => (Spec => RegistryKeepsLedger)
  <1> SUFFICES ASSUME OneNic, DisjointSources PROVE Spec => RegistryKeepsLedger
    OBVIOUS
  <1>1. LedgerInv /\ [Next]_vars => LedgerInv'
    <2>1. SUFFICES ASSUME LedgerInv, [Next]_vars PROVE LedgerInv'
      OBVIOUS
    <2>2. CarveInv' /\ LengthsInFamily'
      BY <2>1, StepCarve, StepLengths DEF LedgerInv, SeqInv, CarveInv
    <2>3. QED
      BY <2>1, <2>2, StepSeq DEF LedgerInv, SeqInv
  <1>2. LedgerInv /\ [Next]_vars => [Ledger!LedgerNext]_(Ledger!ledgerVars)
    BY StepLedger
  <1>3. QED
    BY InitLedger, <1>1, <1>2, PTL DEF Spec, RegistryKeepsLedger, Ledger!LedgerSpec

-----------------------------------------------------------------------------
(* The ARIN feed: a claimed row stays what it was when it was claimed, so   *)
(* the columns never say of ARIN what is not so.                            *)

Calling == {"submit_call", "submit_mark", "remove_call", "remove_mark"}
WorkerRow == [pc : {"idle", "submit", "remove"} \cup Calling, row : Requests \cup {NONE},
              reply : {"none", "ok", "transient", "permanent"}, processed : Nat]

\* A worker holds a row exactly while it is in a transaction, and no two hold
\* the same one (SKIP LOCKED).
WorkersBound ==
    /\ workers \in [Workers -> WorkerRow]
    /\ \A w \in Workers : workers[w].row \in Requests <=> workers[w].pc \in Calling
OneHolder ==
    \A v, w \in Workers : workers[v].row \in Requests /\ workers[v].row = workers[w].row => v = w

\* A claimed row exists, and an answer that was received is true until it is
\* recorded.
Holds(w) ==
    LET x == workers[w]
    IN  /\ x.pc \in Calling => allocs[x.row].status # "absent"
        /\ x.pc \in {"submit_call", "submit_mark"} =>
              ~allocs[x.row].net /\ allocs[x.row].arin \in {"pending", "failed"}
        /\ x.pc \in {"remove_call", "remove_mark"} =>
              /\ allocs[x.row].net
              /\ allocs[x.row].status = "returned"
              /\ allocs[x.row].arin \in {"removing", "failed"}
        /\ x.pc = "submit_mark" /\ x.reply = "ok" => x.row \in upstream
        /\ x.pc = "remove_mark" /\ x.reply = "ok" => x.row \notin upstream

\* ColumnsMatchArin for one row.
Matches(r) ==
    /\ allocs[r].arin = "registered" => r \in upstream /\ allocs[r].net
    /\ allocs[r].arin = "removed" => r \notin upstream /\ allocs[r].net
    /\ allocs[r].net /\ allocs[r].arin # "registered" => allocs[r].status = "returned"

FeedInv ==
    /\ Inv /\ WorkersBound /\ OneHolder
    /\ \A w \in Workers : Holds(w)
    /\ \A r \in Requests : Matches(r)

LEMMA FeedInitInv == FeedInit => FeedInv
  <1> SUFFICES ASSUME FeedInit PROVE FeedInv
    OBVIOUS
  <1>1. Inv
    BY InitInv DEF FeedInit
  <1>2. WorkersBound /\ OneHolder /\ \A w \in Workers : Holds(w)
    BY NoneIsNoRow DEF FeedInit, WorkersBound, OneHolder, Holds, Resting, WorkerRow, Calling
  <1>3. \A r \in Requests : Matches(r)
    BY DEF FeedInit, Init, Matches
  <1>4. QED
    BY <1>1, <1>2, <1>3 DEF FeedInv

\* A worker that does not move keeps what it holds while its row and ARIN's record
\* of that row stay.
LEMMA HoldsKept ==
    ASSUME NEW v \in Workers, Holds(v), workers'[v] = workers[v],
           workers[v].pc \in Calling =>
                /\ allocs'[workers[v].row] = allocs[workers[v].row]
                /\ workers[v].row \in upstream' <=> workers[v].row \in upstream
    PROVE  Holds(v)'
  BY DEF Holds, Calling

\* A worker that is not in a transaction holds nothing.
LEMMA NothingHeld ==
    ASSUME NEW v \in Workers, workers'[v].pc \notin Calling
    PROVE  Holds(v)'
  BY DEF Holds, Calling

LEMMA MatchesKept ==
    ASSUME NEW r \in Requests, Matches(r), allocs'[r] = allocs[r],
           r \in upstream' <=> r \in upstream
    PROVE  Matches(r)'
  BY DEF Matches

\* The registry's invariant does not read the ARIN columns.
LEMMA ArinColumnsOnly ==
    ASSUME Inv, NEW r \in Requests, NEW a \in AllocRow,
           a.status = allocs[r].status, a.pool = allocs[r].pool,
           allocs' = [allocs EXCEPT ![r] = a], UNCHANGED <<pools, source, requests, sess>>
    PROVE  Inv'
  <1>0. allocs \in [Requests -> AllocRow]
    BY Rows DEF Inv
  <1>1. TypeOK'
    BY <1>0, Rows, RowsNext DEF Inv
  <1>2. SessionsBound'
    BY DEF Inv, SessionsBound
  <1>3. ApprovedHasAllocation'
    BY <1>0 DEF Inv, ApprovedHasAllocation
  <1>4. QED
    BY <1>1, <1>2, <1>3 DEF Inv

\* A registry handler changes an allocation only while no worker has it locked, and
\* leaves its columns true of ARIN.
LEMMA RegistryMoves ==
    ASSUME FeedInv, RegistryStep, NEW r \in Requests
    PROVE  allocs'[r] = allocs[r] \/ (~Locked(r) /\ Matches(r)')
  <1>0. /\ allocs \in [Requests -> AllocRow] /\ requests \in [Requests -> RequestRow]
        /\ sess \in [Nics -> SessionRow]
        /\ SessionsBound /\ ApprovedHasAllocation /\ Matches(r)
        /\ upstream' = upstream
    BY Rows DEF FeedInv, Inv, RegistryStep, feedVars
  <1>1. CASE UNCHANGED allocs
    BY <1>1
  <1>2. ASSUME NEW q \in Requests, ~Locked(q), AllocationStep(q)
        PROVE  allocs'[r] = allocs[r] \/ (~Locked(r) /\ Matches(r)')
    <2>1. CASE q # r
      BY <1>0, <1>2, <2>1 DEF AllocationStep, requestReturnAllocation,
         confirmReturnAllocation, retryAllocationArin
    <2>2. CASE q = r
      <3>1. allocs[r] \in AllocRow
        BY <1>0
      <3>2. CASE requestReturnAllocation(r)
        BY <1>0, <1>2, <2>2, <3>1, <3>2 DEF requestReturnAllocation, AllocRow, Matches
      <3>3. CASE confirmReturnAllocation(r)
        <4>1. \/ /\ allocs[r].arin = "registered"
                 /\ allocs'[r] = [allocs[r] EXCEPT !.status = "returned", !.arin = "removing",
                                     !.attempts = 0, !.due = TRUE, !.err = "none"]
              \/ /\ allocs[r].arin # "registered"
                 /\ allocs'[r] = [allocs[r] EXCEPT !.status = "returned"]
          BY <1>0, <3>3 DEF confirmReturnAllocation
        <4>2. Matches(r)'
          BY <1>0, <3>1, <4>1 DEF AllocRow, Matches
        <4>3. QED
          BY <1>2, <2>2, <4>2
      <3>4. CASE retryAllocationArin(r)
        <4>1. /\ allocs[r].arin \in {"failed", "none"}
              /\ allocs'[r] = [allocs[r] EXCEPT
                              !.arin = IF allocs[r].net THEN "removing" ELSE "pending",
                              !.attempts = 0, !.due = TRUE, !.err = "none"]
          BY <1>0, <3>4 DEF retryAllocationArin
        <4>2. Matches(r)'
          BY <1>0, <3>1, <4>1 DEF AllocRow, Matches
        <4>3. QED
          BY <1>2, <2>2, <4>2
      <3>5. QED
        BY <1>2, <2>2, <3>2, <3>3, <3>4 DEF AllocationStep
    <2>3. QED
      BY <2>1, <2>2
  <1>3. ASSUME NEW n \in Nics, ApproveCommit(n)
        PROVE  allocs'[r] = allocs[r] \/ (~Locked(r) /\ Matches(r)')
    <2>1. CASE r = sess[n].req /\ requests[r].status = "pending_approval" /\ allocs' # allocs
      <3>1. allocs[r].status = "absent"
        BY <1>0, <2>1 DEF ApprovedHasAllocation
      <3>2. ~Locked(r)
        BY <3>1 DEF Locked, FeedInv, WorkersBound, Holds
      <3>3. allocs'[r].net = FALSE /\ allocs'[r].arin = sess[n].arin
        BY <1>0, <1>3, <2>1 DEF ApproveCommit
      <3>4. sess[n].arin \in {"none", "pending"}
        BY <1>0 DEF SessionRow
      <3>5. QED
        BY <3>2, <3>3, <3>4 DEF Matches
    <2>2. QED
      BY <1>0, <1>3, <2>1 DEF ApproveCommit
  <1>4. CASE PoolStep \/ SourceStep \/ TenantStep
    <2>1. UNCHANGED allocs
      BY <1>4 DEF PoolStep, createPool, updatePool, DeleteCheck, DeleteDetachAll,
         DeleteRow, SourceStep, AttachCheck, AttachWrite, DetachLoad, DetachCount,
         DetachWrite, TenantStep, submitRequest, cancelRequest, rejectRequest, dbVars
    <2>2. QED
      BY <2>1, <1>1
  <1>5. CASE ApproveStep
    <2>1. UNCHANGED allocs \/ \E n \in Nics : ApproveCommit(n)
      BY <1>5 DEF ApproveStep, ApproveLoad, ApprovePool, ApproveSources,
         ApproveCarve, Abort, dbVars
    <2>2. QED
      BY <2>1, <1>1, <1>3
  <1>6. QED
    BY <1>2, <1>4, <1>5 DEF RegistryStep

LEMMA RegistryKeeps ==
    ASSUME FeedInv, RegistryStep
    PROVE  FeedInv'
  <1>1. UNCHANGED feedVars /\ [Next]_vars
    BY DEF RegistryStep, Next
  <1>2. Inv'
    BY <1>1, StepInv DEF FeedInv
  <1>3. WorkersBound' /\ OneHolder'
    BY <1>1 DEF FeedInv, feedVars, WorkersBound, OneHolder
  <1>4. ASSUME NEW w \in Workers PROVE Holds(w)'
    <2>1. workers'[w] = workers[w] /\ upstream' = upstream
      BY <1>1 DEF feedVars
    <2>2. workers[w].pc \in Calling => workers[w].row \in Requests /\ Locked(workers[w].row)
      BY DEF FeedInv, WorkersBound, Locked
    <2>3. workers[w].pc \in Calling => allocs'[workers[w].row] = allocs[workers[w].row]
      BY <2>2, RegistryMoves
    <2>4. QED
      BY <2>1, <2>3, HoldsKept DEF FeedInv
  <1>5. ASSUME NEW r \in Requests PROVE Matches(r)'
    BY <1>1, RegistryMoves, MatchesKept DEF FeedInv, feedVars
  <1>6. QED
    BY <1>2, <1>3, <1>4, <1>5 DEF FeedInv

\* A worker moves between its queues, or dies, without a row in its hands.
LEMMA LetGoKeeps ==
    ASSUME FeedInv, NEW w \in Workers, NEW x \in WorkerRow,
           x.pc \notin Calling, x.row = NONE, workers' = [workers EXCEPT ![w] = x],
           UNCHANGED <<vars, upstream>>
    PROVE  FeedInv'
  <1>1. workers \in [Workers -> WorkerRow] /\ workers'[w] = x
    BY DEF FeedInv, WorkersBound
  <1>2. \A v \in Workers : v # w => workers'[v] = workers[v]
    BY <1>1
  <1>3. Inv'
    BY DEF FeedInv, Inv, vars, TypeOK, SessionsBound, ApprovedHasAllocation
  <1>4. WorkersBound'
    BY <1>1, <1>2, NoneIsNoRow DEF FeedInv, WorkersBound
  <1>5. OneHolder'
    BY <1>1, <1>2, NoneIsNoRow DEF FeedInv, OneHolder
  <1>6. \A v \in Workers : Holds(v)'
    BY <1>1, <1>2, HoldsKept, NothingHeld DEF FeedInv, vars
  <1>7. \A r \in Requests : Matches(r)'
    BY MatchesKept DEF FeedInv, vars
  <1>8. QED
    BY <1>3, <1>4, <1>5, <1>6, <1>7 DEF FeedInv

\* A claim takes an existing row that no other worker holds (SKIP LOCKED), in the
\* state the claim query asked for.
LEMMA ClaimKeeps ==
    ASSUME FeedInv, NEW w \in Workers, ClaimSubmit(w) \/ ClaimRemove(w)
    PROVE  FeedInv'
  <1> DEFINE x(to, r) == [workers[w] EXCEPT !.pc = to, !.row = r]
  <1>0. /\ workers \in [Workers -> WorkerRow] /\ allocs \in [Requests -> AllocRow]
        /\ UNCHANGED <<vars, upstream>>
    BY Rows DEF FeedInv, Inv, WorkersBound, ClaimSubmit, ClaimRemove
  <1>1. PICK r \in Requests, to \in {"submit_call", "remove_call"} :
            /\ workers' = [workers EXCEPT ![w] = x(to, r)]
            /\ to = "submit_call" => Submittable(r)
            /\ to = "remove_call" => Removable(r)
    BY DEF ClaimSubmit, ClaimRemove, FirstByStatus
  <1>2. /\ ~Locked(r) /\ allocs[r].status # "absent"
        /\ to = "submit_call" => ~allocs[r].net /\ allocs[r].arin \in {"pending", "failed"}
        /\ to = "remove_call" => allocs[r].net /\ allocs[r].arin \in {"removing", "failed"}
    BY <1>1 DEF Submittable, Removable, RetryDue
  <1>3. to = "remove_call" => allocs[r].status = "returned"
    BY <1>2 DEF FeedInv, Matches
  <1>4. /\ x(to, r) \in WorkerRow /\ x(to, r).pc = to /\ x(to, r).row = r
        /\ to \in Calling
    BY <1>0 DEF WorkerRow, Calling
  <1>5. /\ workers'[w] = x(to, r)
        /\ \A v \in Workers : v # w => workers'[v] = workers[v]
    BY <1>0, <1>1
  <1> HIDE DEF x
  <1>6. Inv'
    BY <1>0 DEF FeedInv, Inv, vars, TypeOK, SessionsBound, ApprovedHasAllocation
  <1>7. WorkersBound'
    BY <1>0, <1>1, <1>4, <1>5 DEF FeedInv, WorkersBound
  <1>8. OneHolder'
    BY <1>2, <1>4, <1>5 DEF FeedInv, OneHolder, Locked
  <1>9. Holds(w)'
    BY <1>0, <1>1, <1>2, <1>3, <1>4, <1>5 DEF Holds, Calling, vars
  <1>10. \A v \in Workers : Holds(v)'
    BY <1>0, <1>5, <1>9, HoldsKept DEF FeedInv, vars
  <1>11. \A q \in Requests : Matches(q)'
    BY <1>0, MatchesKept DEF FeedInv, vars
  <1>12. QED
    BY <1>6, <1>7, <1>8, <1>10, <1>11 DEF FeedInv

\* While a worker holds row r, what it does to r and to ARIN's record of r reaches
\* no other worker and no other row.
LEMMA OwnRowOnly ==
    ASSUME FeedInv, NEW w \in Workers, workers[w].pc \in Calling, NEW x \in WorkerRow,
           NEW own \in Requests, own = workers[w].row,
           workers' = [workers EXCEPT ![w] = x],
           x.row = IF x.pc \in Calling THEN own ELSE NONE,
           \A r \in Requests : r # own =>
                /\ allocs'[r] = allocs[r]
                /\ r \in upstream' <=> r \in upstream,
           Inv', Holds(w)', Matches(own)'
    PROVE  FeedInv'
  <1>1. /\ workers \in [Workers -> WorkerRow] /\ workers'[w] = x
    BY DEF FeedInv, WorkersBound
  <1>2. \A v \in Workers : v # w => workers'[v] = workers[v]
    BY <1>1
  <1>3. WorkersBound'
    BY <1>1, <1>2, NoneIsNoRow DEF FeedInv, WorkersBound
  <1>4. OneHolder'
    BY <1>1, <1>2, NoneIsNoRow DEF FeedInv, OneHolder
  <1>5. ASSUME NEW v \in Workers PROVE Holds(v)'
    <2>1. CASE v # w
      <3>1. workers[v].pc \in Calling =>
                workers[v].row \in Requests /\ workers[v].row # own
        BY <1>1, <2>1 DEF FeedInv, WorkersBound, OneHolder
      <3>2. QED
        BY <1>2, <2>1, <3>1, HoldsKept DEF FeedInv
    <2>2. QED
      BY <2>1
  <1>6. ASSUME NEW r \in Requests PROVE Matches(r)'
    <2>1. CASE r # own
      BY <2>1, MatchesKept DEF FeedInv
    <2>2. QED
      BY <2>1
  <1>7. QED
    BY <1>3, <1>4, <1>5, <1>6 DEF FeedInv

\* A call to ARIN changes ARIN's record of the worker's own row, whose columns say
\* neither registered nor removed while it is made.
LEMMA CallKeeps ==
    ASSUME FeedInv, NEW w \in Workers, SubmitCall(w) \/ RemoveCall(w)
    PROVE  FeedInv'
  <1> DEFINE r == workers[w].row
             x(to, answer) == [workers[w] EXCEPT !.pc = to, !.reply = answer]
  <1>0. /\ workers \in [Workers -> WorkerRow] /\ Holds(w)
        /\ workers[w].pc \in {"submit_call", "remove_call"} /\ UNCHANGED vars
        /\ r \in Requests
    BY DEF FeedInv, WorkersBound, Calling, SubmitCall, RemoveCall
  <1>1. PICK to \in {"submit_mark", "remove_mark"}, answer \in {"ok", "transient", "permanent"} :
            /\ workers' = [workers EXCEPT ![w] = x(to, answer)]
            /\ to = "submit_mark" => /\ workers[w].pc = "submit_call"
                                     /\ upstream' = upstream \cup {r}
                                            \/ (answer # "ok" /\ upstream' = upstream)
            /\ to = "remove_mark" => /\ workers[w].pc = "remove_call"
                                     /\ upstream' = upstream \ {r}
                                            \/ (answer # "ok" /\ upstream' = upstream)
    BY DEF SubmitCall, RemoveCall
  <1>2. /\ x(to, answer) \in WorkerRow /\ x(to, answer).pc = to /\ x(to, answer).row = r
        /\ x(to, answer).reply = answer /\ to \in Calling
    BY <1>0 DEF WorkerRow, Calling
  <1>3. workers'[w] = x(to, answer)
    BY <1>0, <1>1
  <1>4. allocs' = allocs /\ \A q \in Requests : q # r => (q \in upstream' <=> q \in upstream)
    BY <1>0, <1>1 DEF vars
  <1> HIDE DEF x
  <1>5. Inv'
    BY <1>0 DEF FeedInv, Inv, vars, TypeOK, SessionsBound, ApprovedHasAllocation
  <1>6. Holds(w)'
    BY <1>0, <1>1, <1>2, <1>3, <1>4 DEF Holds, Calling
  <1>7. ASSUME NEW own \in Requests, own = r PROVE Matches(own)'
    <2>1. allocs[own].arin \in {"pending", "failed", "removing"}
      BY <1>0, <1>7 DEF Holds
    <2>2. Matches(own)
      BY DEF FeedInv
    <2>3. QED
      BY <1>4, <2>1, <2>2 DEF Matches
  <1>8. workers[w].pc \in Calling
    BY <1>0 DEF Calling
  <1>9. PICK own \in Requests : own = r
    BY <1>0
  <1>10. QED
    BY <1>1, <1>2, <1>4, <1>5, <1>6, <1>7, <1>8, <1>9, OwnRowOnly

\* What a worker records is what ARIN answered, or a failure, and the commit lets
\* the row go.
LEMMA MarkKeeps ==
    ASSUME FeedInv, NEW w \in Workers, SubmitMark(w) \/ RemoveMark(w)
    PROVE  FeedInv'
  <1> DEFINE r == workers[w].row
             next == workers[w].processed + 1
             more == allocs[r].attempts + 1
             x(to) == [Resting EXCEPT !.pc = to, !.processed = next]
             done == [allocs[r] EXCEPT !.arin = "registered", !.net = TRUE,
                                       !.attempts = more, !.due = FALSE, !.err = "none"]
             gone == [allocs[r] EXCEPT !.arin = "removed", !.attempts = more,
                                       !.due = FALSE, !.err = "none"]
             fail == [allocs[r] EXCEPT !.arin = "failed", !.attempts = more,
                                       !.due = FALSE, !.err = workers[w].reply]
  <1>0. /\ workers \in [Workers -> WorkerRow] /\ Holds(w)
        /\ workers[w].pc \in {"submit_mark", "remove_mark"}
        /\ r \in Requests /\ Matches(r)
        /\ allocs \in [Requests -> AllocRow]
        /\ UNCHANGED <<pools, source, requests, sess, upstream>>
    BY Rows DEF FeedInv, Inv, WorkersBound, Calling, SubmitMark, RemoveMark
  <1>1. allocs[r] \in AllocRow /\ workers[w] \in WorkerRow
    BY <1>0
  <1>15. next \in Nat /\ more \in Nat
    BY <1>1 DEF WorkerRow, AllocRow
  <1> HIDE DEF more
  <1>2. PICK to \in {"submit", "remove"} : workers' = [workers EXCEPT ![w] = x(to)]
    BY DEF SubmitMark, RemoveMark
  <1>3. x(to) \in WorkerRow /\ x(to).pc = to /\ x(to).row = NONE /\ to \notin Calling
    BY <1>1, <1>15 DEF WorkerRow, Calling, Resting
  <1>4. workers'[w] = x(to)
    BY <1>0, <1>2
  <1> HIDE DEF x
  <1>5. PICK a \in AllocRow :
            /\ allocs' = [allocs EXCEPT ![r] = a]
            /\ a.status = allocs[r].status /\ a.pool = allocs[r].pool
            /\ \/ a.arin = "failed" /\ a.net = allocs[r].net
               \/ a.arin = "registered" /\ a.net /\ r \in upstream
               \/ a.arin = "removed" /\ a.net = allocs[r].net /\ allocs[r].net
                    /\ allocs[r].status = "returned" /\ r \notin upstream
    <2>1. CASE workers[w].reply # "ok"
      <3>1. allocs' = [allocs EXCEPT ![r] = fail]
        BY <1>0, <2>1 DEF SubmitMark, RemoveMark, Failed, more
      <3>2. workers[w].reply \in {"none", "transient", "permanent"}
        BY <1>1, <2>1 DEF WorkerRow
      <3>3. /\ fail \in AllocRow
            /\ fail.status = allocs[r].status
            /\ fail.pool = allocs[r].pool
            /\ fail.arin = "failed"
            /\ fail.net = allocs[r].net
        BY <1>1, <1>15, <3>2 DEF AllocRow, ArinStatus, ArinErrors
      <3>4. QED
        BY <3>1, <3>3
    <2>2. CASE workers[w].reply = "ok" /\ SubmitMark(w)
      <3>1. allocs' = [allocs EXCEPT ![r] = done]
        BY <1>0, <2>2 DEF SubmitMark, Registered, more
      <3>2. /\ done \in AllocRow
            /\ done.status = allocs[r].status
            /\ done.pool = allocs[r].pool
            /\ done.arin = "registered" /\ done.net
        BY <1>1, <1>15 DEF AllocRow, ArinStatus, ArinErrors
      <3>3. r \in upstream
        BY <1>0, <2>2 DEF Holds, SubmitMark
      <3>4. QED
        BY <3>1, <3>2, <3>3
    <2>3. CASE workers[w].reply = "ok" /\ RemoveMark(w)
      <3>1. allocs' = [allocs EXCEPT ![r] = gone]
        BY <1>0, <2>3 DEF RemoveMark, Removed, more
      <3>2. /\ gone \in AllocRow /\ gone.status = allocs[r].status
            /\ gone.pool = allocs[r].pool /\ gone.net = allocs[r].net
            /\ gone.arin = "removed"
        BY <1>1, <1>15 DEF AllocRow, ArinStatus, ArinErrors
      <3>3. r \notin upstream /\ allocs[r].net /\ allocs[r].status = "returned"
        BY <1>0, <2>3 DEF Holds, RemoveMark
      <3>4. QED
        BY <3>1, <3>2, <3>3
    <2>4. QED
      BY <2>1, <2>2, <2>3
  <1>6. Inv'
    BY <1>0, <1>5, ArinColumnsOnly DEF FeedInv
  <1>7. /\ allocs'[r] = a
        /\ \A q \in Requests : q # r => allocs'[q] = allocs[q]
    BY <1>0, <1>5
  <1>8. Holds(w)'
    BY <1>3, <1>4, NothingHeld
  <1>9. ASSUME NEW own \in Requests, own = r PROVE Matches(own)'
    <2>1. CASE a.arin = "failed" /\ a.net = allocs[r].net
      <3>1. allocs[r].net => allocs[r].status = "returned"
        BY <1>0 DEF Holds
      <3>2. QED
        BY <1>5, <1>7, <1>9, <2>1, <3>1 DEF Matches
    <2>2. QED
      BY <1>0, <1>5, <1>7, <1>9, <2>1 DEF Matches
  <1>10. workers[w].pc \in Calling
    BY <1>0 DEF Calling
  <1>11. PICK own \in Requests : own = r
    BY <1>0
  <1>12. \A q \in Requests : q # own =>
            allocs'[q] = allocs[q] /\ (q \in upstream' <=> q \in upstream)
    BY <1>0, <1>7, <1>11
  <1>13. x(to).row = IF x(to).pc \in Calling THEN own ELSE NONE
    BY <1>3
  <1>14. QED
    BY <1>2, <1>3, <1>6, <1>8, <1>9, <1>10, <1>11, <1>12, <1>13, OwnRowOnly

\* The backoff of an unlocked row elapses.
LEMMA ElapseKeeps ==
    ASSUME FeedInv, NEW r \in Requests, Elapse(r)
    PROVE  FeedInv'
  <1> DEFINE a == [allocs[r] EXCEPT !.due = TRUE]
  <1>0. /\ allocs \in [Requests -> AllocRow] /\ ~Locked(r)
        /\ UNCHANGED <<pools, source, requests, sess, workers, upstream>>
        /\ allocs' = [allocs EXCEPT ![r] = a]
    BY Rows DEF FeedInv, Inv, Elapse
  <1>1. allocs[r] \in AllocRow
    BY <1>0
  <1>2. /\ a \in AllocRow /\ a.status = allocs[r].status /\ a.pool = allocs[r].pool
        /\ a.arin = allocs[r].arin /\ a.net = allocs[r].net
    BY <1>1 DEF AllocRow
  <1> HIDE DEF a
  <1>3. Inv'
    BY <1>0, <1>2, ArinColumnsOnly DEF FeedInv
  <1>4. WorkersBound' /\ OneHolder'
    BY <1>0 DEF FeedInv, WorkersBound, OneHolder
  <1>5. \A w \in Workers : Holds(w)'
    BY <1>0, HoldsKept DEF FeedInv, Locked, WorkersBound
  <1>6. \A q \in Requests : Matches(q)'
    BY <1>0, <1>2 DEF FeedInv, Matches
  <1>7. QED
    BY <1>3, <1>4, <1>5, <1>6 DEF FeedInv

\* Every step of the feed and of the registry under it keeps the invariant.
LEMMA FeedStepInv == FeedInv /\ [FeedNext]_allVars => FeedInv'
  <1> SUFFICES ASSUME FeedInv, [FeedNext]_allVars PROVE FeedInv'
    OBVIOUS
  <1>1. ASSUME NEW w \in Workers, WorkerStep(w) PROVE FeedInv'
    <2>0. workers[w] \in WorkerRow
      BY DEF FeedInv, WorkersBound
    <2>1. CASE Tick(w)
      <3> DEFINE x == [Resting EXCEPT !.pc = "submit"]
      <3>1. x \in WorkerRow /\ x.row = NONE /\ x.pc \notin Calling
        BY DEF Resting, WorkerRow, Calling
      <3>2. workers' = [workers EXCEPT ![w] = x] /\ UNCHANGED <<vars, upstream>>
        BY <2>1 DEF Tick
      <3> HIDE DEF x
      <3>3. QED
        BY <3>1, <3>2, LetGoKeeps
    <2>2. CASE SubmitQueueDone(w)
      <3> DEFINE x == [workers[w] EXCEPT !.pc = "remove"]
      <3>1. workers[w].row = NONE
        BY <2>0, <2>2 DEF SubmitQueueDone, FeedInv, WorkersBound, WorkerRow, Calling
      <3>2. x \in WorkerRow /\ x.row = NONE /\ x.pc \notin Calling
        BY <2>0, <3>1 DEF WorkerRow, Calling
      <3>3. workers' = [workers EXCEPT ![w] = x] /\ UNCHANGED <<vars, upstream>>
        BY <2>2 DEF SubmitQueueDone
      <3> HIDE DEF x
      <3>4. QED
        BY <3>2, <3>3, LetGoKeeps
    <2>3. CASE TickDone(w)
      <3>1. Resting \in WorkerRow /\ Resting.row = NONE /\ Resting.pc \notin Calling
        BY DEF Resting, WorkerRow, Calling
      <3>2. QED
        BY <2>3, <3>1, LetGoKeeps DEF TickDone
    <2>4. QED
      BY <1>1, <2>1, <2>2, <2>3, ClaimKeeps, CallKeeps, MarkKeeps DEF WorkerStep
  <1>2. ASSUME NEW w \in Workers, Crash(w) PROVE FeedInv'
    <2>1. Resting \in WorkerRow /\ Resting.row = NONE /\ Resting.pc \notin Calling
      BY DEF Resting, WorkerRow, Calling
    <2>2. QED
      BY <1>2, <2>1, LetGoKeeps DEF Crash
  <1>3. CASE Switch \/ UNCHANGED allVars
    <2>1. UNCHANGED <<pools, source, requests, allocs, sess, workers, upstream>>
      BY <1>3 DEF Switch, vars, allVars
    <2>2. Inv'
      BY <2>1 DEF FeedInv, Inv, TypeOK, SessionsBound, ApprovedHasAllocation
    <2>3. (\A w \in Workers : Holds(w)') /\ (\A r \in Requests : Matches(r)')
      BY <2>1, HoldsKept, MatchesKept DEF FeedInv
    <2>4. QED
      BY <2>1, <2>2, <2>3 DEF FeedInv, WorkersBound, OneHolder
  <1>4. QED
    BY <1>1, <1>2, <1>3, RegistryKeeps, ElapseKeeps DEF FeedNext

\* From the claim to the commit no handler and no other worker touches the row a
\* worker has claimed, for any number of workers (arin/worker.go,
\* ProcessOne and ProcessOneRemove).
THEOREM ClaimsStayValid == FeedSpec => []ClaimStillValid
  <1>1. FeedInv => ClaimStillValid
    BY DEF FeedInv, ClaimStillValid, Holds, WorkersBound, Calling
  <1>2. QED
    BY FeedInitInv, FeedStepInv, <1>1, PTL DEF FeedSpec

\* The arin columns are true of ARIN, whatever answers are lost and whichever
\* workers die (MarkArinRegistered, MarkArinRemoved, MarkArinFailed).
THEOREM ColumnsAreTrue == FeedSpec => []ColumnsMatchArin
  <1>1. FeedInv => ColumnsMatchArin
    BY DEF FeedInv, ColumnsMatchArin, Matches
  <1>2. QED
    BY FeedInitInv, FeedStepInv, <1>1, PTL DEF FeedSpec

\* The worker deregisters at ARIN only what its holder returned (the removal claim
\* of db/queries/lir_allocations.sql and the row lock held during the call).
THEOREM NoEarlyDeregistration == FeedSpec => DeregisteredOnlyAfterReturn
  <1> DEFINE OnlyReturned == \A r \in upstream : r \notin upstream' => allocs[r].status = "returned"
  <1>1. ASSUME FeedInv, [FeedNext]_allVars PROVE OnlyReturned
    <2>1. CASE UNCHANGED upstream
      BY <2>1
    <2>2. ASSUME NEW w \in Workers, RemoveCall(w) PROVE OnlyReturned
      BY <1>1, <2>2 DEF RemoveCall, FeedInv, Holds
    <2>3. ASSUME NEW w \in Workers, SubmitCall(w) PROVE OnlyReturned
      BY <2>3 DEF SubmitCall
    <2>4. UNCHANGED upstream \/ \E w \in Workers : SubmitCall(w) \/ RemoveCall(w)
      BY <1>1 DEF FeedNext, RegistryStep, feedVars, WorkerStep, Tick, SubmitQueueDone,
         ClaimSubmit, SubmitMark, ClaimRemove, RemoveMark, TickDone, Crash, Elapse,
         Switch, allVars
    <2>5. QED
      BY <2>1, <2>2, <2>3, <2>4
  <1>2. FeedInv /\ [FeedNext]_allVars => [OnlyReturned]_allVars
    BY <1>1
  <1>3. QED
    BY FeedInitInv, FeedStepInv, <1>2, PTL DEF FeedSpec, DeregisteredOnlyAfterReturn
=============================================================================
