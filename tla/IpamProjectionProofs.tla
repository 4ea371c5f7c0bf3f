------------------------ MODULE IpamProjectionProofs ------------------------
(***************************************************************************)
(* Rows, zones and projected records stay consistent, an address that an   *)
(* operator or a reservation owns stays theirs, and overlapping rebuilds   *)
(* leave no more copies of a record than there are of them, for every      *)
(* number of addresses, leases, syncs, changes and faults.                 *)
(***************************************************************************)
EXTENDS IpamProjection, FiniteSetTheorems, TLAPS

KeaLeases == [mac : Macs, name : Names \cup {NONE}]
Lease == [addr : Addresses, mac : Macs, name : Names \cup {NONE}]
Sources == {"static", "dhcp", "reservation"}
Listed == [id : Ids, addr : Addresses, source : Sources, mac : Macs \cup {NONE}]
Reservation == [addr : Addresses, mac : Macs, name : Names \cup {NONE}]
Entry == [row : Ids, net : Nets, name : Names, source : {"ipam", "ddns"}]

LeaseRun == [pc : {"idle", "find", "write"}, todo : SUBSET Lease,
             cur : Lease \cup {NONE}, row : Ids \cup {NONE}]
ReconRun == [pc : {"idle", "sync"}, todo : SUBSET Reservation, index : SUBSET Listed]
DnsRun == [pc : {"idle", "drop", "list", "forward", "lookup", "create", "ptr"},
           zones : SUBSET Nets, todo : SUBSET Entry, cur : Entry \cup {NONE}]

(* Rows are numbered as they are inserted. *)
RowTypes ==
    /\ rows \in [Ids -> RowType \cup {NONE}]
    /\ nextRow \in 1 .. MaxRows + 1
    /\ \A i \in Ids : i >= nextRow => rows[i] = NONE
    /\ \A i \in Ids, j \in Ids :
          rows[i] # NONE /\ rows[j] # NONE /\ rows[i].addr = rows[j].addr => i = j
    /\ \A i \in Ids : rows[i] # NONE /\ rows[i].source = "static" => rows[i].exp = NONE

EnvTypes ==
    /\ kea \in [Addresses -> KeaLeases \cup {NONE}]
    /\ reserved \in [Addresses -> KeaLeases \cup {NONE}]

(* An id that some run found to be a lease's: the row may be gone by now, or
   promoted, but it is not, and will not be, an operator's. *)
NeverStatic(i) == i < nextRow /\ (rows[i] # NONE => rows[i].source # "static")

LeaseInv ==
    /\ lease \in [LeaseSyncs -> LeaseRun]
    /\ \A p \in LeaseSyncs : lease[p].pc = "write" => lease[p].cur \in Lease
    /\ \A p \in LeaseSyncs : lease[p].row # NONE => NeverStatic(lease[p].row)

ReconInv ==
    /\ recon \in ReconRun
    /\ \A e \in recon.index : e.source = "dhcp" => NeverStatic(e.id)

(* A rebuild only knows zones that exist, and writes a PTR to one of them. *)
DnsOk(x) ==
    /\ x.zones \subseteq revs
    /\ x.pc \in {"lookup", "create", "ptr"} => x.cur \in Entry
    /\ x.pc = "ptr" => x.cur.net \in x.zones

DnsInv ==
    /\ revs \subseteq Nets
    /\ dns \in [DnsSyncs -> DnsRun]
    /\ \A p \in DnsSyncs : DnsOk(dns[p])

RecsInv ==
    \A r \in DOMAIN recs :
        /\ r.zone \in {Forward} \cup revs
        /\ r.row \in Ids
        /\ rows[r.row] # NONE

IpamInv == RowTypes /\ EnvTypes /\ LeaseInv /\ ReconInv /\ DnsInv /\ RecsInv

(* What no step does to a row: ids are not used again, a row that a record
   refers to stays, and only a lease changes hands, to a reservation. *)
Evolve ==
    /\ nextRow' >= nextRow
    /\ \A i \in Ids : rows[i] = NONE /\ i < nextRow => rows'[i] = NONE
    /\ \A i \in Ids : rows[i] # NONE /\ rows'[i] = NONE =>
          i \notin Referenced /\ (rows[i].source = "dhcp" \/ changes' # changes)
    /\ \A i \in Ids : rows[i] # NONE /\ rows'[i] # NONE =>
          \/ rows'[i].source = rows[i].source
          \/ rows[i].source = "dhcp" /\ rows'[i].source = "reservation"

-----------------------------------------------------------------------------
(* Rows *)

LEMMA RowsKept == ASSUME RowTypes, UNCHANGED <<rows, nextRow>> PROVE RowTypes' /\ Evolve
BY DEF RowTypes, Evolve

LEMMA RowInserted ==
  ASSUME RowTypes, NEW x \in RowType, x.source = "static" => x.exp = NONE, Insert(x)
  PROVE  RowTypes' /\ Evolve
<1>1. /\ nextRow \in Ids
      /\ rows[nextRow] = NONE
      /\ rows' = [rows EXCEPT ![nextRow] = x]
      /\ nextRow' = nextRow + 1
      /\ x # NONE
  BY IpamBoundsAssumption, NoneAssumption DEF Insert, RowTypes, Ids
<1>2. \A i \in Ids : rows[i] # NONE => rows[i].addr # x.addr
  BY DEF Insert, RowAt, Live
<1>3. \A i \in Ids : rows'[i] = IF i = nextRow THEN x ELSE rows[i]
  BY <1>1 DEF RowTypes
<1>4. RowTypes'
  <2>1. rows' \in [Ids -> RowType \cup {NONE}]
    BY <1>1 DEF RowTypes
  <2>2. nextRow' \in 1 .. MaxRows + 1
    BY <1>1, IpamBoundsAssumption DEF Ids
  <2>3. \A i \in Ids : i >= nextRow' => rows'[i] = NONE
    BY <1>1, <1>3 DEF RowTypes, Ids
  <2>4. \A i \in Ids, j \in Ids :
           rows'[i] # NONE /\ rows'[j] # NONE /\ rows'[i].addr = rows'[j].addr => i = j
    BY <1>1, <1>2, <1>3 DEF RowTypes
  <2>5. \A i \in Ids : rows'[i] # NONE /\ rows'[i].source = "static" => rows'[i].exp = NONE
    BY <1>1, <1>3 DEF RowTypes
  <2> QED BY <2>1, <2>2, <2>3, <2>4, <2>5 DEF RowTypes
<1>5. Evolve
  <2>1. nextRow' >= nextRow
    BY <1>1 DEF Ids
  <2>2. \A i \in Ids : i < nextRow => rows'[i] = rows[i]
    BY <1>1, <1>3 DEF Ids
  <2>3. \A i \in Ids : rows[i] # NONE => rows'[i] = rows[i]
    BY <1>1, <1>3
  <2> QED BY <2>1, <2>2, <2>3 DEF Evolve
<1> QED BY <1>4, <1>5

LEMMA RowWritten ==
  ASSUME RowTypes, NEW i \in Ids, rows[i] # NONE, NEW x \in RowType,
         x.addr = rows[i].addr, x.source = "static" => x.exp = NONE,
         \/ x.source = rows[i].source
         \/ rows[i].source = "dhcp" /\ x.source = "reservation",
         rows' = [rows EXCEPT ![i] = x], nextRow' = nextRow
  PROVE  RowTypes' /\ Evolve
<1>1. x # NONE /\ nextRow \in Nat
  BY NoneAssumption, IpamBoundsAssumption DEF RowTypes
<1>2. \A j \in Ids : rows'[j] = IF j = i THEN x ELSE rows[j]
  BY DEF RowTypes
<1>3. RowTypes'
  <2>1. rows' \in [Ids -> RowType \cup {NONE}]
    BY DEF RowTypes
  <2>2. \A j \in Ids : j >= nextRow' => rows'[j] = NONE
    BY <1>2 DEF RowTypes
  <2>3. \A k \in Ids, j \in Ids :
           rows'[k] # NONE /\ rows'[j] # NONE /\ rows'[k].addr = rows'[j].addr => k = j
    BY <1>1, <1>2 DEF RowTypes
  <2>4. \A j \in Ids : rows'[j] # NONE /\ rows'[j].source = "static" => rows'[j].exp = NONE
    BY <1>2 DEF RowTypes
  <2> QED BY <2>1, <2>2, <2>3, <2>4 DEF RowTypes
<1>4. Evolve
  BY <1>1, <1>2 DEF Evolve
<1> QED BY <1>3, <1>4

LEMMA RowsDeleted ==
  ASSUME RowTypes, NEW S \in SUBSET Ids, S \cap Referenced = {},
         \A i \in S : rows[i].source = "dhcp" \/ changes' # changes,
         rows' = [i \in Ids |-> IF i \in S THEN NONE ELSE rows[i]], nextRow' = nextRow
  PROVE  RowTypes' /\ Evolve
<1>1. \A i \in Ids : rows'[i] = NONE \/ (rows'[i] = rows[i] /\ i \notin S)
  OBVIOUS
<1>2. RowTypes'
  <2>1. rows' \in [Ids -> RowType \cup {NONE}]
    BY DEF RowTypes
  <2>2. \A j \in Ids : j >= nextRow' => rows'[j] = NONE
    BY <1>1 DEF RowTypes
  <2>3. \A k \in Ids, j \in Ids :
           rows'[k] # NONE /\ rows'[j] # NONE /\ rows'[k].addr = rows'[j].addr => k = j
    BY <1>1 DEF RowTypes
  <2>4. \A j \in Ids : rows'[j] # NONE /\ rows'[j].source = "static" => rows'[j].exp = NONE
    BY <1>1 DEF RowTypes
  <2> QED BY <2>1, <2>2, <2>3, <2>4 DEF RowTypes
<1>3. Evolve
  <2>1. \A i \in Ids : rows[i] # NONE /\ rows'[i] = NONE => i \in S
    OBVIOUS
  <2>2. nextRow \in Nat
    BY IpamBoundsAssumption DEF RowTypes
  <2> QED BY <1>1, <2>1, <2>2 DEF Evolve
<1> QED BY <1>2, <1>3

-----------------------------------------------------------------------------
(* What a step of the rows leaves true of the runs *)

LEMMA NeverStaticKept ==
  ASSUME RowTypes, RowTypes', Evolve, NEW i \in Ids, NeverStatic(i)
  PROVE  NeverStatic(i)'
<1>1. i < nextRow'
  <2>1. i \in Nat /\ nextRow \in Nat /\ nextRow' \in Nat
    BY IpamBoundsAssumption DEF RowTypes, Ids
  <2>2. i < nextRow /\ nextRow <= nextRow'
    BY DEF NeverStatic, Evolve
  <2> QED BY <2>1, <2>2
<1>2. rows'[i] # NONE => rows'[i].source # "static"
  BY DEF NeverStatic, Evolve
<1> QED BY <1>1, <1>2 DEF NeverStatic

LEMMA LeaseKept ==
  ASSUME RowTypes, RowTypes', Evolve, LeaseInv, UNCHANGED lease
  PROVE  LeaseInv'
<1>1. \A p \in LeaseSyncs : lease[p].row # NONE => lease[p].row \in Ids
  BY DEF LeaseInv, LeaseRun
<1>2. ASSUME NEW p \in LeaseSyncs, lease[p].row # NONE PROVE NeverStatic(lease[p].row)'
  <2> DEFINE i == lease[p].row
  <2>1. i \in Ids /\ NeverStatic(i)
    BY <1>1, <1>2 DEF LeaseInv
  <2>2. i' = i
    OBVIOUS
  <2> QED BY <2>1, NeverStaticKept DEF NeverStatic
<1> QED BY <1>2 DEF LeaseInv

LEMMA ReconKept ==
  ASSUME RowTypes, RowTypes', Evolve, ReconInv, UNCHANGED recon
  PROVE  ReconInv'
<1>1. \A e \in recon.index : e.id \in Ids
  BY DEF ReconInv, ReconRun, Listed
<1>2. ASSUME NEW e \in recon.index, e.source = "dhcp" PROVE NeverStatic(e.id)'
  BY <1>1, <1>2, NeverStaticKept DEF NeverStatic, ReconInv
<1> QED BY <1>2 DEF ReconInv

LEMMA DnsKept ==
  ASSUME DnsInv, UNCHANGED <<revs, dns>>
  PROVE  DnsInv'
BY DEF DnsInv, DnsOk

LEMMA RecsKept ==
  ASSUME Evolve, RecsInv, UNCHANGED <<recs, revs>>
  PROVE  RecsInv'
<1>1. \A r \in DOMAIN recs : r.row \in Referenced
  BY DEF Referenced, BagToSet
<1> QED BY <1>1 DEF RecsInv, Evolve

(* A step of the rows alone. *)
LEMMA RowStep ==
  ASSUME IpamInv, RowTypes', Evolve,
         UNCHANGED <<envVars, revs, recs, lease, recon, dns>>
  PROVE  IpamInv'
<1> USE DEF envVars
<1>1. EnvTypes'
  BY DEF IpamInv, EnvTypes
<1>2. LeaseInv'
  BY LeaseKept DEF IpamInv
<1>3. ReconInv'
  BY ReconKept DEF IpamInv
<1>4. DnsInv'
  BY DnsKept DEF IpamInv
<1>5. RecsInv'
  BY RecsKept DEF IpamInv
<1> QED BY <1>1, <1>2, <1>3, <1>4, <1>5 DEF IpamInv

-----------------------------------------------------------------------------
(* The address handlers, and what changes around them *)

LEMMA CreateKeeps ==
  ASSUME IpamInv, NEW a \in Addresses, createAddress(a)
  PROVE  IpamInv' /\ Evolve
<1>1. PICK s \in {"static", "dhcp", "reservation"}, st \in {"active", "reserved", "deprecated"},
           n \in Names \cup {NONE} :
         Insert([addr |-> a, source |-> s, status |-> st, name |-> n,
                 mac |-> NONE, exp |-> NONE])
  BY DEF createAddress
<1> DEFINE x == [addr |-> a, source |-> s, status |-> st, name |-> n,
                 mac |-> NONE, exp |-> NONE]
<1>2. x \in RowType /\ x.exp = NONE
  BY DEF RowType
<1>3. RowTypes' /\ Evolve
  <2> HIDE DEF x
  <2> QED BY <1>1, <1>2, RowInserted DEF IpamInv, x
<1> QED BY <1>3, RowStep DEF createAddress, procVars, zoneVars

LEMMA UpdateKeeps ==
  ASSUME IpamInv, NEW i \in Ids, updateAddress(i)
  PROVE  IpamInv' /\ Evolve
<1>1. PICK st \in {"active", "reserved", "deprecated"}, n \in Names \cup {NONE} :
         rows' = [rows EXCEPT ![i].status = st, ![i].name = n]
  BY DEF updateAddress
<1> DEFINE x == [rows[i] EXCEPT !.status = st, !.name = n]
<1>2. rows[i] # NONE /\ rows[i] \in RowType
  BY DEF updateAddress, IpamInv, RowTypes, Live
<1>3. x \in RowType /\ x.addr = rows[i].addr /\ x.source = rows[i].source /\ x.exp = rows[i].exp
  BY <1>2 DEF RowType
<1>4. rows' = [rows EXCEPT ![i] = x]
  BY <1>1, Zenon DEF IpamInv, RowTypes
<1>5. RowTypes' /\ Evolve
  <2> HIDE DEF x
  <2>1. x.source = "static" => x.exp = NONE
    BY <1>2, <1>3 DEF IpamInv, RowTypes
  <2> QED BY <1>2, <1>3, <1>4, <2>1, RowWritten DEF IpamInv, updateAddress
<1> QED BY <1>5, RowStep DEF updateAddress, procVars, zoneVars

LEMMA DeleteKeeps ==
  ASSUME IpamInv, NEW i \in Ids, deleteAddress(i)
  PROVE  IpamInv' /\ Evolve
<1>1. {i} \cap Referenced = {}
  BY DEF deleteAddress
<1>2. changes' # changes
  BY DEF deleteAddress, Change
<1>3. rows' = [j \in Ids |-> IF j \in {i} THEN NONE ELSE rows[j]]
  BY DEF deleteAddress, IpamInv, RowTypes
<1>4. RowTypes' /\ Evolve
  BY <1>1, <1>2, <1>3, RowsDeleted DEF IpamInv, deleteAddress
<1> QED BY <1>4, RowStep DEF deleteAddress, procVars, zoneVars

LEMMA LapseKeeps ==
  ASSUME IpamInv, NEW i \in Ids, Lapse(i)
  PROVE  IpamInv' /\ Evolve
<1> DEFINE v == IF rows[i].exp = "live" THEN "lapsed" ELSE "stale"
           x == [rows[i] EXCEPT !.exp = v]
<1>1. rows[i] # NONE /\ rows[i] \in RowType
  BY DEF Lapse, IpamInv, RowTypes, Live
<1>2. x \in RowType /\ x.addr = rows[i].addr /\ x.source = rows[i].source
  BY <1>1 DEF RowType
<1>3. rows' = [rows EXCEPT ![i] = x]
  BY DEF Lapse, IpamInv, RowTypes
<1>4. rows[i].source # "static"
  <2> SUFFICES ASSUME rows[i].source = "static" PROVE FALSE
    OBVIOUS
  <2>1. NONE \in {"live", "lapsed"}
    BY <1>1 DEF Lapse, IpamInv, RowTypes
  <2> QED BY <2>1, NoneAssumption
<1>5. RowTypes' /\ Evolve
  <2> HIDE DEF x
  <2> QED BY <1>1, <1>2, <1>3, <1>4, RowWritten DEF IpamInv, Lapse
<1> QED BY <1>5, RowStep DEF Lapse, procVars, zoneVars

LEMMA WorldKeeps ==
  ASSUME IpamInv,
         setFrozen \/ \E a \in Addresses : KeaLease(a) \/ Reserve(a)
  PROVE  IpamInv' /\ Evolve
<1> USE DEF procVars, zoneVars, envVars
<1>1. UNCHANGED <<rows, nextRow, revs, recs, procVars>>
  BY DEF setFrozen, KeaLease, Reserve
<1>2. RowTypes' /\ Evolve
  BY <1>1, RowsKept DEF IpamInv
<1>3. EnvTypes'
  BY IpamBoundsAssumption DEF EnvTypes, KeaLeases, IpamInv, setFrozen, KeaLease, Reserve
<1>4. LeaseInv'
  BY <1>1, <1>2, LeaseKept DEF IpamInv
<1>5. ReconInv'
  BY <1>1, <1>2, ReconKept DEF IpamInv
<1>6. DnsInv'
  BY <1>1, DnsKept DEF IpamInv
<1>7. RecsInv'
  BY <1>1, <1>2, RecsKept DEF IpamInv
<1> QED BY <1>2, <1>3, <1>4, <1>5, <1>6, <1>7 DEF IpamInv

-----------------------------------------------------------------------------
(* The lease sync *)

LeaseRunOk(x) ==
    /\ x \in LeaseRun
    /\ x.pc = "write" => x.cur \in Lease
    /\ x.row # NONE => NeverStatic(x.row)

LEMMA LeaseStep ==
  ASSUME IpamInv, RowTypes', Evolve, NEW p \in LeaseSyncs, NEW x, LeaseRunOk(x)',
         lease' = [lease EXCEPT ![p] = x],
         UNCHANGED <<envVars, zoneVars, ageOut, recon, dns>>
  PROVE  IpamInv'
<1> USE DEF zoneVars, envVars
<1>1. \A q \in LeaseSyncs : lease'[q] = IF q = p THEN x ELSE lease[q]
  BY DEF IpamInv, LeaseInv
<1>2. LeaseInv'
  <2>1. lease' \in [LeaseSyncs -> LeaseRun]
    BY DEF IpamInv, LeaseInv, LeaseRunOk, LeaseRun, Ids, Lease
  <2>2. \A q \in LeaseSyncs : lease'[q].pc = "write" => lease'[q].cur \in Lease
    BY <1>1 DEF IpamInv, LeaseInv, LeaseRunOk
  <2>3. ASSUME NEW q \in LeaseSyncs, lease'[q].row # NONE PROVE NeverStatic(lease[q].row)'
    <3>1. CASE q = p
      BY <1>1, <2>3, <3>1 DEF LeaseRunOk, NeverStatic
    <3>2. CASE q # p
      <4>1. lease[q].row \in Ids /\ NeverStatic(lease[q].row) /\ lease'[q] = lease[q]
        BY <1>1, <2>3, <3>2 DEF IpamInv, LeaseInv, LeaseRun
      <4> QED BY <4>1, NeverStaticKept DEF IpamInv, NeverStatic
    <3> QED BY <3>1, <3>2
  <2> QED BY <2>1, <2>2, <2>3 DEF LeaseInv
<1>3. EnvTypes'
  BY DEF IpamInv, EnvTypes
<1>4. ReconInv'
  BY ReconKept DEF IpamInv
<1>5. DnsInv'
  BY DnsKept DEF IpamInv
<1>6. RecsInv'
  BY RecsKept DEF IpamInv
<1> QED BY <1>2, <1>3, <1>4, <1>5, <1>6 DEF IpamInv

LEMMA NoLeaseOk == LeaseRunOk(NoLease)
BY DEF LeaseRunOk, LeaseRun, NoLease

LEMMA FetchKeeps ==
  ASSUME IpamInv, NEW p \in LeaseSyncs, LeaseFetch(p)
  PROVE  IpamInv' /\ Evolve
<1> DEFINE T == {[addr |-> a, mac |-> kea[a].mac, name |-> kea[a].name] :
                    a \in {b \in Addresses : kea[b] # NONE}}
           x == [NoLease EXCEPT !.pc = "find", !.todo = T]
<1>1. T \subseteq Lease
  BY DEF IpamInv, EnvTypes, KeaLeases, Lease
<1>2. RowTypes' /\ Evolve
  BY RowsKept DEF IpamInv, LeaseFetch
<1>3. x \in LeaseRun /\ x.pc = "find" /\ x.row = NONE
  <2> HIDE DEF T
  <2> QED BY <1>1 DEF LeaseRun, NoLease
<1>4. LeaseRunOk(x)
  BY <1>3 DEF LeaseRunOk
<1>5. lease' = [lease EXCEPT ![p] = x] /\ UNCHANGED <<rows, nextRow, envVars, zoneVars, ageOut, recon, dns>>
  BY DEF LeaseFetch
<1>6. PICK y : y = x
  OBVIOUS
<1>7. LeaseRunOk(y)'
  BY <1>4, <1>5, <1>6 DEF LeaseRunOk, NeverStatic, LeaseRun
<1> QED
  <2> HIDE DEF x
  <2> QED BY <1>2, <1>5, <1>6, <1>7, LeaseStep

LEMMA FindKeeps ==
  ASSUME IpamInv, NEW p \in LeaseSyncs, LeaseFind(p)
  PROVE  IpamInv' /\ Evolve
<1>1. PICK l \in lease[p].todo :
        LET found == RowAt(l.addr)
            rest == [lease[p] EXCEPT !.todo = @ \ {l}]
        IN lease' = [lease EXCEPT ![p] =
               IF found = {} THEN [rest EXCEPT !.pc = "write", !.cur = l]
               ELSE LET i == CHOOSE i \in found : TRUE IN
                    IF rows[i].source = "dhcp"
                    THEN [rest EXCEPT !.pc = "write", !.cur = l, !.row = i]
                    ELSE IF rest.todo = {} THEN NoLease ELSE rest]
  BY DEF LeaseFind
<1>2. /\ lease[p].pc = "find"
      /\ UNCHANGED <<rows, nextRow, envVars, zoneVars, ageOut, recon, dns>>
  BY DEF LeaseFind
<1> DEFINE i == CHOOSE i \in RowAt(l.addr) : TRUE
           rest == [lease[p] EXCEPT !.todo = @ \ {l}]
           fresh == [rest EXCEPT !.pc = "write", !.cur = l]
           known == [rest EXCEPT !.pc = "write", !.cur = l, !.row = i]
<1>3. l \in Lease /\ lease[p] \in LeaseRun /\ (lease[p].row # NONE => NeverStatic(lease[p].row))
  BY DEF IpamInv, LeaseInv, LeaseRun
<1>4. rest \in LeaseRun /\ rest.pc = "find" /\ rest.row = lease[p].row
  BY <1>2, <1>3 DEF LeaseRun
<1>5. LeaseRunOk(rest)
  BY <1>3, <1>4 DEF LeaseRunOk
<1>6. LeaseRunOk(fresh)
  <2>1. fresh \in LeaseRun /\ fresh.cur = l /\ fresh.row = lease[p].row
    <3> HIDE DEF rest
    <3> QED BY <1>3, <1>4 DEF LeaseRun
  <2> QED BY <1>3, <2>1 DEF LeaseRunOk
<1>7. ASSUME RowAt(l.addr) # {}, rows[i].source = "dhcp" PROVE LeaseRunOk(known)
  <2>1. i \in Ids /\ rows[i] # NONE
    BY <1>7 DEF RowAt, Live
  <2>2. NeverStatic(i)
    <3>1. i \in Nat /\ nextRow \in Nat /\ ~(i >= nextRow)
      BY <2>1, IpamBoundsAssumption DEF IpamInv, RowTypes, Ids
    <3> QED BY <1>7, <3>1 DEF NeverStatic
  <2>3. known \in LeaseRun /\ known.cur = l /\ known.row = i
    <3> HIDE DEF rest, i
    <3> QED BY <1>3, <1>4, <2>1 DEF LeaseRun
  <2> QED BY <1>3, <2>2, <2>3 DEF LeaseRunOk
<1>8. PICK x : LeaseRunOk(x) /\ lease' = [lease EXCEPT ![p] = x]
  <2> HIDE DEF rest, fresh, known, i
  <2>1. CASE RowAt(l.addr) = {}
    BY <1>1, <1>6, <2>1 DEF rest, fresh
  <2>2. CASE RowAt(l.addr) # {} /\ rows[i].source = "dhcp"
    BY <1>1, <1>7, <2>2 DEF rest, known, i
  <2>3. CASE RowAt(l.addr) # {} /\ rows[i].source # "dhcp"
    <3>1. lease' = [lease EXCEPT ![p] = IF rest.todo = {} THEN NoLease ELSE rest]
      BY <1>1, <2>3 DEF rest, i
    <3> QED BY <1>5, <3>1, NoLeaseOk
  <2> QED BY <2>1, <2>2, <2>3
<1>9. RowTypes' /\ Evolve
  BY <1>2, RowsKept DEF IpamInv
<1>10. LeaseRunOk(x)'
  BY <1>2, <1>8 DEF LeaseRunOk, NeverStatic, LeaseRun
<1> QED BY <1>2, <1>8, <1>9, <1>10, LeaseStep

LEMMA WriteKeeps ==
  ASSUME IpamInv, NEW p \in LeaseSyncs, LeaseWrite(p)
  PROVE  IpamInv' /\ Evolve
<1> DEFINE l == lease[p].cur
           i == lease[p].row
<1>1. /\ lease[p].pc = "write"
      /\ UNCHANGED <<envVars, zoneVars, ageOut, recon, dns, boundVars>>
  BY DEF LeaseWrite
<1>2. /\ l \in Lease
      /\ lease[p] \in LeaseRun
      /\ i # NONE => i \in Ids /\ NeverStatic(i)
  BY <1>1 DEF IpamInv, LeaseInv, LeaseRun
<1>3. RowTypes' /\ Evolve
  <2>1. CASE InsertDhcpLease(l)
    <3> DEFINE x == [addr |-> l.addr, source |-> "dhcp", status |-> "active",
                     name |-> l.name, mac |-> l.mac, exp |-> "live"]
    <3>1. x \in RowType /\ x.source # "static"
      BY <1>2 DEF Lease, RowType
    <3>2. Insert(x)
      BY <2>1 DEF InsertDhcpLease
    <3> HIDE DEF x
    <3> QED BY <3>1, <3>2, RowInserted DEF IpamInv
  <2>2. CASE UNCHANGED <<rows, nextRow>>
    BY <2>2, RowsKept DEF IpamInv
  <2>3. CASE i # NONE /\ UpdateDhcpLease(i, l)
    <3>1. CASE rows[i] = NONE
      BY <2>3, <3>1, RowsKept DEF IpamInv, UpdateDhcpLease
    <3>2. CASE rows[i] # NONE
      <4> DEFINE n == Coalesce(l.name, rows[i].name)
                 x == [rows[i] EXCEPT !.mac = l.mac, !.name = n,
                                      !.exp = "live", !.status = "active"]
      <4>1. i \in Ids /\ rows[i] \in RowType /\ rows[i].source # "static"
        BY <1>2, <2>3, <3>2 DEF IpamInv, RowTypes, NeverStatic
      <4>2. n \in Names \cup {NONE} /\ l.mac \in Macs
        BY <1>2, <4>1 DEF Coalesce, Lease, RowType
      <4>3. x \in RowType /\ x.addr = rows[i].addr /\ x.source = rows[i].source
        <5> HIDE DEF n
        <5> QED BY <4>1, <4>2 DEF RowType
      <4>4. rows' = [rows EXCEPT ![i] = x]
        <5>1. rows' = [rows EXCEPT ![i].mac = l.mac, ![i].name = Coalesce(l.name, @),
                                   ![i].exp = "live", ![i].status = "active"]
          BY <2>3, <3>2 DEF UpdateDhcpLease
        <5> QED BY <5>1, <4>1, Zenon DEF IpamInv, RowTypes
      <4>5. nextRow' = nextRow
        BY <2>3 DEF UpdateDhcpLease
      <4> HIDE DEF x
      <4> QED BY <3>2, <4>1, <4>3, <4>4, <4>5, RowWritten DEF IpamInv
    <3> QED BY <3>1, <3>2
  <2> QED BY <2>1, <2>2, <2>3 DEF LeaseWrite
<1>4. PICK x : LeaseRunOk(x) /\ lease' = [lease EXCEPT ![p] = x]
               /\ (x.row # NONE => x.row = i)
  <2> DEFINE again == [lease[p] EXCEPT !.pc = "find", !.cur = NONE, !.row = NONE]
  <2>1. LeaseRunOk(again) /\ again.row = NONE
    BY <1>2 DEF LeaseRunOk, LeaseRun
  <2>2. NoLease.row = NONE
    BY DEF NoLease
  <2> HIDE DEF again
  <2>3. CASE LeaseDone(p)
    BY <2>1, <2>2, <2>3, NoLeaseOk DEF LeaseDone, again
  <2>4. CASE lease' = [lease EXCEPT ![p] = NoLease]
    BY <2>2, <2>4, NoLeaseOk
  <2> QED BY <2>3, <2>4 DEF LeaseWrite
<1>5. LeaseRunOk(x)'
  <2>1. x.row # NONE => NeverStatic(x.row)'
    BY <1>2, <1>3, <1>4, NeverStaticKept DEF IpamInv
  <2> QED BY <2>1, <1>4 DEF LeaseRunOk, LeaseRun
<1> QED BY <1>1, <1>3, <1>4, <1>5, LeaseStep

-----------------------------------------------------------------------------
(* The age-out *)

LEMMA AgeOutKeeps ==
  ASSUME IpamInv, AgeOutStep
  PROVE  IpamInv' /\ Evolve
<1>1. CASE DeprecateExpiredDhcpLeases
  <2> DEFINE Late(i) == i \in Live /\ rows[i].source = "dhcp" /\ rows[i].status = "active"
                        /\ rows[i].exp \in {"lapsed", "stale"}
  <2>1. \A i \in Ids : rows'[i] = IF Late(i) THEN [rows[i] EXCEPT !.status = "deprecated"]
                                  ELSE rows[i]
    BY <1>1 DEF DeprecateExpiredDhcpLeases
  <2>2. \A i \in Ids : Late(i) => rows[i] \in RowType /\ rows[i] # NONE
    BY DEF Live, IpamInv, RowTypes
  <2>3. ASSUME NEW i \in Ids, rows[i] # NONE
        PROVE  /\ rows'[i] \in RowType
               /\ rows'[i].addr = rows[i].addr
               /\ rows'[i].source = rows[i].source
               /\ rows'[i].exp = rows[i].exp
    <3>1. rows[i] \in RowType
      BY <2>3 DEF IpamInv, RowTypes
    <3> HIDE DEF Late
    <3> QED BY <2>1, <3>1 DEF RowType
  <2>4. ASSUME NEW i \in Ids, rows[i] = NONE PROVE rows'[i] = NONE
    BY <2>1, <2>2, <2>4
  <2>5. RowTypes'
    <3>1. rows' \in [Ids -> RowType \cup {NONE}]
      <4>1. \A i \in Ids : rows'[i] \in RowType \cup {NONE}
        BY <2>3, <2>4
      <4>2. rows' = [i \in Ids |-> rows'[i]]
        BY <1>1 DEF DeprecateExpiredDhcpLeases
      <4> QED BY <4>1, <4>2
    <3>2. nextRow' = nextRow /\ nextRow \in 1 .. MaxRows + 1
      BY <1>1 DEF DeprecateExpiredDhcpLeases, IpamInv, RowTypes
    <3>3. \A i \in Ids : i >= nextRow' => rows'[i] = NONE
      BY <2>4, <3>2 DEF IpamInv, RowTypes
    <3>4. \A i \in Ids, j \in Ids :
             rows'[i] # NONE /\ rows'[j] # NONE /\ rows'[i].addr = rows'[j].addr => i = j
      BY <2>3, <2>4 DEF IpamInv, RowTypes
    <3>5. \A i \in Ids : rows'[i] # NONE /\ rows'[i].source = "static" => rows'[i].exp = NONE
      BY <2>3, <2>4 DEF IpamInv, RowTypes
    <3> QED BY <3>1, <3>2, <3>3, <3>4, <3>5 DEF RowTypes
  <2>6. Evolve
    <3>1. nextRow' = nextRow /\ nextRow \in Nat
      BY <1>1, IpamBoundsAssumption DEF DeprecateExpiredDhcpLeases, IpamInv, RowTypes
    <3>2. \A i \in Ids : rows[i] # NONE => rows'[i] # NONE
      BY <2>3, NoneAssumption
    <3> QED BY <2>3, <2>4, <3>1, <3>2 DEF Evolve
  <2>7. UNCHANGED <<envVars, zoneVars, lease, recon, dns>>
    BY <1>1 DEF DeprecateExpiredDhcpLeases
  <2> QED BY <2>5, <2>6, <2>7, RowStep DEF zoneVars
<1>2. CASE DeleteDeprecatedDhcpLeases
  <2>1. /\ rows' = IF Doomed \cap Referenced # {} THEN rows
                   ELSE [i \in Ids |-> IF i \in Doomed THEN NONE ELSE rows[i]]
        /\ nextRow' = nextRow
        /\ UNCHANGED <<envVars, zoneVars, lease, recon, dns>>
    BY <1>2 DEF DeleteDeprecatedDhcpLeases
  <2>2. Doomed \in SUBSET Ids /\ \A i \in Doomed : rows[i].source = "dhcp"
    BY DEF Doomed, Live
  <2>3. RowTypes' /\ Evolve
    <3>1. CASE Doomed \cap Referenced # {}
      BY <2>1, <3>1, RowsKept DEF IpamInv
    <3>2. CASE Doomed \cap Referenced = {}
      BY <2>1, <2>2, <3>2, RowsDeleted DEF IpamInv
    <3> QED BY <3>1, <3>2
  <2> QED BY <2>1, <2>3, RowStep DEF zoneVars
<1> QED BY <1>1, <1>2 DEF AgeOutStep

-----------------------------------------------------------------------------
(* The reconcile of reservations with the addresses *)

LEMMA ReconStep ==
  ASSUME IpamInv, RowTypes', Evolve, ReconInv',
         UNCHANGED <<envVars, zoneVars, lease, ageOut, dns>>
  PROVE  IpamInv'
<1> USE DEF envVars, zoneVars
<1>1. EnvTypes'
  BY DEF IpamInv, EnvTypes
<1>2. LeaseInv'
  BY LeaseKept DEF IpamInv
<1>3. DnsInv'
  BY DnsKept DEF IpamInv
<1>4. RecsInv'
  BY RecsKept DEF IpamInv
<1> QED BY <1>1, <1>2, <1>3, <1>4 DEF IpamInv

LEMMA LoadKeeps ==
  ASSUME IpamInv, ReconcileLoad
  PROVE  IpamInv' /\ Evolve
<1> DEFINE T == {[addr |-> a, mac |-> reserved[a].mac, name |-> reserved[a].name] :
                    a \in {b \in Addresses : reserved[b] # NONE}}
           L == {[id |-> i, addr |-> rows[i].addr, source |-> rows[i].source,
                  mac |-> rows[i].mac] : i \in Live}
<1>1. recon' = [pc |-> "sync", todo |-> T, index |-> L]
  BY DEF ReconcileLoad
<1>2. UNCHANGED <<rows, nextRow, envVars, zoneVars, lease, ageOut, dns>>
  BY DEF ReconcileLoad
<1>3. T \subseteq Reservation
  <2> SUFFICES ASSUME NEW a \in Addresses, reserved[a] # NONE
               PROVE  [addr |-> a, mac |-> reserved[a].mac, name |-> reserved[a].name]
                          \in Reservation
    OBVIOUS
  <2>1. reserved[a] \in KeaLeases
    BY DEF IpamInv, EnvTypes
  <2> QED BY <2>1 DEF KeaLeases, Reservation
<1>4. \A i \in Live : i \in Ids /\ rows[i] \in RowType /\ rows[i] # NONE
  BY DEF Live, IpamInv, RowTypes
<1>5. L \subseteq Listed
  BY <1>4 DEF RowType, Listed, Sources
<1>6. ASSUME NEW e \in L, e.source = "dhcp" PROVE NeverStatic(e.id)
  <2>1. PICK i \in Live : e = [id |-> i, addr |-> rows[i].addr, source |-> rows[i].source,
                               mac |-> rows[i].mac]
    OBVIOUS
  <2>2. e.id = i /\ rows[i].source = "dhcp"
    BY <1>6, <2>1
  <2>3. i \in Nat /\ nextRow \in Nat /\ ~(i >= nextRow)
    BY <1>4, IpamBoundsAssumption DEF IpamInv, RowTypes, Ids
  <2> QED BY <2>2, <2>3 DEF NeverStatic
<1>7. RowTypes' /\ Evolve
  BY <1>2, RowsKept DEF IpamInv
<1>8. ReconInv'
  <2> HIDE DEF T, L
  <2>1. recon' \in ReconRun
    BY <1>1, <1>3, <1>5 DEF ReconRun, Reservation, Listed, Ids
  <2>2. ASSUME NEW e \in L, e.source = "dhcp" PROVE NeverStatic(e.id)'
    BY <1>2, <1>6, <2>2 DEF NeverStatic
  <2> QED BY <1>1, <2>1, <2>2 DEF ReconInv
<1> QED BY <1>2, <1>7, <1>8, ReconStep

LEMMA SyncOneKeeps ==
  ASSUME IpamInv, NEW r \in recon.todo, syncOne(r)
  PROVE  IpamInv' /\ Evolve
<1>1. UNCHANGED <<envVars, zoneVars, lease, ageOut, dns>>
  BY DEF syncOne
<1>2. r \in Reservation /\ recon \in ReconRun
  BY DEF IpamInv, ReconInv, ReconRun
<1>3. RowTypes' /\ Evolve
  <2>1. CASE InsertReservationIPAddress(r)
    <3> DEFINE x == [addr |-> r.addr, source |-> "reservation", status |-> "reserved",
                     name |-> r.name, mac |-> r.mac, exp |-> NONE]
    <3>1. x \in RowType /\ x.source # "static"
      BY <1>2 DEF Reservation, RowType
    <3>2. Insert(x)
      BY <2>1 DEF InsertReservationIPAddress
    <3> HIDE DEF x
    <3> QED BY <3>1, <3>2, RowInserted DEF IpamInv
  <2>2. CASE UNCHANGED <<rows, nextRow>>
    BY <2>2, RowsKept DEF IpamInv
  <2>3. ASSUME NEW e \in recon.index, e.source = "dhcp",
               PromoteDhcpLeaseToReservation(e.id, r)
        PROVE  RowTypes' /\ Evolve
    <3> DEFINE i == e.id
    <3>1. i \in Ids /\ NeverStatic(i)
      BY <1>2, <2>3 DEF IpamInv, ReconInv, ReconRun, Listed
    <3>2. CASE rows[i] = NONE
      BY <2>3, <3>2, RowsKept DEF IpamInv, PromoteDhcpLeaseToReservation
    <3>3. CASE rows[i] # NONE
      <4> DEFINE m == Coalesce(rows[i].mac, r.mac)
                 n == Coalesce(rows[i].name, r.name)
                 x == [rows[i] EXCEPT !.source = "reservation", !.status = "reserved",
                                      !.mac = m, !.name = n]
      <4>1. rows[i] \in RowType /\ rows[i].source \in {"dhcp", "reservation"}
        BY <3>1, <3>3 DEF IpamInv, RowTypes, RowType, NeverStatic
      <4>2. m \in Macs \cup {NONE} /\ n \in Names \cup {NONE}
        BY <1>2, <4>1 DEF Coalesce, Reservation, RowType
      <4>3. x \in RowType /\ x.addr = rows[i].addr /\ x.source = "reservation"
        <5> HIDE DEF m, n
        <5> QED BY <4>1, <4>2 DEF RowType
      <4>4. rows' = [rows EXCEPT ![i] = x]
        <5>1. rows' = [rows EXCEPT ![i].source = "reservation", ![i].status = "reserved",
                                   ![i].mac = Coalesce(@, r.mac),
                                   ![i].name = Coalesce(@, r.name)]
          BY <2>3, <3>3 DEF PromoteDhcpLeaseToReservation
        <5> QED BY <5>1, <3>1, Zenon DEF IpamInv, RowTypes
      <4>5. nextRow' = nextRow
        BY <2>3 DEF PromoteDhcpLeaseToReservation
      <4> HIDE DEF x
      <4> QED BY <3>1, <3>3, <4>1, <4>3, <4>4, <4>5, RowWritten DEF IpamInv
    <3> QED BY <3>2, <3>3
  <2> QED BY <2>1, <2>2, <2>3 DEF syncOne
<1>4. ReconInv'
  <2>1. recon' \in ReconRun /\ recon'.index \subseteq recon.index
    <3>1. CASE recon' = NoRecon
      BY <3>1 DEF NoRecon, ReconRun
    <3>2. CASE recon' = [recon EXCEPT !.todo = @ \ {r}]
      BY <1>2, <3>2 DEF ReconRun
    <3> QED BY <3>1, <3>2 DEF syncOne, ReconcileDone
  <2>2. ASSUME NEW e \in recon'.index, e.source = "dhcp" PROVE NeverStatic(e.id)'
    <3>1. e.id \in Ids /\ NeverStatic(e.id)
      BY <1>2, <2>1, <2>2 DEF IpamInv, ReconInv, ReconRun, Listed
    <3> QED BY <1>3, <3>1, NeverStaticKept DEF IpamInv
  <2> QED BY <2>1, <2>2 DEF ReconInv, ReconRun, Reservation, Listed, Ids
<1> QED BY <1>1, <1>3, <1>4, ReconStep

-----------------------------------------------------------------------------
(* SyncIPAMRecordsForZone *)

(* A step of one rebuild leaves the rows alone. *)
LEMMA DnsStepKeeps ==
  ASSUME IpamInv, NEW p \in DnsSyncs, NEW x \in DnsRun, DnsOk(x)',
         dns' = [dns EXCEPT ![p] = x], revs \subseteq revs', revs' \subseteq Nets,
         RecsInv', UNCHANGED <<rows, nextRow, envVars, lease, ageOut, recon>>
  PROVE  IpamInv' /\ Evolve
<1> USE DEF envVars
<1>1. RowTypes' /\ Evolve
  BY RowsKept DEF IpamInv
<1>2. EnvTypes'
  BY DEF IpamInv, EnvTypes
<1>3. LeaseInv'
  BY <1>1, LeaseKept DEF IpamInv
<1>4. ReconInv'
  BY <1>1, ReconKept DEF IpamInv
<1>5. DnsInv'
  <2>1. \A q \in DnsSyncs : dns'[q] = IF q = p THEN x ELSE dns[q]
    BY DEF IpamInv, DnsInv
  <2>2. dns' \in [DnsSyncs -> DnsRun]
    BY DEF IpamInv, DnsInv
  <2>3. ASSUME NEW q \in DnsSyncs PROVE DnsOk(dns[q])'
    <3>1. CASE q = p
      BY <2>1, <3>1 DEF DnsOk
    <3>2. CASE q # p
      <4>1. dns'[q] = dns[q] /\ DnsOk(dns[q])
        BY <2>1, <3>2 DEF IpamInv, DnsInv
      <4> QED BY <4>1 DEF DnsOk
    <3> QED BY <3>1, <3>2
  <2>4. dns' \in [DnsSyncs -> DnsRun']
    BY <2>2 DEF DnsRun, Entry, Nets, Ids
  <2>5. revs' \subseteq Nets'
    BY DEF Nets
  <2> QED BY <2>3, <2>4, <2>5 DEF DnsInv
<1> QED BY <1>1, <1>2, <1>3, <1>4, <1>5 DEF IpamInv

LEMMA NoDnsOk == NoDns \in DnsRun /\ DnsOk(NoDns) /\ DnsOk(NoDns)'
BY DEF DnsRun, DnsOk, NoDns

LEMMA RunOf ==
  ASSUME IpamInv, NEW p \in DnsSyncs
  PROVE  dns[p] \in DnsRun /\ DnsOk(dns[p])
BY DEF IpamInv, DnsInv

LEMMA RecordsStay ==
  ASSUME IpamInv, UNCHANGED <<rows, recs>>, revs \subseteq revs'
  PROVE  RecsInv'
BY DEF IpamInv, RecsInv

LEMMA StartKeeps ==
  ASSUME IpamInv, NEW p \in DnsSyncs, SyncStart(p)
  PROVE  IpamInv' /\ Evolve
<1> DEFINE x == [NoDns EXCEPT !.pc = "drop", !.zones = revs]
<1>1. /\ dns' = [dns EXCEPT ![p] = x]
      /\ UNCHANGED <<rows, nextRow, envVars, zoneVars, lease, ageOut, recon>>
  BY DEF SyncStart
<1>2. x \in DnsRun /\ x.zones = revs /\ x.pc = "drop"
  BY DEF IpamInv, DnsInv, DnsRun, NoDns
<1>3. PICK y : y = x
  OBVIOUS
<1>4. revs' = revs /\ RecsInv'
  BY <1>1, RecordsStay DEF zoneVars
<1>5. DnsOk(y)'
  BY <1>2, <1>3, <1>4 DEF DnsOk
<1>6. revs \subseteq revs' /\ revs' \subseteq Nets
  BY <1>4 DEF IpamInv, DnsInv
<1> QED
  <2> HIDE DEF x
  <2> QED BY <1>1, <1>2, <1>3, <1>4, <1>5, <1>6, DnsStepKeeps

LEMMA DropKeeps ==
  ASSUME IpamInv, NEW p \in DnsSyncs, SyncDrop(p)
  PROVE  IpamInv' /\ Evolve
<1> DEFINE x == [dns[p] EXCEPT !.pc = "list"]
<1>1. /\ recs' = DeleteIPAMRecordsInZones({Forward} \cup dns[p].zones)
      /\ UNCHANGED <<rows, nextRow, envVars, revs, frozen, lease, ageOut, recon>>
  BY DEF SyncDrop
<1>2. dns' = [dns EXCEPT ![p] = x]
  BY DEF SyncDrop, IpamInv, DnsInv
<1>3. x \in DnsRun /\ x.zones = dns[p].zones /\ x.pc = "list"
  BY RunOf DEF DnsRun
<1>4. DOMAIN recs' \subseteq DOMAIN recs
  BY <1>1 DEF DeleteIPAMRecordsInZones, BagToSet
<1>5. RecsInv'
  BY <1>1, <1>4 DEF IpamInv, RecsInv
<1>6. revs \subseteq revs' /\ revs' \subseteq Nets
  BY <1>1 DEF IpamInv, DnsInv
<1>7. PICK y : y = x
  OBVIOUS
<1>8. DnsOk(y)'
  <2> HIDE DEF x
  <2> QED BY <1>1, <1>3, <1>7, RunOf DEF DnsOk
<1> QED
  <2> HIDE DEF x
  <2> QED BY <1>1, <1>2, <1>3, <1>5, <1>6, <1>7, <1>8, DnsStepKeeps

(* What a rebuild goes on with after an address. *)
LEMMA NextIsOk ==
  ASSUME IpamInv, NEW p \in DnsSyncs, NEW rest \in SUBSET Entry
  PROVE  SyncNext(p, rest) \in DnsRun /\ DnsOk(SyncNext(p, rest))
<1> DEFINE x == [dns[p] EXCEPT !.pc = "forward", !.todo = rest, !.cur = NONE]
<1>1. x \in DnsRun /\ x.zones = dns[p].zones /\ x.pc = "forward"
  BY RunOf DEF DnsRun
<1>2. DnsOk(x)
  <2> HIDE DEF x
  <2> QED BY <1>1, RunOf DEF DnsOk
<1> QED BY <1>1, <1>2, NoDnsOk DEF SyncNext

LEMMA ListKeeps ==
  ASSUME IpamInv, NEW p \in DnsSyncs, SyncList(p)
  PROVE  IpamInv' /\ Evolve
<1> DEFINE T == {[row |-> i, net |-> NetOf[rows[i].addr], name |-> rows[i].name,
                  source |-> ProjectedSource(rows[i])] :
                    i \in {j \in Live : rows[j].name # NONE}}
<1>1. /\ dns' = [dns EXCEPT ![p] = SyncNext(p, T)]
      /\ UNCHANGED <<rows, nextRow, envVars, zoneVars, lease, ageOut, recon>>
  BY DEF SyncList
<1>2. \A i \in Live : i \in Ids /\ rows[i] \in RowType
  BY DEF Live, IpamInv, RowTypes
<1>3. T \subseteq Entry
  BY <1>2 DEF RowType, Entry, Nets, ProjectedSource
<1>4. PICK x : x = SyncNext(p, T)
  OBVIOUS
<1>5. x \in DnsRun /\ DnsOk(x)
  <2> HIDE DEF T
  <2> QED BY <1>3, <1>4, NextIsOk
<1>6. revs' = revs
  BY <1>1 DEF zoneVars
<1>7. DnsOk(x)' /\ revs \subseteq revs' /\ revs' \subseteq Nets
  BY <1>5, <1>6 DEF DnsOk, IpamInv, DnsInv
<1>8. RecsInv'
  BY <1>1, RecordsStay DEF zoneVars
<1> QED
  <2> HIDE DEF T
  <2> QED BY <1>1, <1>4, <1>5, <1>7, <1>8, DnsStepKeeps

(* CreateProjectedDnsRecord: the record is of a row that exists, in a zone that does. *)
LEMMA ProjectKeeps ==
  ASSUME IpamInv, NEW p \in DnsSyncs, NEW zone \in {Forward} \cup revs, NEW e \in Entry,
         NEW next \in DnsRun, DnsOk(next), Project(p, zone, e, next),
         UNCHANGED <<rows, nextRow, envVars, revs, frozen, lease, ageOut, recon>>
  PROVE  IpamInv' /\ Evolve
<1>1. e.row \in Ids
  BY DEF Entry
<1>2. PICK x \in DnsRun : DnsOk(x) /\ dns' = [dns EXCEPT ![p] = x]
  BY NoDnsOk DEF Project
<1>3. RecsInv'
  <2>1. CASE rows[e.row] = NONE
    BY <2>1, RecordsStay DEF Project
  <2>2. CASE rows[e.row] # NONE
    <3> DEFINE d == Record(zone, e)
    <3>1. recs' = recs (+) SetToBag({d})
      BY <2>2 DEF Project
    <3>2. d.zone = zone /\ d.row = e.row
      BY DEF Record
    <3>3. DOMAIN recs' = DOMAIN recs \cup {d}
      <4> HIDE DEF d
      <4> QED BY <3>1 DEF (+), SetToBag
    <3> HIDE DEF d
    <3> QED BY <1>1, <2>2, <3>2, <3>3 DEF IpamInv, RecsInv
  <2> QED BY <2>1, <2>2
<1>4. DnsOk(x)' /\ revs \subseteq revs' /\ revs' \subseteq Nets
  BY <1>2 DEF DnsOk, IpamInv, DnsInv
<1> QED BY <1>2, <1>3, <1>4, DnsStepKeeps

LEMMA ForwardKeeps ==
  ASSUME IpamInv, NEW p \in DnsSyncs, EmitForward(p)
  PROVE  IpamInv' /\ Evolve
<1>1. PICK e \in dns[p].todo :
         Project(p, Forward, e,
                 [dns[p] EXCEPT !.todo = @ \ {e}, !.cur = e,
                                !.pc = IF e.net \in dns[p].zones THEN "ptr" ELSE "lookup"])
  BY DEF EmitForward
<1> DEFINE c == IF e.net \in dns[p].zones THEN "ptr" ELSE "lookup"
           next == [dns[p] EXCEPT !.todo = @ \ {e}, !.cur = e, !.pc = c]
<1>2. e \in Entry
  BY RunOf DEF DnsRun
<1>3. next \in DnsRun /\ next.zones = dns[p].zones /\ next.cur = e /\ next.pc = c
  <2> HIDE DEF c
  <2>1. c \in {"ptr", "lookup"}
    BY DEF c
  <2> QED BY <1>2, <2>1, RunOf DEF DnsRun
<1>4. DnsOk(next)
  <2> HIDE DEF next
  <2> QED BY <1>2, <1>3, RunOf DEF DnsOk
<1>5. UNCHANGED <<rows, nextRow, envVars, revs, frozen, lease, ageOut, recon>>
  BY DEF EmitForward
<1>6. Project(p, Forward, e, next)
  BY <1>1
<1> QED
  <2> HIDE DEF next
  <2> QED BY <1>2, <1>3, <1>4, <1>5, <1>6, ProjectKeeps

LEMMA ReverseKeeps ==
  ASSUME IpamInv, NEW p \in DnsSyncs, EmitReverse(p)
  PROVE  IpamInv' /\ Evolve
<1>1. dns[p].cur \in Entry /\ dns[p].cur.net \in revs
  BY RunOf DEF EmitReverse, DnsOk
<1>2. SyncNext(p, dns[p].todo) \in DnsRun /\ DnsOk(SyncNext(p, dns[p].todo))
  <2>1. dns[p].todo \in SUBSET Entry
    BY RunOf DEF DnsRun
  <2> QED BY <2>1, NextIsOk
<1>3. /\ Project(p, dns[p].cur.net, dns[p].cur, SyncNext(p, dns[p].todo))
      /\ UNCHANGED <<rows, nextRow, envVars, revs, frozen, lease, ageOut, recon>>
  BY DEF EmitReverse
<1> QED BY <1>1, <1>2, <1>3, ProjectKeeps

(* A rebuild that knows the zone of its address goes on to the PTR. *)
LEMMA KnownOk ==
  ASSUME IpamInv, NEW p \in DnsSyncs, dns[p].pc \in {"lookup", "create"}
  PROVE  LET x == [dns[p] EXCEPT !.pc = "ptr", !.zones = @ \cup {dns[p].cur.net}]
         IN  /\ x \in DnsRun /\ x.pc = "ptr" /\ x.cur \in Entry
             /\ x.cur.net \in x.zones /\ x.zones = dns[p].zones \cup {dns[p].cur.net}
<1>1. dns[p].cur \in Entry /\ dns[p] \in DnsRun
  BY RunOf DEF DnsOk
<1>2. dns[p].cur.net \in Nets
  BY <1>1 DEF Entry
<1> QED BY <1>1, <1>2 DEF DnsRun

LEMMA LookupKeeps ==
  ASSUME IpamInv, NEW p \in DnsSyncs, GetReverseZoneByName(p)
  PROVE  IpamInv' /\ Evolve
<1> DEFINE known == [dns[p] EXCEPT !.pc = "ptr", !.zones = @ \cup {dns[p].cur.net}]
           missing == [dns[p] EXCEPT !.pc = "create"]
<1>1. /\ dns[p].pc = "lookup"
      /\ UNCHANGED <<rows, nextRow, envVars, zoneVars, lease, ageOut, recon>>
  BY DEF GetReverseZoneByName
<1>0. dns' = [dns EXCEPT ![p] = IF dns[p].cur.net \in revs THEN known ELSE missing]
  BY Zenon DEF GetReverseZoneByName
<1>2. /\ known \in DnsRun /\ known.pc = "ptr" /\ known.cur \in Entry
      /\ known.cur.net \in known.zones /\ known.zones = dns[p].zones \cup {dns[p].cur.net}
  BY <1>1, KnownOk
<1>3. dns[p].cur.net \in revs => DnsOk(known)
  <2> HIDE DEF known
  <2> QED BY <1>2, RunOf DEF DnsOk
<1>4. missing \in DnsRun /\ missing.pc = "create" /\ missing.zones = dns[p].zones
      /\ missing.cur = dns[p].cur
  BY RunOf DEF DnsRun
<1>5. DnsOk(missing)
  <2> HIDE DEF missing
  <2> QED BY <1>1, <1>4, RunOf DEF DnsOk
<1>6. PICK x \in DnsRun : DnsOk(x) /\ dns' = [dns EXCEPT ![p] = x]
  <2> HIDE DEF known, missing
  <2> QED BY <1>0, <1>2, <1>3, <1>4, <1>5
<1>7. DnsOk(x)' /\ revs \subseteq revs' /\ revs' \subseteq Nets
  BY <1>1, <1>6 DEF zoneVars, DnsOk, IpamInv, DnsInv
<1>8. RecsInv'
  BY <1>1, RecordsStay DEF zoneVars
<1> QED BY <1>1, <1>6, <1>7, <1>8, DnsStepKeeps

LEMMA ZoneKeeps ==
  ASSUME IpamInv, NEW p \in DnsSyncs, CreateReverseZone(p)
  PROVE  IpamInv' /\ Evolve
<1> DEFINE known == [dns[p] EXCEPT !.pc = "ptr", !.zones = @ \cup {dns[p].cur.net}]
           x == IF dns[p].cur.net \in revs THEN NoDns ELSE known
<1>1. /\ dns[p].pc = "create"
      /\ revs' = revs \cup {dns[p].cur.net}
      /\ UNCHANGED <<rows, nextRow, envVars, frozen, recs, lease, ageOut, recon>>
  BY DEF CreateReverseZone
<1>0. dns' = [dns EXCEPT ![p] = x]
  BY Zenon DEF CreateReverseZone
<1>2. /\ known \in DnsRun /\ known.pc = "ptr" /\ known.cur \in Entry
      /\ known.cur.net \in known.zones /\ known.zones = dns[p].zones \cup {dns[p].cur.net}
  BY <1>1, KnownOk
<1>3. known.zones \subseteq revs'
  <2> HIDE DEF known
  <2> QED BY <1>1, <1>2, RunOf DEF DnsOk
<1>4. PICK y \in DnsRun : y = x
  <2> HIDE DEF known
  <2> QED BY <1>2, NoDnsOk
<1>5. DnsOk(y)'
  <2>1. CASE dns[p].cur.net \in revs
    BY <1>4, <2>1 DEF DnsOk, NoDns
  <2>2. CASE dns[p].cur.net \notin revs
    <3>1. y = known
      BY <1>4, <2>2
    <3> HIDE DEF known
    <3> QED BY <1>2, <1>3, <3>1 DEF DnsOk
  <2> QED BY <2>1, <2>2
<1>6. revs \subseteq revs' /\ revs' \subseteq Nets
  <2>1. dns[p].cur.net \in Nets
    BY <1>1, RunOf DEF DnsOk, Entry
  <2> QED BY <1>1, <2>1 DEF IpamInv, DnsInv
<1>7. RecsInv'
  BY <1>1, <1>6, RecordsStay
<1> QED
  <2> HIDE DEF x
  <2> QED BY <1>0, <1>1, <1>4, <1>5, <1>6, <1>7, DnsStepKeeps

(* A run that stops forgets what it knew. *)
LEMMA StopKeeps ==
  ASSUME IpamInv, Stop
  PROVE  IpamInv' /\ Evolve
<1>1. UNCHANGED <<rows, nextRow, envVars, zoneVars>>
  BY DEF Stop
<1>2. RowTypes' /\ Evolve
  BY <1>1, RowsKept DEF IpamInv
<1>3. EnvTypes'
  BY <1>1 DEF IpamInv, EnvTypes, envVars
<1>4. LeaseInv'
  <2>1. CASE UNCHANGED lease
    BY <1>2, <2>1, LeaseKept DEF IpamInv
  <2>2. ASSUME NEW p \in LeaseSyncs, lease' = [lease EXCEPT ![p] = NoLease] PROVE LeaseInv'
    <3>1. LeaseRunOk(NoLease)'
      BY DEF LeaseRunOk, LeaseRun, NoLease
    <3>2. \A q \in LeaseSyncs : lease'[q] = IF q = p THEN NoLease ELSE lease[q]
      BY <2>2 DEF IpamInv, LeaseInv
    <3>3. NoLease.row = NONE /\ NoLease.pc = "idle" /\ NoLease \in LeaseRun
      BY DEF NoLease, LeaseRun
    <3>4. lease' \in [LeaseSyncs -> LeaseRun]
      BY <2>2, <3>3 DEF IpamInv, LeaseInv
    <3>5. ASSUME NEW q \in LeaseSyncs, lease'[q].row # NONE PROVE NeverStatic(lease[q].row)'
      <4>1. lease'[q] = lease[q] /\ lease[q].row \in Ids /\ NeverStatic(lease[q].row)
        BY <3>2, <3>3, <3>5 DEF IpamInv, LeaseInv, LeaseRun
      <4> QED BY <1>2, <4>1, NeverStaticKept DEF IpamInv, NeverStatic
    <3>6. \A q \in LeaseSyncs : lease'[q].pc = "write" => lease'[q].cur \in Lease
      BY <3>2, <3>3 DEF IpamInv, LeaseInv
    <3> QED BY <3>4, <3>5, <3>6 DEF LeaseInv, LeaseRun, Lease, Ids
  <2> QED BY <2>1, <2>2 DEF Stop
<1>5. ReconInv'
  <2>1. CASE UNCHANGED recon
    BY <1>2, <2>1, ReconKept DEF IpamInv
  <2>2. CASE recon' = NoRecon
    BY <2>2 DEF ReconInv, ReconRun, NoRecon
  <2> QED BY <2>1, <2>2 DEF Stop
<1>6. DnsInv'
  <2>1. CASE UNCHANGED dns
    BY <1>1, <2>1, DnsKept DEF IpamInv, zoneVars
  <2>2. ASSUME NEW p \in DnsSyncs, dns' = [dns EXCEPT ![p] = NoDns] PROVE DnsInv'
    <3>1. \A q \in DnsSyncs : dns'[q] = IF q = p THEN NoDns ELSE dns[q]
      BY <2>2 DEF IpamInv, DnsInv
    <3>2. dns' \in [DnsSyncs -> DnsRun] /\ revs' = revs
      BY <1>1, <2>2, NoDnsOk DEF IpamInv, DnsInv, zoneVars
    <3>3. \A q \in DnsSyncs : DnsOk(dns[q])'
      BY <3>1, <3>2, NoDnsOk DEF IpamInv, DnsInv, DnsOk
    <3> QED BY <3>2, <3>3 DEF IpamInv, DnsInv, DnsRun, Entry, Nets, Ids
  <2> QED BY <2>1, <2>2 DEF Stop
<1>7. RecsInv'
  BY <1>1, <1>2, RecsKept DEF IpamInv, zoneVars
<1> QED BY <1>2, <1>3, <1>4, <1>5, <1>6, <1>7 DEF IpamInv

-----------------------------------------------------------------------------
(* The theorems *)

LEMMA InitKeeps == IpamInit => IpamInv
<1> SUFFICES ASSUME IpamInit PROVE IpamInv
  OBVIOUS
<1>1. RowTypes
  BY IpamBoundsAssumption DEF IpamInit, RowTypes, Ids
<1>2. EnvTypes
  BY DEF IpamInit, EnvTypes
<1>3. LeaseInv
  <2>1. NoLease \in LeaseRun /\ NoLease.pc = "idle" /\ NoLease.row = NONE
    BY DEF NoLease, LeaseRun
  <2>2. lease = [p \in LeaseSyncs |-> NoLease]
    BY DEF IpamInit
  <2> HIDE DEF NoLease
  <2> QED BY <2>1, <2>2 DEF LeaseInv
<1>4. ReconInv
  BY DEF IpamInit, ReconInv, ReconRun, NoRecon
<1>5. DnsInv
  <2>1. revs = {} /\ dns = [p \in DnsSyncs |-> NoDns]
    BY DEF IpamInit
  <2> QED BY <2>1, NoDnsOk DEF DnsInv
<1>6. RecsInv
  BY DEF IpamInit, RecsInv, EmptyBag, SetToBag
<1> QED BY <1>1, <1>2, <1>3, <1>4, <1>5, <1>6 DEF IpamInv

LEMMA NextKeeps ==
  ASSUME IpamInv, [IpamNext]_ipamVars
  PROVE  IpamInv' /\ Evolve
<1>1. CASE UNCHANGED ipamVars
  <2>1. UNCHANGED <<rows, nextRow, envVars, revs, recs, lease, recon, dns>>
    BY <1>1 DEF ipamVars, envVars
  <2> QED BY <2>1, RowsKept, RowStep DEF IpamInv
<1>2. ASSUME NEW a \in Addresses, createAddress(a) \/ KeaLease(a) \/ Reserve(a)
      PROVE  IpamInv' /\ Evolve
  BY <1>2, CreateKeeps, WorldKeeps
<1>3. ASSUME NEW i \in Ids, updateAddress(i) \/ deleteAddress(i) \/ Lapse(i)
      PROVE  IpamInv' /\ Evolve
  BY <1>3, UpdateKeeps, DeleteKeeps, LapseKeeps
<1>4. CASE setFrozen
  BY <1>4, WorldKeeps
<1>5. ASSUME NEW p \in LeaseSyncs, LeaseFetch(p) \/ LeaseFind(p) \/ LeaseWrite(p)
      PROVE  IpamInv' /\ Evolve
  BY <1>5, FetchKeeps, FindKeeps, WriteKeeps
<1>6. CASE AgeOutStep
  BY <1>6, AgeOutKeeps
<1>7. CASE ReconcileLoad
  BY <1>7, LoadKeeps
<1>8. ASSUME NEW r \in recon.todo, syncOne(r) PROVE IpamInv' /\ Evolve
  BY <1>8, SyncOneKeeps
<1>9. ASSUME NEW p \in DnsSyncs, SyncStart(p) \/ DnsStep(p) PROVE IpamInv' /\ Evolve
  BY <1>9, StartKeeps, DropKeeps, ListKeeps, ForwardKeeps, LookupKeeps, ZoneKeeps,
     ReverseKeeps DEF DnsStep
<1>10. CASE Stop
  BY <1>10, StopKeeps
<1> QED BY <1>1, <1>2, <1>3, <1>4, <1>5, <1>6, <1>7, <1>8, <1>9, <1>10 DEF IpamNext

LEMMA InvIsEnough == IpamInv => IpamTypeOK
<1> SUFFICES ASSUME IpamInv PROVE IpamTypeOK
  OBVIOUS
<1>1. \A i \in Ids : rows[i] \in RowType \cup {NONE}
  BY DEF IpamInv, RowTypes
<1>2. /\ \A i, j \in Live : rows[i].addr = rows[j].addr => i = j
      /\ \A i \in Live : rows[i].source = "static" => rows[i].exp = NONE
      /\ nextRow \in 1 .. MaxRows + 1
  BY DEF IpamInv, RowTypes, Live
<1>3. \A r \in BagToSet(recs) : r.zone \in {Forward} \cup revs /\ r.row \in Live
  BY DEF IpamInv, RecsInv, Live, BagToSet
<1>4. revs \subseteq Nets /\ \A p \in DnsSyncs : dns[p].zones \subseteq revs
  BY DEF IpamInv, DnsInv, DnsOk
<1> QED BY <1>1, <1>2, <1>3, <1>4 DEF IpamTypeOK

(* However the address handlers, the lease sync, the age-out, the reconcile
   and the rebuilds interleave and wherever they stop: one row per address, no
   expiry on an operator's address, and every projected record belongs to a row
   and to a zone that exist, though rows are deleted and zones created between
   the statements of a rebuild (CreateProjectedDnsRecord, CreateReverseZone). *)
THEOREM AddressesAndRecordsAgree == IpamSpec => []IpamTypeOK
<1>1. IpamInv /\ [IpamNext]_ipamVars => IpamInv'
  BY NextKeeps
<1> QED BY InitKeeps, <1>1, InvIsEnough, PTL DEF IpamSpec

(* An address that an operator or a reservation owns keeps its source, and only
   an operator deletes it: a lease sync that writes by an id it found earlier
   (UpdateDhcpLease) and a reconcile that decides on a row as it was listed
   (syncOne) never turn it into a lease's, and the age-out never takes it. *)
THEOREM OwnersKeepTheirAddresses == IpamSpec => OwnedStaysOwned
<1>1. IpamInv /\ [IpamNext]_ipamVars => IpamInv'
  BY NextKeeps
<1> DEFINE Owned == \A i \in Live : rows[i].source # "dhcp" =>
                       IF rows'[i] = NONE THEN changes' # changes
                       ELSE rows'[i].source = rows[i].source
<1>2. IpamInv /\ [IpamNext]_ipamVars => Owned
  BY NextKeeps DEF Evolve, Live
<1>3. IpamInv /\ [IpamNext]_ipamVars => [Owned]_ipamVars
  BY <1>2
<1> QED BY InitKeeps, <1>1, <1>3, PTL DEF IpamSpec, OwnedStaysOwned

-----------------------------------------------------------------------------
(* Copies.  A run may still write a record of a row into a zone while it has
   the row to do, and before it lists the rows unless it drops the zone first.
   A drop leaves no copy, so that there is room for one of each run; a record
   that is written takes the room of the run that wrote it.                  *)

May(x, zone, i) ==
    \/ x.pc = "drop" /\ zone \notin {Forward} \cup x.zones
    \/ x.pc = "list"
    \/ \E e \in x.todo : e.row = i /\ (zone = Forward \/ e.net = zone)
    \/ x.pc \in {"lookup", "create", "ptr"} /\ x.cur.row = i /\ x.cur.net = zone

Pending(zone, i) == {p \in DnsSyncs : May(dns[p], zone, i)}

\* A run has a row to do once.
RowsOnce(x) ==
    /\ \A e, f \in x.todo : e.row = f.row => e = f
    /\ x.pc \in {"lookup", "create", "ptr"} => \A e \in x.todo : e.row # x.cur.row

RoomLeft(zone, i) ==
    /\ IsFiniteSet(Copies(zone, i))
    /\ Cardinality(Copies(zone, i)) + Cardinality(Pending(zone, i)) <= Cardinality(DnsSyncs)

CopiesInv ==
    /\ \A r \in DOMAIN recs : recs[r] \in Nat /\ r.source \in ProjectedSources
    /\ \A p \in DnsSyncs : RowsOnce(dns[p])
    /\ \A zone, i : RoomLeft(zone, i)

LEMMA RoomKept ==
  ASSUME NEW C, NEW D, NEW P \in SUBSET DnsSyncs, NEW Q \in SUBSET DnsSyncs, IsFiniteSet(C),
         Cardinality(C) + Cardinality(P) <= Cardinality(DnsSyncs),
         \/ D = C /\ Q \subseteq P
         \/ D = {}
         \/ \E y, p : D = C \cup {y} /\ p \in P /\ Q \subseteq P \ {p}
  PROVE  IsFiniteSet(D) /\ Cardinality(D) + Cardinality(Q) <= Cardinality(DnsSyncs)
<1>1. /\ IsFiniteSet(DnsSyncs) /\ IsFiniteSet(P) /\ IsFiniteSet(Q)
      /\ Cardinality(Q) <= Cardinality(DnsSyncs)
  BY IpamBoundsAssumption, FS_Subset
<1>2. /\ Cardinality(C) \in Nat /\ Cardinality(P) \in Nat /\ Cardinality(Q) \in Nat
      /\ Cardinality(DnsSyncs) \in Nat
  BY <1>1, FS_CardinalityType
<1>3. CASE D = C /\ Q \subseteq P
  BY <1>1, <1>2, <1>3, FS_Subset
<1>4. CASE D = {}
  BY <1>1, <1>2, <1>4, FS_EmptySet
<1>5. ASSUME NEW y, NEW p, D = C \cup {y}, p \in P, Q \subseteq P \ {p}
      PROVE  IsFiniteSet(D) /\ Cardinality(D) + Cardinality(Q) <= Cardinality(DnsSyncs)
  <2>1. IsFiniteSet(D) /\ Cardinality(D) \in Nat /\ Cardinality(D) <= Cardinality(C) + 1
    BY <1>2, <1>5, FS_AddElement
  <2>2. IsFiniteSet(P \ {p}) /\ Cardinality(P \ {p}) = Cardinality(P) - 1
    BY <1>1, <1>5, FS_RemoveElement
  <2>3. Cardinality(Q) <= Cardinality(P \ {p})
    BY <1>5, <2>2, FS_Subset
  <2> QED BY <1>2, <2>1, <2>2, <2>3
<1> QED BY <1>3, <1>4, <1>5

LEMMA PendingOf ==
  ASSUME IpamInv, NEW p \in DnsSyncs, NEW x, dns' = [dns EXCEPT ![p] = x], NEW zone, NEW i,
         May(x, zone, i) => May(dns[p], zone, i)
  PROVE  /\ Pending(zone, i)' \subseteq Pending(zone, i)
         /\ ~May(x, zone, i) => Pending(zone, i)' \subseteq Pending(zone, i) \ {p}
<1>1. \A q \in DnsSyncs : dns'[q] = IF q = p THEN x ELSE dns[q]
  BY DEF IpamInv, DnsInv
<1> QED BY <1>1 DEF Pending

LEMMA RowsStayOnce ==
  ASSUME IpamInv, CopiesInv, NEW p \in DnsSyncs, NEW x, dns' = [dns EXCEPT ![p] = x], RowsOnce(x)
  PROVE  \A q \in DnsSyncs : RowsOnce(dns'[q])
<1>1. \A q \in DnsSyncs : dns'[q] = IF q = p THEN x ELSE dns[q]
  BY DEF IpamInv, DnsInv
<1> QED BY <1>1 DEF CopiesInv

(* A run goes on, or stops, and leaves the records alone. *)
LEMMA RunMoves ==
  ASSUME IpamInv, CopiesInv, NEW p \in DnsSyncs, NEW x, dns' = [dns EXCEPT ![p] = x],
         UNCHANGED recs, RowsOnce(x),
         \A zone, i : May(x, zone, i) => May(dns[p], zone, i)
  PROVE  CopiesInv'
<1>1. \A q \in DnsSyncs : RowsOnce(dns'[q])
  BY RowsStayOnce
<1>2. ASSUME NEW zone, NEW i PROVE RoomLeft(zone, i)'
  <2>1. Copies(zone, i)' = Copies(zone, i)
    BY DEF Copies
  <2>2. Pending(zone, i)' \subseteq Pending(zone, i)
    BY PendingOf
  <2>3. Pending(zone, i) \in SUBSET DnsSyncs /\ Pending(zone, i)' \in SUBSET DnsSyncs
    BY DEF Pending
  <2>4. RoomLeft(zone, i)
    BY DEF CopiesInv
  <2> QED BY <2>1, <2>2, <2>3, <2>4, RoomKept DEF RoomLeft
<1> QED BY <1>1, <1>2 DEF CopiesInv

LEMMA NoDnsOnce == RowsOnce(NoDns) /\ \A zone, i : ~May(NoDns, zone, i)
BY DEF RowsOnce, May, NoDns

(* A run writes the record that it had to do, or the row is gone. *)
LEMMA RecordMoves ==
  ASSUME IpamInv, CopiesInv, NEW p \in DnsSyncs, NEW zone, NEW e \in Entry, NEW next,
         Project(p, zone, e, next), RowsOnce(next),
         May(dns[p], zone, e.row), ~May(next, zone, e.row),
         \A z, i : May(next, z, i) => May(dns[p], z, i)
  PROVE  CopiesInv'
<1>1. CASE rows[e.row] = NONE
  BY <1>1, NoDnsOnce, RunMoves DEF Project
<1>2. CASE rows[e.row] # NONE
  <2> DEFINE d == Record(zone, e)
             n == IF d \in DOMAIN recs THEN recs[d] + 1 ELSE 1
  <2>1. dns' = [dns EXCEPT ![p] = next] /\ recs' = recs (+) SetToBag({d})
    BY <1>2 DEF Project
  <2>2. d.zone = zone /\ d.row = e.row /\ d.source \in ProjectedSources
    BY DEF Record, Entry, ProjectedSources
  <2> HIDE DEF d
  <2>3. \A r \in DOMAIN recs : recs[r] \in Nat /\ r.source \in ProjectedSources
    BY DEF CopiesInv
  <2>4. /\ DOMAIN recs' = DOMAIN recs \cup {d}
        /\ recs'[d] = n
        /\ \A r \in DOMAIN recs : r # d => recs'[r] = recs[r]
    BY <2>1, <2>3 DEF (+), SetToBag
  <2>5. n \in Nat /\ 1 .. n = (IF d \in DOMAIN recs THEN 1 .. recs[d] ELSE {}) \cup {n}
    BY <2>3
  <2> HIDE DEF n
  <2>6. \A r \in DOMAIN recs' : recs'[r] \in Nat /\ r.source \in ProjectedSources
    BY <2>2, <2>3, <2>4, <2>5
  <2>7. \A q \in DnsSyncs : RowsOnce(dns'[q])
    BY <2>1, RowsStayOnce
  <2>8. ASSUME NEW z, NEW i PROVE RoomLeft(z, i)'
    <3>1. RoomLeft(z, i)
      BY DEF CopiesInv
    <3>2. Pending(z, i) \in SUBSET DnsSyncs /\ Pending(z, i)' \in SUBSET DnsSyncs
      BY DEF Pending
    <3>3. CASE z = zone /\ i = e.row
      <4>1. Copies(z, i)' = Copies(z, i) \cup {<<d, n>>}
        BY <2>2, <2>4, <2>5, <3>3 DEF Copies, BagToSet
      <4>2. Pending(z, i)' \subseteq Pending(z, i) \ {p}
        BY <2>1, <3>3, PendingOf
      <4>3. p \in Pending(z, i)
        BY <3>3 DEF Pending
      <4> QED BY <3>1, <3>2, <4>1, <4>2, <4>3, RoomKept DEF RoomLeft
    <3>4. CASE ~(z = zone /\ i = e.row)
      <4>1. Copies(z, i)' = Copies(z, i)
        BY <2>2, <2>4, <3>4 DEF Copies, BagToSet
      <4>2. Pending(z, i)' \subseteq Pending(z, i)
        BY <2>1, PendingOf
      <4> QED BY <3>1, <3>2, <4>1, <4>2, RoomKept DEF RoomLeft
    <3> QED BY <3>3, <3>4
  <2> QED BY <2>6, <2>7, <2>8 DEF CopiesInv
<1> QED BY <1>1, <1>2

LEMMA StartCopies ==
  ASSUME IpamInv, CopiesInv, NEW p \in DnsSyncs, SyncStart(p) PROVE CopiesInv'
<1> DEFINE x == [NoDns EXCEPT !.pc = "drop", !.zones = revs]
<1>1. dns' = [dns EXCEPT ![p] = x] /\ UNCHANGED recs
  BY DEF SyncStart, zoneVars
<1>2. x.pc = "drop" /\ x.zones = revs /\ x.todo = {}
  BY DEF NoDns
<1> HIDE DEF x
<1>3. RowsOnce(x)
  BY <1>2 DEF RowsOnce
<1>4. \A q \in DnsSyncs : RowsOnce(dns'[q])
  BY <1>1, <1>3, RowsStayOnce
<1>5. ASSUME NEW zone, NEW i PROVE RoomLeft(zone, i)'
  <2>1. Copies(zone, i)' = Copies(zone, i) /\ RoomLeft(zone, i)
    BY <1>1 DEF Copies, CopiesInv
  <2>2. Pending(zone, i) \in SUBSET DnsSyncs /\ Pending(zone, i)' \in SUBSET DnsSyncs
    BY DEF Pending
  <2>3. CASE zone \in {Forward} \cup revs
    <3>1. ~May(x, zone, i)
      BY <1>2, <2>3 DEF May
    <3>2. Pending(zone, i)' \subseteq Pending(zone, i)
      BY <1>1, <3>1, PendingOf
    <3> QED BY <2>1, <2>2, <3>2, RoomKept DEF RoomLeft
  <2>4. CASE zone \notin {Forward} \cup revs
    <3>1. Copies(zone, i) = {}
      BY <2>4 DEF Copies, BagToSet, IpamInv, RecsInv
    <3> QED BY <2>1, <2>2, <3>1, RoomKept DEF RoomLeft
  <2> QED BY <2>3, <2>4
<1> QED BY <1>1, <1>4, <1>5 DEF CopiesInv

LEMMA DropCopies ==
  ASSUME IpamInv, CopiesInv, NEW p \in DnsSyncs, SyncDrop(p) PROVE CopiesInv'
<1> DEFINE x == [dns[p] EXCEPT !.pc = "list"]
           Z == {Forward} \cup dns[p].zones
<1>1. dns' = [dns EXCEPT ![p] = x] /\ dns[p].pc = "drop" /\ recs' = DeleteIPAMRecordsInZones(Z)
  BY DEF SyncDrop, IpamInv, DnsInv
<1>2. x.pc = "list" /\ x.todo = dns[p].todo
  BY RunOf DEF DnsRun
<1> HIDE DEF x
<1>3. /\ DOMAIN recs' = {r \in DOMAIN recs : r.zone \notin Z}
      /\ \A r \in DOMAIN recs' : recs'[r] = recs[r]
  BY <1>1 DEF DeleteIPAMRecordsInZones, BagToSet, CopiesInv
<1>4. \A r \in DOMAIN recs' : recs'[r] \in Nat /\ r.source \in ProjectedSources
  BY <1>3 DEF CopiesInv
<1>5. RowsOnce(x)
  BY <1>2 DEF CopiesInv, RowsOnce
<1>6. \A q \in DnsSyncs : RowsOnce(dns'[q])
  BY <1>1, <1>5, RowsStayOnce
<1>7. ASSUME NEW zone, NEW i PROVE RoomLeft(zone, i)'
  <2>1. RoomLeft(zone, i)
    BY DEF CopiesInv
  <2>2. Pending(zone, i) \in SUBSET DnsSyncs /\ Pending(zone, i)' \in SUBSET DnsSyncs
    BY DEF Pending
  <2>3. CASE zone \in Z
    <3>1. Copies(zone, i)' = {}
      BY <1>3, <2>3 DEF Copies, BagToSet
    <3> QED BY <2>1, <2>2, <3>1, RoomKept DEF RoomLeft
  <2>4. CASE zone \notin Z
    <3>1. Copies(zone, i)' = Copies(zone, i)
      BY <1>3, <2>4 DEF Copies, BagToSet
    <3>2. May(dns[p], zone, i)
      BY <1>1, <2>4 DEF May
    <3>3. Pending(zone, i)' \subseteq Pending(zone, i)
      BY <1>1, <3>2, PendingOf
    <3> QED BY <2>1, <2>2, <3>1, <3>3, RoomKept DEF RoomLeft
  <2> QED BY <2>3, <2>4
<1> QED BY <1>4, <1>6, <1>7 DEF CopiesInv

(* What a rebuild goes on with has the rows that it still has to do. *)
LEMMA NextRows ==
  ASSUME IpamInv, NEW p \in DnsSyncs, NEW rest, \A e, f \in rest : e.row = f.row => e = f
  PROVE  /\ RowsOnce(SyncNext(p, rest))
         /\ \A zone, i : May(SyncNext(p, rest), zone, i) =>
                \E e \in rest : e.row = i /\ (zone = Forward \/ e.net = zone)
<1> DEFINE x == [dns[p] EXCEPT !.pc = "forward", !.todo = rest, !.cur = NONE]
<1>1. x.pc = "forward" /\ x.todo = rest
  BY RunOf DEF DnsRun
<1> HIDE DEF x
<1>2. SyncNext(p, rest) = IF rest = {} THEN NoDns ELSE x
  BY DEF SyncNext, x
<1>3. RowsOnce(x) /\ \A zone, i : May(x, zone, i) =>
                \E e \in rest : e.row = i /\ (zone = Forward \/ e.net = zone)
  BY <1>1 DEF RowsOnce, May
<1> QED BY <1>2, <1>3, NoDnsOnce

LEMMA ListCopies ==
  ASSUME IpamInv, CopiesInv, NEW p \in DnsSyncs, SyncList(p) PROVE CopiesInv'
<1> DEFINE T == {[row |-> i, net |-> NetOf[rows[i].addr], name |-> rows[i].name,
                  source |-> ProjectedSource(rows[i])] :
                    i \in {j \in Live : rows[j].name # NONE}}
<1>1. dns' = [dns EXCEPT ![p] = SyncNext(p, T)] /\ UNCHANGED recs /\ dns[p].pc = "list"
  BY DEF SyncList, zoneVars
<1>2. \A e, f \in T : e.row = f.row => e = f
  OBVIOUS
<1> HIDE DEF T
<1>3. RowsOnce(SyncNext(p, T))
  BY <1>2, NextRows
<1>4. \A zone, i : May(dns[p], zone, i)
  BY <1>1 DEF May
<1> QED BY <1>1, <1>3, <1>4, RunMoves

LEMMA ForwardCopies ==
  ASSUME IpamInv, CopiesInv, NEW p \in DnsSyncs, EmitForward(p) PROVE CopiesInv'
<1>1. PICK e \in dns[p].todo :
         Project(p, Forward, e,
                 [dns[p] EXCEPT !.todo = @ \ {e}, !.cur = e,
                                !.pc = IF e.net \in dns[p].zones THEN "ptr" ELSE "lookup"])
  BY DEF EmitForward
<1> DEFINE c == IF e.net \in dns[p].zones THEN "ptr" ELSE "lookup"
           next == [dns[p] EXCEPT !.todo = @ \ {e}, !.cur = e, !.pc = c]
<1>2. e \in Entry /\ e.net # Forward
  BY RunOf, IpamBoundsAssumption DEF DnsRun, Entry, Nets, Forward
<1>3. next.todo = dns[p].todo \ {e} /\ next.cur = e /\ next.pc = c
  BY RunOf DEF DnsRun
<1>4. Project(p, Forward, e, next)
  BY <1>1
<1>5. c \in {"ptr", "lookup"}
  OBVIOUS
<1> HIDE DEF next, c
<1>6. \A f \in dns[p].todo : f.row = e.row => f = e
  BY DEF CopiesInv, RowsOnce
<1>7. RowsOnce(next)
  BY <1>3, <1>6 DEF CopiesInv, RowsOnce
<1>8. May(dns[p], Forward, e.row)
  BY DEF May
<1>9. ~May(next, Forward, e.row)
  BY <1>2, <1>3, <1>5, <1>6 DEF May
<1>10. ASSUME NEW z, NEW i, May(next, z, i) PROVE May(dns[p], z, i)
  BY <1>3, <1>5, <1>10 DEF May
<1> QED BY <1>2, <1>4, <1>7, <1>8, <1>9, <1>10, RecordMoves

LEMMA ReverseCopies ==
  ASSUME IpamInv, CopiesInv, NEW p \in DnsSyncs, EmitReverse(p) PROVE CopiesInv'
<1> DEFINE next == SyncNext(p, dns[p].todo)
           e == dns[p].cur
<1>1. dns[p].pc = "ptr" /\ Project(p, e.net, e, next)
  BY DEF EmitReverse
<1>2. e \in Entry /\ e.net # Forward
  BY <1>1, RunOf, IpamBoundsAssumption DEF DnsOk, Entry, Nets, Forward
<1>3. /\ \A f, g \in dns[p].todo : f.row = g.row => f = g
      /\ \A f \in dns[p].todo : f.row # e.row
  BY <1>1 DEF CopiesInv, RowsOnce
<1>4. /\ RowsOnce(next)
      /\ \A z, i : May(next, z, i) => \E f \in dns[p].todo : f.row = i /\ (z = Forward \/ f.net = z)
  BY <1>3, NextRows
<1>5. May(dns[p], e.net, e.row)
  BY <1>1 DEF May
<1> HIDE DEF next, e
<1>6. ~May(next, e.net, e.row)
  BY <1>3, <1>4
<1>7. \A z, i : May(next, z, i) => May(dns[p], z, i)
  BY <1>4 DEF May
<1> QED BY <1>1, <1>2, <1>4, <1>5, <1>6, <1>7, RecordMoves

(* The look-up and the creation of a reverse zone go on with the same row. *)
LEMMA ZoneCopies ==
  ASSUME IpamInv, CopiesInv, NEW p \in DnsSyncs, GetReverseZoneByName(p) \/ CreateReverseZone(p)
  PROVE  CopiesInv'
<1> DEFINE known == [dns[p] EXCEPT !.pc = "ptr", !.zones = @ \cup {dns[p].cur.net}]
           missing == [dns[p] EXCEPT !.pc = "create"]
<1>1. dns[p].pc \in {"lookup", "create"} /\ UNCHANGED recs
  BY DEF GetReverseZoneByName, CreateReverseZone, zoneVars
<1>2. \/ dns' = [dns EXCEPT ![p] = known]
      \/ dns' = [dns EXCEPT ![p] = missing]
      \/ dns' = [dns EXCEPT ![p] = NoDns]
  <2>1. CASE GetReverseZoneByName(p)
    <3>1. dns' = [dns EXCEPT ![p] = IF dns[p].cur.net \in revs THEN known ELSE missing]
      BY <2>1, Zenon DEF GetReverseZoneByName
    <3> HIDE DEF known, missing
    <3> QED BY <3>1
  <2>2. CASE CreateReverseZone(p)
    <3>1. dns' = [dns EXCEPT ![p] = IF dns[p].cur.net \in revs THEN NoDns ELSE known]
      BY <2>2, Zenon DEF CreateReverseZone
    <3> HIDE DEF known, missing
    <3> QED BY <3>1
  <2> QED BY <2>1, <2>2
<1>3. known.pc = "ptr" /\ known.todo = dns[p].todo /\ known.cur = dns[p].cur
  BY RunOf DEF DnsRun
<1>4. missing.pc = "create" /\ missing.todo = dns[p].todo /\ missing.cur = dns[p].cur
  BY RunOf DEF DnsRun
<1> HIDE DEF known, missing
<1>5. ASSUME NEW x, x = known \/ x = missing
      PROVE  RowsOnce(x) /\ \A z, i : May(x, z, i) => May(dns[p], z, i)
  <2>1. x.pc \in {"ptr", "create"} /\ x.todo = dns[p].todo /\ x.cur = dns[p].cur
    BY <1>3, <1>4, <1>5
  <2>2. RowsOnce(x)
    BY <1>1, <2>1 DEF CopiesInv, RowsOnce
  <2>3. ASSUME NEW z, NEW i, May(x, z, i) PROVE May(dns[p], z, i)
    BY <1>1, <2>1, <2>3 DEF May
  <2> QED BY <2>2, <2>3
<1> QED BY <1>1, <1>2, <1>5, NoDnsOnce, RunMoves

LEMMA OthersCopies ==
  ASSUME CopiesInv, UNCHANGED <<recs, dns>> PROVE CopiesInv'
<1>1. \A zone, i : Copies(zone, i)' = Copies(zone, i) /\ Pending(zone, i)' = Pending(zone, i)
  BY DEF Copies, Pending
<1> QED BY <1>1 DEF CopiesInv, RoomLeft

LEMMA NextCopies ==
  ASSUME IpamInv, CopiesInv, [IpamNext]_ipamVars PROVE CopiesInv'
<1>1. CASE UNCHANGED ipamVars
  BY <1>1, OthersCopies DEF ipamVars
<1>2. ASSUME NEW a \in Addresses, createAddress(a) \/ KeaLease(a) \/ Reserve(a)
      PROVE  CopiesInv'
  BY <1>2, OthersCopies DEF createAddress, KeaLease, Reserve, zoneVars, procVars
<1>3. ASSUME NEW i \in Ids, updateAddress(i) \/ deleteAddress(i) \/ Lapse(i)
      PROVE  CopiesInv'
  BY <1>3, OthersCopies DEF updateAddress, deleteAddress, Lapse, zoneVars, procVars
<1>4. CASE setFrozen
  BY <1>4, OthersCopies DEF setFrozen, procVars
<1>5. ASSUME NEW p \in LeaseSyncs, LeaseFetch(p) \/ LeaseFind(p) \/ LeaseWrite(p)
      PROVE  CopiesInv'
  BY <1>5, OthersCopies DEF LeaseFetch, LeaseFind, LeaseWrite, zoneVars
<1>6. CASE AgeOutStep
  BY <1>6, OthersCopies DEF AgeOutStep, DeprecateExpiredDhcpLeases, DeleteDeprecatedDhcpLeases, zoneVars
<1>7. CASE ReconcileLoad
  BY <1>7, OthersCopies DEF ReconcileLoad, zoneVars
<1>8. ASSUME NEW r \in recon.todo, syncOne(r) PROVE CopiesInv'
  BY <1>8, OthersCopies DEF syncOne, zoneVars
<1>9. ASSUME NEW p \in DnsSyncs, SyncStart(p) \/ DnsStep(p) PROVE CopiesInv'
  BY <1>9, StartCopies, DropCopies, ListCopies, ForwardCopies, ZoneCopies, ReverseCopies DEF DnsStep
<1>10. CASE Stop
  <2>1. CASE UNCHANGED dns
    BY <1>10, <2>1, OthersCopies DEF Stop, zoneVars
  <2>2. CASE \E p \in DnsSyncs : dns' = [dns EXCEPT ![p] = NoDns]
    BY <1>10, <2>2, NoDnsOnce, RunMoves DEF Stop, zoneVars
  <2> QED BY <1>10, <2>1, <2>2 DEF Stop
<1> QED BY <1>1, <1>2, <1>3, <1>4, <1>5, <1>6, <1>7, <1>8, <1>9, <1>10 DEF IpamNext

LEMMA InitCopies == IpamInit => CopiesInv
<1> SUFFICES ASSUME IpamInit PROVE CopiesInv
  OBVIOUS
<1>1. DOMAIN recs = {} /\ \A p \in DnsSyncs : dns[p] = NoDns
  BY DEF IpamInit, EmptyBag, SetToBag
<1>2. ASSUME NEW zone, NEW i PROVE RoomLeft(zone, i)
  <2>1. Copies(zone, i) = {} /\ Pending(zone, i) = {}
    BY <1>1, NoDnsOnce DEF Copies, BagToSet, Pending
  <2>2. Cardinality(DnsSyncs) \in Nat
    BY IpamBoundsAssumption, FS_CardinalityType
  <2> QED BY <2>1, <2>2, FS_EmptySet DEF RoomLeft
<1> QED BY <1>1, <1>2, NoDnsOnce DEF CopiesInv

(* However rebuilds overlap and wherever they stop, an address has no more
   records in a zone than there can be runs under way: SyncIPAMRecordsForZone
   drops before it lists, without a transaction and without a unique key, and
   each run writes a record once after that. *)
THEOREM CopiesStayBounded == IpamSpec => []CopiesBounded
<1>1. IpamInv /\ [IpamNext]_ipamVars => IpamInv'
  BY NextKeeps
<1>2. IpamInv /\ CopiesInv /\ [IpamNext]_ipamVars => CopiesInv'
  BY NextCopies
<1>3. CopiesInv => CopiesBounded
  <2> SUFFICES ASSUME CopiesInv, NEW zone, NEW i
               PROVE  Cardinality(Copies(zone, i)) <= Cardinality(DnsSyncs)
    BY DEF CopiesBounded
  <2>1. RoomLeft(zone, i)
    BY DEF CopiesInv
  <2>2. IsFiniteSet(DnsSyncs) /\ Pending(zone, i) \in SUBSET DnsSyncs
    BY IpamBoundsAssumption DEF Pending
  <2>3. IsFiniteSet(Pending(zone, i))
    BY <2>2, FS_Subset
  <2>4. /\ Cardinality(Copies(zone, i)) \in Nat /\ Cardinality(Pending(zone, i)) \in Nat
        /\ Cardinality(DnsSyncs) \in Nat
    BY <2>1, <2>2, <2>3, FS_CardinalityType DEF RoomLeft
  <2> QED BY <2>1, <2>4 DEF RoomLeft
<1> QED BY InitKeeps, InitCopies, <1>1, <1>2, <1>3, PTL DEF IpamSpec
=============================================================================
