--------------------------- MODULE IpamProjection ---------------------------
(***************************************************************************)
(* The addresses of one site and the DNS records projected from them: the  *)
(* address handlers (internal/ipam), the lease sync from Kea, the age-out  *)
(* of lapsed leases, the reconcile of DHCP reservations (internal/dhcp)    *)
(* and SyncIPAMRecordsForZone (internal/dns), which the API and a cron job *)
(* both run and which drops and rebuilds every projected record.           *)
(*                                                                         *)
(* Nothing here runs in a transaction: every statement is a step of its    *)
(* own, and what one statement read may be gone when the next one writes.  *)
(* A record that a constraint refuses ends the run that wrote it.          *)
(*                                                                         *)
(* One subnet and one site zone; an address that is the same text is the   *)
(* same row (uq_ip_subnet_address).  A binding is a MAC, the DUID of a v6  *)
(* lease likewise.  Serials (TouchDnsZone) and the sync report that a      *)
(* server row keeps are left out.                                          *)
(***************************************************************************)
EXTENDS Naturals, FiniteSets, Bags

CONSTANTS
    Addresses,
    NetOf,        \* the /24 of an address, the name of its reverse zone
    Names, Macs,
    Leases, Reservations,   \* what a client may lease and an operator reserve for an address
    LeaseSyncs,   \* the dhcp_sync cron and the syncDhcpServer handler
    DnsSyncs,     \* the dns_sync_from_ipam cron, and syncFromIPAM requests
    Cron,         \* the member of DnsSyncs that is the cron
    MaxRows,      \* rows ever inserted into ip_addresses
    MaxChanges,   \* bound on operators', clients' and the clock's changes
    MaxFaults,    \* bound on runs that stop half-way
    NONE

ASSUME IpamBoundsAssumption ==
    /\ MaxRows \in Nat /\ MaxChanges \in Nat /\ MaxFaults \in Nat
    /\ Cron \in DnsSyncs /\ IsFiniteSet(DnsSyncs)
    /\ "forward" \notin {NetOf[a] : a \in Addresses}   \* the site zone is no reverse zone
    /\ NONE \notin Names \cup Macs \cup Addresses
    /\ Leases \cup Reservations \subseteq [mac : Macs, name : Names \cup {NONE}]

VARIABLES
    rows,      \* ip_addresses, by id
    nextRow,   \* the id of the next insert
    kea,       \* the leases Kea lists
    reserved,  \* the reservations of the subnet's DHCP scope
    revs,      \* the reverse zones of the site
    frozen,    \* dns_zones.frozen of the site zone
    recs,      \* the bag of projected dns_records
    lease,     \* the lease syncs
    ageOut,    \* the age-out job
    recon,     \* the reconcile request
    dns,       \* the record syncs
    changes, faults

ipamVars == <<rows, nextRow, kea, reserved, revs, frozen, recs, lease, ageOut, recon, dns,
              changes, faults>>
procVars == <<lease, ageOut, recon, dns>>
zoneVars == <<revs, frozen, recs>>
envVars == <<kea, reserved>>
boundVars == <<changes, faults>>

Ids == 1 .. MaxRows
Nets == {NetOf[a] : a \in Addresses}
Live == {i \in Ids : rows[i] # NONE}
RowAt(a) == {i \in Live : rows[i].addr = a}
Referenced == {r.row : r \in BagToSet(recs)}

NoLease == [pc |-> "idle", todo |-> {}, cur |-> NONE, row |-> NONE]
NoRecon == [pc |-> "idle", todo |-> {}, index |-> {}]
NoDns == [pc |-> "idle", zones |-> {}, todo |-> {}, cur |-> NONE]

IpamInit ==
    /\ rows = [i \in Ids |-> NONE]
    /\ nextRow = 1
    /\ kea = [a \in Addresses |-> NONE]
    /\ reserved = [a \in Addresses |-> NONE]
    /\ revs = {}
    /\ frozen = FALSE
    /\ recs = EmptyBag
    /\ lease = [p \in LeaseSyncs |-> NoLease]
    /\ ageOut = "idle"
    /\ recon = NoRecon
    /\ dns = [p \in DnsSyncs |-> NoDns]
    /\ changes = 0
    /\ faults = 0

Change == changes < MaxChanges /\ changes' = changes + 1 /\ UNCHANGED faults
Fault == faults < MaxFaults /\ faults' = faults + 1 /\ UNCHANGED changes

\* uq_ip_subnet_address admits one row per address.
Insert(row) ==
    /\ RowAt(row.addr) = {}
    /\ nextRow <= MaxRows
    /\ rows' = [rows EXCEPT ![nextRow] = row]
    /\ nextRow' = nextRow + 1

Coalesce(x, y) == IF x # NONE THEN x ELSE y

-----------------------------------------------------------------------------
(* The address handlers, and what changes around them *)

\* createAddress; a row of bulkCreateAddresses does the same.
createAddress(a) ==
    /\ \E s \in {"static", "dhcp", "reservation"}, st \in {"active", "reserved", "deprecated"},
          n \in Names \cup {NONE} :
        Insert([addr |-> a, source |-> s, status |-> st, name |-> n,
                mac |-> NONE, exp |-> NONE])
    /\ Change
    /\ UNCHANGED <<envVars, zoneVars, procVars>>

updateAddress(i) ==
    /\ i \in Live
    /\ \E st \in {"active", "reserved", "deprecated"}, n \in Names \cup {NONE} :
        /\ <<st, n>> # <<rows[i].status, rows[i].name>>
        /\ rows' = [rows EXCEPT ![i].status = st, ![i].name = n]
    /\ Change
    /\ UNCHANGED <<nextRow, envVars, zoneVars, procVars>>

\* dns_records.ipam_address_id refuses the delete of a projected address.
deleteAddress(i) ==
    /\ i \in Live \ Referenced
    /\ rows' = [rows EXCEPT ![i] = NONE]
    /\ Change
    /\ UNCHANGED <<nextRow, envVars, zoneVars, procVars>>

setFrozen ==
    /\ frozen' = ~frozen
    /\ Change
    /\ UNCHANGED <<rows, nextRow, envVars, revs, recs, procVars>>

\* A client takes, renews under another name, or gives up a lease.
KeaLease(a) ==
    /\ \E l \in Leases \cup {NONE} :
        /\ l # kea[a]
        /\ kea' = [kea EXCEPT ![a] = l]
    /\ Change
    /\ UNCHANGED <<rows, nextRow, reserved, zoneVars, procVars>>

\* An edit of the scope's reservations_json.
Reserve(a) ==
    /\ \E r \in Reservations \cup {NONE} :
        /\ r # reserved[a]
        /\ reserved' = [reserved EXCEPT ![a] = r]
    /\ Change
    /\ UNCHANGED <<rows, nextRow, kea, zoneVars, procVars>>

\* The clock passes the grace period of a lease, then the day after which it
\* is deleted.
Lapse(i) ==
    /\ i \in Live
    /\ rows[i].exp \in {"live", "lapsed"}
    /\ rows' = [rows EXCEPT ![i].exp = IF @ = "live" THEN "lapsed" ELSE "stale"]
    /\ Change
    /\ UNCHANGED <<nextRow, envVars, zoneVars, procVars>>

-----------------------------------------------------------------------------
(* The lease sync *)

\* SyncServer up to the loop: the leases are fetched once.
LeaseFetch(p) ==
    /\ lease[p].pc = "idle"
    /\ \E a \in Addresses : kea[a] # NONE
    /\ lease' = [lease EXCEPT ![p] = [NoLease EXCEPT !.pc = "find",
                    !.todo = {[addr |-> a, mac |-> kea[a].mac, name |-> kea[a].name] :
                              a \in {b \in Addresses : kea[b] # NONE}}]]
    /\ UNCHANGED <<rows, nextRow, envVars, zoneVars, ageOut, recon, dns, boundVars>>

\* Mistake: the source of the row found is not looked at.
LeaseFind_AnySource(p) ==
    /\ lease[p].pc = "find"
    /\ \E l \in lease[p].todo :
        LET found == RowAt(l.addr)
        IN lease' = [lease EXCEPT ![p] =
               [@ EXCEPT !.todo = @ \ {l}, !.pc = "write", !.cur = l,
                         !.row = IF found = {} THEN NONE ELSE CHOOSE i \in found : TRUE]]
    /\ UNCHANGED <<rows, nextRow, envVars, zoneVars, ageOut, recon, dns, boundVars>>

\* FindDhcpLeaseIPAddress; a row that is not a lease's is left alone.
LeaseFind(p) ==
    /\ lease[p].pc = "find"
    /\ \E l \in lease[p].todo :
        LET found == RowAt(l.addr)
            rest == [lease[p] EXCEPT !.todo = @ \ {l}]
        IN lease' = [lease EXCEPT ![p] =
               IF found = {} THEN [rest EXCEPT !.pc = "write", !.cur = l]
               ELSE LET i == CHOOSE i \in found : TRUE IN
                    IF rows[i].source = "dhcp"
                    THEN [rest EXCEPT !.pc = "write", !.cur = l, !.row = i]
                    ELSE IF rest.todo = {} THEN NoLease ELSE rest]
    /\ UNCHANGED <<rows, nextRow, envVars, zoneVars, ageOut, recon, dns, boundVars>>

LeaseDone(p) ==
    lease' = [lease EXCEPT ![p] = IF @.todo = {} THEN NoLease
                                  ELSE [@ EXCEPT !.pc = "find", !.cur = NONE, !.row = NONE]]

InsertDhcpLease(l) ==
    Insert([addr |-> l.addr, source |-> "dhcp", status |-> "active", name |-> l.name,
            mac |-> l.mac, exp |-> "live"])

\* Mistake: the update also says whose the row is.
UpdateDhcpLease_SetsSource(i, l) ==
    /\ rows' = IF rows[i] = NONE THEN rows
               ELSE [rows EXCEPT ![i].mac = l.mac, ![i].name = Coalesce(l.name, @),
                                 ![i].exp = "live", ![i].status = "active",
                                 ![i].source = "dhcp"]
    /\ UNCHANGED nextRow

\* By id alone: whatever the row has become since it was found.
UpdateDhcpLease(i, l) ==
    /\ rows' = IF rows[i] = NONE THEN rows
               ELSE [rows EXCEPT ![i].mac = l.mac, ![i].name = Coalesce(l.name, @),
                                 ![i].exp = "live", ![i].status = "active"]
    /\ UNCHANGED nextRow

\* upsertLease's write, and the error of an insert that finds the address taken.
LeaseWrite(p) ==
    /\ lease[p].pc = "write"
    /\ \/ lease[p].row = NONE /\ InsertDhcpLease(lease[p].cur) /\ LeaseDone(p)
       \/ lease[p].row = NONE /\ RowAt(lease[p].cur.addr) # {}
          /\ lease' = [lease EXCEPT ![p] = NoLease] /\ UNCHANGED <<rows, nextRow>>
       \/ lease[p].row # NONE /\ UpdateDhcpLease(lease[p].row, lease[p].cur) /\ LeaseDone(p)
    /\ UNCHANGED <<envVars, zoneVars, ageOut, recon, dns, boundVars>>

-----------------------------------------------------------------------------
(* The age-out *)

DeprecateExpiredDhcpLeases ==
    /\ ageOut = "idle"
    /\ rows' = [i \in Ids |->
           IF i \in Live /\ rows[i].source = "dhcp" /\ rows[i].status = "active"
              /\ rows[i].exp \in {"lapsed", "stale"}
           THEN [rows[i] EXCEPT !.status = "deprecated"] ELSE rows[i]]
    /\ ageOut' = "delete"
    /\ UNCHANGED <<nextRow, envVars, zoneVars, lease, recon, dns, boundVars>>

Doomed == {i \in Live : rows[i].source = "dhcp" /\ rows[i].status = "deprecated"
                        /\ rows[i].exp = "stale"}

\* One statement: a single row that a record still refers to fails the whole
\* delete, and with it the run.
DeleteDeprecatedDhcpLeases ==
    /\ ageOut = "delete"
    /\ rows' = IF Doomed \cap Referenced # {} THEN rows
               ELSE [i \in Ids |-> IF i \in Doomed THEN NONE ELSE rows[i]]
    /\ ageOut' = "idle"
    /\ UNCHANGED <<nextRow, envVars, zoneVars, lease, recon, dns, boundVars>>

-----------------------------------------------------------------------------
(* The reconcile of reservations with the addresses *)

\* reconcileSyncDhcpScope reads the scope and the rows of the subnet once.
ReconcileLoad ==
    /\ recon.pc = "idle"
    /\ \E a \in Addresses : reserved[a] # NONE
    /\ recon' = [pc |-> "sync",
                 todo |-> {[addr |-> a, mac |-> reserved[a].mac, name |-> reserved[a].name] :
                           a \in {b \in Addresses : reserved[b] # NONE}},
                 index |-> {[id |-> i, addr |-> rows[i].addr, source |-> rows[i].source,
                             mac |-> rows[i].mac] : i \in Live}]
    /\ UNCHANGED <<rows, nextRow, envVars, zoneVars, lease, ageOut, dns, boundVars>>

InsertReservationIPAddress(r) ==
    Insert([addr |-> r.addr, source |-> "reservation", status |-> "reserved", name |-> r.name,
            mac |-> r.mac, exp |-> NONE])

PromoteDhcpLeaseToReservation(i, r) ==
    /\ rows' = IF rows[i] = NONE THEN rows
               ELSE [rows EXCEPT ![i].source = "reservation", ![i].status = "reserved",
                                 ![i].mac = Coalesce(@, r.mac),
                                 ![i].name = Coalesce(@, r.name)]
    /\ UNCHANGED nextRow

ReconcileDone(r) ==
    recon' = IF recon.todo = {r} THEN NoRecon ELSE [recon EXCEPT !.todo = @ \ {r}]

mismatch(r, e) == e.mac # NONE /\ e.mac # r.mac

\* syncOne decides on the row as it was listed.
syncOne(r) ==
    LET match == {e \in recon.index : e.addr = r.addr}
    IN /\ r \in recon.todo
       /\ \/ match = {} /\ InsertReservationIPAddress(r) /\ ReconcileDone(r)
          \/ match = {} /\ RowAt(r.addr) # {} /\ recon' = NoRecon /\ UNCHANGED <<rows, nextRow>>
          \/ \E e \in match :
                /\ e.source = "dhcp" /\ ~mismatch(r, e)
                /\ PromoteDhcpLeaseToReservation(e.id, r)
                /\ ReconcileDone(r)
          \/ \E e \in match :
                /\ e.source # "dhcp" \/ mismatch(r, e)
                /\ ReconcileDone(r)
                /\ UNCHANGED <<rows, nextRow>>
       /\ UNCHANGED <<envVars, zoneVars, lease, ageOut, dns, boundVars>>

-----------------------------------------------------------------------------
(* SyncIPAMRecordsForZone *)

Forward == "forward"

\* ListReverseZonesForSite.  Only the API's run looks at frozen.
SyncStart(p) ==
    /\ dns[p].pc = "idle"
    /\ \/ p = Cron /\ UNCHANGED boundVars
       \/ p # Cron /\ ~frozen /\ Change
    /\ dns' = [dns EXCEPT ![p] = [NoDns EXCEPT !.pc = "drop", !.zones = revs]]
    /\ UNCHANGED <<rows, nextRow, envVars, zoneVars, lease, ageOut, recon>>

ProjectedSources == {"ipam", "ddns"}

\* Mistake: the records of leases (source ddns) are not dropped.
DeleteIPAMRecordsInZones_IpamOnly(zones) ==
    [r \in {r \in BagToSet(recs) : r.zone \notin zones \/ r.source # "ipam"} |-> recs[r]]

\* The records that DeleteIPAMRecordsInZones leaves in place.
DeleteIPAMRecordsInZones(zones) ==
    [r \in {r \in BagToSet(recs) : r.zone \notin zones \/ r.source \notin ProjectedSources}
        |-> recs[r]]

SyncDrop(p) ==
    /\ dns[p].pc = "drop"
    /\ recs' = DeleteIPAMRecordsInZones({Forward} \cup dns[p].zones)
    /\ dns' = [dns EXCEPT ![p].pc = "list"]
    /\ UNCHANGED <<rows, nextRow, envVars, revs, frozen, lease, ageOut, recon, boundVars>>

SyncNext(p, rest) ==
    IF rest = {} THEN NoDns ELSE [dns[p] EXCEPT !.pc = "forward", !.todo = rest, !.cur = NONE]

\* The source of the records projected from an address row.
ProjectedSource(row) == IF row.source = "dhcp" THEN "ddns" ELSE "ipam"

\* Mistake: only active rows are listed.
SyncList_ActiveOnly(p) ==
    /\ dns[p].pc = "list"
    /\ dns' = [dns EXCEPT ![p] = SyncNext(p,
           {[row |-> i, net |-> NetOf[rows[i].addr], name |-> rows[i].name,
             source |-> ProjectedSource(rows[i])] :
             i \in {j \in Live : rows[j].name # NONE /\ rows[j].status = "active"}})]
    /\ UNCHANGED <<rows, nextRow, envVars, zoneVars, lease, ageOut, recon, boundVars>>

\* ListIPAddressesForSiteWithDnsName: a deprecated row is listed like any other.
SyncList(p) ==
    /\ dns[p].pc = "list"
    /\ dns' = [dns EXCEPT ![p] = SyncNext(p,
           {[row |-> i, net |-> NetOf[rows[i].addr], name |-> rows[i].name,
             source |-> ProjectedSource(rows[i])] : i \in {j \in Live : rows[j].name # NONE}})]
    /\ UNCHANGED <<rows, nextRow, envVars, zoneVars, lease, ageOut, recon, boundVars>>

Record(zone, e) == [zone |-> zone, row |-> e.row, name |-> e.name, source |-> e.source]

\* CreateProjectedDnsRecord refuses a row that is gone, and the run ends.
Project(p, zone, e, next) ==
    IF rows[e.row] = NONE
    THEN dns' = [dns EXCEPT ![p] = NoDns] /\ UNCHANGED recs
    ELSE dns' = [dns EXCEPT ![p] = next] /\ recs' = recs (+) SetToBag({Record(zone, e)})

\* emitForwardAndReverse: the A or AAAA record, ...
EmitForward(p) ==
    /\ dns[p].pc = "forward"
    /\ \E e \in dns[p].todo :
        Project(p, Forward, e,
                [dns[p] EXCEPT !.todo = @ \ {e}, !.cur = e,
                               !.pc = IF e.net \in dns[p].zones THEN "ptr" ELSE "lookup"])
    /\ UNCHANGED <<rows, nextRow, envVars, revs, frozen, lease, ageOut, recon, boundVars>>

\* ... the reverse zone, when the list at the start did not have it, ...
GetReverseZoneByName(p) ==
    /\ dns[p].pc = "lookup"
    /\ dns' = [dns EXCEPT ![p] = IF @.cur.net \in revs
                                 THEN [dns[p] EXCEPT !.pc = "ptr", !.zones = @ \cup {dns[p].cur.net}]
                                 ELSE [@ EXCEPT !.pc = "create"]]
    /\ UNCHANGED <<rows, nextRow, envVars, zoneVars, lease, ageOut, recon, boundVars>>

\* ... which another run may have created meanwhile (uq_dns_zone_name), ...
CreateReverseZone(p) ==
    /\ dns[p].pc = "create"
    /\ revs' = revs \cup {dns[p].cur.net}
    /\ dns' = [dns EXCEPT ![p] = IF @.cur.net \in revs THEN NoDns
                                 ELSE [dns[p] EXCEPT !.pc = "ptr", !.zones = @ \cup {dns[p].cur.net}]]
    /\ UNCHANGED <<rows, nextRow, envVars, frozen, recs, lease, ageOut, recon, boundVars>>

\* ... and the PTR.
EmitReverse(p) ==
    /\ dns[p].pc = "ptr"
    /\ Project(p, dns[p].cur.net, dns[p].cur, SyncNext(p, dns[p].todo))
    /\ UNCHANGED <<rows, nextRow, envVars, revs, frozen, lease, ageOut, recon, boundVars>>

\* A lost connection, a cancelled request or a stopped scheduler ends a run.
Stop ==
    /\ \/ \E p \in LeaseSyncs : lease[p] # NoLease
            /\ lease' = [lease EXCEPT ![p] = NoLease] /\ UNCHANGED <<ageOut, recon, dns>>
       \/ ageOut # "idle" /\ ageOut' = "idle" /\ UNCHANGED <<lease, recon, dns>>
       \/ recon # NoRecon /\ recon' = NoRecon /\ UNCHANGED <<lease, ageOut, dns>>
       \/ \E p \in DnsSyncs : dns[p] # NoDns
            /\ dns' = [dns EXCEPT ![p] = NoDns] /\ UNCHANGED <<lease, ageOut, recon>>
    /\ Fault
    /\ UNCHANGED <<rows, nextRow, envVars, zoneVars>>

-----------------------------------------------------------------------------

AgeOutStep == DeprecateExpiredDhcpLeases \/ DeleteDeprecatedDhcpLeases

DnsStep(p) ==
    \/ SyncDrop(p) \/ SyncList(p) \/ EmitForward(p)
    \/ GetReverseZoneByName(p) \/ CreateReverseZone(p) \/ EmitReverse(p)

IpamNext ==
    \/ \E a \in Addresses : createAddress(a) \/ KeaLease(a) \/ Reserve(a)
    \/ \E i \in Ids : updateAddress(i) \/ deleteAddress(i) \/ Lapse(i)
    \/ setFrozen
    \/ \E p \in LeaseSyncs : LeaseFetch(p) \/ LeaseFind(p) \/ LeaseWrite(p)
    \/ AgeOutStep
    \/ ReconcileLoad
    \/ \E r \in recon.todo : syncOne(r)
    \/ \E p \in DnsSyncs : SyncStart(p) \/ DnsStep(p)
    \/ Stop

\* The scheduler starts both jobs for ever, and a statement returns.
IpamFairness ==
    /\ WF_ipamVars(AgeOutStep)
    /\ WF_ipamVars(SyncStart(Cron))
    /\ \A p \in DnsSyncs : WF_ipamVars(DnsStep(p))

IpamSpec == IpamInit /\ [][IpamNext]_ipamVars /\ IpamFairness

-----------------------------------------------------------------------------

RowType == [addr : Addresses, source : {"static", "dhcp", "reservation"},
            status : {"active", "reserved", "deprecated"}, name : Names \cup {NONE},
            mac : Macs \cup {NONE}, exp : {NONE, "live", "lapsed", "stale"}]

\* NONE stands for SQL NULL and for the absence of a row.
ASSUME NoneAssumption == NONE \notin RowType \cup {"live", "lapsed", "stale"}

(* Every row is a row of the table, one per address (uq_ip_subnet_address);
   an address that only an operator or a reservation made has no expiry; a
   record belongs to a zone that exists and to a row that exists. *)
IpamTypeOK ==
    /\ \A i \in Ids : rows[i] \in RowType \cup {NONE}
    /\ \A i, j \in Live : rows[i].addr = rows[j].addr => i = j
    /\ \A i \in Live : rows[i].source = "static" => rows[i].exp = NONE
    /\ nextRow \in 1 .. MaxRows + 1
    /\ revs \subseteq Nets
    /\ \A r \in BagToSet(recs) : r.zone \in {Forward} \cup revs /\ r.row \in Live
    /\ \A p \in DnsSyncs : dns[p].zones \subseteq revs

\* The records of row i in a zone, each as often as it is there.
Copies(zone, i) ==
    UNION {{r} \X (1 .. recs[r]) : r \in {r \in BagToSet(recs) : r.zone = zone /\ r.row = i}}

(* The rebuild is drop and insert without a transaction or a unique key, and
   runs of it overlap: however they interleave and wherever they stop, an
   address has at most one record per zone for each run that can be under way,
   never one more with every run (sync_ipam.go, DeleteIPAMRecordsInZones). *)
CopiesBounded ==
    \A zone \in {Forward} \cup revs, i \in Live :
        Cardinality(Copies(zone, i)) <= Cardinality(DnsSyncs)

(* An address an operator or a reservation owns never becomes a lease's again,
   though a lease sync writes by the id it found earlier (UpdateDhcpLease) and
   a reconcile by the source it listed earlier (syncOne): so the age-out, which
   selects by source, never takes it. *)
OwnedStaysOwned ==
    [][\A i \in Live : rows[i].source # "dhcp" =>
          IF rows'[i] = NONE THEN changes' # changes
          ELSE rows'[i].source = rows[i].source]_ipamVars

(* The records are what the addresses say: one forward record and one PTR for
   every named row, with its name and source, and nothing else. *)
Exact ==
    LET Want == UNION {{Record(z, [row |-> i, name |-> rows[i].name,
                                   source |-> ProjectedSource(rows[i])]) :
                         z \in {Forward, NetOf[rows[i].addr]}} :
                       i \in {j \in Live : rows[j].name # NONE}}
    IN recs = SetToBag(Want)

(* "Recovery is idempotent": whatever overlaps, is refused or stops half-way,
   the cron's rebuild makes the projection exact again, over and over. *)
ProjectionHeals == []<>Exact

LongLapsed(i) ==
    /\ i \in Live
    /\ rows[i].source = "dhcp" /\ rows[i].exp = "stale"
    /\ rows[i].status # "reserved"

(* dhcpageout.go: "hard-delete source=dhcp rows that have been deprecated > 1
   day".  A lease that lapsed and is not renewed does not stay in the table. *)
LapsedLeasesGo == \A i \in Ids : LongLapsed(i) ~> ~LongLapsed(i)

=============================================================================
