------------------------------ MODULE Inventory ------------------------------
(***************************************************************************)
(* The rows behind the console: sites, locations, racks, assets, cables,   *)
(* power, and with IpamTables, RoutingTables, DnsTables and                *)
(* NicRegistrations the rest of what an operator edits.  A row is its      *)
(* references, the few columns a handler decides on, and rev, which counts *)
(* the writes of all other columns.                                        *)
(*                                                                         *)
(* A handler that only reads the rows its foreign keys demand, and then    *)
(* writes with one statement, is one step: a row that vanishes after the   *)
(* read is caught by the foreign key.  A handler whose write depends on    *)
(* more than that is split: its reads leave a job behind and the job       *)
(* writes in later steps, with anything in between.  A refusal changes     *)
(* nothing and ends the job.  Capability and scope checks, names and their *)
(* unique keys, and positions in a rack are left out.                      *)
(***************************************************************************)
EXTENDS Relational, FiniteSets

CONSTANTS
    MaxChanges,   \* bound on requests
    Ids           \* the row numbers a request may refer to

ASSUME InventoryBoundsAssumption == MaxChanges \in Nat /\ Ids \subseteq Nat \ {0}

VARIABLES
    db,        \* the tables
    born,      \* per table, the rows ever inserted: numbers are never reused
    jobs,      \* the handlers between their reads and their last statement
    strayed,   \* subnets that need not have the fabric and VRF of their supernet
    changes

inventoryVars == <<db, born, jobs, strayed, changes>>

-----------------------------------------------------------------------------
(* The reference columns of each table, with what its migration says of    *)
(* NULL and ON DELETE                                                      *)

One(p) == [parent |-> p, nullable |-> FALSE, onDelete |-> "restrict"]
Maybe(p) == [parent |-> p, nullable |-> TRUE, onDelete |-> "restrict"]
Owned(p) == [parent |-> p, nullable |-> FALSE, onDelete |-> "cascade"]
MaybeOwned(p) == [parent |-> p, nullable |-> TRUE, onDelete |-> "cascade"]
Loose(p) == [parent |-> p, nullable |-> TRUE, onDelete |-> "setNull"]

Site == [region |-> One("region"), organization |-> Maybe("organization")]
Building == [site |-> One("site")]
Room == [building |-> One("building")]
RackRow == [room |-> One("room")]
Rack == [site |-> One("site"), row |-> One("row")]
Asset == [site |-> One("site"), rack |-> Maybe("rack"), parent |-> Maybe("asset")]
Cable_Cascade == [site |-> One("site"), a |-> Owned("asset"), b |-> Owned("asset")]
Cable == [site |-> One("site"), a |-> One("asset"), b |-> One("asset")]
Outlet == [pdu |-> Owned("asset")]
PowerConnection == [outlet |-> Owned("outlet"), asset |-> Owned("asset")]
Alert == [asset |-> Maybe("asset")]

Vrf == [fabric |-> One("fabric")]
Supernet == [fabric |-> One("fabric"), vrf |-> One("vrf"), parent |-> Maybe("supernet"),
             site |-> Maybe("site"), owner |-> Loose("organization")]
Subnet == [supernet |-> One("supernet"), fabric |-> One("fabric"), vrf |-> One("vrf"),
           site |-> Maybe("site"), vni |-> Maybe("vni")]
IPAddress == [subnet |-> One("subnet"), asset |-> Maybe("asset")]
Overlay == [fabric |-> One("fabric"), underlay |-> Maybe("vrf")]
VNI == [overlay |-> One("overlay"), vrf |-> Maybe("vrf")]
Vtep == [overlay |-> One("overlay"), asset |-> One("asset")]
VtepVniMembership == [vtep |-> One("vtep"), vni |-> One("vni")]
DhcpServer == [fabric |-> One("fabric")]
DhcpScopeTemplate == [fabric |-> Owned("fabric")]
DhcpScope == [server |-> Owned("dhcpServer"), subnet |-> Loose("subnet"),
              template |-> Loose("template")]

Asn == [organization |-> Maybe("organization")]
BgpPeer == [site |-> One("site"), local |-> One("asn"), remote |-> One("asn"),
            chain |-> Maybe("chain")]
VrfBgpPeer == [vrf |-> One("vrf"), peer |-> One("peer")]
TcpAoKey == [chain |-> One("chain")]
PrefixListEntry == [list |-> One("prefixList")]
CommunityListEntry == [list |-> One("communityList")]
RouteMapEntry == [map |-> One("routeMap"), prefixList |-> Maybe("prefixList"),
                  communityList |-> Maybe("communityList")]

DnsZone == [fabric |-> One("fabric"), site |-> Maybe("site")]
DnsRecord == [zone |-> One("zone"), address |-> Maybe("address"),
              view |-> Loose("view"), check |-> Loose("check")]
DnsServer == [site |-> One("site"), fabric |-> One("fabric"), group |-> Maybe("group")]
AnycastGroup == [fabric |-> One("fabric")]
AnycastBgpBinding == [server |-> One("dnsServer"), peer |-> One("peer")]
DnsForwarder == [fabric |-> Owned("fabric")]
DnsCatalogZone == [fabric |-> Owned("fabric")]
DnsBlocklist == [fabric |-> Owned("fabric")]
DnsBlocklistEntry == [list |-> Owned("blocklist")]
DnsView == [fabric |-> Owned("fabric")]
DnsHealthCheck == [fabric |-> Owned("fabric")]
DnsKey == [zone |-> MaybeOwned("zone"), catalog |-> MaybeOwned("catalog")]

NicRegistration == [organization |-> One("organization")]
NicRegOrganization == [registration |-> Owned("registration")]
NicRegUser == [registration |-> Owned("registration")]
NicRegHost == [registration |-> Owned("registration")]
NicRegDomain == [registration |-> Owned("registration")]
NicRegNetwork == [registration |-> Owned("registration")]
NicRegAsn == [registration |-> Owned("registration")]
NicRegDnskey == [registration |-> Owned("registration")]

Migrations ==
    [region |-> <<>>, organization |-> <<>>, site |-> Site, building |-> Building,
     room |-> Room, row |-> RackRow, rack |-> Rack, asset |-> Asset, cable |-> Cable,
     outlet |-> Outlet, connection |-> PowerConnection, alert |-> Alert,
     fabric |-> <<>>, vrf |-> Vrf, supernet |-> Supernet, subnet |-> Subnet,
     address |-> IPAddress, overlay |-> Overlay, vni |-> VNI, vtep |-> Vtep,
     membership |-> VtepVniMembership, dhcpServer |-> DhcpServer,
     template |-> DhcpScopeTemplate, scope |-> DhcpScope,
     asn |-> Asn, peer |-> BgpPeer, vrfPeer |-> VrfBgpPeer, chain |-> <<>>,
     key |-> TcpAoKey, prefixList |-> <<>>, prefixEntry |-> PrefixListEntry,
     communityList |-> <<>>, communityEntry |-> CommunityListEntry,
     routeMap |-> <<>>, routeEntry |-> RouteMapEntry,
     zone |-> DnsZone, record |-> DnsRecord, dnsServer |-> DnsServer,
     group |-> AnycastGroup, binding |-> AnycastBgpBinding,
     forwarder |-> DnsForwarder, catalog |-> DnsCatalogZone,
     blocklist |-> DnsBlocklist, entry |-> DnsBlocklistEntry, view |-> DnsView,
     check |-> DnsHealthCheck, dnsKey |-> DnsKey,
     registration |-> NicRegistration, nicOrganization |-> NicRegOrganization,
     nicUser |-> NicRegUser, nicHost |-> NicRegHost, nicDomain |-> NicRegDomain,
     nicNetwork |-> NicRegNetwork, nicAsn |-> NicRegAsn, nicDnskey |-> NicRegDnskey]

ASSUME SchemaIsMigrations == Schema = Migrations

-----------------------------------------------------------------------------
(* Statements and requests *)

\* The columns that v gives, and those of w that v does not give.
v ++ w == [c \in DOMAIN v \cup DOMAIN w |-> IF c \in DOMAIN v THEN v[c] ELSE w[c]]

Live(t) == DOMAIN db[t]
NextId(t) == born[t] + 1

\* The references a request may give to a row of t.
Values(t) == {v \in [Columns(t) -> Ids \cup {NULL}] : FkHolds(db, t, v)}

\* The unique keys over references; those over names are left out.
UniqueKeys ==
    [connection |-> {"outlet"}, key |-> {"chain", "kid"}, vtep |-> {"overlay", "asset"},
     membership |-> {"vtep", "vni"}, binding |-> {"server", "peer"},
     catalog |-> {"fabric"}, entry |-> {"list", "pattern"}]

UniqueHolds_NoIndex(t, v) == TRUE
UniqueHolds(t, v) ==
    t \in DOMAIN UniqueKeys =>
        \A n \in Live(t) : \E c \in UniqueKeys[t] : db[t][n][c] # v[c]

AddRow(t, v) ==
    /\ FkHolds(db, t, v) /\ UniqueHolds(t, v)
    /\ db' = Inserted(db, t, NextId(t), v ++ [rev |-> 0])
    /\ born' = [born EXCEPT ![t] = @ + 1]

Insert(t) == \E v \in Values(t) : AddRow(t, v)

\* UPDATE ... WHERE id = n: v gives the columns that change.
WriteRow(t, n, v) ==
    LET row == v ++ db[t][n]
    IN  /\ n \in Live(t)
        /\ FkHolds(db, t, row)
        /\ db' = [db EXCEPT ![t][n] = [row EXCEPT !.rev = row.rev + 1]]
        /\ UNCHANGED born

\* A PATCH that may give one of the columns, and others beside them; a PATCH
\* of two columns has the effect of two.
Patches(columns) ==
    {<<>>} \cup UNION {[{c} -> Ids \cup {NULL}] : c \in columns}
Update(t, columns) == \E n \in Live(t), v \in Patches(columns) : WriteRow(t, n, v)

RemoveRow(t, n) ==
    /\ Deletable(db, {<<t, n>>})
    /\ db' = Deleted(db, {<<t, n>>})
    /\ UNCHANGED born

Delete(t) == \E n \in Live(t) : RemoveRow(t, n)

Begin == changes < MaxChanges /\ changes' = changes + 1
\* A handler that writes with one statement.
Request == Begin /\ UNCHANGED <<jobs, strayed>>
\* A handler that has read what it needs and leaves a job to write.
Read(job) ==
    /\ jobs' = jobs \cup {job ++ [id |-> changes]}
    /\ UNCHANGED <<db, born, strayed>>

Done(j) == jobs' = jobs \ {j} /\ UNCHANGED changes
Refused(j) == Done(j) /\ UNCHANGED <<db, born, strayed>>
Goes(j, pc) ==
    /\ jobs' = (jobs \ {j}) \cup {[j EXCEPT !.pc = pc]}
    /\ UNCHANGED <<born, strayed, changes>>

Refers(t, c, n) == \E m \in Live(t) : db[t][m][c] = n

\* Deletes that count children first and delete in a second statement; the
\* foreign key refuses a child that arrived in between.
CountThenDelete(t, n, children) ==
    /\ n \in Live(t)
    /\ \A child \in children : ~Refers(child[1], child[2], n)
    /\ Read([op |-> "delete", t |-> t, n |-> n])

DeleteCounted(j) ==
    /\ j.op = "delete"
    /\ \/ RemoveRow(j.t, j.n) /\ Done(j) /\ UNCHANGED strayed
       \/ ~Deletable(db, {<<j.t, j.n>>}) /\ Refused(j)

\* Inserts of a row that the handler has put together from earlier reads.
\* A subnet carries the fabric and VRF that its supernet had at the read.
InsertRead(j) ==
    /\ j.op = "insert"
    /\ \/ /\ AddRow(j.t, j.v) /\ Done(j)
          /\ strayed' = IF j.t = "subnet" /\ \E c \in {"fabric", "vrf"} :
                               j.v[c] # db["supernet"][j.v.supernet][c]
                        THEN strayed \cup {NextId("subnet")} ELSE strayed
       \/ ~(FkHolds(db, j.t, j.v) /\ UniqueHolds(j.t, j.v)) /\ Refused(j)

-----------------------------------------------------------------------------
(* Organizations, regions, sites and locations *)

CreateOrganization == Insert("organization")
UpdateOrganization == Update("organization", {})
createOrganization == Request /\ CreateOrganization
updateOrganization == Request /\ UpdateOrganization
\* Only AS numbers are counted; sites and registrations are left to the keys.
deleteOrganization ==
    /\ Begin
    /\ \E n \in Live("organization") :
           CountThenDelete("organization", n, {<<"asn", "organization">>})

CreateRegion == Insert("region")
UpdateRegion == Update("region", {})
createRegion == Request /\ CreateRegion
updateRegion == Request /\ UpdateRegion

CreateSite == Insert("site")
UpdateSite == Update("site", {"organization"})
createSite == Request /\ CreateSite
updateSite == Request /\ UpdateSite

CreateBuilding == Insert("building")
UpdateBuilding == Update("building", {})
DeleteBuilding == Delete("building")
createBuilding == Request /\ CreateBuilding
updateBuilding == Request /\ UpdateBuilding
deleteBuilding == Request /\ DeleteBuilding

CreateRoom == Insert("room")
UpdateRoom == Update("room", {})
DeleteRoom == Delete("room")
createRoom == Request /\ CreateRoom
updateRoom == Request /\ UpdateRoom
deleteRoom == Request /\ DeleteRoom

CreateRow == Insert("row")
UpdateRow == Update("row", {})
DeleteRow == Delete("row")
createRow == Request /\ CreateRow
updateRow == Request /\ UpdateRow
deleteRow == Request /\ DeleteRow

\* Nothing compares the rack's site with the site of its row.
CreateRack == Insert("rack")
UpdateRack == Update("rack", {})
createRack == Request /\ CreateRack
updateRack == Request /\ UpdateRack
deleteRack ==
    Begin /\ \E n \in Live("rack") : CountThenDelete("rack", n, {<<"asset", "rack">>})

-----------------------------------------------------------------------------
(* Assets, cables and power *)

pduOutletCount == 2    \* 24 in the code
Kinds == {"pdu", "server"}
States == {"active", "decommissioned"}

CreateAsset(v, kind) ==
    Inserted(db, "asset", NextId("asset"),
             v ++ [kind |-> kind, state |-> "active", rev |-> 0])

SeedPduOutlets(d, pdu) ==
    [d EXCEPT !["outlet"] = @ ++ [n \in NextId("outlet")..(born["outlet"] + pduOutletCount) |->
                                     [pdu |-> pdu, rev |-> 0]]]

\* A PDU and its outlets are one transaction.
createAsset ==
    /\ Request
    /\ \E v \in Values("asset"), kind \in Kinds :
        /\ db' = IF kind = "pdu" THEN SeedPduOutlets(CreateAsset(v, kind), NextId("asset"))
                 ELSE CreateAsset(v, kind)
        /\ born' = [born EXCEPT !["asset"] = @ + 1,
                                !["outlet"] = IF kind = "pdu" THEN @ + pduOutletCount ELSE @]

UpdateAsset(n, v) == WriteRow("asset", n, v)

updateAsset ==
    /\ Request
    /\ \E n \in Live("asset"), v \in Patches({"rack"}) \cup [{"state"} -> States] :
           UpdateAsset(n, v)

\* The bulk import inserts a PDU without outlets.
bulkInsert ==
    /\ Request
    /\ \E v \in Values("asset"), kind \in Kinds : db' = CreateAsset(v, kind)
    /\ born' = [born EXCEPT !["asset"] = @ + 1]

\* A row without lifecycle_state keeps the state that was read, and writes it.
bulkUpsertRow ==
    /\ Begin
    /\ \E n \in Live("asset"), rack \in Live("rack") \cup {NULL} :
           Read([op |-> "bulk", n |-> n,
                 v |-> [rack |-> rack, state |-> db["asset"][n].state]])

bulkUpdate(j) ==
    /\ j.op = "bulk"
    /\ \/ UpdateAsset(j.n, j.v) /\ Done(j) /\ UNCHANGED strayed
       \/ ~(j.n \in Live("asset") /\ j.v.rack \in Live("rack") \cup {NULL}) /\ Refused(j)

\* Children and cables are counted; then four statements of their own.
deleteAsset ==
    /\ Begin
    /\ \E n \in Live("asset") :
           /\ ~Refers("asset", "parent", n)
           /\ ~Refers("cable", "a", n) /\ ~Refers("cable", "b", n)
           /\ Read([op |-> "deleteAsset", n |-> n, pc |-> "detach"])

DetachIPAddressesFromAsset(j) ==
    /\ j.op = "deleteAsset" /\ j.pc = "detach"
    /\ db' = [db EXCEPT !["address"] = [m \in DOMAIN @ |->
                 IF @[m].asset = j.n THEN [@[m] EXCEPT !.asset = NULL] ELSE @[m]]]
    /\ Goes(j, "alerts")

DeleteAlertsForAsset(j) ==
    /\ j.op = "deleteAsset" /\ j.pc = "alerts"
    /\ db' = Deleted(db, {<<"alert", m>> : m \in {k \in Live("alert") : db["alert"][k].asset = j.n}})
    /\ Goes(j, "delete")

DeleteAsset(j) ==
    /\ j.op = "deleteAsset" /\ j.pc = "delete"
    /\ \/ RemoveRow("asset", j.n) /\ Done(j) /\ UNCHANGED strayed
       \/ ~Deletable(db, {<<"asset", j.n>>}) /\ Refused(j)

decommission ==
    /\ Begin
    /\ \E n \in Live("asset") :
           /\ db["asset"][n].state # "decommissioned"
           /\ Read([op |-> "decommission", n |-> n, pc |-> "consumer"])

Unplug(connections) == db' = Deleted(db, {"connection"} \X connections)

DeleteConsumerPowerConnections(j) ==
    /\ j.op = "decommission" /\ j.pc = "consumer"
    /\ Unplug({m \in Live("connection") : db["connection"][m].asset = j.n})
    /\ Goes(j, "pdu")

DeletePduPowerConnections(j) ==
    /\ j.op = "decommission" /\ j.pc = "pdu"
    /\ Unplug({m \in Live("connection") : db["outlet"][db["connection"][m].outlet].pdu = j.n})
    /\ Goes(j, "state")

SetAssetDecommissioned(j) ==
    /\ j.op = "decommission" /\ j.pc = "state"
    /\ \/ WriteRow("asset", j.n, [state |-> "decommissioned"]) /\ Done(j) /\ UNCHANGED strayed
       \/ j.n \notin Live("asset") /\ Refused(j)

\* The cable gets the site that its a-end had at the read.
createCable ==
    /\ Begin
    /\ \E a, b \in Live("asset") :
           /\ a # b
           /\ Read([op |-> "insert", t |-> "cable",
                    v |-> [site |-> db["asset"][a].site, a |-> a, b |-> b]])

\* The site follows the a-end only if the request names another a-end than
\* the one that was read.
resolveNewSiteID(n, a) ==
    IF a = db["cable"][n].a THEN [a |-> a] ELSE [a |-> a, site |-> db["asset"][a].site]

updateCable ==
    /\ Begin
    /\ \E n \in Live("cable") :
           \/ \E a \in Live("asset") \ {db["cable"][n].b} :
                  Read([op |-> "cable", n |-> n, v |-> resolveNewSiteID(n, a)])
           \/ \E b \in Live("asset") \ {db["cable"][n].a} :
                  Read([op |-> "cable", n |-> n, v |-> [b |-> b]])

UpdateCable(j) ==
    /\ j.op = "cable"
    /\ \/ WriteRow("cable", j.n, j.v) /\ Done(j) /\ UNCHANGED strayed
       \/ /\ j.n \in Live("cable") => ~FkHolds(db, "cable", j.v ++ db["cable"][j.n])
          /\ Refused(j)

DeleteCable == Delete("cable")
deleteCable == Request /\ DeleteCable

\* The outlet is looked up, found free, and connected in a later statement.
connect ==
    /\ Begin
    /\ \E o \in Live("outlet"), a \in Live("asset") :
           /\ ~Refers("connection", "outlet", o)
           /\ Read([op |-> "insert", t |-> "connection", v |-> [outlet |-> o, asset |-> a]])

DeleteOutletConnection(o) ==
    /\ Unplug({m \in Live("connection") : db["connection"][m].outlet = o})
    /\ UNCHANGED born

disconnect ==
    /\ Request
    /\ \E o \in Live("outlet") :
           Refers("connection", "outlet", o) /\ DeleteOutletConnection(o)

InventoryRequests ==
    \/ createOrganization \/ updateOrganization \/ deleteOrganization
    \/ createRegion \/ updateRegion \/ createSite \/ updateSite
    \/ createBuilding \/ updateBuilding \/ deleteBuilding
    \/ createRoom \/ updateRoom \/ deleteRoom
    \/ createRow \/ updateRow \/ deleteRow
    \/ createRack \/ updateRack \/ deleteRack
    \/ createAsset \/ updateAsset \/ bulkInsert \/ bulkUpsertRow
    \/ deleteAsset \/ decommission
    \/ createCable \/ updateCable \/ deleteCable \/ connect \/ disconnect

InventoryJobs ==
    \E j \in jobs :
        \/ DeleteCounted(j) \/ InsertRead(j) \/ bulkUpdate(j)
        \/ DetachIPAddressesFromAsset(j) \/ DeleteAlertsForAsset(j) \/ DeleteAsset(j)
        \/ DeleteConsumerPowerConnections(j) \/ DeletePduPowerConnections(j)
        \/ SetAssetDecommissioned(j) \/ UpdateCable(j)
=============================================================================
