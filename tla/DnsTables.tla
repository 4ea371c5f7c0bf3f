------------------------------ MODULE DnsTables ------------------------------
(***************************************************************************)
(* The requests on DNS zones, records, servers and what hangs off them.    *)
(* No zone is frozen here; DnsBundle models the freeze.                    *)
(***************************************************************************)
EXTENDS Inventory

Patterns == {"p", "q"}   \* blocklist patterns
ImportSize == 1          \* records in an imported zone file

-----------------------------------------------------------------------------
(* Zones and records *)

CreateDnsZone == Insert("zone")
UpdateDnsZone == Update("zone", {})
DeleteDnsZone == Delete("zone")
createZone == Request /\ CreateDnsZone
updateZone == Request /\ UpdateDnsZone
deleteZone == Request /\ DeleteDnsZone

Manual(v) == v ++ [manual |-> TRUE]
CreateDnsRecord == \E v \in Values("record") : v.address = NULL /\ AddRow("record", Manual(v))
UpdateDnsRecord == Update("record", {"view", "check"})
DeleteDnsRecord == Delete("record")
createRecord == Request /\ CreateDnsRecord
updateRecord == Request /\ UpdateDnsRecord
deleteRecord == Request /\ DeleteDnsRecord

importZone ==
    /\ Begin
    /\ \E n \in Live("zone") :
           Read([op |-> "import", n |-> n, pc |-> "drop", todo |-> ImportSize])

DeleteManualRecordsInZone(j) ==
    /\ j.op = "import" /\ j.pc = "drop"
    /\ db' = Deleted(db, {<<"record", m>> : m \in {k \in Live("record") :
                             db["record"][k].zone = j.n /\ db["record"][k].manual}})
    /\ Goes(j, "add")

\* A record that the database refuses becomes a warning.
ImportRecord(j) ==
    /\ j.op = "import" /\ j.pc = "add" /\ j.todo > 0
    /\ \/ AddRow("record", Manual([zone |-> j.n, address |-> NULL, view |-> NULL, check |-> NULL]))
       \/ j.n \notin Live("zone") /\ UNCHANGED <<db, born>>
    /\ jobs' = (jobs \ {j}) \cup {[j EXCEPT !.todo = @ - 1]}
    /\ UNCHANGED <<strayed, changes>>

TouchDnsZone(j) ==
    /\ j.op = "import" /\ j.pc = "add" /\ j.todo = 0
    /\ \/ WriteRow("zone", j.n, <<>>) /\ Done(j) /\ UNCHANGED strayed
       \/ j.n \notin Live("zone") /\ Refused(j)

-----------------------------------------------------------------------------
(* Servers, anycast, forwarders and catalogs *)

CreateDnsServerRow == Insert("dnsServer")
UpdateDnsServerRow == Update("dnsServer", {"group"})
DeleteDnsServerRow == Delete("dnsServer")
createServer == Request /\ CreateDnsServerRow
updateServer == Request /\ UpdateDnsServerRow
deleteServer == Request /\ DeleteDnsServerRow

CreateAnycastGroup == Insert("group")
UpdateAnycastGroup == Update("group", {})
DeleteAnycastGroup == Delete("group")
createAnycastGroup == Request /\ CreateAnycastGroup
updateAnycastGroup == Request /\ UpdateAnycastGroup
deleteAnycastGroup == Request /\ DeleteAnycastGroup

CreateAnycastBinding == Insert("binding")
DeleteAnycastBinding == Delete("binding")
createAnycastBinding == Request /\ CreateAnycastBinding
deleteAnycastBinding == Request /\ DeleteAnycastBinding

CreateDnsForwarder == Insert("forwarder")
UpdateDnsForwarder == Update("forwarder", {})
DeleteDnsForwarder == Delete("forwarder")
createForwarder == Request /\ CreateDnsForwarder
updateForwarder == Request /\ UpdateDnsForwarder
deleteForwarder == Request /\ DeleteDnsForwarder

CreateDnsCatalogZone == \E v \in Values("catalog") : AddRow("catalog", v ++ [signed |-> FALSE])
UpdateDnsCatalogZone == Update("catalog", {})
DeleteDnsCatalogZone == Delete("catalog")
createCatalogZone == Request /\ CreateDnsCatalogZone
updateCatalogZone == Request /\ UpdateDnsCatalogZone
deleteCatalogZone == Request /\ DeleteDnsCatalogZone

\* The keys go before the flag, in statements of their own.
disableCatalogDnssec ==
    /\ Begin
    /\ \E n \in Live("catalog") :
           /\ db["catalog"][n].signed
           /\ Read([op |-> "unsign", n |-> n, pc |-> "keys"])

DeleteDnsKeysByCatalog(j) ==
    /\ j.op = "unsign" /\ j.pc = "keys"
    /\ db' = Deleted(db, {<<"dnsKey", m>> : m \in {k \in Live("dnsKey") : db["dnsKey"][k].catalog = j.n}})
    /\ Goes(j, "flag")

SetDnsCatalogZoneSigned(j) ==
    /\ j.op = "unsign" /\ j.pc = "flag"
    /\ \/ WriteRow("catalog", j.n, [signed |-> FALSE]) /\ Done(j) /\ UNCHANGED strayed
       \/ j.n \notin Live("catalog") /\ Refused(j)

-----------------------------------------------------------------------------
(* Blocklists, views and health checks *)

CreateDnsBlocklist == Insert("blocklist")
UpdateDnsBlocklist == Update("blocklist", {})
DeleteDnsBlocklist == Delete("blocklist")
createBlocklist == Request /\ CreateDnsBlocklist
updateBlocklist == Request /\ UpdateDnsBlocklist
deleteBlocklist == Request /\ DeleteDnsBlocklist

CreateDnsBlocklistEntry(n, p) == AddRow("entry", [list |-> n, pattern |-> p])
DeleteDnsBlocklistEntry == Delete("entry")
createBlocklistEntry ==
    Request /\ \E n \in Live("blocklist"), p \in Patterns : CreateDnsBlocklistEntry(n, p)
deleteBlocklistEntry == Request /\ DeleteDnsBlocklistEntry

\* Only the patterns that the list did not have are added.
diffPatterns(n, P) ==
    P \ {db["entry"][m].pattern : m \in {k \in Live("entry") : db["entry"][k].list = n}}

bulkAddBlocklistEntries ==
    /\ Begin
    /\ \E n \in Live("blocklist"), P \in SUBSET Patterns \ {{}} :
           Read([op |-> "patterns", n |-> n, todo |-> diffPatterns(n, P)])

\* One insert per pattern; the first that fails ends the request.
BulkAddNext(j) ==
    /\ j.op = "patterns"
    /\ \/ \E p \in j.todo :
              /\ CreateDnsBlocklistEntry(j.n, p)
              /\ jobs' = (jobs \ {j}) \cup {[j EXCEPT !.todo = @ \ {p}]}
              /\ UNCHANGED <<strayed, changes>>
       \/ \E p \in j.todo :
              /\ j.n \in Live("blocklist") => ~UniqueHolds("entry", [list |-> j.n, pattern |-> p])
              /\ Refused(j)
       \/ j.todo = {} /\ Refused(j)

CreateDnsView == Insert("view")
UpdateDnsView == Update("view", {})
DeleteDnsView == Delete("view")
createView == Request /\ CreateDnsView
updateView == Request /\ UpdateDnsView
deleteView == Request /\ DeleteDnsView

CreateDnsHealthCheck == Insert("check")
UpdateDnsHealthCheck == Update("check", {})
DeleteDnsHealthCheck == Delete("check")
createHealthCheck == Request /\ CreateDnsHealthCheck
updateHealthCheck == Request /\ UpdateDnsHealthCheck
deleteHealthCheck == Request /\ DeleteDnsHealthCheck

DnsRequests ==
    \/ createZone \/ updateZone \/ deleteZone \/ importZone
    \/ createRecord \/ updateRecord \/ deleteRecord
    \/ createServer \/ updateServer \/ deleteServer
    \/ createAnycastGroup \/ updateAnycastGroup \/ deleteAnycastGroup
    \/ createAnycastBinding \/ deleteAnycastBinding
    \/ createForwarder \/ updateForwarder \/ deleteForwarder
    \/ createCatalogZone \/ updateCatalogZone \/ deleteCatalogZone \/ disableCatalogDnssec
    \/ createBlocklist \/ updateBlocklist \/ deleteBlocklist
    \/ createBlocklistEntry \/ deleteBlocklistEntry \/ bulkAddBlocklistEntries
    \/ createView \/ updateView \/ deleteView
    \/ createHealthCheck \/ updateHealthCheck \/ deleteHealthCheck

DnsJobs ==
    \E j \in jobs :
        \/ DeleteManualRecordsInZone(j) \/ ImportRecord(j) \/ TouchDnsZone(j)
        \/ DeleteDnsKeysByCatalog(j) \/ SetDnsCatalogZoneSigned(j) \/ BulkAddNext(j)
=============================================================================
