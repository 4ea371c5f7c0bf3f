---------------------------- MODULE InventoryApi ----------------------------
(***************************************************************************)
(* All requests of the console on one database.                            *)
(***************************************************************************)
EXTENDS IpamTables, RoutingTables, DnsTables, NicRegistrations

CONSTANT Start     \* the database when the requests begin

\* The tables of NIC details: a row has the number of its registration.
Details == {"nicOrganization", "nicUser", "nicHost", "nicDomain", "nicNetwork",
            "nicAsn", "nicDnskey"}

\* The columns that the statements look at.
Needed(t) ==
    Columns(t) \cup (CASE t = "key" -> {"kid"}
                       [] t = "registration" -> {"status", "push"}
                       [] OTHER -> {})

\* No outlet feeds two consumers and no chain has two keys of one id.
ClaimedOnce(d) ==
    /\ \A m, n \in DOMAIN d["connection"] :
           m # n => d["connection"][m].outlet # d["connection"][n].outlet
    /\ \A m, n \in DOMAIN d["key"] :
           m # n => \/ d["key"][m].chain # d["key"][n].chain
                    \/ d["key"][m].kid # d["key"][n].kid

\* The subnet has the fabric and the VRF of its supernet.
Follows(d, n) ==
    \A c \in {"fabric", "vrf"} :
        d["subnet"][n][c] = d["supernet"][d["subnet"][n].supernet][c]

\* The migrations and earlier requests have left a database whose references
\* hold, with the rows of a table numbered from 1.
ASSUME StartAssumption ==
    /\ DOMAIN Start = Tables
    /\ \A t \in Tables :
           /\ IsFiniteSet(DOMAIN Start[t])
           /\ t \notin Details => DOMAIN Start[t] = 1..Cardinality(DOMAIN Start[t])
           /\ \A n \in DOMAIN Start[t] : Needed(t) \subseteq DOMAIN Start[t][n]
    /\ \A n \in DOMAIN Start["key"] : Start["key"][n].kid \in Nat
    /\ ReferencesLive(Start)
    /\ ClaimedOnce(Start)

InventoryInit ==
    /\ db = Start
    /\ born = [t \in Tables |-> Cardinality(DOMAIN Start[t])]
    /\ strayed = {n \in DOMAIN Start["subnet"] : ~Follows(Start, n)}
    /\ jobs = {} /\ changes = 0

InventoryNext ==
    \/ InventoryRequests \/ IpamRequests \/ RoutingRequests \/ DnsRequests \/ NicRequests
    \/ InventoryJobs \/ IpamJobs \/ RoutingJobs \/ DnsJobs

InventorySpec == InventoryInit /\ [][InventoryNext]_inventoryVars

-----------------------------------------------------------------------------
(* Properties *)

\* Every reference of every row is NULL where its migration allows it or
\* names a live row, whatever requests, counts and cascades interleave.
InventoryTypeOK ==
    /\ born \in [Tables -> Nat] /\ changes \in 0..MaxChanges
    /\ ReferencesLive(db)

\* No outlet feeds two consumers and no chain has two keys of one id, though
\* connect and rotate look before they insert (power/mutations.go,
\* tcp_ao_keys.go).
OneClaimEach == ClaimedOnce(db)

\* A subnet has the fabric and the VRF of its supernet unless it had not at
\* the start, a PATCH gave it another supernet or it was inserted from a read
\* that a move has made stale: a move never leaves the subnets behind that it
\* can see (ipam/move.go).
SubnetsFollowSupernet == \A n \in Live("subnet") \ strayed : Follows(db, n)

\* The tables whose rows an operator created one by one and expects to
\* remove one by one: locations, hardware, cabling, numbering and routing.
Independent ==
    {"region", "organization", "site", "building", "room", "row", "rack", "asset",
     "cable", "fabric", "vrf", "supernet", "subnet", "address", "overlay", "vni",
     "vtep", "asn", "peer", "chain", "key", "zone", "dnsServer", "group"}

\* No step removes two rows of such tables: deleting a fabric, an asset or
\* a zone never takes other inventory along.
RowsGoOneByOne ==
    [][Cardinality(UNION {{t} \X (DOMAIN db[t] \ DOMAIN db'[t]) : t \in Independent}) <= 1]_inventoryVars

\* A registration that was approved, rejected or cancelled stays as it was
\* decided, and keeps what was decided about ARIN.
DecidedIsFinal ==
    [][\A n \in Live("registration") :
           LET r == db["registration"][n] IN
           r.status \in Decided =>
               /\ n \in DOMAIN db'["registration"]
               /\ db'["registration"][n].status = r.status
               /\ db'["registration"][n].push = r.push]_inventoryVars
=============================================================================
