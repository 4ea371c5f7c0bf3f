---------------------------- MODULE RoutingTables ----------------------------
(***************************************************************************)
(* The requests on AS numbers, routing policy, BGP peers and the TCP-AO    *)
(* key chains of the peers.                                                *)
(***************************************************************************)
EXTENDS Inventory

(* AS numbers and policy *)

CreateAsn == Insert("asn")
UpdateAsn == Update("asn", {"organization"})
DeleteAsn == Delete("asn")
createAsn == Request /\ CreateAsn
updateAsn == Request /\ UpdateAsn
deleteAsn == Request /\ DeleteAsn

CreatePrefixList == Insert("prefixList")
UpdatePrefixList == Update("prefixList", {})
DeletePrefixList == Delete("prefixList")
createPrefixList == Request /\ CreatePrefixList
updatePrefixList == Request /\ UpdatePrefixList
deletePrefixList == Request /\ DeletePrefixList

CreatePrefixListEntry == Insert("prefixEntry")
UpdatePrefixListEntry == Update("prefixEntry", {})
DeletePrefixListEntry == Delete("prefixEntry")
createPrefixListEntry == Request /\ CreatePrefixListEntry
updatePrefixListEntry == Request /\ UpdatePrefixListEntry
deletePrefixListEntry == Request /\ DeletePrefixListEntry

CreateCommunityList == Insert("communityList")
UpdateCommunityList == Update("communityList", {})
DeleteCommunityList == Delete("communityList")
createCommunityList == Request /\ CreateCommunityList
updateCommunityList == Request /\ UpdateCommunityList
deleteCommunityList == Request /\ DeleteCommunityList

CreateCommunityListEntry == Insert("communityEntry")
UpdateCommunityListEntry == Update("communityEntry", {})
DeleteCommunityListEntry == Delete("communityEntry")
createCommunityListEntry == Request /\ CreateCommunityListEntry
updateCommunityListEntry == Request /\ UpdateCommunityListEntry
deleteCommunityListEntry == Request /\ DeleteCommunityListEntry

CreateRouteMap == Insert("routeMap")
UpdateRouteMap == Update("routeMap", {})
DeleteRouteMap == Delete("routeMap")
createRouteMap == Request /\ CreateRouteMap
updateRouteMap == Request /\ UpdateRouteMap
deleteRouteMap == Request /\ DeleteRouteMap

CreateRouteMapEntry == Insert("routeEntry")
UpdateRouteMapEntry == Update("routeEntry", {"prefixList", "communityList"})
DeleteRouteMapEntry == Delete("routeEntry")
createRouteMapEntry == Request /\ CreateRouteMapEntry
updateRouteMapEntry == Request /\ UpdateRouteMapEntry
deleteRouteMapEntry == Request /\ DeleteRouteMapEntry

CreateBgpPeer == Insert("peer")
UpdateBgpPeer == Update("peer", {"local", "remote", "chain"})
createBgpPeer == Request /\ CreateBgpPeer
updateBgpPeer == Request /\ UpdateBgpPeer
\* Only the anycast bindings are counted; VRF sessions are left to the keys.
deleteBgpPeer ==
    Begin /\ \E n \in Live("peer") : CountThenDelete("peer", n, {<<"binding", "peer">>})

-----------------------------------------------------------------------------
(* TCP-AO key chains *)

KeyIds == 0..2           \* the key ids a request may give
RotateCounts == 1..2     \* keys per rotation; at most 365 in the code

CreateTcpAoKeyChain == Insert("chain")
UpdateTcpAoKeyChain == Update("chain", {})
createTcpAoKeyChain == Request /\ CreateTcpAoKeyChain
updateTcpAoKeyChain == Request /\ UpdateTcpAoKeyChain
deleteTcpAoKeyChain ==
    Begin /\ \E n \in Live("chain") : CountThenDelete("chain", n, {<<"key", "chain">>})

CreateTcpAoKey(v, kid) == AddRow("key", v ++ [kid |-> kid])
UpdateTcpAoKey == Update("key", {})
DeleteTcpAoKey == Delete("key")
createTcpAoKey ==
    Request /\ \E v \in Values("key"), kid \in KeyIds : CreateTcpAoKey(v, kid)
updateTcpAoKey == Request /\ UpdateTcpAoKey
deleteTcpAoKey == Request /\ DeleteTcpAoKey

\* COALESCE(MAX(key_id), 0)
MaxKeyIDInTcpAoKeyChain(n) ==
    LET used == {db["key"][k].kid : k \in {m \in Live("key") : db["key"][m].chain = n}}
    IN  CHOOSE i \in used \cup {0} : \A k \in used : k <= i

\* The transaction reads the highest id once more, and that reading counts.
rotateTcpAoKeyChain ==
    /\ Begin
    /\ \E n \in Live("chain"), count \in RotateCounts :
           Read([op |-> "rotate", n |-> n, count |-> count,
                 next |-> MaxKeyIDInTcpAoKeyChain(n) + 1])

RotatedKeys(j) ==
    [k \in NextId("key")..(born["key"] + j.count) |->
        [chain |-> j.n, kid |-> j.next + (k - NextId("key")), rev |-> 0]]

\* All of the keys or none.
rotateInsert(j) ==
    /\ j.op = "rotate"
    /\ LET keys == RotatedKeys(j)
           ok == /\ j.n \in Live("chain")
                 /\ \A k \in DOMAIN keys : UniqueHolds("key", keys[k])
       IN  \/ /\ ok
              /\ db' = [db EXCEPT !["key"] = @ ++ keys]
              /\ born' = [born EXCEPT !["key"] = @ + j.count]
              /\ Done(j) /\ UNCHANGED strayed
           \/ ~ok /\ Refused(j)

RoutingRequests ==
    \/ createAsn \/ updateAsn \/ deleteAsn
    \/ createPrefixList \/ updatePrefixList \/ deletePrefixList
    \/ createPrefixListEntry \/ updatePrefixListEntry \/ deletePrefixListEntry
    \/ createCommunityList \/ updateCommunityList \/ deleteCommunityList
    \/ createCommunityListEntry \/ updateCommunityListEntry \/ deleteCommunityListEntry
    \/ createRouteMap \/ updateRouteMap \/ deleteRouteMap
    \/ createRouteMapEntry \/ updateRouteMapEntry \/ deleteRouteMapEntry
    \/ createBgpPeer \/ updateBgpPeer \/ deleteBgpPeer
    \/ createTcpAoKeyChain \/ updateTcpAoKeyChain \/ deleteTcpAoKeyChain
    \/ createTcpAoKey \/ updateTcpAoKey \/ deleteTcpAoKey \/ rotateTcpAoKeyChain

RoutingJobs == \E j \in jobs : rotateInsert(j)
=============================================================================
