---------------------------- MODULE MCInventory ----------------------------
(* InventoryApi on two rows per table, with every pair of requests. *)
EXTENDS Sequences, TLC, InventoryApi

\* Two rows of most tables: the second is one that nothing refers to, so that
\* a request may delete it.  A cable joins assets 1 and 3.  Fabric 2 is the
\* landing fabric of the LIR module with a tenant's supernet, and fabric 3 is
\* empty.
Plain == [rev |-> 0]
Rows(a, b) == <<a ++ Plain, b ++ Plain>>

InitialRows ==
    [t \in Tables |->
        CASE t \in {"region", "organization", "chain", "prefixList", "communityList", "routeMap"} ->
                 Rows(<<>>, <<>>)
          [] t = "site" -> <<[region |-> 1, organization |-> 1, rev |-> 0]>>
          [] t = "building" -> Rows([site |-> 1], [site |-> 1])
          [] t = "room" -> Rows([building |-> 1], [building |-> 1])
          [] t = "row" -> Rows([room |-> 1], [room |-> 1])
          [] t = "rack" -> Rows([site |-> 1, row |-> 1], [site |-> 1, row |-> 1])
          [] t = "asset" ->
                 Rows([site |-> 1, rack |-> 1, parent |-> NULL, kind |-> "pdu", state |-> "active"],
                      [site |-> 1, rack |-> 1, parent |-> NULL, kind |-> "server", state |-> "active"])
                 \o <<[site |-> 1, rack |-> 1, parent |-> NULL, kind |-> "server",
                       state |-> "active", rev |-> 0]>>
          [] t = "cable" -> <<[site |-> 1, a |-> 1, b |-> 3, rev |-> 0]>>
          [] t = "outlet" -> Rows([pdu |-> 1], [pdu |-> 1])
          [] t = "connection" -> <<[outlet |-> 1, asset |-> 2, rev |-> 0]>>
          [] t = "alert" -> <<[asset |-> 2, rev |-> 0]>>
          [] t = "fabric" ->
                 <<[system |-> FALSE, rev |-> 0], [system |-> TRUE, rev |-> 0],
                   [system |-> FALSE, rev |-> 0]>>
          [] t = "vrf" ->
                 <<[fabric |-> 1, default |-> TRUE, rev |-> 0],
                   [fabric |-> 2, default |-> TRUE, rev |-> 0],
                   [fabric |-> 1, default |-> FALSE, rev |-> 0]>>
          [] t = "supernet" ->
                 Rows([fabric |-> 1, vrf |-> 1, parent |-> NULL, site |-> NULL, owner |-> NULL],
                      [fabric |-> 2, vrf |-> 2, parent |-> NULL, site |-> NULL, owner |-> 2])
          [] t = "subnet" ->
                 Rows([supernet |-> 1, fabric |-> 1, vrf |-> 1, site |-> 1, vni |-> NULL],
                      [supernet |-> 1, fabric |-> 1, vrf |-> 1, site |-> 1, vni |-> NULL])
          [] t = "address" -> <<[subnet |-> 1, asset |-> 2, rev |-> 0]>>
          [] t = "overlay" -> Rows([fabric |-> 1, underlay |-> 1], [fabric |-> 1, underlay |-> NULL])
          [] t = "vni" ->
                 Rows([overlay |-> 1, vrf |-> NULL, kind |-> "l2"],
                      [overlay |-> 1, vrf |-> 1, kind |-> "l3"])
          [] t = "vtep" -> <<[overlay |-> 1, asset |-> 1, rev |-> 0]>>
          [] t = "membership" -> <<[vtep |-> 1, vni |-> 1, rev |-> 0]>>
          [] t = "dhcpServer" -> <<[fabric |-> 1, rev |-> 0]>>
          [] t = "template" -> <<[fabric |-> 3, rev |-> 0]>>
          [] t = "scope" -> <<[server |-> 1, subnet |-> 2, template |-> 1, rev |-> 0]>>
          [] t = "asn" -> Rows([organization |-> NULL], [organization |-> 1])
          [] t = "peer" ->
                 Rows([site |-> 1, local |-> 1, remote |-> 1, chain |-> 1],
                      [site |-> 1, local |-> 1, remote |-> 1, chain |-> NULL])
          [] t = "vrfPeer" -> <<[vrf |-> 1, peer |-> 1, rev |-> 0]>>
          [] t = "key" -> <<[chain |-> 1, kid |-> 1, rev |-> 0]>>
          [] t = "prefixEntry" -> <<[list |-> 1, rev |-> 0]>>
          [] t = "communityEntry" -> <<[list |-> 1, rev |-> 0]>>
          [] t = "routeEntry" -> <<[map |-> 1, prefixList |-> 1, communityList |-> NULL, rev |-> 0]>>
          [] t = "zone" -> Rows([fabric |-> 1, site |-> 1], [fabric |-> 1, site |-> NULL])
          [] t = "record" ->
                 Rows([zone |-> 1, address |-> 1, view |-> NULL, check |-> NULL, manual |-> FALSE],
                      [zone |-> 1, address |-> NULL, view |-> 1, check |-> 1, manual |-> TRUE])
          [] t = "dnsServer" -> Rows([site |-> 1, fabric |-> 1, group |-> 1],
                                     [site |-> 1, fabric |-> 1, group |-> NULL])
          [] t = "group" -> <<[fabric |-> 1, rev |-> 0]>>
          [] t = "binding" -> <<[server |-> 1, peer |-> 1, rev |-> 0]>>
          [] t = "catalog" -> <<[fabric |-> 3, signed |-> TRUE, rev |-> 0]>>
          [] t = "dnsKey" ->
                 Rows([zone |-> 2, catalog |-> NULL], [zone |-> NULL, catalog |-> 1])
          [] t \in {"forwarder", "blocklist", "view", "check"} -> <<[fabric |-> 1, rev |-> 0]>>
          [] t = "entry" -> <<[list |-> 1, pattern |-> "p", rev |-> 0]>>
          [] t = "registration" ->
                 Rows([organization |-> 1, type |-> "asn", status |-> "draft", push |-> "unset"],
                      [organization |-> 1, type |-> "host", status |-> "submitted", push |-> "unset"])
          [] t = "nicAsn" -> 1 :> DetailRow(1)
          [] t = "nicHost" -> 2 :> DetailRow(2)
          [] OTHER -> <<>>]
=============================================================================
