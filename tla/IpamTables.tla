----------------------------- MODULE IpamTables -----------------------------
(***************************************************************************)
(* The requests on fabrics, VRFs, supernets, subnets, addresses, overlays, *)
(* VNIs, VTEPs and DHCP servers.                                           *)
(***************************************************************************)
EXTENDS Inventory

(* Fabrics and VRFs *)

CreateFabric == AddRow("fabric", [system |-> FALSE])
UpdateFabric == Update("fabric", {})
createFabric == Request /\ CreateFabric
updateFabric == Request /\ UpdateFabric
deleteFabric ==
    Begin /\ \E n \in Live("fabric") : CountThenDelete("fabric", n, {<<"vrf", "fabric">>})

CreateVrf == \E v \in Values("vrf"), b \in BOOLEAN : AddRow("vrf", v ++ [default |-> b])
UpdateVrf == \E n \in Live("vrf"), b \in BOOLEAN : WriteRow("vrf", n, [default |-> b])
createVrf == Request /\ CreateVrf
updateVrf == Request /\ UpdateVrf
\* A VRF that becomes the default after the read is deleted all the same.
deleteVrf ==
    /\ Begin
    /\ \E n \in Live("vrf") :
           /\ ~db["vrf"][n].default
           /\ CountThenDelete("vrf", n, {<<"supernet", "vrf">>})

CreateVrfBgpPeer == Insert("vrfPeer")
UpdateVrfBgpPeer == Update("vrfPeer", {})
DeleteVrfBgpPeer == Delete("vrfPeer")
createVrfBgpPeer == Request /\ CreateVrfBgpPeer
updateVrfBgpPeer == Request /\ UpdateVrfBgpPeer
deleteVrfBgpPeer == Request /\ DeleteVrfBgpPeer

-----------------------------------------------------------------------------
(* Supernets, subnets and addresses *)

assertSupernetInsideParent(v) ==
    v.parent # NULL => \A c \in {"fabric", "vrf"} : db["supernet"][v.parent][c] = v[c]

\* Nothing compares the VRF with the fabric; the owner stays NULL.
createSupernet ==
    /\ Begin
    /\ \E v \in Values("supernet") :
           /\ v.owner = NULL
           /\ assertSupernetInsideParent(v)
           /\ Read([op |-> "insert", t |-> "supernet", v |-> v])

UpdateSupernet == Update("supernet", {"parent", "site"})
updateSupernet == Request /\ UpdateSupernet
deleteSupernet ==
    /\ Begin
    /\ \E n \in Live("supernet") : CountThenDelete("supernet", n, {<<"subnet", "supernet">>})

\* The fabric and the VRF are copied from the supernet that was read.
createSubnet ==
    /\ Begin
    /\ \E n \in Live("supernet"), site \in Live("site") \cup {NULL}, vni \in Live("vni") \cup {NULL} :
           Read([op |-> "insert", t |-> "subnet",
                 v |-> [supernet |-> n, fabric |-> db["supernet"][n].fabric,
                        vrf |-> db["supernet"][n].vrf, site |-> site, vni |-> vni]])

\* A PATCH may give another supernet, and keeps the fabric and the VRF.
UpdateSubnet(n, v) ==
    /\ WriteRow("subnet", n, v)
    /\ strayed' = IF "supernet" \in DOMAIN v THEN strayed \cup {n} ELSE strayed

updateSubnet ==
    /\ Begin /\ UNCHANGED jobs
    /\ \E n \in Live("subnet"), v \in Patches({"supernet", "site", "vni"}) : UpdateSubnet(n, v)

deleteSubnet ==
    /\ Begin
    /\ \E n \in Live("subnet") : CountThenDelete("subnet", n, {<<"address", "subnet">>})

CreateIPAddress == Insert("address")
UpdateIPAddress == Update("address", {"asset"})
DeleteIPAddress == Delete("address")
createAddress == Request /\ CreateIPAddress
updateAddress == Request /\ UpdateIPAddress
deleteAddress == Request /\ DeleteIPAddress

\* From the landing fabric to a VRF of the fabric that the tenant names.
loadMoveable(n) ==
    /\ db["fabric"][db["supernet"][n].fabric].system
    /\ db["supernet"][n].owner # NULL

moveSupernet ==
    /\ Begin
    /\ \E n \in Live("supernet"), vrf \in Live("vrf") :
           /\ loadMoveable(n)
           /\ Read([op |-> "move", n |-> n, from |-> db["supernet"][n].fabric,
                    v |-> [fabric |-> db["vrf"][vrf].fabric, vrf |-> vrf]])

Movable_WithSubnets(j) ==
    j.n \in Live("supernet") /\ db["supernet"][j.n].fabric = j.from
Movable(j) ==
    /\ j.n \in Live("supernet") /\ db["supernet"][j.n].fabric = j.from
    /\ ~Refers("subnet", "supernet", j.n)

MoveSupernet(j) ==
    /\ j.op = "move"
    /\ \/ Movable(j) /\ WriteRow("supernet", j.n, j.v) /\ Done(j) /\ UNCHANGED strayed
       \/ ~(Movable(j) /\ FkHolds(db, "supernet", j.v ++ db["supernet"][j.n])) /\ Refused(j)

-----------------------------------------------------------------------------
(* Overlays and DHCP servers *)

CreateOverlay == Insert("overlay")
UpdateOverlay == Update("overlay", {"underlay"})
createOverlay == Request /\ CreateOverlay
updateOverlay == Request /\ UpdateOverlay
deleteOverlay ==
    Begin /\ \E n \in Live("overlay") : CountThenDelete("overlay", n, {<<"vni", "overlay">>})

\* An L3 VNI is created with a VRF; a PATCH may take the VRF away.
CreateVni(v, kind) == AddRow("vni", v ++ [kind |-> kind])
UpdateVni ==
    \E n \in Live("vni"), v \in Patches({"vrf"}) \cup [{"kind"} -> {"l2", "l3"}] :
        WriteRow("vni", n, v)
DeleteVni == Delete("vni")
validateVniKind(v, kind) == kind = "l3" => v.vrf # NULL
createVni ==
    /\ Request
    /\ \E v \in Values("vni"), kind \in {"l2", "l3"} :
           validateVniKind(v, kind) /\ CreateVni(v, kind)
updateVni == Request /\ UpdateVni
deleteVni == Request /\ DeleteVni

CreateVtep == Insert("vtep")
UpdateVtep == Update("vtep", {})
DeleteVtep == Delete("vtep")
createVtep == Request /\ CreateVtep
updateVtep == Request /\ UpdateVtep
deleteVtep == Request /\ DeleteVtep

CreateVtepMembership == Insert("membership")
DeleteVtepMembership == Delete("membership")
createVtepMembership == Request /\ CreateVtepMembership
deleteVtepMembership == Request /\ DeleteVtepMembership

CreateDhcpServer == Insert("dhcpServer")
UpdateDhcpServer == Update("dhcpServer", {})
DeleteDhcpServer == Delete("dhcpServer")
createDhcpServer == Request /\ CreateDhcpServer
updateDhcpServer == Request /\ UpdateDhcpServer
deleteDhcpServer == Request /\ DeleteDhcpServer

IpamRequests ==
    \/ createFabric \/ updateFabric \/ deleteFabric
    \/ createVrf \/ updateVrf \/ deleteVrf
    \/ createVrfBgpPeer \/ updateVrfBgpPeer \/ deleteVrfBgpPeer
    \/ createSupernet \/ updateSupernet \/ deleteSupernet \/ moveSupernet
    \/ createSubnet \/ updateSubnet \/ deleteSubnet
    \/ createAddress \/ updateAddress \/ deleteAddress
    \/ createOverlay \/ updateOverlay \/ deleteOverlay
    \/ createVni \/ updateVni \/ deleteVni
    \/ createVtep \/ updateVtep \/ deleteVtep
    \/ createVtepMembership \/ deleteVtepMembership
    \/ createDhcpServer \/ updateDhcpServer \/ deleteDhcpServer

IpamJobs == \E j \in jobs : MoveSupernet(j)
=============================================================================
