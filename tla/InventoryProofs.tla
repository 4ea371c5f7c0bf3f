--------------------------- MODULE InventoryProofs ---------------------------
(***************************************************************************)
(* That every reference of every row holds whatever requests interleave,   *)
(* and what follows for outlets, key chains, subnets, registrations and    *)
(* the rows that a step may remove.                                        *)
(***************************************************************************)
EXTENDS InventoryApi, FiniteSetTheorems, WellFoundedInduction, TLAPS

(* What the migrations say *)

\* Rows that nothing refers to.
Leaves == {"alert", "connection", "record", "dnsKey"}

TableNames ==
    {"region", "organization", "site", "building", "room", "row", "rack",
    "asset", "cable", "outlet", "connection", "alert", "fabric", "vrf",
    "supernet", "subnet", "address", "overlay", "vni", "vtep",
    "membership", "dhcpServer", "template", "scope", "asn", "peer",
    "vrfPeer", "chain", "key", "prefixList", "prefixEntry",
    "communityList", "communityEntry", "routeMap", "routeEntry", "zone",
    "record", "dnsServer", "group", "binding", "forwarder", "catalog",
    "blocklist", "entry", "view", "check", "dnsKey", "registration",
    "nicOrganization", "nicUser", "nicHost", "nicDomain", "nicNetwork",
    "nicAsn", "nicDnskey"}

LEMMA TablesAre == Tables = TableNames
BY SchemaIsMigrations DEF Migrations, Tables, TableNames

\* References are to rows that others may refer to, no ON DELETE SET NULL is
\* on a NOT NULL column, and no cascade takes an independent row.
Sound(t) ==
    \A c \in Columns(t) :
        /\ c # "rev"
        /\ Schema[t][c].parent \in TableNames \ Leaves
        /\ Schema[t][c].onDelete \in Actions
        /\ Schema[t][c].onDelete = "setNull" => Schema[t][c].nullable
        /\ Schema[t][c].onDelete = "cascade" => t \notin Independent \cup {"registration"}

LEMMA SchemaSound == \A t \in Tables : Sound(t)
<1>1. Sound("region") /\ Sound("organization") /\ Sound("site") /\
      Sound("building") /\ Sound("room") /\ Sound("row") /\ Sound("rack") /\
      Sound("asset") /\ Sound("cable") /\ Sound("outlet") /\
      Sound("connection") /\ Sound("alert") /\ Sound("fabric") /\
      Sound("vrf")
  <2>1. Schema["region"] = <<>> /\ Schema["organization"] = <<>> /\
        Schema["site"] = Site /\ Schema["building"] = Building /\
        Schema["room"] = Room /\ Schema["row"] = RackRow /\ Schema["rack"] =
        Rack /\ Schema["asset"] = Asset /\ Schema["cable"] = Cable /\
        Schema["outlet"] = Outlet /\ Schema["connection"] = PowerConnection
        /\ Schema["alert"] = Alert /\ Schema["fabric"] = <<>> /\
        Schema["vrf"] = Vrf
    BY SchemaIsMigrations DEF Migrations
  <2> QED BY <2>1 DEF Sound, Columns, Actions, TableNames, Leaves,
       Independent, Alert, Asset, Building, Cable, Outlet, PowerConnection,
       Rack, RackRow, Room, Site, Vrf, Maybe, One, Owned
<1>2. Sound("supernet") /\ Sound("subnet") /\ Sound("address") /\
      Sound("overlay") /\ Sound("vni") /\ Sound("vtep") /\
      Sound("membership") /\ Sound("dhcpServer") /\ Sound("template") /\
      Sound("scope") /\ Sound("asn") /\ Sound("peer") /\ Sound("vrfPeer") /\
      Sound("chain")
  <2>1. Schema["supernet"] = Supernet /\ Schema["subnet"] = Subnet /\
        Schema["address"] = IPAddress /\ Schema["overlay"] = Overlay /\
        Schema["vni"] = VNI /\ Schema["vtep"] = Vtep /\ Schema["membership"]
        = VtepVniMembership /\ Schema["dhcpServer"] = DhcpServer /\
        Schema["template"] = DhcpScopeTemplate /\ Schema["scope"] =
        DhcpScope /\ Schema["asn"] = Asn /\ Schema["peer"] = BgpPeer /\
        Schema["vrfPeer"] = VrfBgpPeer /\ Schema["chain"] = <<>>
    BY SchemaIsMigrations DEF Migrations
  <2> QED BY <2>1 DEF Sound, Columns, Actions, TableNames, Leaves,
       Independent, Asn, BgpPeer, DhcpScope, DhcpScopeTemplate, DhcpServer,
       IPAddress, Overlay, Subnet, Supernet, VNI, VrfBgpPeer, Vtep,
       VtepVniMembership, Loose, Maybe, One, Owned
<1>3. Sound("key") /\ Sound("prefixList") /\ Sound("prefixEntry") /\
      Sound("communityList") /\ Sound("communityEntry") /\ Sound("routeMap")
      /\ Sound("routeEntry") /\ Sound("zone") /\ Sound("record") /\
      Sound("dnsServer") /\ Sound("group") /\ Sound("binding") /\
      Sound("forwarder") /\ Sound("catalog")
  <2>1. Schema["key"] = TcpAoKey /\ Schema["prefixList"] = <<>> /\
        Schema["prefixEntry"] = PrefixListEntry /\ Schema["communityList"] =
        <<>> /\ Schema["communityEntry"] = CommunityListEntry /\
        Schema["routeMap"] = <<>> /\ Schema["routeEntry"] = RouteMapEntry /\
        Schema["zone"] = DnsZone /\ Schema["record"] = DnsRecord /\
        Schema["dnsServer"] = DnsServer /\ Schema["group"] = AnycastGroup /\
        Schema["binding"] = AnycastBgpBinding /\ Schema["forwarder"] =
        DnsForwarder /\ Schema["catalog"] = DnsCatalogZone
    BY SchemaIsMigrations DEF Migrations
  <2> QED BY <2>1 DEF Sound, Columns, Actions, TableNames, Leaves,
       Independent, AnycastBgpBinding, AnycastGroup, CommunityListEntry,
       DnsCatalogZone, DnsForwarder, DnsRecord, DnsServer, DnsZone,
       PrefixListEntry, RouteMapEntry, TcpAoKey, Loose, Maybe, One, Owned
<1>4. Sound("blocklist") /\ Sound("entry") /\ Sound("view") /\
      Sound("check") /\ Sound("dnsKey") /\ Sound("registration") /\
      Sound("nicOrganization") /\ Sound("nicUser") /\ Sound("nicHost") /\
      Sound("nicDomain") /\ Sound("nicNetwork") /\ Sound("nicAsn") /\
      Sound("nicDnskey")
  <2>1. Schema["blocklist"] = DnsBlocklist /\ Schema["entry"] =
        DnsBlocklistEntry /\ Schema["view"] = DnsView /\ Schema["check"] =
        DnsHealthCheck /\ Schema["dnsKey"] = DnsKey /\
        Schema["registration"] = NicRegistration /\
        Schema["nicOrganization"] = NicRegOrganization /\ Schema["nicUser"]
        = NicRegUser /\ Schema["nicHost"] = NicRegHost /\
        Schema["nicDomain"] = NicRegDomain /\ Schema["nicNetwork"] =
        NicRegNetwork /\ Schema["nicAsn"] = NicRegAsn /\ Schema["nicDnskey"]
        = NicRegDnskey
    BY SchemaIsMigrations DEF Migrations
  <2> QED BY <2>1 DEF Sound, Columns, Actions, TableNames, Leaves,
       Independent, DnsBlocklist, DnsBlocklistEntry, DnsHealthCheck, DnsKey,
       DnsView, NicRegAsn, NicRegDnskey, NicRegDomain, NicRegHost,
       NicRegNetwork, NicRegOrganization, NicRegUser, NicRegistration,
       MaybeOwned, One, Owned
<1> QED
  BY <1>1, <1>2, <1>3, <1>4, TablesAre DEF TableNames

LEMMA SchemaColumns ==
    /\ Columns("connection") = {"outlet", "asset"}
    /\ Schema["connection"]["outlet"].onDelete = "cascade"
    /\ Columns("key") = {"chain"} /\ Schema["key"]["chain"] = One("chain")
    /\ Columns("subnet") = {"supernet", "fabric", "vrf", "site", "vni"}
    /\ Schema["subnet"]["supernet"] = One("supernet")
    /\ Schema["subnet"]["fabric"] = One("fabric")
    /\ Schema["subnet"]["vrf"] = One("vrf")
    /\ {"fabric", "vrf"} \subseteq Columns("supernet")
    /\ Schema["supernet"]["fabric"] = One("fabric")
    /\ Schema["supernet"]["vrf"] = One("vrf")
    /\ Schema["address"]["asset"] = Maybe("asset")
    /\ Columns("outlet") = {"pdu"} /\ Schema["outlet"]["pdu"] = Owned("asset")
    /\ Columns("fabric") = {}
    /\ Columns("cable") = {"site", "a", "b"}
    /\ Columns("entry") = {"list"}
    /\ Columns("record") = {"zone", "address", "view", "check"}
    /\ Columns("registration") = {"organization"}
<1>1. /\ Schema["connection"] = PowerConnection /\ Schema["key"] = TcpAoKey
      /\ Schema["subnet"] = Subnet /\ Schema["supernet"] = Supernet
      /\ Schema["address"] = IPAddress /\ Schema["outlet"] = Outlet
      /\ Schema["fabric"] = <<>> /\ Schema["cable"] = Cable
      /\ Schema["entry"] = DnsBlocklistEntry /\ Schema["record"] = DnsRecord
      /\ Schema["registration"] = NicRegistration
  BY SchemaIsMigrations DEF Migrations
<1> QED
  BY <1>1
  DEF Columns, PowerConnection, TcpAoKey, Subnet, Supernet, IPAddress, Outlet,
      Cable, DnsBlocklistEntry, DnsRecord, NicRegistration, One, Maybe, Owned

LEMMA DetailColumns ==
  \A t \in Details : Columns(t) = {"registration"} /\ Schema[t]["registration"].parent = "registration"
BY SchemaIsMigrations
   DEF Details, Migrations, Columns, NicRegOrganization, NicRegUser, NicRegHost, NicRegDomain,
       NicRegNetwork, NicRegAsn, NicRegDnskey, Owned

-----------------------------------------------------------------------------
(* Databases whose references hold *)

Shape(d) ==
    /\ DOMAIN d = Tables
    /\ \A t \in Tables : \A n \in DOMAIN d[t] : Needed(t) \subseteq DOMAIN d[t][n]

RefsHold(d) == \A t \in Tables : \A n \in DOMAIN d[t] : FkHolds(d, t, d[t][n])

LEMMA NeededColumns ==
  /\ \A t : Columns(t) \subseteq Needed(t)
  /\ \A t : t \notin {"key", "registration"} => Needed(t) = Columns(t)
  /\ Needed("key") = {"chain", "kid"}
  /\ Needed("registration") = {"organization", "status", "push"}
BY SchemaColumns DEF Needed

LEMMA KeysAre ==
  ASSUME NEW p \in Tables, NEW a \in Actions
  PROVE  \A k : k \in KeysOf[p][a] <=>
             \E t \in Tables : \E c \in Columns(t) :
                 /\ k = <<t, c>>
                 /\ Schema[t][c].parent = p
                 /\ Schema[t][c].onDelete = a
BY DEF KeysOf

\* The invariant of the runs, and the form that is easier to prove.
LEMMA RefsHoldIsLive ==
  ASSUME NEW d, DOMAIN d = Tables
  PROVE  RefsHold(d) <=> ReferencesLive(d)
<1> DEFINE Live1(t, n, c) ==
        \/ d[t][n][c] = NULL /\ Schema[t][c].nullable
        \/ d[t][n][c] \in DOMAIN d[Schema[t][c].parent]
<1>1. RefsHold(d) <=> \A t \in Tables : \A n \in DOMAIN d[t] : \A c \in Columns(t) : Live1(t, n, c)
  BY DEF RefsHold, FkHolds
<1>2. \A t \in Tables : \A c \in Columns(t) :
          Nulls[t][c] = IF Schema[t][c].nullable THEN {NULL} ELSE {}
  BY DEF Nulls
<1>3. ASSUME NEW t \in Tables, NEW c \in Columns(t), NEW n \in DOMAIN d[t]
      PROVE  Live1(t, n, c) <=> d[t][n][c] \in DOMAIN d[Schema[t][c].parent] \cup Nulls[t][c]
  BY <1>2
<1>4. \A t \in Tables : \A c \in Columns(t) :
          Schema[t][c].parent \in Tables /\ Schema[t][c].onDelete \in Actions
  BY SchemaSound, SchemaAssumption DEF Sound
<1> HIDE DEF Live1
<1>5. ASSUME ReferencesLive(d), NEW t \in Tables, NEW n \in DOMAIN d[t], NEW c \in Columns(t)
      PROVE  Live1(t, n, c)
  <2>1. PICK p \in Tables, a \in Actions : p = Schema[t][c].parent /\ a = Schema[t][c].onDelete
    BY <1>4
  <2>2. <<t, c>> \in KeysOf[p][a]
    BY <2>1, KeysAre
  <2>3. {d[<<t, c>>[1]][m][<<t, c>>[2]] : m \in DOMAIN d[<<t, c>>[1]]} \subseteq
            DOMAIN d[p] \cup Nulls[<<t, c>>[1]][<<t, c>>[2]]
    BY <1>5, <2>2 DEF ReferencesLive
  <2>4. d[t][n][c] \in DOMAIN d[p] \cup Nulls[t][c]
    BY <2>3
  <2> QED BY <2>1, <2>4, <1>3
<1>6. ASSUME RefsHold(d), NEW p \in Tables, NEW a \in Actions, NEW k \in KeysOf[p][a]
      PROVE  {d[k[1]][n][k[2]] : n \in DOMAIN d[k[1]]} \subseteq DOMAIN d[p] \cup Nulls[k[1]][k[2]]
  <2>1. PICK t \in Tables : \E c \in Columns(t) : k = <<t, c>> /\ Schema[t][c].parent = p
    BY KeysAre
  <2>2. PICK c \in Columns(t) : k = <<t, c>> /\ Schema[t][c].parent = p
    BY <2>1
  <2>3. \A n \in DOMAIN d[t] : d[t][n][c] \in DOMAIN d[p] \cup Nulls[t][c]
    BY <1>1, <1>3, <1>6, <2>2
  <2> QED BY <2>2, <2>3
<1> QED BY <1>1, <1>5, <1>6 DEF ReferencesLive

\* Row x names row r through a key with the action.
Names(d, x, r, a) ==
    \E t \in Tables : \E c \in Columns(t) : \E n \in DOMAIN d[t] :
        /\ Schema[t][c].parent = r[1] /\ Schema[t][c].onDelete = a
        /\ d[t][n][c] = r[2]
        /\ x = <<t, n>>

LEMMA NamingIs ==
  ASSUME NEW d, NEW a \in Actions, NEW S, \A r \in S : r[1] \in Tables, NEW x
  PROVE  x \in Naming(d, S, a) <=> \E r \in S : Names(d, x, r, a)
<1>1. x \in Naming(d, S, a) <=>
          \E r \in S : \E k \in KeysOf[r[1]][a] : \E n \in DOMAIN d[k[1]] :
              d[k[1]][n][k[2]] = r[2] /\ x = <<k[1], n>>
  BY DEF Naming
<1>2. ASSUME NEW r \in S
      PROVE  (\E k \in KeysOf[r[1]][a] : \E n \in DOMAIN d[k[1]] :
                 d[k[1]][n][k[2]] = r[2] /\ x = <<k[1], n>>)
             <=> Names(d, x, r, a)
  <2>1. \A k : k \in KeysOf[r[1]][a] <=>
             \E t \in Tables : \E c \in Columns(t) :
                 /\ k = <<t, c>>
                 /\ Schema[t][c].parent = r[1]
                 /\ Schema[t][c].onDelete = a
    BY KeysAre
  <2>2. ASSUME NEW k \in KeysOf[r[1]][a], NEW n \in DOMAIN d[k[1]],
               d[k[1]][n][k[2]] = r[2], x = <<k[1], n>>
        PROVE  Names(d, x, r, a)
    <3>1. PICK t \in Tables : \E c \in Columns(t) :
                 /\ k = <<t, c>>
                 /\ Schema[t][c].parent = r[1]
                 /\ Schema[t][c].onDelete = a
      BY <2>1
    <3>2. PICK c \in Columns(t) :
                 /\ k = <<t, c>>
                 /\ Schema[t][c].parent = r[1]
                 /\ Schema[t][c].onDelete = a
      BY <3>1
    <3>3. k[1] = t /\ k[2] = c
      BY <3>2
    <3> QED BY <2>2, <3>2, <3>3 DEF Names
  <2>3. ASSUME NEW t \in Tables, NEW c \in Columns(t), NEW n \in DOMAIN d[t],
               Schema[t][c].parent = r[1], Schema[t][c].onDelete = a,
               d[t][n][c] = r[2], x = <<t, n>>
        PROVE  \E k \in KeysOf[r[1]][a] : \E m \in DOMAIN d[k[1]] :
                   d[k[1]][m][k[2]] = r[2] /\ x = <<k[1], m>>
    <3> DEFINE k == <<t, c>>
    <3>1. k \in KeysOf[r[1]][a] /\ k[1] = t /\ k[2] = c
      BY <2>1, <2>3
    <3> HIDE DEF k
    <3> QED BY <2>3, <3>1
  <2> QED BY <2>2, <2>3, Zenon DEF Names
<1> QED BY <1>1, <1>2

\* A statement that only adds rows and changes columns keeps the references,
\* if the references that it writes hold.
LEMMA GrowKeeps ==
  ASSUME NEW d, NEW e, Shape(d), RefsHold(d),
         DOMAIN e = Tables,
         \A t \in Tables : DOMAIN d[t] \subseteq DOMAIN e[t],
         \A t \in Tables : \A n \in DOMAIN e[t] :
             /\ Needed(t) \subseteq DOMAIN e[t][n]
             /\ FkHolds(d, t, e[t][n]) \/ FkHolds(e, t, e[t][n])
  PROVE  Shape(e) /\ RefsHold(e)
<1>1. Shape(e)
  BY DEF Shape
<1>2. ASSUME NEW t \in Tables, NEW v, FkHolds(d, t, v) PROVE FkHolds(e, t, v)
  BY <1>2, SchemaAssumption DEF FkHolds
<1> QED BY <1>1, <1>2 DEF RefsHold

\* The rows that DELETE takes are those it was told to and those that cascade.
LEMMA GoneRows ==
  ASSUME NEW d, NEW S, \A r \in S : r = <<r[1], r[2]>> /\ r[1] \in Tables
  PROVE  /\ S \subseteq Gone(d, S)
         /\ \A r \in Gone(d, S) : r = <<r[1], r[2]>> /\ r[1] \in Tables
         /\ \A r \in Gone(d, S) \ S : r[1] \notin Independent \cup {"registration"}
<1> DEFINE Pairs(R) == \A r \in R : r = <<r[1], r[2]>> /\ r[1] \in Tables
           A == Along(d, S)
<1>1. ASSUME NEW R, Pairs(R)
      PROVE  /\ R \subseteq Along(d, R)
             /\ Pairs(Along(d, R))
             /\ \A r \in Along(d, R) \ R : r[1] \notin Independent \cup {"registration"}
  <2>1. "cascade" \in Actions
    BY DEF Actions
  <2>2. ASSUME NEW x \in Naming(d, R, "cascade")
        PROVE  \E t \in Tables : \E n : \E c \in Columns(t) :
                   x = <<t, n>> /\ Schema[t][c].onDelete = "cascade"
    <3>1. \E r \in R : Names(d, x, r, "cascade")
      BY <1>1, <2>1, <2>2, NamingIs
    <3> QED BY <3>1, Zenon DEF Names
  <2>3. \A x \in Naming(d, R, "cascade") :
            x = <<x[1], x[2]>> /\ x[1] \in Tables /\ x[1] \notin Independent \cup {"registration"}
    BY <2>2, SchemaSound DEF Sound
  <2> QED BY <1>1, <2>3 DEF Along
<1>2. Pairs(S)
  OBVIOUS
<1>3. S \subseteq A /\ Pairs(A) /\ \A r \in A \ S : r[1] \notin Independent \cup {"registration"}
  BY <1>1, <1>2
<1> HIDE DEF A
<1>4. /\ A \subseteq Along(d, A)
      /\ Pairs(Along(d, A))
      /\ \A r \in Along(d, A) \ A : r[1] \notin Independent \cup {"registration"}
  BY <1>1, <1>3
<1>5. Gone(d, S) = Along(d, A)
  BY DEF Gone, A
<1> QED BY <1>3, <1>4, <1>5

\* A DELETE that the foreign keys let pass keeps the references, and changes
\* only references that are SET NULL.
LEMMA DeletedKeeps ==
  ASSUME NEW d, NEW S, NEW e, e = Deleted(d, S), \A r \in S : r = <<r[1], r[2]>> /\ r[1] \in Tables,
         Shape(d), RefsHold(d), Deletable(d, S)
  PROVE  /\ Shape(e) /\ RefsHold(e)
         /\ \A t \in Tables :
             /\ DOMAIN e[t] \subseteq DOMAIN d[t]
             /\ \A n \in DOMAIN e[t] : \A c \in DOMAIN d[t][n] :
                 (c \in Columns(t) => Schema[t][c].onDelete # "setNull")
                 => e[t][n][c] = d[t][n][c]
<1> PICK G : G = Gone(d, S)
  OBVIOUS
<1>1. /\ DOMAIN e = Tables
      /\ \A t \in Tables : \A m : m \in DOMAIN e[t] <=> m \in DOMAIN d[t] /\ <<t, m>> \notin G
      /\ \A t \in Tables : \A n \in DOMAIN e[t] : DOMAIN e[t][n] = DOMAIN d[t][n]
      /\ \A t \in Tables : \A n \in DOMAIN e[t] : \A c \in DOMAIN d[t][n] :
             c \in Columns(t) /\ <<Schema[t][c].parent, d[t][n][c]>> \in G => e[t][n][c] = NULL
      /\ \A t \in Tables : \A n \in DOMAIN e[t] : \A c \in DOMAIN d[t][n] :
             ~(c \in Columns(t) /\ <<Schema[t][c].parent, d[t][n][c]>> \in G)
             => e[t][n][c] = d[t][n][c]
  BY DEF Deleted
<1>2. \A r \in G : r[1] \in Tables
  BY GoneRows
<1>3. Naming(d, G, "restrict") \cup Naming(d, G, "cascade") \subseteq G
  BY DEF Deletable
<1>4. ASSUME NEW t \in Tables, NEW n \in DOMAIN e[t], NEW c \in Columns(t),
             <<Schema[t][c].parent, d[t][n][c]>> \in G
      PROVE  Schema[t][c].onDelete = "setNull"
  <2> DEFINE r == <<Schema[t][c].parent, d[t][n][c]>>
  <2>1. r \in G /\ r[1] = Schema[t][c].parent /\ r[2] = d[t][n][c] /\ n \in DOMAIN d[t]
    BY <1>1, <1>4
  <2>2. <<t, n>> \notin G
    BY <1>1
  <2> HIDE DEF r
  <2>3. ASSUME NEW a \in Actions, Schema[t][c].onDelete = a
        PROVE  <<t, n>> \in Naming(d, G, a)
    <3>1. Names(d, <<t, n>>, r, a)
      BY <2>1, <2>3 DEF Names
    <3> QED BY <1>2, <2>1, <2>3, <3>1, NamingIs
  <2>4. Schema[t][c].onDelete \in Actions
    BY SchemaSound DEF Sound
  <2> QED BY <1>3, <2>2, <2>3, <2>4 DEF Actions
<1>5. Shape(e)
  BY <1>1 DEF Shape
<1>6. ASSUME NEW t \in Tables, NEW n \in DOMAIN e[t], NEW c \in Columns(t)
      PROVE  \/ e[t][n][c] = NULL /\ Schema[t][c].nullable
             \/ e[t][n][c] \in DOMAIN e[Schema[t][c].parent]
  <2>1. c \in DOMAIN d[t][n] /\ n \in DOMAIN d[t]
    BY <1>1, NeededColumns DEF Shape
  <2>2. Schema[t][c].parent \in Tables /\ (Schema[t][c].onDelete = "setNull" => Schema[t][c].nullable)
    BY SchemaSound, SchemaAssumption DEF Sound
  <2>3. CASE <<Schema[t][c].parent, d[t][n][c]>> \in G
    <3>1. e[t][n][c] = NULL
      <4>1. \A k \in DOMAIN d[t][n] :
                k \in Columns(t) /\ <<Schema[t][k].parent, d[t][n][k]>> \in G => e[t][n][k] = NULL
        BY <1>1
      <4> QED BY <4>1, <2>1, <2>3
    <3>2. Schema[t][c].onDelete = "setNull"
      BY <1>4, <2>3
    <3> QED BY <3>1, <3>2, <2>2
  <2>4. CASE <<Schema[t][c].parent, d[t][n][c]>> \notin G
    <3>1. e[t][n][c] = d[t][n][c]
      BY <1>1, <2>1, <2>4
    <3>2. \/ d[t][n][c] = NULL /\ Schema[t][c].nullable
          \/ d[t][n][c] \in DOMAIN d[Schema[t][c].parent]
      BY <2>1 DEF RefsHold, FkHolds
    <3> QED BY <1>1, <2>2, <2>4, <3>1, <3>2
  <2> QED BY <2>3, <2>4
<1>7. RefsHold(e)
  BY <1>6 DEF RefsHold, FkHolds
<1>8. ASSUME NEW t \in Tables, NEW n \in DOMAIN e[t], NEW c \in DOMAIN d[t][n],
             c \in Columns(t) => Schema[t][c].onDelete # "setNull"
      PROVE  e[t][n][c] = d[t][n][c]
  <2>1. ~(c \in Columns(t) /\ <<Schema[t][c].parent, d[t][n][c]>> \in G)
    BY <1>4, <1>8
  <2> QED BY <1>1, <2>1
<1> QED BY <1>1, <1>5, <1>7, <1>8

-----------------------------------------------------------------------------
(* The inductive invariant.  A job that deletes or inserts was left by a    *)
(* handler that knew what it asked for.                                     *)

JobOk(j) ==
    /\ "op" \in DOMAIN j
    /\ j.op = "delete" => "t" \in DOMAIN j /\ j.t \in Tables \ {"registration"}
    /\ j.op = "insert" =>
           /\ {"t", "v"} \subseteq DOMAIN j
           /\ j.t \in {"supernet", "subnet", "cable", "connection"}
           /\ Columns(j.t) \subseteq DOMAIN j.v
    /\ j.op = "rotate" => {"next", "count"} \subseteq DOMAIN j /\ j.next \in Nat /\ j.count \in Nat

RowTypes ==
    /\ born \in [Tables -> Nat]
    /\ Shape(db)
    /\ \A t \in Tables \ Details : DOMAIN db[t] \subseteq 1..born[t]
    /\ \A n \in Live("key") : db["key"][n].kid \in Nat

InventoryTypes ==
    /\ RowTypes
    /\ changes \in 0..MaxChanges
    /\ \A j \in jobs : JobOk(j)

DatabaseInv == RowTypes /\ RefsHold(db) /\ OneClaimEach /\ SubnetsFollowSupernet

InventoryInv == InventoryTypes /\ DatabaseInv

-----------------------------------------------------------------------------
(* What a step does to the database: each handler is one of these           *)

Adds(t, v) ==
    /\ t \in Tables \ (Details \cup {"registration"})
    /\ Needed(t) \subseteq DOMAIN v
    /\ t = "key" => v.kid \in Nat
    /\ AddRow(t, v)
    /\ strayed \subseteq strayed'
    /\ t = "subnet" =>
           \/ NextId(t) \in strayed'
           \/ \A c \in {"fabric", "vrf"} : v[c] = db["supernet"][v.supernet][c]

Writes(t, n, v) ==
    /\ t \in Tables \ {"connection"}
    /\ t = "key" => DOMAIN v = {}
    /\ t = "registration" => db[t][n].status \notin Decided
    /\ t = "subnet" =>
           /\ {"fabric", "vrf"} \cap DOMAIN v = {}
           /\ "supernet" \in DOMAIN v => n \in strayed'
    /\ t = "supernet" =>
           {"fabric", "vrf"} \cap DOMAIN v = {} \/ ~Refers("subnet", "supernet", n)
    /\ WriteRow(t, n, v)
    /\ strayed \subseteq strayed'

Removes(S) ==
    /\ \A r \in S : r = <<r[1], r[2]>> /\ r[1] \in Tables /\ r[1] # "registration"
    /\ \A r, s \in S : r[1] \in Independent /\ s[1] \in Independent => r = s
    /\ Deletable(db, S)
    /\ db' = Deleted(db, S)
    /\ UNCHANGED <<born, strayed>>

Statement ==
    \/ UNCHANGED <<db, born, strayed>>
    \/ \E t, v : Adds(t, v)
    \/ \E t, n, v : Writes(t, n, v)
    \/ \E S : Removes(S)
    \/ createAsset \/ bulkInsert \/ create
    \/ \E j \in jobs : DetachIPAddressesFromAsset(j) \/ rotateInsert(j)

Step ==
    /\ Statement
    /\ \A j \in jobs' : j \in jobs \/ JobOk(j)
    /\ changes' = changes \/ (changes < MaxChanges /\ changes' = changes + 1)

Insertable == Tables \ (Details \cup {"registration", "key", "subnet"})
Patched == Tables \ {"connection", "registration", "key", "subnet", "supernet"}

LEMMA JobReads ==
  ASSUME NEW job, JobOk(job), Begin, Read(job) PROVE Step
<1>1. JobOk(job ++ [id |-> changes])
  BY DEF JobOk, ++
<1> QED BY <1>1 DEF Read, Begin, Step, Statement

LEMMA ValuesColumns == \A t : \A v \in Values(t) : DOMAIN v = Columns(t)
BY DEF Values

LEMMA RequestAdds ==
  ASSUME NEW t \in Tables \ (Details \cup {"registration", "subnet"}), NEW v,
         Request, AddRow(t, v), Needed(t) \subseteq DOMAIN v, t = "key" => v.kid \in Nat
  PROVE  Step
<1>1. Adds(t, v)
  BY DEF Adds, Request
<1> QED BY <1>1 DEF Request, Begin, Step, Statement

LEMMA RequestInserts ==
  ASSUME NEW t \in Insertable, Request, Insert(t) PROVE Step
<1>1. PICK v \in Values(t) : AddRow(t, v)
  BY DEF Insert
<1>2. Needed(t) \subseteq DOMAIN v
  BY ValuesColumns, NeededColumns DEF Insertable
<1> QED BY <1>1, <1>2, RequestAdds DEF Insertable

LEMMA PatchColumns == \A C : \A v \in Patches(C) : DOMAIN v \subseteq C
<1> SUFFICES ASSUME NEW C, NEW v \in Patches(C) PROVE DOMAIN v \subseteq C
  OBVIOUS
<1>1. v = <<>> \/ \E c \in C : v \in [{c} -> Ids \cup {NULL}]
  BY DEF Patches
<1>2. v = <<>> => DOMAIN v = {}
  OBVIOUS
<1> QED BY <1>1, <1>2

LEMMA RequestWrites ==
  ASSUME NEW t \in Patched \cup {"key", "supernet"}, NEW n, NEW v, Request, WriteRow(t, n, v),
         t = "key" => DOMAIN v = {},
         t = "supernet" => {"fabric", "vrf"} \cap DOMAIN v = {}
  PROVE  Step
<1>1. Writes(t, n, v)
  BY TablesAre DEF Writes, Request, Patched, TableNames
<1> QED BY <1>1 DEF Request, Begin, Step, Statement

LEMMA RequestUpdates ==
  ASSUME NEW t, NEW C, Request, Update(t, C),
         \/ t \in Patched
         \/ t = "key" /\ C = {}
         \/ t = "supernet" /\ C = {"parent", "site"}
  PROVE  Step
<1>1. PICK n \in Live(t), v \in Patches(C) : WriteRow(t, n, v)
  BY DEF Update
<1>2. DOMAIN v \subseteq C
  BY PatchColumns
<1>3. t \in Patched \cup {"key", "supernet"}
  OBVIOUS
<1>4. t = "key" => DOMAIN v = {}
  BY <1>2 DEF Patched
<1>5. t = "supernet" => {"fabric", "vrf"} \cap DOMAIN v = {}
  BY <1>2 DEF Patched
<1> QED BY <1>1, <1>3, <1>4, <1>5, RequestWrites

LEMMA RowRemoves ==
  ASSUME NEW t \in Tables \ {"registration"}, NEW n, RemoveRow(t, n), UNCHANGED strayed
  PROVE  Statement
<1> DEFINE S == {<<t, n>>}
<1>1. Removes(S)
  BY DEF Removes, RemoveRow
<1> HIDE DEF S
<1> QED BY <1>1 DEF Statement

LEMMA RequestDeletes ==
  ASSUME NEW t \in Tables \ {"registration"}, Request, Delete(t) PROVE Step
<1>1. PICK n \in Live(t) : RemoveRow(t, n)
  BY DEF Delete
<1>2. Statement
  BY <1>1, RowRemoves DEF Request
<1> QED BY <1>2 DEF Request, Begin, Step

LEMMA CountedDeletes ==
  ASSUME NEW t \in Tables \ {"registration"}, NEW n, NEW children,
         Begin, CountThenDelete(t, n, children)
  PROVE  Step
<1>1. JobOk([op |-> "delete", t |-> t, n |-> n])
  BY DEF JobOk
<1> QED BY <1>1, JobReads DEF CountThenDelete

LEMMA RowWrites ==
  ASSUME NEW t \in Patched, NEW n, NEW v, WriteRow(t, n, v), UNCHANGED strayed
  PROVE  Statement
<1>1. Writes(t, n, v)
  BY DEF Writes, Patched
<1> QED BY <1>1 DEF Statement

\* Nothing refers to a leaf, so that a DELETE of leaves takes just those.
LEMMA LeafRemoves ==
  ASSUME NEW t \in Leaves, NEW S, \A r \in S : r = <<t, r[2]>>,
         db' = Deleted(db, S), UNCHANGED <<born, strayed>>
  PROVE  Statement
<1>1. t \in Tables /\ t \notin Independent \cup {"registration"}
  BY TablesAre DEF TableNames, Leaves, Independent
<1>2. \A r \in S : r = <<r[1], r[2]>> /\ r[1] = t
  OBVIOUS
<1>3. ASSUME NEW a \in Actions PROVE Naming(db, S, a) = {}
  <2>1. ASSUME NEW x, NEW r \in S, Names(db, x, r, a) PROVE FALSE
    <3>1. PICK u \in Tables : \E c \in Columns(u) : Schema[u][c].parent = r[1]
      BY <2>1 DEF Names
    <3>2. PICK c \in Columns(u) : Schema[u][c].parent = t
      BY <3>1, <1>2
    <3> QED BY <3>2, SchemaSound DEF Sound
  <2>2. \A r \in S : r[1] \in Tables
    BY <1>1, <1>2
  <2>3. ASSUME NEW x \in Naming(db, S, a) PROVE FALSE
    <3>1. x \in Naming(db, S, a)
      BY <2>3
    <3>2. \E r \in S : Names(db, x, r, a)
      BY <2>2, <3>1, NamingIs
    <3> QED BY <2>1, <3>2
  <2> QED BY <2>3
<1>4. Gone(db, S) = S
  BY <1>3 DEF Gone, Along, Actions
<1>5. Deletable(db, S)
  BY <1>3, <1>4 DEF Deletable, Actions
<1>6. Removes(S)
  BY <1>1, <1>2, <1>5 DEF Removes
<1> QED BY <1>6 DEF Statement

LEMMA JobEnds ==
  ASSUME NEW j, Done(j), Statement PROVE Step
BY DEF Done, Step

LEMMA JobRefused ==
  ASSUME NEW j, Refused(j) PROVE Step
BY DEF Refused, Done, Step, Statement

LEMMA JobGoes ==
  ASSUME NEW j, NEW pc, JobOk(j), Goes(j, pc), Statement PROVE Step
<1>1. JobOk([j EXCEPT !.pc = pc])
  BY DEF JobOk
<1> QED BY <1>1 DEF Goes, Step

LEMMA JobTodo ==
  ASSUME NEW j, NEW todo, JobOk(j), Statement,
         jobs' = (jobs \ {j}) \cup {[j EXCEPT !.todo = todo]},
         UNCHANGED changes
  PROVE  Step
<1>1. JobOk([j EXCEPT !.todo = todo])
  BY DEF JobOk
<1> QED BY <1>1 DEF Step

\* A non-empty set of naturals has a least element.
LEMMA LeastElement ==
  ASSUME NEW S \in SUBSET Nat, S # {}
  PROVE  \E x \in S : \A y \in S : x <= y
<1>1. IsWellFoundedOn(OpToRel(<, Nat), Nat)
  BY NatLessThanWellFounded, Zenon
<1>2. PICK x \in S : \A y \in S : ~(<<y, x>> \in OpToRel(<, Nat))
  BY <1>1, WFMin, Zenon
<1>3. ASSUME NEW y \in S PROVE x <= y
  <2>1. ~(y < x)
    BY <1>2 DEF OpToRel
  <2> QED BY <2>1
<1> QED BY <1>3

\* Finitely many numbered values have a greatest: take the least number up to
\* which they had none.
LEMMA GreatestExists ==
  ASSUME NEW b \in Nat, NEW D \in SUBSET (1..b), NEW f, \A k \in D : f[k] \in Nat
  PROVE  \E i \in {f[k] : k \in D} \cup {0} : \A k \in D : f[k] <= i
<1> DEFINE Below(m) == D \cap (1..m)
           Has(m) == \E i \in {f[k] : k \in Below(m)} \cup {0} : \A k \in Below(m) : f[k] <= i
           Bad == {m \in Nat : ~Has(m)}
<1>1. ASSUME Bad # {} PROVE FALSE
  <2>1. PICK m \in Bad : \A y \in Bad : m <= y
    BY <1>1, LeastElement
  <2>2. m \in Nat /\ ~Has(m)
    BY <2>1
  <2>3. Below(0) = {}
    OBVIOUS
  <2>4. Has(0)
    BY <2>3
  <2>5. m # 0 /\ m - 1 \in Nat
    BY <2>2, <2>4
  <2>6. Has(m - 1)
    <3>1. ASSUME m - 1 \in Bad PROVE FALSE
      <4>1. m <= m - 1
        BY <2>1, <3>1
      <4> QED BY <2>2, <4>1
    <3> QED BY <2>5, <3>1
  <2>7. PICK i \in {f[k] : k \in Below(m - 1)} \cup {0} : \A k \in Below(m - 1) : f[k] <= i
    BY <2>6
  <2>8. i \in Nat
    BY <2>7
  <2>9. \A k \in Below(m) : k = m \/ k \in Below(m - 1)
    BY <2>2
  <2>10. Below(m - 1) \subseteq Below(m)
    BY <2>2
  <2>11. CASE m \notin D \/ f[m] <= i
    <3>1. \A k \in Below(m) : f[k] <= i
      BY <2>7, <2>9, <2>11
    <3>2. i \in {f[k] : k \in Below(m)} \cup {0}
      BY <2>10
    <3> QED BY <2>2, <3>1, <3>2
  <2>12. CASE m \in D /\ ~(f[m] <= i)
    <3>1. f[m] \in Nat /\ i <= f[m] /\ m \in Below(m)
      BY <2>2, <2>5, <2>8, <2>12
    <3>2. ASSUME NEW k \in Below(m) PROVE f[k] <= f[m]
      <4>1. f[k] \in Nat
        OBVIOUS
      <4> QED BY <2>7, <2>8, <2>9, <3>1, <4>1
    <3>3. f[m] \in {f[k] : k \in Below(m)} \cup {0}
      BY <3>1
    <3> QED BY <2>2, <3>2, <3>3
  <2> QED BY <2>11, <2>12
<1>2. Has(b)
  BY <1>1
<1>3. Below(b) = D
  OBVIOUS
<1> QED BY <1>2, <1>3

LEMMA MaxKeyIsNat ==
  ASSUME InventoryTypes, NEW n PROVE MaxKeyIDInTcpAoKeyChain(n) \in Nat
<1> DEFINE D == {m \in Live("key") : db["key"][m].chain = n}
           f == [k \in D |-> db["key"][k].kid]
           used == {db["key"][k].kid : k \in D}
<1>1. "key" \in Tables \ Details
  BY TablesAre DEF TableNames, Details
<1>2. born["key"] \in Nat /\ D \in SUBSET (1..born["key"])
  BY <1>1 DEF InventoryTypes, RowTypes, Live
<1>3. \A k \in D : db["key"][k].kid \in Nat
  BY DEF InventoryTypes, RowTypes
<1>4. \A k \in D : f[k] = db["key"][k].kid
  OBVIOUS
<1>5. used = {f[k] : k \in D}
  BY <1>4
<1> HIDE DEF D, f
<1>6. \E i \in {f[k] : k \in D} \cup {0} : \A k \in D : f[k] <= i
  BY <1>2, <1>3, <1>4, GreatestExists
<1>7. \E i \in used \cup {0} : \A k \in used : k <= i
  BY <1>5, <1>6
<1>8. (CHOOSE i \in used \cup {0} : \A k \in used : k <= i) \in used \cup {0}
  BY <1>7
<1>9. used \subseteq Nat
  BY <1>3
<1>10. MaxKeyIDInTcpAoKeyChain(n) = CHOOSE i \in used \cup {0} : \A k \in used : k <= i
  BY DEF MaxKeyIDInTcpAoKeyChain, D
<1> HIDE DEF used
<1>11. MaxKeyIDInTcpAoKeyChain(n) \in used \cup {0}
  BY <1>8, <1>10, Zenon
<1>12. \A x \in used \cup {0} : x \in Nat
  BY <1>9
<1> QED BY <1>11, <1>12, Zenon

LEMMA InventoryRequestSteps == ASSUME InventoryRequests PROVE Step
<1>1. ASSUME createOrganization \/ createRegion \/ createSite \/
             createBuilding \/ createRoom \/ createRow \/ createRack
      PROVE  Step
  <2>1. PICK t \in {"organization", "region", "site", "building", "room",
            "row", "rack"} : Request /\ Insert(t)
    BY <1>1, Zenon DEF createOrganization, createRegion, createSite,
       createBuilding, createRoom, createRow, createRack, CreateOrganization,
       CreateRegion, CreateSite, CreateBuilding, CreateRoom, CreateRow,
       CreateRack
  <2>2. t \in Insertable
    BY TablesAre DEF Insertable, TableNames, Details
  <2> QED BY <2>1, <2>2, RequestInserts
<1>2. ASSUME deleteBuilding \/ deleteRoom \/ deleteRow \/ deleteCable
      PROVE  Step
  <2>1. PICK t \in {"building", "room", "row", "cable"} : Request /\
            Delete(t)
    BY <1>2, Zenon DEF deleteBuilding, deleteRoom, deleteRow, deleteCable,
       DeleteBuilding, DeleteRoom, DeleteRow, DeleteCable
  <2>2. t \in Tables \ {"registration"}
    BY TablesAre DEF TableNames
  <2> QED BY <2>1, <2>2, RequestDeletes
<1>3. ASSUME updateOrganization \/ updateRegion \/ updateSite \/
             updateBuilding \/ updateRoom \/ updateRow \/ updateRack
      PROVE  Step
  <2>1. PICK t, C : /\ Request /\ Update(t, C)
                    /\ t \in {"organization", "region",
                       "site", "building", "room", "row",
                       "rack"}
    BY <1>3, Zenon DEF updateOrganization, updateRegion, updateSite,
       updateBuilding, updateRoom, updateRow, updateRack, UpdateOrganization,
       UpdateRegion, UpdateSite, UpdateBuilding, UpdateRoom, UpdateRow,
       UpdateRack
  <2>2. t \in Patched
    BY <2>1, TablesAre DEF Patched, TableNames
  <2> QED BY <2>1, <2>2, RequestUpdates
<1>4. ASSUME deleteOrganization \/ deleteRack
      PROVE  Step
  <2>1. PICK t \in {"organization", "rack"} :
            \E n, children : Begin /\ CountThenDelete(t, n, children)
    BY <1>4, Zenon DEF deleteOrganization, deleteRack
  <2>2. t \in Tables \ {"registration"}
    BY TablesAre DEF TableNames
  <2> QED BY <2>1, <2>2, CountedDeletes
<1>5. ASSUME createAsset \/ bulkInsert PROVE Step
  BY <1>5 DEF createAsset, bulkInsert, Request, Begin, Step, Statement
<1>6. ASSUME updateAsset PROVE Step
  <2>1. PICK n, v : WriteRow("asset", n, v)
    BY <1>6 DEF updateAsset, UpdateAsset
  <2>2. "asset" \in Patched
    BY TablesAre DEF Patched, TableNames
  <2> QED BY <1>6, <2>1, <2>2, RequestWrites DEF updateAsset, Patched
<1>7. ASSUME bulkUpsertRow PROVE Step
  <2>1. PICK n, rack : Read([op |-> "bulk", n |-> n,
                             v |-> [rack |-> rack, state |-> db["asset"][n].state]])
    BY <1>7 DEF bulkUpsertRow
  <2>2. JobOk([op |-> "bulk", n |-> n, v |-> [rack |-> rack, state |-> db["asset"][n].state]])
    BY DEF JobOk
  <2> QED BY <1>7, <2>1, <2>2, JobReads DEF bulkUpsertRow
<1>8. ASSUME deleteAsset PROVE Step
  <2>1. PICK n : Read([op |-> "deleteAsset", n |-> n, pc |-> "detach"])
    BY <1>8 DEF deleteAsset
  <2>2. JobOk([op |-> "deleteAsset", n |-> n, pc |-> "detach"])
    BY DEF JobOk
  <2> QED BY <1>8, <2>1, <2>2, JobReads DEF deleteAsset
<1>9. ASSUME decommission PROVE Step
  <2>1. PICK n : Read([op |-> "decommission", n |-> n, pc |-> "consumer"])
    BY <1>9 DEF decommission
  <2>2. JobOk([op |-> "decommission", n |-> n, pc |-> "consumer"])
    BY DEF JobOk
  <2> QED BY <1>9, <2>1, <2>2, JobReads DEF decommission
<1>10. ASSUME createCable PROVE Step
  <2>1. PICK v : DOMAIN v = {"site", "a", "b"} /\ Read([op |-> "insert", t |-> "cable", v |-> v])
    BY <1>10 DEF createCable
  <2>2. JobOk([op |-> "insert", t |-> "cable", v |-> v])
    BY <2>1, SchemaColumns DEF JobOk
  <2> QED BY <1>10, <2>1, <2>2, JobReads DEF createCable
<1>11. ASSUME updateCable PROVE Step
  <2>1. PICK n, v : Read([op |-> "cable", n |-> n, v |-> v])
    BY <1>11 DEF updateCable
  <2>2. JobOk([op |-> "cable", n |-> n, v |-> v])
    BY DEF JobOk
  <2> QED BY <1>11, <2>1, <2>2, JobReads DEF updateCable
<1>12. ASSUME connect PROVE Step
  <2>1. PICK v : DOMAIN v = {"outlet", "asset"} /\ Read([op |-> "insert", t |-> "connection", v |-> v])
    BY <1>12 DEF connect
  <2>2. JobOk([op |-> "insert", t |-> "connection", v |-> v])
    BY <2>1, SchemaColumns DEF JobOk
  <2> QED BY <1>12, <2>1, <2>2, JobReads DEF connect
<1>13. ASSUME disconnect PROVE Step
  <2>1. PICK M : db' = Deleted(db, {"connection"} \X M) /\ UNCHANGED born
    BY <1>13 DEF disconnect, DeleteOutletConnection, Unplug
  <2>2. \A r \in {"connection"} \X M : r = <<"connection", r[2]>>
    OBVIOUS
  <2>3. Statement
    BY <1>13, <2>1, <2>2, LeafRemoves DEF disconnect, Request, Leaves
  <2> QED BY <1>13, <2>3 DEF disconnect, Request, Begin, Step
<1> QED BY <1>1, <1>2, <1>3, <1>4, <1>5, <1>6, <1>7, <1>8, <1>9, <1>10, <1>11,
       <1>12, <1>13 DEF InventoryRequests

LEMMA IpamRequestSteps == ASSUME IpamRequests PROVE Step
<1>1. ASSUME createVrfBgpPeer \/ createAddress \/ createOverlay \/ createVtep
             \/ createVtepMembership \/ createDhcpServer
      PROVE  Step
  <2>1. PICK t \in {"vrfPeer", "address", "overlay", "vtep", "membership",
            "dhcpServer"} : Request /\ Insert(t)
    BY <1>1, Zenon DEF createVrfBgpPeer, createAddress, createOverlay,
       createVtep, createVtepMembership, createDhcpServer, CreateVrfBgpPeer,
       CreateIPAddress, CreateOverlay, CreateVtep, CreateVtepMembership,
       CreateDhcpServer
  <2>2. t \in Insertable
    BY TablesAre DEF Insertable, TableNames, Details
  <2> QED BY <2>1, <2>2, RequestInserts
<1>2. ASSUME deleteVrfBgpPeer \/ deleteAddress \/ deleteVni \/ deleteVtep \/
             deleteVtepMembership \/ deleteDhcpServer
      PROVE  Step
  <2>1. PICK t \in {"vrfPeer", "address", "vni", "vtep", "membership",
            "dhcpServer"} : Request /\ Delete(t)
    BY <1>2, Zenon DEF deleteVrfBgpPeer, deleteAddress, deleteVni,
       deleteVtep, deleteVtepMembership, deleteDhcpServer, DeleteVrfBgpPeer,
       DeleteIPAddress, DeleteVni, DeleteVtep, DeleteVtepMembership,
       DeleteDhcpServer
  <2>2. t \in Tables \ {"registration"}
    BY TablesAre DEF TableNames
  <2> QED BY <2>1, <2>2, RequestDeletes
<1>3. ASSUME updateFabric \/ updateVrfBgpPeer \/ updateSupernet \/
             updateAddress \/ updateOverlay \/ updateVtep \/ updateDhcpServer
      PROVE  Step
  <2>1. PICK t, C : /\ Request /\ Update(t, C)
                    /\ t \in {"fabric", "vrfPeer",
                       "address", "overlay", "vtep",
                       "dhcpServer"} \/ (t = "supernet" /\ C
                       = {"parent", "site"})
    BY <1>3, Zenon DEF updateFabric, updateVrfBgpPeer, updateSupernet,
       updateAddress, updateOverlay, updateVtep, updateDhcpServer,
       UpdateFabric, UpdateVrfBgpPeer, UpdateSupernet, UpdateIPAddress,
       UpdateOverlay, UpdateVtep, UpdateDhcpServer
  <2>2. t \in Patched \/ (t = "supernet" /\ C = {"parent", "site"})
    BY <2>1, TablesAre DEF Patched, TableNames
  <2> QED BY <2>1, <2>2, RequestUpdates
<1>4. ASSUME deleteFabric \/ deleteVrf \/ deleteSupernet \/ deleteSubnet \/
             deleteOverlay
      PROVE  Step
  <2>1. PICK t \in {"fabric", "vrf", "supernet", "subnet", "overlay"} :
            \E n, children : Begin /\ CountThenDelete(t, n, children)
    BY <1>4, Zenon DEF deleteFabric, deleteVrf, deleteSupernet,
       deleteSubnet, deleteOverlay
  <2>2. t \in Tables \ {"registration"}
    BY TablesAre DEF TableNames
  <2> QED BY <2>1, <2>2, CountedDeletes
<1>5. ASSUME createFabric PROVE Step
  <2>1. Needed("fabric") = {} /\ "fabric" \in Tables \ (Details \cup {"registration", "subnet"})
    BY TablesAre, SchemaColumns, NeededColumns DEF TableNames, Details
  <2> QED BY <1>5, <2>1, RequestAdds DEF createFabric, CreateFabric
<1>6. ASSUME createVrf PROVE Step
  <2>1. PICK v \in Values("vrf"), b \in BOOLEAN : AddRow("vrf", v ++ [default |-> b])
    BY <1>6 DEF createVrf, CreateVrf
  <2>2. "vrf" \in Tables \ (Details \cup {"registration", "subnet"})
    BY TablesAre DEF TableNames, Details
  <2>3. Needed("vrf") \subseteq DOMAIN (v ++ [default |-> b])
    BY ValuesColumns, NeededColumns DEF ++
  <2> QED BY <1>6, <2>1, <2>2, <2>3, RequestAdds DEF createVrf
<1>7. ASSUME createVni PROVE Step
  <2>1. PICK v \in Values("vni"), kind \in {"l2", "l3"} : AddRow("vni", v ++ [kind |-> kind])
    BY <1>7 DEF createVni, CreateVni
  <2>2. "vni" \in Tables \ (Details \cup {"registration", "subnet"})
    BY TablesAre DEF TableNames, Details
  <2>3. Needed("vni") \subseteq DOMAIN (v ++ [kind |-> kind])
    BY ValuesColumns, NeededColumns DEF ++
  <2> QED BY <1>7, <2>1, <2>2, <2>3, RequestAdds DEF createVni
<1>8. ASSUME updateVrf \/ updateVni PROVE Step
  <2>1. PICK t \in {"vrf", "vni"} : \E n, v : Request /\ WriteRow(t, n, v)
    BY <1>8 DEF updateVrf, UpdateVrf, updateVni, UpdateVni
  <2>2. t \in Patched /\ t # "key" /\ t # "supernet"
    BY TablesAre DEF Patched, TableNames
  <2> QED BY <2>1, <2>2, RequestWrites
<1>9. ASSUME createSupernet PROVE Step
  <2>1. PICK v \in Values("supernet") : Read([op |-> "insert", t |-> "supernet", v |-> v])
    BY <1>9 DEF createSupernet
  <2>2. JobOk([op |-> "insert", t |-> "supernet", v |-> v])
    BY ValuesColumns DEF JobOk
  <2> QED BY <1>9, <2>1, <2>2, JobReads DEF createSupernet
<1>10. ASSUME moveSupernet PROVE Step
  <2>1. PICK n, from, v : Read([op |-> "move", n |-> n, from |-> from, v |-> v])
    BY <1>10 DEF moveSupernet
  <2>2. JobOk([op |-> "move", n |-> n, from |-> from, v |-> v])
    BY DEF JobOk
  <2> QED BY <1>10, <2>1, <2>2, JobReads DEF moveSupernet
<1>11. ASSUME createSubnet PROVE Step
  <2>1. PICK v : /\ DOMAIN v = {"supernet", "fabric", "vrf", "site", "vni"}
                 /\ Read([op |-> "insert", t |-> "subnet", v |-> v])
    BY <1>11 DEF createSubnet
  <2>2. JobOk([op |-> "insert", t |-> "subnet", v |-> v])
    BY <2>1, SchemaColumns DEF JobOk
  <2> QED BY <1>11, <2>1, <2>2, JobReads DEF createSubnet
<1>12. ASSUME updateSubnet PROVE Step
  <2>1. PICK n \in Live("subnet"), v \in Patches({"supernet", "site", "vni"}) : UpdateSubnet(n, v)
    BY <1>12 DEF updateSubnet
  <2>2. DOMAIN v \subseteq {"supernet", "site", "vni"} /\ "subnet" \in Tables
    BY PatchColumns, TablesAre DEF TableNames
  <2>3. Writes("subnet", n, v)
    BY <2>1, <2>2 DEF Writes, UpdateSubnet
  <2> QED BY <1>12, <2>3 DEF updateSubnet, Begin, Step, Statement
<1> QED BY <1>1, <1>2, <1>3, <1>4, <1>5, <1>6, <1>7, <1>8, <1>9, <1>10, <1>11,
       <1>12 DEF IpamRequests

LEMMA RoutingRequestSteps == ASSUME InventoryTypes, RoutingRequests PROVE Step
<1>1. ASSUME createAsn \/ createPrefixList \/ createPrefixListEntry \/
             createCommunityList \/ createCommunityListEntry \/ createRouteMap \/
             createRouteMapEntry \/ createBgpPeer \/ createTcpAoKeyChain
      PROVE  Step
  <2>1. PICK t \in {"asn", "prefixList", "prefixEntry", "communityList",
            "communityEntry", "routeMap", "routeEntry", "peer", "chain"} : Request /\
            Insert(t)
    BY <1>1, Zenon DEF createAsn, createPrefixList, createPrefixListEntry,
       createCommunityList, createCommunityListEntry, createRouteMap,
       createRouteMapEntry, createBgpPeer, createTcpAoKeyChain, CreateAsn,
       CreatePrefixList, CreatePrefixListEntry, CreateCommunityList,
       CreateCommunityListEntry, CreateRouteMap, CreateRouteMapEntry,
       CreateBgpPeer, CreateTcpAoKeyChain
  <2>2. t \in Insertable
    BY TablesAre DEF Insertable, TableNames, Details
  <2> QED BY <2>1, <2>2, RequestInserts
<1>2. ASSUME deleteAsn \/ deletePrefixList \/ deletePrefixListEntry \/
             deleteCommunityList \/ deleteCommunityListEntry \/ deleteRouteMap \/
             deleteRouteMapEntry \/ deleteTcpAoKey
      PROVE  Step
  <2>1. PICK t \in {"asn", "prefixList", "prefixEntry", "communityList",
            "communityEntry", "routeMap", "routeEntry", "key"} : Request /\ Delete(t)
    BY <1>2, Zenon DEF deleteAsn, deletePrefixList, deletePrefixListEntry,
       deleteCommunityList, deleteCommunityListEntry, deleteRouteMap,
       deleteRouteMapEntry, deleteTcpAoKey, DeleteAsn, DeletePrefixList,
       DeletePrefixListEntry, DeleteCommunityList, DeleteCommunityListEntry,
       DeleteRouteMap, DeleteRouteMapEntry, DeleteTcpAoKey
  <2>2. t \in Tables \ {"registration"}
    BY TablesAre DEF TableNames
  <2> QED BY <2>1, <2>2, RequestDeletes
<1>3. ASSUME updateAsn \/ updatePrefixList \/ updatePrefixListEntry \/
             updateCommunityList \/ updateCommunityListEntry \/ updateRouteMap \/
             updateRouteMapEntry \/ updateBgpPeer \/ updateTcpAoKeyChain \/ updateTcpAoKey
      PROVE  Step
  <2>1. PICK t, C : /\ Request /\ Update(t, C)
                    /\ t \in {"asn", "prefixList",
                       "prefixEntry", "communityList",
                       "communityEntry", "routeMap",
                       "routeEntry", "peer", "chain"} \/ (t =
                       "key" /\ C = {})
    BY <1>3, Zenon DEF updateAsn, updatePrefixList, updatePrefixListEntry,
       updateCommunityList, updateCommunityListEntry, updateRouteMap,
       updateRouteMapEntry, updateBgpPeer, updateTcpAoKeyChain,
       updateTcpAoKey, UpdateAsn, UpdatePrefixList, UpdatePrefixListEntry,
       UpdateCommunityList, UpdateCommunityListEntry, UpdateRouteMap,
       UpdateRouteMapEntry, UpdateBgpPeer, UpdateTcpAoKeyChain,
       UpdateTcpAoKey
  <2>2. t \in Patched \/ (t = "key" /\ C = {})
    BY <2>1, TablesAre DEF Patched, TableNames
  <2> QED BY <2>1, <2>2, RequestUpdates
<1>4. ASSUME deleteBgpPeer \/ deleteTcpAoKeyChain
      PROVE  Step
  <2>1. PICK t \in {"peer", "chain"} :
            \E n, children : Begin /\ CountThenDelete(t, n, children)
    BY <1>4, Zenon DEF deleteBgpPeer, deleteTcpAoKeyChain
  <2>2. t \in Tables \ {"registration"}
    BY TablesAre DEF TableNames
  <2> QED BY <2>1, <2>2, CountedDeletes
<1>5. ASSUME createTcpAoKey PROVE Step
  <2>1. PICK v \in Values("key"), kid \in KeyIds : AddRow("key", v ++ [kid |-> kid])
    BY <1>5 DEF createTcpAoKey, CreateTcpAoKey
  <2>2. "key" \in Tables \ (Details \cup {"registration", "subnet"})
    BY TablesAre DEF TableNames, Details
  <2>3. DOMAIN v = {"chain"}
    BY ValuesColumns, SchemaColumns
  <2>4. Needed("key") \subseteq DOMAIN (v ++ [kid |-> kid]) /\ (v ++ [kid |-> kid]).kid \in Nat
    BY <2>3, NeededColumns DEF ++, KeyIds
  <2> QED BY <1>5, <2>1, <2>2, <2>4, RequestAdds DEF createTcpAoKey
<1>6. ASSUME rotateTcpAoKeyChain PROVE Step
  <2>1. PICK n \in Live("chain"), count \in RotateCounts :
            Read([op |-> "rotate", n |-> n, count |-> count,
                  next |-> MaxKeyIDInTcpAoKeyChain(n) + 1])
    BY <1>6 DEF rotateTcpAoKeyChain
  <2>2. MaxKeyIDInTcpAoKeyChain(n) \in Nat
    BY MaxKeyIsNat
  <2>3. JobOk([op |-> "rotate", n |-> n, count |-> count,
               next |-> MaxKeyIDInTcpAoKeyChain(n) + 1])
    BY <2>2 DEF JobOk, RotateCounts
  <2> QED BY <1>6, <2>1, <2>3, JobReads DEF rotateTcpAoKeyChain
<1> QED BY <1>1, <1>2, <1>3, <1>4, <1>5, <1>6 DEF RoutingRequests

LEMMA DnsRequestSteps == ASSUME DnsRequests PROVE Step
<1>1. ASSUME createZone \/ createServer \/ createAnycastGroup \/
             createAnycastBinding \/ createForwarder \/ createBlocklist \/ createView \/
             createHealthCheck
      PROVE  Step
  <2>1. PICK t \in {"zone", "dnsServer", "group", "binding", "forwarder",
            "blocklist", "view", "check"} : Request /\ Insert(t)
    BY <1>1, Zenon DEF createZone, createServer, createAnycastGroup,
       createAnycastBinding, createForwarder, createBlocklist, createView,
       createHealthCheck, CreateDnsZone, CreateDnsServerRow,
       CreateAnycastGroup, CreateAnycastBinding, CreateDnsForwarder,
       CreateDnsBlocklist, CreateDnsView, CreateDnsHealthCheck
  <2>2. t \in Insertable
    BY TablesAre DEF Insertable, TableNames, Details
  <2> QED BY <2>1, <2>2, RequestInserts
<1>2. ASSUME deleteZone \/ deleteRecord \/ deleteServer \/ deleteAnycastGroup
             \/ deleteAnycastBinding \/ deleteForwarder \/ deleteCatalogZone \/
             deleteBlocklist \/ deleteBlocklistEntry \/ deleteView \/ deleteHealthCheck
      PROVE  Step
  <2>1. PICK t \in {"zone", "record", "dnsServer", "group", "binding",
            "forwarder", "catalog", "blocklist", "entry", "view", "check"} : Request
            /\ Delete(t)
    BY <1>2, Zenon DEF deleteZone, deleteRecord, deleteServer,
       deleteAnycastGroup, deleteAnycastBinding, deleteForwarder,
       deleteCatalogZone, deleteBlocklist, deleteBlocklistEntry, deleteView,
       deleteHealthCheck, DeleteDnsZone, DeleteDnsRecord, DeleteDnsServerRow,
       DeleteAnycastGroup, DeleteAnycastBinding, DeleteDnsForwarder,
       DeleteDnsCatalogZone, DeleteDnsBlocklist, DeleteDnsBlocklistEntry,
       DeleteDnsView, DeleteDnsHealthCheck
  <2>2. t \in Tables \ {"registration"}
    BY TablesAre DEF TableNames
  <2> QED BY <2>1, <2>2, RequestDeletes
<1>3. ASSUME updateZone \/ updateRecord \/ updateServer \/ updateAnycastGroup
             \/ updateForwarder \/ updateCatalogZone \/ updateBlocklist \/ updateView \/
             updateHealthCheck
      PROVE  Step
  <2>1. PICK t, C : /\ Request /\ Update(t, C)
                    /\ t \in {"zone", "record",
                       "dnsServer", "group", "forwarder",
                       "catalog", "blocklist", "view",
                       "check"}
    BY <1>3, Zenon DEF updateZone, updateRecord, updateServer,
       updateAnycastGroup, updateForwarder, updateCatalogZone,
       updateBlocklist, updateView, updateHealthCheck, UpdateDnsZone,
       UpdateDnsRecord, UpdateDnsServerRow, UpdateAnycastGroup,
       UpdateDnsForwarder, UpdateDnsCatalogZone, UpdateDnsBlocklist,
       UpdateDnsView, UpdateDnsHealthCheck
  <2>2. t \in Patched
    BY <2>1, TablesAre DEF Patched, TableNames
  <2> QED BY <2>1, <2>2, RequestUpdates
<1>4. ASSUME importZone PROVE Step
  <2>1. PICK n : Read([op |-> "import", n |-> n, pc |-> "drop", todo |-> ImportSize])
    BY <1>4 DEF importZone
  <2>2. JobOk([op |-> "import", n |-> n, pc |-> "drop", todo |-> ImportSize])
    BY DEF JobOk
  <2> QED BY <1>4, <2>1, <2>2, JobReads DEF importZone
<1>5. ASSUME disableCatalogDnssec PROVE Step
  <2>1. PICK n : Read([op |-> "unsign", n |-> n, pc |-> "keys"])
    BY <1>5 DEF disableCatalogDnssec
  <2>2. JobOk([op |-> "unsign", n |-> n, pc |-> "keys"])
    BY DEF JobOk
  <2> QED BY <1>5, <2>1, <2>2, JobReads DEF disableCatalogDnssec
<1>6. ASSUME bulkAddBlocklistEntries PROVE Step
  <2>1. PICK n, todo : Read([op |-> "patterns", n |-> n, todo |-> todo])
    BY <1>6 DEF bulkAddBlocklistEntries
  <2>2. JobOk([op |-> "patterns", n |-> n, todo |-> todo])
    BY DEF JobOk
  <2> QED BY <1>6, <2>1, <2>2, JobReads DEF bulkAddBlocklistEntries
<1>7. ASSUME createRecord PROVE Step
  <2>1. PICK v \in Values("record") : AddRow("record", Manual(v))
    BY <1>7 DEF createRecord, CreateDnsRecord
  <2>2. "record" \in Tables \ (Details \cup {"registration", "subnet"})
    BY TablesAre DEF TableNames, Details
  <2>3. Needed("record") \subseteq DOMAIN Manual(v)
    BY ValuesColumns, NeededColumns DEF Manual, ++
  <2> QED BY <1>7, <2>1, <2>2, <2>3, RequestAdds DEF createRecord
<1>8. ASSUME createCatalogZone PROVE Step
  <2>1. PICK v \in Values("catalog") : AddRow("catalog", v ++ [signed |-> FALSE])
    BY <1>8 DEF createCatalogZone, CreateDnsCatalogZone
  <2>2. "catalog" \in Tables \ (Details \cup {"registration", "subnet"})
    BY TablesAre DEF TableNames, Details
  <2>3. Needed("catalog") \subseteq DOMAIN (v ++ [signed |-> FALSE])
    BY ValuesColumns, NeededColumns DEF ++
  <2> QED BY <1>8, <2>1, <2>2, <2>3, RequestAdds DEF createCatalogZone
<1>9. ASSUME createBlocklistEntry PROVE Step
  <2>1. PICK n, p : AddRow("entry", [list |-> n, pattern |-> p])
    BY <1>9 DEF createBlocklistEntry, CreateDnsBlocklistEntry
  <2>2. "entry" \in Tables \ (Details \cup {"registration", "subnet"}) /\ Needed("entry") = {"list"}
    BY TablesAre, SchemaColumns, NeededColumns DEF TableNames, Details
  <2> QED BY <1>9, <2>1, <2>2, RequestAdds DEF createBlocklistEntry
<1> QED BY <1>1, <1>2, <1>3, <1>4, <1>5, <1>6, <1>7, <1>8, <1>9 DEF
       DnsRequests

LEMMA DecideWrites ==
  ASSUME NEW n, NEW from, from \cap Decided = {}, NEW v, Request, Decide(n, from, v)
  PROVE  Step
<1>1. "registration" \in Tables
  BY TablesAre DEF TableNames
<1>2. Writes("registration", n, v)
  BY <1>1 DEF Writes, Decide, Request
<1> QED BY <1>2 DEF Request, Begin, Step, Statement

LEMMA NicRequestSteps == ASSUME NicRequests PROVE Step
<1>1. ASSUME create PROVE Step
  BY <1>1 DEF create, Request, Begin, Step, Statement
<1>2. {"draft"} \cap Decided = {} /\ {"submitted"} \cap Decided = {} /\ Undecided \cap Decided = {}
  BY DEF Decided, Undecided
<1>3. ASSUME submit PROVE Step
  BY <1>2, <1>3, DecideWrites DEF submit, SubmitNicRegistration
<1>4. ASSUME cancel PROVE Step
  BY <1>2, <1>4, DecideWrites DEF cancel, CancelNicRegistration
<1>5. ASSUME approve PROVE Step
  BY <1>2, <1>5, DecideWrites DEF approve, ApproveNicRegistration
<1>6. ASSUME reject PROVE Step
  BY <1>2, <1>6, DecideWrites DEF reject, RejectNicRegistration
<1> QED BY <1>1, <1>3, <1>4, <1>5, <1>6 DEF NicRequests

LEMMA WrittenByJobs == {"asset", "cable", "zone", "catalog"} \subseteq Patched
BY TablesAre DEF Patched, TableNames

LEMMA InventoryJobSteps == ASSUME InventoryTypes, InventoryJobs PROVE Step
<1>1. PICK j \in jobs :
          \/ DeleteCounted(j) \/ InsertRead(j) \/ bulkUpdate(j)
          \/ DetachIPAddressesFromAsset(j) \/ DeleteAlertsForAsset(j) \/ DeleteAsset(j)
          \/ DeleteConsumerPowerConnections(j) \/ DeletePduPowerConnections(j)
          \/ SetAssetDecommissioned(j) \/ UpdateCable(j)
  BY DEF InventoryJobs
<1>2. JobOk(j)
  BY DEF InventoryTypes
<1>3. ASSUME DeleteCounted(j) PROVE Step
  <2>1. j.t \in Tables \ {"registration"}
    BY <1>2, <1>3 DEF DeleteCounted, JobOk
  <2> QED BY <1>3, <2>1, RowRemoves, JobEnds, JobRefused DEF DeleteCounted
<1>4. ASSUME InsertRead(j) PROVE Step
  <2>1. CASE Refused(j)
    BY <2>1, JobRefused
  <2>2. CASE ~Refused(j)
    <3>1. /\ j.t \in {"supernet", "subnet", "cable", "connection"}
          /\ Columns(j.t) \subseteq DOMAIN j.v
      BY <1>2, <1>4 DEF InsertRead, JobOk
    <3>2. j.t \in Tables \ (Details \cup {"registration"}) /\ j.t # "key"
      BY <3>1, TablesAre DEF TableNames, Details
    <3>3. Needed(j.t) \subseteq DOMAIN j.v
      BY <3>1, <3>2, NeededColumns
    <3>4. AddRow(j.t, j.v) /\ Done(j)
      BY <1>4, <2>2 DEF InsertRead
    <3>5. /\ strayed \subseteq strayed'
          /\ j.t = "subnet" =>
                 \/ NextId(j.t) \in strayed'
                 \/ \A c \in {"fabric", "vrf"} : j.v[c] = db["supernet"][j.v.supernet][c]
      <4>1. strayed' = IF j.t = "subnet" /\ \E c \in {"fabric", "vrf"} :
                               j.v[c] # db["supernet"][j.v.supernet][c]
                        THEN strayed \cup {NextId("subnet")} ELSE strayed
        BY <1>4, <2>2 DEF InsertRead
      <4> QED BY <4>1
    <3>6. Adds(j.t, j.v)
      BY <3>2, <3>3, <3>4, <3>5 DEF Adds
    <3> QED BY <3>4, <3>6, JobEnds DEF Statement
  <2> QED BY <2>1, <2>2
<1>5. ASSUME bulkUpdate(j) PROVE Step
  <2>1. ASSUME UpdateAsset(j.n, j.v), UNCHANGED strayed PROVE Statement
    BY <2>1, RowWrites, WrittenByJobs DEF UpdateAsset
  <2> QED BY <1>5, <2>1, JobEnds, JobRefused DEF bulkUpdate
<1>6. ASSUME DetachIPAddressesFromAsset(j) PROVE Step
  <2>1. Statement
    BY <1>6 DEF Statement
  <2> QED BY <1>2, <1>6, <2>1, JobGoes DEF DetachIPAddressesFromAsset
<1>7. ASSUME DeleteAlertsForAsset(j) PROVE Step
  <2>1. PICK S : db' = Deleted(db, S) /\ \A r \in S : r = <<"alert", r[2]>>
    BY <1>7 DEF DeleteAlertsForAsset
  <2>2. Statement
    BY <1>7, <2>1, LeafRemoves DEF DeleteAlertsForAsset, Goes, Leaves
  <2> QED BY <1>2, <1>7, <2>2, JobGoes DEF DeleteAlertsForAsset
<1>8. ASSUME DeleteAsset(j) PROVE Step
  <2>1. "asset" \in Tables \ {"registration"}
    BY TablesAre DEF TableNames
  <2> QED BY <1>8, <2>1, RowRemoves, JobEnds, JobRefused DEF DeleteAsset
<1>9. ASSUME DeleteConsumerPowerConnections(j) \/ DeletePduPowerConnections(j) PROVE Step
  <2>1. PICK M, pc : db' = Deleted(db, {"connection"} \X M) /\ Goes(j, pc)
    BY <1>9 DEF DeleteConsumerPowerConnections, DeletePduPowerConnections, Unplug
  <2>2. \A r \in {"connection"} \X M : r = <<"connection", r[2]>>
    OBVIOUS
  <2>3. Statement
    BY <2>1, <2>2, LeafRemoves DEF Goes, Leaves
  <2> QED BY <1>2, <2>1, <2>3, JobGoes
<1>10. ASSUME SetAssetDecommissioned(j) PROVE Step
  BY <1>10, RowWrites, WrittenByJobs, JobEnds, JobRefused DEF SetAssetDecommissioned
<1>11. ASSUME UpdateCable(j) PROVE Step
  BY <1>11, RowWrites, WrittenByJobs, JobEnds, JobRefused DEF UpdateCable
<1> QED BY <1>1, <1>3, <1>4, <1>5, <1>6, <1>7, <1>8, <1>9, <1>10, <1>11

LEMMA IpamJobSteps == ASSUME InventoryTypes, IpamJobs PROVE Step
<1>1. PICK j \in jobs : MoveSupernet(j)
  BY DEF IpamJobs
<1>2. ASSUME Movable(j), WriteRow("supernet", j.n, j.v), UNCHANGED strayed PROVE Statement
  <2>1. "supernet" \in Tables
    BY TablesAre DEF TableNames
  <2>2. Writes("supernet", j.n, j.v)
    BY <1>2, <2>1 DEF Writes, Movable
  <2> QED BY <2>2 DEF Statement
<1> QED BY <1>1, <1>2, JobEnds, JobRefused DEF MoveSupernet

LEMMA RoutingJobSteps == ASSUME InventoryTypes, RoutingJobs PROVE Step
<1>1. PICK j \in jobs : rotateInsert(j)
  BY DEF RoutingJobs
<1>2. Statement
  BY <1>1 DEF Statement
<1>3. Done(j)
  BY <1>1 DEF rotateInsert, Refused
<1> QED BY <1>2, <1>3, JobEnds

LEMMA DnsJobSteps == ASSUME InventoryTypes, DnsJobs PROVE Step
<1>1. PICK j \in jobs :
          \/ DeleteManualRecordsInZone(j) \/ ImportRecord(j) \/ TouchDnsZone(j)
          \/ DeleteDnsKeysByCatalog(j) \/ SetDnsCatalogZoneSigned(j) \/ BulkAddNext(j)
  BY DEF DnsJobs
<1>2. JobOk(j)
  BY DEF InventoryTypes
<1>3. ASSUME NEW t \in Tables \ (Details \cup {"registration", "subnet", "key"}), NEW v,
             AddRow(t, v), Columns(t) \subseteq DOMAIN v, UNCHANGED strayed
      PROVE  Statement
  <2>1. Adds(t, v)
    BY <1>3, NeededColumns DEF Adds
  <2> QED BY <2>1 DEF Statement
<1>4. {"record", "entry"} \subseteq Tables \ (Details \cup {"registration", "subnet", "key"})
  BY TablesAre DEF TableNames, Details
<1>5. ASSUME DeleteManualRecordsInZone(j) PROVE Step
  <2>1. PICK S : db' = Deleted(db, S) /\ \A r \in S : r = <<"record", r[2]>>
    BY <1>5 DEF DeleteManualRecordsInZone
  <2>2. Statement
    BY <1>5, <2>1, LeafRemoves DEF DeleteManualRecordsInZone, Goes, Leaves
  <2> QED BY <1>2, <1>5, <2>2, JobGoes DEF DeleteManualRecordsInZone
<1>6. ASSUME ImportRecord(j) PROVE Step
  <2> DEFINE v == Manual([zone |-> j.n, address |-> NULL, view |-> NULL, check |-> NULL])
  <2>1. Columns("record") \subseteq DOMAIN v
    BY SchemaColumns DEF Manual, ++
  <2>2. \/ AddRow("record", v) /\ UNCHANGED strayed
        \/ UNCHANGED <<db, born, strayed>>
    BY <1>6 DEF ImportRecord
  <2> HIDE DEF v
  <2>3. Statement
    BY <1>3, <1>4, <2>1, <2>2 DEF Statement
  <2>4. jobs' = (jobs \ {j}) \cup {[j EXCEPT !.todo = j.todo - 1]} /\ UNCHANGED changes
    BY <1>6 DEF ImportRecord
  <2> QED BY <1>2, <2>3, <2>4, JobTodo
<1>7. ASSUME TouchDnsZone(j) PROVE Step
  BY <1>7, RowWrites, WrittenByJobs, JobEnds, JobRefused DEF TouchDnsZone
<1>8. ASSUME DeleteDnsKeysByCatalog(j) PROVE Step
  <2>1. PICK S : db' = Deleted(db, S) /\ \A r \in S : r = <<"dnsKey", r[2]>>
    BY <1>8 DEF DeleteDnsKeysByCatalog
  <2>2. Statement
    BY <1>8, <2>1, LeafRemoves DEF DeleteDnsKeysByCatalog, Goes, Leaves
  <2> QED BY <1>2, <1>8, <2>2, JobGoes DEF DeleteDnsKeysByCatalog
<1>9. ASSUME SetDnsCatalogZoneSigned(j) PROVE Step
  BY <1>9, RowWrites, WrittenByJobs, JobEnds, JobRefused DEF SetDnsCatalogZoneSigned
<1>10. ASSUME BulkAddNext(j) PROVE Step
  <2>1. CASE Refused(j)
    BY <2>1, JobRefused
  <2>2. CASE ~Refused(j)
    <3>1. PICK p : /\ AddRow("entry", [list |-> j.n, pattern |-> p])
                   /\ jobs' = (jobs \ {j}) \cup {[j EXCEPT !.todo = j.todo \ {p}]}
                   /\ UNCHANGED <<strayed, changes>>
      BY <1>10, <2>2 DEF BulkAddNext, CreateDnsBlocklistEntry
    <3>2. Columns("entry") \subseteq DOMAIN [list |-> j.n, pattern |-> p]
      BY SchemaColumns
    <3>3. Statement
      BY <1>3, <1>4, <3>1, <3>2
    <3> QED BY <1>2, <3>1, <3>3, JobTodo
  <2> QED BY <2>1, <2>2
<1> QED BY <1>1, <1>5, <1>6, <1>7, <1>8, <1>9, <1>10

\* Every request and every job is one of the statements, leaves jobs behind
\* that know what they ask for, and counts the request.
LEMMA NextIsStep == ASSUME InventoryTypes, InventoryNext PROVE Step
BY InventoryRequestSteps, IpamRequestSteps, RoutingRequestSteps, DnsRequestSteps,
   NicRequestSteps, InventoryJobSteps, IpamJobSteps, RoutingJobSteps, DnsJobSteps
DEF InventoryNext

-----------------------------------------------------------------------------
(* What the statements keep.  d is the database before, e the one after.    *)

\* Outlets and key ids that stay, or go, are claimed once as before.
LEMMA ClaimsStay ==
  ASSUME NEW d, NEW e, ClaimedOnce(d),
         \A n \in DOMAIN e["connection"] :
             n \in DOMAIN d["connection"] /\ e["connection"][n].outlet = d["connection"][n].outlet,
         \A n \in DOMAIN e["key"] :
             /\ n \in DOMAIN d["key"]
             /\ e["key"][n].chain = d["key"][n].chain /\ e["key"][n].kid = d["key"][n].kid
  PROVE  ClaimedOnce(e)
BY DEF ClaimedOnce

\* A subnet follows its supernet if neither has changed in what it copies.
LEMMA FollowStays ==
  ASSUME NEW d, NEW e, NEW n, NEW p, Follows(d, n), p = d["subnet"][n].supernet,
         e["subnet"][n].supernet = p,
         \A c \in {"fabric", "vrf"} :
             e["subnet"][n][c] = d["subnet"][n][c] /\ e["supernet"][p][c] = d["supernet"][p][c]
  PROVE  Follows(e, n)
BY DEF Follows

\* The supernet of a subnet is there.
LEMMA SupernetLives ==
  ASSUME NEW d, RefsHold(d), NEW n \in DOMAIN d["subnet"]
  PROVE  d["subnet"][n].supernet \in DOMAIN d["supernet"]
<1>1. "subnet" \in Tables
  BY TablesAre DEF TableNames
<1>2. FkHolds(d, "subnet", d["subnet"][n])
  BY <1>1 DEF RefsHold
<1> QED BY <1>2, SchemaColumns DEF FkHolds, One

LEMMA SomeTables ==
  {"key", "connection", "subnet", "supernet", "asset", "outlet", "address", "chain"}
  \subseteq Tables \ (Details \cup {"registration"})
BY TablesAre DEF TableNames, Details

-----------------------------------------------------------------------------
(* INSERT *)

LEMMA AddRowIs ==
  ASSUME RowTypes, NEW t \in Tables \ Details, NEW v, AddRow(t, v), NEW e, e = db'
  PROVE  /\ NextId(t) \notin DOMAIN db[t]
         /\ DOMAIN e = Tables
         /\ \A u \in Tables : u # t => e[u] = db[u]
         /\ DOMAIN e[t] = DOMAIN db[t] \cup {NextId(t)}
         /\ \A n \in DOMAIN db[t] : e[t][n] = db[t][n]
         /\ DOMAIN v \subseteq DOMAIN e[t][NextId(t)]
         /\ \A c \in DOMAIN v : e[t][NextId(t)][c] = v[c]
<1>1. NextId(t) \notin DOMAIN db[t] /\ DOMAIN db = Tables
  BY DEF RowTypes, Shape, NextId
<1>2. e = [db EXCEPT ![t] = [m \in DOMAIN db[t] \cup {NextId(t)} |->
                                IF m = NextId(t) THEN v ++ [rev |-> 0] ELSE db[t][m]]]
  BY DEF AddRow, Inserted
<1>3. /\ \A u \in Tables : u # t => e[u] = db[u]
      /\ e[t] = [m \in DOMAIN db[t] \cup {NextId(t)} |->
                    IF m = NextId(t) THEN v ++ [rev |-> 0] ELSE db[t][m]]
      /\ DOMAIN e = Tables
  BY <1>1, <1>2
<1>4. e[t][NextId(t)] = v ++ [rev |-> 0]
  BY <1>3
<1>5. DOMAIN v \subseteq DOMAIN (v ++ [rev |-> 0]) /\ \A c \in DOMAIN v : (v ++ [rev |-> 0])[c] = v[c]
  BY DEF ++
<1> QED BY <1>1, <1>3, <1>4, <1>5

LEMMA AddsKeep ==
  ASSUME DatabaseInv, NEW t, NEW v, Adds(t, v) PROVE DatabaseInv'
<1> DEFINE m == NextId(t)
<1>1. PICK e : e = db'
  OBVIOUS
<1>2. t \in Tables \ Details /\ t # "registration" /\ AddRow(t, v) /\ Needed(t) \subseteq DOMAIN v
  BY DEF Adds
<1>3. /\ m \notin DOMAIN db[t]
      /\ DOMAIN e = Tables
      /\ \A u \in Tables : u # t => e[u] = db[u]
      /\ DOMAIN e[t] = DOMAIN db[t] \cup {m}
      /\ \A n \in DOMAIN db[t] : e[t][n] = db[t][n]
      /\ DOMAIN v \subseteq DOMAIN e[t][m]
      /\ \A c \in DOMAIN v : e[t][m][c] = v[c]
  BY <1>1, <1>2, AddRowIs DEF DatabaseInv
<1>4. born' \in [Tables -> Nat] /\ born'[t] = born[t] + 1 /\ \A u \in Tables : u # t => born'[u] = born[u]
  BY <1>2 DEF AddRow, DatabaseInv, RowTypes
<1>5. m = born[t] + 1 /\ born[t] \in Nat
  BY <1>2 DEF NextId, DatabaseInv, RowTypes
<1> HIDE DEF m
<1>6. FkHolds(db, t, e[t][m])
  <2>1. FkHolds(db, t, v) /\ Columns(t) \subseteq DOMAIN v
    BY <1>2, NeededColumns DEF AddRow
  <2> QED BY <1>3, <2>1 DEF FkHolds
<1>7. Shape(e) /\ RefsHold(e)
  <2>1. Shape(db) /\ RefsHold(db)
    BY DEF DatabaseInv, RowTypes
  <2>2. ASSUME NEW u \in Tables, NEW n \in DOMAIN e[u]
        PROVE  Needed(u) \subseteq DOMAIN e[u][n] /\ FkHolds(db, u, e[u][n])
    <3>1. CASE n \in DOMAIN db[u]
      <4>1. e[u][n] = db[u][n]
        BY <1>3, <3>1
      <4> QED BY <2>1, <3>1, <4>1 DEF Shape, RefsHold
    <3>2. CASE n \notin DOMAIN db[u]
      <4>1. u = t /\ n = m
        BY <1>3, <3>2
      <4> QED BY <1>2, <1>3, <1>6, <4>1
    <3> QED BY <3>1, <3>2
  <2>3. \A u \in Tables : DOMAIN db[u] \subseteq DOMAIN e[u]
    BY <1>3
  <2> QED BY <1>3, <2>1, <2>2, <2>3, GrowKeeps
<1>8. \A u \in Tables \ Details : DOMAIN e[u] \subseteq 1..born'[u]
  <2>1. ASSUME NEW u \in Tables \ Details, u # t PROVE DOMAIN e[u] \subseteq 1..born'[u]
    BY <1>3, <1>4, <2>1 DEF DatabaseInv, RowTypes
  <2>2. DOMAIN e[t] \subseteq 1..born'[t]
    <3>1. DOMAIN db[t] \subseteq 1..born[t]
      BY <1>2 DEF DatabaseInv, RowTypes
    <3> QED BY <1>3, <1>4, <1>5, <3>1
  <2> QED BY <2>1, <2>2
<1>9. \A n \in DOMAIN e["key"] : e["key"][n].kid \in Nat
  <2>1. \A n \in DOMAIN db["key"] : db["key"][n].kid \in Nat
    BY DEF DatabaseInv, RowTypes, Live
  <2>2. t = "key" => v.kid \in Nat /\ "kid" \in DOMAIN v
    BY <1>2, NeededColumns DEF Adds
  <2> QED BY <1>3, <2>1, <2>2, SomeTables
<1>10. ClaimedOnce(e)
  <2>1. ClaimedOnce(db)
    BY DEF DatabaseInv, OneClaimEach
  <2>2. t = "connection" => \A n \in DOMAIN db["connection"] : db["connection"][n].outlet # e["connection"][m].outlet
    <3>1. t = "connection" => \A n \in DOMAIN db["connection"] : db["connection"][n].outlet # v.outlet
      BY <1>2 DEF AddRow, UniqueHolds, UniqueKeys, Live
    <3>2. t = "connection" => e["connection"][m].outlet = v.outlet
      BY <1>2, <1>3, NeededColumns, SchemaColumns
    <3> QED BY <3>1, <3>2
  <2>3. t = "key" => \A n \in DOMAIN db["key"] : \/ db["key"][n].chain # e["key"][m].chain
                                                 \/ db["key"][n].kid # e["key"][m].kid
    <3>1. t = "key" => \A n \in DOMAIN db["key"] : db["key"][n].chain # v.chain \/ db["key"][n].kid # v.kid
      BY <1>2 DEF AddRow, UniqueHolds, UniqueKeys, Live
    <3>2. t = "key" => e["key"][m].chain = v.chain /\ e["key"][m].kid = v.kid
      BY <1>2, <1>3, NeededColumns
    <3> QED BY <3>1, <3>2
  <2>4. \A x, y \in DOMAIN e["connection"] : x # y => e["connection"][x].outlet # e["connection"][y].outlet
    <3>1. CASE t = "connection"
      BY <1>3, <2>1, <2>2, <3>1 DEF ClaimedOnce
    <3>2. CASE t # "connection"
      BY <1>3, <2>1, <3>2, SomeTables DEF ClaimedOnce
    <3> QED BY <3>1, <3>2
  <2>5. \A x, y \in DOMAIN e["key"] : x # y => \/ e["key"][x].chain # e["key"][y].chain
                                               \/ e["key"][x].kid # e["key"][y].kid
    <3>1. CASE t = "key"
      BY <1>3, <2>1, <2>3, <3>1 DEF ClaimedOnce
    <3>2. CASE t # "key"
      BY <1>3, <2>1, <3>2, SomeTables DEF ClaimedOnce
    <3> QED BY <3>1, <3>2
  <2> QED BY <2>4, <2>5 DEF ClaimedOnce
<1>11. ASSUME NEW n \in DOMAIN e["subnet"] \ strayed' PROVE Follows(e, n)
  <2>1. CASE n \in DOMAIN db["subnet"]
    <3>1. n \notin strayed
      BY <1>11 DEF Adds
    <3>2. Follows(db, n)
      BY <2>1, <3>1 DEF DatabaseInv, SubnetsFollowSupernet, Live
    <3>3. db["subnet"][n].supernet \in DOMAIN db["supernet"]
      BY <2>1, SupernetLives DEF DatabaseInv
    <3>4. e["subnet"][n] = db["subnet"][n]
      BY <1>3, <2>1, SomeTables
    <3>5. \A k \in DOMAIN db["supernet"] : e["supernet"][k] = db["supernet"][k]
      BY <1>3, SomeTables
    <3> QED BY <3>2, <3>3, <3>4, <3>5, FollowStays
  <2>2. CASE n \notin DOMAIN db["subnet"]
    <3>1. t = "subnet" /\ n = m
      BY <1>3, <2>2, SomeTables
    <3>2. \A c \in {"fabric", "vrf"} : v[c] = db["supernet"][v.supernet][c]
      BY <1>11, <3>1 DEF Adds, m
    <3>3. {"supernet", "fabric", "vrf"} \subseteq DOMAIN v
      BY <1>2, <3>1, NeededColumns, SchemaColumns
    <3>4. e["supernet"] = db["supernet"]
      BY <1>3, <3>1, SomeTables
    <3> QED BY <1>3, <3>1, <3>2, <3>3, <3>4 DEF Follows
  <2> QED BY <2>1, <2>2
<1>12. RowTypes'
  BY <1>1, <1>4, <1>7, <1>8, <1>9 DEF RowTypes, Live
<1>13. SubnetsFollowSupernet'
  BY <1>1, <1>11 DEF SubnetsFollowSupernet, Live
<1> QED BY <1>1, <1>7, <1>10, <1>12, <1>13 DEF DatabaseInv, OneClaimEach

-----------------------------------------------------------------------------
(* UPDATE *)

\* An update of row n of t changes the columns that v gives, and counts.
LEMMA WriteRowIs ==
  ASSUME RowTypes, NEW t \in Tables, NEW n, NEW v, WriteRow(t, n, v), NEW e, e = db'
  PROVE  /\ n \in DOMAIN db[t]
         /\ DOMAIN e = Tables
         /\ \A u \in Tables : u # t => e[u] = db[u]
         /\ DOMAIN e[t] = DOMAIN db[t]
         /\ \A k \in DOMAIN db[t] : k # n => e[t][k] = db[t][k]
         /\ DOMAIN e[t][n] = DOMAIN v \cup DOMAIN db[t][n]
         /\ \A c \in DOMAIN db[t][n] :
                c \notin DOMAIN v /\ c # "rev" => e[t][n][c] = db[t][n][c]
         /\ FkHolds(db, t, e[t][n])
<1> DEFINE row == v ++ db[t][n]
           w == [row EXCEPT !.rev = row.rev + 1]
<1>1. n \in DOMAIN db[t] /\ DOMAIN db = Tables /\ FkHolds(db, t, row)
  BY DEF RowTypes, Shape, WriteRow, Live
<1>2. e = [db EXCEPT ![t][n] = w]
  BY DEF WriteRow
<1>3. DOMAIN row = DOMAIN v \cup DOMAIN db[t][n]
  BY DEF ++
<1>4. \A c \in DOMAIN db[t][n] : c \notin DOMAIN v => row[c] = db[t][n][c]
  BY DEF ++
<1> HIDE DEF row
<1>5. DOMAIN w = DOMAIN row /\ \A c \in DOMAIN row : c # "rev" => w[c] = row[c]
  OBVIOUS
<1> HIDE DEF w
<1>6. /\ DOMAIN e = Tables
      /\ \A u \in Tables : u # t => e[u] = db[u]
      /\ DOMAIN e[t] = DOMAIN db[t]
      /\ \A k \in DOMAIN db[t] : k # n => e[t][k] = db[t][k]
      /\ e[t][n] = w
  BY <1>1, <1>2
<1>7. FkHolds(db, t, w)
  <2>1. \A c \in Columns(t) : c # "rev"
    BY SchemaSound DEF Sound
  <2>2. Columns(t) \subseteq DOMAIN db[t][n]
    BY <1>1, NeededColumns DEF RowTypes, Shape
  <2>3. \A c \in Columns(t) : w[c] = row[c]
    BY <1>3, <1>5, <2>1, <2>2
  <2> QED BY <1>1, <2>3 DEF FkHolds
<1> QED BY <1>1, <1>3, <1>4, <1>5, <1>6, <1>7

LEMMA WritesKeep ==
  ASSUME DatabaseInv, NEW t, NEW n, NEW v, Writes(t, n, v) PROVE DatabaseInv'
<1>1. PICK e : e = db'
  OBVIOUS
<1>2. t \in Tables \ {"connection"} /\ WriteRow(t, n, v) /\ UNCHANGED born
  BY DEF Writes, WriteRow
<1>3. /\ n \in DOMAIN db[t]
      /\ DOMAIN e = Tables
      /\ \A u \in Tables : u # t => e[u] = db[u]
      /\ DOMAIN e[t] = DOMAIN db[t]
      /\ \A k \in DOMAIN db[t] : k # n => e[t][k] = db[t][k]
      /\ DOMAIN e[t][n] = DOMAIN v \cup DOMAIN db[t][n]
      /\ \A c \in DOMAIN db[t][n] :
             c \notin DOMAIN v /\ c # "rev" => e[t][n][c] = db[t][n][c]
      /\ FkHolds(db, t, e[t][n])
  BY <1>1, <1>2, WriteRowIs DEF DatabaseInv
<1>4. Shape(db) /\ RefsHold(db) /\ DOMAIN db = Tables
  BY DEF DatabaseInv, RowTypes, Shape
<1>5. \A u \in Tables : DOMAIN e[u] = DOMAIN db[u]
  BY <1>2, <1>3
<1>6. Shape(e) /\ RefsHold(e)
  <2>1. ASSUME NEW u \in Tables, NEW k \in DOMAIN e[u]
        PROVE  Needed(u) \subseteq DOMAIN e[u][k] /\ FkHolds(db, u, e[u][k])
    <3>1. CASE u = t /\ k = n
      BY <1>3, <1>4, <3>1 DEF Shape
    <3>2. CASE ~(u = t /\ k = n)
      <4>1. e[u][k] = db[u][k] /\ k \in DOMAIN db[u]
        BY <1>3, <1>5, <3>2
      <4> QED BY <1>4, <4>1 DEF Shape, RefsHold
    <3> QED BY <3>1, <3>2
  <2> QED BY <1>3, <1>4, <1>5, <2>1, GrowKeeps
<1>7. \A k \in DOMAIN db["key"] :
          /\ e["key"][k].chain = db["key"][k].chain
          /\ e["key"][k].kid = db["key"][k].kid
  <2>1. CASE t = "key"
    <3>1. DOMAIN v = {}
      BY <2>1 DEF Writes
    <3>2. \A k \in DOMAIN db["key"] : {"chain", "kid"} \subseteq DOMAIN db["key"][k]
      BY <1>4, NeededColumns, SomeTables DEF Shape
    <3> QED BY <1>3, <2>1, <3>1, <3>2
  <2>2. CASE t # "key"
    BY <1>3, <2>2, SomeTables
  <2> QED BY <2>1, <2>2
<1>8. ClaimedOnce(e)
  <2>1. ClaimedOnce(db)
    BY DEF DatabaseInv, OneClaimEach
  <2>2. e["connection"] = db["connection"]
    BY <1>2, <1>3, SomeTables
  <2>3. DOMAIN e["key"] = DOMAIN db["key"]
    BY <1>5, SomeTables
  <2> QED BY <1>7, <2>1, <2>2, <2>3, ClaimsStay
<1>9. RowTypes'
  <2>1. \A u \in Tables \ Details : DOMAIN e[u] \subseteq 1..born'[u]
    BY <1>2, <1>5 DEF DatabaseInv, RowTypes
  <2>2. \A k \in DOMAIN e["key"] : e["key"][k].kid \in Nat
    BY <1>5, <1>7, SomeTables DEF DatabaseInv, RowTypes, Live
  <2>3. born' \in [Tables -> Nat]
    BY <1>2 DEF DatabaseInv, RowTypes
  <2> QED BY <1>1, <1>6, <2>1, <2>2, <2>3 DEF RowTypes, Live
<1>10. ASSUME NEW k \in DOMAIN e["subnet"] \ strayed' PROVE Follows(e, k)
  <2> DEFINE p == db["subnet"][k].supernet
  <2>1. k \in DOMAIN db["subnet"] \ strayed
    BY <1>5, <1>10, SomeTables DEF Writes
  <2>2. Follows(db, k)
    BY <2>1 DEF DatabaseInv, SubnetsFollowSupernet, Live
  <2>3. p \in DOMAIN db["supernet"]
    BY <2>1, SupernetLives DEF DatabaseInv
  <2>4. {"supernet", "fabric", "vrf"} \subseteq DOMAIN db["subnet"][k]
    BY <1>4, <2>1, NeededColumns, SchemaColumns, SomeTables DEF Shape
  <2>5. {"fabric", "vrf"} \subseteq DOMAIN db["supernet"][p]
    BY <1>4, <2>3, NeededColumns, SchemaColumns, SomeTables DEF Shape
  <2>6. \A c \in {"supernet", "fabric", "vrf"} : e["subnet"][k][c] = db["subnet"][k][c]
    <3>1. CASE t = "subnet" /\ k = n
      <4>1. {"supernet", "fabric", "vrf"} \cap DOMAIN v = {}
        BY <1>10, <3>1 DEF Writes
      <4> QED BY <1>3, <2>4, <3>1, <4>1
    <3>2. CASE ~(t = "subnet" /\ k = n)
      <4>1. e["subnet"][k] = db["subnet"][k]
        BY <1>3, <2>1, <3>2, SomeTables
      <4> QED BY <4>1
    <3> QED BY <3>1, <3>2
  <2>7. \A c \in {"fabric", "vrf"} : e["supernet"][p][c] = db["supernet"][p][c]
    <3>1. CASE t = "supernet" /\ p = n
      <4>1. Refers("subnet", "supernet", n)
        BY <2>1, <3>1 DEF Refers, Live
      <4>2. {"fabric", "vrf"} \cap DOMAIN v = {}
        BY <3>1, <4>1 DEF Writes
      <4> QED BY <1>3, <2>5, <3>1, <4>2
    <3>2. CASE ~(t = "supernet" /\ p = n)
      <4>1. e["supernet"][p] = db["supernet"][p]
        BY <1>3, <2>3, <3>2, SomeTables
      <4> QED BY <4>1
    <3> QED BY <3>1, <3>2
  <2> HIDE DEF p
  <2>8. p = db["subnet"][k].supernet
    BY DEF p
  <2> QED BY <2>2, <2>6, <2>7, <2>8, FollowStays
<1>11. SubnetsFollowSupernet'
  BY <1>1, <1>10 DEF SubnetsFollowSupernet, Live
<1> QED BY <1>1, <1>6, <1>8, <1>9, <1>11 DEF DatabaseInv, OneClaimEach

-----------------------------------------------------------------------------
(* DELETE *)

LEMMA RemovesKeep ==
  ASSUME DatabaseInv, NEW S, Removes(S) PROVE DatabaseInv'
<1>1. PICK e : e = db'
  OBVIOUS
<1>2. /\ \A r \in S : r = <<r[1], r[2]>> /\ r[1] \in Tables
      /\ Deletable(db, S) /\ e = Deleted(db, S)
      /\ UNCHANGED <<born, strayed>>
  BY <1>1 DEF Removes
<1>3. Shape(db) /\ RefsHold(db)
  BY DEF DatabaseInv, RowTypes
<1>4. /\ Shape(e) /\ RefsHold(e)
      /\ \A t \in Tables :
          /\ DOMAIN e[t] \subseteq DOMAIN db[t]
          /\ \A n \in DOMAIN e[t] : \A c \in DOMAIN db[t][n] :
              (c \in Columns(t) => Schema[t][c].onDelete # "setNull")
              => e[t][n][c] = db[t][n][c]
  BY <1>2, <1>3, DeletedKeeps
<1>5. \A n \in DOMAIN e["connection"] :
          n \in DOMAIN db["connection"] /\ e["connection"][n].outlet = db["connection"][n].outlet
  <2>1. ASSUME NEW n \in DOMAIN e["connection"]
        PROVE  n \in DOMAIN db["connection"] /\ "outlet" \in DOMAIN db["connection"][n]
    BY <1>3, <1>4, NeededColumns, SchemaColumns, SomeTables DEF Shape
  <2> QED BY <1>4, <2>1, SchemaColumns, SomeTables
<1>6. \A n \in DOMAIN e["key"] :
          /\ n \in DOMAIN db["key"]
          /\ e["key"][n].chain = db["key"][n].chain /\ e["key"][n].kid = db["key"][n].kid
  <2>1. ASSUME NEW n \in DOMAIN e["key"]
        PROVE  n \in DOMAIN db["key"] /\ {"chain", "kid"} \subseteq DOMAIN db["key"][n]
    BY <1>3, <1>4, NeededColumns, SomeTables DEF Shape
  <2>2. Schema["key"]["chain"].onDelete # "setNull" /\ "kid" \notin Columns("key")
    BY SchemaColumns DEF One
  <2> QED BY <1>4, <2>1, <2>2, SomeTables
<1>7. ClaimedOnce(e)
  <2>1. ClaimedOnce(db)
    BY DEF DatabaseInv, OneClaimEach
  <2> QED BY <1>5, <1>6, <2>1, ClaimsStay
<1>8. RowTypes'
  <2>1. \A u \in Tables \ Details : DOMAIN e[u] \subseteq 1..born'[u]
    BY <1>2, <1>4 DEF DatabaseInv, RowTypes
  <2>2. \A k \in DOMAIN e["key"] : e["key"][k].kid \in Nat
    BY <1>6 DEF DatabaseInv, RowTypes, Live
  <2>3. born' \in [Tables -> Nat]
    BY <1>2 DEF DatabaseInv, RowTypes
  <2> QED BY <1>1, <1>4, <2>1, <2>2, <2>3 DEF RowTypes, Live
<1>9. ASSUME NEW k \in DOMAIN e["subnet"] \ strayed' PROVE Follows(e, k)
  <2>1. k \in DOMAIN db["subnet"] \ strayed
    BY <1>2, <1>4, <1>9, SomeTables
  <2>2. Follows(db, k)
    BY <2>1 DEF DatabaseInv, SubnetsFollowSupernet, Live
  <2>3. {"supernet", "fabric", "vrf"} \subseteq DOMAIN db["subnet"][k]
    BY <1>3, <2>1, NeededColumns, SchemaColumns, SomeTables DEF Shape
  <2>4. \A c \in {"supernet", "fabric", "vrf"} : e["subnet"][k][c] = db["subnet"][k][c]
    <3>1. \A c \in {"supernet", "fabric", "vrf"} : Schema["subnet"][c].onDelete # "setNull"
      BY SchemaColumns DEF One
    <3> QED BY <1>4, <1>9, <2>3, <3>1, SomeTables
  <2>5. PICK p : p = db["subnet"][k].supernet
    OBVIOUS
  <2>6. e["subnet"][k].supernet = p
    BY <2>4, <2>5
  <2>7. p \in DOMAIN e["supernet"] /\ p \in DOMAIN db["supernet"]
    BY <1>4, <1>9, <2>1, <2>5, <2>6, SupernetLives, SomeTables
  <2>8. {"fabric", "vrf"} \subseteq DOMAIN db["supernet"][p]
    BY <1>3, <2>7, NeededColumns, SchemaColumns, SomeTables DEF Shape
  <2>9. \A c \in {"fabric", "vrf"} : e["supernet"][p][c] = db["supernet"][p][c]
    <3>1. \A c \in {"fabric", "vrf"} : Schema["supernet"][c].onDelete # "setNull"
      BY SchemaColumns DEF One
    <3> QED BY <1>4, <2>7, <2>8, <3>1, SomeTables
  <2> QED BY <2>2, <2>4, <2>5, <2>6, <2>9, FollowStays
<1>10. SubnetsFollowSupernet'
  BY <1>1, <1>9 DEF SubnetsFollowSupernet, Live
<1> QED BY <1>1, <1>4, <1>7, <1>8, <1>10 DEF DatabaseInv, OneClaimEach

-----------------------------------------------------------------------------
(* The statements that are none of these                                     *)

\* Rows stay, and registrations stay as they are.
Grown(d, e) ==
    /\ \A t \in Tables : DOMAIN d[t] \subseteq DOMAIN e[t]
    /\ \A n \in DOMAIN d["registration"] : e["registration"][n] = d["registration"][n]

LEMMA OthersKeep ==
  ASSUME DatabaseInv, NEW e, e = db', DOMAIN e = Tables, born' \in [Tables -> Nat],
         \A t \in Tables : DOMAIN db[t] \subseteq DOMAIN e[t],
         \A t \in Tables \ Details : DOMAIN e[t] \subseteq 1..born'[t],
         \A t \in Tables : \A n \in DOMAIN e[t] :
             /\ Needed(t) \subseteq DOMAIN e[t][n]
             /\ FkHolds(db, t, e[t][n]) \/ FkHolds(e, t, e[t][n]),
         \A t \in {"key", "connection", "subnet", "supernet"} : e[t] = db[t],
         strayed \subseteq strayed'
  PROVE  DatabaseInv'
<1>1. Shape(db) /\ RefsHold(db)
  BY DEF DatabaseInv, RowTypes
<1>2. Shape(e) /\ RefsHold(e)
  BY <1>1, GrowKeeps
<1>3. ClaimedOnce(e)
  BY DEF DatabaseInv, OneClaimEach, ClaimedOnce
<1>4. \A n \in DOMAIN e["subnet"] \ strayed' : Follows(e, n)
  BY DEF DatabaseInv, SubnetsFollowSupernet, Live, Follows
<1>5. \A n \in DOMAIN e["key"] : e["key"][n].kid \in Nat
  BY DEF DatabaseInv, RowTypes, Live
<1> QED
  BY <1>2, <1>3, <1>4, <1>5 DEF DatabaseInv, RowTypes, OneClaimEach, SubnetsFollowSupernet, Live

\* A new asset, alone or with the outlets of a PDU.
LEMMA AssetsKeep ==
  ASSUME DatabaseInv, createAsset \/ bulkInsert PROVE DatabaseInv' /\ Grown(db, db')
<1> DEFINE a == NextId("asset")
           O == NextId("outlet")..(born["outlet"] + pduOutletCount)
           K == [n \in O |-> [pdu |-> a, rev |-> 0]]
<1>1. PICK v \in Values("asset"), kind \in Kinds :
          \/ db' = CreateAsset(v, kind) /\ UNCHANGED strayed /\ born' = [born EXCEPT !["asset"] = @ + 1]
          \/ /\ db' = SeedPduOutlets(CreateAsset(v, kind), a) /\ UNCHANGED strayed
             /\ born' = [born EXCEPT !["asset"] = @ + 1, !["outlet"] = @ + pduOutletCount]
  BY Zenon DEF createAsset, bulkInsert, Request
<1> DEFINE row == v ++ [kind |-> kind, state |-> "active", rev |-> 0]
<1>2. PICK e : e = db'
  OBVIOUS
<1>3. /\ DOMAIN db = Tables /\ born \in [Tables -> Nat]
      /\ \A t \in Tables \ Details : DOMAIN db[t] \subseteq 1..born[t]
      /\ Shape(db) /\ RefsHold(db)
  BY DEF DatabaseInv, RowTypes, Shape
<1>4. born["asset"] \in Nat /\ born["outlet"] \in Nat
  BY <1>3, SomeTables
<1>5. /\ DOMAIN CreateAsset(v, kind) = Tables
      /\ \A t \in Tables : t # "asset" => CreateAsset(v, kind)[t] = db[t]
      /\ CreateAsset(v, kind)["asset"] = [m \in DOMAIN db["asset"] \cup {a} |-> IF m = a THEN row ELSE db["asset"][m]]
  BY <1>3, SomeTables DEF CreateAsset, Inserted
<1>6. FkHolds(db, "asset", row) /\ Needed("asset") \subseteq DOMAIN row
  <2>1. FkHolds(db, "asset", v) /\ DOMAIN v = Columns("asset")
    BY DEF Values
  <2>2. DOMAIN v \subseteq DOMAIN row /\ \A c \in DOMAIN v : row[c] = v[c]
    BY DEF ++
  <2> QED BY <2>1, <2>2, NeededColumns DEF FkHolds
<1> HIDE DEF row
<1>7. /\ DOMAIN e = Tables
      /\ \A t \in Tables : t # "asset" /\ t # "outlet" => e[t] = db[t]
      /\ DOMAIN e["asset"] = DOMAIN db["asset"] \cup {a}
      /\ \A m \in DOMAIN e["asset"] : e["asset"][m] = row \/ (m \in DOMAIN db["asset"] /\ e["asset"][m] = db["asset"][m])
      /\ e["outlet"] = db["outlet"] \/ e["outlet"] = db["outlet"] ++ K
  <2>1. CASE db' = CreateAsset(v, kind)
    BY <1>2, <1>5, <2>1, SomeTables
  <2>2. CASE db' = SeedPduOutlets(CreateAsset(v, kind), a)
    <3>1. e = [CreateAsset(v, kind) EXCEPT !["outlet"] = CreateAsset(v, kind)["outlet"] ++ K]
      BY <1>2, <2>2 DEF SeedPduOutlets
    <3>2. /\ DOMAIN e = Tables
          /\ \A t \in Tables : t # "outlet" => e[t] = CreateAsset(v, kind)[t]
          /\ e["outlet"] = CreateAsset(v, kind)["outlet"] ++ K
      BY <1>5, <3>1, SomeTables
    <3> QED BY <1>5, <3>2, SomeTables
  <2> QED BY <1>1, <2>1, <2>2
<1>8. /\ DOMAIN db["outlet"] \subseteq DOMAIN e["outlet"] /\ DOMAIN e["outlet"] \subseteq DOMAIN db["outlet"] \cup O
      /\ \A m \in DOMAIN e["outlet"] : e["outlet"][m] = [pdu |-> a, rev |-> 0]
                                       \/ (m \in DOMAIN db["outlet"] /\ e["outlet"][m] = db["outlet"][m])
  <2>1. /\ DOMAIN (db["outlet"] ++ K) = DOMAIN db["outlet"] \cup O
        /\ \A m \in DOMAIN db["outlet"] \cup O :
               (db["outlet"] ++ K)[m] = [pdu |-> a, rev |-> 0]
               \/ (m \in DOMAIN db["outlet"] /\ (db["outlet"] ++ K)[m] = db["outlet"][m])
    BY DEF ++
  <2> QED BY <1>7, <2>1
<1>9. born' \in [Tables -> Nat] /\ \A t \in Tables \ Details : DOMAIN e[t] \subseteq 1..born'[t]
  <2>1. /\ born'["asset"] = born["asset"] + 1
        /\ \A t \in Tables : t # "asset" /\ t # "outlet" => born'[t] = born[t]
        /\ \/ born'["outlet"] = born["outlet"] /\ e["outlet"] = db["outlet"]
           \/ born'["outlet"] = born["outlet"] + 2
        /\ DOMAIN born' = Tables
    BY <1>1, <1>2, <1>3, <1>5, SomeTables DEF pduOutletCount
  <2>2. DOMAIN e["asset"] \subseteq 1..born'["asset"]
    BY <1>3, <1>4, <1>7, <2>1, SomeTables DEF NextId
  <2>3. DOMAIN e["outlet"] \subseteq 1..born'["outlet"]
    <3>1. DOMAIN db["outlet"] \subseteq 1..born["outlet"]
      BY <1>3, SomeTables
    <3> QED BY <1>4, <1>8, <2>1, <3>1 DEF NextId, pduOutletCount
  <2>4. \A t \in Tables : born'[t] \in Nat
    BY <1>3, <1>4, <2>1
  <2>5. born' \in [Tables -> Nat]
    BY <1>1, <1>3, <1>4 DEF pduOutletCount
  <2> QED BY <1>3, <1>7, <2>1, <2>2, <2>3, <2>5
<1> HIDE DEF a, O, K
<1>10. ASSUME NEW t \in Tables, NEW n \in DOMAIN e[t]
       PROVE  Needed(t) \subseteq DOMAIN e[t][n] /\ (FkHolds(db, t, e[t][n]) \/ FkHolds(e, t, e[t][n]))
  <2>1. CASE n \in DOMAIN db[t] /\ e[t][n] = db[t][n]
    BY <1>3, <2>1 DEF Shape, RefsHold
  <2>2. CASE t = "asset" /\ e[t][n] = row
    BY <1>6, <2>2
  <2>3. CASE t = "outlet" /\ e[t][n] = [pdu |-> a, rev |-> 0]
    <3>1. Needed("outlet") = {"pdu"} /\ Columns("outlet") = {"pdu"} /\ Schema["outlet"]["pdu"].parent = "asset"
      BY SchemaColumns, NeededColumns DEF Owned
    <3>2. a \in DOMAIN e["asset"]
      BY <1>7
    <3> QED BY <2>3, <3>1, <3>2 DEF FkHolds
  <2> QED BY <1>7, <1>8, <2>1, <2>2, <2>3
<1>11. \A t \in Tables : DOMAIN db[t] \subseteq DOMAIN e[t]
  BY <1>7, <1>8, SomeTables
<1>12. DatabaseInv'
  <2>1. \A t \in {"key", "connection", "subnet", "supernet"} : e[t] = db[t]
    BY <1>7, SomeTables
  <2>2. strayed \subseteq strayed'
    BY <1>1
  <2> QED BY <1>2, <1>7, <1>9, <1>10, <1>11, <2>1, <2>2, OthersKeep
<1>13. Grown(db, e)
  BY <1>7, <1>11, TablesAre DEF Grown, TableNames
<1> QED BY <1>2, <1>12, <1>13

\* A registration and the row with its details.
LEMMA RegistrationsKeep ==
  ASSUME DatabaseInv, create PROVE DatabaseInv' /\ Grown(db, db')
<1> DEFINE N == NextId("registration")
<1>1. PICK v \in Values("registration"), type \in Templates, status \in Undecided :
          runCreate(v, type, status) /\ UNCHANGED strayed
  BY DEF create, Request
<1> DEFINE row == v ++ [type |-> type, status |-> status, push |-> "unset", rev |-> 0]
           d == CreateNicRegistration(v, type, status)
<1>2. PICK e : e = db'
  OBVIOUS
<1>3. /\ DOMAIN db = Tables /\ born \in [Tables -> Nat]
      /\ \A t \in Tables \ Details : DOMAIN db[t] \subseteq 1..born[t]
      /\ Shape(db) /\ RefsHold(db)
  BY DEF DatabaseInv, RowTypes, Shape
<1>4. "registration" \in Tables \ Details /\ Details \subseteq Tables
  BY TablesAre DEF TableNames, Details
<1>5. PICK u \in Details : e = Inserted(d, u, N, DetailRow(N))
  <2>1. e = insertDetail(d, N, type)
    BY <1>1, <1>2 DEF runCreate
  <2> HIDE DEF d, N
  <2>2. \/ e = Inserted(d, "nicOrganization", N, DetailRow(N))
        \/ e = Inserted(d, "nicUser", N, DetailRow(N))
        \/ e = Inserted(d, "nicHost", N, DetailRow(N))
        \/ e = Inserted(d, "nicDomain", N, DetailRow(N))
        \/ e = Inserted(d, "nicNetwork", N, DetailRow(N))
        \/ e = Inserted(d, "nicAsn", N, DetailRow(N))
        \/ e = Inserted(d, "nicDnskey", N, DetailRow(N))
    BY <1>1, <2>1
    DEF insertDetail, Templates, CreateNicRegOrganization, CreateNicRegUser, CreateNicRegHost,
        CreateNicRegDomain, CreateNicRegNetwork, CreateNicRegAsn, CreateNicRegDnskey
  <2> QED BY <2>2, Zenon DEF Details
<1>6. N \notin DOMAIN db["registration"] /\ born["registration"] \in Nat
  BY <1>3, <1>4 DEF NextId
<1>7. FkHolds(db, "registration", row) /\ Needed("registration") \subseteq DOMAIN row
  <2>1. FkHolds(db, "registration", v) /\ DOMAIN v = Columns("registration")
    BY DEF Values
  <2>2. DOMAIN v \subseteq DOMAIN row /\ \A c \in DOMAIN v : row[c] = v[c]
    BY DEF ++
  <2>3. {"status", "push"} \subseteq DOMAIN row
    BY DEF ++
  <2> QED BY <2>1, <2>2, <2>3, NeededColumns, SchemaColumns DEF FkHolds
<1>8. /\ DOMAIN d = Tables
      /\ \A t \in Tables : t # "registration" => d[t] = db[t]
      /\ DOMAIN d["registration"] = DOMAIN db["registration"] \cup {N}
      /\ \A m \in DOMAIN db["registration"] : d["registration"][m] = db["registration"][m]
      /\ d["registration"][N] = row
  BY <1>3, <1>4, <1>6 DEF CreateNicRegistration, Inserted
<1> HIDE DEF d, row
<1>9. /\ DOMAIN e = Tables
      /\ \A t \in Tables : t # u => e[t] = d[t]
      /\ DOMAIN e[u] = DOMAIN db[u] \cup {N}
      /\ \A m \in DOMAIN db[u] : m # N => e[u][m] = db[u][m]
      /\ e[u][N] = DetailRow(N)
      /\ u # "registration"
  BY <1>4, <1>5, <1>8 DEF Inserted
<1>10. ASSUME NEW t \in Tables, NEW n \in DOMAIN e[t]
       PROVE  Needed(t) \subseteq DOMAIN e[t][n] /\ (FkHolds(db, t, e[t][n]) \/ FkHolds(e, t, e[t][n]))
  <2>1. CASE n \in DOMAIN db[t] /\ e[t][n] = db[t][n]
    BY <1>3, <2>1 DEF Shape, RefsHold
  <2>2. CASE t = "registration" /\ e[t][n] = row
    BY <1>7, <2>2
  <2>3. CASE t = u /\ e[t][n] = DetailRow(N)
    <3>1. Columns(u) = {"registration"} /\ Schema[u]["registration"].parent = "registration"
      BY DetailColumns
    <3>2. Needed(u) = Columns(u)
      BY <1>9, NeededColumns DEF Details
    <3>3. N \in DOMAIN e["registration"]
      BY <1>4, <1>8, <1>9
    <3> HIDE DEF N
    <3> QED BY <2>3, <3>1, <3>2, <3>3 DEF FkHolds, DetailRow
  <2> QED BY <1>4, <1>8, <1>9, <2>1, <2>2, <2>3
<1>11. \A t \in Tables : DOMAIN db[t] \subseteq DOMAIN e[t]
  BY <1>8, <1>9
<1>12. born' \in [Tables -> Nat] /\ \A t \in Tables \ Details : DOMAIN e[t] \subseteq 1..born'[t]
  <2>1. /\ born'["registration"] = born["registration"] + 1
        /\ \A t \in Tables : t # "registration" => born'[t] = born[t]
        /\ born' \in [Tables -> Nat]
    BY <1>1, <1>3, <1>4, <1>6 DEF runCreate
  <2>2. DOMAIN e["registration"] \subseteq 1..born'["registration"]
    BY <1>3, <1>4, <1>6, <1>8, <1>9, <2>1 DEF NextId
  <2>3. \A t \in Tables \ Details : t # "registration" => e[t] = db[t]
    BY <1>8, <1>9
  <2> QED BY <1>3, <2>1, <2>2, <2>3
<1>13. DatabaseInv'
  <2>1. \A t \in {"key", "connection", "subnet", "supernet"} : e[t] = db[t]
    BY <1>8, <1>9, SomeTables
  <2>2. strayed \subseteq strayed'
    BY <1>1
  <2> QED BY <1>2, <1>9, <1>10, <1>11, <1>12, <2>1, <2>2, OthersKeep
<1>14. Grown(db, e)
  BY <1>4, <1>8, <1>9, <1>11 DEF Grown
<1> QED BY <1>2, <1>13, <1>14

LEMMA DetachKeeps ==
  ASSUME DatabaseInv, NEW j, DetachIPAddressesFromAsset(j)
  PROVE  DatabaseInv' /\ Grown(db, db')
<1>1. PICK e : e = db'
  OBVIOUS
<1>2. /\ DOMAIN db = Tables /\ born \in [Tables -> Nat]
      /\ \A t \in Tables \ Details : DOMAIN db[t] \subseteq 1..born[t]
      /\ Shape(db) /\ RefsHold(db)
  BY DEF DatabaseInv, RowTypes, Shape
<1>3. e = [db EXCEPT !["address"] = [m \in DOMAIN db["address"] |->
              IF db["address"][m].asset = j.n THEN [db["address"][m] EXCEPT !.asset = NULL]
              ELSE db["address"][m]]]
  BY <1>1 DEF DetachIPAddressesFromAsset
<1>4. UNCHANGED <<born, strayed>>
  BY DEF DetachIPAddressesFromAsset, Goes
<1>5. /\ DOMAIN e = Tables
      /\ \A t \in Tables : t # "address" => e[t] = db[t]
      /\ DOMAIN e["address"] = DOMAIN db["address"]
      /\ \A m \in DOMAIN db["address"] :
            e["address"][m] = db["address"][m] \/ e["address"][m] = [db["address"][m] EXCEPT !.asset = NULL]
  BY <1>2, <1>3, SomeTables
<1>6. ASSUME NEW t \in Tables, NEW n \in DOMAIN e[t]
      PROVE  Needed(t) \subseteq DOMAIN e[t][n] /\ FkHolds(db, t, e[t][n])
  <2>1. n \in DOMAIN db[t]
    BY <1>5
  <2>2. Needed(t) \subseteq DOMAIN db[t][n] /\ FkHolds(db, t, db[t][n])
    BY <1>2, <2>1 DEF Shape, RefsHold
  <2>3. CASE e[t][n] = db[t][n]
    BY <2>2, <2>3
  <2>4. CASE t = "address" /\ e[t][n] = [db[t][n] EXCEPT !.asset = NULL]
    <3>1. DOMAIN e[t][n] = DOMAIN db[t][n]
      BY <2>4
    <3>2. \A c \in DOMAIN db[t][n] : e[t][n][c] = IF c = "asset" THEN NULL ELSE db[t][n][c]
      BY <2>4
    <3>3. Columns("address") \subseteq DOMAIN db[t][n] /\ Schema["address"]["asset"].nullable
      BY <2>2, <2>4, NeededColumns, SchemaColumns DEF Maybe
    <3> QED BY <2>2, <2>4, <3>1, <3>2, <3>3 DEF FkHolds
  <2> QED BY <1>5, <2>1, <2>3, <2>4
<1>7. \A t \in Tables : DOMAIN db[t] = DOMAIN e[t]
  BY <1>5
<1>8. DatabaseInv'
  <2>1. \A t \in {"key", "connection", "subnet", "supernet"} : e[t] = db[t]
    BY <1>5, SomeTables
  <2>2. strayed \subseteq strayed' /\ born' \in [Tables -> Nat]
        /\ \A t \in Tables \ Details : DOMAIN e[t] \subseteq 1..born'[t]
    BY <1>2, <1>4, <1>7
  <2> QED BY <1>1, <1>5, <1>6, <1>7, <2>1, <2>2, OthersKeep
<1>9. Grown(db, e)
  BY <1>5, <1>7, TablesAre DEF Grown, TableNames
<1> QED BY <1>1, <1>8, <1>9

\* The keys of a rotation: ids count up from the highest that was read, so
\* they differ among themselves, and the index compares them with the rest.
LEMMA RotateKeeps ==
  ASSUME InventoryTypes, DatabaseInv, NEW j \in jobs, rotateInsert(j)
  PROVE  DatabaseInv' /\ (Grown(db, db') \/ UNCHANGED db)
<1> DEFINE N == NextId("key")
           M == born["key"] + j.count
           keys == RotatedKeys(j)
           ok == j.n \in Live("chain") /\ \A k \in DOMAIN keys : UniqueHolds("key", keys[k])
<1>1. CASE ~ok
  <2>1. UNCHANGED <<db, born, strayed>>
    BY <1>1 DEF rotateInsert, Refused
  <2>2. DatabaseInv'
    BY <2>1 DEF DatabaseInv, RowTypes, OneClaimEach, SubnetsFollowSupernet, Live
  <2> QED BY <2>1, <2>2
<1>2. CASE ok
  <2>1. PICK e : e = db'
    OBVIOUS
  <2>2. /\ j.next \in Nat /\ j.count \in Nat
        /\ DOMAIN db = Tables /\ born \in [Tables -> Nat]
        /\ \A t \in Tables \ Details : DOMAIN db[t] \subseteq 1..born[t]
        /\ Shape(db) /\ RefsHold(db) /\ ClaimedOnce(db)
        /\ \A n \in DOMAIN db["key"] : db["key"][n].kid \in Nat
    BY <1>2 DEF InventoryTypes, JobOk, rotateInsert, DatabaseInv, RowTypes, Shape, OneClaimEach, Live
  <2>3. "key" \in Tables \ Details /\ born["key"] \in Nat /\ N = born["key"] + 1 /\ M \in Nat
    BY <2>2, SomeTables DEF NextId
  <2>4. /\ e = [db EXCEPT !["key"] = db["key"] ++ keys]
        /\ born' = [born EXCEPT !["key"] = M]
        /\ UNCHANGED strayed
    BY <1>2, <2>1 DEF rotateInsert
  <2>5. /\ DOMAIN keys = N..M
        /\ \A k \in N..M : keys[k] = [chain |-> j.n, kid |-> j.next + (k - N), rev |-> 0]
    BY DEF RotatedKeys
  <2>6. /\ \A n \in DOMAIN db["key"] : n \notin N..M
        /\ DOMAIN db["key"] \subseteq 1..M
        /\ N..M \subseteq 1..M
    BY <2>2, <2>3
  <2>7. \A k \in N..M : \A n \in DOMAIN db["key"] :
            db["key"][n].chain # keys[k].chain \/ db["key"][n].kid # keys[k].kid
    BY <1>2, <2>5 DEF UniqueHolds, UniqueKeys, Live
  <2> HIDE DEF N, M, keys, ok
  <2>8. N \in Int /\ j.next \in Nat /\ \A k \in N..M : keys[k].kid = j.next + (k - N)
    BY <2>2, <2>3, <2>5
  <2>9. ASSUME NEW k \in N..M PROVE keys[k].kid \in Nat
    <3>1. k \in Int /\ N <= k
      BY <2>3, <2>8
    <3> QED BY <2>8, <3>1
  <2>10. ASSUME NEW k \in N..M, NEW m \in N..M, k # m PROVE keys[k].kid # keys[m].kid
    <3>1. k \in Int /\ m \in Int
      BY <2>3, <2>8
    <3> QED BY <2>10, <2>8, <3>1
  <2>11. \A k \in N..M : FkHolds(db, "key", keys[k]) /\ Needed("key") \subseteq DOMAIN keys[k]
    BY <1>2, <2>5, SchemaColumns, NeededColumns DEF ok, FkHolds, One, Live
  <2>12. /\ DOMAIN e = Tables
         /\ \A t \in Tables : t # "key" => e[t] = db[t]
         /\ e["key"] = db["key"] ++ keys
    BY <2>2, <2>3, <2>4
  <2>13. /\ DOMAIN e["key"] = DOMAIN db["key"] \cup (N..M)
         /\ \A n \in DOMAIN db["key"] : e["key"][n] = db["key"][n]
         /\ \A n \in N..M : e["key"][n] = keys[n]
    BY <2>5, <2>6, <2>12 DEF ++
  <2>14. \A t \in Tables : DOMAIN db[t] \subseteq DOMAIN e[t]
    BY <2>12, <2>13
  <2>15. Shape(e) /\ RefsHold(e)
    <3>1. ASSUME NEW t \in Tables, NEW n \in DOMAIN e[t]
          PROVE  Needed(t) \subseteq DOMAIN e[t][n] /\ FkHolds(db, t, e[t][n])
      <4>1. CASE n \in DOMAIN db[t]
        <5>1. e[t][n] = db[t][n]
          BY <2>12, <2>13, <4>1
        <5> QED BY <2>2, <4>1, <5>1 DEF Shape, RefsHold
      <4>2. CASE n \notin DOMAIN db[t]
        <5>1. t = "key" /\ n \in N..M
          BY <2>12, <2>13, <4>2
        <5> QED BY <2>11, <2>13, <5>1
      <4> QED BY <4>1, <4>2
    <3> QED BY <2>2, <2>12, <2>14, <3>1, GrowKeeps
  <2>16. ClaimedOnce(e)
    <3>1. e["connection"] = db["connection"]
      BY <2>12, SomeTables
    <3>2. ASSUME NEW m \in DOMAIN e["key"], NEW n \in DOMAIN e["key"], m # n
          PROVE  e["key"][m].chain # e["key"][n].chain \/ e["key"][m].kid # e["key"][n].kid
      <4>1. CASE m \in DOMAIN db["key"] /\ n \in DOMAIN db["key"]
        BY <2>2, <2>13, <3>2, <4>1 DEF ClaimedOnce
      <4>2. CASE m \in DOMAIN db["key"] /\ n \in N..M
        BY <2>7, <2>13, <4>2
      <4>3. CASE m \in N..M /\ n \in DOMAIN db["key"]
        BY <2>7, <2>13, <4>3
      <4>4. CASE m \in N..M /\ n \in N..M
        BY <2>10, <2>13, <3>2, <4>4
      <4> QED BY <2>13, <4>1, <4>2, <4>3, <4>4
    <3> QED BY <2>2, <3>1, <3>2 DEF ClaimedOnce
  <2>17. \A n \in DOMAIN e["key"] : e["key"][n].kid \in Nat
    BY <2>2, <2>9, <2>13
  <2>18. /\ born' \in [Tables -> Nat]
         /\ \A t \in Tables \ Details : DOMAIN e[t] \subseteq 1..born'[t]
    <3>1. born'["key"] = M /\ \A t \in Tables : t # "key" => born'[t] = born[t]
      BY <2>2, <2>3, <2>4
    <3>2. born' \in [Tables -> Nat]
      BY <2>2, <2>3, <2>4
    <3>3. DOMAIN e["key"] \subseteq 1..M
      BY <2>6, <2>13
    <3> QED BY <2>2, <2>12, <3>1, <3>2, <3>3
  <2>19. \A n \in DOMAIN e["subnet"] \ strayed' : Follows(e, n)
    <3>1. e["subnet"] = db["subnet"] /\ e["supernet"] = db["supernet"]
      BY <2>12, SomeTables
    <3> QED BY <2>4, <3>1 DEF DatabaseInv, SubnetsFollowSupernet, Live, Follows
  <2>20. DatabaseInv'
    BY <2>1, <2>15, <2>16, <2>17, <2>18, <2>19
    DEF DatabaseInv, RowTypes, OneClaimEach, SubnetsFollowSupernet, Live
  <2>21. Grown(db, e)
    BY <2>12, <2>14, TablesAre DEF Grown, TableNames
  <2> QED BY <2>1, <2>20, <2>21
<1> QED BY <1>1, <1>2

-----------------------------------------------------------------------------
(* The invariant is inductive                                               *)

LEMMA StatementKeeps ==
  ASSUME InventoryInv, Statement PROVE DatabaseInv'
<1> USE DEF InventoryInv
<1>1. CASE UNCHANGED <<db, born, strayed>>
  BY <1>1 DEF DatabaseInv, RowTypes, OneClaimEach, SubnetsFollowSupernet, Live
<1>2. CASE \E t, v : Adds(t, v)
  BY <1>2, AddsKeep
<1>3. CASE \E t, n, v : Writes(t, n, v)
  BY <1>3, WritesKeep
<1>4. CASE \E S : Removes(S)
  BY <1>4, RemovesKeep
<1>5. CASE createAsset \/ bulkInsert
  BY <1>5, AssetsKeep
<1>6. CASE create
  BY <1>6, RegistrationsKeep
<1>7. CASE \E j \in jobs : DetachIPAddressesFromAsset(j) \/ rotateInsert(j)
  BY <1>7, DetachKeeps, RotateKeeps
<1> QED BY <1>1, <1>2, <1>3, <1>4, <1>5, <1>6, <1>7 DEF Statement

LEMMA InvInit == ASSUME InventoryInit PROVE InventoryInv
<1>1. DOMAIN db = Tables /\ ReferencesLive(db)
  BY StartAssumption DEF InventoryInit
<1>2. RefsHold(db)
  BY <1>1, RefsHoldIsLive
<1>3. Shape(db)
  BY StartAssumption DEF InventoryInit, Shape
<1>4. ASSUME NEW t \in Tables PROVE Cardinality(DOMAIN Start[t]) \in Nat
  BY <1>4, StartAssumption, FS_CardinalityType
<1>5. born \in [Tables -> Nat]
  BY <1>4 DEF InventoryInit
<1>6. \A t \in Tables \ Details : DOMAIN db[t] \subseteq 1..born[t]
  BY StartAssumption DEF InventoryInit
<1>7. OneClaimEach /\ SubnetsFollowSupernet
  BY StartAssumption DEF InventoryInit, OneClaimEach, SubnetsFollowSupernet, Live
<1>8. \A n \in Live("key") : db["key"][n].kid \in Nat
  BY StartAssumption DEF InventoryInit, Live
<1>9. changes \in 0..MaxChanges /\ jobs = {}
  BY InventoryBoundsAssumption DEF InventoryInit
<1> QED
  BY <1>2, <1>3, <1>5, <1>6, <1>7, <1>8, <1>9
  DEF InventoryInv, InventoryTypes, DatabaseInv, RowTypes

LEMMA InvNext ==
  ASSUME InventoryInv, [InventoryNext]_inventoryVars PROVE InventoryInv'
<1>1. CASE InventoryNext
  <2>1. Step
    BY <1>1, NextIsStep DEF InventoryInv
  <2>2. DatabaseInv'
    BY <2>1, StatementKeeps DEF Step
  <2>3. changes' \in 0..MaxChanges
    BY <2>1, InventoryBoundsAssumption DEF Step, InventoryInv, InventoryTypes
  <2>4. \A j \in jobs' : JobOk(j)
    BY <2>1 DEF Step, InventoryInv, InventoryTypes
  <2> QED BY <2>2, <2>3, <2>4 DEF InventoryInv, InventoryTypes, DatabaseInv
<1>2. CASE UNCHANGED inventoryVars
  BY <1>2
  DEF inventoryVars, InventoryInv, InventoryTypes, DatabaseInv, RowTypes, OneClaimEach,
      SubnetsFollowSupernet, Live
<1> QED BY <1>1, <1>2

LEMMA InventoryAlways == InventorySpec => []InventoryInv
BY InvInit, InvNext, PTL DEF InventorySpec

-----------------------------------------------------------------------------
(* What a step may remove                                                   *)

LEMMA DeletedRows ==
  ASSUME NEW d, NEW S, NEW e, e = Deleted(d, S), NEW t \in Tables
  PROVE  DOMAIN e[t] = {m \in DOMAIN d[t] : <<t, m>> \notin Gone(d, S)}
BY DEF Deleted

\* Every statement but a DELETE leaves the rows where they are.
LEMMA RowsStay ==
  ASSUME InventoryInv, Statement
  PROVE  (\E S : Removes(S)) \/ \A t \in Tables : DOMAIN db[t] \subseteq DOMAIN db'[t]
<1>1. CASE UNCHANGED <<db, born, strayed>>
  BY <1>1
<1>2. ASSUME NEW t, NEW v, Adds(t, v) PROVE \A u \in Tables : DOMAIN db[u] \subseteq DOMAIN db'[u]
  <2>1. PICK e : e = db'
    OBVIOUS
  <2>2. t \in Tables \ Details /\ AddRow(t, v) /\ RowTypes
    BY <1>2 DEF Adds, InventoryInv, DatabaseInv
  <2>3. /\ \A u \in Tables : u # t => e[u] = db[u]
        /\ DOMAIN e[t] = DOMAIN db[t] \cup {NextId(t)}
    BY <2>1, <2>2, AddRowIs
  <2> QED BY <2>1, <2>3
<1>3. ASSUME NEW t, NEW n, NEW v, Writes(t, n, v)
      PROVE  \A u \in Tables : DOMAIN db[u] \subseteq DOMAIN db'[u]
  <2>1. PICK e : e = db'
    OBVIOUS
  <2>2. t \in Tables /\ WriteRow(t, n, v) /\ RowTypes
    BY <1>3 DEF Writes, InventoryInv, DatabaseInv
  <2>3. /\ \A u \in Tables : u # t => e[u] = db[u]
        /\ DOMAIN e[t] = DOMAIN db[t]
    BY <2>1, <2>2, WriteRowIs
  <2> QED BY <2>1, <2>3
<1>4. ASSUME \/ createAsset \/ bulkInsert \/ create
             \/ \E j \in jobs : DetachIPAddressesFromAsset(j) \/ rotateInsert(j)
      PROVE  Grown(db, db') \/ UNCHANGED db
  BY <1>4, AssetsKeep, RegistrationsKeep, DetachKeeps, RotateKeeps DEF InventoryInv
<1> QED BY <1>1, <1>2, <1>3, <1>4 DEF Statement, Grown

LEMMA AtMostOne ==
  ASSUME NEW R, \A x, y \in R : x = y PROVE Cardinality(R) <= 1
<1>1. CASE R = {}
  BY <1>1, FS_EmptySet
<1>2. CASE R # {}
  <2>1. PICK x \in R : TRUE
    BY <1>2
  <2>2. R = {x}
    BY <2>1
  <2>3. Cardinality({x}) = 1
    BY FS_Singleton
  <2> QED BY <2>2, <2>3
<1> QED BY <1>1, <1>2

LEMMA StepRemovesOne ==
  ASSUME InventoryInv, Statement
  PROVE  Cardinality(UNION {{t} \X (DOMAIN db[t] \ DOMAIN db'[t]) : t \in Independent}) <= 1
<1> DEFINE R == UNION {{t} \X (DOMAIN db[t] \ DOMAIN db'[t]) : t \in Independent}
<1>1. Independent \subseteq Tables
  BY TablesAre DEF Independent, TableNames
<1>2. ASSUME NEW x \in R
      PROVE  \E t \in Independent : \E n \in DOMAIN db[t] : x = <<t, n>> /\ n \notin DOMAIN db'[t]
  OBVIOUS
<1> HIDE DEF R
<1>3. ASSUME NEW S, Removes(S), NEW x \in R PROVE x \in S /\ x[1] \in Independent
  <2>0. PICK t \in Independent :
            \E n \in DOMAIN db[t] : x = <<t, n>> /\ n \notin DOMAIN db'[t]
    BY <1>2
  <2>1. PICK n \in DOMAIN db[t] : x = <<t, n>> /\ n \notin DOMAIN db'[t]
    BY <2>0
  <2>2. /\ \A r \in S : r = <<r[1], r[2]>> /\ r[1] \in Tables
        /\ db' = Deleted(db, S)
    BY <1>3 DEF Removes
  <2>3. PICK e : e = db'
    OBVIOUS
  <2>4. DOMAIN e[t] = {m \in DOMAIN db[t] : <<t, m>> \notin Gone(db, S)}
    BY <1>1, <2>2, <2>3, DeletedRows
  <2>5. x \in Gone(db, S)
    BY <2>1, <2>3, <2>4
  <2>6. x[1] = t
    BY <2>1
  <2>7. x \notin Gone(db, S) \ S
    BY <2>2, <2>6, GoneRows
  <2> QED BY <2>5, <2>6, <2>7
<1>4. ASSUME NEW S, Removes(S), NEW x \in R, NEW y \in R PROVE x = y
  <2>1. x \in S /\ y \in S /\ x[1] \in Independent /\ y[1] \in Independent
    BY <1>3, <1>4
  <2> QED BY <1>4, <2>1 DEF Removes
<1>5. ASSUME \A t \in Tables : DOMAIN db[t] \subseteq DOMAIN db'[t] PROVE R = {}
  BY <1>1, <1>2, <1>5
<1>6. \A x, y \in R : x = y
  BY <1>4, <1>5, RowsStay
<1>7. Cardinality(R) <= 1
  BY <1>6, AtMostOne
<1> QED BY <1>7 DEF R

\* A statement leaves the decision on a registration alone.
LEMMA StepKeepsDecisions ==
  ASSUME InventoryInv, Statement, NEW n \in DOMAIN db["registration"],
         db["registration"][n].status \in Decided
  PROVE  /\ n \in DOMAIN db'["registration"]
         /\ db'["registration"][n].status = db["registration"][n].status
         /\ db'["registration"][n].push = db["registration"][n].push
<1>1. PICK e : e = db'
  OBVIOUS
<1>2. "registration" \in Tables \ Details /\ RowTypes /\ Shape(db) /\ RefsHold(db)
  BY TablesAre DEF TableNames, Details, InventoryInv, DatabaseInv, RowTypes
<1>3. CASE UNCHANGED <<db, born, strayed>>
  BY <1>3
<1>4. ASSUME NEW t, NEW v, Adds(t, v)
      PROVE  n \in DOMAIN e["registration"] /\ e["registration"][n] = db["registration"][n]
  <2>1. t \in Tables \ Details /\ t # "registration" /\ AddRow(t, v)
    BY <1>4 DEF Adds
  <2> QED BY <1>1, <1>2, <2>1, AddRowIs
<1>5. ASSUME NEW t, NEW m, NEW v, Writes(t, m, v)
      PROVE  n \in DOMAIN e["registration"] /\ e["registration"][n] = db["registration"][n]
  <2>1. t \in Tables /\ WriteRow(t, m, v) /\ (t = "registration" => m # n)
    BY <1>5 DEF Writes
  <2>2. /\ \A u \in Tables : u # t => e[u] = db[u]
        /\ DOMAIN e[t] = DOMAIN db[t]
        /\ \A k \in DOMAIN db[t] : k # m => e[t][k] = db[t][k]
    BY <1>1, <1>2, <2>1, WriteRowIs
  <2> QED BY <1>2, <2>1, <2>2
<1>6. ASSUME NEW S, Removes(S)
      PROVE  /\ n \in DOMAIN e["registration"]
             /\ e["registration"][n].status = db["registration"][n].status
             /\ e["registration"][n].push = db["registration"][n].push
  <2>1. /\ \A r \in S : r = <<r[1], r[2]>> /\ r[1] \in Tables /\ r[1] # "registration"
        /\ Deletable(db, S) /\ e = Deleted(db, S)
    BY <1>1, <1>6 DEF Removes
  <2>2. DOMAIN e["registration"] =
            {m \in DOMAIN db["registration"] : <<"registration", m>> \notin Gone(db, S)}
    BY <1>2, <2>1, DeletedRows
  <2>3. ASSUME <<"registration", n>> \in Gone(db, S) PROVE FALSE
    <3> DEFINE r == <<"registration", n>>
    <3>1. r[1] = "registration" /\ r \in Gone(db, S)
      BY <2>3
    <3> HIDE DEF r
    <3>2. r \notin S
      BY <2>1, <3>1
    <3> QED BY <2>1, <3>1, <3>2, GoneRows
  <2>4. n \in DOMAIN e["registration"]
    BY <2>2, <2>3
  <2>5. {"status", "push"} \subseteq DOMAIN db["registration"][n]
    BY <1>2, NeededColumns DEF Shape
  <2>6. "status" \notin Columns("registration") /\ "push" \notin Columns("registration")
    BY SchemaColumns
  <2>7. \A c \in DOMAIN db["registration"][n] :
            (c \in Columns("registration") => Schema["registration"][c].onDelete # "setNull")
            => e["registration"][n][c] = db["registration"][n][c]
    BY <1>2, <2>1, <2>4, DeletedKeeps
  <2> QED BY <2>4, <2>5, <2>6, <2>7
<1>7. ASSUME \/ createAsset \/ bulkInsert \/ create
             \/ \E j \in jobs : DetachIPAddressesFromAsset(j) \/ rotateInsert(j)
      PROVE  Grown(db, e) \/ e = db
  BY <1>1, <1>7, AssetsKeep, RegistrationsKeep, DetachKeeps, RotateKeeps DEF InventoryInv
<1>8. ASSUME Grown(db, e) \/ e = db
      PROVE  n \in DOMAIN e["registration"] /\ e["registration"][n] = db["registration"][n]
  BY <1>2, <1>8 DEF Grown
<1> QED BY <1>1, <1>3, <1>4, <1>5, <1>6, <1>7, <1>8 DEF Statement

-----------------------------------------------------------------------------
(* Theorems *)

\* The invariant gives what the runs check.
LEMMA InvGives == InventoryInv => InventoryTypeOK /\ OneClaimEach /\ SubnetsFollowSupernet
<1> SUFFICES ASSUME InventoryInv PROVE InventoryTypeOK /\ OneClaimEach /\ SubnetsFollowSupernet
  OBVIOUS
<1>1. DOMAIN db = Tables /\ RefsHold(db)
  BY DEF InventoryInv, DatabaseInv, RowTypes, Shape
<1>2. ReferencesLive(db)
  BY <1>1, RefsHoldIsLive
<1> QED
  BY <1>2 DEF InventoryInv, InventoryTypes, DatabaseInv, RowTypes, InventoryTypeOK

\* Every reference of every row is NULL where its migration allows it or
\* names a live row, whatever the handlers read before and however their
\* statements interleave with deletes and cascades.
THEOREM ReferencesHold == InventorySpec => []InventoryTypeOK
BY InventoryAlways, InvGives, PTL

\* connect and rotate look before they insert, in an earlier step; still no
\* outlet feeds two consumers and no chain has two keys of one id, because
\* the unique indexes refuse the second.
THEOREM ClaimsAreSingle == InventorySpec => []OneClaimEach
BY InventoryAlways, InvGives, PTL

\* Unless it had not at the start, a PATCH gave it another supernet or it was
\* inserted from a read that a move has made stale, a subnet has the fabric
\* and the VRF of its supernet: moveSupernet refuses to move a supernet that has subnets.
THEOREM SubnetsFollow == InventorySpec => []SubnetsFollowSupernet
BY InventoryAlways, InvGives, PTL

\* No step removes two rows of the tables an operator edits one by one: what
\* ON DELETE CASCADE takes along is never such a row, and no handler deletes
\* several (the bulk deletes are of alerts, connections, records and keys of
\* a catalog).
THEOREM RowsGoSingly == InventorySpec => RowsGoOneByOne
<1>1. ASSUME InventoryInv, InventoryNext
      PROVE  Cardinality(UNION {{t} \X (DOMAIN db[t] \ DOMAIN db'[t]) : t \in Independent}) <= 1
  <2>1. Step
    BY <1>1, NextIsStep DEF InventoryInv
  <2> QED BY <1>1, <2>1, StepRemovesOne DEF Step
<1>2. InventoryInv /\ [InventoryNext]_inventoryVars =>
          [Cardinality(UNION {{t} \X (DOMAIN db[t] \ DOMAIN db'[t]) : t \in Independent}) <= 1]_inventoryVars
  BY <1>1
<1>3. QED
  BY <1>2, InventoryAlways, PTL DEF InventorySpec, RowsGoOneByOne

\* A registration that was approved, rejected or cancelled stays as it was
\* decided: the status is in the WHERE of the statements that decide, nothing
\* else writes it, and no cascade takes the row.
THEOREM DecisionsAreFinal == InventorySpec => DecidedIsFinal
<1> DEFINE A == \A n \in Live("registration") :
                    LET r == db["registration"][n] IN
                    r.status \in Decided =>
                        /\ n \in DOMAIN db'["registration"]
                        /\ db'["registration"][n].status = r.status
                        /\ db'["registration"][n].push = r.push
<1>1. ASSUME InventoryInv, InventoryNext PROVE A
  <2>1. Statement
    BY <1>1, NextIsStep DEF InventoryInv, Step
  <2> QED BY <1>1, <2>1, StepKeepsDecisions DEF Live
<1>2. InventoryInv /\ [InventoryNext]_inventoryVars => [A]_inventoryVars
  BY <1>1
<1>3. DecidedIsFinal <=> [][A]_inventoryVars
  BY DEF DecidedIsFinal
<1> HIDE DEF A
<1>4. QED
  BY <1>2, <1>3, InventoryAlways, PTL DEF InventorySpec
=============================================================================
