--------------------------- MODULE DnsBundleProofs ---------------------------
(***************************************************************************)
(* The tables stay consistent, and an etag never vouches for a directory   *)
(* it does not name, for every number of zones, keys, changes and faults.  *)
(***************************************************************************)
EXTENDS DnsBundle, FiniteSetTheorems, TLAPS

Recs == [view : BOOLEAN, check : BOOLEAN]
Tables ==
    [zones : SUBSET Zones, frozen : SUBSET Zones, signed : BOOLEAN,
     recs : [Zones -> Recs \cup {NONE}],
     view : BOOLEAN, check : {"none", "healthy", "unhealthy"}, catalog : BOOLEAN,
     active : SUBSET (1 .. MaxKeys), retired : SUBSET (1 .. MaxKeys),
     engine : {"coredns", "hickory"}, forwarder : BOOLEAN, blocklist : BOOLEAN]

\* Keys are numbered as they are created, and a rotation leaves one key active.
KeysOk(d) ==
    /\ \E n \in 0 .. MaxKeys : d.active \cup d.retired = 1 .. n
    /\ d.active \cap d.retired = {}
    /\ Cardinality(d.active) <= 2
    /\ d.signed => Child \in d.zones /\ d.active # {}
    /\ ~d.signed => d.active = {} /\ d.retired = {}

RecsOk(d) ==
    \A z \in Zones : d.recs[z] # NONE =>
        /\ z \in d.zones
        /\ d.recs[z].view => d.view
        /\ d.recs[z].check => d.check # "none"

TablesOk(d) ==
    /\ d \in Tables
    /\ d.frozen \subseteq d.zones
    /\ KeysOk(d)
    /\ RecsOk(d)

-----------------------------------------------------------------------------
(* The tables *)

LEMMA KeyCount ==
  ASSUME NEW d \in Tables, KeysOk(d)
  PROVE  /\ Cardinality(d.active \cup d.retired) \in 0 .. MaxKeys
         /\ d.active \cup d.retired = 1 .. Cardinality(d.active \cup d.retired)
         /\ IsFiniteSet(d.active)
<1>1. PICK n \in 0 .. MaxKeys : d.active \cup d.retired = 1 .. n
  BY DEF KeysOk
<1>2. n \in Nat /\ MaxKeys \in Nat
  BY <1>1, BundleBoundsAssumption
<1>3. IsFiniteSet(1 .. n) /\ Cardinality(1 .. n) = n
  BY <1>2, FS_Interval
<1>4. IsFiniteSet(d.active)
  BY <1>1, <1>3, FS_Subset
<1> QED BY <1>1, <1>3, <1>4

LEMMA InitTables == BundleInit => TablesOk(db)
<1> SUFFICES ASSUME BundleInit PROVE TablesOk(db)
  OBVIOUS
<1>1. MaxKeys \in Nat /\ Child \in Zones /\ Apex \in Zones
  BY BundleBoundsAssumption
<1>2. db \in Tables
  BY <1>1 DEF BundleInit, Tables, Recs
<1>3. Cardinality({}) = 0
  BY FS_EmptySet
<1>4. 1 .. 0 = {} /\ 0 \in 0 .. MaxKeys
  BY <1>1
<1>5. KeysOk(db)
  BY <1>3, <1>4 DEF BundleInit, KeysOk
<1>6. RecsOk(db)
  BY <1>1 DEF BundleInit, RecsOk
<1> QED BY <1>2, <1>5, <1>6 DEF TablesOk, BundleInit

\* A change of the fields that no rule relates.
LEMMA PlainChange ==
  ASSUME NEW d, NEW e \in Tables, TablesOk(d),
         e.zones = d.zones, e.frozen \subseteq e.zones, e.signed = d.signed, e.recs = d.recs,
         d.view => e.view, d.check # "none" => e.check # "none",
         e.active = d.active, e.retired = d.retired
  PROVE  TablesOk(e)
BY DEF TablesOk, KeysOk, RecsOk

\* A change of the records.
LEMMA RecordChange ==
  ASSUME NEW d, NEW e \in Tables, TablesOk(d),
         e.zones = d.zones, e.frozen = d.frozen, e.signed = d.signed,
         e.active = d.active, e.retired = d.retired, RecsOk(e)
  PROVE  TablesOk(e)
BY DEF TablesOk, KeysOk
\* Only the handlers' writes below change the tables.
LEMMA ZoneHandlers ==
  ASSUME TablesOk(db), NEW z \in Zones, createZone(z) \/ deleteZone(z) \/ setFrozen(z)
  PROVE  TablesOk(db')
<1>0. db \in Tables /\ KeysOk(db) /\ RecsOk(db) /\ db.frozen \subseteq db.zones
  BY DEF TablesOk
<1>1. CASE createZone(z)
  <2>1. db' = [db EXCEPT !.zones = @ \cup {z}]
    BY <1>1 DEF createZone, Write
  <2>2. /\ db' \in Tables /\ db'.zones = db.zones \cup {z} /\ db'.frozen = db.frozen
        /\ db'.signed = db.signed /\ db'.recs = db.recs /\ db'.view = db.view
        /\ db'.check = db.check /\ db'.active = db.active /\ db'.retired = db.retired
    BY <1>0, <2>1 DEF Tables
  <2> QED BY <1>0, <2>2 DEF TablesOk, KeysOk, RecsOk
<1>2. CASE deleteZone(z)
  <2>1. /\ z \in db.zones /\ db.recs[z] = NONE
        /\ db' = [db EXCEPT !.zones = @ \ {z}, !.frozen = @ \ {z}, !.signed = @ /\ z # Child,
                            !.active = IF z = Child THEN {} ELSE @,
                            !.retired = IF z = Child THEN {} ELSE @]
    BY <1>2 DEF deleteZone, Write
  <2>2. /\ db'.zones = db.zones \ {z} /\ db'.frozen = db.frozen \ {z}
        /\ db'.signed = (db.signed /\ z # Child)
        /\ db'.active = (IF z = Child THEN {} ELSE db.active)
        /\ db'.retired = (IF z = Child THEN {} ELSE db.retired)
        /\ db'.recs = db.recs /\ db'.view = db.view /\ db'.check = db.check
    BY <1>0, <2>1, Zenon DEF Tables
  <2>3. db' \in Tables
    <3> DEFINE d1 == [db EXCEPT !.zones = @ \ {z}]
               d2 == [d1 EXCEPT !.frozen = @ \ {z}]
               d3 == [d2 EXCEPT !.signed = @ /\ z # Child]
               d4 == [d3 EXCEPT !.active = IF z = Child THEN {} ELSE @]
    <3>1. d1 \in Tables
      BY <1>0 DEF Tables
    <3>2. d2 \in Tables
      <4> HIDE DEF d1
      <4> QED BY <3>1 DEF Tables
    <3>3. d3 \in Tables
      <4> HIDE DEF d2
      <4> QED BY <3>2 DEF Tables
    <3>4. d4 \in Tables
      <4> HIDE DEF d3
      <4> QED BY <3>3 DEF Tables
    <3>5. db' = [d4 EXCEPT !.retired = IF z = Child THEN {} ELSE @]
      BY <2>1, Zenon
    <3> HIDE DEF d4
    <3> QED BY <3>4, <3>5 DEF Tables
  <2>4. RecsOk(db')
    BY <1>0, <2>1, <2>2 DEF RecsOk
  <2>5. KeysOk(db')
    <3>1. CASE z = Child
      <4>1. 0 \in 0 .. MaxKeys /\ 1 .. 0 = {} /\ Cardinality({}) = 0
        BY BundleBoundsAssumption, FS_EmptySet
      <4>2. db'.active = {} /\ db'.retired = {} /\ ~db'.signed
        BY <2>2, <3>1
      <4> QED BY <4>1, <4>2 DEF KeysOk
    <3>2. CASE z # Child
      BY <1>0, <2>2, <3>2 DEF KeysOk
    <3> QED BY <3>1, <3>2
  <2> QED BY <1>0, <2>2, <2>3, <2>4, <2>5 DEF TablesOk
<1>3. CASE setFrozen(z)
  <2>1. z \in db.zones /\ db' = [db EXCEPT !.frozen = IF z \in @ THEN @ \ {z} ELSE @ \cup {z}]
    BY <1>3 DEF setFrozen, Write
  <2>2. db' \in Tables /\ db'.frozen \subseteq db.zones
    BY <1>0, <2>1 DEF Tables
  <2>3. /\ db'.zones = db.zones /\ db'.signed = db.signed /\ db'.recs = db.recs
        /\ db'.view = db.view /\ db'.check = db.check /\ db'.active = db.active
        /\ db'.retired = db.retired
    BY <1>0, <2>1 DEF Tables
  <2> QED BY <2>2, <2>3, PlainChange
<1> QED BY <1>1, <1>2, <1>3

LEMMA RecordHandlers ==
  ASSUME TablesOk(db), NEW z \in Zones, createRecord(z) \/ updateRecord(z) \/ deleteRecord(z)
  PROVE  TablesOk(db')
<1>0. db \in Tables /\ RecsOk(db)
  BY DEF TablesOk
<1>1. PICK r \in Recs \cup {NONE} :
        /\ db' = [db EXCEPT !.recs[z] = r]
        /\ r # NONE => z \in db.zones /\ r \in RecordInputs
  <2>1. RecordInputs \subseteq Recs
    BY <1>0 DEF RecordInputs, Recs, Tables
  <2>2. CASE createRecord(z)
    BY <2>1, <2>2 DEF createRecord, Write
  <2>3. CASE updateRecord(z)
    BY <1>0, <2>1, <2>3 DEF updateRecord, Write, RecsOk
  <2>4. CASE deleteRecord(z)
    BY <2>4 DEF deleteRecord, Write
  <2> QED BY <2>2, <2>3, <2>4
<1>2. db' = [db EXCEPT !.recs = [db.recs EXCEPT ![z] = r]]
  BY <1>1, Zenon
<1>3. [db.recs EXCEPT ![z] = r] \in [Zones -> Recs \cup {NONE}]
  BY <1>0, <1>1 DEF Tables
<1>4. /\ db' \in Tables /\ db'.recs = [db.recs EXCEPT ![z] = r]
      /\ db'.zones = db.zones /\ db'.frozen = db.frozen /\ db'.signed = db.signed
      /\ db'.view = db.view /\ db'.check = db.check /\ db'.active = db.active
      /\ db'.retired = db.retired
  <2> DEFINE new == [db.recs EXCEPT ![z] = r]
  <2>1. new \in [Zones -> Recs \cup {NONE}] /\ db' = [db EXCEPT !.recs = new]
    BY <1>2, <1>3
  <2> HIDE DEF new
  <2>2. db' \in Tables /\ db'.recs = new
    BY <1>0, <2>1 DEF Tables
  <2>3. /\ db'.zones = db.zones /\ db'.frozen = db.frozen /\ db'.signed = db.signed
        /\ db'.view = db.view /\ db'.check = db.check /\ db'.active = db.active
        /\ db'.retired = db.retired
    BY <1>0, <2>1 DEF Tables
  <2> QED BY <2>2, <2>3 DEF new
<1>5. RecsOk(db')
  <2> SUFFICES ASSUME NEW y \in Zones, db'.recs[y] # NONE
               PROVE  /\ y \in db'.zones
                      /\ db'.recs[y].view => db'.view
                      /\ db'.recs[y].check => db'.check # "none"
    BY DEF RecsOk
  <2>1. db'.recs[y] = IF y = z THEN r ELSE db.recs[y]
    BY <1>0, <1>4 DEF Tables
  <2>2. CASE y = z
    <3>1. r \in RecordInputs /\ z \in db.zones
      BY <1>1, <2>1, <2>2
    <3>2. (r.view => db.view) /\ (r.check => db.check # "none")
      BY <3>1 DEF RecordInputs
    <3> QED BY <1>4, <2>1, <2>2, <3>1, <3>2
  <2>3. CASE y # z
    BY <1>0, <1>4, <2>1, <2>3 DEF RecsOk
  <2> QED BY <2>2, <2>3
<1> QED BY <1>4, <1>5, RecordChange
LEMMA BindingHandlers ==
  ASSUME TablesOk(db), createView \/ deleteView \/ createHealthCheck \/ deleteHealthCheck
  PROVE  TablesOk(db')
<1>0. db \in Tables /\ RecsOk(db) /\ db.frozen \subseteq db.zones
  BY DEF TablesOk
<1>1. CASE createView
  <2>1. db' = [db EXCEPT !.view = TRUE]
    BY <1>1 DEF createView, Write
  <2>2. db' \in Tables
    BY <1>0, <2>1 DEF Tables
  <2>3. /\ db'.zones = db.zones /\ db'.frozen = db.frozen /\ db'.signed = db.signed
        /\ db'.recs = db.recs /\ db'.check = db.check /\ db'.view
        /\ db'.active = db.active /\ db'.retired = db.retired
    BY <1>0, <2>1 DEF Tables
  <2> QED BY <1>0, <2>2, <2>3, PlainChange
<1>2. CASE createHealthCheck
  <2>1. db' = [db EXCEPT !.check = "healthy"]
    BY <1>2 DEF createHealthCheck, Write
  <2>2. db' \in Tables
    BY <1>0, <2>1 DEF Tables
  <2>3. /\ db'.zones = db.zones /\ db'.frozen = db.frozen /\ db'.signed = db.signed
        /\ db'.recs = db.recs /\ db'.view = db.view /\ db'.check = "healthy"
        /\ db'.active = db.active /\ db'.retired = db.retired
    BY <1>0, <2>1 DEF Tables
  <2> QED BY <1>0, <2>2, <2>3, PlainChange
<1>3. CASE deleteView
  <2> DEFINE new == [z \in Zones |-> IF db.recs[z] = NONE THEN NONE
                                    ELSE [db.recs[z] EXCEPT !.view = FALSE]]
             d1 == [db EXCEPT !.view = FALSE]
  <2>1. \A z \in Zones : db.recs[z] # NONE =>
            /\ [db.recs[z] EXCEPT !.view = FALSE] \in Recs
            /\ ~[db.recs[z] EXCEPT !.view = FALSE].view
            /\ [db.recs[z] EXCEPT !.view = FALSE].check = db.recs[z].check
    BY <1>0 DEF Tables, Recs
  <2>2. new \in [Zones -> Recs \cup {NONE}]
    BY <2>1
  <2>3. \A z \in Zones : new[z] # NONE =>
            db.recs[z] # NONE /\ ~new[z].view /\ new[z].check = db.recs[z].check
    BY <2>1
  <2>4. db' = [d1 EXCEPT !.recs = new]
    BY <1>3, Zenon DEF deleteView, Write
  <2>5. /\ db'.zones = db.zones /\ db'.frozen = db.frozen /\ db'.signed = db.signed
        /\ db'.recs = new /\ db'.check = db.check
        /\ db'.active = db.active /\ db'.retired = db.retired
    <3> HIDE DEF new
    <3> QED BY <1>0, <2>4, Zenon DEF Tables
  <2> HIDE DEF new
  <2>6. db' \in Tables
    <3>1. d1 \in Tables
      BY <1>0 DEF Tables
    <3> HIDE DEF d1
    <3> QED BY <2>2, <2>4, <3>1 DEF Tables
  <2>7. RecsOk(db')
    BY <1>0, <2>3, <2>5 DEF RecsOk
  <2> QED BY <2>5, <2>6, <2>7, RecordChange
<1>4. CASE deleteHealthCheck
  <2> DEFINE new == [z \in Zones |-> IF db.recs[z] = NONE THEN NONE
                                    ELSE [db.recs[z] EXCEPT !.check = FALSE]]
             d1 == [db EXCEPT !.check = "none"]
  <2>1. \A z \in Zones : db.recs[z] # NONE =>
            /\ [db.recs[z] EXCEPT !.check = FALSE] \in Recs
            /\ ~[db.recs[z] EXCEPT !.check = FALSE].check
            /\ [db.recs[z] EXCEPT !.check = FALSE].view = db.recs[z].view
    BY <1>0 DEF Tables, Recs
  <2>2. new \in [Zones -> Recs \cup {NONE}]
    BY <2>1
  <2>3. \A z \in Zones : new[z] # NONE =>
            db.recs[z] # NONE /\ ~new[z].check /\ new[z].view = db.recs[z].view
    BY <2>1
  <2>4. db' = [d1 EXCEPT !.recs = new]
    BY <1>4, Zenon DEF deleteHealthCheck, Write
  <2>5. /\ db'.zones = db.zones /\ db'.frozen = db.frozen /\ db'.signed = db.signed
        /\ db'.recs = new /\ db'.view = db.view
        /\ db'.active = db.active /\ db'.retired = db.retired
    <3> HIDE DEF new
    <3> QED BY <1>0, <2>4, Zenon DEF Tables
  <2> HIDE DEF new
  <2>6. db' \in Tables
    <3>1. d1 \in Tables
      BY <1>0 DEF Tables
    <3> HIDE DEF d1
    <3> QED BY <2>2, <2>4, <3>1 DEF Tables
  <2>7. RecsOk(db')
    BY <1>0, <2>3, <2>5 DEF RecsOk
  <2> QED BY <2>5, <2>6, <2>7, RecordChange
<1> QED BY <1>1, <1>2, <1>3, <1>4

LEMMA PlainHandlers ==
  ASSUME TablesOk(db), postHealthCheckResult \/ CatalogZone \/ Forwarder \/ Blocklist \/ updateFabric
  PROVE  TablesOk(db')
<1>0. db \in Tables /\ db.frozen \subseteq db.zones
  BY DEF TablesOk
<1>1. \/ /\ db.check # "none"
         /\ db' = [db EXCEPT !.check = IF db.check = "healthy" THEN "unhealthy" ELSE "healthy"]
      \/ db' = [db EXCEPT !.catalog = ~db.catalog]
      \/ db' = [db EXCEPT !.forwarder = ~db.forwarder]
      \/ db' = [db EXCEPT !.blocklist = ~db.blocklist]
      \/ db' = [db EXCEPT !.engine = IF db.engine = "coredns" THEN "hickory" ELSE "coredns"]
  BY DEF postHealthCheckResult, CatalogZone, Forwarder, Blocklist, updateFabric, Write
<1>2. db' \in Tables
  BY <1>0, <1>1 DEF Tables
<1>3. /\ db'.zones = db.zones /\ db'.frozen = db.frozen /\ db'.signed = db.signed
      /\ db'.recs = db.recs /\ db'.view = db.view
      /\ (db.check # "none" => db'.check # "none")
      /\ db'.active = db.active /\ db'.retired = db.retired
  BY <1>0, <1>1 DEF Tables
<1> QED BY <1>0, <1>2, <1>3, PlainChange
\* A new key is numbered one more than the keys there are.
LEMMA NewKeyIsNext ==
  ASSUME TablesOk(db), NewKey <= MaxKeys
  PROVE  /\ NewKey \in 1 .. MaxKeys /\ NewKey \notin db.active /\ NewKey \notin db.retired
         /\ db.active \cup db.retired \cup {NewKey} = 1 .. NewKey
         /\ IsFiniteSet(db.active)
<1> DEFINE n == Cardinality(db.active \cup db.retired)
<1>1. n \in 0 .. MaxKeys /\ db.active \cup db.retired = 1 .. n /\ IsFiniteSet(db.active)
  BY KeyCount DEF TablesOk
<1>2. NewKey = n + 1 /\ MaxKeys \in Nat
  BY BundleBoundsAssumption DEF NewKey
<1> HIDE DEF n
<1>3. n \in Nat
  BY <1>1, <1>2
<1>4. (1 .. n) \cup {n + 1} = 1 .. (n + 1) /\ n + 1 \notin 1 .. n
  BY <1>3
<1> QED BY <1>1, <1>2, <1>3, <1>4

LEMMA KeyHandlers ==
  ASSUME TablesOk(db), enableDnssec \/ RotateInsert \/ RotateRetire
  PROVE  TablesOk(db')
<1>0. db \in Tables /\ RecsOk(db) /\ db.frozen \subseteq db.zones /\ KeysOk(db)
  BY DEF TablesOk
<1>1. CASE enableDnssec
  <2> DEFINE d1 == [db EXCEPT !.signed = TRUE]
  <2>1. NewKey <= MaxKeys /\ Child \in db.zones /\ ~db.signed /\ db' = [d1 EXCEPT !.active = {NewKey}]
    BY <1>1 DEF enableDnssec, Write
  <2>2. NewKey \in 1 .. MaxKeys /\ db.active \cup db.retired \cup {NewKey} = 1 .. NewKey
    BY <2>1, NewKeyIsNext
  <2>3. db' \in Tables
    <3>1. d1 \in Tables
      BY <1>0 DEF Tables
    <3> HIDE DEF d1
    <3> QED BY <2>1, <2>2, <3>1 DEF Tables
  <2>4. /\ db'.zones = db.zones /\ db'.frozen = db.frozen /\ db'.signed
        /\ db'.recs = db.recs /\ db'.view = db.view /\ db'.check = db.check
        /\ db'.active = {NewKey} /\ db'.retired = db.retired
    BY <1>0, <2>1, Zenon DEF Tables
  <2>5. db.active = {} /\ db.retired = {}
    BY <1>0, <2>1 DEF KeysOk
  <2>6. Cardinality({NewKey}) = 1
    BY FS_Singleton
  <2>7. NewKey \in 0 .. MaxKeys /\ db'.active \cup db'.retired = 1 .. NewKey
    BY <2>2, <2>4, <2>5
  <2>8. KeysOk(db')
    BY <2>1, <2>4, <2>5, <2>6, <2>7 DEF KeysOk
  <2>9. RecsOk(db')
    BY <1>0, <2>4 DEF RecsOk
  <2> QED BY <1>0, <2>3, <2>4, <2>8, <2>9 DEF TablesOk
<1>2. CASE RotateInsert
  <2>1. /\ db.signed /\ Cardinality(db.active) = 1 /\ NewKey <= MaxKeys
        /\ db' = [db EXCEPT !.active = db.active \cup {NewKey}]
    BY <1>2 DEF RotateInsert, Write
  <2>2. /\ NewKey \in 1 .. MaxKeys /\ NewKey \notin db.active /\ NewKey \notin db.retired
        /\ db.active \cup db.retired \cup {NewKey} = 1 .. NewKey /\ IsFiniteSet(db.active)
    BY <2>1, NewKeyIsNext
  <2>3. Cardinality(db.active \cup {NewKey}) = 2
    <3>1. Cardinality(db.active \cup {NewKey}) = Cardinality(db.active) + 1
      BY <2>2, FS_AddElement
    <3> QED BY <2>1, <3>1
  <2>4. db' \in Tables
    BY <1>0, <2>1, <2>2 DEF Tables
  <2>5. /\ db'.zones = db.zones /\ db'.frozen = db.frozen /\ db'.signed = db.signed
        /\ db'.recs = db.recs /\ db'.view = db.view /\ db'.check = db.check
        /\ db'.active = db.active \cup {NewKey} /\ db'.retired = db.retired
    BY <1>0, <2>1, Zenon DEF Tables
  <2>6. NewKey \in 0 .. MaxKeys /\ db'.active \cup db'.retired = 1 .. NewKey
    BY <2>2, <2>5
  <2>7. db'.active \cap db'.retired = {}
    BY <1>0, <2>2, <2>5 DEF KeysOk
  <2>8. KeysOk(db')
    BY <1>0, <2>1, <2>3, <2>5, <2>6, <2>7 DEF KeysOk
  <2>9. RecsOk(db')
    BY <1>0, <2>5 DEF RecsOk
  <2> QED BY <1>0, <2>4, <2>5, <2>8, <2>9 DEF TablesOk
<1>3. CASE RotateRetire
  <2>1. PICK k \in db.active :
          db' = [db EXCEPT !.active = {k}, !.retired = db.retired \cup (db.active \ {k})]
    BY <1>3 DEF RotateRetire
  <2> DEFINE d1 == [db EXCEPT !.active = {k}]
  <2>2. db' = [d1 EXCEPT !.retired = db.retired \cup (db.active \ {k})]
    BY <2>1, Zenon
  <2>3. db' \in Tables
    <3>1. d1 \in Tables
      BY <1>0 DEF Tables
    <3>2. db.retired \cup (db.active \ {k}) \subseteq 1 .. MaxKeys
      BY <1>0 DEF Tables
    <3> HIDE DEF d1
    <3> QED BY <2>2, <3>1, <3>2 DEF Tables
  <2>4. /\ db'.zones = db.zones /\ db'.frozen = db.frozen /\ db'.signed = db.signed
        /\ db'.recs = db.recs /\ db'.view = db.view /\ db'.check = db.check
        /\ db'.active = {k} /\ db'.retired = db.retired \cup (db.active \ {k})
    BY <1>0, <2>1, Zenon DEF Tables
  <2>5. Cardinality({k}) = 1
    BY FS_Singleton
  <2>6. db'.active \cup db'.retired = db.active \cup db.retired
    BY <2>4
  <2>7. db'.active \cap db'.retired = {} /\ db.signed
    BY <1>0, <2>4 DEF KeysOk
  <2>8. KeysOk(db')
    <3>1. PICK n \in 0 .. MaxKeys : db'.active \cup db'.retired = 1 .. n
      BY <1>0, <2>6 DEF KeysOk
    <3>2. db.signed => Child \in db.zones
      BY <1>0 DEF KeysOk
    <3>3. db'.active # {} /\ Cardinality(db'.active) <= 2 /\ db'.signed
      BY <2>4, <2>5, <2>7
    <3> QED BY <2>4, <2>7, <3>1, <3>2, <3>3 DEF KeysOk
  <2>9. RecsOk(db')
    BY <1>0, <2>4 DEF RecsOk
  <2> QED BY <1>0, <2>3, <2>4, <2>8, <2>9 DEF TablesOk
<1> QED BY <1>1, <1>2, <1>3

\* Everything else leaves the tables alone.
LEMMA HandlersWriteTables ==
  ASSUME TablesOk(db), [BundleNext]_bundleVars
  PROVE  TablesOk(db')
<1>1. CASE HandlerStep \/ RotateRetire
  <2>1. CASE \E z \in Zones : CheckFrozen(z)
    BY <2>1 DEF CheckFrozen
  <2> QED BY <1>1, <2>1, ZoneHandlers, RecordHandlers, BindingHandlers, PlainHandlers, KeyHandlers
          DEF HandlerStep, AuthHandlerStep, RecursiveHandlerStep
<1>2. CASE UNCHANGED bundleVars
  BY <1>2 DEF bundleVars
<1>3. CASE fetchBundle \/ RequestStep \/ ApplyStep \/ WriteFails \/ RemoveFails \/ SignalLost
           \/ FetchFails \/ AgentCrash \/ ResolverCrash \/ ResolverStart
  <2>1. UNCHANGED db
    BY <1>3 DEF fetchBundle, RequestStep, ListDnsRecordsByZoneIDs,
       ListUnhealthyEnabledHealthChecksByFabric, loadCatalogForBundle, loadDnssecArtifacts,
       loadZoneExtraLines, loadSplitHorizonZoneFiles, ListApexZoneNamesByFabric,
       ListDnsForwardersForBundle, ListEnabledBlocklists, Query, ApplyStep, serverCycle,
       WriteConfig, RemoveOther, NextPhase, Enter, syncDir, Done, signalReloads, AgentStep,
       WriteFails, RemoveFails, SignalLost, FetchFails, AgentCrash, ResolverCrash, ResolverStart
  <2> QED BY <2>1
<1> QED BY <1>1, <1>2, <1>3 DEF BundleNext

-----------------------------------------------------------------------------
(* The request *)

AuthPcs == {"records", "health", "catalog", "keys", "extras", "views", "auth"}
RecursivePcs == {"apexes", "forwarders", "blocklists", "recursive"}

\* What the queries have returned so far has the types of the tables.
ReqOk(r) ==
    /\ "pc" \in DOMAIN r
    /\ r.pc \in AuthPcs \cup RecursivePcs \cup {"none"}
    /\ r.pc \in AuthPcs =>
        {"zones", "signed"} \subseteq DOMAIN r /\ r.zones \subseteq Zones /\ r.signed \in BOOLEAN
    /\ r.pc \in {"extras", "views", "auth"} =>
        "keys" \in DOMAIN r /\ r.keys \subseteq 1 .. MaxKeys
    /\ r.pc \in RecursivePcs => "engine" \in DOMAIN r /\ r.engine \in {"coredns", "hickory"}
    /\ r.pc \in RecursivePcs \ {"apexes"} => "apex" \in DOMAIN r /\ r.apex \in BOOLEAN
    /\ r.pc \in {"blocklists", "recursive"} => "forwarder" \in DOMAIN r /\ r.forwarder \in BOOLEAN
    /\ r.pc = "recursive" => "blocklist" \in DOMAIN r /\ r.blocklist \in BOOLEAN

\* Every query adds its column and keeps those before it.
LEMMA RequestStepTypes ==
  ASSUME TablesOk(db), ReqOk(req), RequestStep
  PROVE  ReqOk(req')
<1>0. db \in Tables /\ "pc" \in DOMAIN req
  BY DEF TablesOk, ReqOk
<1>1. CASE ListDnsRecordsByZoneIDs
  <2> DEFINE row == [recs |-> db.recs]
  <2>1. Query("records", "health", row)
    BY <1>1 DEF ListDnsRecordsByZoneIDs
  <2>2. "recs" # "pc" /\ DOMAIN row = {"recs"} /\ row["recs"] = (db.recs)
    OBVIOUS
  <2> HIDE DEF row
  <2>3. /\ req.pc = "records" /\ req'.pc = "health" /\ DOMAIN req' = DOMAIN req \cup {"recs"}
        /\ \A x \in DOMAIN req \ {"recs", "pc"} : req'[x] = req[x]
    BY <1>0, <2>1, <2>2 DEF Query
  <2> QED BY <2>3 DEF ReqOk, AuthPcs, RecursivePcs
<1>2. CASE ListUnhealthyEnabledHealthChecksByFabric
  <2> DEFINE row == [unhealthy |-> db.check = "unhealthy"]
  <2>1. Query("health", "catalog", row)
    BY <1>2 DEF ListUnhealthyEnabledHealthChecksByFabric
  <2>2. "unhealthy" # "pc" /\ DOMAIN row = {"unhealthy"} /\ row["unhealthy"] = (db.check = "unhealthy")
    OBVIOUS
  <2> HIDE DEF row
  <2>3. /\ req.pc = "health" /\ req'.pc = "catalog" /\ DOMAIN req' = DOMAIN req \cup {"unhealthy"}
        /\ \A x \in DOMAIN req \ {"unhealthy", "pc"} : req'[x] = req[x]
    BY <1>0, <2>1, <2>2 DEF Query
  <2> QED BY <2>3 DEF ReqOk, AuthPcs, RecursivePcs
<1>3. CASE loadCatalogForBundle
  <2> DEFINE row == [catalog |-> db.catalog]
  <2>1. Query("catalog", "keys", row)
    BY <1>3 DEF loadCatalogForBundle
  <2>2. "catalog" # "pc" /\ DOMAIN row = {"catalog"} /\ row["catalog"] = (db.catalog)
    OBVIOUS
  <2> HIDE DEF row
  <2>3. /\ req.pc = "catalog" /\ req'.pc = "keys" /\ DOMAIN req' = DOMAIN req \cup {"catalog"}
        /\ \A x \in DOMAIN req \ {"catalog", "pc"} : req'[x] = req[x]
    BY <1>0, <2>1, <2>2 DEF Query
  <2> QED BY <2>3 DEF ReqOk, AuthPcs, RecursivePcs
<1>4. CASE loadDnssecArtifacts
  <2> DEFINE row == [keys |-> db.active \cup db.retired]
  <2>1. Query("keys", "extras", row)
    BY <1>4 DEF loadDnssecArtifacts
  <2>2. "keys" # "pc" /\ DOMAIN row = {"keys"} /\ row["keys"] = (db.active \cup db.retired)
    OBVIOUS
  <2> HIDE DEF row
  <2>3. /\ req.pc = "keys" /\ req'.pc = "extras" /\ DOMAIN req' = DOMAIN req \cup {"keys"}
        /\ \A x \in DOMAIN req \ {"keys", "pc"} : req'[x] = req[x]
    BY <1>0, <2>1, <2>2 DEF Query
  <2>4. req'.keys = (db.active \cup db.retired)
    BY <1>0, <2>1, <2>2 DEF Query
  <2>5. db.active \cup db.retired \subseteq 1 .. MaxKeys
    BY <1>0 DEF Tables
  <2> QED BY <2>3, <2>4, <2>5 DEF ReqOk, AuthPcs, RecursivePcs
<1>5. CASE loadZoneExtraLines
  <2> DEFINE row == [extras |-> db.active]
  <2>1. Query("extras", "views", row)
    BY <1>5 DEF loadZoneExtraLines
  <2>2. "extras" # "pc" /\ DOMAIN row = {"extras"} /\ row["extras"] = (db.active)
    OBVIOUS
  <2> HIDE DEF row
  <2>3. /\ req.pc = "extras" /\ req'.pc = "views" /\ DOMAIN req' = DOMAIN req \cup {"extras"}
        /\ \A x \in DOMAIN req \ {"extras", "pc"} : req'[x] = req[x]
    BY <1>0, <2>1, <2>2 DEF Query
  <2> QED BY <2>3 DEF ReqOk, AuthPcs, RecursivePcs
<1>6. CASE loadSplitHorizonZoneFiles
  <2> DEFINE row == [views |-> db.view]
  <2>1. Query("views", "auth", row)
    BY <1>6 DEF loadSplitHorizonZoneFiles
  <2>2. "views" # "pc" /\ DOMAIN row = {"views"} /\ row["views"] = (db.view)
    OBVIOUS
  <2> HIDE DEF row
  <2>3. /\ req.pc = "views" /\ req'.pc = "auth" /\ DOMAIN req' = DOMAIN req \cup {"views"}
        /\ \A x \in DOMAIN req \ {"views", "pc"} : req'[x] = req[x]
    BY <1>0, <2>1, <2>2 DEF Query
  <2> QED BY <2>3 DEF ReqOk, AuthPcs, RecursivePcs
<1>7. CASE ListApexZoneNamesByFabric
  <2> DEFINE row == [apex |-> Apex \in db.zones]
  <2>1. Query("apexes", "forwarders", row)
    BY <1>7 DEF ListApexZoneNamesByFabric
  <2>2. "apex" # "pc" /\ DOMAIN row = {"apex"} /\ row["apex"] = (Apex \in db.zones)
    OBVIOUS
  <2> HIDE DEF row
  <2>3. /\ req.pc = "apexes" /\ req'.pc = "forwarders" /\ DOMAIN req' = DOMAIN req \cup {"apex"}
        /\ \A x \in DOMAIN req \ {"apex", "pc"} : req'[x] = req[x]
    BY <1>0, <2>1, <2>2 DEF Query
  <2>4. req'.apex = (Apex \in db.zones)
    BY <1>0, <2>1, <2>2 DEF Query
  <2> QED BY <2>3, <2>4 DEF ReqOk, AuthPcs, RecursivePcs
<1>8. CASE ListDnsForwardersForBundle
  <2> DEFINE row == [forwarder |-> db.forwarder]
  <2>1. Query("forwarders", "blocklists", row)
    BY <1>8 DEF ListDnsForwardersForBundle
  <2>2. "forwarder" # "pc" /\ DOMAIN row = {"forwarder"} /\ row["forwarder"] = (db.forwarder)
    OBVIOUS
  <2> HIDE DEF row
  <2>3. /\ req.pc = "forwarders" /\ req'.pc = "blocklists" /\ DOMAIN req' = DOMAIN req \cup {"forwarder"}
        /\ \A x \in DOMAIN req \ {"forwarder", "pc"} : req'[x] = req[x]
    BY <1>0, <2>1, <2>2 DEF Query
  <2>4. req'.forwarder = (db.forwarder)
    BY <1>0, <2>1, <2>2 DEF Query
  <2>5. db.forwarder \in BOOLEAN
    BY <1>0 DEF Tables
  <2> QED BY <2>3, <2>4, <2>5 DEF ReqOk, AuthPcs, RecursivePcs
<1>9. CASE ListEnabledBlocklists
  <2> DEFINE row == [blocklist |-> db.blocklist]
  <2>1. Query("blocklists", "recursive", row)
    BY <1>9 DEF ListEnabledBlocklists
  <2>2. "blocklist" # "pc" /\ DOMAIN row = {"blocklist"} /\ row["blocklist"] = (db.blocklist)
    OBVIOUS
  <2> HIDE DEF row
  <2>3. /\ req.pc = "blocklists" /\ req'.pc = "recursive" /\ DOMAIN req' = DOMAIN req \cup {"blocklist"}
        /\ \A x \in DOMAIN req \ {"blocklist", "pc"} : req'[x] = req[x]
    BY <1>0, <2>1, <2>2 DEF Query
  <2>4. req'.blocklist = (db.blocklist)
    BY <1>0, <2>1, <2>2 DEF Query
  <2>5. db.blocklist \in BOOLEAN
    BY <1>0 DEF Tables
  <2> QED BY <2>3, <2>4, <2>5 DEF ReqOk, AuthPcs, RecursivePcs
<1> QED BY <1>1, <1>2, <1>3, <1>4, <1>5, <1>6, <1>7, <1>8, <1>9 DEF RequestStep

LEMMA FreshRequestTypes ==
  ASSUME TablesOk(db)
  PROVE  ReqOk(NoAnswer) /\ ReqOk(ListDnsZonesByFabric) /\ ReqOk(GetFabricForRecursiveBundle)
<1>1. db \in Tables
  BY DEF TablesOk
<1>2. ReqOk(NoAnswer)
  BY DEF NoAnswer, ReqOk, AuthPcs, RecursivePcs
<1>3. ReqOk(ListDnsZonesByFabric)
  BY <1>1 DEF ListDnsZonesByFabric, ReqOk, AuthPcs, RecursivePcs, Tables
<1>4. ReqOk(GetFabricForRecursiveBundle)
  BY <1>1 DEF GetFabricForRecursiveBundle, ReqOk, AuthPcs, RecursivePcs, Tables
<1> QED BY <1>2, <1>3, <1>4

IsFn(f) == f = [x \in DOMAIN f |-> f[x]]

\* A rendered bundle names a configuration that a resolver can load.
WellFormed(b) ==
    /\ b = [config |-> b.config, files |-> b.files, keys |-> b.keys]
    /\ b.config \in Configs
    /\ IsFn(b.files)

LEMMA AnswersWellFormed ==
  ASSUME ReqOk(req), req.pc \in {"auth", "recursive"}, NEW b \in Answers
  PROVE  WellFormed(b)
<1>1. CASE req.pc = "auth"
  <2>1. req.zones \subseteq Zones /\ req.signed \in BOOLEAN /\ req.keys \subseteq 1 .. MaxKeys
    BY <1>1 DEF ReqOk, AuthPcs
  <2>2. b = AssembleAuthBundle(req)
    BY <1>1 DEF Answers
  <2>3. SigningKeys(req) \subseteq 1 .. MaxKeys
    BY <2>1 DEF SigningKeys
  <2>4. RenderCorefileAuth(req) \in Configs
    <3> DEFINE names == {<<z, "default">> : z \in req.zones}
                        \cup {<<z, "view">> : z \in SplitZones(req)}
                        \cup (IF req.catalog THEN {<<"catalog", "default">>} ELSE {})
    <3>1. SplitZones(req) \subseteq Zones
      BY <2>1 DEF SplitZones
    <3>2. names \subseteq (Zones \cup {"catalog", "rpz"}) \X {"default", "view"}
      BY <2>1, <3>1
    <3> HIDE DEF names
    <3>3. [engine |-> "coredns", names |-> names, keys |-> SigningKeys(req), text |-> NONE]
          \in Configs
      BY <2>3, <3>2 DEF Configs
    <3> QED BY <3>3 DEF RenderCorefileAuth, names
  <2>5. IsFn(AuthFiles(req))
    BY DEF AuthFiles, IsFn
  <2> QED BY <2>2, <2>4, <2>5 DEF AssembleAuthBundle, WellFormed
<1>2. CASE req.pc = "recursive"
  <2>1. /\ req.engine \in {"coredns", "hickory"} /\ req.apex \in BOOLEAN
        /\ req.forwarder \in BOOLEAN /\ req.blocklist \in BOOLEAN
    BY <1>2 DEF ReqOk, RecursivePcs
  <2>2. PICK s \in {0, 1} : b = AssembleRecursiveBundle(req, s)
    BY <1>2 DEF Answers
  <2>3. Rpz(req) \subseteq (Zones \cup {"catalog", "rpz"}) \X {"default", "view"}
    BY DEF Rpz
  <2>4. RenderHickoryRecursiveConfig(req) \in Configs
    BY <2>1, <2>3 DEF RenderHickoryRecursiveConfig, Configs
  <2>5. RenderCorefileRecursive(req) \in Configs
    BY <2>1 DEF RenderCorefileRecursive, Configs
  <2>6. IsFn([f \in Rpz(req) |-> [stamp |-> s]])
    BY DEF IsFn
  <2> QED BY <2>2, <2>4, <2>5, <2>6 DEF AssembleRecursiveBundle, WellFormed
<1> QED BY <1>1, <1>2

-----------------------------------------------------------------------------
(* The agent and its directory *)

Syncing == {"prune", "files", "prunekeys", "keys", "reload"}
Applying == {"config", "other"} \cup Syncing

SiteTypes ==
    /\ DOMAIN agent = {"pc", "bundle", "todo", "last"}
    /\ agent.pc \in {"idle", "fetch"} \cup Applying
    /\ DOMAIN disk = {"coredns", "hickory", "files", "keys"}
    /\ IsFn(disk.files)
    /\ torn \in BOOLEAN

\* What has been written of bundle b when the agent is in a phase with todo left.
ConfigDone(d, b) ==
    d[b.config.engine] = b.config /\ d[OtherEngine(b.config.engine)] = NONE
ZonesPruned(d, b, todo) == DOMAIN d.files \ DOMAIN b.files \subseteq todo
ZonesWritten(d, b, todo) ==
    /\ DOMAIN d.files \subseteq DOMAIN b.files
    /\ todo \subseteq DOMAIN b.files
    /\ \A f \in DOMAIN b.files \ todo : f \in DOMAIN d.files /\ d.files[f] = b.files[f]
KeysPruned(d, b, todo) == d.keys \ b.keys \subseteq todo
KeysWritten(d, b, todo) ==
    /\ d.keys \subseteq b.keys
    /\ todo \subseteq b.keys
    /\ b.keys \ todo \subseteq d.keys

\* How far the bundle under way has been written, if nothing failed.
Written(d, pc, b, todo) ==
    /\ pc = "other" => d[b.config.engine] = b.config
    /\ pc \in Syncing => ConfigDone(d, b)
    /\ pc = "prune" => ZonesPruned(d, b, todo)
    /\ pc = "files" => ZonesWritten(d, b, todo)
    /\ pc \in {"prunekeys", "keys", "reload"} => d.files = b.files
    /\ pc = "prunekeys" => KeysPruned(d, b, todo)
    /\ pc = "keys" => KeysWritten(d, b, todo)
    /\ pc = "reload" => d.keys = b.keys

Progress ==
    agent.pc \in Applying =>
        /\ WellFormed(agent.bundle)
        /\ ~torn => Written(disk, agent.pc, agent.bundle, agent.todo)

SiteInv == SiteTypes /\ Progress /\ EtagVouchesForDisk

BundleInv == TablesOk(db) /\ ReqOk(req) /\ SiteInv

\* What a resolver loads depends on what is on disk only.
LEMMA CompleteBundleLoads ==
  ASSUME SiteTypes, Progress, agent.pc = "reload", ~torn
  PROVE  Loaded(disk) = agent.bundle
<1> DEFINE b == agent.bundle
           e == b.config.engine
<1>1. WellFormed(b) /\ disk[e] = b.config /\ disk[OtherEngine(e)] = NONE
      /\ disk.files = b.files /\ disk.keys = b.keys
  BY DEF Progress, Written, ConfigDone, Applying, Syncing
<1>2. b.config # NONE /\ e \in {"coredns", "hickory"}
  BY <1>1, NoneAssumption DEF WellFormed, Configs
<1>3. b = [config |-> b.config, files |-> b.files, keys |-> b.keys]
  BY <1>1 DEF WellFormed
<1> HIDE DEF b
<1>4. CASE e = "coredns"
  <2>1. disk.hickory = NONE /\ disk.coredns = b.config
    BY <1>1, <1>4 DEF OtherEngine
  <2> QED BY <1>1, <1>2, <1>3, <2>1 DEF Loaded, b
<1>5. CASE e = "hickory"
  <2>1. disk.hickory = b.config
    BY <1>1, <1>5
  <2> QED BY <1>1, <1>2, <1>3, <2>1 DEF Loaded, b
<1> QED BY <1>2, <1>4, <1>5

LEMMA InitSite == BundleInit => SiteInv
<1> SUFFICES ASSUME BundleInit PROVE SiteInv
  OBVIOUS
<1>1. IsFn(<< >>)
  BY DEF IsFn
<1>2. /\ agent = [pc |-> "idle", bundle |-> NONE, todo |-> {}, last |-> NONE]
      /\ disk = [coredns |-> NONE, hickory |-> NONE, files |-> <<>>, keys |-> {}]
  BY DEF BundleInit, Started, EmptyDisk
<1>3. torn \in BOOLEAN
  BY DEF BundleInit
<1>4. SiteTypes
  BY <1>1, <1>2, <1>3 DEF SiteTypes
<1> QED BY <1>2, <1>4 DEF SiteInv, Progress, EtagVouchesForDisk, Applying, Syncing

\* Steps that leave the agent, the directory and the mark of a failed write alone.
LEMMA SiteUntouched ==
  ASSUME SiteInv, UNCHANGED <<agent, disk, torn>>
  PROVE  SiteInv'
BY DEF SiteInv, SiteTypes, Progress, EtagVouchesForDisk, Polling, Loaded, Written, ConfigDone,
   ZonesPruned, ZonesWritten, KeysPruned, KeysWritten

LEMMA PollKeeps ==
  ASSUME ReqOk(req), SiteInv, fetchBundle \/ serverCycle \/ FetchFails
  PROVE  SiteInv'
<1>0. SiteTypes /\ Progress /\ EtagVouchesForDisk
  BY DEF SiteInv
<1>1. UNCHANGED disk
  BY DEF fetchBundle, serverCycle, FetchFails, AgentStep
<1>2. Polling
  BY DEF fetchBundle, serverCycle, FetchFails, Polling
<1>3. \/ /\ agent'.pc \in {"idle", "fetch"} /\ agent'.last = agent.last
         /\ DOMAIN agent' = DOMAIN agent /\ torn' = torn
      \/ /\ agent'.pc = "config" /\ WellFormed(agent'.bundle)
         /\ DOMAIN agent' = DOMAIN agent /\ torn' = FALSE
  <2>1. CASE fetchBundle
    <3>1. agent' = [agent EXCEPT !.pc = "fetch"] /\ torn' = torn
      BY <2>1 DEF fetchBundle, AgentStep
    <3> QED BY <1>0, <3>1 DEF SiteTypes
  <2>2. CASE FetchFails
    <3>1. agent' = [agent EXCEPT !.pc = "idle"] /\ torn' = torn
      BY <2>2 DEF FetchFails
    <3> QED BY <1>0, <3>1 DEF SiteTypes
  <2>3. CASE serverCycle
    <3>1. PICK b \in Answers :
            IF b = agent.last
            THEN agent' = [agent EXCEPT !.pc = "idle"] /\ torn' = torn
            ELSE agent' = [agent EXCEPT !.pc = "config", !.bundle = b] /\ torn' = FALSE
      BY <2>3 DEF serverCycle, AgentStep
    <3>2. WellFormed(b)
      BY <2>3, AnswersWellFormed DEF serverCycle
    <3>3. CASE b = agent.last
      BY <1>0, <3>1, <3>3 DEF SiteTypes
    <3>4. CASE b # agent.last
      <4>1. agent' = [agent EXCEPT !.pc = "config", !.bundle = b] /\ torn' = FALSE
        BY <3>1, <3>4
      <4>2. agent'.pc = "config" /\ agent'.bundle = b /\ DOMAIN agent' = DOMAIN agent
        BY <1>0, <4>1, Zenon DEF SiteTypes
      <4> QED BY <3>2, <4>1, <4>2
    <3> QED BY <3>3, <3>4
  <2> QED BY <2>1, <2>2, <2>3
<1>4. SiteTypes'
  BY <1>0, <1>1, <1>3 DEF SiteTypes, Applying
<1>5. Progress'
  BY <1>3 DEF Progress, Applying, Syncing, Written
<1>6. EtagVouchesForDisk'
  BY <1>0, <1>1, <1>2, <1>3 DEF EtagVouchesForDisk, Polling, Loaded
<1> QED BY <1>4, <1>5, <1>6 DEF SiteInv

\* A cycle that stops, and a removal that fails: nothing is promised any more.
LEMMA StopKeeps ==
  ASSUME SiteInv, WriteFails \/ AgentCrash
  PROVE  SiteInv'
<1>0. SiteTypes
  BY DEF SiteInv
<1>1. UNCHANGED disk
  BY DEF WriteFails, AgentCrash
<1>2. /\ agent'.pc = "idle" /\ DOMAIN agent' = {"pc", "bundle", "todo", "last"}
      /\ (agent'.last = NONE /\ torn' = torn) \/ torn' = TRUE
  BY DEF WriteFails, AgentCrash, Started
<1>3. SiteTypes'
  BY <1>0, <1>1, <1>2 DEF SiteTypes
<1>4. Progress'
  BY <1>2 DEF Progress, Applying, Syncing
<1>5. EtagVouchesForDisk'
  BY <1>2 DEF EtagVouchesForDisk
<1> QED BY <1>3, <1>4, <1>5 DEF SiteInv

LEMMA RemoveFailsKeeps ==
  ASSUME SiteInv, RemoveFails
  PROVE  SiteInv'
<1>0. SiteTypes /\ Progress
  BY DEF SiteInv
<1>1. agent.pc \in {"other", "prune", "prunekeys"} /\ UNCHANGED disk /\ torn' = TRUE
  BY DEF RemoveFails
<1>2. agent'.pc \in Syncing /\ agent'.bundle = agent.bundle /\ DOMAIN agent' = DOMAIN agent
  <2>1. CASE agent' = [agent EXCEPT !.pc = "prune", !.todo = Work("prune")]
    BY <1>0, <2>1 DEF SiteTypes, Syncing
  <2>2. CASE /\ agent.pc \in {"prune", "prunekeys"}
             /\ \E left \in (SUBSET agent.todo) \ {{}} :
                    agent' = [agent EXCEPT !.todo = agent.todo \ left]
    BY <1>0, <2>2 DEF SiteTypes, Syncing
  <2> QED BY <2>1, <2>2 DEF RemoveFails
<1>3. WellFormed(agent.bundle)
  BY <1>0, <1>1 DEF Progress, Applying, Syncing
<1>4. SiteTypes'
  BY <1>0, <1>1, <1>2 DEF SiteTypes, Applying
<1>5. Progress'
  BY <1>1, <1>2, <1>3 DEF Progress
<1>6. EtagVouchesForDisk'
  BY <1>1 DEF EtagVouchesForDisk
<1> QED BY <1>4, <1>5, <1>6 DEF SiteInv

\* The writes of one apply, under names that hide how the agent steps.
Moves(pc, todo) ==
    /\ agent'.pc = pc /\ agent'.todo = todo /\ agent'.bundle = agent.bundle
    /\ DOMAIN agent' = DOMAIN agent /\ torn' = torn

LEMMA EnterMoves ==
  ASSUME SiteTypes, NEW pc, Enter(pc), torn' = torn
  PROVE  Moves(pc, Work(pc))
<1> DEFINE w == Work(pc)
<1>1. agent' = [agent EXCEPT !.pc = pc, !.todo = w]
  BY DEF Enter, AgentStep
<1> HIDE DEF w
<1>2. Moves(pc, w)
  BY <1>1, Zenon DEF SiteTypes, Moves
<1> QED BY <1>2 DEF w

\* A step of an apply keeps the site's invariant if what it claims is written.
LEMMA ApplyKeeps ==
  ASSUME SiteInv, agent.pc \in Applying,
         NEW pc \in {"other"} \cup Syncing, NEW todo, Moves(pc, todo),
         DOMAIN disk' = DOMAIN disk, IsFn(disk'.files),
         ~torn => Written(disk', pc, agent.bundle, todo)
  PROVE  SiteInv'
<1>0. SiteTypes /\ Progress
  BY DEF SiteInv
<1>1. SiteTypes'
  BY <1>0 DEF SiteTypes, Moves, Applying
<1>2. WellFormed(agent.bundle)
  BY <1>0 DEF Progress
<1>3. /\ agent'.pc = pc /\ agent'.todo = todo /\ agent'.bundle = agent.bundle
      /\ torn' = torn
  BY DEF Moves
<1>4. Progress'
  BY <1>2, <1>3 DEF Progress
<1>5. EtagVouchesForDisk'
  BY <1>3 DEF EtagVouchesForDisk, Polling, Syncing
<1> QED BY <1>1, <1>4, <1>5 DEF SiteInv

LEMMA ConfigKeeps ==
  ASSUME SiteInv, WriteConfig \/ RemoveOther
  PROVE  SiteInv'
<1>0. SiteTypes /\ Progress
  BY DEF SiteInv
<1> DEFINE b == agent.bundle
           e == b.config.engine
<1>1. CASE WriteConfig
  <2>1. /\ agent.pc = "config" /\ disk' = [disk EXCEPT ![e] = b.config]
        /\ agent' = [agent EXCEPT !.pc = "other"] /\ torn' = torn
    BY <1>1 DEF WriteConfig, AgentStep
  <2>2. agent.pc \in Applying /\ WellFormed(b) /\ e \in {"coredns", "hickory"}
    BY <1>0, <2>1 DEF Progress, Applying, WellFormed, Configs
  <2>3. Moves("other", agent.todo)
    BY <1>0, <2>1, Zenon DEF SiteTypes, Moves
  <2>4. disk'[e] = b.config /\ disk'.files = disk.files /\ DOMAIN disk' = DOMAIN disk
    BY <1>0, <2>1, <2>2 DEF SiteTypes
  <2>5. IsFn(disk'.files)
    BY <1>0, <2>4 DEF SiteTypes
  <2>6. Written(disk', "other", b, agent.todo)
    BY <2>4 DEF Written, Syncing
  <2> QED BY <2>2, <2>3, <2>4, <2>5, <2>6, ApplyKeeps
<1>2. CASE RemoveOther
  <2>1. /\ agent.pc = "other" /\ disk' = [disk EXCEPT ![OtherEngine(e)] = NONE]
        /\ Enter("prune") /\ torn' = torn
    BY <1>2 DEF RemoveOther
  <2>2. /\ agent.pc \in Applying /\ WellFormed(b) /\ e \in {"coredns", "hickory"}
        /\ ~torn => disk[e] = b.config
    BY <1>0, <2>1 DEF Progress, Applying, WellFormed, Configs, Written
  <2>3. OtherEngine(e) \in {"coredns", "hickory"} /\ OtherEngine(e) # e
    BY <2>2 DEF OtherEngine
  <2>4. /\ disk'[e] = disk[e] /\ disk'[OtherEngine(e)] = NONE
        /\ disk'.files = disk.files /\ DOMAIN disk' = DOMAIN disk
    BY <1>0, <2>1, <2>2, <2>3 DEF SiteTypes
  <2>5. Moves("prune", Work("prune")) /\ IsFn(disk'.files)
    BY <1>0, <2>1, <2>4, EnterMoves DEF SiteTypes
  <2>6. Work("prune") = DOMAIN disk.files \ DOMAIN b.files
    BY DEF Work
  <2>7. ~torn => Written(disk', "prune", b, Work("prune"))
    BY <2>2, <2>4, <2>6 DEF Written, ConfigDone, ZonesPruned
  <2> QED BY <2>2, <2>4, <2>5, <2>7, ApplyKeeps DEF Syncing
<1> QED BY <1>1, <1>2

\* When nothing is left to do in a phase, the next one starts from there.
LEMMA NextPhaseKeeps ==
  ASSUME SiteInv, NextPhase
  PROVE  SiteInv'
<1> DEFINE b == agent.bundle
<1>0. SiteTypes /\ Progress
  BY DEF SiteInv
<1>1. agent.todo = {} /\ disk' = disk /\ torn' = torn /\ agent.pc \in Syncing
  BY DEF NextPhase, Syncing
<1>2. /\ agent.pc \in Applying /\ WellFormed(b) /\ IsFn(disk'.files)
      /\ DOMAIN disk' = DOMAIN disk
      /\ ~torn => Written(disk, agent.pc, b, {})
  BY <1>0, <1>1 DEF Progress, Applying, SiteTypes
<1>3. ASSUME agent.pc = "prune", Enter("files") PROVE SiteInv'
  <2>1. Work("files") = DOMAIN b.files
    BY DEF Work
  <2>2. ~torn => Written(disk', "files", b, Work("files"))
    BY <1>1, <1>2, <1>3, <2>1 DEF Written, Syncing, ZonesPruned, ZonesWritten, ConfigDone
  <2> QED BY <1>0, <1>1, <1>2, <1>3, <2>2, EnterMoves, ApplyKeeps DEF Syncing
<1>4. ASSUME agent.pc = "files", Enter("prunekeys") PROVE SiteInv'
  <2>1. Work("prunekeys") = disk.keys \ b.keys
    BY DEF Work
  <2>2. ~torn => disk.files = b.files
    BY <1>0, <1>2, <1>4 DEF Written, ZonesWritten, SiteTypes, WellFormed, IsFn
  <2>3. ~torn => Written(disk', "prunekeys", b, Work("prunekeys"))
    BY <1>1, <1>2, <1>4, <2>1, <2>2 DEF Written, Syncing, KeysPruned, ConfigDone
  <2> QED BY <1>0, <1>1, <1>2, <1>4, <2>3, EnterMoves, ApplyKeeps DEF Syncing
<1>5. ASSUME agent.pc = "prunekeys", Enter("keys") PROVE SiteInv'
  <2>1. Work("keys") = b.keys
    BY DEF Work
  <2>2. ~torn => Written(disk', "keys", b, Work("keys"))
    BY <1>1, <1>2, <1>5, <2>1 DEF Written, Syncing, KeysPruned, KeysWritten, ConfigDone
  <2> QED BY <1>0, <1>1, <1>2, <1>5, <2>2, EnterMoves, ApplyKeeps DEF Syncing
<1>6. ASSUME agent.pc = "keys", Enter("reload") PROVE SiteInv'
  <2>1. ~torn => Written(disk', "reload", b, Work("reload"))
    BY <1>1, <1>2, <1>6 DEF Written, Syncing, KeysWritten, ConfigDone
  <2> QED BY <1>0, <1>1, <1>2, <1>6, <2>1, EnterMoves, ApplyKeeps DEF Syncing
<1> QED BY <1>3, <1>4, <1>5, <1>6 DEF NextPhase

\* One file or key removed or written.
LEMMA SyncKeeps ==
  ASSUME SiteInv, syncDir
  PROVE  SiteInv'
<1> DEFINE b == agent.bundle
           e == b.config.engine
<1>0. SiteTypes /\ Progress
  BY DEF SiteInv
<1>1. PICK f \in agent.todo :
        /\ Done(f)
        /\ \/ agent.pc = "prune" /\ disk' = PruneZone(f)
           \/ agent.pc = "files" /\ disk' = WriteZone(f)
           \/ agent.pc = "prunekeys" /\ disk' = PruneKey(f)
           \/ agent.pc = "keys" /\ disk' = WriteKey(f)
  BY DEF syncDir
<1> DEFINE left == agent.todo \ {f}
<1>2. torn' = torn /\ agent' = [agent EXCEPT !.todo = left]
  BY <1>1 DEF syncDir, Done, AgentStep
<1>3. agent.pc \in Syncing
  BY <1>1 DEF Syncing
<1>4. /\ agent.pc \in Applying /\ WellFormed(b) /\ e \in {"coredns", "hickory"}
      /\ OtherEngine(e) \in {"coredns", "hickory"}
      /\ ~torn => Written(disk, agent.pc, b, agent.todo)
  BY <1>0, <1>3 DEF Progress, Applying, WellFormed, Configs, OtherEngine
<1> HIDE DEF left
<1>5. Moves(agent.pc, left)
  BY <1>0, <1>2, Zenon DEF SiteTypes, Moves
<1> USE DEF left
<1>6. CASE agent.pc = "prune" /\ disk' = PruneZone(f)
  <2> DEFINE kept == Restrict(disk.files, DOMAIN disk.files \ {f})
  <2>1. IsFn(kept) /\ DOMAIN kept = DOMAIN disk.files \ {f} /\ disk' = [disk EXCEPT !.files = kept]
    BY <1>6 DEF PruneZone, Restrict, IsFn
  <2> HIDE DEF kept
  <2>2. /\ disk'[e] = disk[e] /\ disk'[OtherEngine(e)] = disk[OtherEngine(e)]
        /\ disk'.files = kept /\ DOMAIN disk' = DOMAIN disk
    BY <1>0, <1>4, <2>1 DEF SiteTypes
  <2>3. ~torn => Written(disk', "prune", b, left)
    BY <1>4, <1>6, <2>1, <2>2 DEF Written, Syncing, ConfigDone, ZonesPruned
  <2> QED BY <1>4, <1>5, <1>6, <2>1, <2>2, <2>3, ApplyKeeps DEF Syncing
<1>7. CASE agent.pc = "files" /\ disk' = WriteZone(f)
  <2> DEFINE new == [g \in DOMAIN disk.files \cup {f} |->
                         IF g = f THEN b.files[f] ELSE disk.files[g]]
  <2>1. /\ IsFn(new) /\ DOMAIN new = DOMAIN disk.files \cup {f}
        /\ \A g \in DOMAIN new : new[g] = IF g = f THEN b.files[f] ELSE disk.files[g]
        /\ disk' = [disk EXCEPT !.files = new]
    BY <1>7 DEF WriteZone, IsFn
  <2> HIDE DEF new
  <2>2. /\ disk'[e] = disk[e] /\ disk'[OtherEngine(e)] = disk[OtherEngine(e)]
        /\ disk'.files = new /\ DOMAIN disk' = DOMAIN disk
    BY <1>0, <1>4, <2>1 DEF SiteTypes
  <2>3. ~torn => ZonesWritten(disk', b, left)
    BY <1>1, <1>4, <1>7, <2>1, <2>2 DEF Written, ZonesWritten
  <2>4. ~torn => Written(disk', "files", b, left)
    BY <1>4, <1>7, <2>2, <2>3 DEF Written, Syncing, ConfigDone
  <2> QED BY <1>4, <1>5, <1>7, <2>1, <2>2, <2>4, ApplyKeeps DEF Syncing
<1>8. CASE \/ agent.pc = "prunekeys" /\ disk' = PruneKey(f)
           \/ agent.pc = "keys" /\ disk' = WriteKey(f)
  <2> DEFINE new == IF agent.pc = "keys" THEN disk.keys \cup {f} ELSE disk.keys \ {f}
  <2>1. disk' = [disk EXCEPT !.keys = new]
    BY <1>8 DEF PruneKey, WriteKey
  <2> HIDE DEF new
  <2>2. /\ disk'[e] = disk[e] /\ disk'[OtherEngine(e)] = disk[OtherEngine(e)]
        /\ disk'.files = disk.files /\ disk'.keys = new /\ DOMAIN disk' = DOMAIN disk
    BY <1>0, <1>4, <2>1 DEF SiteTypes
  <2>3. IsFn(disk'.files)
    BY <1>0, <2>2 DEF SiteTypes
  <2>4. ~torn => Written(disk', agent.pc, b, left)
    BY <1>1, <1>4, <1>8, <2>2 DEF Written, Syncing, ConfigDone, KeysPruned, KeysWritten, new
  <2> QED BY <1>3, <1>4, <1>5, <2>2, <2>3, <2>4, ApplyKeeps
<1> QED BY <1>1, <1>6, <1>7, <1>8

\* The signal, received or not, ends the apply: the directory is the bundle.
LEMMA ReloadKeeps ==
  ASSUME SiteInv, signalReloads \/ SignalLost
  PROVE  SiteInv'
<1>0. SiteTypes /\ Progress
  BY DEF SiteInv
<1>1. /\ agent.pc = "reload" /\ UNCHANGED <<disk, torn>>
      /\ agent' = [Started EXCEPT !.last = agent.bundle]
  BY DEF signalReloads, SignalLost, Applied
<1>2. ~torn => Loaded(disk) = agent.bundle
  BY <1>0, <1>1, CompleteBundleLoads
<1>3. /\ agent'.pc = "idle" /\ agent'.last = agent.bundle
      /\ DOMAIN agent' = {"pc", "bundle", "todo", "last"}
  BY <1>1 DEF Started
<1>4. SiteTypes'
  BY <1>0, <1>1, <1>3 DEF SiteTypes
<1>5. Progress'
  BY <1>3 DEF Progress, Applying, Syncing
<1>6. Loaded(disk)' = Loaded(disk)
  BY <1>1 DEF Loaded
<1>7. EtagVouchesForDisk'
  BY <1>1, <1>2, <1>3, <1>6 DEF EtagVouchesForDisk
<1> QED BY <1>4, <1>5, <1>7 DEF SiteInv

-----------------------------------------------------------------------------
(* The invariant *)

LEMMA StepBundleInv == BundleInv /\ [BundleNext]_bundleVars => BundleInv'
<1> SUFFICES ASSUME BundleInv, [BundleNext]_bundleVars PROVE BundleInv'
  OBVIOUS
<1>0. TablesOk(db) /\ ReqOk(req) /\ SiteInv
  BY DEF BundleInv
<1>1. TablesOk(db')
  BY <1>0, HandlersWriteTables
<1>2. ReqOk(req')
  <2>1. CASE RequestStep
    BY <1>0, <2>1, RequestStepTypes
  <2>2. CASE fetchBundle
    BY <1>0, <2>2, FreshRequestTypes DEF fetchBundle
  <2>3. CASE serverCycle \/ FetchFails \/ AgentCrash
    BY <1>0, <2>3, FreshRequestTypes DEF serverCycle, FetchFails, AgentCrash
  <2>4. CASE UNCHANGED req
    BY <1>0, <2>4
  <2>5. CASE HandlerStep \/ RotateRetire \/ WriteFails \/ RemoveFails \/ SignalLost
             \/ ResolverCrash \/ ResolverStart \/ UNCHANGED bundleVars
    <3>1. UNCHANGED req
      BY <2>5 DEF HandlerStep, AuthHandlerStep, RecursiveHandlerStep, createZone, deleteZone,
         setFrozen, CheckFrozen, createRecord, updateRecord, deleteRecord, createView, deleteView,
         createHealthCheck, deleteHealthCheck, postHealthCheckResult, CatalogZone, enableDnssec,
         RotateInsert, RotateRetire, Forwarder, Blocklist, updateFabric, Write, siteVars,
         WriteFails, RemoveFails, SignalLost, ResolverCrash, ResolverStart, bundleVars
    <3> QED BY <1>0, <3>1
  <2>6. CASE ApplyStep
    <3>1. serverCycle \/ UNCHANGED req
      BY <2>6 DEF ApplyStep, WriteConfig, RemoveOther, NextPhase, syncDir, signalReloads
    <3> QED BY <1>0, <2>3, <3>1
  <2> QED BY <2>1, <2>2, <2>3, <2>5, <2>6 DEF BundleNext
<1>3. SiteInv'
  <2>1. CASE ApplyStep
    BY <1>0, <2>1, PollKeeps, ConfigKeeps, NextPhaseKeeps, SyncKeeps, ReloadKeeps
       DEF ApplyStep
  <2>2. CASE fetchBundle \/ FetchFails
    BY <1>0, <2>2, PollKeeps
  <2>3. CASE WriteFails \/ AgentCrash \/ RemoveFails \/ SignalLost
    BY <1>0, <2>3, StopKeeps, RemoveFailsKeeps, ReloadKeeps
  <2>4. CASE RequestStep \/ ResolverCrash \/ ResolverStart \/ UNCHANGED bundleVars
    <3>1. UNCHANGED <<agent, disk, torn>>
      BY <2>4 DEF RequestStep, ListDnsRecordsByZoneIDs,
         ListUnhealthyEnabledHealthChecksByFabric, loadCatalogForBundle, loadDnssecArtifacts,
         loadZoneExtraLines, loadSplitHorizonZoneFiles, ListApexZoneNamesByFabric,
         ListDnsForwardersForBundle, ListEnabledBlocklists, Query, ResolverCrash, ResolverStart,
         bundleVars
    <3> QED BY <1>0, <3>1, SiteUntouched
  <2>5. CASE HandlerStep \/ RotateRetire
    <3>1. UNCHANGED <<agent, disk, torn>>
      BY <2>5 DEF HandlerStep, AuthHandlerStep, RecursiveHandlerStep, createZone, deleteZone,
         setFrozen, CheckFrozen, createRecord, updateRecord, deleteRecord, createView, deleteView,
         createHealthCheck, deleteHealthCheck, postHealthCheckResult, CatalogZone, enableDnssec,
         RotateInsert, RotateRetire, Forwarder, Blocklist, updateFabric, Write, siteVars
    <3> QED BY <1>0, <3>1, SiteUntouched
  <2> QED BY <2>1, <2>2, <2>3, <2>4, <2>5 DEF BundleNext
<1> QED BY <1>1, <1>2, <1>3 DEF BundleInv

LEMMA InitBundleInv == BundleInit => BundleInv
<1> SUFFICES ASSUME BundleInit PROVE BundleInv
  OBVIOUS
<1>1. ReqOk(req)
  BY InitTables, FreshRequestTypes DEF BundleInit
<1> QED BY <1>1, InitTables, InitSite DEF BundleInv

LEMMA BundleInvariant == BundleSpec => []BundleInv
  BY InitBundleInv, StepBundleInv, PTL DEF BundleSpec

\* Records, keys and freezes are of zones that exist, bindings of views and
\* checks that exist, a rotation never leaves more than one key too many, and one
\* engine's configuration only is on disk once the other is removed, for every
\* number of zones, keys, changes and faults (the handlers of internal/dns and
\* applyBundle of the agent).
THEOREM TablesAreConsistent == BundleSpec => []BundleTypeOK
<1>1. BundleInv => BundleTypeOK
  <2> SUFFICES ASSUME BundleInv PROVE BundleTypeOK
    OBVIOUS
  <2>1. db \in Tables /\ db.frozen \subseteq db.zones /\ KeysOk(db) /\ RecsOk(db)
    BY DEF BundleInv, TablesOk
  <2>2. ASSUME agent.pc \in Syncing, ~torn
        PROVE  disk.coredns = NONE \/ disk.hickory = NONE
    <3>1. WellFormed(agent.bundle) /\ disk[OtherEngine(agent.bundle.config.engine)] = NONE
      BY <2>2 DEF BundleInv, SiteInv, Progress, Applying, Written, ConfigDone
    <3> QED BY <3>1 DEF OtherEngine
  <2> QED BY <2>1, <2>2 DEF BundleTypeOK, KeysOk, RecsOk, Tables, Syncing
<1> QED BY <1>1, BundleInvariant, PTL

\* Between two applies the directory is exactly the bundle that lastEtag names,
\* unless its apply failed to write or remove a file, over every interleaving of table changes,
\* engine switches, crashes and restarts: skipping a bundle with the same etag
\* (agent.go, serverCycle) never leaves stale files.
THEOREM EtagIsHonest == BundleSpec => []EtagVouchesForDisk
<1>1. BundleInv => EtagVouchesForDisk
  BY DEF BundleInv, SiteInv
<1> QED BY <1>1, BundleInvariant, PTL
=============================================================================
