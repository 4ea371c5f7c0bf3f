------------------------------ MODULE DnsBundle ------------------------------
(***************************************************************************)
(* DNS configuration on its way to a resolver: the zone, record, view,     *)
(* health check, catalog, key, forwarder and blocklist handlers            *)
(* (internal/dns) change the tables; the bundle endpoint reads them with   *)
(* one query after another and renders the files of a server; the site's   *)
(* agent (badger/internal/dnsagent) polls it, writes the files one by one  *)
(* and signals the resolver.                                               *)
(*                                                                         *)
(* A bundle's etag is a hash of its text, so here the bundle is its own    *)
(* etag.  A file is abstracted to what its text depends on, with one       *)
(* operator record per zone.  The serial in a zone file is left out: it    *)
(* moves with the zone row, and the handlers of records and health checks  *)
(* do not move it.  Status and metrics reports are left out too.           *)
(***************************************************************************)
EXTENDS Naturals, FiniteSets, Functions

CONSTANTS
    Zones,        \* the names of the fabric's zones
    Child, Apex,  \* a zone that may be signed, and its direct parent
    MaxKeys,      \* bound on the key signing keys the child ever has
    MaxChanges,   \* bound on changes to the tables
    MaxFaults,    \* bound on crashes, failed writes and removals, lost signals
    NONE

ASSUME BundleBoundsAssumption ==
    /\ MaxChanges \in Nat /\ MaxFaults \in Nat /\ MaxKeys \in Nat
    /\ Child \in Zones /\ Apex \in Zones /\ Child # Apex

\* The configurations a resolver is given: its engine, the files and keys it
\* names, and of a recursive one what else its text depends on.
Configs ==
    [engine : {"coredns", "hickory"},
     names : SUBSET ((Zones \cup {"catalog", "rpz"}) \X {"default", "view"}),
     keys : SUBSET (1 .. MaxKeys),
     text : {NONE} \cup (BOOLEAN \X BOOLEAN) \cup (BOOLEAN \X BOOLEAN \X BOOLEAN)]

ASSUME NoneAssumption == NONE \notin Configs

VARIABLES
    role,      \* the role of the server the agent runs for
    db,        \* the tables
    checked,   \* the zone that a record handler under way has found unfrozen
    req,       \* the bundle request: what its queries have returned so far
    agent,     \* the agent: what it does, its bundle, its lastEtag
    disk,      \* the output directory
    served,    \* what the resolver loaded, NONE when it is down
    torn,      \* the apply under way, or the last one, failed to write or remove a file
    deaf,      \* the last signal did not reach the resolver that was up
    changes, faults

bundleVars == <<role, db, checked, req, agent, disk, served, torn, deaf, changes, faults>>

NoAnswer == [pc |-> "none"]
EmptyDisk == [coredns |-> NONE, hickory |-> NONE, files |-> <<>>, keys |-> {}]
Started == [pc |-> "idle", bundle |-> NONE, todo |-> {}, last |-> NONE]

BundleInit ==
    /\ role \in {"auth", "recursive"}
    /\ db = [zones |-> {Apex, Child}, frozen |-> {}, signed |-> FALSE,
             recs |-> [z \in Zones |-> IF z = Apex THEN [view |-> FALSE, check |-> FALSE]
                                       ELSE NONE],
             view |-> TRUE, check |-> "healthy",
             catalog |-> FALSE, active |-> {}, retired |-> {},
             engine |-> "coredns", forwarder |-> FALSE, blocklist |-> FALSE]
    /\ checked = NONE
    /\ req = NoAnswer
    /\ agent = Started
    /\ disk = EmptyDisk
    /\ served = NONE
    /\ torn = FALSE
    /\ deaf = FALSE
    /\ changes = 0
    /\ faults = 0

Change == changes < MaxChanges /\ changes' = changes + 1 /\ UNCHANGED faults
Fault == faults < MaxFaults /\ faults' = faults + 1 /\ UNCHANGED changes
siteVars == <<req, agent, disk, served, torn, deaf>>

\* A handler that writes the tables and nothing else.
Write(new) ==
    /\ db' = new
    /\ Change
    /\ UNCHANGED <<role, siteVars>>

-----------------------------------------------------------------------------
(* The handlers *)

createZone(z) ==
    /\ z \notin db.zones
    /\ Write([db EXCEPT !.zones = @ \cup {z}])
    /\ UNCHANGED checked

\* dns_records.zone_id refuses the delete of a zone that has records.  Nothing
\* looks at frozen; the keys go with the zone.
deleteZone(z) ==
    /\ z \in db.zones
    /\ db.recs[z] = NONE
    /\ Write([db EXCEPT !.zones = @ \ {z}, !.frozen = @ \ {z},
                        !.signed = @ /\ z # Child,
                        !.active = IF z = Child THEN {} ELSE @,
                        !.retired = IF z = Child THEN {} ELSE @])
    /\ UNCHANGED checked

setFrozen(z) ==
    /\ z \in db.zones
    /\ Write([db EXCEPT !.frozen = IF z \in @ THEN @ \ {z} ELSE @ \cup {z}])
    /\ UNCHANGED checked

\* createRecord, updateRecord, deleteRecord and importZone look at frozen first
\* and write in another statement.
CheckFrozen(z) ==
    /\ z \in db.zones \ db.frozen
    /\ checked = NONE /\ changes < MaxChanges
    /\ checked' = z
    /\ UNCHANGED <<role, db, siteVars, changes, faults>>

RecordInputs ==
    [view : IF db.view THEN BOOLEAN ELSE {FALSE},
     check : IF db.check # "none" THEN BOOLEAN ELSE {FALSE}]

createRecord(z) ==
    /\ checked = z /\ z \in db.zones
    /\ db.recs[z] = NONE
    /\ \E r \in RecordInputs : Write([db EXCEPT !.recs[z] = r])
    /\ checked' = NONE

updateRecord(z) ==
    /\ checked = z
    /\ db.recs[z] # NONE
    /\ \E r \in RecordInputs : r # db.recs[z] /\ Write([db EXCEPT !.recs[z] = r])
    /\ checked' = NONE

deleteRecord(z) ==
    /\ checked = z
    /\ db.recs[z] # NONE
    /\ Write([db EXCEPT !.recs[z] = NONE])
    /\ checked' = NONE

createView ==
    /\ ~db.view
    /\ Write([db EXCEPT !.view = TRUE])
    /\ UNCHANGED checked

\* Mistake: the records keep the id of the deleted view.
deleteView_Dangling ==
    /\ db.view
    /\ Write([db EXCEPT !.view = FALSE])
    /\ UNCHANGED checked

\* The records of a deleted view or health check stay (ON DELETE SET NULL).
deleteView ==
    /\ db.view
    /\ Write([db EXCEPT !.view = FALSE,
                        !.recs = [z \in Zones |-> IF @[z] = NONE THEN NONE
                                                  ELSE [@[z] EXCEPT !.view = FALSE]]])
    /\ UNCHANGED checked

createHealthCheck ==
    /\ db.check = "none"
    /\ Write([db EXCEPT !.check = "healthy"])
    /\ UNCHANGED checked

deleteHealthCheck ==
    /\ db.check # "none"
    /\ Write([db EXCEPT !.check = "none",
                        !.recs = [z \in Zones |-> IF @[z] = NONE THEN NONE
                                                  ELSE [@[z] EXCEPT !.check = FALSE]]])
    /\ UNCHANGED checked

\* The prober reports; the zone row is not touched.
postHealthCheckResult ==
    /\ db.check # "none"
    /\ Write([db EXCEPT !.check = IF @ = "healthy" THEN "unhealthy" ELSE "healthy"])
    /\ UNCHANGED checked

\* createCatalogZone and deleteCatalogZone, or an update of enabled.
CatalogZone == Write([db EXCEPT !.catalog = ~@]) /\ UNCHANGED checked

\* Keys are numbered as they are created.
NewKey == Cardinality(db.active \cup db.retired) + 1

enableDnssec ==
    /\ Child \in db.zones /\ ~db.signed
    /\ NewKey <= MaxKeys
    /\ Write([db EXCEPT !.signed = TRUE, !.active = {NewKey}])
    /\ UNCHANGED checked

\* rotateKey inserts the new key, then retires the old ones.
RotateInsert ==
    /\ db.signed
    /\ Cardinality(db.active) = 1
    /\ NewKey <= MaxKeys
    /\ Write([db EXCEPT !.active = @ \cup {NewKey}])
    /\ UNCHANGED checked

RotateRetire ==
    /\ Cardinality(db.active) > 1
    /\ \E k \in db.active :
        /\ \A old \in db.active : old <= k
        /\ db' = [db EXCEPT !.active = {k}, !.retired = @ \cup (db.active \ {k})]
    /\ UNCHANGED <<role, checked, siteVars, changes, faults>>

\* create, update and delete of forwarders and blocklists, and the engine of
\* the fabric (updateFabric).
Forwarder == Write([db EXCEPT !.forwarder = ~@]) /\ UNCHANGED checked
Blocklist == Write([db EXCEPT !.blocklist = ~@]) /\ UNCHANGED checked
updateFabric ==
    /\ Write([db EXCEPT !.engine = IF @ = "coredns" THEN "hickory" ELSE "coredns"])
    /\ UNCHANGED checked

-----------------------------------------------------------------------------
(* Rendering *)

\* filterRecordsForView and filterRecordsForBundle: the record in a file.
Visible(rec, view, unhealthy) ==
    /\ rec # NONE
    /\ rec.view => view
    /\ ~(rec.check /\ unhealthy)

\* loadSplitHorizonZoneFiles: the zones that get a file per view.
SplitZones(in) == {z \in in.zones : in.recs[z] # NONE /\ in.recs[z].view /\ in.views}

\* loadZoneExtraLines: DS of the child in its parent; a split zone has none.
DsLines(in, z) ==
    IF z = Apex /\ {Apex, Child} \subseteq in.zones /\ in.signed /\ z \notin SplitZones(in)
    THEN in.extras ELSE {}

ZoneFile(in, z, view) ==
    [rec |-> Visible(in.recs[z], view, in.unhealthy), ds |-> DsLines(in, z), stamp |-> 0]

\* RenderCatalogZone lists the zones of the bundle.
CatalogFile(in) == [members |-> in.zones]

AuthFiles(in) ==
    [f \in {<<z, "default">> : z \in in.zones} \cup {<<z, "view">> : z \in SplitZones(in)}
           \cup (IF in.catalog THEN {<<"catalog", "default">>} ELSE {})
        |-> IF f[1] = "catalog" THEN CatalogFile(in) ELSE ZoneFile(in, f[1], f[2] = "view")]

\* mergeDnssecForZone: retired keys stay among the files until they are deleted.
SigningKeys(in) == IF in.signed /\ Child \in in.zones THEN in.keys ELSE {}

\* RenderCorefileAuth names the files and keys that the server must find.
RenderCorefileAuth(in) ==
    [engine |-> "coredns",
     names |-> {<<z, "default">> : z \in in.zones} \cup {<<z, "view">> : z \in SplitZones(in)}
               \cup (IF in.catalog THEN {<<"catalog", "default">>} ELSE {}),
     keys |-> SigningKeys(in), text |-> NONE]

AssembleAuthBundle(in) ==
    [config |-> RenderCorefileAuth(in), files |-> AuthFiles(in), keys |-> SigningKeys(in)]

\* BuildRpzArtifacts: hickory gets a zone file per blocklist, stamped with the
\* time of the request; CoreDNS has the patterns in its Corefile.
Rpz(in) == IF in.engine = "hickory" /\ in.blocklist THEN {<<"rpz", "default">>} ELSE {}

\* The engine of the fabric decides which configuration is rendered.
RenderCorefileRecursive(in) ==
    [engine |-> "coredns", names |-> {}, keys |-> {},
     text |-> <<in.apex, in.forwarder, in.blocklist>>]

RenderHickoryRecursiveConfig(in) ==
    [engine |-> "hickory", names |-> Rpz(in), keys |-> {},
     text |-> <<in.apex, in.forwarder>>]

AssembleRecursiveBundle(in, stamp) ==
    [config |-> IF in.engine = "hickory" THEN RenderHickoryRecursiveConfig(in)
                ELSE RenderCorefileRecursive(in),
     files |-> [f \in Rpz(in) |-> [stamp |-> stamp]],
     keys |-> {}]

\* What one undisturbed request would return now.
Snapshot ==
    [zones |-> db.zones \ db.frozen, signed |-> db.signed, recs |-> db.recs,
     unhealthy |-> db.check = "unhealthy", catalog |-> db.catalog,
     keys |-> db.active \cup db.retired, extras |-> db.active, views |-> db.view,
     engine |-> db.engine, apex |-> Apex \in db.zones, forwarder |-> db.forwarder,
     blocklist |-> db.blocklist]

Rendered ==
    IF role = "auth" THEN AssembleAuthBundle(Snapshot) ELSE AssembleRecursiveBundle(Snapshot, 0)

\* A bundle but for the time in its RPZ files.
Timeless(b) ==
    IF b = NONE THEN NONE
    ELSE [b EXCEPT !.files = [f \in DOMAIN @ |-> IF f[1] = "catalog" THEN @[f]
                                                 ELSE [@[f] EXCEPT !.stamp = 0]]]

-----------------------------------------------------------------------------
(* The bundle request: getDnsServerBundle runs its queries one after another *)

Query(from, to, row) ==
    /\ req.pc = from
    /\ req' = [x \in DOMAIN req \cup DOMAIN row |->
                 IF x = "pc" THEN to ELSE IF x \in DOMAIN row THEN row[x] ELSE req[x]]
    /\ UNCHANGED <<role, db, checked, agent, disk, served, torn, deaf, changes, faults>>

\* loadAuthBundleInput
ListDnsZonesByFabric == [pc |-> "records", zones |-> db.zones \ db.frozen, signed |-> db.signed]
ListDnsRecordsByZoneIDs == Query("records", "health", [recs |-> db.recs])
ListUnhealthyEnabledHealthChecksByFabric ==
    Query("health", "catalog", [unhealthy |-> db.check = "unhealthy"])
loadCatalogForBundle == Query("catalog", "keys", [catalog |-> db.catalog])
loadDnssecArtifacts == Query("keys", "extras", [keys |-> db.active \cup db.retired])
loadZoneExtraLines == Query("extras", "views", [extras |-> db.active])
loadSplitHorizonZoneFiles == Query("views", "auth", [views |-> db.view])

\* loadRecursiveBundleInput
GetFabricForRecursiveBundle == [pc |-> "apexes", engine |-> db.engine]
ListApexZoneNamesByFabric == Query("apexes", "forwarders", [apex |-> Apex \in db.zones])
ListDnsForwardersForBundle == Query("forwarders", "blocklists", [forwarder |-> db.forwarder])
ListEnabledBlocklists == Query("blocklists", "recursive", [blocklist |-> db.blocklist])

-----------------------------------------------------------------------------
(* The agent *)

AgentStep(a) == agent' = a /\ UNCHANGED <<role, db, checked, deaf, changes, faults>>

\* A poll, with the first query of the request it makes.
fetchBundle ==
    /\ agent.pc = "idle"
    /\ req = NoAnswer
    /\ req' = IF role = "auth" THEN ListDnsZonesByFabric ELSE GetFabricForRecursiveBundle
    /\ AgentStep([agent EXCEPT !.pc = "fetch"])
    /\ UNCHANGED <<disk, served, torn>>

\* The answer; the time in it is not that of the bundle applied before.
Answers ==
    IF req.pc = "auth" THEN {AssembleAuthBundle(req)}
    ELSE {b \in {AssembleRecursiveBundle(req, s) : s \in {0, 1}} :
            Rpz(req) # {} => b # agent.last}

\* serverCycle: a bundle with the etag of the last one is not applied.
serverCycle ==
    /\ agent.pc = "fetch"
    /\ req.pc \in {"auth", "recursive"}
    /\ \E b \in Answers :
        IF b = agent.last
        THEN AgentStep([agent EXCEPT !.pc = "idle"]) /\ UNCHANGED torn
        ELSE AgentStep([agent EXCEPT !.pc = "config", !.bundle = b]) /\ torn' = FALSE
    /\ req' = NoAnswer
    /\ UNCHANGED <<disk, served>>

OtherEngine(e) == IF e = "coredns" THEN "hickory" ELSE "coredns"

\* applyBundle: the configuration first, then the other engine's is removed.
WriteConfig ==
    /\ agent.pc = "config"
    /\ disk' = [disk EXCEPT ![agent.bundle.config.engine] = agent.bundle.config]
    /\ AgentStep([agent EXCEPT !.pc = "other"])
    /\ UNCHANGED <<req, served, torn>>

\* syncDir first removes, one by one, what the bundle does not have and then
\* writes the rest, each file by a rename: the zone files, then the keys.
Work(phase) ==
    LET b == agent.bundle
    IN CASE phase = "prune" -> DOMAIN disk.files \ DOMAIN b.files
         [] phase = "files" -> DOMAIN b.files
         [] phase = "prunekeys" -> disk.keys \ b.keys
         [] phase = "keys" -> b.keys
         [] phase = "reload" -> {}

Enter(phase) == AgentStep([agent EXCEPT !.pc = phase, !.todo = Work(phase)])

\* Mistake: the other engine's configuration stays on disk.
RemoveOther_Keeps ==
    /\ agent.pc = "other"
    /\ Enter("prune")
    /\ UNCHANGED <<req, disk, served, torn>>

RemoveOther ==
    /\ agent.pc = "other"
    /\ disk' = [disk EXCEPT ![OtherEngine(agent.bundle.config.engine)] = NONE]
    /\ Enter("prune")
    /\ UNCHANGED <<req, served, torn>>

NextPhase ==
    /\ agent.todo = {}
    /\ \/ agent.pc = "prune" /\ Enter("files")
       \/ agent.pc = "files" /\ Enter("prunekeys")
       \/ agent.pc = "prunekeys" /\ Enter("keys")
       \/ agent.pc = "keys" /\ Enter("reload")
    /\ UNCHANGED <<req, disk, served, torn>>

Done(f) == AgentStep([agent EXCEPT !.todo = @ \ {f}])

PruneZone(f) == [disk EXCEPT !.files = Restrict(@, DOMAIN @ \ {f})]
WriteZone(f) == [disk EXCEPT !.files = [g \in DOMAIN @ \cup {f} |->
                                            IF g = f THEN agent.bundle.files[f] ELSE @[g]]]
PruneKey(k) == [disk EXCEPT !.keys = @ \ {k}]
WriteKey(k) == [disk EXCEPT !.keys = @ \cup {k}]

syncDir ==
    /\ \E f \in agent.todo :
        /\ Done(f)
        /\ \/ agent.pc = "prune" /\ disk' = PruneZone(f)
           \/ agent.pc = "files" /\ disk' = WriteZone(f)
           \/ agent.pc = "prunekeys" /\ disk' = PruneKey(f)
           \/ agent.pc = "keys" /\ disk' = WriteKey(f)
    /\ UNCHANGED <<req, served, torn>>

\* The resolver reads the configuration of its engine and the files on disk.
Loaded(d) ==
    LET cfg == IF d.hickory # NONE THEN d.hickory ELSE d.coredns
    IN IF cfg = NONE THEN NONE ELSE [config |-> cfg, files |-> d.files, keys |-> d.keys]

Applied == agent' = [Started EXCEPT !.last = agent.bundle]

\* Mistake: the signal is not sent.
signalReloads_Silent ==
    /\ agent.pc = "reload"
    /\ Applied
    /\ UNCHANGED <<role, db, checked, req, disk, served, torn, deaf, changes, faults>>

\* signalReloads reaches a resolver that is up, ...
signalReloads ==
    /\ agent.pc = "reload"
    /\ Applied
    /\ served' = IF served = NONE THEN NONE ELSE Loaded(disk)
    /\ deaf' = FALSE
    /\ UNCHANGED <<role, db, checked, req, disk, torn, changes, faults>>

\* ... or does not: no pidfile, no such process, kill refused.  lastEtag is set
\* either way.
SignalLost ==
    /\ agent.pc = "reload" /\ served # NONE
    /\ Applied
    /\ deaf' = TRUE
    /\ Fault
    /\ UNCHANGED <<role, db, checked, req, disk, served, torn>>

\* MkdirAll, a write or a rename fails: the cycle ends, lastEtag stays what it was.
WriteFails ==
    /\ \/ agent.pc \in {"config", "files", "keys"}
       \/ agent.pc \in {"prune", "prunekeys"} /\ agent.todo = Work(agent.pc)
    /\ agent' = [Started EXCEPT !.last = agent.last]
    /\ torn' = TRUE
    /\ Fault
    /\ UNCHANGED <<role, db, checked, req, disk, served, deaf>>

\* ReadDir or a removal fails: the error is dropped and the apply goes on.
RemoveFails ==
    /\ \/ /\ agent.pc = "other"
          /\ agent' = [agent EXCEPT !.pc = "prune", !.todo = Work("prune")]
       \/ /\ agent.pc \in {"prune", "prunekeys"}
          /\ \E left \in (SUBSET agent.todo) \ {{}} : agent' = [agent EXCEPT !.todo = @ \ left]
    /\ torn' = TRUE
    /\ Fault
    /\ UNCHANGED <<role, db, checked, req, disk, served, deaf>>

\* The request fails or is answered with an error.
FetchFails ==
    /\ agent.pc = "fetch"
    /\ agent' = [agent EXCEPT !.pc = "idle"]
    /\ req' = NoAnswer
    /\ Fault
    /\ UNCHANGED <<role, db, checked, disk, served, torn, deaf>>

\* lastEtag is a local of serverLoop: a restarted agent has none.
AgentCrash ==
    /\ agent # Started
    /\ agent' = Started
    /\ req' = NoAnswer
    /\ Fault
    /\ UNCHANGED <<role, db, checked, disk, served, torn, deaf>>

ResolverCrash ==
    /\ served # NONE
    /\ served' = NONE
    /\ Fault
    /\ UNCHANGED <<role, db, checked, req, agent, disk, torn, deaf>>

ResolverStart ==
    /\ served = NONE
    /\ Loaded(disk) # NONE
    /\ served' = Loaded(disk)
    /\ deaf' = FALSE
    /\ UNCHANGED <<role, db, checked, req, agent, disk, torn, changes, faults>>

-----------------------------------------------------------------------------

RequestStep ==
    \/ ListDnsRecordsByZoneIDs
    \/ ListUnhealthyEnabledHealthChecksByFabric \/ loadCatalogForBundle
    \/ loadDnssecArtifacts \/ loadZoneExtraLines \/ loadSplitHorizonZoneFiles
    \/ ListApexZoneNamesByFabric \/ ListDnsForwardersForBundle \/ ListEnabledBlocklists

ApplyStep ==
    \/ serverCycle \/ WriteConfig \/ RemoveOther \/ NextPhase \/ syncDir \/ signalReloads

\* Changes to tables that the bundle of this role does not read are left out.
AuthHandlerStep ==
    /\ role = "auth"
    /\ \/ \E z \in Zones : \/ setFrozen(z) \/ CheckFrozen(z)
                           \/ createRecord(z) \/ updateRecord(z) \/ deleteRecord(z)
       \/ createView \/ deleteView \/ createHealthCheck \/ deleteHealthCheck
       \/ postHealthCheckResult \/ CatalogZone \/ enableDnssec \/ RotateInsert

RecursiveHandlerStep ==
    /\ role = "recursive"
    /\ Forwarder \/ Blocklist \/ updateFabric

HandlerStep ==
    \/ \E z \in Zones : createZone(z) \/ deleteZone(z)
    \/ AuthHandlerStep \/ RecursiveHandlerStep

BundleNext ==
    \/ HandlerStep \/ RotateRetire
    \/ fetchBundle \/ RequestStep \/ ApplyStep
    \/ WriteFails \/ RemoveFails \/ SignalLost \/ FetchFails
    \/ AgentCrash \/ ResolverCrash \/ ResolverStart

\* The agent polls for ever, requests are answered, a resolver is restarted,
\* and a rotation under way ends.
BundleFairness ==
    /\ WF_bundleVars(fetchBundle) /\ WF_bundleVars(RequestStep) /\ WF_bundleVars(ApplyStep)
    /\ WF_bundleVars(ResolverStart) /\ WF_bundleVars(RotateRetire)

BundleSpec == BundleInit /\ [][BundleNext]_bundleVars /\ BundleFairness

-----------------------------------------------------------------------------

(* The tables hold what the handlers allow: records, keys and freezes of zones
   that exist, bindings to a view and a health check that exist, at most one
   key more than the active one during a rotation; and at most one engine's
   configuration is on disk once the other one has been removed. *)
BundleTypeOK ==
    /\ db.zones \subseteq Zones /\ db.frozen \subseteq db.zones
    /\ \A z \in Zones : db.recs[z] # NONE =>
          /\ z \in db.zones
          /\ db.recs[z].view => db.view
          /\ db.recs[z].check => db.check # "none"
    /\ db.active \cap db.retired = {} /\ Cardinality(db.active) <= 2
    /\ db.signed => Child \in db.zones /\ db.active # {}
    /\ agent.pc \in {"prune", "files", "prunekeys", "keys", "reload"} /\ ~torn =>
          disk.coredns = NONE \/ disk.hickory = NONE

Polling == agent.pc \in {"idle", "fetch"}

(* serverCycle skips a bundle whose etag is the last one, so the etag must
   vouch for the disk: between two applies, after any interleaving of table
   changes, engine switches, crashes and restarts, the output directory is
   exactly the bundle that lastEtag names, unless the last apply failed to
   write or to remove a file. *)
EtagVouchesForDisk ==
    Polling /\ agent.last # NONE /\ ~torn => Loaded(disk) = agent.last

(* What the tables say is what the resolver serves, again and again, whatever
   was changed between the queries of a request and whatever crashed.  After a
   failed write, a failed removal or a signal that did not arrive the agent
   does not look at the disk or the resolver again until the tables differ from
   the bundle of its etag: then that bundle is what the tables say. *)
SiteConverges ==
    []<>(IF torn \/ deaf THEN Timeless(agent.last) = Rendered ELSE Timeless(served) = Rendered)
=============================================================================
