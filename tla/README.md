# A TLA+ model of usg-dcim

This directory holds TLA+ specifications of the stateful parts of usg-dcim, the TLC
configurations that check them on small instances, and TLAPS proofs of the results
that matter most. Every definition follows the Go and SQL sources under `packages/`;
`PROJECT.json` maps each of them to the lines it models.

Run a model with `tlc -config MCLirRegistry.cfg MCLirRegistry`, and check the proofs
of a module with `tlapm LirRegistryProofs.tla`.

## The system

usg-dcim manages data centre inventory, addresses, DNS, DHCP, routing and telemetry.
`otter-go` is the API and the owner of the Postgres database; the other services are
small processes around it.

| Component | State | Operations | Hard behaviour |
|---|---|---|---|
| **LIR registry** (`otter-go/internal/lir`) | pools, source supernets, requests, allocations (four tables) | create, update, delete pool; attach, detach source; submit, cancel, reject, approve request; request and confirm return; retry ARIN | handlers read in one statement and write in a later one, without a transaction or a lock; carving from a stale read |
| **Free-prefix scan** (`lir/carve.go`, `ipam/carve.go`) | loop counter, collected candidates | scan a parent for the first free sub-prefixes | big-integer bounds, scan cap |
| **ARIN feed-up worker** (`lir/arin`) | ARIN columns of an allocation, row locks, ARIN's own registry | tick; claim, call, mark for submits and removals; backoff | replicas, crashes between the call and the commit, lost answers, starvation |
| **DNSSEC key lifecycle** (`dns/dnssec_*.go`, job `dnssecrotate`) | `signed`, `frozen`, the keys of a zone | enable, rotate, disable, delete key, freeze; daily rotation | no transactions; rotations, the job and a disable interleave; partial failure |
| **Site collector** (`badger`) | SQLite buffer, the batch under way | poll, enqueue, drain, post, ack | lost and late answers, restarts, rows that no longer decode |
| **Telemetry ingest** (`heron`) | history hypertable, freshness rows | authorise, write history and freshness concurrently, answer | one of two writes fails; retries |
| **Alerts** (`magpie`, `internal/alerts`, `collectors`, `notifications`) | rules, alerts, windows, collectors, a Redis list, channels | evaluate rules, sweep collectors; rules, windows, channels; delete an asset with its alerts; enrol, heartbeat, decommission; pop and send | dedupe by SELECT then INSERT; a SELECT that fails; alerts deleted under a pass or a drain; overlapping drains; pop before send; crashes |
| **DHCP push, diff, bundle** (`dhcp`) | scopes, templates, subnet ids, Kea's configuration | claim id, call Kea, roll back, record; delete; diff; bulk runs; render | two systems without a common commit; late and lost calls; requests racing on one scope |
| **Leases and the DNS projection** (`dhcp/leasesync`, `ageout`, `reservations`, `dns/sync_ipam.go`) | addresses, leases, reservations, projected records, reverse zones | lease sync, age-out, reconcile, drop and rebuild | writes by an id found earlier; overlapping rebuilds; a constraint that stops a run |
| **DNS bundles and the site agent** (`dns/bundle_*.go`, `badger/internal/dnsagent`) | zones, records, views, checks, keys; the agent's files and etag; the resolver | query by query rendering; fetch, write file by file, reload | tables that change between two queries; a crash or a failed write between two files; a lost signal |
| **Inventory, IPAM, routing, DNS tables, NIC registrations** | some fifty tables and their foreign keys | create, update, delete, and the requests of several statements | counts before deletes, looked-up rows that vanish, cascades, unique keys as the only arbiter |
| Auth, scheduler harness, beagle, finch, migrations, capacity, forecast, search | tokens; none | verification, cron, probes, UI, reads | outside the state machines modelled here |

How they interact: the LIR registry and the ARIN worker share the rows of
`lir_allocations`, and the worker's row lock is what orders them. badger talks to heron
by HTTP posts that can be lost or late. magpie and the notification bridge share a Redis
list; heartbeats and the collector sweep share the collector's row. A DHCP push shares
scopes with the operator and ids with Kea. The lease sync, the age-out, the reconcile
and the address handlers share `ip_addresses`, and the projection turns what they leave
there into records, whose foreign keys act back on the age-out. The DNS handlers and the
agent of a site meet in the bundle endpoint. The scheduler's jobs call the same
functions as the HTTP handlers (`RotateZoneKey`, `SyncIPAMRecordsForZone`), so a job is
one more concurrent caller.

What makes each part correct: no address is given to two tenants and a decision is made
once (registry); what the database says of ARIN is true and every queued row is served
(worker); a role of a signed zone never loses its last key to a rotation (DNSSEC); no
reading is lost or overtaken (telemetry); one firing alert per condition as
far as the look-up is answered, its events neither lost nor invented, and a breach that
lasts is alerted (alerts); a subnet that Kea serves is not replaced by another scope's
(DHCP, as far as that holds); addresses keep their owner and the records
become what the addresses say (projection); a resolver ends up with what the tables say
(bundles); references stay live and one request takes one thing away (tables).

`PROJECT.json` lists the hazards, each with the properties that cover it, or with the
reason why none does.

## Modules

| Module | Models | Extends |
|---|---|---|
| `Cidr` | prefixes, overlap, candidates, what the carver returns | |
| `CarveScan` | the scan loop, one iteration per step | `Cidr` |
| `LirRegistry` | the registry's handlers | `Cidr` |
| `AllocationLedger` | abstract: what a registry of addresses promises | |
| `LirLedger` | the refinement mapping from the registry to the ledger | `LirRegistry` |
| `ArinFeed` | the worker and ARIN, composed with the registry | `LirRegistry` |
| `DnssecKeys` | the key handlers and the rotation job | |
| `TelemetryPipeline` | badger's buffer and forwarder composed with heron | |
| `AlertEngine` | magpie's two loops, the alert and collector handlers, the bridge | |
| `DhcpPush` | scopes, pushes, diffs and the bundle, composed with Kea | |
| `IpamProjection` | addresses, leases, reservations and their projection into DNS | |
| `DnsBundle` | DNS handlers, the bundle endpoint, the agent, the resolver | |
| `Relational` | foreign keys: what an INSERT, UPDATE or DELETE does | |
| `Inventory` | every table's references; statements and jobs; locations, hardware, cables, power | `Relational` |
| `IpamTables`, `RoutingTables`, `DnsTables`, `NicRegistrations` | the requests of these areas | `Inventory` |
| `InventoryApi` | the database of the console: all of the above at once | the four above |
| `LirRegistryProofs` | theorems of `Cidr`, `CarveScan`, `LirRegistry`, `LirLedger` and `ArinFeed` | `ArinFeed`, `LirLedger`, `CarveScan` |
| other `*Proofs` | theorems of the module they are named after (`TelemetryProofs`: of `TelemetryPipeline`, `InventoryProofs`: of `InventoryApi`) | that module |
| `MC*` | instances for TLC | |

Definitions whose name has a suffix after an underscore (`Occupied_ActiveOnly`) are
deliberately wrong variants of the definition that follows them. Nothing uses them;
replacing the definition by its variant makes TLC violate the property that
`PROJECT.json` pairs it with.

### How state and actions correspond to the code

**LirRegistry.** `pools`, `source`, `requests` and `allocs` are the tables `lir_pools`,
`supernets.lir_pool_id`, `lir_requests` and `lir_allocations` (one allocation per
request, as its UNIQUE key says). A handler that is one guarded UPDATE is one action. A
handler of several statements is a *session* in `sess`: approve is `ApproveLoad`,
`ApprovePool`, `ApproveSources`, `ApproveCarve`, `ApproveCommit`; detach is
`DetachLoad`, `DetachCount`, `DetachWrite`; delete is `DeleteCheck`, `DeleteDetachAll`,
`DeleteRow`; attach is `AttachCheck`, `AttachWrite`. `Abort` ends a session between any
two statements. Foreign keys, CHECKs and `ON DELETE SET NULL` are guards and effects of
the actions. `ApproveCarve` merges the read of the allocated prefixes with the carver,
which touches nothing but that read. `ApproveLoad` merges the read of the request with
the choice of the pool. A pool whose settings are updated meanwhile, or a request
cancelled meanwhile, is seen by the later statements exactly where the code reads again.

**ArinFeed.** The worker's `pc` follows `tick`: the submit loop, then the remove loop,
with one budget. A claim locks the row (`workers[w].row`); the SQL of the two claim
queries is `Submittable` and `Removable`. A registry UPDATE of a locked row waits, so
`RegistryStep` needs the row unlocked. `SubmitCall` and `RemoveCall` choose ARIN's
answer and, for an answer that was lost, whether the call took effect. `Crash` rolls the
transaction back. `due` abstracts the backoff: `Elapse` makes a failed row due.

**DnssecKeys.** One zone, `signed` and `frozen` as columns, keys in insertion order.
Every statement of a handler is a step of its caller, and `Abort` stops it. The rotation
job reads the zone once (`CronLoad`), looks at the newest ZSK (`CronList`) and then takes
the same steps as an operator's rotation.

**TelemetryPipeline.** Reading *i* has row id *i*. The forwarder drains the oldest rows,
posts them under a fresh batch id, and acks exactly the ids it sent. A post that heron
serves is a record in `posts` with the state of its two writes; it can outlive the
client that gave it up. `Corrupt` rows no longer decode: they are dropped from a post
and acked with it.

**CarveScan, Cidr.** One address family with `AddrBits` bits. `CarveScan` is the loop
as written; `findFirstFreePrefix` is what the registry uses. That the two agree is both
checked (`ComputesFirstFree`) and proved.

**AllocationLedger, LirLedger.** A tenant's standing (asked, refused, granted, returning,
returned) and the addresses it holds, nothing else. `LirLedger` reads both off the
request and its allocation: a handler's read is a stutter, the commit of an approval is
`Grant`, the confirmation of a return is `TakeBack`. ARIN, pools and sources disappear.

**AlertEngine.** `rules`, `alerts`, `collectors`, `channel` and `window` are tables;
`reading` is the verdict the metric query would give of a rule and an asset. A pass of
the evaluator lists the rules (`EvalStart`), reads each (`EvalRead`, `EvalSelect`),
commits or fails each in its own transaction (`EvalCommit`, `EvalFail`), in any order,
and pushes the events of all of them (`EvalNotify`). A commit may be stored and its
answer lost. The sweep is `SweepList`, `SweepOne` per collector, `SweepNotify`;
`SweepOne` is the loop's body with each of its failures: the status UPDATE
(`StatusFails`), the dedupe SELECT, any error of which is taken for "no rows"
(`LookFinds`), and the INSERT (`InsertFails`). `deleteAsset` is the statement that drops an
asset's alerts. A deleted alert keeps its number and has the state `"deleted"`: a resolve
by its id changes no row and is pushed all the same (`ResolvedRow`), and the bridge skips
its events. `looked` of a row says that the SELECT before its INSERT was answered. A drain
of the bridge pops, reads and sends one payload after the other (`BridgeStart`,
`BridgePop`, `BridgeHandle`); `MagpieCrash`, `BridgeCrash`, `BridgePopFails` stop them
anywhere. `handled` and `lost` are history: what the channels got, a matching refused or
a deleted alert made void, and what a crash or a failed call took.

**DhcpPush.** A request in `calls` works through the scopes it was asked for: `PushLoad`,
`PushList`, `PushClaim`, `KeaCall`, `ConfigWrite`, `PushRecord`, with `PushRollback` on a
failed first push; `DeleteLoad`, `DeleteTombstone`; `DiffLoad`, `DiffFetch`,
`DiffPersist`. `Cancel` ends it between any two. Nothing orders requests: two of them may
work on one scope, as in the code. Kea holds subnets by family and id, dhcp4 and dhcp6
being two servers, while claimed ids are unique across both families. A call that the
client gave up waits in `late` and may still be executed. A claim and a roll back write the
id column with the same UPDATE (`TakeId`); the history `undercut` remembers the scopes
whose id was taken so from under an update or a delete already on its way. `RenderKeaBundle` is the
function that renders a whole configuration, with one set of used ids per family.

**IpamProjection.** `rows` are `ip_addresses` by id, `recs` the bag of projected records.
A lease sync walks the leases Kea listed when it started: find the row, then write by its
id (`LeaseFind`, `LeaseWrite`); the age-out deprecates, then deletes; a reconcile loads
the scope's reservations, then promotes or inserts. `DnsSyncs` are rebuilds: `SyncDrop`,
`SyncList`, then one record per step, creating reverse zones as needed (`EmitForward`,
`GetReverseZoneByName`, `CreateReverseZone`, `EmitReverse`). `Lapse` moves a lease that
is not renewed from live to lapsed to stale (more than a day).

**DnsBundle.** `db` has the tables of one fabric, with one operator record per zone. A
request runs its queries in the code's order (`ListDnsZonesByFabric`, ...,
`loadSplitHorizonZoneFiles`; another set for a recursive server) and renders what they
returned. Handlers change the tables in between. The agent polls (`fetchBundle`),
compares (`serverCycle`), writes the configuration and removes the other engine's
(`WriteConfig`, `RemoveOther`), then works through two directories, zones and keys: in
each, file by file, what goes and then what is written (`syncDir`, with `Work` of a phase
and `NextPhase`), and signals (`signalReloads`). `WriteFails` ends the cycle; `RemoveFails`
does not, since the code drops the error of `os.Remove` and `ReadDir`; `SignalLost` sets
lastEtag like a signal that arrived. `FetchFails`, `AgentCrash` and `ResolverCrash`
interrupt it. `torn` says that the apply under way, or the last one, failed to write or
remove a file, `deaf` that the last signal did not arrive.

**Relational, Inventory and the tables.** `Migrations` gives each reference column its
parent, whether it may be NULL and its ON DELETE. A row is its references, the columns a
handler decides on and `rev`, a count of its other writes. A handler whose reads are
exactly what its foreign keys check again is one step. Every other handler leaves a *job*
behind with what it read, and the job writes later: `CountThenDelete` counts children and
`DeleteCounted` deletes; `deleteAsset`, `decommission`, `moveSupernet`, `importZone`,
`rotateTcpAoKeyChain`, `disableCatalogDnssec` and `bulkAddBlocklistEntries` are several
statements each, transactions where the code has one. A refusal by a foreign key or a
unique key ends the job. `InventoryApi` starts from `Start`, any database whose
references hold (`StartAssumption`); the run takes two rows of most tables
(`InitialRows` of `MCInventory`), so that every request has something to work on.

## Runs

| Run | Question | Result |
|---|---|---|
| `carve_scan` | does the loop return the lowest free sub-prefixes, in every parent of an eight-address space and for every set of up to two occupied prefixes, and stay inside the parent? | holds |
| `lir_registry` | one operator call at a time that may stop anywhere, disjoint sources that move between two pools: does the registry implement the abstract ledger, keep the sources of live allocations attached, and give what was asked for? | holds |
| `arin_two_workers` | two replicas, a crash, lost answers, the switch, a cleared handle: does a claimed row stay what it was, do the columns tell the truth, is only a returned range deregistered? | holds |
| `arin_liveness` | is every queued row served, with one row per tick and two rows? | holds |
| `dnssec_keys` | two operators and the job: can a role lose its last active key other than by a disable? | holds |
| `telemetry` | lost, late and refused posts, half-failed writes, failed acks, restarts: is anything lost, overtaken or stuck? | holds |
| `dhcp` | two pushes, deletes, diffs or bulk runs at a time, on one scope or on two, with two faults (a lost answer, a late execution, a cancelled call): is the subnet of a scope that records its id changed only by that scope's requests and those a first push of their own scope undercut? does every bundle give each scope of a family its own id, and a pushed one the id it has? | holds |
| `alerts` | two loops, two overlapping drains, operators, collectors, deleted assets, a window that begins and ends, a second breach, one crash or failed call: one firing alert per condition where the look-up was answered, events conserved, in order and all handled, a lasting breach alerted? | holds |
| `ipam_dns` | one lease sync, an age-out, a reconcile, two overlapping rebuilds that may stop half-way: do addresses keep their owner, are duplicates bounded, does the projection become exact again? | holds |
| `ipam_age_out` | does a lapsed lease leave the table, as the age-out's comment says? | violated |
| `dns_bundle` | tables that change between the queries of a request, failed writes and removals, a lost signal, crashes: does the etag vouch for the disk and does the site converge? | holds |
| `inventory` | every pair of console requests, interleaved statement by statement: are references live, claims unique, subnets with their supernet, deletions single, decisions final? | holds |

### Finding

- **A lapsed lease with a DNS name never leaves the table.** `dhcpageout.go` says that
  rows deprecated for more than a day are deleted. The projection lists deprecated rows
  too, so such a row has a record, `dns_records` refers to it without ON DELETE, and the
  DELETE of the whole batch is refused, each hour again. The run needs one address, one
  lease and the two cron jobs (`ipam_age_out`).

### Behaviours with no run of their own

The models contain these; each was met while modelling and can be reproduced by adding
the named definition to a configuration or by reading the trace a reader asks TLC for.

- *Registry.* A detach may overtake an approval and strand a live allocation: the count
  and the UPDATE are separate statements and the approval does not look at its source
  again (`pool_supernets.go:159-162`). A pool with a supernet and a part of it gives the
  same addresses away twice, though `approval.go:299` says cross-supernet allocations
  cannot collide. Two concurrent approvals can carve the same prefix, which
  `lir_allocations.sql` documents as accepted.
- *ARIN.* A range returned while its submit is queued is registered afterwards
  (`ReturnedIsNotRegistered`, against `returns.go:11`). A permanent error is retried
  (`PermanentIsNotRetried`, against `client.go:98`). `lir_arin.sql` says that pending
  rows surface first, but `failed` sorts before `pending`; a `failed` row may be
  registered upstream when the answer was lost.
- *Telemetry.* A retried batch has a new batch id, so the unique key of the hypertable
  never matches an earlier attempt's rows (`RetriesAreIdempotent`, against heron's
  `main.go:349` and `docs/ARCHITECTURE.md:138`).
- *DNSSEC.* A rotation that read the zone as signed inserts its key after a disable or a
  freeze; a delete whose query of the zone fails goes on though the zone is frozen
  (`dnssec_lifecycle.go:269-280`); an enable that stopped after the KSK makes the next one sign without a ZSK.
- *Alerts.* A rule without a site never fires (`EveryScopeIsAlerted`): `magpie/main.go:260-263`
  and `alerts/mutations.go:6-8` call a NULL `site_scope_id` enterprise-wide, but `evalOne`
  reads every site's samples for such a rule and then skips each breach (`main.go:318`).
  `BreachIsAlerted` is therefore stated for rules that have a site. The acknowledge never succeeds: `AckAlert` writes `'acked'::alert_state`, a
  value the type does not have (`00002_schema.sql:3` has `acknowledged`). Each dedupe
  SELECT of the sweep that fails, for whatever reason, adds a firing alert of the collector
  (`main.go:430`), and collector-down alerts never resolve. An alert deleted with its
  asset between a pass's read and its write is announced as resolved (`main.go:353-359`). A
  maintenance window without a site suppresses nothing, since `isSuppressed` compares the
  site. A decommission leaves `enabled` on, so the sweep alerts for it, and a late
  heartbeat undoes it; the sweep's UPDATE may overwrite a fresh heartbeat. A rule cannot be
  deleted while it has an alert, and only the deletion of the asset deletes one.
  Overlapping drains can deliver a resolve before its fire, though they pop in order. A
  drain uses the channels it listed at its start (`bridge.go:84`). `AtMostOneFiring` needs
  the single replica of `deploy/k8s/central/magpie.yaml:7`.
- *DHCP.* An update may be sent with an id its scope has lost (`UpdatesKeepTheirId`, against
  `push.go:22-24`, which says that it was claimed in a prior successful push). A push
  decides on the id it has loaded, which may be the claim of a first push of the same scope
  that then fails and is rolled back. If another scope claims the id meanwhile, the update
  replaces that scope's subnet in Kea; `NoForeignChange` says that this is the only way. A failed first push rolls its id claim back although Kea may hold the subnet;
  retries are then refused by Kea, and the next scope with that id may replace or delete
  what Kea holds: `NoForeignChange` protects scopes whose row records the id. A cancelled
  push does not roll back. Two first pushes of one scope write the id column one over the
  other. Tombstones keep their id without being in the allocator's list, so claims are
  refused until the purge. A diff records `in_sync` of a scope edited since it was loaded;
  a restore does not push again. The allocator's ids are unique per server, the bundle's
  per family, so a bundle may give an IPv4 and an IPv6 scope one id (`bundle.go:79-82`).
- *Addresses and records.* `UpdateDhcpLease` writes by id without a guard on the source,
  so a sync overwrites what a reconcile promoted in between (`leasesync/sync.go:198`).
  The cron rebuilds frozen zones (`operator-guide.md:126-129`). A second site that
  shares a /24 cannot create its reverse zone, whose name is globally unique: its rebuild
  stops after the drop, and the cron run with it (`dnssync.go:57-60`). A reverse zone
  without PTRs left is not touched. A bundle loaded in the middle of a rebuild publishes
  a half-empty zone.
- *Bundles.* An agent whose apply failed keeps the older etag, and if the tables go back
  to that content it leaves the torn files (`admin-guide.md:275`). A file whose removal
  failed stays until the next bundle that differs. After a signal that did not arrive the
  resolver serves the old files until then, as lastEtag is set regardless
  (`agent.go:121-122`); off Linux `signalReloads` does nothing, and a CoreDNS without a
  configured pidfile is never signalled: the model is of a site where signals are set up. The keys are queried
  twice (`bundle_handler.go:141,151`), so a DS can name a key that is not in the bundle.
  The RPZ serial is the time of rendering, so a hickory server with a blocklist applies
  every poll (`rpz.go:52`). Records and health flips do not move the SOA serial
  (`implementation.md:153-155`). `updateZone` and `deleteZone` do not look at `frozen`.
- *Tables.* Two cables may take one port (`cables/validators.go:59` looks, no key
  decides). A bulk update writes back the lifecycle state it read, which can undo a
  decommission. A refused asset delete leaves its addresses detached and its alerts
  dropped. `connect` accepts a decommissioned asset. A subnet inserted from a read that a
  supernet's move made stale keeps the old fabric (`strayed` in the model, against
  `ipam_move.sql:12`). A move ignores child supernets. `updateVni` may leave an L3 VNI
  without a VRF; `deleteVrf` trusts `is_default` as it read it. Deleting a DHCP server
  cascades to its scopes though Kea holds them. Two rotations of a TCP-AO chain may
  compute the same next id (against `tcp_ao_keys.go:511-515`); the unique key rolls the
  second back, which is why `OneClaimEach` holds.

### Bounds

| Bound | Value | Why it is enough |
|---|---|---|
| `AddrBits` | 1 to 3 | the carver's cases are: candidate before, inside, around and after an occupied prefix, and the last slot of a parent; three bits have them all |
| `ScanCap` | 5 in `carve_scan`, 4 otherwise | 5 is below the 8 candidates of the widest scan, so the cap cuts a scan; elsewhere it never bites |
| pools, sources, requests | 1 or 2 each | every property relates two requests, or one request, its source and its pool |
| `PoolSettings` | one in `lir_registry`, without an ARIN handle; with, and with a cleared one in `arin_two_workers` | the registry copies the handle into the allocation's ARIN columns and decides nothing else on it |
| `Nics` | 1 | the promises of the run need one call at a time; what holds for any number of operators is proved |
| `MaxAttempts` (5 in the code) | 2 | a first failure that is retried and a last one that is not |
| `MaxPerTick` (10 in the code) | 1 or 2 | less than, and as much as, the rows there are |
| `MaxCrashes` | 1 | a crash at every place of a transaction; its effect does not depend on earlier ones |
| `MaySwitch` | on in `arin_two_workers` | off in the liveness run, where a disabled integration would rightly serve nothing |
| `MaxKeys` (`DnssecKeys`) | 4 | an enable and two rotations, or an enable, a disable and an enable; the proofs have no bound |
| `MaxReadings`, `BatchSize` (500 in the code) | 3, 2 | a full and a partial batch, two metrics, one row that does not decode in the middle |
| `MaxFaults` (`TelemetryPipeline`) | 3 | any three of: lost post, late answer, failed write, refusal, failed ack, restart |
| `Scopes`, `Calls`, `MaxId` | 2, 2, 3 | a conflict over an id is between two scopes, of one call or of two, and a free id is left. Both are IPv4: scopes of two families meet only in the choice of an id and its unique index, and `BundleIdsAreOwn` is proved for any families |
| `MaxRequests`, `MaxEdits`, `MaxFaults` (`DhcpPush`) | 3, 1, 2 | two calls at once and one before or after them, around a failed and a late one; an edit takes the place of a request, since no edit moves an id |
| rules, assets, collectors, `Drains` | 1, 1, 1, 2 | rules share nothing but the pass's list of events; drains overlap in pairs |
| `MaxAlerts`, `BridgeBatch` (500 in the code), `MaxChanges`, `MaxLosses` (`AlertEngine`) | 3, 1, 3, 1 | changes and losses share the three, and the end of a breach or of a window is free: a rule, its breach and a window that begins and ends, or a second breach after the first has ended, or a crash, or the deletion of the alert under a breach that goes on; a batch that leaves payloads in the list |
| addresses, names, MACs, `DnsSyncs`, `MaxRows` | 1, 1, 2, 2, 2 (1 MAC, rebuild and row in `ipam_age_out`) | rows share nothing but the rebuilds; a row that is deleted and inserted again under a new id; two overlapping rebuilds, one of them the cron |
| `Leases`, `Reservations` | two clients, one with a name and one without; a reservation for the first, named or not (any lease in `ipam_age_out`) | an address changes hands, gains and loses its name; MACs decide nothing, so more of them repeat these |
| `MaxChanges`, `MaxFaults` (`IpamProjection`) | 3, 1 (no fault in `ipam_age_out`) | a lease, its promotion or lapse, and a rename; a run that stops anywhere |
| `Zones` | apex and child | a signed zone and the parent that publishes its DS |
| `MaxKeys`, `MaxChanges`, `MaxFaults` (`DnsBundle`) | 2, 2, 1 | a rotation; two changes in one request or across two polls, and back again; one crash, failed fetch, failed write, failed removal (of any files) or lost signal, anywhere |
| `Ids`, `MaxChanges` (`Inventory`) | {1, 2}, 2 | every race is between two requests, and TLC tries every pair of them |

Two models start from a state that is reachable but not empty, so that TLC spends its
states on what matters: the liveness run of the worker from `MCSettled`, with two rows
queued, and `inventory` from a small site with racks, assets, networks and zones (its
signed catalog is one the product took over with its database). Symmetry is used only
where no property is a liveness property. Deadlock is not checked: all these systems may
rest (no request left to decide, buffer empty, bounds reached).

### Fairness

- `ArinFeed`: weak fairness of each worker's steps (`Run` ticks until the process is
  stopped, and a stopped worker is restarted by its deployment) and of `Elapse` (time
  passes). Nothing is assumed of tenants, operators or ARIN's answers. `QueueIsServed` is
  conditional on operators not re-queueing rows for ever by the manual retry, which gives
  a row a fresh budget.
- `TelemetryPipeline`: weak fairness of the forwarder's loop and of heron's service of a
  post it has; none of faults, restarts or new readings. Faults are finite, so the claim
  is "once they stop, the buffer drains".
- `AlertEngine`: weak fairness of the evaluator's and the sweep's steps (tickers in a
  process that is restarted) and of each drain's (the cron entry). None of samples,
  operators, collectors, crashes.
- `IpamProjection`: weak fairness of the age-out job, of the start of the cron's rebuild
  and of the steps of a rebuild under way. None of lease syncs, reconciles or operators.
- `DnsBundle`: weak fairness of the agent's poll and apply loop, of the endpoint's
  queries, of the resolver's restart by its supervisor, and of the retirement that
  completes a rotation. None of the handlers.
- `CarveScan`: the loop keeps running.

Faults and changes are bounded in every liveness model, so each claim reads "once the
faults stop".

## Proofs

All theorems hold for every value of the constants: any address width, scan cap, number
of pools, sources, requests, operators, workers, keys, jobs, rules, collectors, drains,
readings, batches, scopes, subnet ids, addresses, syncs, zones, rows, changes and faults,
and any database that the console's requests may start from. Every invariant and every
action property of a passing run is a theorem, and so is the refinement. Every module's
proof follows one line: an inductive invariant, a lemma per action that it is kept, and
the theorem.

| Module | Theorem | Argument |
|---|---|---|
| `LirRegistryProofs` | `FirstFreeIsFree` | the least free index exists (the naturals are well founded); the candidate's arithmetic stays inside the parent |
| | `LoopComputesFirstFree` | loop invariant: every index below `idx` that is not collected is occupied; with limit 1 the first taken index is the least free one |
| | `ScanIsFirstFit`, `ScanStaysInFamily` | `CollectInv`: collected are exactly the free indexes below `idx`, ascending, fewer than the limit while the scan goes on; a scan ends full or with all of them. That an index is free address by address, as `FirstFit` says it, is that the overlap test of two prefixes (one is a prefix of the other) means a shared address |
| | `TypeCorrect`, `ApprovalIsConsistent` | inductive `Inv` = `TypeOK` and `SessionsBound` (a session past its load names a real request, pool and source) and `ApprovedHasAllocation`. `SessionsBound` is needed because the commit writes what the session remembers; that the pool still exists follows from the foreign keys in `DeleteRow` |
| | `DecisionsStand`, `LifecycleHolds` | action properties from `Inv`, one case per action |
| | `AllocationsAreCarved` | `CarveInv` adds that a session at its commit holds a prefix carved for its request from its source; attached sources have the pool's family, which never changes |
| | `SequentialReviewIsSafe` | under `OneNic` (one call at a time) and `DisjointSources`. `SeqInv` adds what the single session has read and what is therefore still true: its sources are attached, its candidate is free of the live allocations, a passed count is still zero |
| | `RegistryImplementsLedger` | the initial tables map to the empty ledger; one case per action of the registry: submit, cancel, reject, the commit of an approval and the two halves of a return are a step of the ledger each, every other leaves request status, allocation status and prefix alone. That a grant is free of what others hold is the disjointness of `SeqInv`, before and after the step, and that it is not empty is that a prefix has at least one address |
| | `ClaimsStayValid`, `ColumnsAreTrue`, `NoEarlyDeregistration` | of `ArinFeed`: `FeedInv` = the registry's `Inv`; a worker holds a row exactly while it is in a transaction (`WorkersBound`) and no two hold the same one (`OneHolder`, from SKIP LOCKED); of every held row, what the claim query selected, and that a positive answer is true of ARIN until it is recorded (`Holds`); `ColumnsMatchArin`. A handler's UPDATE needs the row unlocked, and an approval finds no row yet, so only the holder moves a held row; every step of the registry keeps `Inv` by the lemmas above |
| `DnssecKeysProofs` | `SuccessorsInPlace`, `SuccessorsBeforeRemoval`, `KeysTypeCorrect` | `KeyInv` = types; ids grow and a rotation lists only existing keys of its role; a key found retired stays so; `SuccessorInPlace`. A rotation's own key is newer than all it listed. When another rotation retires the key that vouched for it, that rotation's own successor is newer still |
| `TelemetryProofs` | `NoReadingIsLost`, `HistoryIsComplete`, `FreshnessHasBacking` | `PipelineInv` = types; a positive answer implies that its rows are stored, from heron's write until the ack (`Vouched`), which is what makes an ack safe; a post carries the rows the forwarder waits for (`AnswersMatch`, as batch ids grow); of the rows a post or the forwarder holds, every earlier readable one is held too or stored (`OldestFirst`), so that storing them leaves no gap; `NothingLost` and `HistoryHasNoGaps` themselves |
| `AlertEngineProofs` | `OneFiringPerKey` | `AlertInv` = the types; one firing alert per rule and asset, and per collector at most one that an answered look-up preceded (`OnePerKey`); and of every rule between its reads and its writes: the keys it will fire for have no firing alert, and the alert it will resolve is a row. Only the rule itself fires for its keys, and a rule is evaluated once at a time; that one commit fills distinct rows is counting (a surjection between sets of one size is injective) |
| | `NoEventVanishes`, `FireBeforeResolve` | `EventInv` = `AlertInv`; a firing alert is unresolved, only rules' alerts resolve, and what a pass is about to resolve is an unresolved row of its rule (`RowsOfEvents`); what magpie still owes is about committed rows (`OwedRows`); a drain holds an event exactly while it handles one (`DrainTypes`); and `FlowInv`: owed, queued, in hand, handled and lost events together are the announced ones, each in one place (`EventsConserved`), and unless a call has failed, an alert whose resolve is queued has no fire that is owed or behind it in the queue (`InOrder`). So an append and a pop, at the two ends of the queue, keep fires first |
| `DhcpPushProofs` | `DhcpTypeCorrect`, `ServedSubnetIsKept` | `DhcpInv` = types; recorded ids are unique (`UniqueIds`); of every request, what it has in hand at each of its steps, and that the scope it works on is still a row (`SessionOk`, `ReadOk`); and of every update and delete on its way to Kea, from a request or late: its id is still the one its scope records, or was taken from under it (`SentOk`, with `undercut`). So whoever changes a recorded subnet either is of the scope that records it, by uniqueness, or was undercut; an add changes nothing that is there |
| | `BundleIdsAreOwn` | the assignment of a family skips every recorded id of it; that it gives no id twice is that the n-th free id exists and is another for every n (`NthFree`, by a least counterexample), and that scopes of a family have distinct ranks (`Ranks`) |
| `IpamProjectionProofs` | `AddressesAndRecordsAgree` | `IpamInv` = `IpamTypeOK` by parts; ids at or above `nextRow` are free; an id that a lease sync or a reconcile found to be a lease's is below `nextRow` and is not, and never will be, an operator's (`NeverStatic`), since ids are not used again and a source only goes from `dhcp` to `reservation`; a rebuild knows only zones that exist, and is at a PTR only with the zone of its address |
| | `OwnersKeepTheirAddresses` | what no step does to a row (`Evolve`), proved with the invariant, action by action |
| | `CopiesStayBounded` | the rebuilds that have dropped a zone's records and may still write one of a row (`May`: it is in the run's list, or in hand before the zone's own step), together with the copies there are, are at most `DnsSyncs` (`RoomLeft`). A drop leaves no copy, so it may start a new run; an emit turns a pending write into a copy, and a run that lists an address lists it once |
| `DnsBundleProofs` | `TablesAreConsistent`, `EtagIsHonest` | `BundleInv` = the tables' consistency; of a bundle request, that what its queries have read so far has the shape they promise; of the site, types, and at each phase of an apply what has been removed and written so far if nothing failed (`Progress`, `Written`); `EtagVouchesForDisk` |
| `InventoryProofs` | `ReferencesHold`, `ClaimsAreSingle`, `SubnetsFollow` | `InventoryInv` = rows are numbered below `born`, and a job in flight has what its later statement writes (`JobOk`: a table that jobs work on, its columns, and none deletes a registration); and `DatabaseInv`: references hold, claims are single, subnets follow. Every step of every handler is one of few statements (`NextIsStep`): an insert, an update, a delete with its cascades, or one of the special ones. Each is shown once, for any table, to keep `DatabaseInv`, from what the migrations say (`SchemaSound`: SET NULL only where NULL is allowed). A delete removes the rows that cascade with it and clears the columns that are SET NULL, so what is left refers to rows that are left; a look-up that went stale is checked again by the foreign key, a claim by its unique index. A move refuses a supernet with subnets, so only a subnet inserted from an older read, patched, or parted from the start can differ (`strayed`) |
| | `RowsGoSingly` | no cascade takes a row of `Independent` (`SchemaSound`), and no statement deletes two |
| | `DecisionsAreFinal` | the status is in the WHERE of the statements that decide, nothing else writes it, and no statement removes a registration that is decided |

Assumptions: the named ASSUMEs on the constants, which TLC evaluates in the runs. They
are bounds that are numbers (room for an alert per change among them), finite sets of scopes and assets, what a
scope may be made of and what may be leased or reserved being of its columns' types, more subnet ids than scopes, `NONE` (an SQL NULL or a
missing row) being no value of the domain it is added to, `DedupeKeysAssumption` (a
rule's dedupe key is never a collector's), `SchemaIsMigrations` (the schema is the one of
the migrations), `StartAssumption` (the database the requests begin with meets its foreign
keys and unique indexes, which Postgres enforces, and its rows are numbered; it may hold
subnets that have strayed from their supernet), a finite set of rebuilds and a site zone that is not a reverse zone,
and `PowersOfTwo` (powers of two are positive and multiply by adding exponents), which the
provers have no rule for.

Hypotheses of theorems: `OneNic` and `DisjointSources` of `SequentialReviewIsSafe` and
`RegistryImplementsLedger`; neither can be dropped (see the registry's behaviours above).
`ApprovalIsConsistent`, `DecisionsStand`, `LifecycleHolds` and `AllocationsAreCarved` need
neither: they are what survives of the registry when operators race, and the reason why no
run repeats them with two operators. No other theorem has a hypothesis.

Only model-checked are the liveness properties (`Terminates`, `QueueIsServed`,
`BufferDrains`, `BreachIsAlerted`, `EventsAreHandled`, `ProjectionHeals`,
`SiteConverges`), which rest on fairness and ENABLED and so are out of the prover's reach,
and the violated statement `LapsedLeasesGo`.

No module has a RECURSIVE operator, so what the modules' operators compute is proved where
it is needed, without induction over data. Where a count would be a sum over a bag, the
model counts a set instead (`Copies` of `IpamProjection`, one element per copy).

## Not modelled, and why

- *Within the modelled parts:* authentication, organization and fabric scope (they only
  refuse calls), audit records, names and the unique keys on them, XML, templates' text
  and key material; rack units, port numbers and prefix arithmetic in the tables (the
  looked-up races on them are listed above); history rows of pushes, heartbeats and
  checks; the configuration overrides that a heartbeat brings back; a heron that is
  configured without a hypertable; an error of the ARIN worker before it has claimed a
  row, which only ends the tick; the NSEC3 parameters; SOA serials in zone files; the
  agent's status, metrics and dnstap reports, which nothing reads to decide; the references
  `telemetry_sources.asset_id`, those of `power_feeds` to a rack and to its upstream feed,
  those of `lir_allocations` to supernets and of `region_deployments` in `Migrations`, whose
  only effect is that more deletes are refused.
- *Out of scope:* device protocols, parsers of BIND files and NIC templates, forecasts,
  dashboards and search (no state or pure formatting), the token flow, whose rotation is
  the identity provider's, the cron harness, which remembers nothing, the health prober,
  which is a stateless loop, the web UI and the migrations, whose constraints are guards
  and effects of the models.

## Plan

Done: the modules and proofs above. What would add most next:

1. Proofs of the liveness properties, with the invariants proved here as their lemmas,
   once the prover handles ENABLED.
2. Rack units and ports in `Inventory`, with the races on them as violated statements
   once a document promises otherwise.
3. The heartbeat's configuration overrides in badger.
