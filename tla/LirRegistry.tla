---------------------------- MODULE LirRegistry ----------------------------
(***************************************************************************)
(* The Local Internet Registry of otter-go                                 *)
(* (packages/otter-go/internal/lir): pools of address space, the source    *)
(* supernets attached to them, the tenants' requests and the allocations   *)
(* carved for them.                                                        *)
(*                                                                         *)
(* The state is that of four Postgres tables.  A handler that is one       *)
(* guarded UPDATE (cancel, reject, return-request, return-confirm, ARIN    *)
(* retry) is one action: the status it checked before the UPDATE is checked *)
(* again by the UPDATE's WHERE clause.  A handler that reads in one        *)
(* statement and writes in a later one (approve, attach, detach, delete    *)
(* pool) is a session that takes one step per statement, so that the       *)
(* sessions of several NIC operators interleave, and that may be cut off   *)
(* between any two statements (a crashed pod, a cancelled request, a       *)
(* database error).                                                        *)
(*                                                                         *)
(* Left out: authentication and organization scope, audit records, names,  *)
(* timestamps, purposes and classifications.  Allocation r is the one of   *)
(* request r: lir_allocations.request_id is UNIQUE.  IPAM does not delete  *)
(* or re-prefix a supernet while it is in use here.                        *)
(***************************************************************************)
EXTENDS Cidr

CONSTANTS Pools, Supernets, Requests,
          Nics,             \* concurrently served NIC operator calls
          SupernetPrefix,   \* supernets.prefix of the candidate sources
          SupernetFamily,   \* 4 or 6, from the form of the prefix
          PoolSettings,     \* settings a NIC operator may give a pool
          Lengths,          \* prefix lengths a tenant may ask for
          AskedFamilies     \* families a tenant may ask for

Families == {4, 6}
ArinHandles == {"null", "empty", "set"}   \* lir_pools.arin_parent_net_handle
Settings == [fam : Families, min : Int, max : Int,
             enabled : BOOLEAN, handle : ArinHandles]

ASSUME PoolSettingsAssumption == PoolSettings \subseteq Settings
ASSUME LengthsAssumption == Lengths \subseteq Int
ASSUME AskedFamiliesAssumption == AskedFamilies \subseteq Families
ASSUME SupernetFamilyAssumption == SupernetFamily \in [Supernets -> Families]
ASSUME SupernetPrefixAssumption == SupernetPrefix \in [Supernets -> Prefixes]
ASSUME NoneIsNoRow == NONE \notin Pools \cup Supernets \cup Requests

VARIABLES
    pools,      \* lir_pools: state "absent" (no row yet), "live", "gone"
    source,     \* supernets.lir_pool_id of every candidate source
    requests,   \* lir_requests; status "absent" before the submit
    allocs,     \* lir_allocations by request; status "absent" before approve
    sess        \* what each NIC call has read so far

dbVars == <<pools, source, requests, allocs>>
vars == <<pools, source, requests, allocs, sess>>

Idle == [pc |-> "idle", req |-> NONE, pool |-> NONE, sn |-> NONE,
         srcs |-> {}, prefix |-> NONE, arin |-> "none"]

Init ==
    /\ pools = [p \in Pools |-> [state |-> "absent", fam |-> 4, min |-> 0,
                                 max |-> 0, enabled |-> FALSE, handle |-> "null"]]
    /\ source = [s \in Supernets |-> NONE]
    /\ requests = [r \in Requests |-> [status |-> "absent", fam |-> 4, len |-> 0,
                                       pool |-> NONE, approved |-> NONE]]
    /\ allocs = [r \in Requests |-> [status |-> "absent", pool |-> NONE, sn |-> NONE,
                                     prefix |-> NONE, arin |-> "none", net |-> FALSE,
                                     attempts |-> 0, due |-> TRUE, err |-> "none"]]
    /\ sess = [n \in Nics |-> Idle]

-----------------------------------------------------------------------------
(* Pools *)

\* validateFamilyPrefix and the CHECK ck_lir_pool_prefix_bounds.
BoundsOk(c) == 0 <= c.min /\ c.min <= c.max /\ c.max <= AddrBits

Row(c) == [state |-> "live", fam |-> c.fam, min |-> c.min, max |-> c.max,
           enabled |-> c.enabled, handle |-> c.handle]

createPool(p, c) ==
    /\ pools[p].state = "absent"
    /\ BoundsOk(c)
    /\ pools' = [pools EXCEPT ![p] = Row(c)]
    /\ UNCHANGED <<source, requests, allocs, sess>>

\* PATCH: any field but the family; the settings stay within bounds.
updatePool(p, c) ==
    /\ pools[p].state = "live"
    /\ c.fam = pools[p].fam
    /\ BoundsOk(c)
    /\ pools' = [pools EXCEPT ![p] = Row(c)]
    /\ UNCHANGED <<source, requests, allocs, sess>>

\* CountAllocationsForPool: returned allocations count too.
AllocationsOfPool(p) == {r \in Requests : allocs[r].status # "absent" /\ allocs[r].pool = p}

\* deletePool, first statements: the pool exists and no allocation names it.
DeleteCheck(n, p) ==
    /\ sess[n].pc = "idle"
    /\ pools[p].state = "live"
    /\ AllocationsOfPool(p) = {}
    /\ sess' = [sess EXCEPT ![n] = [Idle EXCEPT !.pc = "del_detach", !.pool = p]]
    /\ UNCHANGED dbVars

\* DetachAllPoolSupernets commits on its own.
DeleteDetachAll(n) ==
    /\ sess[n].pc = "del_detach"
    /\ source' = [s \in Supernets |-> IF source[s] = sess[n].pool THEN NONE ELSE source[s]]
    /\ sess' = [sess EXCEPT ![n].pc = "del_row"]
    /\ UNCHANGED <<pools, requests, allocs>>

\* The foreign keys that keep a pool row alive.
PoolReferenced(p) ==
    \/ AllocationsOfPool(p) # {}
    \/ \E r \in Requests : requests[r].pool = p \/ requests[r].approved = p

\* DeleteLirPool: the foreign keys refuse a referenced pool; supernets that
\* were attached meanwhile are set to NULL (ON DELETE SET NULL).
DeleteRow(n) ==
    /\ sess[n].pc = "del_row"
    /\ IF pools[sess[n].pool].state = "live" /\ ~PoolReferenced(sess[n].pool)
       THEN /\ pools' = [pools EXCEPT ![sess[n].pool].state = "gone"]
            /\ source' = [s \in Supernets |->
                            IF source[s] = sess[n].pool THEN NONE ELSE source[s]]
       ELSE UNCHANGED <<pools, source>>
    /\ sess' = [sess EXCEPT ![n] = Idle]
    /\ UNCHANGED <<requests, allocs>>

-----------------------------------------------------------------------------
(* Source supernets *)

\* validateAttachCandidate.  Candidate sources have no owner organization.
AttachCheck(n, p, s) ==
    /\ sess[n].pc = "idle"
    /\ pools[p].state = "live"
    /\ source[s] = NONE
    /\ SupernetFamily[s] = pools[p].fam
    /\ sess' = [sess EXCEPT ![n] = [Idle EXCEPT !.pc = "att_write", !.pool = p, !.sn = s]]
    /\ UNCHANGED dbVars

\* AttachSupernetToPool writes whatever the supernet's pool is by now; the
\* foreign key refuses a pool that is gone.
AttachWrite(n) ==
    /\ sess[n].pc = "att_write"
    /\ IF pools[sess[n].pool].state = "live"
       THEN source' = [source EXCEPT ![sess[n].sn] = sess[n].pool]
       ELSE UNCHANGED source
    /\ sess' = [sess EXCEPT ![n] = Idle]
    /\ UNCHANGED <<pools, requests, allocs>>

\* detachPoolSupernet reads the supernet's pool.
DetachLoad(n, p, s) ==
    /\ sess[n].pc = "idle"
    /\ source[s] = p
    /\ sess' = [sess EXCEPT ![n] = [Idle EXCEPT !.pc = "det_count", !.pool = p, !.sn = s]]
    /\ UNCHANGED dbVars

\* An allocation that occupies address space.
Live(a) == a.status \in {"active", "return_requested"}

DetachCount_Unchecked(n) ==
    /\ sess[n].pc = "det_count"
    /\ sess' = [sess EXCEPT ![n].pc = "det_write"]
    /\ UNCHANGED dbVars

\* CountAllocationsForPoolSupernet: refuse while live allocations trace back.
DetachCount(n) ==
    /\ sess[n].pc = "det_count"
    /\ IF \E r \in Requests : Live(allocs[r]) /\ allocs[r].sn = sess[n].sn
       THEN sess' = [sess EXCEPT ![n] = Idle]
       ELSE sess' = [sess EXCEPT ![n].pc = "det_write"]
    /\ UNCHANGED dbVars

\* DetachSupernetFromPool: only while it is still attached to that pool.
DetachWrite(n) ==
    /\ sess[n].pc = "det_write"
    /\ IF source[sess[n].sn] = sess[n].pool
       THEN source' = [source EXCEPT ![sess[n].sn] = NONE]
       ELSE UNCHANGED source
    /\ sess' = [sess EXCEPT ![n] = Idle]
    /\ UNCHANGED <<pools, requests, allocs>>

-----------------------------------------------------------------------------
(* Requests *)

submitRequest(r, f, l, p) ==
    /\ requests[r].status = "absent"
    /\ 0 <= l /\ l <= AddrBits
    /\ p # NONE => pools[p].state = "live"
    /\ requests' = [requests EXCEPT ![r] =
            [status |-> "pending_approval", fam |-> f, len |-> l,
             pool |-> p, approved |-> NONE]]
    /\ UNCHANGED <<pools, source, allocs, sess>>

cancelRequest_AnyStatus(r) ==
    /\ requests[r].status \in {"pending_approval", "approved"}
    /\ requests' = [requests EXCEPT ![r].status = "cancelled"]
    /\ UNCHANGED <<pools, source, allocs, sess>>

cancelRequest(r) ==
    /\ requests[r].status = "pending_approval"
    /\ requests' = [requests EXCEPT ![r].status = "cancelled"]
    /\ UNCHANGED <<pools, source, allocs, sess>>

rejectRequest_MarksFailed(r) ==
    /\ requests[r].status = "pending_approval"
    /\ requests' = [requests EXCEPT ![r].status = "failed"]
    /\ UNCHANGED <<pools, source, allocs, sess>>

rejectRequest(r) ==
    /\ requests[r].status = "pending_approval"
    /\ requests' = [requests EXCEPT ![r].status = "rejected"]
    /\ UNCHANGED <<pools, source, allocs, sess>>

\* The body's override wins over the request's preference.
resolveApprovedPoolID(override, preference) ==
    IF override # NONE THEN override ELSE preference

\* loadApprovableRequest and resolveApprovedPoolID.
ApproveLoad(n, r, override) ==
    LET p == resolveApprovedPoolID(override, requests[r].pool)
    IN  /\ sess[n].pc = "idle"
        /\ requests[r].status = "pending_approval"
        /\ p # NONE
        /\ sess' = [sess EXCEPT ![n] =
                        [Idle EXCEPT !.pc = "app_pool", !.req = r, !.pool = p]]
        /\ UNCHANGED dbVars

\* The pool is enabled, of the request's family, and allows the length.
PoolFits(pool, rq) ==
    /\ pool.state = "live"
    /\ pool.enabled
    /\ pool.fam = rq.fam
    /\ pool.min <= rq.len /\ rq.len <= pool.max

\* validatePoolForApproval.  The pool row read here also decides the initial
\* ARIN status: 'pending' iff the handle is neither NULL nor empty.
ApprovePool(n) ==
    LET pool == pools[sess[n].pool]
    IN  /\ sess[n].pc = "app_pool"
        /\ IF PoolFits(pool, requests[sess[n].req])
           THEN sess' = [sess EXCEPT ![n] = [@ EXCEPT
                    !.pc = "app_srcs",
                    !.arin = IF pool.handle = "set" THEN "pending" ELSE "none"]]
           ELSE sess' = [sess EXCEPT ![n] = Idle]
        /\ UNCHANGED dbVars

\* carveForApproval, ListPoolSupernetsForCarve.
ApproveSources(n) ==
    LET srcs == {s \in Supernets : source[s] = sess[n].pool}
    IN  /\ sess[n].pc = "app_srcs"
        /\ IF srcs = {}
           THEN sess' = [sess EXCEPT ![n] = Idle]
           ELSE sess' = [sess EXCEPT ![n] = [@ EXCEPT !.pc = "app_carve", !.srcs = srcs]]
        /\ UNCHANGED dbVars

Occupied_ActiveOnly(p, s) ==
    {allocs[r].prefix : r \in {q \in Requests :
        allocs[q].status = "active" /\ allocs[q].pool = p /\ allocs[q].sn = s}}

\* ListAllocatedPrefixesInPool, bucketed by pool supernet.
Occupied(p, s) ==
    {allocs[r].prefix : r \in {q \in Requests :
        Live(allocs[q]) /\ allocs[q].pool = p /\ allocs[q].sn = s}}

\* ORDER BY prefix: by network address, then by mask length.
NotAfter(s, t) ==
    LET p == SupernetPrefix[s]
        q == SupernetPrefix[t]
    IN  p.addr < q.addr \/ (p.addr = q.addr /\ p.bits <= q.bits)

\* What the carver offers from source s to the request of session n.
Carve(n, s) ==
    findFirstFreePrefix(SupernetPrefix[s], requests[sess[n].req].len,
                        Occupied(sess[n].pool, s))

\* carveForApproval: first fit over the sources in order.
ApproveCarve(n) ==
    LET fits == {s \in sess[n].srcs : Carve(n, s) # NONE}
    IN  /\ sess[n].pc = "app_carve"
        /\ \/ /\ fits = {}
              /\ sess' = [sess EXCEPT ![n] = Idle]
           \/ \E s \in fits :
                /\ \A t \in fits : NotAfter(s, t)
                /\ sess' = [sess EXCEPT ![n] = [@ EXCEPT !.pc = "app_commit", !.sn = s,
                                                      !.prefix = Carve(n, s)]]
        /\ UNCHANGED dbVars

\* The ApproveLirRequest CTE: flips the request only while it is pending and
\* inserts the allocation only when it flipped; a foreign key refuses a pool
\* that is gone.
ApproveCommit(n) ==
    LET r == sess[n].req
    IN  /\ sess[n].pc = "app_commit"
        /\ IF requests[r].status = "pending_approval" /\ pools[sess[n].pool].state = "live"
           THEN /\ requests' = [requests EXCEPT ![r] =
                        [@ EXCEPT !.status = "approved", !.approved = sess[n].pool]]
                /\ allocs' = [allocs EXCEPT ![r] =
                        [status |-> "active", pool |-> sess[n].pool, sn |-> sess[n].sn,
                         prefix |-> sess[n].prefix, arin |-> sess[n].arin,
                         net |-> FALSE, attempts |-> 0, due |-> TRUE, err |-> "none"]]
           ELSE UNCHANGED <<requests, allocs>>
        /\ sess' = [sess EXCEPT ![n] = Idle]
        /\ UNCHANGED <<pools, source>>

\* A call ends between two of its statements: a database error, a cancelled
\* HTTP request, a crashed pod.  What it committed stays.
Abort(n) ==
    /\ sess[n].pc # "idle"
    /\ sess' = [sess EXCEPT ![n] = Idle]
    /\ UNCHANGED dbVars

-----------------------------------------------------------------------------
(* Allocations *)

requestReturnAllocation(r) ==
    /\ allocs[r].status = "active"
    /\ allocs' = [allocs EXCEPT ![r].status = "return_requested"]
    /\ UNCHANGED <<pools, source, requests, sess>>

\* ConfirmReturnLirAllocation: a registered row is queued for removal with a
\* fresh attempt budget, any other ARIN state is left alone.
confirmReturnAllocation(r) ==
    /\ allocs[r].status = "return_requested"
    /\ IF allocs[r].arin = "registered"
       THEN allocs' = [allocs EXCEPT ![r] = [@ EXCEPT !.status = "returned", !.arin = "removing",
                                                      !.attempts = 0, !.due = TRUE,
                                                      !.err = "none"]]
       ELSE allocs' = [allocs EXCEPT ![r].status = "returned"]
    /\ UNCHANGED <<pools, source, requests, sess>>

\* ResetArinJobForRetry: the direction follows from the net handle.
retryAllocationArin(r) ==
    /\ allocs[r].status # "absent"
    /\ allocs[r].arin \in {"failed", "none"}
    /\ allocs' = [allocs EXCEPT ![r] = [@ EXCEPT
                    !.arin = IF allocs[r].net THEN "removing" ELSE "pending",
                    !.attempts = 0, !.due = TRUE, !.err = "none"]]
    /\ UNCHANGED <<pools, source, requests, sess>>

-----------------------------------------------------------------------------
PoolStep ==
    \/ \E p \in Pools, c \in PoolSettings : createPool(p, c) \/ updatePool(p, c)
    \/ \E n \in Nics, p \in Pools : DeleteCheck(n, p)
    \/ \E n \in Nics : DeleteDetachAll(n) \/ DeleteRow(n)

SourceStep ==
    \/ \E n \in Nics, p \in Pools, s \in Supernets :
            AttachCheck(n, p, s) \/ DetachLoad(n, p, s)
    \/ \E n \in Nics : AttachWrite(n) \/ DetachCount(n) \/ DetachWrite(n)

TenantStep ==
    \/ \E r \in Requests, f \in AskedFamilies, l \in Lengths, p \in Pools \cup {NONE} :
            submitRequest(r, f, l, p)
    \/ \E r \in Requests : cancelRequest(r) \/ rejectRequest(r)

ApproveStep ==
    \/ \E n \in Nics, r \in Requests, p \in Pools \cup {NONE} : ApproveLoad(n, r, p)
    \/ \E n \in Nics : ApprovePool(n) \/ ApproveSources(n) \/ ApproveCarve(n)
                       \/ ApproveCommit(n) \/ Abort(n)

AllocationStep(r) ==
    requestReturnAllocation(r) \/ confirmReturnAllocation(r) \/ retryAllocationArin(r)

Next == PoolStep \/ SourceStep \/ TenantStep \/ ApproveStep
            \/ \E r \in Requests : AllocationStep(r)

Spec == Init /\ [][Next]_vars

-----------------------------------------------------------------------------
(* What the registry promises *)

RequestStatus == {"absent", "pending_approval", "approved", "rejected", "cancelled"}
AllocStatus == {"absent", "active", "return_requested", "returned"}
ArinStatus == {"none", "pending", "registered", "failed", "removing", "removed"}
SessionPc == {"idle", "app_pool", "app_srcs", "app_carve", "app_commit", "att_write",
              "det_count", "det_write", "del_detach", "del_row"}

ArinErrors == {"none", "transient", "permanent"}   \* arin_last_error, by class
PrefixColumn == [addr : Int, bits : Int] \cup {NONE}

\* The rows and the sessions are well formed: the CHECK constraints of
\* migration 00064 and the Go types of the handlers.
TypeOK ==
    /\ pools \in [Pools -> [state : {"absent", "live", "gone"}, fam : Families,
                            min : Int, max : Int, enabled : BOOLEAN,
                            handle : ArinHandles]]
    /\ source \in [Supernets -> Pools \cup {NONE}]
    /\ requests \in [Requests -> [status : RequestStatus, fam : Families, len : Int,
                                  pool : Pools \cup {NONE},
                                  approved : Pools \cup {NONE}]]
    /\ allocs \in [Requests -> [status : AllocStatus, pool : Pools \cup {NONE},
                                sn : Supernets \cup {NONE}, prefix : PrefixColumn,
                                arin : ArinStatus, net : BOOLEAN,
                                attempts : Nat, due : BOOLEAN, err : ArinErrors]]
    /\ sess \in [Nics -> [pc : SessionPc, req : Requests \cup {NONE},
                          pool : Pools \cup {NONE}, sn : Supernets \cup {NONE},
                          srcs : SUBSET Supernets, prefix : PrefixColumn,
                          arin : {"none", "pending"}]]

\* An approved request has exactly one allocation, in the pool it was approved
\* into, and that pool's row still exists; no other request has one.  The CTE,
\* the foreign keys and the session's stale reads meet here.
ApprovedHasAllocation ==
    \A r \in Requests :
        /\ (requests[r].status = "approved") <=> (allocs[r].status # "absent")
        /\ requests[r].status = "approved" =>
            /\ allocs[r].pool = requests[r].approved
            /\ allocs[r].pool \in Pools
            /\ pools[allocs[r].pool].state = "live"

\* Once decided or withdrawn, a request never changes again, whatever approvals
\* were under way when it was.
DecisionIsFinal ==
    [][\A r \in Requests : requests[r].status \in {"approved", "rejected", "cancelled"}
                                => requests'[r] = requests[r]]_vars

\* An allocation only moves active -> return_requested -> returned, and what was
\* carved for a tenant is never re-carved or moved to another pool.
AllocationLifecycle ==
    [][\A r \in Requests :
        allocs[r].status # "absent" =>
            /\ <<allocs[r].status, allocs'[r].status>> \in
                    {<<"active", "return_requested">>, <<"return_requested", "returned">>}
               \/ allocs'[r].status = allocs[r].status
            /\ allocs'[r].prefix = allocs[r].prefix
            /\ allocs'[r].pool = allocs[r].pool
            /\ allocs'[r].sn = allocs[r].sn]_vars

\* The carver's promise: what a tenant got has the length asked for, lies inside
\* the source supernet, and was within the pool's bounds when it was checked.
CarvedAsAsked ==
    \A r \in Requests : allocs[r].status # "absent" =>
        /\ allocs[r].prefix.bits = requests[r].len
        /\ Addresses(allocs[r].prefix) \subseteq Addresses(SupernetPrefix[allocs[r].sn])
        /\ SupernetFamily[allocs[r].sn] = requests[r].fam

\* No two live allocations share an address.
NoOverlap ==
    \A r, q \in Requests :
        (r # q /\ Live(allocs[r]) /\ Live(allocs[q]))
            => ~prefixesOverlap(allocs[r].prefix, allocs[q].prefix)

\* A live allocation's source supernet is still attached to its pool:
\* detachPoolSupernet refuses otherwise, since the carver could no longer see
\* what the supernet has given away.
LiveSourceAttached ==
    \A r \in Requests : Live(allocs[r]) => source[allocs[r].sn] = allocs[r].pool
=============================================================================
