------------------------------ MODULE ArinFeed ------------------------------
(***************************************************************************)
(* The ARIN feed-up worker (packages/otter-go/internal/lir/arin) on top of *)
(* the registry, and ARIN's Reg-RWS as the worker sees it.                 *)
(*                                                                         *)
(* A worker processes one row per database transaction: claim the row with *)
(* FOR UPDATE SKIP LOCKED, call ARIN, record the outcome, commit.  The row  *)
(* lock makes every UPDATE of the row by a registry handler wait for the   *)
(* transaction's end, so a handler's action needs the row unlocked.  A     *)
(* worker that dies rolls the claim back, whatever ARIN already did.       *)
(*                                                                         *)
(* ARIN is external: it accepts or refuses a call, and a call whose answer *)
(* is lost may or may not have taken effect.  `upstream` is the set of     *)
(* allocations for which ARIN holds a reassignment.                        *)
(*                                                                         *)
(* Rows of one status are claimed in any order (the code takes the oldest). *)
(***************************************************************************)
EXTENDS LirRegistry

CONSTANTS Workers,
          MaxAttempts,      \* backoff.go MaxAttempts, 5 in the code
          MaxPerTick,       \* rows per tick, 10 in the code
          MaxCrashes,       \* bound on worker crashes in a behaviour
          MaySwitch         \* whether an operator toggles arin.regrws.enabled

ASSUME MaxAttemptsAssumption == MaxAttempts \in Nat \ {0}
ASSUME MaxPerTickAssumption == MaxPerTick \in Nat \ {0}
ASSUME MaxCrashesAssumption == MaxCrashes \in Nat
ASSUME MaySwitchAssumption == MaySwitch \in BOOLEAN

VARIABLES
    workers,    \* per worker: where it is in its tick, the row it has locked,
                \* the answer it got, the rows it has processed this tick
    upstream,   \* the allocations ARIN holds a reassignment for
    arinOn,     \* system_settings arin.regrws.enabled
    crashes     \* crashes so far, for the bound

feedVars == <<workers, upstream, arinOn, crashes>>
allVars == <<pools, source, requests, allocs, sess, workers, upstream, arinOn, crashes>>

Resting == [pc |-> "idle", row |-> NONE, reply |-> "none", processed |-> 0]

FeedInit ==
    /\ Init
    /\ workers = [w \in Workers |-> Resting]
    /\ upstream = {}
    /\ arinOn \in IF MaySwitch THEN BOOLEAN ELSE {TRUE}
    /\ crashes = 0

Locked(r) == \E w \in Workers : workers[w].row = r

\* A 'failed' row whose attempts are not used up and whose backoff elapsed.
RetryDue(a) == a.arin = "failed" /\ a.attempts < MaxAttempts /\ a.due

HasParentHandle(a) == pools[a.pool].handle # "null"

Submittable_AnyHandle(r) ==
    /\ allocs[r].status # "absent"
    /\ ~Locked(r)
    /\ HasParentHandle(allocs[r])
    /\ allocs[r].arin = "pending" \/ RetryDue(allocs[r])

\* The WHERE clause of ClaimNextArinSubmitJob.
Submittable(r) ==
    /\ allocs[r].status # "absent"
    /\ ~Locked(r)
    /\ HasParentHandle(allocs[r])
    /\ ~allocs[r].net
    /\ allocs[r].arin = "pending" \/ RetryDue(allocs[r])

Removable_StillRegistered(r) ==
    /\ allocs[r].status # "absent"
    /\ ~Locked(r)
    /\ HasParentHandle(allocs[r])
    /\ allocs[r].net

Removable_OnlyRetries(r) ==
    /\ allocs[r].status # "absent"
    /\ ~Locked(r)
    /\ HasParentHandle(allocs[r])
    /\ allocs[r].net
    /\ RetryDue(allocs[r])

\* The WHERE clause of ClaimNextArinRemoveJob.
Removable(r) ==
    /\ allocs[r].status # "absent"
    /\ ~Locked(r)
    /\ HasParentHandle(allocs[r])
    /\ allocs[r].net
    /\ allocs[r].arin = "removing" \/ RetryDue(allocs[r])

\* ORDER BY arin_status: 'failed' sorts before 'pending' and 'removing'.
FirstByStatus(rows) ==
    LET failed == {r \in rows : allocs[r].arin = "failed"}
    IN  IF failed # {} THEN failed ELSE rows

-----------------------------------------------------------------------------
(* The worker *)

\* tick: LoadConfig, then the submit queue.
Tick(w) ==
    /\ workers[w].pc = "idle"
    /\ arinOn
    /\ workers' = [workers EXCEPT ![w] = [Resting EXCEPT !.pc = "submit"]]
    /\ UNCHANGED <<vars, upstream, arinOn, crashes>>

\* The first loop ends: no row to submit, or the tick's budget is used up.
SubmitQueueDone(w) ==
    /\ workers[w].pc = "submit"
    /\ workers[w].processed >= MaxPerTick \/ ~\E r \in Requests : Submittable(r)
    /\ workers' = [workers EXCEPT ![w].pc = "remove"]
    /\ UNCHANGED <<vars, upstream, arinOn, crashes>>

ClaimSubmit(w) ==
    /\ workers[w].pc = "submit"
    /\ workers[w].processed < MaxPerTick
    /\ \E r \in FirstByStatus({q \in Requests : Submittable(q)}) :
            workers' = [workers EXCEPT ![w].pc = "submit_call", ![w].row = r]
    /\ UNCHANGED <<vars, upstream, arinOn, crashes>>

\* SubmitReassignDetailed and classifyResponse: a 2xx answer carries the handle;
\* a lost or unparseable answer and 429/5xx are transient, with or without the
\* reassignment made; any other answer is permanent and nothing was made.
SubmitCall(w) ==
    LET r == workers[w].row
    IN  /\ workers[w].pc = "submit_call"
        /\ \E answer \in {"ok", "transient", "permanent"} :
            /\ workers' = [workers EXCEPT ![w].pc = "submit_mark", ![w].reply = answer]
            /\ \/ answer # "permanent" /\ upstream' = upstream \cup {r}
               \/ answer # "ok" /\ UNCHANGED upstream
        /\ UNCHANGED <<vars, arinOn, crashes>>

\* MarkArinRegistered stores the handle that ARIN answered with.
Registered(a) ==
    [a EXCEPT !.arin = "registered", !.net = TRUE, !.attempts = @ + 1,
              !.due = FALSE, !.err = "none"]

\* MarkArinFailed: counts the attempt and starts the backoff.
Failed(a, answer) ==
    [a EXCEPT !.arin = "failed", !.attempts = @ + 1, !.due = FALSE, !.err = answer]

\* MarkArinRegistered or MarkArinFailed, and the commit that releases the row.
SubmitMark(w) ==
    LET r == workers[w].row
    IN  /\ workers[w].pc = "submit_mark"
        /\ allocs' = [allocs EXCEPT ![r] =
                IF workers[w].reply = "ok"
                THEN Registered(@)
                ELSE Failed(@, workers[w].reply)]
        /\ workers' = [workers EXCEPT ![w] =
                [Resting EXCEPT !.pc = "submit", !.processed = workers[w].processed + 1]]
        /\ UNCHANGED <<pools, source, requests, sess, upstream, arinOn, crashes>>

ClaimRemove(w) ==
    /\ workers[w].pc = "remove"
    /\ workers[w].processed < MaxPerTick
    /\ \E r \in FirstByStatus({q \in Requests : Removable(q)}) :
            workers' = [workers EXCEPT ![w].pc = "remove_call", ![w].row = r]
    /\ UNCHANGED <<vars, upstream, arinOn, crashes>>

RemoveCall_ErrorIsSuccess(w) ==
    LET r == workers[w].row
    IN  /\ workers[w].pc = "remove_call"
        /\ workers' = [workers EXCEPT ![w].pc = "remove_mark", ![w].reply = "ok"]
        /\ upstream' \in {upstream, upstream \ {r}}
        /\ UNCHANGED <<vars, arinOn, crashes>>

\* RemoveReassignment and classifyRemoveResponse: 2xx and 404 both mean that ARIN
\* holds nothing any more.
RemoveCall(w) ==
    LET r == workers[w].row
    IN  /\ workers[w].pc = "remove_call"
        /\ \E answer \in {"ok", "transient", "permanent"} :
            /\ workers' = [workers EXCEPT ![w].pc = "remove_mark", ![w].reply = answer]
            /\ \/ answer # "permanent" /\ upstream' = upstream \ {r}
               \/ answer # "ok" /\ UNCHANGED upstream
        /\ UNCHANGED <<vars, arinOn, crashes>>

\* MarkArinRemoved keeps the handle.
Removed(a) ==
    [a EXCEPT !.arin = "removed", !.attempts = @ + 1, !.due = FALSE, !.err = "none"]

\* MarkArinRemoved or MarkArinFailed, and the commit.
RemoveMark(w) ==
    LET r == workers[w].row
    IN  /\ workers[w].pc = "remove_mark"
        /\ allocs' = [allocs EXCEPT ![r] =
                IF workers[w].reply = "ok"
                THEN Removed(@)
                ELSE Failed(@, workers[w].reply)]
        /\ workers' = [workers EXCEPT ![w] =
                [Resting EXCEPT !.pc = "remove", !.processed = workers[w].processed + 1]]
        /\ UNCHANGED <<pools, source, requests, sess, upstream, arinOn, crashes>>

\* The second loop ends and the worker sleeps until the next tick.
TickDone(w) ==
    /\ workers[w].pc = "remove"
    /\ workers[w].processed >= MaxPerTick \/ ~\E r \in Requests : Removable(r)
    /\ workers' = [workers EXCEPT ![w] = Resting]
    /\ UNCHANGED <<vars, upstream, arinOn, crashes>>

\* A crash, or a failed mark or commit: the transaction rolls back, the row lock
\* is released and the tick is over.
Crash(w) ==
    /\ workers[w].row # NONE
    /\ crashes < MaxCrashes
    /\ crashes' = crashes + 1
    /\ workers' = [workers EXCEPT ![w] = Resting]
    /\ UNCHANGED <<vars, upstream, arinOn>>

\* The backoff interval of a failed row elapses.
Elapse(r) ==
    /\ allocs[r].arin = "failed"
    /\ ~allocs[r].due
    /\ ~Locked(r)
    /\ allocs' = [allocs EXCEPT ![r].due = TRUE]
    /\ UNCHANGED <<pools, source, requests, sess, workers, upstream, arinOn, crashes>>

\* An operator turns the integration on or off.
Switch ==
    /\ MaySwitch
    /\ arinOn' = ~arinOn
    /\ UNCHANGED <<vars, workers, upstream, crashes>>

WorkerStep(w) ==
    \/ Tick(w) \/ SubmitQueueDone(w) \/ ClaimSubmit(w) \/ SubmitCall(w) \/ SubmitMark(w)
    \/ ClaimRemove(w) \/ RemoveCall(w) \/ RemoveMark(w) \/ TickDone(w)

\* A registry step; one that updates an allocation waits for its row lock.
RegistryStep ==
    /\ \/ PoolStep \/ SourceStep \/ TenantStep \/ ApproveStep
       \/ \E r \in Requests : ~Locked(r) /\ AllocationStep(r)
    /\ UNCHANGED feedVars

FeedNext ==
    \/ RegistryStep
    \/ \E w \in Workers : WorkerStep(w) \/ Crash(w)
    \/ \E r \in Requests : Elapse(r)
    \/ Switch

FeedSpec == FeedInit /\ [][FeedNext]_allVars

\* The worker process keeps running and time passes; nothing is assumed of the
\* operators, the tenants or ARIN.
FeedFairness ==
    /\ \A w \in Workers : WF_allVars(WorkerStep(w))
    /\ \A r \in Requests : WF_allVars(Elapse(r))

FairFeedSpec == FeedSpec /\ FeedFairness

-----------------------------------------------------------------------------
(* What the feed promises *)

\* From the claim to the commit the row stays what the claim query selected: no
\* return, retry or other worker changes it under the call to ARIN.
ClaimStillValid ==
    \A w \in Workers :
        /\ workers[w].pc \in {"submit_call", "submit_mark"} =>
            /\ workers[w].row \in Requests
            /\ ~allocs[workers[w].row].net
            /\ allocs[workers[w].row].arin \in {"pending", "failed"}
        /\ workers[w].pc \in {"remove_call", "remove_mark"} =>
            /\ workers[w].row \in Requests
            /\ allocs[workers[w].row].net
            /\ allocs[workers[w].row].status = "returned"
            /\ allocs[workers[w].row].arin \in {"removing", "failed"}

\* What the arin columns say is true of ARIN: a registered allocation is held
\* there, a removed one is not, and only a returned one is ever being removed.
ColumnsMatchArin ==
    \A r \in Requests :
        /\ allocs[r].arin = "registered" => r \in upstream /\ allocs[r].net
        /\ allocs[r].arin = "removed" => r \notin upstream /\ allocs[r].net
        /\ allocs[r].net /\ allocs[r].arin # "registered" => allocs[r].status = "returned"

\* ARIN never loses the reassignment of an allocation that is still in use.
DeregisteredOnlyAfterReturn ==
    [][\A r \in upstream : r \notin upstream' => allocs[r].status = "returned"]_allVars

\* A row the worker owes an attempt: queued in either direction, or a failure
\* whose backoff has elapsed.
Queued(a) == a.arin \in {"pending", "removing"} \/ RetryDue(a)

\* Every row the worker owes an attempt gets it, as long as operators do not
\* re-queue rows for ever: neither the submit queue, nor retries that sort before
\* fresh rows, nor the tick's budget starve a row.
QueueIsServed ==
    <>[][\A q \in Requests : ~retryAllocationArin(q)]_allVars
        => \A r \in Requests : Queued(allocs[r]) ~> ~Queued(allocs[r])

\* returns.go: a returned allocation that never reached ARIN has nothing upstream
\* to remove, so nothing may register it any more.
ReturnedIsNotRegistered ==
    \A r \in Requests : allocs[r].status = "returned" => allocs[r].arin # "registered"

\* The row a worker locks in a step.
Claims(w, r) == workers[w].row = NONE /\ workers'[w].row = r

\* client.go: an error marked permanent is not retried automatically.
PermanentIsNotRetried ==
    [][\A w \in Workers, r \in Requests : Claims(w, r) => allocs[r].err # "permanent"]_allVars
=============================================================================
