---------------------------- MODULE AlertEngine ----------------------------
(***************************************************************************)
(* Alerts from a breached rule to a sent notification: the evaluator and   *)
(* the collector sweep (packages/magpie), the alerts, collectors and       *)
(* notification handlers (packages/otter-go/internal) and the scheduler's  *)
(* bridge, which drains the Redis list that magpie pushes to.              *)
(*                                                                         *)
(* magpie runs its two loops side by side, each at most once at a time; a  *)
(* pass evaluates the enabled rules in parallel and pushes what fired or   *)
(* resolved when all of them are done.  A rule's transaction is two steps, *)
(* what it reads and what it commits.  The cron library starts a drain     *)
(* whether or not the previous one has ended, so drains overlap.           *)
(*                                                                         *)
(* The metric's window query is abstracted to the verdict it leads to: no  *)
(* sample, within the threshold, or in breach of it.  One site, one        *)
(* maintenance window, one channel.  The acknowledge is left out: AckAlert *)
(* writes the state 'acked', which the type alert_state does not have, so  *)
(* the statement fails and changes nothing.                                *)
(*                                                                         *)
(* A deleted alert stays in `alerts` with the state "deleted": no id comes *)
(* back, and the properties can speak of the events about it.              *)
(***************************************************************************)
EXTENDS Naturals, Sequences, FiniteSets

CONSTANTS
    Rules, Assets, Collectors,
    Drains,        \* runs of the bridge that may overlap
    MaxAlerts,     \* rows of the alerts table
    BridgeBatch,   \* payloads per drain, 500 in the code
    MaxChanges,    \* bound on changes and losses together
    MaxLosses,     \* bound on the steps in which a process dies or a call fails
    NONE

ASSUME AlertBoundsAssumption ==
    /\ MaxAlerts \in Nat /\ MaxChanges \in Nat /\ MaxLosses \in Nat
    /\ BridgeBatch \in Nat \ {0}
    /\ MaxChanges <= MaxAlerts
\* The dedupe key of a rule names the rule and the asset, that of a collector
\* starts with "collector-down".
ASSUME DedupeKeysAssumption == Collectors \cap (Rules \X Assets) = {}
ASSUME AssetsAssumption == IsFiniteSet(Assets)

VARIABLES
    rules,       \* alert_rules: NONE, or enabled and scoped to a site
    reading,     \* what the window query would say of a rule and an asset
    window,      \* a maintenance window of the site covers now
    alerts,      \* the alerts table, by id, and which of its alerts were resolved
    eval,        \* the evaluation pass: rules by progress, and what it owes the queue
    sweep,       \* the collector sweep
    collectors,  \* collectors
    queue,       \* the list dcim:notify:bridge
    channel,     \* notification_channels
    drains,      \* the runs of the bridge
    handled,     \* the events the bridge is done with
    sent,        \* the events a channel accepted
    lost,        \* the events a crash or a failed call dropped
    changes, losses

alertVars == <<rules, reading, window, alerts, eval, sweep, collectors, queue, channel,
               drains, handled, sent, lost, changes, losses>>
ruleVars == <<rules, reading, window>>
bridgeVars == <<channel, drains, handled, sent>>
boundVars == <<changes, losses>>

Ids == 1 .. MaxAlerts
Keys == (Rules \X Assets) \cup Collectors
\* NONE is NULL, or that there is no row: neither an alert nor an event.
ASSUME NoneAssumption ==
    /\ NONE \notin [key : Keys, state : {"firing", "resolved", "deleted"},
                    resolved : BOOLEAN, looked : BOOLEAN]
    /\ NONE \notin [kind : {"fire", "resolve"}, id : Ids]
NoPass == [jobs |-> [r \in Rules |-> NONE], fired |-> {}, resolved |-> {}, pc |-> "idle"]
NoSweep == [pc |-> "idle", todo |-> {}, fired |-> {}]
NoDrain == [pc |-> "idle", ch |-> NONE, ev |-> NONE, n |-> 0]
Enrolled == [status |-> "pending", enabled |-> TRUE, seen |-> "never"]

AlertInit ==
    /\ rules = [r \in Rules |-> NONE]
    /\ reading = [k \in Rules \X Assets |-> "none"]
    /\ window = FALSE
    /\ alerts = [i \in Ids |-> NONE]
    /\ eval = NoPass
    /\ sweep = NoSweep
    /\ collectors = [c \in Collectors |-> NONE]
    /\ queue = <<>>
    /\ channel = [enabled |-> TRUE, fire |-> TRUE, resolve |-> TRUE, severe |-> FALSE]
    /\ drains = [d \in Drains |-> NoDrain]
    /\ handled = {}
    /\ sent = {}
    /\ lost = {}
    /\ changes = 0
    /\ losses = 0

\* A sample, a delete or a change of the configuration.  The end of a breach or of a
\* maintenance window is not counted: there are as many as beginnings, which are.
Change == changes + losses < MaxChanges /\ changes' = changes + 1 /\ UNCHANGED losses
Loss ==
    /\ losses < MaxLosses /\ changes + losses < MaxChanges
    /\ losses' = losses + 1 /\ UNCHANGED changes

Stands(i) == alerts[i] # NONE /\ alerts[i].state # "deleted"
Firing(k) == {i \in Ids : alerts[i] # NONE /\ alerts[i].key = k /\ alerts[i].state = "firing"}
NextId == CHOOSE i \in Ids : alerts[i] = NONE /\ \A j \in 1 .. i - 1 : alerts[j] # NONE
Room == \E i \in Ids : alerts[i] = NONE

-----------------------------------------------------------------------------
(* The alerts, maintenance and collectors handlers *)

createRule(r) ==
    /\ rules[r] = NONE
    /\ \E e, s \in BOOLEAN : rules' = [rules EXCEPT ![r] = [enabled |-> e, scoped |-> s]]
    /\ Change
    /\ UNCHANGED <<reading, window, alerts, eval, sweep, collectors, queue, bridgeVars, lost>>

updateRule(r) ==
    /\ rules[r] # NONE
    /\ \E e, s \in BOOLEAN :
        /\ rules[r] # [enabled |-> e, scoped |-> s]
        /\ rules' = [rules EXCEPT ![r] = [enabled |-> e, scoped |-> s]]
    /\ Change
    /\ UNCHANGED <<reading, window, alerts, eval, sweep, collectors, queue, bridgeVars, lost>>

\* alerts.rule_id refuses the delete of a rule as long as it has an alert.
deleteRule(r) ==
    /\ rules[r] # NONE
    /\ \A i \in Ids, a \in Assets : Stands(i) => alerts[i].key # <<r, a>>
    /\ rules' = [rules EXCEPT ![r] = NONE]
    /\ Change
    /\ UNCHANGED <<reading, window, alerts, eval, sweep, collectors, queue, bridgeVars, lost>>

\* The delete of an asset drops its alerts in a statement of its own, and is then
\* refused while the asset has samples; one that has none is never read again.
deleteAsset(a) ==
    /\ \E i \in Ids, r \in Rules : Stands(i) /\ alerts[i].key = <<r, a>>
    /\ alerts' = [i \in Ids |-> IF Stands(i) /\ alerts[i].key \in Rules \X {a}
                                THEN [alerts[i] EXCEPT !.state = "deleted"] ELSE alerts[i]]
    /\ Change
    /\ UNCHANGED <<ruleVars, eval, sweep, collectors, queue, bridgeVars, lost>>

\* createMW, updateMW, deleteMW, and a window that begins or ends.
MaintenanceWindow ==
    /\ window' = ~window
    /\ IF window THEN UNCHANGED boundVars ELSE Change
    /\ UNCHANGED <<rules, reading, alerts, eval, sweep, collectors, queue, bridgeVars, lost>>

enroll(c) ==
    /\ collectors[c] = NONE
    /\ collectors' = [collectors EXCEPT ![c] = Enrolled]
    /\ Change
    /\ UNCHANGED <<ruleVars, alerts, eval, sweep, queue, bridgeVars, lost>>

\* HeartbeatCollector overwrites any status, a decommissioned one included.  The
\* reported status (healthy or degraded) is one value here.
heartbeat(c) ==
    /\ collectors[c] # NONE
    /\ collectors' = [collectors EXCEPT ![c].status = "reported", ![c].seen = "recent"]
    /\ UNCHANGED <<ruleVars, alerts, eval, sweep, queue, bridgeVars, lost, boundVars>>

patchEnabled(c) ==
    /\ collectors[c] # NONE
    /\ collectors' = [collectors EXCEPT ![c].enabled = ~@]
    /\ Change
    /\ UNCHANGED <<ruleVars, alerts, eval, sweep, queue, bridgeVars, lost>>

\* decommission leaves the collector enabled.
decommission(c) ==
    /\ collectors[c] # NONE
    /\ collectors[c].status # "decommissioned"
    /\ collectors' = [collectors EXCEPT ![c].status = "decommissioned"]
    /\ Change
    /\ UNCHANGED <<ruleVars, alerts, eval, sweep, queue, bridgeVars, lost>>

createChannel ==
    /\ channel = NONE
    /\ \E f, s, v \in BOOLEAN :
            channel' = [enabled |-> TRUE, fire |-> f, resolve |-> s, severe |-> v]
    /\ Change
    /\ UNCHANGED <<ruleVars, alerts, eval, sweep, collectors, queue, drains, handled, sent, lost>>

updateChannel ==
    /\ channel # NONE
    /\ \E f \in {"enabled", "fire", "resolve", "severe"} : channel' = [channel EXCEPT ![f] = ~@]
    /\ Change
    /\ UNCHANGED <<ruleVars, alerts, eval, sweep, collectors, queue, drains, handled, sent, lost>>

deleteChannel ==
    /\ channel # NONE
    /\ channel' = NONE
    /\ Change
    /\ UNCHANGED <<ruleVars, alerts, eval, sweep, collectors, queue, drains, handled, sent, lost>>

\* A sample arrives, or the last one leaves the rule's window.
Sample(k) ==
    /\ \E v \in {"none", "within", "breach"} \ {reading[k]} :
        /\ reading' = [reading EXCEPT ![k] = v]
        /\ IF reading[k] = "breach" /\ v = "within" THEN UNCHANGED boundVars ELSE Change
    /\ UNCHANGED <<rules, window, alerts, eval, sweep, collectors, queue, bridgeVars, lost>>

\* DCIM_COLLECTOR_STALE_SECONDS pass without a heartbeat.
FallSilent(c) ==
    /\ collectors[c] # NONE
    /\ collectors[c].seen = "recent"
    /\ collectors' = [collectors EXCEPT ![c].seen = "old"]
    /\ UNCHANGED <<ruleVars, alerts, eval, sweep, queue, bridgeVars, lost, boundVars>>

Environment ==
    \/ \E r \in Rules : createRule(r) \/ updateRule(r) \/ deleteRule(r)
    \/ \E a \in Assets : deleteAsset(a)
    \/ MaintenanceWindow
    \/ \E c \in Collectors :
            enroll(c) \/ heartbeat(c) \/ patchEnabled(c) \/ decommission(c) \/ FallSilent(c)
    \/ createChannel \/ updateChannel \/ deleteChannel
    \/ \E k \in Rules \X Assets : Sample(k)

-----------------------------------------------------------------------------
(* magpie: evaluateRules *)

\* loadRules: the enabled rules, as they are now.
EvalStart ==
    /\ eval.pc = "idle"
    /\ eval' = [NoPass EXCEPT !.pc = "eval",
                              !.jobs = [r \in Rules |->
                                  IF rules[r] # NONE /\ rules[r].enabled
                                  THEN [pc |-> "read", scoped |-> rules[r].scoped, seen |-> <<>>, do |-> <<>>]
                                  ELSE NONE]]
    /\ UNCHANGED <<ruleVars, alerts, sweep, collectors, queue, bridgeVars, lost, boundVars>>

InJob(r, pc) == eval.pc = "eval" /\ eval.jobs[r] # NONE /\ eval.jobs[r].pc = pc

\* evalOne's window query, outside the transaction.
EvalRead(r) ==
    /\ InJob(r, "read")
    /\ eval' = [eval EXCEPT !.jobs[r].pc = "select",
                            !.jobs[r].seen = [a \in Assets |-> reading[<<r, a>>]]]
    /\ UNCHANGED <<ruleVars, alerts, sweep, collectors, queue, bridgeVars, lost, boundVars>>

\* What the loop does with one asset: the firing alert of the dedupe key, if any,
\* and the verdict.
Decision_NoDedupe(r, a, verdict) ==
    [op |-> IF verdict = "breach" /\ eval.jobs[r].scoped /\ ~window THEN "fire" ELSE "skip", id |-> 0]

Decision_WindowFires(r, a, verdict) ==
    LET existing == Firing(<<r, a>>)
    IN  CASE verdict = "breach" /\ existing = {} ->
                [op |-> IF eval.jobs[r].scoped /\ window THEN "fire" ELSE "skip", id |-> 0]
          [] verdict = "within" /\ existing # {} ->
                [op |-> "resolve", id |-> CHOOSE i \in existing : TRUE]
          [] OTHER -> [op |-> "skip", id |-> 0]

Decision(r, a, verdict) ==
    LET existing == Firing(<<r, a>>)
    IN  CASE verdict = "breach" /\ existing = {} ->
                [op |-> IF eval.jobs[r].scoped /\ ~window THEN "fire" ELSE "skip", id |-> 0]
          [] verdict = "within" /\ existing # {} ->
                [op |-> "resolve", id |-> CHOOSE i \in existing : TRUE]
          [] OTHER -> [op |-> "skip", id |-> 0]

\* The reads of the transaction: existing alerts and maintenance windows.
EvalSelect(r) ==
    /\ InJob(r, "select")
    /\ eval' = [eval EXCEPT !.jobs[r].pc = "commit",
                            !.jobs[r].do = [a \in Assets |-> Decision(r, a, eval.jobs[r].seen[a])]]
    /\ UNCHANGED <<ruleVars, alerts, sweep, collectors, queue, bridgeVars, lost, boundVars>>

\* The rows the transaction inserts, numbered in the order of the table.  `looked`:
\* the dedupe SELECT before the INSERT was answered.
Fires(r) == {a \in Assets : eval.jobs[r].do[a].op = "fire"}
Resolves(r) == {eval.jobs[r].do[a].id : a \in {a \in Assets : eval.jobs[r].do[a].op = "resolve"}}
NewRow(k, looked) == [key |-> k, state |-> "firing", resolved |-> FALSE, looked |-> looked]
FreeId(n) == CHOOSE i \in Ids : alerts[i] = NONE /\ Cardinality({j \in 1 .. i : alerts[j] = NONE}) = n

\* The resolve is an UPDATE by id whose row count nobody looks at: of an alert that
\* was deleted since the read it changes no row, and counts as resolved.
ResolvedRow(i) == [alerts[i] EXCEPT !.state = IF @ = "deleted" THEN @ ELSE "resolved",
                                    !.resolved = TRUE]

Event(kind, i) == [kind |-> kind, id |-> i]
Fired(ids) == {Event("fire", i) : i \in ids}
Resolved(ids) == {Event("resolve", i) : i \in ids}

\* The transaction's writes.  The insert for a rule that was deleted fails on the
\* foreign key and takes the rule's other writes with it.  A commit whose answer is
\* lost is an error to evalOne, and nothing is pushed for it.
EvalCommit(r) ==
    /\ InJob(r, "commit")
    /\ Cardinality(Fires(r)) <= Cardinality({i \in Ids : alerts[i] = NONE})
    /\ LET ids == {FreeId(n) : n \in 1 .. Cardinality(Fires(r))}
       IN  \E row \in {f \in [ids -> Fires(r)] : {f[i] : i \in ids} = Fires(r)} :
            IF Fires(r) # {} /\ rules[r] = NONE
            THEN /\ eval' = [eval EXCEPT !.jobs[r] = NONE]
                 /\ UNCHANGED <<alerts, lost, boundVars>>
            ELSE /\ alerts' = [i \in Ids |->
                        IF i \in ids THEN NewRow(<<r, row[i]>>, TRUE)
                        ELSE IF i \in Resolves(r) THEN ResolvedRow(i)
                        ELSE alerts[i]]
                 /\ \/ /\ eval' = [eval EXCEPT !.jobs[r] = NONE, !.fired = @ \cup ids,
                                                !.resolved = @ \cup Resolves(r)]
                       /\ UNCHANGED <<lost, boundVars>>
                    \/ /\ eval' = [eval EXCEPT !.jobs[r] = NONE]
                       /\ lost' = lost \cup Fired(ids) \cup Resolved(Resolves(r))
                       /\ Loss
    /\ UNCHANGED <<ruleVars, sweep, collectors, queue, bridgeVars>>

\* A statement of the rule's evaluation fails: the transaction rolls back and the
\* rule is evaluated again in the next pass.
EvalFail(r) ==
    /\ eval.jobs[r] # NONE
    /\ eval' = [eval EXCEPT !.jobs[r] = NONE]
    /\ Loss
    /\ UNCHANGED <<ruleVars, alerts, sweep, collectors, queue, bridgeVars, lost>>

enqueueNotify_RPush(e) ==
    \/ queue' = <<e>> \o queue /\ UNCHANGED <<lost, boundVars>>
    \/ Loss /\ lost' = lost \cup {e} /\ UNCHANGED queue

\* LPUSH, and RPOP at the other end.  A failed call is logged and forgotten; one
\* whose answer was lost is repeated by the Redis client.
enqueueNotify(e) ==
    \/ queue' = Append(queue, e) /\ UNCHANGED <<lost, boundVars>>
    \/ Loss /\ lost' = lost \cup {e} /\ UNCHANGED queue
    \/ Loss /\ queue' = queue \o <<e, e>> /\ UNCHANGED lost

\* wg.Wait, then what fired and after it what resolved.
EvalNotify ==
    /\ eval.pc = "eval"
    /\ \A r \in Rules : eval.jobs[r] = NONE
    /\ \/ \E i \in eval.fired :
            /\ enqueueNotify(Event("fire", i))
            /\ eval' = [eval EXCEPT !.fired = @ \ {i}]
       \/ /\ eval.fired = {}
          /\ \E i \in eval.resolved :
                /\ enqueueNotify(Event("resolve", i))
                /\ eval' = [eval EXCEPT !.resolved = @ \ {i}]
       \/ /\ eval.fired \cup eval.resolved = {}
          /\ eval' = NoPass
          /\ UNCHANGED <<queue, lost, boundVars>>
    /\ UNCHANGED <<ruleVars, alerts, sweep, collectors, bridgeVars>>

-----------------------------------------------------------------------------
(* magpie: sweepCollectors *)

\* Enabled collectors not seen for long, decommissioned ones among them.
SweepList ==
    /\ sweep.pc = "idle"
    /\ sweep' = [NoSweep EXCEPT !.pc = "sweep",
                    !.todo = {c \in Collectors : /\ collectors[c] # NONE
                                                 /\ collectors[c].enabled
                                                 /\ collectors[c].seen = "old"}]
    /\ UNCHANGED <<ruleVars, alerts, eval, collectors, queue, bridgeVars, lost, boundVars>>

\* The sweep is done with c; `fired` is what it has to push for it.
SweepGoesOn(c, fired) ==
    sweep' = [sweep EXCEPT !.todo = @ \ {c}, !.fired = @ \cup fired]

SetStale(c) == collectors' = [collectors EXCEPT ![c].status = "stale"]

\* The UPDATE of the status fails, before it wrote or after: the collector is skipped.
StatusFails(c) ==
    /\ SetStale(c) \/ UNCHANGED collectors
    /\ SweepGoesOn(c, {})
    /\ Loss
    /\ UNCHANGED <<alerts, lost>>

\* The SELECT finds the firing alert of the collector's key.
AlertKept(c) ==
    /\ Firing(c) # {}
    /\ SetStale(c)
    /\ SweepGoesOn(c, {})
    /\ UNCHANGED <<alerts, lost, boundVars>>

\* The SELECT finds none.  Any other error of it is taken for that, too, and the
\* INSERT follows.
LookFinds(c, looked) == IF looked THEN Firing(c) = {} ELSE TRUE

AlertInserted(c, looked) ==
    /\ LookFinds(c, looked) /\ Room
    /\ alerts' = [alerts EXCEPT ![NextId] = NewRow(c, looked)]
    /\ SetStale(c)
    /\ SweepGoesOn(c, {NextId})
    /\ IF looked THEN UNCHANGED boundVars ELSE Loss
    /\ UNCHANGED lost

\* The INSERT fails, before it wrote or after: nothing is pushed.
InsertFails(c, looked) ==
    /\ LookFinds(c, looked)
    /\ \/ UNCHANGED <<alerts, lost>>
       \/ /\ Room
          /\ alerts' = [alerts EXCEPT ![NextId] = NewRow(c, looked)]
          /\ lost' = lost \cup Fired({NextId})
    /\ SetStale(c)
    /\ SweepGoesOn(c, {})
    /\ Loss

\* One collector, outside a transaction: its status is overwritten whatever it has
\* reported since, then the firing alert of its key is kept or a new one inserted.
\* Nobody else writes or deletes alerts of collectors, so the statements are one step.
SweepOne ==
    /\ sweep.pc = "sweep"
    /\ \E c \in sweep.todo :
        \/ StatusFails(c) \/ AlertKept(c)
        \/ \E looked \in BOOLEAN : AlertInserted(c, looked) \/ InsertFails(c, looked)
    /\ UNCHANGED <<ruleVars, eval, queue, bridgeVars>>

SweepNotify ==
    /\ sweep.pc = "sweep"
    /\ sweep.todo = {}
    /\ \/ \E i \in sweep.fired :
            /\ enqueueNotify(Event("fire", i))
            /\ sweep' = [sweep EXCEPT !.fired = @ \ {i}]
       \/ /\ sweep.fired = {}
          /\ sweep' = NoSweep
          /\ UNCHANGED <<queue, lost, boundVars>>
    /\ UNCHANGED <<ruleVars, alerts, eval, collectors, bridgeVars>>

\* magpie dies and is started again: transactions roll back, and what was to be
\* pushed is nowhere else.
MagpieCrash ==
    /\ Loss
    /\ lost' = lost \cup Fired(eval.fired \cup sweep.fired) \cup Resolved(eval.resolved)
    /\ eval' = NoPass
    /\ sweep' = NoSweep
    /\ UNCHANGED <<ruleVars, alerts, collectors, queue, bridgeVars>>

-----------------------------------------------------------------------------
(* The bridge *)

\* The channels are read once per drain.
BridgeStart(d) ==
    /\ drains[d].pc = "idle"
    /\ drains' = [drains EXCEPT ![d] = [pc |-> "pop", ch |-> channel, ev |-> NONE, n |-> 0]]
    /\ UNCHANGED <<ruleVars, alerts, eval, sweep, collectors, queue, channel, handled, sent, lost, boundVars>>

Holding(x, e) == [pc |-> "handle", ch |-> x.ch, ev |-> e, n |-> x.n + 1]

BridgePop_Index(d) ==
    /\ drains[d].pc = "pop"
    /\ IF queue = <<>>
       THEN /\ drains' = [drains EXCEPT ![d] = NoDrain]
            /\ UNCHANGED queue
       ELSE /\ drains' = [drains EXCEPT ![d] = Holding(@, Head(queue))]
            /\ UNCHANGED queue
    /\ UNCHANGED <<ruleVars, alerts, eval, sweep, collectors, channel, handled, sent, lost, boundVars>>

BridgePop_KeepsOne(d) ==
    /\ drains[d].pc = "pop"
    /\ IF Len(queue) <= 1
       THEN /\ drains' = [drains EXCEPT ![d] = NoDrain]
            /\ UNCHANGED queue
       ELSE /\ drains' = [drains EXCEPT ![d] = Holding(@, Head(queue))]
            /\ queue' = Tail(queue)
    /\ UNCHANGED <<ruleVars, alerts, eval, sweep, collectors, channel, handled, sent, lost, boundVars>>

\* RPOP; an empty list ends the drain.
BridgePop(d) ==
    /\ drains[d].pc = "pop"
    /\ IF queue = <<>>
       THEN /\ drains' = [drains EXCEPT ![d] = NoDrain]
            /\ UNCHANGED queue
       ELSE /\ drains' = [drains EXCEPT ![d] = Holding(@, Head(queue))]
            /\ queue' = Tail(queue)
    /\ UNCHANGED <<ruleVars, alerts, eval, sweep, collectors, channel, handled, sent, lost, boundVars>>

\* The RPOP fails: the drain ends, and the payload may be gone with the answer.
BridgePopFails(d) ==
    /\ drains[d].pc = "pop"
    /\ queue # <<>>
    /\ Loss
    /\ drains' = [drains EXCEPT ![d] = NoDrain]
    /\ \/ UNCHANGED <<queue, lost>>
       \/ queue' = Tail(queue) /\ lost' = lost \cup {Head(queue)}
    /\ UNCHANGED <<ruleVars, alerts, eval, sweep, collectors, channel, handled, sent>>

Severe(i) == alerts[i].key \in Collectors

\* On the drain's copy of the channel.  A collector's alert is major.
channelMatches(ch, ev) ==
    /\ ch # NONE
    /\ ch.enabled
    /\ ev.kind = "fire" => ch.fire
    /\ ev.kind = "resolve" => ch.resolve
    /\ ch.severe => Severe(ev.id)

\* handleOne: the alert is read and the matching channels are sent to; the event of
\* an alert that was deleted meanwhile is skipped.  The drain ends with the last
\* payload of its batch.
BridgeHandle(d) ==
    LET ev == drains[d].ev
    IN  /\ drains[d].pc = "handle"
        /\ drains' = [drains EXCEPT ![d] = IF @.n = BridgeBatch THEN NoDrain
                                           ELSE [@ EXCEPT !.pc = "pop", !.ev = NONE]]
        /\ \/ /\ handled' = handled \cup {ev}
              /\ sent' = IF Stands(ev.id) /\ channelMatches(drains[d].ch, ev)
                         THEN sent \cup {ev} ELSE sent
              /\ UNCHANGED <<lost, boundVars>>
           \/ /\ Loss                   \* the read or the transport fails
              /\ lost' = lost \cup {ev}
              /\ UNCHANGED <<handled, sent>>
        /\ UNCHANGED <<ruleVars, alerts, eval, sweep, collectors, queue, channel>>

\* The scheduler dies with what its drains hold.
BridgeCrash ==
    /\ Loss
    /\ lost' = lost \cup {drains[d].ev : d \in {d \in Drains : drains[d].ev # NONE}}
    /\ drains' = [d \in Drains |-> NoDrain]
    /\ UNCHANGED <<ruleVars, alerts, eval, sweep, collectors, queue, channel, handled, sent>>

-----------------------------------------------------------------------------

EvalStep == EvalStart \/ EvalNotify \/ \E r \in Rules : EvalRead(r) \/ EvalSelect(r) \/ EvalCommit(r)
SweepStep == SweepList \/ SweepOne \/ SweepNotify
DrainStep(d) == BridgeStart(d) \/ BridgePop(d) \/ BridgeHandle(d)

AlertNext ==
    \/ Environment
    \/ EvalStep \/ SweepStep
    \/ \E d \in Drains : DrainStep(d) \/ BridgePopFails(d)
    \/ \E r \in Rules : EvalFail(r)
    \/ MagpieCrash \/ BridgeCrash

\* The tickers start the two loops again and again, the cron entry the drains; a
\* pass, a sweep and a drain that has begun goes on.
AlertFairness ==
    /\ WF_alertVars(EvalStep)
    /\ WF_alertVars(SweepStep)
    /\ \A d \in Drains : WF_alertVars(DrainStep(d))

AlertSpec == AlertInit /\ [][AlertNext]_alertVars /\ AlertFairness

-----------------------------------------------------------------------------
(* What the alerts promise *)

Events == {Event(k, i) : k \in {"fire", "resolve"}, i \in Ids}

\* The dedupe is a SELECT and an INSERT with no unique index behind them.  With the one
\* magpie that is deployed a rule and asset never have two firing alerts (evalOne does
\* both in a transaction, which a failed SELECT aborts); of a collector at most one that
\* a look-up preceded fires.  sweepCollectors takes a SELECT that failed for one that
\* found nothing, so that every such failure may add another firing alert.
AtMostOneFiring ==
    /\ \A k \in Rules \X Assets : Cardinality(Firing(k)) <= 1
    /\ \A c \in Collectors : Cardinality({i \in Firing(c) : alerts[i].looked}) <= 1

\* Still to be pushed, or pushed and not popped.
Owed == Fired(eval.fired \cup sweep.fired) \cup Resolved(eval.resolved)
Queued == {queue[n] : n \in 1 .. Len(queue)}
InHand == {drains[d].ev : d \in Drains} \ {NONE}
\* What commits made known, of alerts that were deleted since (or before their
\* resolve was committed) as of those that stand.
Announced == Fired({i \in Ids : alerts[i] # NONE})
             \cup Resolved({i \in Ids : alerts[i] # NONE /\ alerts[i].resolved})

\* Every fire and every resolve that a transaction committed has its event on the way to
\* the bridge, dealt with by it, or dropped by a crash or a failed call, and in one place
\* only while no call has failed.  An event whose alert was deleted with its asset is
\* dealt with by skipping it, and the resolve of an alert that was deleted before the
\* commit is announced like any other.  No event is announced for a transaction that
\* rolled back (evaluateRules, evalOne, enqueueNotify, handleOne).
EventsConserved ==
    /\ Announced = Owed \cup Queued \cup InHand \cup handled \cup lost
    /\ losses = 0 => /\ Len(queue) = Cardinality(Queued)
                     /\ Owed \cap (Queued \cup InHand \cup handled) = {}
                     /\ Queued \cap (InHand \cup handled) = {}

\* The bridge never takes the resolve of an alert while its fire still waits, over
\* any number of passes, sweeps and drains (LPUSH in evaluateRules, RPOP in Run).
FirePoppedFirst ==
    \A i \in Ids : Event("resolve", i) \in InHand \cup handled =>
        \/ Event("fire", i) \notin Owed \cup Queued
        \/ losses > 0

\* In breach, of a rule that is enabled, outside maintenance.
Breached(k) == reading[k] = "breach" /\ rules[k[1]] # NONE /\ rules[k[1]].enabled /\ ~window

\* A rule of a site that stays enabled and in breach outside maintenance does not stay
\* without a firing alert, whatever was deleted, crashed or rolled back, after a window
\* that suppressed it and in a second breach as in the first (evalOne).  A rule with no
\* site is not meant: it never fires.
BreachIsAlerted ==
    \A k \in Rules \X Assets : []<>(Breached(k) /\ rules[k[1]].scoped => Firing(k) # {})

\* The same of a rule without a site too, which by evalOne's comment is enterprise-wide.
\* It does not hold: such a rule is evaluated and never fires.
EveryScopeIsAlerted == \A k \in Rules \X Assets : []<>(Breached(k) => Firing(k) # {})

\* Again and again, every event there is has been dealt with by the bridge or was dropped
\* by a crash or a failed call: none waits in the list for ever, though a drain takes at
\* most bridgeBatch payloads (BridgeJob.Run).
EventsAreHandled == []<>(Announced \subseteq handled \cup lost)
=============================================================================
