------------------------- MODULE AlertEngineProofs -------------------------
(* For any number of rules, assets, collectors, alerts and drains: the       *)
(* dedupe, what becomes of the events, and their order.                      *)
EXTENDS AlertEngine, FiniteSetTheorems, TLAPS

\* The two are abbreviations of sets of events.
USE DEF Fired, Resolved

AlertRow == [key : Keys, state : {"firing", "resolved", "deleted"}, resolved : BOOLEAN,
             looked : BOOLEAN]
Verdict == {"none", "within", "breach"}
Deed == [op : {"fire", "resolve", "skip"}, id : Ids \cup {0}]
Job == [pc : {"read", "select", "commit"}, scoped : BOOLEAN,
        seen : {<<>>} \cup [Assets -> Verdict], do : {<<>>} \cup [Assets -> Deed]]

\* The rules that are about to write, with what they decided.
Writing(r) == eval.jobs[r] # NONE /\ eval.jobs[r].pc = "commit"

\* The types that the argument needs.  Which ids the events carry is not
\* among them, so eval and sweep are only said to have their fields.
EvalTypes ==
    /\ alerts \in [Ids -> AlertRow \cup {NONE}]
    /\ eval = [jobs |-> eval.jobs, fired |-> eval.fired, resolved |-> eval.resolved, pc |-> eval.pc]
    /\ eval.jobs \in [Rules -> Job \cup {NONE}]
    /\ sweep = [pc |-> sweep.pc, todo |-> sweep.todo, fired |-> sweep.fired]
    /\ sweep.todo \subseteq Collectors
    /\ rules \in [Rules -> [enabled : BOOLEAN, scoped : BOOLEAN] \cup {NONE}]
    /\ reading \in [Rules \X Assets -> Verdict]

\* One firing alert per dedupe key; of a collector, one that a look-up preceded.
OnePerKey ==
    \A k \in Keys : \A i, j \in Firing(k) :
        (k \in Collectors => alerts[i].looked /\ alerts[j].looked) => i = j

\* Between the reads and the writes of a rule's transaction nobody else fires
\* for its keys, and the alert it resolves stays in the table.
DecisionsHold ==
    \A r \in Rules : Writing(r) =>
        /\ eval.jobs[r].do \in [Assets -> Deed]
        /\ \A a \in Assets :
            /\ eval.jobs[r].do[a].op = "fire" => Firing(<<r, a>>) = {}
            /\ eval.jobs[r].do[a].op = "resolve" =>
                    eval.jobs[r].do[a].id \in Ids /\ alerts[eval.jobs[r].do[a].id] \in AlertRow

AlertInv == EvalTypes /\ OnePerKey /\ DecisionsHold

\* No magpie has run on a fresh database.
LEMMA InitAlertInv == AlertInit => AlertInv
<1> SUFFICES ASSUME AlertInit PROVE AlertInv
  OBVIOUS
<1>1. EvalTypes
  BY SMT DEF AlertInit, EvalTypes, NoPass, NoSweep, Verdict
<1>2. \A k \in Keys : Firing(k) = {}
  BY DEF AlertInit, Firing
<1>3. \A r \in Rules : ~Writing(r)
  BY DEF AlertInit, Writing, NoPass
<1> QED BY <1>1, <1>2, <1>3 DEF AlertInv, OnePerKey, DecisionsHold

-----------------------------------------------------------------------------
(* Steps that fire nothing *)

\* If alerts stop firing but none starts, and the decisions that stand were
\* standing before, the invariant's last two parts remain.
LEMMA NothingFires ==
  ASSUME OnePerKey, DecisionsHold,
         \A k \in Keys : \A i \in Firing(k)' : i \in Firing(k) /\ alerts'[i] = alerts[i],
         \A i \in Ids : alerts[i] \in AlertRow => alerts'[i] \in AlertRow,
         \A r \in Rules : Writing(r)' => Writing(r) /\ eval'.jobs[r] = eval.jobs[r]
  PROVE  OnePerKey' /\ DecisionsHold'
<1>1. OnePerKey'
  BY DEF OnePerKey
<1>2. ASSUME NEW r \in Rules, Writing(r)'
      PROVE  /\ eval'.jobs[r].do \in [Assets -> Deed]
             /\ \A a \in Assets :
                 /\ eval'.jobs[r].do[a].op = "fire" => Firing(<<r, a>>)' = {}
                 /\ eval'.jobs[r].do[a].op = "resolve" =>
                      eval'.jobs[r].do[a].id \in Ids /\ alerts'[eval'.jobs[r].do[a].id] \in AlertRow
  <2>1. Writing(r) /\ eval'.jobs[r] = eval.jobs[r]
    BY <1>2
  <2>2. \A a \in Assets : <<r, a>> \in Keys
    BY <1>2 DEF Keys
  <2> QED BY <2>1, <2>2, <1>2 DEF DecisionsHold
<1> QED BY <1>1, <1>2 DEF DecisionsHold

\* The alerts of an asset that is deleted stop firing, and no other row changes.
LEMMA DroppedRows ==
  ASSUME alerts \in [Ids -> AlertRow \cup {NONE}],
         UNCHANGED alerts \/ \E a \in Assets : deleteAsset(a)
  PROVE  /\ alerts' \in [Ids -> AlertRow \cup {NONE}]
         /\ \A i \in Ids : \/ alerts'[i] = alerts[i]
                          \/ /\ alerts[i] \in AlertRow /\ alerts'[i] \in AlertRow
                             /\ alerts'[i].key = alerts[i].key
                             /\ alerts'[i].resolved = alerts[i].resolved
                             /\ alerts'[i].state = "deleted"
<1>1. CASE UNCHANGED alerts
  BY <1>1
<1>2. CASE \E a \in Assets : deleteAsset(a)
  <2> DEFINE Row(i) == [alerts[i] EXCEPT !.state = "deleted"]
  <2>1. PICK a \in Assets :
          alerts' = [i \in Ids |-> IF Stands(i) /\ alerts[i].key \in Rules \X {a}
                                  THEN Row(i) ELSE alerts[i]]
    BY <1>2 DEF deleteAsset
  <2>2. ASSUME NEW i \in Ids, Stands(i)
        PROVE  /\ alerts[i] \in AlertRow /\ Row(i) \in AlertRow
               /\ Row(i).key = alerts[i].key /\ Row(i).resolved = alerts[i].resolved
               /\ Row(i).state = "deleted"
    <3>1. alerts[i] \in AlertRow
      BY <2>2 DEF Stands
    <3> QED BY <3>1 DEF AlertRow
  <2> HIDE DEF Row
  <2> QED BY <2>1, <2>2
<1> QED BY <1>1, <1>2

\* The handlers, the bridge and the clock: the delete of an asset is the only one
\* that touches an alert, and it ends the firing of some.
LEMMA OthersFireNothing ==
  ASSUME AlertInv, Environment \/ BridgeCrash
                   \/ \E d \in Drains : DrainStep(d) \/ BridgePopFails(d)
  PROVE  AlertInv'
<1>1. UNCHANGED <<eval, sweep>>
  BY DEF Environment, createRule, updateRule, deleteRule, deleteAsset, MaintenanceWindow, enroll,
         heartbeat, patchEnabled, decommission, FallSilent, createChannel, updateChannel,
         deleteChannel, Sample, BridgeCrash, DrainStep, BridgeStart, BridgePop, BridgeHandle,
         BridgePopFails, bridgeVars, ruleVars
<1>2. UNCHANGED alerts \/ \E a \in Assets : deleteAsset(a)
  BY DEF Environment, createRule, updateRule, deleteRule, MaintenanceWindow, enroll,
         heartbeat, patchEnabled, decommission, FallSilent, createChannel, updateChannel,
         deleteChannel, Sample, BridgeCrash, DrainStep, BridgeStart, BridgePop, BridgeHandle,
         BridgePopFails
<1>3. rules' \in [Rules -> [enabled : BOOLEAN, scoped : BOOLEAN] \cup {NONE}]
  <2>1. \/ UNCHANGED rules
        \/ \E r \in Rules : createRule(r) \/ updateRule(r) \/ deleteRule(r)
    BY DEF Environment, deleteAsset, MaintenanceWindow, enroll, heartbeat, patchEnabled, decommission,
           FallSilent, createChannel, updateChannel, deleteChannel, Sample, BridgeCrash,
           DrainStep, BridgeStart, BridgePop, BridgeHandle, BridgePopFails, ruleVars
  <2> DEFINE RuleRow == [enabled : BOOLEAN, scoped : BOOLEAN] \cup {NONE}
  <2>2. ASSUME NEW r \in Rules, createRule(r) \/ updateRule(r) \/ deleteRule(r)
        PROVE  \E v \in RuleRow : rules' = [rules EXCEPT ![r] = v]
    BY <2>2 DEF createRule, updateRule, deleteRule
  <2> QED BY <2>1, <2>2 DEF AlertInv, EvalTypes
<1>4. reading' \in [Rules \X Assets -> Verdict]
  BY DEF AlertInv, EvalTypes, Environment, createRule, updateRule, deleteRule, deleteAsset,
         MaintenanceWindow, enroll, heartbeat, patchEnabled, decommission, FallSilent,
         createChannel, updateChannel, deleteChannel, Sample, BridgeCrash, DrainStep,
         BridgeStart, BridgePop, BridgeHandle, BridgePopFails, ruleVars, Verdict
<1>5. /\ alerts' \in [Ids -> AlertRow \cup {NONE}]
      /\ \A i \in Ids : alerts[i] \in AlertRow => alerts'[i] \in AlertRow
      /\ \A k \in Keys : \A i \in Firing(k)' : i \in Firing(k) /\ alerts'[i] = alerts[i]
  BY <1>2, DroppedRows DEF AlertInv, EvalTypes, Firing
<1>6. \A r \in Rules : Writing(r)' => Writing(r) /\ eval'.jobs[r] = eval.jobs[r]
  BY <1>1 DEF Writing
<1>7. OnePerKey' /\ DecisionsHold'
  BY <1>5, <1>6, NothingFires DEF AlertInv
<1> QED BY <1>1, <1>3, <1>4, <1>5, <1>7 DEF AlertInv, EvalTypes

-----------------------------------------------------------------------------
(* Steps of magpie that touch no alert *)

\* What such a step must do to the rules in progress.
LEMMA AlertsUntouched ==
  ASSUME AlertInv, UNCHANGED <<alerts, rules, reading>>,
         eval' = [jobs |-> eval'.jobs, fired |-> eval'.fired, resolved |-> eval'.resolved,
                  pc |-> eval'.pc],
         eval'.jobs \in [Rules -> Job \cup {NONE}],
         sweep' = [pc |-> sweep'.pc, todo |-> sweep'.todo, fired |-> sweep'.fired],
         sweep'.todo \subseteq Collectors,
         \A r \in Rules : Writing(r)' => Writing(r) /\ eval'.jobs[r] = eval.jobs[r]
  PROVE  AlertInv'
<1>1. EvalTypes'
  BY DEF AlertInv, EvalTypes
<1>2. \A k \in Keys : \A i \in Firing(k)' : i \in Firing(k) /\ alerts'[i] = alerts[i]
  BY DEF Firing
<1>3. OnePerKey' /\ DecisionsHold'
  BY <1>2, NothingFires DEF AlertInv
<1> QED BY <1>1, <1>3 DEF AlertInv

LEMMA StartKeeps == ASSUME AlertInv, EvalStart PROVE AlertInv'
<1>1. \A r \in Rules : rules[r] # NONE =>
          [pc |-> "read", scoped |-> rules[r].scoped, seen |-> <<>>, do |-> <<>>] \in Job
  BY DEF AlertInv, EvalTypes, Job
<1>2. /\ eval' = [jobs |-> eval'.jobs, fired |-> eval'.fired, resolved |-> eval'.resolved,
                  pc |-> eval'.pc]
      /\ eval'.jobs = [r \in Rules |->
             IF rules[r] # NONE /\ rules[r].enabled
             THEN [pc |-> "read", scoped |-> rules[r].scoped, seen |-> <<>>, do |-> <<>>]
             ELSE NONE]
  BY DEF EvalStart, NoPass
<1>3. eval'.jobs \in [Rules -> Job \cup {NONE}]
  BY <1>1, <1>2
<1>4. \A r \in Rules : ~Writing(r)'
  BY <1>2 DEF Writing
<1> QED BY <1>2, <1>3, <1>4, AlertsUntouched DEF EvalStart, ruleVars, AlertInv, EvalTypes

LEMMA ReadKeeps == ASSUME AlertInv, NEW r \in Rules, EvalRead(r) PROVE AlertInv'
<1> DEFINE seen == [a \in Assets |-> reading[<<r, a>>]]
           job == [eval.jobs[r] EXCEPT !.pc = "select", !.seen = seen]
<1>1. eval.jobs[r] \in Job
  BY DEF AlertInv, EvalTypes, EvalRead, InJob
<1>2. seen \in [Assets -> Verdict]
  BY DEF AlertInv, EvalTypes
<1>3. job \in Job /\ job.pc = "select"
  BY <1>1, <1>2 DEF Job
<1>4. eval' = [jobs |-> [eval.jobs EXCEPT ![r] = job], fired |-> eval.fired,
               resolved |-> eval.resolved, pc |-> eval.pc]
  BY DEF EvalRead, AlertInv, EvalTypes
<1>5. eval'.jobs \in [Rules -> Job \cup {NONE}] /\ eval'.jobs[r] = job
      /\ \A q \in Rules \ {r} : eval'.jobs[q] = eval.jobs[q]
  BY <1>3, <1>4 DEF AlertInv, EvalTypes
<1>6. \A q \in Rules : Writing(q)' => Writing(q) /\ eval'.jobs[q] = eval.jobs[q]
  BY <1>3, <1>5 DEF Writing
<1> QED BY <1>4, <1>5, <1>6, AlertsUntouched DEF EvalRead, ruleVars, AlertInv, EvalTypes

\* A rule that failed starts over in the next pass.
LEMMA FailKeeps == ASSUME AlertInv, NEW r \in Rules, EvalFail(r) PROVE AlertInv'
<1>1. eval' = [jobs |-> [eval.jobs EXCEPT ![r] = NONE], fired |-> eval.fired,
               resolved |-> eval.resolved, pc |-> eval.pc]
  BY DEF EvalFail, AlertInv, EvalTypes
<1>2. eval'.jobs \in [Rules -> Job \cup {NONE}] /\ eval'.jobs[r] = NONE
      /\ \A q \in Rules \ {r} : eval'.jobs[q] = eval.jobs[q]
  BY <1>1 DEF AlertInv, EvalTypes
<1>3. \A q \in Rules : Writing(q)' => Writing(q) /\ eval'.jobs[q] = eval.jobs[q]
  BY <1>2 DEF Writing
<1> QED BY <1>1, <1>2, <1>3, AlertsUntouched DEF EvalFail, ruleVars, AlertInv, EvalTypes

\* The pushes follow the writes, and a crash forgets the whole pass.
LEMMA NotifyKeeps ==
  ASSUME AlertInv, EvalNotify \/ SweepNotify \/ SweepList \/ MagpieCrash
  PROVE  AlertInv'
<1>1. UNCHANGED <<alerts, rules, reading>>
  BY DEF EvalNotify, SweepNotify, SweepList, MagpieCrash, ruleVars
<1>2. /\ eval' = [jobs |-> eval'.jobs, fired |-> eval'.fired, resolved |-> eval'.resolved,
                  pc |-> eval'.pc]
      /\ eval'.jobs \in [Rules -> Job \cup {NONE}]
      /\ \A r \in Rules : eval'.jobs[r] \in {eval.jobs[r], NONE}
  <2>1. \/ eval' = NoPass
        \/ UNCHANGED eval
        \/ \E i : eval' = [eval EXCEPT !.fired = @ \ {i}]
        \/ \E i : eval' = [eval EXCEPT !.resolved = @ \ {i}]
    BY DEF EvalNotify, SweepNotify, SweepList, MagpieCrash
  <2>2. CASE eval' = NoPass
    BY <2>2 DEF NoPass
  <2>3. CASE UNCHANGED eval
    BY <2>3 DEF AlertInv, EvalTypes
  <2>4. CASE \E i : eval' = [eval EXCEPT !.fired = @ \ {i}]
    BY <2>4 DEF AlertInv, EvalTypes
  <2>5. CASE \E i : eval' = [eval EXCEPT !.resolved = @ \ {i}]
    BY <2>5 DEF AlertInv, EvalTypes
  <2> QED BY <2>1, <2>2, <2>3, <2>4, <2>5
<1>3. /\ sweep' = [pc |-> sweep'.pc, todo |-> sweep'.todo, fired |-> sweep'.fired]
      /\ sweep'.todo \subseteq Collectors
  <2>1. \/ sweep' = NoSweep
        \/ UNCHANGED sweep
        \/ \E i : sweep' = [sweep EXCEPT !.fired = @ \ {i}]
        \/ \E C \in SUBSET Collectors : sweep' = [NoSweep EXCEPT !.pc = "sweep", !.todo = C]
    BY DEF EvalNotify, SweepNotify, SweepList, MagpieCrash
  <2>2. CASE sweep' = NoSweep
    BY <2>2 DEF NoSweep
  <2>3. CASE UNCHANGED sweep
    BY <2>3 DEF AlertInv, EvalTypes
  <2>4. CASE \E i : sweep' = [sweep EXCEPT !.fired = @ \ {i}]
    BY <2>4 DEF AlertInv, EvalTypes
  <2>5. CASE \E C \in SUBSET Collectors : sweep' = [NoSweep EXCEPT !.pc = "sweep", !.todo = C]
    BY <2>5 DEF NoSweep
  <2> QED BY <2>1, <2>2, <2>3, <2>4, <2>5
<1>4. \A r \in Rules : Writing(r)' => Writing(r) /\ eval'.jobs[r] = eval.jobs[r]
  BY <1>2 DEF Writing
<1> QED BY <1>1, <1>2, <1>3, <1>4, AlertsUntouched

-----------------------------------------------------------------------------
(* The reads of a rule's transaction *)

LEMMA DecisionFacts ==
  ASSUME AlertInv, NEW r \in Rules, NEW a \in Assets, NEW v
  PROVE  /\ Decision(r, a, v) \in Deed
         /\ Decision(r, a, v).op = "fire" => Firing(<<r, a>>) = {}
         /\ Decision(r, a, v).op = "resolve" =>
                Decision(r, a, v).id \in Ids /\ alerts[Decision(r, a, v).id] \in AlertRow
<1> DEFINE existing == Firing(<<r, a>>)
<1>1. \A i \in existing : i \in Ids /\ alerts[i] \in AlertRow
  BY DEF Firing, AlertInv, EvalTypes
<1>2. CASE v = "breach" /\ existing = {}
  BY <1>2 DEF Decision, Deed
<1>3. CASE v = "within" /\ existing # {}
  <2>1. Decision(r, a, v) = [op |-> "resolve", id |-> CHOOSE i \in existing : TRUE]
    BY <1>3 DEF Decision
  <2>2. (CHOOSE i \in existing : TRUE) \in existing
    BY <1>3
  <2> QED BY <1>1, <2>1, <2>2 DEF Deed
<1>4. CASE ~(v = "breach" /\ existing = {}) /\ ~(v = "within" /\ existing # {})
  <2>1. Decision(r, a, v) = [op |-> "skip", id |-> 0]
    BY <1>4 DEF Decision
  <2> QED BY <2>1 DEF Deed
<1> QED BY <1>2, <1>3, <1>4

LEMMA SelectKeeps ==
  ASSUME AlertInv, NEW r \in Rules, EvalSelect(r)
  PROVE  AlertInv'
<1> DEFINE deeds == [a \in Assets |-> Decision(r, a, eval.jobs[r].seen[a])]
           job == [eval.jobs[r] EXCEPT !.pc = "commit", !.do = deeds]
<1>1. eval.jobs[r] \in Job
  BY DEF AlertInv, EvalTypes, EvalSelect, InJob
<1>2. /\ deeds \in [Assets -> Deed]
      /\ \A a \in Assets :
          /\ deeds[a].op = "fire" => Firing(<<r, a>>) = {}
          /\ deeds[a].op = "resolve" => deeds[a].id \in Ids /\ alerts[deeds[a].id] \in AlertRow
  BY DecisionFacts
<1> HIDE DEF deeds
<1>3. job \in Job /\ job.do = deeds
  BY <1>1, <1>2 DEF Job
<1>4. eval' = [jobs |-> [eval.jobs EXCEPT ![r] = job], fired |-> eval.fired,
               resolved |-> eval.resolved, pc |-> eval.pc]
  BY DEF EvalSelect, AlertInv, EvalTypes, deeds
<1> HIDE DEF job
<1>5. eval'.jobs \in [Rules -> Job \cup {NONE}] /\ eval'.jobs[r] = job
      /\ \A q \in Rules \ {r} : eval'.jobs[q] = eval.jobs[q]
  BY <1>3, <1>4 DEF AlertInv, EvalTypes
<1>6. UNCHANGED <<alerts, rules, reading, sweep>>
  BY DEF EvalSelect, ruleVars
<1>7. EvalTypes'
  BY <1>4, <1>5, <1>6 DEF AlertInv, EvalTypes
<1>8. \A k \in Keys : Firing(k)' = Firing(k)
  BY <1>6 DEF Firing
<1>9. OnePerKey'
  BY <1>6, <1>8 DEF OnePerKey, AlertInv
<1>10. DecisionsHold'
  <2> SUFFICES ASSUME NEW q \in Rules, Writing(q)'
               PROVE  /\ eval'.jobs[q].do \in [Assets -> Deed]
                      /\ \A a \in Assets :
                          /\ eval'.jobs[q].do[a].op = "fire" => Firing(<<q, a>>)' = {}
                          /\ eval'.jobs[q].do[a].op = "resolve" =>
                               /\ eval'.jobs[q].do[a].id \in Ids
                               /\ alerts'[eval'.jobs[q].do[a].id] \in AlertRow
    BY DEF DecisionsHold
  <2>1. \A a \in Assets : <<q, a>> \in Keys
    BY DEF Keys
  <2>2. CASE q = r
    BY <1>2, <1>3, <1>5, <1>6, <1>8, <2>1, <2>2
  <2>3. CASE q # r
    BY <1>5, <1>6, <1>8, <2>1, <2>3 DEF AlertInv, DecisionsHold, Writing
  <2> QED BY <2>2, <2>3
<1> QED BY <1>7, <1>9, <1>10 DEF AlertInv

-----------------------------------------------------------------------------
(* The writes *)

\* The sweep's INSERT.
RowAdded(c, looked) ==
    /\ Room
    /\ looked => Firing(c) = {}
    /\ alerts' = [alerts EXCEPT ![NextId] = NewRow(c, looked)]

\* What the sweep does to the table: nothing, or one row more.
LEMMA SweepDoes ==
  ASSUME SweepOne
  PROVE  \E c \in sweep.todo :
            \/ UNCHANGED <<alerts, lost>> /\ SweepGoesOn(c, {}) /\ (UNCHANGED losses \/ Loss)
            \/ /\ \E looked \in BOOLEAN : RowAdded(c, looked)
               /\ \/ /\ SweepGoesOn(c, {NextId}) /\ UNCHANGED lost
                     /\ UNCHANGED losses \/ Loss
                  \/ SweepGoesOn(c, {}) /\ lost' = lost \cup Fired({NextId}) /\ Loss
<1>1. PICK c \in sweep.todo :
        \/ StatusFails(c) \/ AlertKept(c)
        \/ \E looked \in BOOLEAN : AlertInserted(c, looked) \/ InsertFails(c, looked)
  BY DEF SweepOne
<1>2. CASE StatusFails(c) \/ AlertKept(c)
  BY <1>1, <1>2 DEF StatusFails, AlertKept, boundVars
<1>3. ASSUME NEW looked \in BOOLEAN, AlertInserted(c, looked)
      PROVE  /\ RowAdded(c, looked)
             /\ SweepGoesOn(c, {NextId}) /\ UNCHANGED lost /\ (UNCHANGED losses \/ Loss)
  BY <1>3 DEF AlertInserted, LookFinds, RowAdded, boundVars
<1>4. ASSUME NEW looked \in BOOLEAN, InsertFails(c, looked)
      PROVE  /\ SweepGoesOn(c, {}) /\ Loss
             /\ \/ UNCHANGED <<alerts, lost>>
                \/ RowAdded(c, looked) /\ lost' = lost \cup Fired({NextId})
  BY <1>4 DEF InsertFails, LookFinds, RowAdded
<1> QED BY <1>1, <1>2, <1>3, <1>4

LEMMA NewRowFacts ==
  ASSUME NEW k \in Keys, NEW looked \in BOOLEAN
  PROVE  /\ NewRow(k, looked) \in AlertRow /\ NewRow(k, looked) # NONE
         /\ NewRow(k, looked).key = k /\ NewRow(k, looked).state = "firing"
         /\ NewRow(k, looked).resolved = FALSE /\ NewRow(k, looked).looked = looked
<1>1. NewRow(k, looked) \in AlertRow
  BY DEF NewRow, AlertRow
<1>2. NONE \notin AlertRow
  BY NoneAssumption DEF AlertRow
<1> QED BY <1>1, <1>2 DEF NewRow

\* An alert that starts firing for a key without one leaves the keys apart.
LEMMA SweepKeeps == ASSUME AlertInv, SweepOne PROVE AlertInv'
<1>1. PICK c \in sweep.todo :
        /\ \/ UNCHANGED alerts
           \/ \E looked \in BOOLEAN : RowAdded(c, looked)
        /\ \E F : SweepGoesOn(c, F)
  BY SweepDoes
<1>2. UNCHANGED <<eval, rules, reading>>
  BY DEF SweepOne, ruleVars
<1>3. c \in Collectors /\ c \in Keys
  BY DEF AlertInv, EvalTypes, Keys
<1>4. /\ sweep' = [pc |-> sweep'.pc, todo |-> sweep'.todo, fired |-> sweep'.fired]
      /\ sweep'.todo \subseteq Collectors
  BY <1>1 DEF AlertInv, EvalTypes, SweepGoesOn
<1>5. CASE UNCHANGED alerts
  <2>1. \A r \in Rules : Writing(r)' => Writing(r) /\ eval'.jobs[r] = eval.jobs[r]
    BY <1>2 DEF Writing
  <2>2. /\ eval' = [jobs |-> eval'.jobs, fired |-> eval'.fired, resolved |-> eval'.resolved,
                    pc |-> eval'.pc]
        /\ eval'.jobs \in [Rules -> Job \cup {NONE}]
    BY <1>2 DEF AlertInv, EvalTypes
  <2> QED BY <1>2, <1>4, <1>5, <2>1, <2>2, AlertsUntouched
<1>6. ASSUME NEW looked \in BOOLEAN, RowAdded(c, looked) PROVE AlertInv'
  <2> DEFINE n == NextId
             new == NewRow(c, looked)
  <2>1. alerts' = [alerts EXCEPT ![n] = new]
    BY <1>6 DEF RowAdded
  <2>2. new \in AlertRow /\ new.key = c /\ new.looked = looked
    BY <1>3, NewRowFacts
  <2> HIDE DEF n, new
  <2>3. /\ alerts' \in [Ids -> AlertRow \cup {NONE}]
        /\ \A i \in Ids : alerts'[i] = IF i = n THEN new ELSE alerts[i]
    BY <2>1, <2>2 DEF AlertInv, EvalTypes
  <2>4. EvalTypes'
    BY <1>2, <1>4, <2>3 DEF AlertInv, EvalTypes
  <2>5. \A k \in Keys : \A i \in Firing(k)' :
            \/ i \in Firing(k) /\ alerts'[i] = alerts[i]
            \/ k = c /\ i = n
    BY <2>2, <2>3 DEF Firing
  <2>6. OnePerKey'
    <3> SUFFICES ASSUME NEW k \in Keys, NEW i \in Firing(k)', NEW j \in Firing(k)',
                        k \in Collectors => alerts'[i].looked /\ alerts'[j].looked
                 PROVE  i = j
      BY DEF OnePerKey
    <3>1. CASE i # n /\ j # n
      BY <2>5, <3>1 DEF AlertInv, OnePerKey
    <3>2. CASE i = n /\ j = n
      BY <3>2
    <3>3. ASSUME k = c, (i = n) # (j = n) PROVE FALSE
      <4>1. n \in Ids /\ alerts'[n].looked
        BY <1>3, <3>3 DEF Firing
      <4>2. looked
        BY <2>2, <2>3, <4>1
      <4>3. Firing(c) = {}
        BY <1>6, <4>2 DEF RowAdded
      <4> QED BY <2>5, <3>3, <4>3
    <3>4. CASE k # c
      BY <2>5, <3>4 DEF AlertInv, OnePerKey
    <3> QED BY <3>1, <3>2, <3>3, <3>4
  <2>7. \A r \in Rules, a \in Assets : <<r, a>> \in Keys \ {c}
    BY <1>3, DedupeKeysAssumption DEF Keys
  <2>8. \A i \in Ids : alerts[i] \in AlertRow => alerts'[i] \in AlertRow
    BY <2>2, <2>3
  <2>9. \A k \in Keys \ {c} : Firing(k)' \subseteq Firing(k)
    BY <2>5
  <2>10. DecisionsHold'
    BY <1>2, <2>7, <2>8, <2>9 DEF AlertInv, DecisionsHold, Writing
  <2> QED BY <2>4, <2>6, <2>10 DEF AlertInv
<1> QED BY <1>1, <1>5, <1>6

\* Rows that are filled with n assets, each used, are filled with each once.
LEMMA RowsOfAssets ==
  ASSUME NEW S, IsFiniteSet(S), NEW g, NEW row,
         row \in [{g[n] : n \in 1 .. Cardinality(S)} -> S],
         {row[i] : i \in {g[n] : n \in 1 .. Cardinality(S)}} = S
  PROVE  \A i, j \in {g[n] : n \in 1 .. Cardinality(S)} : row[i] = row[j] => i = j
<1> DEFINE N == Cardinality(S)
           h == [n \in 1 .. N |-> row[g[n]]]
<1>1. N \in Nat
  BY FS_CardinalityType
<1>2. IsFiniteSet(1 .. N) /\ Cardinality(1 .. N) = N
  BY <1>1, FS_Interval
<1>3. h \in Surjection(1 .. N, S)
  BY DEF Surjection
<1>4. h \in Injection(1 .. N, S)
  BY <1>2, <1>3, FS_SurjSameCardinalityImpliesInj
<1>5. \A m, n \in 1 .. N : h[m] = h[n] => m = n
  BY <1>4 DEF Injection, IsInjective
<1> QED BY <1>5

\* The commit of a rule: each of its assets that fires had no firing alert at
\* the read, has none still, and gets one row.
LEMMA CommitKeeps == ASSUME AlertInv, NEW r \in Rules, EvalCommit(r) PROVE AlertInv'
<1> DEFINE N == Cardinality(Fires(r))
           ids == {FreeId(n) : n \in 1 .. N}
<1>1. Writing(r) /\ UNCHANGED <<rules, reading, sweep>>
  BY DEF EvalCommit, InJob, Writing, ruleVars
<1>2. PICK row \in [ids -> Fires(r)] :
        /\ {row[i] : i \in ids} = Fires(r)
        /\ \/ UNCHANGED alerts
           \/ alerts' = [i \in Ids |->
                IF i \in ids THEN NewRow(<<r, row[i]>>, TRUE)
                ELSE IF i \in Resolves(r) THEN ResolvedRow(i)
                ELSE alerts[i]]
  BY DEF EvalCommit
<1>3. /\ eval' = [jobs |-> eval'.jobs, fired |-> eval'.fired, resolved |-> eval'.resolved,
                  pc |-> eval'.pc]
      /\ eval'.jobs = [eval.jobs EXCEPT ![r] = NONE]
  BY DEF EvalCommit, AlertInv, EvalTypes
<1>4. /\ eval'.jobs \in [Rules -> Job \cup {NONE}]
      /\ \A q \in Rules : Writing(q)' => q # r /\ Writing(q) /\ eval'.jobs[q] = eval.jobs[q]
  BY <1>3 DEF AlertInv, EvalTypes, Writing
<1>5. CASE UNCHANGED alerts
  <2>1. sweep' = [pc |-> sweep'.pc, todo |-> sweep'.todo, fired |-> sweep'.fired]
        /\ sweep'.todo \subseteq Collectors
    BY <1>1 DEF AlertInv, EvalTypes
  <2> QED BY <1>1, <1>3, <1>4, <1>5, <2>1, AlertsUntouched
<1>6. CASE alerts' = [i \in Ids |->
                IF i \in ids THEN NewRow(<<r, row[i]>>, TRUE)
                ELSE IF i \in Resolves(r) THEN ResolvedRow(i)
                ELSE alerts[i]]
  <2>1. \A i, j \in ids : row[i] = row[j] => i = j
    <3> DEFINE g == [n \in 1 .. N |-> FreeId(n)]
    <3>1. ids = {g[n] : n \in 1 .. N}
      OBVIOUS
    <3>2. IsFiniteSet(Fires(r))
      BY AssetsAssumption, FS_Subset DEF Fires
    <3> HIDE DEF ids, g
    <3>3. row \in [{g[n] : n \in 1 .. Cardinality(Fires(r))} -> Fires(r)]
      BY <3>1
    <3>4. {row[i] : i \in {g[n] : n \in 1 .. Cardinality(Fires(r))}} = Fires(r)
      BY <1>2, <3>1
    <3>5. \A i, j \in {g[n] : n \in 1 .. Cardinality(Fires(r))} : row[i] = row[j] => i = j
      BY ONLY <3>2, <3>3, <3>4, RowsOfAssets
    <3> QED BY <3>1, <3>5
  <2>2. \A a \in Fires(r) : a \in Assets /\ <<r, a>> \in Keys /\ Firing(<<r, a>>) = {}
    BY <1>1 DEF Fires, Keys, AlertInv, DecisionsHold
  <2>3. \A i \in Resolves(r) : alerts[i] \in AlertRow
    BY <1>1 DEF Resolves, AlertInv, DecisionsHold
  <2> HIDE DEF ids
  <2>4. \A i \in ids : /\ NewRow(<<r, row[i]>>, TRUE) \in AlertRow
                       /\ NewRow(<<r, row[i]>>, TRUE).key = <<r, row[i]>>
                       /\ <<r, row[i]>> \in Keys
    BY <1>2, <2>2, NewRowFacts
  <2>5. \A i \in Resolves(r) :
           ResolvedRow(i) \in AlertRow /\ ResolvedRow(i).state # "firing"
    BY <2>3 DEF ResolvedRow, AlertRow
  <2>6. /\ alerts' \in [Ids -> AlertRow \cup {NONE}]
        /\ \A i \in Ids : alerts[i] \in AlertRow => alerts'[i] \in AlertRow
    BY <1>6, <2>4, <2>5 DEF AlertInv, EvalTypes
  <2>7. ASSUME NEW k \in Keys, NEW i \in Firing(k)', i \notin ids
        PROVE  i \in Firing(k) /\ alerts'[i] = alerts[i]
    BY <1>6, <2>5, <2>7 DEF Firing
  <2>8. ASSUME NEW k \in Keys, NEW i \in Firing(k)', i \in ids
        PROVE  k = <<r, row[i]>> /\ Firing(k) = {}
    <3>1. i \in Ids /\ alerts'[i].key = k
      BY <2>8 DEF Firing
    <3>2. alerts'[i] = NewRow(<<r, row[i]>>, TRUE)
      BY <1>6, <2>8, <3>1
    <3>3. k = <<r, row[i]>>
      BY <2>4, <2>8, <3>1, <3>2
    <3>4. row[i] \in Fires(r)
      BY <1>2, <2>8
    <3> QED BY <2>2, <3>3, <3>4
  <2>9. OnePerKey'
    <3> SUFFICES ASSUME NEW k \in Keys, NEW i \in Firing(k)', NEW j \in Firing(k)',
                        k \in Collectors => alerts'[i].looked /\ alerts'[j].looked
                 PROVE  i = j
      BY DEF OnePerKey
    <3>1. CASE i \in ids /\ j \in ids
      <4>1. <<r, row[i]>> = <<r, row[j]>>
        BY <2>8, <3>1
      <4> QED BY <2>1, <3>1, <4>1
    <3>2. CASE i \notin ids /\ j \notin ids
      BY <2>7, <3>2 DEF AlertInv, OnePerKey
    <3>3. CASE (i \in ids) # (j \in ids)
      BY <2>7, <2>8, <3>3
    <3> QED BY <3>1, <3>2, <3>3
  <2>10. \A q \in Rules \ {r}, a \in Assets :
            <<q, a>> \in Keys /\ Firing(<<q, a>>)' \subseteq Firing(<<q, a>>)
    BY <2>7, <2>8 DEF Keys
  <2>11. DecisionsHold'
    <3> SUFFICES ASSUME NEW q \in Rules, Writing(q)'
                 PROVE  /\ eval'.jobs[q].do \in [Assets -> Deed]
                        /\ \A a \in Assets :
                            /\ eval'.jobs[q].do[a].op = "fire" => Firing(<<q, a>>)' = {}
                            /\ eval'.jobs[q].do[a].op = "resolve" =>
                                 /\ eval'.jobs[q].do[a].id \in Ids
                                 /\ alerts'[eval'.jobs[q].do[a].id] \in AlertRow
      BY DEF DecisionsHold
    <3>1. q # r /\ Writing(q) /\ eval'.jobs[q] = eval.jobs[q]
      BY <1>4
    <3> QED BY <2>6, <2>10, <3>1 DEF AlertInv, DecisionsHold
  <2>12. EvalTypes'
    BY <1>1, <1>3, <1>4, <2>6 DEF AlertInv, EvalTypes
  <2> QED BY <2>9, <2>11, <2>12 DEF AlertInv
<1> QED BY <1>2, <1>5, <1>6

-----------------------------------------------------------------------------

LEMMA StepAlertInv == AlertInv /\ [AlertNext]_alertVars => AlertInv'
<1> SUFFICES ASSUME AlertInv, [AlertNext]_alertVars PROVE AlertInv'
  OBVIOUS
<1>1. CASE UNCHANGED alertVars
  <2>1. UNCHANGED <<alerts, rules, reading, eval, sweep>>
    BY <1>1 DEF alertVars
  <2>2. \A r \in Rules : Writing(r)' => Writing(r) /\ eval'.jobs[r] = eval.jobs[r]
    BY <2>1 DEF Writing
  <2> QED BY <2>1, <2>2, AlertsUntouched DEF AlertInv, EvalTypes
<1>2. CASE Environment \/ BridgeCrash \/ \E d \in Drains : DrainStep(d) \/ BridgePopFails(d)
  BY <1>2, OthersFireNothing
<1>3. CASE EvalStart
  BY <1>3, StartKeeps
<1>4. CASE \E r \in Rules : EvalRead(r) \/ EvalSelect(r) \/ EvalCommit(r) \/ EvalFail(r)
  BY <1>4, ReadKeeps, SelectKeeps, CommitKeeps, FailKeeps
<1>5. CASE EvalNotify \/ SweepNotify \/ SweepList \/ MagpieCrash
  BY <1>5, NotifyKeeps
<1>6. CASE SweepOne
  BY <1>6, SweepKeeps
<1> QED BY <1>1, <1>2, <1>3, <1>4, <1>5, <1>6 DEF AlertNext, EvalStep, SweepStep

LEMMA AtMostOne ==
  ASSUME NEW S, \A i, j \in S : i = j
  PROVE  Cardinality(S) <= 1
<1>1. CASE S = {}
  BY <1>1, FS_EmptySet
<1>2. CASE S # {}
  <2>1. PICK i : S = {i}
    BY <1>2
  <2>2. Cardinality({i}) = 1
    BY FS_Singleton
  <2> QED BY <2>1, <2>2
<1> QED BY <1>1, <1>2

LEMMA OneFiringFollows == AlertInv => AtMostOneFiring
<1> SUFFICES ASSUME AlertInv PROVE AtMostOneFiring
  OBVIOUS
<1>1. \A k \in Rules \X Assets : Cardinality(Firing(k)) <= 1
  <2> TAKE k \in Rules \X Assets
  <2>1. k \in Keys /\ k \notin Collectors
    BY DedupeKeysAssumption DEF Keys
  <2>2. \A i, j \in Firing(k) : i = j
    BY <2>1 DEF AlertInv, OnePerKey
  <2> QED BY <2>2, AtMostOne
<1>2. \A c \in Collectors : Cardinality({i \in Firing(c) : alerts[i].looked}) <= 1
  <2> TAKE c \in Collectors
  <2> DEFINE S == {i \in Firing(c) : alerts[i].looked}
  <2>1. \A i, j \in S : i = j
    BY DEF AlertInv, OnePerKey, Keys
  <2> HIDE DEF S
  <2>2. Cardinality(S) <= 1
    BY <2>1, AtMostOne
  <2> QED BY <2>2 DEF S
<1> QED BY <1>1, <1>2 DEF AtMostOneFiring

\* evalOne and the sweep look for a firing alert and insert one in separate
\* statements, without a unique index; with one magpie a rule and asset still
\* have at most one firing alert, whatever operators, crashes and failures do,
\* and a collector at most one that a look-up preceded: what the others stand
\* for is a failed look-up each.
THEOREM OneFiringPerKey == AlertSpec => []AtMostOneFiring
<1>1. AlertSpec => []AlertInv
  BY InitAlertInv, StepAlertInv, PTL DEF AlertSpec
<1> QED BY <1>1, OneFiringFollows, PTL

-----------------------------------------------------------------------------
(* Where the events are *)

\* What the table says of the rows that events are about: only the alerts of
\* rules resolve, and no alert that still fires or is about to be resolved has.
RowsOfEvents ==
    /\ \A i \in Ids : alerts[i] # NONE =>
          /\ alerts[i].state = "firing" => ~alerts[i].resolved
          /\ alerts[i].resolved => alerts[i].key \notin Collectors
    /\ \A r \in Rules : Writing(r) =>
          \A i \in Resolves(r) : /\ i \in Ids /\ alerts[i] # NONE
                                 /\ alerts[i].key \in {r} \X Assets
                                 /\ ~alerts[i].resolved

\* What magpie still owes is about rows of the table, and an idle loop owes
\* nothing; the sweep's alerts are its collectors'.
OwedRows ==
    /\ eval.fired \subseteq {i \in Ids : alerts[i] # NONE}
    /\ eval.resolved \subseteq {i \in Ids : alerts[i] # NONE /\ alerts[i].resolved}
    /\ sweep.fired \subseteq {i \in Ids : alerts[i] # NONE /\ alerts[i].key \in Collectors}
    /\ eval.fired \cap sweep.fired = {}
    /\ eval.pc = "idle" => eval.fired = {} /\ eval.resolved = {}
    /\ sweep.pc = "idle" => sweep.fired = {}

DrainRecord(x) == x = [pc |-> x.pc, ch |-> x.ch, ev |-> x.ev, n |-> x.n]

\* A drain holds an event exactly while it handles one.
DrainTypes ==
    /\ drains = [d \in Drains |-> drains[d]]
    /\ \A d \in Drains :
          /\ DrainRecord(drains[d])
          /\ drains[d].ev # NONE <=> drains[d].pc = "handle"

\* Until a call fails, the fire of an alert is ahead of its resolve.
InOrder ==
    losses = 0 => \A i \in Ids :
        /\ \A n \in 1 .. Len(queue) : queue[n] = Event("resolve", i) =>
              /\ Event("fire", i) \notin Owed
              /\ \A m \in 1 .. Len(queue) : queue[m] = Event("fire", i) => m < n
        /\ Event("resolve", i) \in InHand \cup handled => Event("fire", i) \notin Owed \cup Queued

FlowInv ==
    /\ losses \in Nat
    /\ queue \in Seq(Events)
    /\ EventsConserved
    /\ InOrder

EventInv == AlertInv /\ RowsOfEvents /\ OwedRows /\ DrainTypes /\ FlowInv

-----------------------------------------------------------------------------
(* How events move *)

LEMMA EventFacts ==
    /\ \A i, j : Event("fire", i) # Event("resolve", j)
    /\ \A k, i, j : Event(k, i) = Event(k, j) => i = j
    /\ \A k \in {"fire", "resolve"}, i \in Ids : Event(k, i) \in Events
    /\ NONE \notin Events
<1>1. \A k, i : Event(k, i).kind = k /\ Event(k, i).id = i
  BY DEF Event
<1>2. NONE \notin Events
  BY NoneAssumption DEF Events, Event
<1> QED BY <1>1, <1>2 DEF Events

LEMMA QueueFacts ==
  ASSUME NEW q \in Seq(Events)
  PROVE  /\ Len(q) \in Nat
         /\ \A n \in 1 .. Len(q) : q[n] \in Events
         /\ IsFiniteSet({q[n] : n \in 1 .. Len(q)})
         /\ Cardinality({q[n] : n \in 1 .. Len(q)}) \in Nat
         /\ Cardinality({q[n] : n \in 1 .. Len(q)}) <= Len(q)
<1> DEFINE S == {q[n] : n \in 1 .. Len(q)}
           f == [n \in 1 .. Len(q) |-> q[n]]
<1>1. Len(q) \in Nat /\ \A n \in 1 .. Len(q) : q[n] \in Events
  OBVIOUS
<1>2. IsFiniteSet(1 .. Len(q)) /\ Cardinality(1 .. Len(q)) = Len(q)
  <2>1. \A l \in Nat : IsFiniteSet(1 .. l) /\ Cardinality(1 .. l) = l
    BY FS_Interval
  <2> QED BY ONLY <1>1, <2>1
<1>3. f \in Surjection(1 .. Len(q), S)
  BY DEF Surjection
<1>4. IsFiniteSet(S) /\ Cardinality(S) <= Len(q)
  BY <1>2, <1>3, FS_Surjection
<1> QED BY <1>1, <1>4, FS_CardinalityType

\* Nothing about events changes.
LEMMA FlowSame ==
  ASSUME FlowInv, Announced' = Announced, Owed' = Owed, InHand' = InHand,
         UNCHANGED <<queue, handled, lost, losses>>
  PROVE  FlowInv'
<1>1. Queued' = Queued
  BY DEF Queued
<1> QED BY <1>1 DEF FlowInv, EventsConserved, InOrder

\* magpie commits alerts or resolves: their events are new, and owed.
LEMMA FlowAnnounce ==
  ASSUME FlowInv, NEW New, New \cap Announced = {},
         Announced' = Announced \cup New, Owed' = Owed \cup New, InHand' = InHand,
         \A i \in Ids : Event("fire", i) \in New => Event("resolve", i) \notin Announced,
         UNCHANGED <<queue, handled, lost, losses>>
  PROVE  FlowInv'
<1>1. Queued' = Queued
  BY DEF Queued
<1>2. EventsConserved'
  BY <1>1 DEF FlowInv, EventsConserved
<1>3. InOrder'
  <2> SUFFICES ASSUME losses = 0, NEW i \in Ids
               PROVE  /\ \A n \in 1 .. Len(queue) : queue[n] = Event("resolve", i) =>
                            /\ Event("fire", i) \notin Owed'
                            /\ \A m \in 1 .. Len(queue) : queue[m] = Event("fire", i) => m < n
                      /\ Event("resolve", i) \in InHand \cup handled =>
                            Event("fire", i) \notin Owed' \cup Queued'
    BY DEF InOrder
  <2>1. Event("resolve", i) \in Queued \cup InHand \cup handled => Event("fire", i) \notin New
    BY DEF FlowInv, EventsConserved
  <2>2. \A n \in 1 .. Len(queue) : queue[n] \in Queued
    BY DEF Queued
  <2> QED BY <1>1, <2>1, <2>2 DEF FlowInv, InOrder
<1> QED BY <1>2, <1>3 DEF FlowInv

\* A call that failed ends the promises about order and places; what was committed
\* in the same step has its events in one of them too.
LEMMA FlowLossOf ==
  ASSUME FlowInv, Loss, queue' \in Seq(Events), NEW New, Announced' = Announced \cup New,
         (Owed \cup Queued \cup InHand \cup handled \cup lost)' =
            Owed \cup Queued \cup InHand \cup handled \cup lost \cup New
  PROVE  FlowInv'
<1>1. losses' \in Nat /\ losses' # 0
  BY DEF FlowInv, Loss
<1> QED BY <1>1 DEF FlowInv, EventsConserved, InOrder

LEMMA FlowLoss ==
  ASSUME FlowInv, Loss, queue' \in Seq(Events), Announced' = Announced,
         (Owed \cup Queued \cup InHand \cup handled \cup lost)' =
            Owed \cup Queued \cup InHand \cup handled \cup lost
  PROVE  FlowInv'
<1> DEFINE New == {}
<1>1. /\ Announced' = Announced \cup New
      /\ (Owed \cup Queued \cup InHand \cup handled \cup lost)' =
            Owed \cup Queued \cup InHand \cup handled \cup lost \cup New
  OBVIOUS
<1> HIDE DEF New
<1> QED BY <1>1, FlowLossOf

\* The tail of a list of events.
LEMMA TailFacts ==
  ASSUME NEW q \in Seq(Events), q # <<>>
  PROVE  /\ Head(q) \in Events /\ Head(q) = q[1] /\ Len(q) \in Nat \ {0}
         /\ Tail(q) \in Seq(Events)
         /\ Len(Tail(q)) = Len(q) - 1
         /\ \A n \in 1 .. (Len(q) - 1) : Tail(q)[n] = q[n + 1]
         /\ {q[n] : n \in 1 .. Len(q)} = {Head(q)} \cup {Tail(q)[n] : n \in 1 .. Len(Tail(q))}
<1>1. /\ Head(q) \in Events /\ Head(q) = q[1] /\ Len(q) \in Nat \ {0}
      /\ Tail(q) \in Seq(Events)
      /\ Len(Tail(q)) = Len(q) - 1
      /\ \A n \in 1 .. (Len(q) - 1) : Tail(q)[n] = q[n + 1]
  OBVIOUS
<1>2. ASSUME NEW n \in 1 .. Len(q)
      PROVE  q[n] \in {Head(q)} \cup {Tail(q)[m] : m \in 1 .. Len(Tail(q))}
  <2>1. CASE n = 1
    BY <1>1, <2>1
  <2>2. CASE n # 1
    <3>1. n - 1 \in 1 .. (Len(q) - 1) /\ (n - 1) + 1 = n
      BY <1>1, <2>2
    <3>2. Tail(q)[n - 1] = q[n]
      BY <1>1, <3>1
    <3> QED BY <1>1, <3>1, <3>2
  <2> QED BY <2>1, <2>2
<1>3. ASSUME NEW n \in 1 .. (Len(q) - 1)
      PROVE  Tail(q)[n] \in {q[m] : m \in 1 .. Len(q)}
  <2>1. n + 1 \in 1 .. Len(q) /\ Tail(q)[n] = q[n + 1]
    BY <1>1
  <2> QED BY <2>1
<1>4. Head(q) \in {q[m] : m \in 1 .. Len(q)}
  <2>1. 1 \in 1 .. Len(q)
    BY <1>1
  <2> QED BY <1>1, <2>1
<1> QED BY <1>1, <1>2, <1>3, <1>4

\* The end of a list of events.
LEMMA AppendedFacts ==
  ASSUME NEW q \in Seq(Events), NEW e \in Events
  PROVE  /\ Append(q, e) \in Seq(Events)
         /\ Len(q) \in Nat /\ Len(Append(q, e)) = Len(q) + 1
         /\ \A n \in 1 .. Len(q) : Append(q, e)[n] = q[n]
         /\ Append(q, e)[Len(q) + 1] = e
         /\ {Append(q, e)[n] : n \in 1 .. Len(Append(q, e))} = {q[n] : n \in 1 .. Len(q)} \cup {e}
<1> DEFINE t == Append(q, e)
<1>1. /\ t \in Seq(Events)
      /\ Len(q) \in Nat /\ Len(t) = Len(q) + 1
      /\ \A n \in 1 .. Len(q) : t[n] = q[n]
      /\ t[Len(q) + 1] = e
  OBVIOUS
<1> HIDE DEF t
<1>2. \A n \in 1 .. Len(t) : n \in 1 .. Len(q) \/ n = Len(q) + 1
  BY <1>1
<1>3. 1 .. Len(q) \subseteq 1 .. Len(t) /\ Len(q) + 1 \in 1 .. Len(t)
  BY <1>1
<1>4. {t[n] : n \in 1 .. Len(t)} \subseteq {q[n] : n \in 1 .. Len(q)} \cup {e}
  BY <1>1, <1>2
<1>5. {q[n] : n \in 1 .. Len(q)} \cup {e} \subseteq {t[n] : n \in 1 .. Len(t)}
  BY <1>1, <1>3
<1> QED BY <1>1, <1>4, <1>5 DEF t

\* RPOP by a drain.
LEMMA FlowPop ==
  ASSUME FlowInv, queue # <<>>, queue' = Tail(queue),
         Announced' = Announced, Owed' = Owed, InHand' = InHand \cup {Head(queue)},
         UNCHANGED <<handled, lost, losses>>
  PROVE  FlowInv'
<1> DEFINE e == Head(queue)
<1>1. /\ e \in Events /\ e = queue[1] /\ Len(queue) \in Nat \ {0}
      /\ queue' \in Seq(Events) /\ Len(queue') = Len(queue) - 1
      /\ \A n \in 1 .. (Len(queue) - 1) : queue'[n] = queue[n + 1]
      /\ Queued = {e} \cup Queued'
  BY TailFacts DEF FlowInv, Queued
<1> HIDE DEF e
<1>2. InHand' = InHand \cup {e}
  BY DEF e
<1>3. losses = 0 => e \notin Queued' /\ Len(queue') = Cardinality(Queued')
  <2> SUFFICES ASSUME losses = 0 PROVE e \notin Queued' /\ Len(queue') = Cardinality(Queued')
    OBVIOUS
  <2>1. Len(queue) = Cardinality(Queued)
    BY DEF FlowInv, EventsConserved
  <2>2. IsFiniteSet(Queued') /\ Cardinality(Queued') \in Nat /\ Cardinality(Queued') <= Len(queue')
    BY <1>1, QueueFacts DEF Queued
  <2>3. Cardinality(Queued' \cup {e}) = IF e \in Queued' THEN Cardinality(Queued')
                                        ELSE Cardinality(Queued') + 1
    BY <2>2, FS_AddElement
  <2>4. Queued' \cup {e} = Queued
    BY <1>1
  <2>5. Len(queue) = IF e \in Queued' THEN Cardinality(Queued') ELSE Cardinality(Queued') + 1
    BY ONLY <2>1, <2>3, <2>4
  <2>6. Cardinality(Queued') \in Nat /\ Cardinality(Queued') <= Len(queue) - 1
    BY ONLY <1>1, <2>2
  <2> QED BY ONLY <1>1, <2>5, <2>6
<1>4. EventsConserved'
  BY <1>1, <1>2, <1>3 DEF FlowInv, EventsConserved
<1>5. InOrder'
  <2> SUFFICES ASSUME losses = 0, NEW i \in Ids
               PROVE  /\ \A n \in 1 .. Len(queue') : queue'[n] = Event("resolve", i) =>
                            /\ Event("fire", i) \notin Owed
                            /\ \A m \in 1 .. Len(queue') : queue'[m] = Event("fire", i) => m < n
                      /\ Event("resolve", i) \in InHand' \cup handled =>
                            Event("fire", i) \notin Owed \cup Queued'
    BY DEF InOrder
  <2>1. /\ \A n \in 1 .. Len(queue) : queue[n] = Event("resolve", i) =>
              /\ Event("fire", i) \notin Owed
              /\ \A m \in 1 .. Len(queue) : queue[m] = Event("fire", i) => m < n
        /\ Event("resolve", i) \in InHand \cup handled => Event("fire", i) \notin Owed \cup Queued
    BY DEF FlowInv, InOrder
  <2>2. \A n \in 1 .. Len(queue') : n \in 1 .. (Len(queue) - 1) /\ n + 1 \in 1 .. Len(queue)
    BY <1>1
  <2>3. ASSUME NEW n \in 1 .. Len(queue'), queue'[n] = Event("resolve", i)
        PROVE  /\ Event("fire", i) \notin Owed
               /\ \A m \in 1 .. Len(queue') : queue'[m] = Event("fire", i) => m < n
    <3>1. queue[n + 1] = Event("resolve", i) /\ n + 1 \in 1 .. Len(queue)
      BY <1>1, <2>2, <2>3
    <3>2. \A m \in 1 .. Len(queue') : queue'[m] = Event("fire", i) => m + 1 < n + 1
      BY <1>1, <2>1, <2>2, <3>1
    <3> QED BY <2>1, <3>1, <3>2
  <2>4. CASE Event("resolve", i) = e
    <3>1. 1 \in 1 .. Len(queue) /\ queue[1] = Event("resolve", i)
      BY <1>1, <2>4
    <3>2. \A m \in 1 .. Len(queue) : queue[m] # Event("fire", i)
      BY <2>1, <3>1
    <3>3. Event("fire", i) \notin Queued /\ Event("fire", i) \notin Owed
      BY <2>1, <3>1, <3>2 DEF Queued
    <3> QED BY <1>1, <2>3, <3>3
  <2>5. CASE Event("resolve", i) # e
    BY <1>1, <1>2, <2>1, <2>3, <2>5
  <2> QED BY <2>4, <2>5
<1> QED BY <1>1, <1>4, <1>5 DEF FlowInv

\* A drain is done with an event it held.
LEMMA FlowHandle ==
  ASSUME FlowInv, NEW e \in InHand, handled' = handled \cup {e},
         InHand' \subseteq InHand, InHand \subseteq InHand' \cup {e},
         Announced' = Announced, Owed' = Owed, UNCHANGED <<queue, lost, losses>>
  PROVE  FlowInv'
<1>1. Queued' = Queued
  BY DEF Queued
<1>2. InHand' \cup handled' = InHand \cup handled
  OBVIOUS
<1>3. EventsConserved'
  BY <1>1, <1>2 DEF FlowInv, EventsConserved
<1>4. InOrder'
  BY <1>1, <1>2 DEF FlowInv, InOrder
<1> QED BY <1>3, <1>4 DEF FlowInv

\* magpie pushes an event it owed; a resolve only when its fire is not owed.
LEMMA FlowPush ==
  ASSUME FlowInv, NEW e \in Owed, enqueueNotify(e),
         Owed' = Owed \ {e}, Announced' = Announced, InHand' = InHand, UNCHANGED handled,
         \A i \in Ids : e = Event("resolve", i) => Event("fire", i) \notin Owed
  PROVE  FlowInv'
<1>0. e \in Events
  <2>1. e \in Announced
    BY DEF FlowInv, EventsConserved
  <2> QED BY <2>1, EventFacts DEF Announced
<1>1. CASE queue' = Append(queue, e) /\ UNCHANGED <<lost, boundVars>>
  <2>1. /\ queue' \in Seq(Events)
        /\ Len(queue) \in Nat /\ Len(queue') = Len(queue) + 1
        /\ \A n \in 1 .. Len(queue) : queue'[n] = queue[n]
        /\ queue'[Len(queue) + 1] = e
        /\ Queued' = Queued \cup {e}
    BY <1>0, <1>1, AppendedFacts DEF FlowInv, Queued
  <2>2. losses' = losses
    BY <1>1 DEF boundVars
  <2>3. losses = 0 => Len(queue') = Cardinality(Queued')
    <3> SUFFICES ASSUME losses = 0 PROVE Len(queue') = Cardinality(Queued')
      OBVIOUS
    <3>1. e \notin Queued /\ Len(queue) = Cardinality(Queued)
      BY DEF FlowInv, EventsConserved
    <3>2. IsFiniteSet(Queued)
      BY QueueFacts DEF FlowInv, Queued
    <3>3. Cardinality(Queued \cup {e}) = Cardinality(Queued) + 1
      BY <3>1, <3>2, FS_AddElement
    <3>4. Cardinality(Queued') = Cardinality(Queued \cup {e})
      BY ONLY <2>1
    <3> QED BY ONLY <2>1, <3>1, <3>3, <3>4
  <2>4. EventsConserved'
    BY <1>1, <2>1, <2>2, <2>3 DEF FlowInv, EventsConserved
  <2>5. InOrder'
    <3> SUFFICES ASSUME losses = 0, NEW i \in Ids
                 PROVE  /\ \A n \in 1 .. Len(queue') : queue'[n] = Event("resolve", i) =>
                              /\ Event("fire", i) \notin Owed'
                              /\ \A m \in 1 .. Len(queue') : queue'[m] = Event("fire", i) => m < n
                        /\ Event("resolve", i) \in InHand \cup handled =>
                              Event("fire", i) \notin Owed' \cup Queued'
      BY <2>2 DEF InOrder
    <3>1. /\ \A n \in 1 .. Len(queue) : queue[n] = Event("resolve", i) =>
                /\ Event("fire", i) \notin Owed
                /\ \A m \in 1 .. Len(queue) : queue[m] = Event("fire", i) => m < n
          /\ Event("resolve", i) \in InHand \cup handled =>
                Event("fire", i) \notin Owed \cup Queued
      BY DEF FlowInv, InOrder
    <3>2. \A n \in 1 .. Len(queue') : n \in 1 .. Len(queue) \/ n = Len(queue) + 1
      BY <2>1
    <3>3. ASSUME NEW n \in 1 .. Len(queue'), queue'[n] = Event("resolve", i)
          PROVE  /\ Event("fire", i) \notin Owed'
                 /\ \A m \in 1 .. Len(queue') : queue'[m] = Event("fire", i) => m < n
      <4>1. CASE n \in 1 .. Len(queue)
        <5>1. /\ Event("fire", i) \notin Owed
              /\ \A m \in 1 .. Len(queue) : queue[m] = Event("fire", i) => m < n
          BY <2>1, <3>1, <3>3, <4>1
        <5>2. e # Event("fire", i)
          BY <5>1
        <5> QED BY <2>1, <3>2, <5>1, <5>2
      <4>2. CASE n = Len(queue) + 1
        <5>1. e = Event("resolve", i) /\ Event("fire", i) \notin Owed
          BY <2>1, <3>3, <4>2
        <5>2. e # Event("fire", i)
          BY <5>1, EventFacts
        <5>3. \A m \in 1 .. Len(queue') : queue'[m] = Event("fire", i) => m \in 1 .. Len(queue)
          BY <2>1, <3>2, <5>2
        <5>4. \A m \in 1 .. Len(queue) : m < n
          BY <2>1, <4>2
        <5> QED BY <5>1, <5>3, <5>4
      <4> QED BY <3>2, <4>1, <4>2
    <3>4. Event("resolve", i) \in InHand \cup handled => Event("fire", i) \notin Owed' \cup Queued'
      BY <2>1, <3>1
    <3> QED BY <3>3, <3>4
  <2> QED BY <2>1, <2>2, <2>4, <2>5 DEF FlowInv
<1>2. CASE Loss /\ lost' = lost \cup {e} /\ UNCHANGED queue
  <2>1. Queued' = Queued /\ queue' \in Seq(Events)
    BY <1>2 DEF Queued, FlowInv
  <2> QED BY <1>2, <2>1, FlowLoss
<1>3. CASE Loss /\ queue' = queue \o <<e, e>> /\ UNCHANGED lost
  <2>1. queue \o <<e, e>> = Append(Append(queue, e), e)
    BY <1>0 DEF FlowInv
  <2>2. Append(queue, e) \in Seq(Events)
    BY <1>0, AppendedFacts DEF FlowInv
  <2>3. queue' \in Seq(Events) /\ Queued' = Queued \cup {e}
    <3>1. {Append(queue, e)[n] : n \in 1 .. Len(Append(queue, e))} = Queued \cup {e}
      BY <1>0, AppendedFacts DEF FlowInv, Queued
    <3>2. queue' = Append(Append(queue, e), e)
      BY <1>3, <2>1
    <3> DEFINE q == Append(queue, e)
    <3>3. queue' = Append(q, e) /\ q \in Seq(Events)
          /\ {q[n] : n \in 1 .. Len(q)} = Queued \cup {e}
      BY <2>2, <3>1, <3>2
    <3> HIDE DEF q
    <3>4. queue' \in Seq(Events)
          /\ {queue'[n] : n \in 1 .. Len(queue')} = {q[n] : n \in 1 .. Len(q)} \cup {e}
      BY <1>0, <3>3, AppendedFacts
    <3> QED BY <3>3, <3>4 DEF Queued
  <2> QED BY <1>3, <2>3, FlowLoss
<1> QED BY <1>1, <1>2, <1>3 DEF enqueueNotify
-----------------------------------------------------------------------------
(* The steps, as moves of events *)

LEMMA RowIsNotNone == NONE \notin AlertRow
  BY NoneAssumption DEF AlertRow

\* Steps that neither insert an alert nor resolve one nor start a decision.
LEMMA RowsStay ==
  ASSUME RowsOfEvents,
         \A i \in Ids :
            /\ alerts'[i] = NONE <=> alerts[i] = NONE
            /\ alerts[i] # NONE => /\ alerts'[i].key = alerts[i].key
                                   /\ alerts'[i].resolved = alerts[i].resolved
                                   /\ alerts'[i].state = "firing" => alerts[i].state = "firing",
         \A r \in Rules : Writing(r)' => Writing(r) /\ eval'.jobs[r] = eval.jobs[r]
  PROVE  RowsOfEvents' /\ Announced' = Announced
<1>1. Announced' = Announced
  BY DEF Announced
<1>2. \A r \in Rules : Writing(r)' => Writing(r) /\ Resolves(r)' = Resolves(r)
  BY DEF Resolves
<1> QED BY <1>1, <1>2 DEF RowsOfEvents

\* Both for a table that does not change.
LEMMA TableStays ==
  ASSUME RowsOfEvents, UNCHANGED alerts,
         \A r \in Rules : Writing(r)' => Writing(r) /\ eval'.jobs[r] = eval.jobs[r]
  PROVE  RowsOfEvents' /\ Announced' = Announced
  BY RowsStay

LEMMA BridgeStays ==
  ASSUME UNCHANGED drains
  PROVE  InHand' = InHand /\ (DrainTypes => DrainTypes')
  BY DEF InHand, DrainTypes, DrainRecord

LEMMA EnvironmentMoves ==
  ASSUME EventInv, Environment
  PROVE  RowsOfEvents' /\ OwedRows' /\ DrainTypes' /\ FlowInv'
<1> USE DEF EventInv
<1>1. UNCHANGED <<eval, sweep, queue, drains, handled, lost, losses>>
  BY DEF Environment, createRule, updateRule, deleteRule, deleteAsset, MaintenanceWindow, enroll,
         heartbeat, patchEnabled, decommission, FallSilent, createChannel, updateChannel,
         deleteChannel, Sample, bridgeVars, boundVars, ruleVars, Change
<1>2. UNCHANGED alerts \/ \E a \in Assets : deleteAsset(a)
  BY DEF Environment, createRule, updateRule, deleteRule, MaintenanceWindow, enroll,
         heartbeat, patchEnabled, decommission, FallSilent, createChannel, updateChannel,
         deleteChannel, Sample
<1>3. \A i \in Ids :
            /\ alerts'[i] = NONE <=> alerts[i] = NONE
            /\ alerts[i] # NONE => /\ alerts'[i].key = alerts[i].key
                                   /\ alerts'[i].resolved = alerts[i].resolved
                                   /\ alerts'[i].state = "firing" => alerts[i].state = "firing"
  BY <1>2, DroppedRows, RowIsNotNone DEF AlertInv, EvalTypes
<1>4. \A r \in Rules : Writing(r)' => Writing(r) /\ eval'.jobs[r] = eval.jobs[r]
  BY <1>1 DEF Writing
<1>5. RowsOfEvents' /\ Announced' = Announced
  BY <1>3, <1>4, RowsStay
<1>6. OwedRows'
  BY <1>1, <1>3 DEF OwedRows
<1>7. Owed' = Owed
  BY <1>1 DEF Owed
<1> QED BY <1>1, <1>5, <1>6, <1>7, BridgeStays, FlowSame

\* The start of a pass or a sweep, its reads, and a rule that fails.
LEMMA ReadsMove ==
  ASSUME EventInv, EvalStart \/ SweepList \/ \E r \in Rules : EvalRead(r) \/ EvalFail(r)
  PROVE  RowsOfEvents' /\ OwedRows' /\ DrainTypes' /\ FlowInv'
<1> USE DEF EventInv
<1>1. UNCHANGED <<alerts, queue, drains, handled, lost>>
  BY DEF EvalStart, SweepList, EvalRead, EvalFail, bridgeVars
<1>2. /\ \/ UNCHANGED <<eval.pc, eval.fired, eval.resolved>>
         \/ /\ eval.fired = {} /\ eval.resolved = {}
            /\ eval'.fired = {} /\ eval'.resolved = {}
      /\ \A r \in Rules : Writing(r)' => Writing(r) /\ eval'.jobs[r] = eval.jobs[r]
  <2>1. CASE EvalStart
    BY <2>1 DEF EvalStart, NoPass, Writing, OwedRows
  <2>2. CASE SweepList
    BY <2>2 DEF SweepList, Writing
  <2>3. ASSUME NEW r \in Rules, EvalRead(r)
        PROVE  /\ UNCHANGED <<eval.pc, eval.fired, eval.resolved>>
               /\ \A q \in Rules : Writing(q)' => Writing(q) /\ eval'.jobs[q] = eval.jobs[q]
    <3> DEFINE seen == [a \in Assets |-> reading[<<r, a>>]]
               job == [eval.jobs[r] EXCEPT !.pc = "select", !.seen = seen]
    <3>1. eval.jobs[r] \in Job
      BY <2>3 DEF AlertInv, EvalTypes, EvalRead, InJob
    <3>2. job.pc = "select"
      BY <3>1 DEF Job
    <3>3. eval' = [jobs |-> [eval.jobs EXCEPT ![r] = job], fired |-> eval.fired,
                   resolved |-> eval.resolved, pc |-> eval.pc]
      BY <2>3 DEF EvalRead, AlertInv, EvalTypes
    <3> HIDE DEF job
    <3>4. eval'.jobs[r] = job /\ \A q \in Rules \ {r} : eval'.jobs[q] = eval.jobs[q]
      BY <3>3 DEF AlertInv, EvalTypes
    <3> QED BY <3>2, <3>3, <3>4 DEF Writing
  <2>4. ASSUME NEW r \in Rules, EvalFail(r)
        PROVE  /\ UNCHANGED <<eval.pc, eval.fired, eval.resolved>>
               /\ \A q \in Rules : Writing(q)' => Writing(q) /\ eval'.jobs[q] = eval.jobs[q]
    <3>1. eval' = [jobs |-> [eval.jobs EXCEPT ![r] = NONE], fired |-> eval.fired,
                   resolved |-> eval.resolved, pc |-> eval.pc]
      BY <2>4 DEF EvalFail, AlertInv, EvalTypes
    <3>2. eval'.jobs[r] = NONE /\ \A q \in Rules \ {r} : eval'.jobs[q] = eval.jobs[q]
      BY <3>1 DEF AlertInv, EvalTypes
    <3> QED BY <3>1, <3>2 DEF Writing
  <2> QED BY <2>1, <2>2, <2>3, <2>4
<1>3. \/ UNCHANGED sweep
      \/ sweep.fired = {} /\ sweep'.fired = {}
  BY DEF EvalStart, SweepList, EvalRead, EvalFail, NoSweep, OwedRows
<1>4. RowsOfEvents' /\ Announced' = Announced
  BY <1>1, <1>2, TableStays
<1>5. OwedRows'
  BY <1>1, <1>2, <1>3 DEF OwedRows
<1>6. Owed' = Owed
  BY <1>2, <1>3 DEF Owed
<1>7. Queued' = Queued /\ queue' \in Seq(Events)
  BY <1>1 DEF Queued, FlowInv
<1>8. InHand' = InHand /\ DrainTypes'
  BY <1>1, BridgeStays
<1>9. Loss \/ UNCHANGED losses
  BY DEF EvalStart, SweepList, EvalRead, EvalFail, boundVars
<1>10. CASE UNCHANGED losses
  BY <1>1, <1>4, <1>5, <1>6, <1>8, <1>10, FlowSame
<1>11. CASE Loss
  BY <1>1, <1>4, <1>5, <1>6, <1>7, <1>8, <1>11, FlowLoss
<1> QED BY <1>9, <1>10, <1>11

LEMMA SelectMoves ==
  ASSUME EventInv, NEW r \in Rules, EvalSelect(r)
  PROVE  RowsOfEvents' /\ OwedRows' /\ DrainTypes' /\ FlowInv'
<1> USE DEF EventInv
<1> DEFINE deeds == [a \in Assets |-> Decision(r, a, eval.jobs[r].seen[a])]
           job == [eval.jobs[r] EXCEPT !.pc = "commit", !.do = deeds]
<1>1. eval.jobs[r] \in Job
  BY DEF AlertInv, EvalTypes, EvalSelect, InJob
<1>2. \A a \in Assets : deeds[a].op = "resolve" =>
          /\ deeds[a].id \in Ids /\ alerts[deeds[a].id] # NONE
          /\ alerts[deeds[a].id].key = <<r, a>> /\ ~alerts[deeds[a].id].resolved
  <2> SUFFICES ASSUME NEW a \in Assets, deeds[a].op = "resolve"
               PROVE  deeds[a].id \in Firing(<<r, a>>)
    BY DEF RowsOfEvents, Firing
  <2> DEFINE v == eval.jobs[r].seen[a]
  <2>1. v = "within" /\ Firing(<<r, a>>) # {}
    <3>1. CASE v = "breach" /\ Firing(<<r, a>>) = {}
      BY <3>1 DEF Decision
    <3>2. CASE ~(v = "breach" /\ Firing(<<r, a>>) = {}) /\ ~(v = "within" /\ Firing(<<r, a>>) # {})
      <4>1. Decision(r, a, v) = [op |-> "skip", id |-> 0]
        BY <3>2 DEF Decision
      <4> QED BY <4>1
    <3> QED BY <3>1, <3>2
  <2>2. deeds[a].id = CHOOSE i \in Firing(<<r, a>>) : TRUE
    BY <2>1 DEF Decision
  <2> QED BY <2>1, <2>2
<1> HIDE DEF deeds
<1>3. job.do = deeds
  BY <1>1 DEF Job
<1>4. eval' = [jobs |-> [eval.jobs EXCEPT ![r] = job], fired |-> eval.fired,
               resolved |-> eval.resolved, pc |-> eval.pc]
  BY DEF EvalSelect, AlertInv, EvalTypes, deeds
<1> HIDE DEF job
<1>5. eval'.jobs[r].do = deeds /\ \A q \in Rules \ {r} : eval'.jobs[q] = eval.jobs[q]
  BY <1>3, <1>4 DEF AlertInv, EvalTypes
<1>6. UNCHANGED <<alerts, sweep, queue, drains, handled, lost, losses>>
  BY DEF EvalSelect, bridgeVars, boundVars
<1>7. Announced' = Announced /\ Owed' = Owed
  BY <1>4, <1>6 DEF Announced, Owed
<1>8. OwedRows'
  BY <1>4, <1>6 DEF OwedRows
<1>9. RowsOfEvents'
  <2>1. ASSUME NEW q \in Rules, Writing(q)', NEW i \in Resolves(q)'
        PROVE  /\ i \in Ids /\ alerts[i] # NONE
               /\ alerts[i].key \in {q} \X Assets /\ ~alerts[i].resolved
    <3>1. PICK a \in Assets : eval'.jobs[q].do[a].op = "resolve" /\ i = eval'.jobs[q].do[a].id
      BY <2>1 DEF Resolves
    <3>2. CASE q = r
      <4>1. deeds[a].op = "resolve" /\ i = deeds[a].id
        BY <1>5, <3>1, <3>2
      <4>2. /\ i \in Ids /\ alerts[i] # NONE
            /\ alerts[i].key = <<r, a>> /\ ~alerts[i].resolved
        BY <1>2, <4>1, Zenon
      <4>3. alerts[i].key \in {q} \X Assets
        BY <3>2, <4>2
      <4> QED BY <4>2, <4>3, Zenon
    <3>3. CASE q # r
      <4>1. Writing(q) /\ eval'.jobs[q] = eval.jobs[q]
        BY <1>5, <2>1, <3>3 DEF Writing
      <4>2. i \in Resolves(q)
        BY <3>1, <4>1 DEF Resolves
      <4> QED BY <4>1, <4>2 DEF RowsOfEvents
    <3> QED BY <3>2, <3>3
  <2> QED BY <1>6, <2>1 DEF RowsOfEvents
<1> QED BY <1>6, <1>7, <1>8, <1>9, BridgeStays, FlowSame

\* The pushes of a pass: what fired first, and after it what resolved.
LEMMA EvalNotifyMoves ==
  ASSUME EventInv, EvalNotify
  PROVE  RowsOfEvents' /\ OwedRows' /\ DrainTypes' /\ FlowInv'
<1> USE DEF EventInv
<1>1. UNCHANGED <<alerts, sweep, drains, handled>>
  BY DEF EvalNotify, bridgeVars
<1>2. InHand' = InHand /\ DrainTypes'
  BY <1>1, BridgeStays
<1>3. CASE \E i \in eval.fired : enqueueNotify(Event("fire", i))
                                 /\ eval' = [eval EXCEPT !.fired = @ \ {i}]
  <2>1. PICK i \in eval.fired : enqueueNotify(Event("fire", i))
                                /\ eval' = [eval EXCEPT !.fired = @ \ {i}]
    BY <1>3
  <2>2. /\ eval'.fired = eval.fired \ {i} /\ eval'.resolved = eval.resolved
        /\ eval'.jobs = eval.jobs /\ eval'.pc = eval.pc
    BY <2>1 DEF AlertInv, EvalTypes
  <2>3. RowsOfEvents' /\ Announced' = Announced
    BY <1>1, <2>2, TableStays DEF Writing
  <2>4. OwedRows'
    BY <1>1, <2>2 DEF OwedRows
  <2>5. Event("fire", i) \in Owed /\ Owed' = Owed \ {Event("fire", i)}
    <3>1. i \notin sweep.fired
      BY DEF OwedRows
    <3> QED BY <1>1, <2>2, <3>1, EventFacts DEF Owed
  <2>6. \A j : Event("fire", i) # Event("resolve", j)
    BY EventFacts
  <2> QED BY <1>1, <1>2, <2>1, <2>3, <2>4, <2>5, <2>6, FlowPush
<1>4. CASE eval.fired = {} /\ \E i \in eval.resolved : enqueueNotify(Event("resolve", i))
                                 /\ eval' = [eval EXCEPT !.resolved = @ \ {i}]
  <2>1. PICK i \in eval.resolved : enqueueNotify(Event("resolve", i))
                                   /\ eval' = [eval EXCEPT !.resolved = @ \ {i}]
    BY <1>4
  <2>2. /\ eval'.fired = eval.fired /\ eval'.resolved = eval.resolved \ {i}
        /\ eval'.jobs = eval.jobs /\ eval'.pc = eval.pc
    BY <2>1 DEF AlertInv, EvalTypes
  <2>3. RowsOfEvents' /\ Announced' = Announced
    BY <1>1, <2>2, TableStays DEF Writing
  <2>4. OwedRows'
    BY <1>1, <2>2 DEF OwedRows
  <2>5. Event("resolve", i) \in Owed /\ Owed' = Owed \ {Event("resolve", i)}
    BY <1>1, <2>2, EventFacts DEF Owed
  <2>6. i \notin sweep.fired
    BY DEF OwedRows, RowsOfEvents
  <2>7. Event("fire", i) \notin Owed
    BY <1>4, <2>6, EventFacts DEF Owed
  <2>8. \A j \in Ids : Event("resolve", i) = Event("resolve", j) => Event("fire", j) \notin Owed
    BY <2>7, EventFacts
  <2> QED BY <1>1, <1>2, <2>1, <2>3, <2>4, <2>5, <2>8, FlowPush
<1>5. CASE eval.fired \cup eval.resolved = {} /\ eval' = NoPass
           /\ UNCHANGED <<queue, lost, boundVars>>
  <2>1. eval'.fired = {} /\ eval'.resolved = {} /\ \A r \in Rules : ~Writing(r)'
    BY <1>5 DEF NoPass, Writing
  <2>2. RowsOfEvents' /\ Announced' = Announced
    BY <1>1, <2>1, TableStays
  <2>3. OwedRows'
    BY <1>1, <2>1 DEF OwedRows
  <2>4. Owed' = Owed
    BY <1>1, <1>5, <2>1 DEF Owed
  <2> QED BY <1>1, <1>2, <1>5, <2>2, <2>3, <2>4, FlowSame DEF boundVars
<1> QED BY <1>3, <1>4, <1>5 DEF EvalNotify

LEMMA SweepNotifyMoves ==
  ASSUME EventInv, SweepNotify
  PROVE  RowsOfEvents' /\ OwedRows' /\ DrainTypes' /\ FlowInv'
<1> USE DEF EventInv
<1>1. UNCHANGED <<alerts, eval, drains, handled>>
  BY DEF SweepNotify, bridgeVars
<1>2. InHand' = InHand /\ DrainTypes'
  BY <1>1, BridgeStays
<1>3. RowsOfEvents' /\ Announced' = Announced
  BY <1>1, TableStays DEF Writing
<1>4. CASE \E i \in sweep.fired : enqueueNotify(Event("fire", i))
                                  /\ sweep' = [sweep EXCEPT !.fired = @ \ {i}]
  <2>1. PICK i \in sweep.fired : enqueueNotify(Event("fire", i))
                                 /\ sweep' = [sweep EXCEPT !.fired = @ \ {i}]
    BY <1>4
  <2>2. sweep'.fired = sweep.fired \ {i} /\ sweep'.pc = sweep.pc
    BY <2>1 DEF AlertInv, EvalTypes
  <2>3. OwedRows'
    BY <1>1, <2>2 DEF OwedRows
  <2>4. Event("fire", i) \in Owed /\ Owed' = Owed \ {Event("fire", i)}
    <3>1. i \notin eval.fired
      BY DEF OwedRows
    <3> QED BY <1>1, <2>2, <3>1, EventFacts DEF Owed
  <2>5. \A j : Event("fire", i) # Event("resolve", j)
    BY EventFacts
  <2> QED BY <1>1, <1>2, <1>3, <2>1, <2>3, <2>4, <2>5, FlowPush
<1>5. CASE sweep.fired = {} /\ sweep' = NoSweep /\ UNCHANGED <<queue, lost, boundVars>>
  <2>1. OwedRows' /\ Owed' = Owed
    BY <1>1, <1>5 DEF OwedRows, Owed, NoSweep
  <2> QED BY <1>1, <1>2, <1>3, <1>5, <2>1, FlowSame DEF boundVars
<1> QED BY <1>4, <1>5 DEF SweepNotify

LEMMA MagpieCrashMoves ==
  ASSUME EventInv, MagpieCrash
  PROVE  RowsOfEvents' /\ OwedRows' /\ DrainTypes' /\ FlowInv'
<1> USE DEF EventInv
<1>1. UNCHANGED <<alerts, queue, drains, handled>> /\ lost' = lost \cup Owed /\ Loss
  BY DEF MagpieCrash, bridgeVars, Owed
<1>2. /\ eval'.fired = {} /\ eval'.resolved = {} /\ sweep'.fired = {}
      /\ \A r \in Rules : ~Writing(r)'
  BY DEF MagpieCrash, NoPass, NoSweep, Writing
<1>3. RowsOfEvents' /\ Announced' = Announced
  BY <1>1, <1>2, TableStays
<1>4. OwedRows' /\ Owed' = {}
  BY <1>2 DEF OwedRows, Owed
<1>5. InHand' = InHand /\ DrainTypes'
  BY <1>1, BridgeStays
<1>6. Queued' = Queued /\ queue' \in Seq(Events)
  BY <1>1 DEF Queued, FlowInv
<1> QED BY <1>1, <1>3, <1>4, <1>5, <1>6, FlowLoss
-----------------------------------------------------------------------------
(* The steps that insert alerts *)

\* The least id with a property.
LEMMA LeastId ==
  ASSUME NEW S \in SUBSET Ids, S # {}
  PROVE  \E i \in S : \A j \in S : i <= j
<1>1. S \in SUBSET Nat
  BY AlertBoundsAssumption DEF Ids
<1>2. IsWellFoundedOn(OpToRel(<, Nat), Nat)
  BY NatLessThanWellFounded, Zenon
<1>3. PICK i \in S : \A j \in S : ~(<<j, i>> \in OpToRel(<, Nat))
  BY <1>1, <1>2, WFMin, Zenon
<1>4. \A j \in S : i <= j
  <2> TAKE j \in S
  <2>1. i \in Nat /\ j \in Nat
    BY <1>1
  <2>2. ~(j < i)
    BY <1>3, <2>1 DEF OpToRel
  <2> QED BY <2>1, <2>2
<1> QED BY <1>4

\* The sweep inserts where there is no row.
LEMMA NextIdIsFree ==
  ASSUME Room
  PROVE  NextId \in Ids /\ alerts[NextId] = NONE
<1> DEFINE S == {i \in Ids : alerts[i] = NONE}
<1>1. PICK i \in S : \A j \in S : i <= j
  <2>1. S # {} /\ S \in SUBSET Ids
    BY DEF Room
  <2> QED BY <2>1, LeastId
<1>2. \A j \in 1 .. i - 1 : alerts[j] # NONE
  <2> TAKE j \in 1 .. i - 1
  <2>1. i \in Ids
    OBVIOUS
  <2>2. j \in Ids /\ ~(i <= j)
    BY <2>1, AlertBoundsAssumption DEF Ids
  <2> QED BY <1>1, <2>2
<1>3. \E n \in Ids : alerts[n] = NONE /\ \A j \in 1 .. n - 1 : alerts[j] # NONE
  BY <1>2
<1> QED BY <1>3 DEF NextId

\* So does a commit: while the table has room for all that fires, it has an n-th
\* free row for every n of them.
LEMMA FreeIdIsFree ==
  ASSUME NEW n \in Nat \ {0}, n <= Cardinality({i \in Ids : alerts[i] = NONE})
  PROVE  FreeId(n) \in Ids /\ alerts[FreeId(n)] = NONE
<1> DEFINE Upto(i) == {j \in 1 .. i : alerts[j] = NONE}
           S == {i \in Ids : Cardinality(Upto(i)) >= n}
<1>1. \A i \in Nat : IsFiniteSet(Upto(i)) /\ Cardinality(Upto(i)) \in Nat
  <2> TAKE i \in Nat
  <2>1. IsFiniteSet(1 .. i)
    BY FS_Interval
  <2>2. IsFiniteSet(Upto(i))
    BY <2>1, FS_Subset
  <2> QED BY <2>2, FS_CardinalityType
<1>2. Upto(0) = {} /\ Cardinality(Upto(0)) = 0
  BY FS_EmptySet
<1>3. Upto(MaxAlerts) = {i \in Ids : alerts[i] = NONE}
  BY DEF Ids
<1>4. MaxAlerts \in S
  <2>1. Cardinality(Upto(MaxAlerts)) >= n /\ MaxAlerts \in Nat
    <3>1. Cardinality(Upto(MaxAlerts)) \in Nat
      BY <1>1, AlertBoundsAssumption
    <3> HIDE DEF Upto
    <3> QED BY <1>3, <3>1, AlertBoundsAssumption
  <2>2. MaxAlerts # 0
    BY <1>2, <2>1
  <2> QED BY <2>1, <2>2 DEF Ids
<1>5. PICK i \in S : \A j \in S : i <= j
  <2>1. S # {} /\ S \in SUBSET Ids
    BY <1>4
  <2> HIDE DEF S
  <2> QED BY <2>1, LeastId
<1>6. i \in Ids /\ i \in Nat \ {0} /\ i - 1 \in Nat
  BY AlertBoundsAssumption DEF Ids
<1>7. Cardinality(Upto(i)) >= n
  OBVIOUS
<1>8. Cardinality(Upto(i - 1)) < n
  <2>1. CASE i - 1 = 0
    BY <1>2, <2>1
  <2>2. CASE i - 1 # 0
    <3>1. i - 1 \in Ids /\ ~(i <= i - 1)
      BY <1>6, <2>2, AlertBoundsAssumption DEF Ids
    <3>2. ~(Cardinality(Upto(i - 1)) >= n)
      BY <1>5, <3>1
    <3>3. Cardinality(Upto(i - 1)) \in Nat
      BY <1>1, <1>6
    <3> HIDE DEF Upto
    <3> QED BY <3>2, <3>3
  <2> QED BY <2>1, <2>2
<1>9. alerts[i] = NONE /\ Cardinality(Upto(i)) = n
  <2>1. 1 .. i = (1 .. (i - 1)) \cup {i} /\ i \notin 1 .. (i - 1)
    BY <1>6
  <2>2. CASE alerts[i] # NONE
    <3>1. Upto(i) = Upto(i - 1)
      BY <2>1, <2>2
    <3>2. Cardinality(Upto(i)) \in Nat
      BY <1>1, <1>6
    <3> HIDE DEF Upto
    <3> QED BY <1>7, <1>8, <3>1, <3>2
  <2>3. CASE alerts[i] = NONE
    <3>1. Upto(i) = Upto(i - 1) \cup {i} /\ i \notin Upto(i - 1)
      BY <2>1, <2>3
    <3>2. IsFiniteSet(Upto(i - 1)) /\ Cardinality(Upto(i - 1)) \in Nat
      BY <1>1, <1>6
    <3> HIDE DEF Upto
    <3>3. Cardinality(Upto(i - 1) \cup {i}) = Cardinality(Upto(i - 1)) + 1
      BY <3>1, <3>2, FS_AddElement
    <3>4. Cardinality(Upto(i)) = Cardinality(Upto(i - 1)) + 1
      BY ONLY <3>1, <3>3
    <3> QED BY ONLY <2>3, <1>7, <1>8, <3>2, <3>4, n \in Nat \ {0}
  <2> QED BY <2>2, <2>3
<1>10. \E k \in Ids : alerts[k] = NONE /\ Cardinality({j \in 1 .. k : alerts[j] = NONE}) = n
  BY <1>6, <1>9
<1> QED BY <1>10 DEF FreeId

\* Alerts are inserted where there was none and others resolved, for the first
\* time: these are the events there is news of.
LEMMA NewsOf ==
  ASSUME EventInv, NEW I \in SUBSET Ids, NEW R \in SUBSET Ids,
         \A i \in I : alerts[i] = NONE /\ alerts'[i] # NONE /\ ~alerts'[i].resolved,
         \A i \in R : /\ alerts[i] # NONE /\ ~alerts[i].resolved
                      /\ alerts'[i] # NONE /\ alerts'[i].resolved,
         \A i \in Ids \ (I \cup R) : alerts'[i] = alerts[i],
         UNCHANGED <<queue, drains, handled>>,
         \/ Owed' = Owed \cup Fired(I) \cup Resolved(R) /\ UNCHANGED <<lost, losses>>
         \/ Owed' \cup lost' = Owed \cup lost \cup Fired(I) \cup Resolved(R) /\ Loss
  PROVE  DrainTypes' /\ FlowInv'
<1> DEFINE New == Fired(I) \cup Resolved(R)
<1> USE DEF EventInv
<1>1. I \cap R = {}
  OBVIOUS
<1>2. \A i \in Ids : alerts'[i] # NONE <=> (alerts[i] # NONE \/ i \in I)
  BY <1>1
<1>3. \A i \in Ids : (alerts'[i] # NONE /\ alerts'[i].resolved)
                     <=> ((alerts[i] # NONE /\ alerts[i].resolved) \/ i \in R)
  BY <1>1, Zenon
<1>4. Announced' = Announced \cup New
  <2>1. {i \in Ids : alerts'[i] # NONE} = {i \in Ids : alerts[i] # NONE} \cup I
    BY <1>2
  <2>2. {i \in Ids : alerts'[i] # NONE /\ alerts'[i].resolved}
            = {i \in Ids : alerts[i] # NONE /\ alerts[i].resolved} \cup R
    BY <1>3
  <2> QED BY <2>1, <2>2 DEF Announced
<1>5. \A i \in Ids : /\ Event("fire", i) \in Announced <=> alerts[i] # NONE
                     /\ Event("resolve", i) \in Announced <=> (alerts[i] # NONE /\ alerts[i].resolved)
                     /\ Event("fire", i) \in New <=> i \in I
  BY EventFacts DEF Announced
<1>6. New \cap Announced = {}
  BY <1>5
<1>7. \A i \in Ids : Event("fire", i) \in New => Event("resolve", i) \notin Announced
  BY <1>5
<1>8. InHand' = InHand /\ DrainTypes'
  BY BridgeStays
<1>9. \/ Owed' = Owed \cup New /\ UNCHANGED <<lost, losses>>
      \/ Owed' \cup lost' = Owed \cup lost \cup New /\ Loss
  OBVIOUS
<1> HIDE DEF New
<1>10. CASE Owed' = Owed \cup New /\ UNCHANGED <<lost, losses>>
  BY <1>4, <1>6, <1>7, <1>8, <1>10, FlowAnnounce
<1>11. CASE Owed' \cup lost' = Owed \cup lost \cup New /\ Loss
  <2>1. Queued' = Queued /\ queue' \in Seq(Events)
    BY DEF Queued, FlowInv
  <2>2. (Owed \cup Queued \cup InHand \cup handled \cup lost)' =
            Owed \cup Queued \cup InHand \cup handled \cup lost \cup New
    BY <1>8, <1>11, <2>1
  <2> QED BY <1>4, <1>8, <1>11, <2>1, <2>2, FlowLossOf
<1> QED BY <1>9, <1>10, <1>11

LEMMA SweepOneMoves ==
  ASSUME EventInv, SweepOne
  PROVE  RowsOfEvents' /\ OwedRows' /\ DrainTypes' /\ FlowInv'
<1> USE DEF EventInv
<1>1. UNCHANGED <<eval, queue, drains, handled>> /\ sweep.pc = "sweep"
  BY DEF SweepOne, bridgeVars
<1>2. PICK c \in sweep.todo :
        \/ UNCHANGED <<alerts, lost>> /\ SweepGoesOn(c, {}) /\ (UNCHANGED losses \/ Loss)
        \/ /\ \E looked \in BOOLEAN : RowAdded(c, looked)
           /\ \/ /\ SweepGoesOn(c, {NextId}) /\ UNCHANGED lost
                 /\ UNCHANGED losses \/ Loss
              \/ SweepGoesOn(c, {}) /\ lost' = lost \cup Fired({NextId}) /\ Loss
  BY SweepDoes
<1>3. CASE UNCHANGED <<alerts, lost>> /\ SweepGoesOn(c, {}) /\ (UNCHANGED losses \/ Loss)
  <2>1. UNCHANGED alerts /\ sweep'.fired = sweep.fired /\ sweep'.pc = sweep.pc
    BY <1>3 DEF SweepGoesOn, AlertInv, EvalTypes
  <2>2. RowsOfEvents' /\ Announced' = Announced
    BY <1>1, <2>1, TableStays DEF Writing
  <2>3. OwedRows' /\ Owed' = Owed
    BY <1>1, <2>1 DEF OwedRows, Owed
  <2>4. Queued' = Queued /\ queue' \in Seq(Events)
    BY <1>1 DEF Queued, FlowInv
  <2>5. InHand' = InHand /\ DrainTypes'
    BY <1>1, BridgeStays
  <2>6. CASE UNCHANGED losses
    BY <1>1, <1>3, <2>2, <2>3, <2>5, <2>6, FlowSame
  <2>7. CASE Loss
    <3>1. (Owed \cup Queued \cup InHand \cup handled \cup lost)' =
              Owed \cup Queued \cup InHand \cup handled \cup lost
      BY <1>1, <1>3, <2>3, <2>4, <2>5
    <3> QED BY <2>2, <2>3, <2>4, <2>5, <2>7, <3>1, FlowLoss
  <2> QED BY <1>3, <2>6, <2>7
<1>4. ASSUME NEW looked \in BOOLEAN, RowAdded(c, looked),
             NEW F, SweepGoesOn(c, F),
             \/ F = {NextId} /\ UNCHANGED lost /\ (UNCHANGED losses \/ Loss)
             \/ F = {} /\ lost' = lost \cup Fired({NextId}) /\ Loss
      PROVE  RowsOfEvents' /\ OwedRows' /\ DrainTypes' /\ FlowInv'
  <2> DEFINE n == NextId
             new == NewRow(c, looked)
  <2>1. n \in Ids /\ alerts[n] = NONE
    BY <1>4, NextIdIsFree DEF RowAdded
  <2>2. /\ alerts' = [alerts EXCEPT ![n] = new]
        /\ sweep' = [sweep EXCEPT !.todo = @ \ {c}, !.fired = @ \cup F]
        /\ F \subseteq {n}
        /\ \/ F = {n} /\ UNCHANGED lost /\ (UNCHANGED losses \/ Loss)
           \/ F = {} /\ lost' = lost \cup Fired({n}) /\ Loss
    BY <1>4 DEF SweepGoesOn, RowAdded
  <2> HIDE DEF n
  <2>3. c \in Collectors /\ c \in Keys
    BY DEF AlertInv, EvalTypes, Keys
  <2>4. new # NONE /\ new.key = c /\ new.state = "firing" /\ ~new.resolved
    BY <2>3, NewRowFacts
  <2> HIDE DEF new
  <2>5. alerts'[n] = new /\ \A i \in Ids \ {n} : alerts'[i] = alerts[i]
    BY <2>1, <2>2 DEF AlertInv, EvalTypes
  <2>6. sweep'.fired = sweep.fired \cup F /\ sweep'.pc = sweep.pc
    BY <2>2 DEF AlertInv, EvalTypes
  <2>8. n \notin eval.fired /\ n \notin eval.resolved
    BY <2>1 DEF OwedRows
  <2>9. OwedRows'
    <3>1. eval'.fired \subseteq {i \in Ids : alerts'[i] # NONE}
      BY <1>1, <2>5, <2>8 DEF OwedRows
    <3>2. eval'.resolved \subseteq {i \in Ids : alerts'[i] # NONE /\ alerts'[i].resolved}
      BY <1>1, <2>5, <2>8 DEF OwedRows
    <3>3. sweep'.fired \subseteq {i \in Ids : alerts'[i] # NONE /\ alerts'[i].key \in Collectors}
      BY <2>1, <2>2, <2>3, <2>4, <2>5, <2>6 DEF OwedRows
    <3>4. eval'.fired \cap sweep'.fired = {}
      BY <1>1, <2>2, <2>6, <2>8 DEF OwedRows
    <3> QED BY <1>1, <2>6, <3>1, <3>2, <3>3, <3>4 DEF OwedRows
  <2>10. RowsOfEvents'
    <3>1. \A i \in Ids : alerts'[i] # NONE =>
            /\ alerts'[i].state = "firing" => ~alerts'[i].resolved
            /\ alerts'[i].resolved => alerts'[i].key \notin Collectors
      BY <2>4, <2>5 DEF RowsOfEvents
    <3>2. \A r \in Rules : /\ Writing(r)' <=> Writing(r)
                           /\ Resolves(r)' = Resolves(r)
      BY <1>1 DEF Writing, Resolves
    <3>3. \A r \in Rules : Writing(r) =>
            \A i \in Resolves(r) : i \in Ids /\ i # n /\ alerts'[i] = alerts[i]
      BY <2>1, <2>5 DEF RowsOfEvents
    <3> QED BY <3>1, <3>2, <3>3 DEF RowsOfEvents
  <2>11. \/ Owed' = Owed \cup Fired({n}) /\ UNCHANGED <<lost, losses>>
         \/ Owed' \cup lost' = Owed \cup lost \cup Fired({n}) /\ Loss
    <3>1. Owed' = Owed \cup Fired(F)
      BY <1>1, <2>6 DEF Owed
    <3> QED BY <2>2, <3>1
  <2>12. DrainTypes' /\ FlowInv'
    <3> DEFINE I == {n}
               R == {}
    <3>1. /\ I \in SUBSET Ids /\ R \in SUBSET Ids
          /\ \A i \in I : alerts[i] = NONE /\ alerts'[i] # NONE /\ ~alerts'[i].resolved
          /\ \A i \in Ids \ (I \cup R) : alerts'[i] = alerts[i]
          /\ \A i \in R : /\ alerts[i] # NONE /\ ~alerts[i].resolved
                          /\ alerts'[i] # NONE /\ alerts'[i].resolved
      BY <2>1, <2>4, <2>5
    <3>2. \/ Owed' = Owed \cup Fired(I) \cup Resolved(R) /\ UNCHANGED <<lost, losses>>
          \/ Owed' \cup lost' = Owed \cup lost \cup Fired(I) \cup Resolved(R) /\ Loss
      BY <2>11
    <3> HIDE DEF I, R
    <3> QED BY <1>1, <3>1, <3>2, NewsOf
  <2> QED BY <2>9, <2>10, <2>12
<1>5. CASE /\ \E looked \in BOOLEAN : RowAdded(c, looked)
           /\ \/ /\ SweepGoesOn(c, {NextId}) /\ UNCHANGED lost
                 /\ UNCHANGED losses \/ Loss
              \/ SweepGoesOn(c, {}) /\ lost' = lost \cup Fired({NextId}) /\ Loss
  <2>1. PICK looked \in BOOLEAN : RowAdded(c, looked)
    BY <1>5
  <2> QED BY <1>4, <1>5, <2>1
<1> QED BY <1>2, <1>3, <1>5

LEMMA CommitMoves ==
  ASSUME EventInv, NEW r \in Rules, EvalCommit(r)
  PROVE  RowsOfEvents' /\ OwedRows' /\ DrainTypes' /\ FlowInv'
<1> USE DEF EventInv
<1> DEFINE N == Cardinality(Fires(r))
           ids == {FreeId(n) : n \in 1 .. N}
           done == Resolves(r)
<1>1. UNCHANGED <<sweep, queue, drains, handled>>
      /\ Writing(r) /\ eval.pc = "eval" /\ N <= Cardinality({i \in Ids : alerts[i] = NONE})
  BY DEF EvalCommit, bridgeVars, Writing, InJob
<1>2. PICK row \in [ids -> Fires(r)] :
        \/ /\ eval' = [eval EXCEPT !.jobs[r] = NONE]
           /\ UNCHANGED <<alerts, lost, losses>>
        \/ /\ alerts' = [i \in Ids |->
                IF i \in ids THEN NewRow(<<r, row[i]>>, TRUE)
                ELSE IF i \in done THEN ResolvedRow(i)
                ELSE alerts[i]]
           /\ \/ /\ eval' = [eval EXCEPT !.jobs[r] = NONE, !.fired = @ \cup ids,
                                          !.resolved = @ \cup done]
                 /\ UNCHANGED <<lost, losses>>
              \/ /\ eval' = [eval EXCEPT !.jobs[r] = NONE]
                 /\ lost' = lost \cup Fired(ids) \cup Resolved(done)
                 /\ Loss
  BY DEF EvalCommit, boundVars
<1>3. \A i \in ids : i \in Ids /\ alerts[i] = NONE
  <2> SUFFICES ASSUME NEW n \in 1 .. N PROVE FreeId(n) \in Ids /\ alerts[FreeId(n)] = NONE
    OBVIOUS
  <2>1. IsFiniteSet(Fires(r)) /\ N \in Nat
    <3>1. IsFiniteSet(Fires(r))
      BY AssetsAssumption, FS_Subset DEF Fires
    <3> QED BY <3>1, FS_CardinalityType
  <2>2. Cardinality({i \in Ids : alerts[i] = NONE}) \in Nat
    <3>1. IsFiniteSet(Ids)
      BY AlertBoundsAssumption, FS_Interval DEF Ids
    <3>2. IsFiniteSet({i \in Ids : alerts[i] = NONE})
      BY <3>1, FS_Subset
    <3> QED BY <3>2, FS_CardinalityType
  <2> HIDE DEF N
  <2>3. n \in Nat \ {0} /\ n <= N
    BY <2>1
  <2>4. n <= Cardinality({i \in Ids : alerts[i] = NONE})
    BY <1>1, <2>1, <2>2, <2>3
  <2> QED BY <2>3, <2>4, FreeIdIsFree
<1>4. \A i \in done : /\ i \in Ids /\ alerts[i] # NONE
                      /\ alerts[i].key \in {r} \X Assets /\ ~alerts[i].resolved
  BY <1>1, Zenon DEF RowsOfEvents
<1>5. \A q \in Rules : Writing(q)' => q # r /\ Writing(q) /\ eval'.jobs[q] = eval.jobs[q]
  <2>1. eval'.jobs = [eval.jobs EXCEPT ![r] = NONE]
    BY <1>2 DEF AlertInv, EvalTypes
  <2> QED BY <2>1 DEF AlertInv, EvalTypes, Writing
<1>6. CASE eval' = [eval EXCEPT !.jobs[r] = NONE] /\ UNCHANGED <<alerts, lost, losses>>
  <2>1. eval'.fired = eval.fired /\ eval'.resolved = eval.resolved /\ eval'.pc = eval.pc
    BY <1>6 DEF AlertInv, EvalTypes
  <2>2. RowsOfEvents' /\ Announced' = Announced
    BY <1>5, <1>6, TableStays
  <2>3. OwedRows' /\ Owed' = Owed
    BY <1>1, <1>6, <2>1 DEF OwedRows, Owed
  <2> QED BY <1>1, <1>6, <2>2, <2>3, BridgeStays, FlowSame
<1>7. ASSUME alerts' = [i \in Ids |->
                IF i \in ids THEN NewRow(<<r, row[i]>>, TRUE)
                ELSE IF i \in done THEN ResolvedRow(i)
                ELSE alerts[i]],
             NEW F, NEW D,
             eval' = [eval EXCEPT !.jobs[r] = NONE, !.fired = @ \cup F, !.resolved = @ \cup D],
             \/ F = ids /\ D = done /\ UNCHANGED <<lost, losses>>
             \/ /\ F = {} /\ D = {} /\ Loss
                /\ lost' = lost \cup Fired(ids) \cup Resolved(done)
      PROVE  RowsOfEvents' /\ OwedRows' /\ DrainTypes' /\ FlowInv'
  <2> HIDE DEF ids, done
  <2>1. /\ eval'.fired = eval.fired \cup F /\ eval'.resolved = eval.resolved \cup D
        /\ eval'.pc = eval.pc /\ F \subseteq ids /\ D \subseteq done
    BY <1>7 DEF AlertInv, EvalTypes
  <2>2. \A i \in ids : /\ alerts'[i] # NONE /\ ~alerts'[i].resolved
                       /\ alerts'[i].key \in {r} \X Assets
    <3> TAKE i \in ids
    <3>1. row[i] \in Assets
      BY <1>2 DEF Fires
    <3>2. <<r, row[i]>> \in Keys
      BY <3>1 DEF Keys
    <3>3. /\ NewRow(<<r, row[i]>>, TRUE) # NONE /\ NewRow(<<r, row[i]>>, TRUE).resolved = FALSE
          /\ NewRow(<<r, row[i]>>, TRUE).key = <<r, row[i]>>
      BY <3>2, NewRowFacts
    <3>4. alerts'[i] = NewRow(<<r, row[i]>>, TRUE)
      BY <1>3, <1>7
    <3>5. <<r, row[i]>> \in {r} \X Assets
      BY <3>1
    <3> HIDE DEF NewRow
    <3> QED BY <3>3, <3>4, <3>5
  <2>3. \A i \in done : /\ alerts'[i] # NONE /\ alerts'[i].resolved
                        /\ alerts'[i].key = alerts[i].key /\ alerts'[i].state # "firing"
    <3> TAKE i \in done
    <3>1. alerts[i] \in AlertRow /\ i \in Ids /\ i \notin ids
      BY <1>3, <1>4 DEF AlertInv, EvalTypes
    <3>2. alerts'[i] = ResolvedRow(i)
      BY <1>7, <3>1
    <3>3. /\ ResolvedRow(i) \in AlertRow /\ ResolvedRow(i).resolved = TRUE
          /\ ResolvedRow(i).key = alerts[i].key /\ ResolvedRow(i).state # "firing"
      BY <3>1 DEF ResolvedRow, AlertRow
    <3> QED BY <3>2, <3>3, RowIsNotNone
  <2>4. \A i \in Ids \ (ids \cup done) : alerts'[i] = alerts[i]
    BY <1>7
  <2>5. \A k \in {r} \X Assets : k \notin Collectors
    BY DedupeKeysAssumption
  <2>6. OwedRows'
    <3>1. \A i \in Ids : alerts[i] # NONE => alerts'[i] # NONE /\ alerts'[i].key = alerts[i].key
      BY <1>3, <2>3, <2>4
    <3>2. \A i \in Ids : alerts[i] # NONE /\ alerts[i].resolved => alerts'[i].resolved
      BY <1>3, <1>4, <2>4
    <3>3. eval'.fired \subseteq {i \in Ids : alerts'[i] # NONE}
      BY <1>3, <2>1, <2>2, <3>1 DEF OwedRows
    <3>4. eval'.resolved \subseteq {i \in Ids : alerts'[i] # NONE /\ alerts'[i].resolved}
      BY <1>4, <2>1, <2>3, <3>1, <3>2 DEF OwedRows
    <3>5. sweep'.fired \subseteq {i \in Ids : alerts'[i] # NONE /\ alerts'[i].key \in Collectors}
      BY <1>1, <3>1 DEF OwedRows
    <3>6. eval'.fired \cap sweep'.fired = {}
      BY <1>1, <1>3, <2>1 DEF OwedRows
    <3> QED BY <1>1, <2>1, <3>3, <3>4, <3>5, <3>6 DEF OwedRows
  <2>7. RowsOfEvents'
    <3>1. ASSUME NEW i \in Ids, alerts'[i] # NONE
          PROVE  /\ alerts'[i].state = "firing" => ~alerts'[i].resolved
                 /\ alerts'[i].resolved => alerts'[i].key \notin Collectors
      <4>1. CASE i \in ids
        BY <2>2, <4>1
      <4>2. CASE i \in done
        BY <1>4, <2>3, <2>5, <4>2
      <4>3. CASE i \notin ids \cup done
        BY <2>4, <3>1, <4>3, Zenon DEF RowsOfEvents
      <4> QED BY <4>1, <4>2, <4>3
    <3>2. \A q \in Rules : Writing(q)' => q # r /\ Writing(q) /\ Resolves(q)' = Resolves(q)
      BY <1>5 DEF Resolves
    <3>3. ASSUME NEW q \in Rules, q # r, Writing(q), NEW i \in Resolves(q)
          PROVE  alerts'[i] = alerts[i] /\ i \in Ids
      <4>1. i \in Ids /\ alerts[i] # NONE /\ alerts[i].key \in {q} \X Assets
        BY <3>3, Zenon DEF RowsOfEvents
      <4>2. i \notin ids
        BY <1>3, <4>1
      <4>3. i \notin done
        BY <1>4, <3>3, <4>1
      <4> QED BY <2>4, <4>1, <4>2, <4>3
    <3> QED BY <3>1, <3>2, <3>3 DEF RowsOfEvents
  <2>8. \/ Owed' = Owed \cup Fired(ids) \cup Resolved(done) /\ UNCHANGED <<lost, losses>>
        \/ Owed' \cup lost' = Owed \cup lost \cup Fired(ids) \cup Resolved(done) /\ Loss
    <3>1. Owed' = Owed \cup Fired(F) \cup Resolved(D)
      BY <1>1, <2>1 DEF Owed
    <3> QED BY <1>7, <3>1
  <2>9. ids \in SUBSET Ids /\ done \in SUBSET Ids
    BY <1>3, <1>4
  <2>10. DrainTypes' /\ FlowInv'
    BY <1>1, <1>3, <1>4, <2>2, <2>3, <2>4, <2>8, <2>9, NewsOf
  <2> QED BY <2>6, <2>7, <2>10
<1>8. CASE /\ alerts' = [i \in Ids |->
                IF i \in ids THEN NewRow(<<r, row[i]>>, TRUE)
                ELSE IF i \in done THEN ResolvedRow(i)
                ELSE alerts[i]]
           /\ \/ /\ eval' = [eval EXCEPT !.jobs[r] = NONE, !.fired = @ \cup ids,
                                          !.resolved = @ \cup done]
                 /\ UNCHANGED <<lost, losses>>
              \/ /\ eval' = [eval EXCEPT !.jobs[r] = NONE]
                 /\ lost' = lost \cup Fired(ids) \cup Resolved(done)
                 /\ Loss
  <2>1. eval' = [eval EXCEPT !.jobs[r] = NONE] =>
          eval' = [eval EXCEPT !.jobs[r] = NONE, !.fired = @ \cup {}, !.resolved = @ \cup {}]
    BY DEF AlertInv, EvalTypes
  <2> HIDE DEF ids, done
  <2> QED BY <1>7, <1>8, <2>1
<1> QED BY <1>2, <1>6, <1>8
-----------------------------------------------------------------------------
(* The steps of the bridge *)

\* One drain goes on with the record x.
LEMMA DrainChanges ==
  ASSUME DrainTypes, NEW d \in Drains, NEW x, DrainRecord(x), x.ev # NONE <=> x.pc = "handle",
         drains' = [drains EXCEPT ![d] = x]
  PROVE  /\ DrainTypes'
         /\ InHand' \subseteq InHand \cup ({x.ev} \ {NONE})
         /\ {x.ev} \ {NONE} \subseteq InHand'
         /\ InHand \subseteq InHand' \cup {drains[d].ev}
<1>1. /\ drains' = [c \in Drains |-> drains'[c]]
      /\ drains'[d] = x /\ \A c \in Drains \ {d} : drains'[c] = drains[c]
  BY DEF DrainTypes
<1>2. DrainTypes'
  BY <1>1 DEF DrainTypes, DrainRecord
<1> QED BY <1>1, <1>2 DEF InHand

\* A drain whose hands are empty takes e, or nothing, with the record x.
LEMMA DrainTakes ==
  ASSUME DrainTypes, NEW d \in Drains, drains[d].ev = NONE,
         NEW x, DrainRecord(x), x.ev # NONE, x.pc = "handle", drains' = [drains EXCEPT ![d] = x]
  PROVE  DrainTypes' /\ InHand' = InHand \cup {x.ev}
<1>1. NONE \notin InHand /\ NONE \notin InHand'
  BY DEF InHand
<1>2. /\ DrainTypes'
      /\ InHand' \subseteq InHand \cup ({x.ev} \ {NONE})
      /\ {x.ev} \ {NONE} \subseteq InHand'
      /\ InHand \subseteq InHand' \cup {drains[d].ev}
  BY DrainChanges
<1> QED BY ONLY <1>1, <1>2, drains[d].ev = NONE, x.ev # NONE

LEMMA DrainStaysEmpty ==
  ASSUME DrainTypes, NEW d \in Drains, drains[d].ev = NONE,
         NEW x, DrainRecord(x), x.ev = NONE, x.pc # "handle", drains' = [drains EXCEPT ![d] = x]
  PROVE  DrainTypes' /\ InHand' = InHand
<1>1. NONE \notin InHand /\ NONE \notin InHand'
  BY DEF InHand
<1>2. /\ DrainTypes'
      /\ InHand' \subseteq InHand \cup ({x.ev} \ {NONE})
      /\ {x.ev} \ {NONE} \subseteq InHand'
      /\ InHand \subseteq InHand' \cup {drains[d].ev}
  BY DrainChanges
<1> QED BY ONLY <1>1, <1>2, drains[d].ev = NONE, x.ev = NONE

\* What the bridge leaves alone.
LEMMA BridgeFrame ==
  ASSUME EventInv, UNCHANGED <<alerts, eval, sweep>>
  PROVE  RowsOfEvents' /\ OwedRows' /\ Announced' = Announced /\ Owed' = Owed
<1>1. RowsOfEvents' /\ Announced' = Announced
  BY TableStays DEF EventInv, Writing
<1> QED BY <1>1 DEF EventInv, OwedRows, Owed

LEMMA BridgeMoves ==
  ASSUME EventInv, NEW d \in Drains, BridgeStart(d) \/ BridgePop(d) \/ BridgePopFails(d)
  PROVE  RowsOfEvents' /\ OwedRows' /\ DrainTypes' /\ FlowInv'
<1> USE DEF EventInv
<1>1. UNCHANGED <<alerts, eval, sweep, handled>>
  BY DEF BridgeStart, BridgePop, BridgePopFails
<1>2. RowsOfEvents' /\ OwedRows' /\ Announced' = Announced /\ Owed' = Owed
  BY <1>1, BridgeFrame
<1>3. drains[d].ev = NONE
  BY DEF BridgeStart, BridgePop, BridgePopFails, DrainTypes
<1>4. DrainRecord(NoDrain) /\ NoDrain.ev = NONE /\ NoDrain.pc # "handle"
  BY DEF NoDrain, DrainRecord
<1>5. drains' = [drains EXCEPT ![d] = NoDrain] => DrainTypes' /\ InHand' = InHand
  BY <1>3, <1>4, DrainStaysEmpty
<1>7. CASE BridgeStart(d)
  <2> DEFINE x == [pc |-> "pop", ch |-> channel, ev |-> NONE, n |-> 0]
  <2>1. DrainRecord(x) /\ x.ev = NONE /\ x.pc # "handle"
    BY DEF DrainRecord
  <2>2. drains' = [drains EXCEPT ![d] = x]
    BY <1>7 DEF BridgeStart
  <2> HIDE DEF x
  <2>3. DrainTypes' /\ InHand' = InHand
    BY <1>3, <2>1, <2>2, DrainStaysEmpty
  <2> QED BY <1>2, <1>7, <2>3, FlowSame DEF BridgeStart, boundVars
<1>8. CASE BridgePop(d)
  <2>1. CASE queue = <<>>
    <3>1. drains' = [drains EXCEPT ![d] = NoDrain]
          /\ UNCHANGED <<queue, handled, lost, losses>>
      BY <1>8, <2>1 DEF BridgePop, boundVars
    <3>2. DrainTypes' /\ InHand' = InHand
      BY <1>5, <3>1
    <3> QED BY <1>2, <3>1, <3>2, FlowSame
  <2>2. CASE queue # <<>>
    <3> DEFINE x == Holding(drains[d], Head(queue))
    <3>1. /\ drains' = [drains EXCEPT ![d] = x]
          /\ queue' = Tail(queue) /\ UNCHANGED <<handled, lost, losses>>
      BY <1>8, <2>2 DEF BridgePop, boundVars
    <3>2. Head(queue) # NONE
      BY <2>2, TailFacts, EventFacts DEF FlowInv
    <3>3. x = [pc |-> "handle", ch |-> drains[d].ch, ev |-> Head(queue), n |-> drains[d].n + 1]
      BY DEF Holding
    <3> HIDE DEF x
    <3>4. DrainRecord(x) /\ x.ev = Head(queue) /\ x.pc = "handle"
      BY <3>3 DEF DrainRecord
    <3>5. DrainTypes' /\ InHand' = InHand \cup {x.ev}
      BY <1>3, <3>1, <3>2, <3>4, DrainTakes
    <3>6. InHand' = InHand \cup {Head(queue)}
      BY <3>4, <3>5
    <3> QED BY <1>2, <2>2, <3>1, <3>5, <3>6, FlowPop
  <2> QED BY <2>1, <2>2
<1>9. CASE BridgePopFails(d)
  <2>1. DrainTypes' /\ InHand' = InHand
    BY <1>5, <1>9 DEF BridgePopFails
  <2>2. CASE UNCHANGED <<queue, lost>>
    <3>1. Queued' = Queued /\ queue' \in Seq(Events) /\ Loss
      BY <1>9, <2>2 DEF Queued, FlowInv, BridgePopFails
    <3> QED BY <1>1, <1>2, <2>1, <2>2, <3>1, FlowLoss
  <2>3. CASE queue' = Tail(queue) /\ lost' = lost \cup {Head(queue)}
    <3>1. queue # <<>> /\ Loss
      BY <1>9 DEF BridgePopFails
    <3>2. queue' \in Seq(Events) /\ Queued = {Head(queue)} \cup Queued'
      BY <2>3, <3>1, TailFacts DEF Queued, FlowInv
    <3>3. (Owed \cup Queued \cup InHand \cup handled \cup lost)' =
              Owed \cup Queued \cup InHand \cup handled \cup lost
      BY <1>1, <1>2, <2>1, <2>3, <3>2
    <3> QED BY <1>2, <2>1, <3>1, <3>2, <3>3, FlowLoss
  <2> QED BY <1>9, <2>2, <2>3 DEF BridgePopFails
<1> QED BY <1>7, <1>8, <1>9

LEMMA HandleMoves ==
  ASSUME EventInv, NEW d \in Drains, BridgeHandle(d)
  PROVE  RowsOfEvents' /\ OwedRows' /\ DrainTypes' /\ FlowInv'
<1> USE DEF EventInv
<1> DEFINE ev == drains[d].ev
           x == IF drains[d].n = BridgeBatch THEN NoDrain
                ELSE [drains[d] EXCEPT !.pc = "pop", !.ev = NONE]
<1>1. UNCHANGED <<alerts, eval, sweep, queue>>
  BY DEF BridgeHandle
<1>2. RowsOfEvents' /\ OwedRows' /\ Announced' = Announced /\ Owed' = Owed
  BY <1>1, BridgeFrame
<1>3. ev # NONE /\ ev \in InHand
  BY DEF BridgeHandle, DrainTypes, InHand
<1>4. DrainRecord(x) /\ x.ev = NONE /\ x.pc # "handle"
  <2>1. DrainRecord(drains[d])
    BY DEF DrainTypes
  <2>2. x = NoDrain \/ x = [pc |-> "pop", ch |-> drains[d].ch, ev |-> NONE, n |-> drains[d].n]
    BY <2>1 DEF DrainRecord
  <2> HIDE DEF x
  <2>3. DrainRecord(x) /\ x.ev = NONE /\ x.pc \in {"idle", "pop"}
    BY <2>2 DEF NoDrain, DrainRecord
  <2> QED BY <2>3
<1>5. drains' = [drains EXCEPT ![d] = x]
  BY DEF BridgeHandle
<1> HIDE DEF x
<1>6. DrainTypes' /\ InHand' \subseteq InHand /\ InHand \subseteq InHand' \cup {ev}
  BY <1>4, <1>5, DrainChanges
<1>7. CASE handled' = handled \cup {ev} /\ UNCHANGED <<lost, boundVars>>
  <2>1. UNCHANGED <<lost, losses>>
    BY <1>7 DEF boundVars
  <2> HIDE DEF ev
  <2> QED BY <1>1, <1>2, <1>3, <1>6, <1>7, <2>1, FlowHandle
<1>8. CASE Loss /\ lost' = lost \cup {ev} /\ UNCHANGED handled
  <2>1. Queued' = Queued /\ queue' \in Seq(Events)
    BY <1>1 DEF Queued, FlowInv
  <2> HIDE DEF ev
  <2>2. (Owed \cup Queued \cup InHand \cup handled \cup lost)' =
            Owed \cup Queued \cup InHand \cup handled \cup lost
    BY <1>2, <1>3, <1>6, <1>8, <2>1
  <2> QED BY <1>2, <1>6, <1>8, <2>1, <2>2, FlowLoss
<1> QED BY <1>7, <1>8 DEF BridgeHandle

LEMMA BridgeCrashMoves ==
  ASSUME EventInv, BridgeCrash
  PROVE  RowsOfEvents' /\ OwedRows' /\ DrainTypes' /\ FlowInv'
<1> USE DEF EventInv
<1>1. UNCHANGED <<alerts, eval, sweep, queue, handled>> /\ Loss
      /\ drains' = [d \in Drains |-> NoDrain] /\ lost' = lost \cup InHand
  BY DEF BridgeCrash, InHand
<1>2. RowsOfEvents' /\ OwedRows' /\ Announced' = Announced /\ Owed' = Owed
  BY <1>1, BridgeFrame
<1>3. DrainTypes' /\ InHand' = {}
  BY <1>1 DEF DrainTypes, DrainRecord, NoDrain, InHand
<1>4. Queued' = Queued /\ queue' \in Seq(Events)
  BY <1>1 DEF Queued, FlowInv
<1> QED BY <1>1, <1>2, <1>3, <1>4, FlowLoss

-----------------------------------------------------------------------------

LEMMA InitEventInv == AlertInit => EventInv
<1> SUFFICES ASSUME AlertInit PROVE EventInv
  OBVIOUS
<1>1. AlertInv
  BY InitAlertInv
<1>2. /\ \A i \in Ids : alerts[i] = NONE
      /\ eval.fired = {} /\ eval.resolved = {} /\ sweep.fired = {}
      /\ \A r \in Rules : ~Writing(r)
  BY DEF AlertInit, NoPass, NoSweep, Writing
<1>3. RowsOfEvents /\ OwedRows
  BY <1>2 DEF RowsOfEvents, OwedRows
<1>4. DrainTypes /\ InHand = {}
  BY DEF AlertInit, DrainTypes, DrainRecord, NoDrain, InHand
<1>5. Announced = {} /\ Owed = {}
  BY <1>2 DEF Announced, Owed
<1>6. queue = <<>> /\ Queued = {} /\ Len(queue) = 0 /\ queue \in Seq(Events)
  BY DEF AlertInit, Queued
<1>7. Cardinality(Queued) = 0
  BY <1>6, FS_EmptySet
<1>8. FlowInv
  BY <1>4, <1>5, <1>6, <1>7 DEF AlertInit, FlowInv, EventsConserved, InOrder
<1> QED BY <1>1, <1>3, <1>4, <1>8 DEF EventInv

LEMMA StepEventInv == EventInv /\ [AlertNext]_alertVars => EventInv'
<1> SUFFICES ASSUME EventInv, [AlertNext]_alertVars PROVE EventInv'
  OBVIOUS
<1>0. AlertInv'
  BY StepAlertInv DEF EventInv
<1>1. CASE UNCHANGED alertVars
  <2>1. UNCHANGED <<alerts, eval, sweep, queue, drains, handled, lost, losses>>
    BY <1>1 DEF alertVars
  <2>2. RowsOfEvents' /\ OwedRows' /\ Announced' = Announced /\ Owed' = Owed
    BY <2>1, BridgeFrame
  <2>3. DrainTypes' /\ FlowInv'
    BY <2>1, <2>2, BridgeStays, FlowSame DEF EventInv
  <2> QED BY <1>0, <2>2, <2>3 DEF EventInv
<1>2. CASE Environment
  BY <1>0, <1>2, EnvironmentMoves DEF EventInv
<1>3. CASE EvalStart \/ SweepList \/ \E r \in Rules : EvalRead(r) \/ EvalFail(r)
  BY <1>0, <1>3, ReadsMove DEF EventInv
<1>4. CASE \E r \in Rules : EvalSelect(r)
  BY <1>0, <1>4, SelectMoves DEF EventInv
<1>5. CASE \E r \in Rules : EvalCommit(r)
  BY <1>0, <1>5, CommitMoves DEF EventInv
<1>6. CASE EvalNotify
  BY <1>0, <1>6, EvalNotifyMoves DEF EventInv
<1>7. CASE SweepNotify
  BY <1>0, <1>7, SweepNotifyMoves DEF EventInv
<1>8. CASE SweepOne
  BY <1>0, <1>8, SweepOneMoves DEF EventInv
<1>9. CASE MagpieCrash
  BY <1>0, <1>9, MagpieCrashMoves DEF EventInv
<1>10. CASE \E d \in Drains : BridgeStart(d) \/ BridgePop(d) \/ BridgePopFails(d)
  BY <1>0, <1>10, BridgeMoves DEF EventInv
<1>11. CASE \E d \in Drains : BridgeHandle(d)
  BY <1>0, <1>11, HandleMoves DEF EventInv
<1>12. CASE BridgeCrash
  BY <1>0, <1>12, BridgeCrashMoves DEF EventInv
<1> QED BY <1>1, <1>2, <1>3, <1>4, <1>5, <1>6, <1>7, <1>8, <1>9, <1>10, <1>11, <1>12
        DEF AlertNext, EvalStep, SweepStep, DrainStep

LEMMA EventInvariant == AlertSpec => []EventInv
  BY InitEventInv, StepEventInv, PTL DEF AlertSpec

\* Every alert that was committed and every one that was resolved has its event
\* owed, in the list, in a drain's hands, handled or lost to a failed call, and
\* while no call has failed in one of these places only; no event is about a
\* transaction that rolled back.
THEOREM NoEventVanishes == AlertSpec => []EventsConserved
<1>1. EventInv => EventsConserved
  BY DEF EventInv, FlowInv
<1> QED BY <1>1, EventInvariant, PTL

\* A drain never takes the resolve of an alert out of the list while its fire
\* still waits there or is yet to be pushed, over any number of passes, sweeps
\* and overlapping drains.
THEOREM FireBeforeResolve == AlertSpec => []FirePoppedFirst
<1>1. EventInv => FirePoppedFirst
  <2> SUFFICES ASSUME EventInv, NEW i \in Ids, Event("resolve", i) \in InHand \cup handled
               PROVE  Event("fire", i) \notin Owed \cup Queued \/ losses > 0
    BY DEF FirePoppedFirst
  <2>1. losses \in Nat
    BY DEF EventInv, FlowInv
  <2>2. CASE losses = 0
    BY <2>2 DEF EventInv, FlowInv, InOrder
  <2> QED BY <2>1, <2>2
<1> QED BY <1>1, EventInvariant, PTL
=============================================================================
