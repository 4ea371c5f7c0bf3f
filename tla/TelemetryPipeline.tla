-------------------------- MODULE TelemetryPipeline --------------------------
(***************************************************************************)
(* Store and forward of readings: a site's collector (packages/badger) and *)
(* the ingest service (packages/heron).                                    *)
(*                                                                         *)
(* Drivers enqueue readings into a SQLite buffer; the forwarder drains the *)
(* oldest rows, posts them, and deletes exactly those rows once the post   *)
(* is answered with a 2xx.  Heron writes the history (the hypertable) and  *)
(* the freshness row of every (asset, metric) on two connections and       *)
(* answers 2xx only when both writes succeeded.                            *)
(*                                                                         *)
(* Reading i is the i-th one enqueued, so it has row id i (AUTOINCREMENT)  *)
(* and, within its (asset, metric), timestamp order; KeyOf names its       *)
(* (asset, metric).  The collector's process may crash; its buffer is on   *)
(* disk.  Backoff intervals are left out: a failed post is retried at some *)
(* later time.  Faults (lost or late answers, database errors, refusals,   *)
(* crashes) are bounded by MaxFaults.                                      *)
(***************************************************************************)
EXTENDS Integers, FiniteSets, FiniteSetsExt

CONSTANTS MaxReadings,  \* readings in a behaviour
          BatchSize,    \* defaultBatchSize, 500 in the code
          MaxFaults,
          Keys,         \* (asset_id, metric) pairs
          KeyOf,        \* the pair a reading belongs to
          Corrupt       \* rows whose payload no longer decodes

ASSUME MaxReadingsAssumption == MaxReadings \in Nat
ASSUME BatchSizeAssumption == BatchSize \in Nat \ {0}
ASSUME MaxFaultsAssumption == MaxFaults \in Nat
ASSUME KeyOfAssumption == KeyOf \in [1 .. MaxReadings -> Keys]
ASSUME CorruptAssumption == Corrupt \subseteq 1 .. MaxReadings

Readings == 1 .. MaxReadings

VARIABLES
    polled,     \* how many readings have been enqueued
    buffer,     \* the ids in the samples table
    fwd,        \* the forwarder: pc, the drained rows, the batch under way
    posts,      \* the posts heron has not answered yet
    history,    \* telemetry_samples: <<batch_id, reading>> pairs
    freshness,  \* telemetry_sources: the last reading written, 0 for no row
    batches,    \* batch ids used so far; every post gets a new one
    faults      \* faults so far, for the bound

vars == <<polled, buffer, fwd, posts, history, freshness, batches, faults>>

Looping == [pc |-> "drain", rows |-> {}, batch |-> 0]

Init ==
    /\ polled = 0
    /\ buffer = {}
    /\ fwd = Looping
    /\ posts = {}
    /\ history = {}
    /\ freshness = [k \in Keys |-> 0]
    /\ batches = 0
    /\ faults = 0

Fault == faults < MaxFaults /\ faults' = faults + 1

-----------------------------------------------------------------------------
(* The collector *)

\* Enqueue and EnqueueBatch: the readings of one poll, in one transaction.
EnqueueBatch(k) ==
    /\ polled + k <= MaxReadings
    /\ polled' = polled + k
    /\ buffer' = buffer \cup (polled + 1 .. polled + k)
    /\ UNCHANGED <<fwd, posts, history, freshness, batches, faults>>

Oldest_Newest(limit) ==
    {i \in buffer : Cardinality({j \in buffer : j > i}) < limit}

\* ORDER BY id ASC LIMIT: the oldest rows of the buffer.
Oldest(limit) ==
    {i \in buffer : Cardinality({j \in buffer : j < i}) < limit}

Drain_Removes ==
    /\ fwd.pc = "drain"
    /\ buffer # {}
    /\ fwd' = [Looping EXCEPT !.pc = "post", !.rows = Oldest(BatchSize)]
    /\ buffer' = buffer \ Oldest(BatchSize)
    /\ UNCHANGED <<polled, posts, history, freshness, batches, faults>>

\* Drain leaves the rows in the buffer.
Drain ==
    /\ fwd.pc = "drain"
    /\ buffer # {}
    /\ fwd' = [Looping EXCEPT !.pc = "post", !.rows = Oldest(BatchSize)]
    /\ UNCHANGED <<polled, buffer, posts, history, freshness, batches, faults>>

sendBatch_KeepsCorrupt ==
    /\ fwd.pc = "post"
    /\ IF fwd.rows \subseteq Corrupt
       THEN /\ fwd' = Looping
            /\ UNCHANGED <<posts, batches>>
       ELSE /\ batches' = batches + 1
            /\ fwd' = [fwd EXCEPT !.pc = "wait", !.batch = batches + 1]
            /\ posts' = posts \cup {[batch |-> batches + 1, rows |-> fwd.rows \ Corrupt,
                                     hyper |-> "todo", fresh |-> "todo"]}
    /\ UNCHANGED <<polled, buffer, history, freshness, faults>>

\* sendBatch: a batch of corrupt rows only is acknowledged without a post;
\* otherwise the readable rows are posted under a batch id of their own.
sendBatch ==
    /\ fwd.pc = "post"
    /\ IF fwd.rows \subseteq Corrupt
       THEN /\ fwd' = [fwd EXCEPT !.pc = "ack"]
            /\ UNCHANGED <<posts, batches>>
       ELSE /\ batches' = batches + 1
            /\ fwd' = [fwd EXCEPT !.pc = "wait", !.batch = batches + 1]
            /\ posts' = posts \cup {[batch |-> batches + 1, rows |-> fwd.rows \ Corrupt,
                                     hyper |-> "todo", fresh |-> "todo"]}
    /\ UNCHANGED <<polled, buffer, history, freshness, faults>>

\* The client gives up on the post (30 s timeout, broken connection), which
\* either never reached heron or is still being served there.
GiveUp ==
    /\ fwd.pc = "wait"
    /\ Fault
    /\ \/ UNCHANGED posts
       \/ posts' = {p \in posts : p.batch # fwd.batch}
    /\ fwd' = Looping
    /\ UNCHANGED <<polled, buffer, history, freshness, batches>>

\* Ack deletes the ids that were sent, in one transaction.
Ack ==
    /\ fwd.pc = "ack"
    /\ buffer' = buffer \ fwd.rows
    /\ fwd' = Looping
    /\ UNCHANGED <<polled, posts, history, freshness, batches, faults>>

\* A failed Ack is logged and the loop goes on.
AckFails ==
    /\ fwd.pc = "ack"
    /\ Fault
    /\ fwd' = Looping
    /\ UNCHANGED <<polled, buffer, posts, history, freshness, batches>>

\* The collector stops and starts again with the buffer it finds on disk.
Restart ==
    /\ Fault
    /\ fwd' = Looping
    /\ UNCHANGED <<polled, buffer, posts, history, freshness, batches>>

-----------------------------------------------------------------------------
(* Heron *)

\* One of the two writes of a post finished with this outcome.
Wrote(p, write, outcome) ==
    posts' = (posts \ {p}) \cup {[p EXCEPT ![write] = outcome]}

\* writeHypertableRows: one INSERT for all rows of the batch; a conflict on
\* (collector_id, batch_id, seq, ts) drops the row.
writeHypertableRows(p) ==
    /\ p.hyper = "todo"
    /\ \/ /\ history' = history \cup {<<p.batch, i>> : i \in p.rows}
          /\ Wrote(p, "hyper", "ok")
          /\ UNCHANGED faults
       \/ /\ Fault
          /\ Wrote(p, "hyper", "err")
          /\ UNCHANGED history
    /\ UNCHANGED <<polled, buffer, fwd, freshness, batches>>

\* upsertFreshness: the last reading of every key of the batch, in one
\* transaction, overwrites the row of that key.
upsertFreshness(p) ==
    /\ p.fresh = "todo"
    /\ \/ /\ freshness' = [k \in Keys |->
                LET of == {i \in p.rows : KeyOf[i] = k}
                IN  IF of = {} THEN freshness[k] ELSE Max(of)]
          /\ Wrote(p, "fresh", "ok")
          /\ UNCHANGED faults
       \/ /\ Fault
          /\ Wrote(p, "fresh", "err")
          /\ UNCHANGED freshness
    /\ UNCHANGED <<polled, buffer, fwd, history, batches>>

\* The forwarder's reaction to an answer to post p, if it still waits for it.
Receive(p, pc) ==
    fwd' = IF fwd.pc = "wait" /\ fwd.batch = p.batch
           THEN IF pc = "ack" THEN [fwd EXCEPT !.pc = "ack"] ELSE Looping
           ELSE fwd

Answer_FailOpen(p) ==
    /\ p.hyper # "todo" /\ p.fresh # "todo"
    /\ posts' = posts \ {p}
    /\ Receive(p, IF p.fresh = "ok" THEN "ack" ELSE "retry")
    /\ UNCHANGED <<polled, buffer, history, freshness, batches, faults>>

\* handleIngest answers once both writes returned: 2xx, or 502 and a retry.
Answer(p) ==
    /\ p.hyper # "todo" /\ p.fresh # "todo"
    /\ posts' = posts \ {p}
    /\ Receive(p, IF p.hyper = "ok" /\ p.fresh = "ok" THEN "ack" ELSE "retry")
    /\ UNCHANGED <<polled, buffer, history, freshness, batches, faults>>

\* authorize or the validation of the body refuses the post: 4xx, nothing
\* written, and the forwarder leaves the rows buffered.
Refuse(p) ==
    /\ p.hyper = "todo" /\ p.fresh = "todo"
    /\ Fault
    /\ posts' = posts \ {p}
    /\ Receive(p, "retry")
    /\ UNCHANGED <<polled, buffer, history, freshness, batches>>

-----------------------------------------------------------------------------
Collector == Drain \/ sendBatch \/ Ack
Heron == \E p \in posts : writeHypertableRows(p) \/ upsertFreshness(p) \/ Answer(p)

Next ==
    \/ \E k \in 1 .. MaxReadings : EnqueueBatch(k)
    \/ Collector \/ GiveUp \/ AckFails \/ Restart
    \/ Heron \/ \E p \in posts : Refuse(p)

Spec == Init /\ [][Next]_vars

\* The forwarder's loop keeps running and heron finishes what it serves; nothing
\* is assumed of the drivers or of the faults.
FairSpec == Spec /\ WF_vars(Collector) /\ WF_vars(Heron)

-----------------------------------------------------------------------------
(* What the pipeline promises *)

Stored(i) == \E h \in history : h[2] = i

\* At least once: a reading leaves the buffer only when history has it.  Lost
\* answers, late answers, half-failed posts, failed acks and restarts included.
NothingLost ==
    \A i \in 1 .. polled : (i \notin buffer /\ i \notin Corrupt) => Stored(i)

\* No gaps: history never shows a reading while an earlier one of the same
\* collector is still missing.
HistoryHasNoGaps ==
    \A i, j \in 1 .. polled : (i < j /\ Stored(j) /\ i \notin Corrupt) => Stored(i)

\* The freshness row and history are written independently, yet a reading the
\* freshness row shows is in history or will still be sent again.
FreshnessIsBacked ==
    \A k \in Keys : freshness[k] # 0 => Stored(freshness[k]) \/ freshness[k] \in buffer

\* Once the faults stop, every buffered reading leaves the buffer; a row that no
\* longer decodes does not hold up the others.
BufferDrains ==
    \A i \in Readings : i \in buffer ~> i \notin buffer

\* heron/main.go, docs/ARCHITECTURE.md: the unique constraint makes a collector's
\* retries idempotent, so a reading is in history once.
RetriesAreIdempotent ==
    \A g, h \in history : g[2] = h[2] => g = h
=============================================================================
