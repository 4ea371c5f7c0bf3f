--------------------------- MODULE TelemetryProofs ---------------------------
(***************************************************************************)
(* Store and forward loses no reading, leaves no gap in the history and    *)
(* never shows a freshness that nothing backs, for any number of readings, *)
(* keys and faults, any batch size and any set of corrupt rows.            *)
(***************************************************************************)
EXTENDS TelemetryPipeline, FiniteSetTheorems, TLAPS

Outcomes == {"todo", "ok", "err"}

PipelineTypes ==
    /\ polled \in 0 .. MaxReadings
    /\ buffer \subseteq 1 .. polled
    /\ fwd \in [pc : {"drain", "post", "wait", "ack"}, rows : SUBSET (1 .. polled), batch : Nat]
    /\ posts \subseteq [batch : Nat, rows : SUBSET ((1 .. polled) \ Corrupt),
                        hyper : Outcomes, fresh : Outcomes]
    /\ history \subseteq Nat \X (1 .. polled)
    /\ freshness \in [Keys -> {0} \cup ((1 .. polled) \ Corrupt)]
    /\ batches \in Nat

\* Batch ids grow, so a post of the batch the forwarder waits for is the one it
\* sent last, and carries the readable ones of the drained rows.
AnswersMatch ==
    /\ fwd.batch <= batches
    /\ \A p \in posts : p.batch <= batches
    /\ fwd.pc = "wait" =>
          \A p \in posts : p.batch = fwd.batch => p.rows = fwd.rows \ Corrupt

\* What a positive answer vouches for is in the history.
Vouched ==
    /\ \A p \in posts : p.hyper = "ok" => \A i \in p.rows : Stored(i)
    /\ fwd.pc = "ack" => \A i \in fwd.rows \ Corrupt : Stored(i)

\* The readable readings before one of R are in R or in the history.
Prefixed(R) ==
    \A j \in R : \A i \in 1 .. polled : i < j => i \in R \cup Corrupt \/ Stored(i)

\* Rows are drained and posted oldest first.
OldestFirst ==
    /\ Prefixed(fwd.rows)
    /\ \A p \in posts : Prefixed(p.rows)

PipelineInv ==
    /\ PipelineTypes
    /\ AnswersMatch
    /\ Vouched
    /\ OldestFirst
    /\ NothingLost
    /\ HistoryHasNoGaps

-----------------------------------------------------------------------------
(* Lemmas on the operators *)

\* A non-empty set of readings has a last one, and Max finds it.
LEMMA LastReading ==
    ASSUME NEW S \in SUBSET Readings, S # {}
    PROVE  Max(S) \in S
  <1> USE MaxReadingsAssumption DEF Readings
  <1> DEFINE Left == {MaxReadings - i : i \in S}
  <1>1. Left \in SUBSET Nat /\ Left # {}
    <2>1. \A i \in S : MaxReadings - i \in Nat
      OBVIOUS
    <2>2. PICK i \in S : TRUE
      OBVIOUS
    <2>3. MaxReadings - i \in Left
      BY <2>2
    <2>4. QED
      BY <2>1, <2>3
  <1>2. IsWellFoundedOn(OpToRel(<, Nat), Nat)
    BY NatLessThanWellFounded, Zenon
  <1>3. PICK l \in Left : \A y \in Left : ~(<<y, l>> \in OpToRel(<, Nat))
    BY <1>1, <1>2, WFMin, Zenon
  <1>4. PICK x \in S : l = MaxReadings - x
    BY <1>3
  <1>5. \A y \in S : x >= y
    <2>1. TAKE y \in S
    <2>2. MaxReadings - y \in Left /\ MaxReadings - y \in Nat /\ l \in Nat
      BY <1>1, <1>3
    <2>3. ~(MaxReadings - y < l)
      BY <1>3, <2>2 DEF OpToRel
    <2>4. QED
      BY <1>4, <2>3
  <1>6. QED
    BY <1>4, <1>5 DEF Max

\* Drain takes rows of the buffer, and with a row every older one.
LEMMA OldestIsPrefix ==
    ASSUME buffer \subseteq Readings,
           NEW limit \in Nat,
           NEW j \in Oldest(limit), NEW i \in buffer, i < j
    PROVE  i \in Oldest(limit)
  <1> USE MaxReadingsAssumption DEF Readings
  <1> DEFINE Below(n) == {k \in buffer : k < n}
  <1>1. IsFiniteSet(buffer)
    <2>1. IsFiniteSet(1 .. MaxReadings)
      BY FS_Interval
    <2>2. QED
      BY <2>1, FS_Subset
  <1>2. j \in buffer /\ Cardinality(Below(j)) < limit
    BY DEF Oldest
  <1>3. Below(i) \subseteq Below(j)
    <2>1. \A k \in buffer : k \in Int
      OBVIOUS
    <2>2. \A k \in buffer : k < i => k < j
      BY <1>2, <2>1
    <2>3. QED
      BY <2>2
  <1>4. IsFiniteSet(Below(j)) /\ IsFiniteSet(Below(i))
    BY <1>1, FS_Subset
  <1>5. Cardinality(Below(i)) <= Cardinality(Below(j))
    BY <1>3, <1>4, FS_Subset
  <1>6. Cardinality(Below(i)) \in Nat /\ Cardinality(Below(j)) \in Nat
    BY <1>4, FS_CardinalityType
  <1>7. Cardinality(Below(i)) < limit
    BY <1>2, <1>5, <1>6
  <1>8. QED
    BY <1>7 DEF Oldest

\* What is stored stays stored, and is a reading that was enqueued.
LEMMA StoredGrows ==
    ASSUME NEW i, Stored(i), history \subseteq history'
    PROVE  Stored(i)'
  BY DEF Stored

LEMMA StoredIsPolled ==
    ASSUME PipelineTypes, NEW i, Stored(i)
    PROVE  i \in 1 .. polled
  BY DEF PipelineTypes, Stored

-----------------------------------------------------------------------------
(* The invariant *)

LEMMA PipelineInit == Init => PipelineInv
  BY MaxReadingsAssumption
     DEF Init, Looping, PipelineInv, PipelineTypes, AnswersMatch, Vouched, OldestFirst,
         Prefixed, NothingLost, HistoryHasNoGaps, Stored

LEMMA EnqueueStep ==
    ASSUME PipelineInv, NEW k \in 1 .. MaxReadings, EnqueueBatch(k)
    PROVE  PipelineInv'
  <1> USE DEF PipelineInv, EnqueueBatch
  <1>1. polled \in Nat /\ polled' \in Nat /\ polled <= polled' /\ polled' <= MaxReadings
    BY MaxReadingsAssumption DEF PipelineTypes
  <1>2. 1 .. polled \subseteq 1 .. polled'
    BY <1>1
  <1>3. buffer' = buffer \cup (polled + 1 .. polled')
    OBVIOUS
  <1>4. PipelineTypes'
    BY <1>1, <1>2, <1>3 DEF PipelineTypes
  <1>5. AnswersMatch'
    BY DEF AnswersMatch
  <1>6. \A i : Stored(i)' <=> Stored(i)
    BY DEF Stored
  <1>7. Vouched'
    BY <1>6 DEF Vouched
  <1>8. \A i \in 1 .. polled' : i \in 1 .. polled \/ i \in buffer' \ 1 .. polled
    BY <1>1, <1>3
  <1>9. OldestFirst'
    <2>1. ASSUME NEW R \in SUBSET (1 .. polled), Prefixed(R)
          PROVE  \A j \in R : \A i \in 1 .. polled' :
                    i < j => i \in R \cup Corrupt \/ Stored(i)'
      <3>1. TAKE j \in R
      <3>2. TAKE i \in 1 .. polled'
      <3>3. HAVE i < j
      <3>4. i \in 1 .. polled
        BY <1>1, <3>3
      <3>5. QED
        BY <2>1, <3>3, <3>4, <1>6 DEF Prefixed
    <2>2. fwd.rows \in SUBSET (1 .. polled) /\ \A p \in posts : p.rows \in SUBSET (1 .. polled)
      BY DEF PipelineTypes
    <2>3. QED
      BY <2>1, <2>2 DEF OldestFirst, Prefixed
  <1>10. NothingLost'
    BY <1>3, <1>6, <1>8 DEF NothingLost
  <1>11. HistoryHasNoGaps'
    <2>1. SUFFICES ASSUME NEW i \in 1 .. polled', NEW j \in 1 .. polled',
                          i < j, Stored(j), i \notin Corrupt
                   PROVE  Stored(i)
      BY <1>6 DEF HistoryHasNoGaps
    <2>2. j \in 1 .. polled
      BY StoredIsPolled, <2>1
    <2>3. i \in 1 .. polled
      BY <1>1, <2>1, <2>2
    <2>4. QED
      BY <2>1, <2>2, <2>3 DEF HistoryHasNoGaps
  <1>12. QED
    BY <1>4, <1>5, <1>7, <1>9, <1>10, <1>11

\* Steps that leave the rows, the posts and the history alone keep the rest.
LEMMA SameStored ==
    ASSUME UNCHANGED <<polled, history>>
    PROVE  /\ \A i : Stored(i)' <=> Stored(i)
           /\ \A R : (\A j \in R : \A i \in 1 .. polled' :
                        i < j => i \in R \cup Corrupt \/ Stored(i)') <=> Prefixed(R)
           /\ HistoryHasNoGaps' <=> HistoryHasNoGaps
  BY DEF Stored, Prefixed, HistoryHasNoGaps

LEMMA DrainStep ==
    ASSUME PipelineInv, Drain
    PROVE  PipelineInv'
  <1> USE DEF PipelineInv, Drain
  <1> DEFINE R == Oldest(BatchSize)
  <1>1. R \subseteq buffer
    BY DEF Oldest
  <1>2. fwd' = [pc |-> "post", rows |-> R, batch |-> 0]
    BY DEF Looping
  <1>3. /\ \A i : Stored(i)' <=> Stored(i)
        /\ HistoryHasNoGaps' <=> HistoryHasNoGaps
    BY SameStored
  <1>4. PipelineTypes'
    BY <1>1, <1>2 DEF PipelineTypes
  <1>5. AnswersMatch'
    <2>1. fwd'.pc = "post" /\ fwd'.batch = 0
      BY ONLY <1>2
    <2>2. 0 <= batches
      BY DEF PipelineTypes
    <2>3. \A p \in posts' : p.batch <= batches'
      BY DEF AnswersMatch
    <2>4. fwd'.batch <= batches' /\ fwd'.pc # "wait"
      BY <2>1, <2>2
    <2> HIDE DEF Drain
    <2>5. QED
      BY <2>3, <2>4 DEF AnswersMatch
  <1>6. Vouched'
    BY <1>2, <1>3 DEF Vouched
  <1>7. \A j \in R : \A i \in 1 .. polled : i < j => i \in R \cup Corrupt \/ Stored(i)
    <2>1. TAKE j \in R
    <2>2. TAKE i \in 1 .. polled
    <2>3. HAVE i < j
    <2>4. CASE i \in buffer
      <3>1. buffer \subseteq Readings
        BY MaxReadingsAssumption DEF PipelineTypes, Readings
      <3>2. i \in R
        BY <2>3, <2>4, <3>1, OldestIsPrefix, BatchSizeAssumption
      <3>3. QED
        BY <3>2
    <2>5. CASE i \notin buffer
      BY <2>5 DEF NothingLost
    <2>6. QED
      BY <2>4, <2>5
  <1>8. OldestFirst'
    BY <1>2, <1>3, <1>7 DEF OldestFirst, Prefixed
  <1>9. NothingLost'
    BY <1>3 DEF NothingLost
  <1>10. QED
    BY <1>3, <1>4, <1>5, <1>6, <1>8, <1>9

LEMMA SendStep ==
    ASSUME PipelineInv, sendBatch
    PROVE  PipelineInv'
  <1> USE DEF PipelineInv, sendBatch
  <1>1. /\ \A i : Stored(i)' <=> Stored(i)
        /\ HistoryHasNoGaps' <=> HistoryHasNoGaps
    BY SameStored
  <1>2. NothingLost'
    BY <1>1 DEF NothingLost
  <1>3. CASE fwd.rows \subseteq Corrupt
    <2>1. fwd' = [fwd EXCEPT !.pc = "ack"] /\ UNCHANGED <<posts, batches>>
      BY <1>3
    <2>2. fwd'.pc = "ack" /\ fwd'.rows = fwd.rows /\ fwd'.batch = fwd.batch
      BY <2>1 DEF PipelineTypes
    <2>3. PipelineTypes'
      BY <2>1 DEF PipelineTypes
    <2>4. AnswersMatch'
      BY <2>1, <2>2 DEF AnswersMatch
    <2>5. Vouched'
      BY <1>1, <1>3, <2>1, <2>2 DEF Vouched
    <2>6. OldestFirst'
      BY <1>1, <2>1, <2>2 DEF OldestFirst, Prefixed
    <2>7. QED
      BY <1>1, <1>2, <2>3, <2>4, <2>5, <2>6
  <1>4. CASE ~(fwd.rows \subseteq Corrupt)
    <2> DEFINE new == [batch |-> batches + 1, rows |-> fwd.rows \ Corrupt,
                       hyper |-> "todo", fresh |-> "todo"]
    <2>1. /\ batches' = batches + 1
          /\ fwd' = [fwd EXCEPT !.pc = "wait", !.batch = batches + 1]
          /\ posts' = posts \cup {new}
      BY <1>4
    <2>2. fwd'.pc = "wait" /\ fwd'.rows = fwd.rows /\ fwd'.batch = batches + 1
      BY <2>1 DEF PipelineTypes
    <2>3. /\ new \in [batch : Nat, rows : SUBSET ((1 .. polled) \ Corrupt),
                      hyper : Outcomes, fresh : Outcomes]
          /\ new.batch = batches + 1 /\ new.rows = fwd.rows \ Corrupt
          /\ new.hyper = "todo"
      BY DEF PipelineTypes, Outcomes
    <2> HIDE DEF new
    <2>4. PipelineTypes'
      BY <2>1, <2>3 DEF PipelineTypes
    <2>5. AnswersMatch'
      <3>1. \A p \in posts : p.batch <= batches /\ p.batch \in Nat
        BY DEF AnswersMatch, PipelineTypes
      <3>2. \A p \in posts : p.batch # batches + 1 /\ p.batch <= batches + 1
        BY <3>1 DEF PipelineTypes
      <3>3. batches + 1 <= batches + 1
        BY DEF PipelineTypes
      <3>4. QED
        BY <2>1, <2>2, <2>3, <3>2, <3>3 DEF AnswersMatch
    <2>6. Vouched'
      BY <1>1, <2>1, <2>2, <2>3 DEF Vouched
    <2>7. OldestFirst'
      <3>1. \A j \in new.rows : \A i \in 1 .. polled :
                i < j => i \in new.rows \cup Corrupt \/ Stored(i)
        BY <2>3 DEF OldestFirst, Prefixed
      <3>2. QED
        BY <1>1, <2>1, <2>2, <3>1 DEF OldestFirst, Prefixed
    <2>8. QED
      BY <1>1, <1>2, <2>4, <2>5, <2>6, <2>7
  <1>5. QED
    BY <1>3, <1>4

\* The forwarder goes back to its loop and answers or posts disappear.
LEMMA LoopStep ==
    ASSUME PipelineInv, fwd' = Looping, posts' \subseteq posts,
           UNCHANGED <<polled, buffer, history, freshness, batches>>
    PROVE  PipelineInv'
  <1> USE DEF PipelineInv
  <1>1. /\ \A i : Stored(i)' <=> Stored(i)
        /\ HistoryHasNoGaps' <=> HistoryHasNoGaps
    BY SameStored
  <1>2. fwd' = [pc |-> "drain", rows |-> {}, batch |-> 0]
    BY DEF Looping
  <1>3. PipelineTypes'
    BY <1>2 DEF PipelineTypes
  <1>4. AnswersMatch'
    BY <1>2 DEF AnswersMatch, PipelineTypes
  <1>5. Vouched'
    BY <1>1, <1>2 DEF Vouched
  <1>6. OldestFirst'
    BY <1>1, <1>2 DEF OldestFirst, Prefixed
  <1>7. NothingLost'
    BY <1>1 DEF NothingLost
  <1>8. QED
    BY <1>1, <1>3, <1>4, <1>5, <1>6, <1>7

LEMMA AckStep ==
    ASSUME PipelineInv, Ack
    PROVE  PipelineInv'
  <1> USE DEF PipelineInv, Ack
  <1>1. /\ \A i : Stored(i)' <=> Stored(i)
        /\ HistoryHasNoGaps' <=> HistoryHasNoGaps
    BY SameStored
  <1>2. fwd' = [pc |-> "drain", rows |-> {}, batch |-> 0]
    BY DEF Looping
  <1>3. PipelineTypes'
    <2>1. fwd' \in [pc : {"drain", "post", "wait", "ack"}, rows : SUBSET (1 .. polled),
                     batch : Nat]
      BY <1>2
    <2>2. QED
      BY <2>1 DEF PipelineTypes
  <1>4. AnswersMatch'
    BY <1>2 DEF AnswersMatch, PipelineTypes
  <1>5. Vouched'
    BY <1>1, <1>2 DEF Vouched
  <1>6. OldestFirst'
    BY <1>1, <1>2 DEF OldestFirst, Prefixed
  <1>7. NothingLost'
    BY <1>1 DEF NothingLost, Vouched
  <1>8. QED
    BY <1>1, <1>3, <1>4, <1>5, <1>6, <1>7

\* A write that finished changes its own outcome only.
LEMMA WroteOutcome ==
    ASSUME PipelineTypes, NEW p \in posts, NEW write \in {"hyper", "fresh"},
           NEW o \in {"ok", "err"}, Wrote(p, write, o)
    PROVE  \E q \in [batch : Nat, rows : SUBSET ((1 .. polled) \ Corrupt),
                     hyper : Outcomes, fresh : Outcomes] :
              /\ posts' = (posts \ {p}) \cup {q}
              /\ q.batch = p.batch /\ q.rows = p.rows
              /\ q.hyper = IF write = "hyper" THEN o ELSE p.hyper
  <1>1. p \in [batch : Nat, rows : SUBSET ((1 .. polled) \ Corrupt),
               hyper : Outcomes, fresh : Outcomes]
    BY DEF PipelineTypes
  <1>2. CASE write = "hyper"
    <2> DEFINE q == [p EXCEPT !.hyper = o]
    <2>1. posts' = (posts \ {p}) \cup {q}
      BY <1>2 DEF Wrote
    <2>2. /\ q \in [batch : Nat, rows : SUBSET ((1 .. polled) \ Corrupt),
                    hyper : Outcomes, fresh : Outcomes]
          /\ q.batch = p.batch /\ q.rows = p.rows
          /\ q.hyper = IF write = "hyper" THEN o ELSE p.hyper
      BY <1>1, <1>2 DEF Outcomes
    <2> HIDE DEF q
    <2>3. QED
      BY <2>1, <2>2
  <1>3. CASE write = "fresh"
    <2> DEFINE q == [p EXCEPT !.fresh = o]
    <2>1. posts' = (posts \ {p}) \cup {q}
      BY <1>3 DEF Wrote
    <2>2. /\ q \in [batch : Nat, rows : SUBSET ((1 .. polled) \ Corrupt),
                    hyper : Outcomes, fresh : Outcomes]
          /\ q.batch = p.batch /\ q.rows = p.rows
          /\ q.hyper = IF write = "hyper" THEN o ELSE p.hyper
      BY <1>1, <1>3 DEF Outcomes
    <2> HIDE DEF q
    <2>3. QED
      BY <2>1, <2>2
  <1>4. QED
    BY <1>2, <1>3

LEMMA HypertableStep ==
    ASSUME PipelineInv, NEW p \in posts, writeHypertableRows(p)
    PROVE  PipelineInv'
  <1> USE DEF PipelineInv
  <1>1. PICK o \in {"ok", "err"} :
            /\ Wrote(p, "hyper", o)
            /\ history' = IF o = "ok" THEN history \cup {<<p.batch, i>> : i \in p.rows}
                                      ELSE history
            /\ UNCHANGED <<polled, buffer, fwd, freshness, batches>>
    BY DEF writeHypertableRows
  <1>2. PICK q \in [batch : Nat, rows : SUBSET ((1 .. polled) \ Corrupt),
                    hyper : Outcomes, fresh : Outcomes] :
            /\ posts' = (posts \ {p}) \cup {q}
            /\ q.batch = p.batch /\ q.rows = p.rows /\ q.hyper = o
    BY <1>1, WroteOutcome
  <1>3. p.batch \in Nat /\ p.rows \in SUBSET ((1 .. polled) \ Corrupt)
    BY DEF PipelineTypes
  <1>4. history \subseteq history'
    BY <1>1
  <1>5. \A i : Stored(i) => Stored(i)'
    BY <1>4, StoredGrows
  <1>6. \A i : Stored(i)' => Stored(i) \/ (o = "ok" /\ i \in p.rows)
    BY <1>1 DEF Stored
  <1>7. o = "ok" => \A i \in p.rows : Stored(i)'
    <2>1. SUFFICES ASSUME o = "ok", NEW i \in p.rows
                   PROVE  \E h \in history' : h[2] = i
      BY DEF Stored
    <2>2. <<p.batch, i>> \in history' /\ <<p.batch, i>>[2] = i
      BY <1>1, <2>1
    <2>3. QED
      BY <2>2
  <1>8. PipelineTypes'
    <2>1. history' \subseteq Nat \X (1 .. polled)
      BY <1>1, <1>3 DEF PipelineTypes
    <2>2. QED
      BY <1>1, <1>2, <2>1 DEF PipelineTypes
  <1>9. AnswersMatch'
    BY <1>1, <1>2 DEF AnswersMatch
  <1>10. Vouched'
    <2>1. \A r \in posts' : r.hyper = "ok" => \A i \in r.rows : Stored(i)'
      BY <1>2, <1>5, <1>7 DEF Vouched
    <2>2. QED
      BY <1>1, <1>5, <2>1 DEF Vouched
  <1>11. OldestFirst'
    <2>1. \A r \in posts' : \E s \in posts : r.rows = s.rows
      BY <1>2
    <2>2. QED
      BY <1>1, <1>5, <2>1 DEF OldestFirst, Prefixed
  <1>12. NothingLost'
    BY <1>1, <1>5 DEF NothingLost
  <1>13. HistoryHasNoGaps'
    <2>1. SUFFICES ASSUME NEW i \in 1 .. polled, NEW j \in 1 .. polled,
                          i < j, Stored(j)', i \notin Corrupt
                   PROVE  Stored(i)'
      BY <1>1 DEF HistoryHasNoGaps
    <2>2. CASE Stored(j)
      BY <1>5, <2>1, <2>2 DEF HistoryHasNoGaps
    <2>3. CASE o = "ok" /\ j \in p.rows
      <3>1. i \in p.rows \/ Stored(i)
        BY <2>1, <2>3 DEF OldestFirst, Prefixed
      <3>2. QED
        BY <1>5, <1>7, <2>3, <3>1
    <2>4. QED
      BY <1>6, <2>1, <2>2, <2>3
  <1>14. QED
    BY <1>8, <1>9, <1>10, <1>11, <1>12, <1>13

LEMMA FreshnessStep ==
    ASSUME PipelineInv, NEW p \in posts, upsertFreshness(p)
    PROVE  PipelineInv'
  <1> USE DEF PipelineInv
  <1> DEFINE Of(k) == {i \in p.rows : KeyOf[i] = k}
  <1>1. PICK o \in {"ok", "err"} :
            /\ Wrote(p, "fresh", o)
            /\ o = "ok" => freshness' = [k \in Keys |->
                   IF Of(k) = {} THEN freshness[k] ELSE Max(Of(k))]
            /\ o = "err" => freshness' = freshness
            /\ UNCHANGED <<polled, buffer, fwd, history, batches>>
    BY DEF upsertFreshness
  <1>2. PICK q \in [batch : Nat, rows : SUBSET ((1 .. polled) \ Corrupt),
                    hyper : Outcomes, fresh : Outcomes] :
            /\ posts' = (posts \ {p}) \cup {q}
            /\ q.batch = p.batch /\ q.rows = p.rows /\ q.hyper = p.hyper
    BY <1>1, WroteOutcome
  <1>3. /\ \A i : Stored(i)' <=> Stored(i)
        /\ HistoryHasNoGaps' <=> HistoryHasNoGaps
    BY <1>1, SameStored
  <1>4. freshness' \in [Keys -> {0} \cup ((1 .. polled) \ Corrupt)]
    <2>1. CASE o = "err"
      BY <1>1, <2>1 DEF PipelineTypes
    <2>2. CASE o = "ok"
      <3>1. p.rows \subseteq (1 .. polled) \ Corrupt /\ p.rows \subseteq Readings
        BY MaxReadingsAssumption DEF PipelineTypes, Readings
      <3>2. ASSUME NEW k \in Keys
            PROVE  (IF Of(k) = {} THEN freshness[k] ELSE Max(Of(k)))
                      \in {0} \cup ((1 .. polled) \ Corrupt)
        <4>1. CASE Of(k) = {}
          BY <4>1 DEF PipelineTypes
        <4>2. CASE Of(k) # {}
          <5>1. Of(k) \in SUBSET Readings
            BY <3>1
          <5>2. Max(Of(k)) \in Of(k)
            BY <4>2, <5>1, LastReading
          <5>3. QED
            BY <3>1, <4>2, <5>2
        <4>3. QED
          BY <4>1, <4>2
      <3> HIDE DEF Of
      <3>3. QED
        BY <1>1, <2>2, <3>2
    <2>3. QED
      BY <2>1, <2>2
  <1>5. PipelineTypes'
    BY <1>1, <1>2, <1>4 DEF PipelineTypes
  <1>6. AnswersMatch'
    BY <1>1, <1>2 DEF AnswersMatch
  <1>7. Vouched'
    BY <1>1, <1>2, <1>3 DEF Vouched
  <1>8. OldestFirst'
    <2>1. \A r \in posts' : \E s \in posts : r.rows = s.rows
      BY <1>2
    <2>2. QED
      BY <1>1, <1>3, <2>1 DEF OldestFirst, Prefixed
  <1>9. NothingLost'
    BY <1>1, <1>3 DEF NothingLost
  <1>10. QED
    BY <1>3, <1>5, <1>6, <1>7, <1>8, <1>9

\* An answer reaches the forwarder that waits for it, or nobody.
LEMMA AnswerStep ==
    ASSUME PipelineInv, NEW p \in posts, NEW pc \in {"ack", "retry"},
           posts' = posts \ {p}, Receive(p, pc),
           pc = "ack" => p.hyper = "ok",
           UNCHANGED <<polled, buffer, history, freshness, batches>>
    PROVE  PipelineInv'
  <1> USE DEF PipelineInv
  <1>1. /\ \A i : Stored(i)' <=> Stored(i)
        /\ HistoryHasNoGaps' <=> HistoryHasNoGaps
    BY SameStored
  <1>2. CASE fwd' = Looping
    BY <1>2, LoopStep
  <1>3. CASE fwd' = fwd
    <2>1. PipelineTypes' /\ AnswersMatch'
      BY <1>3 DEF PipelineTypes, AnswersMatch
    <2>2. Vouched'
      BY <1>1, <1>3 DEF Vouched
    <2>3. OldestFirst'
      BY <1>1, <1>3 DEF OldestFirst, Prefixed
    <2>4. NothingLost'
      BY <1>1 DEF NothingLost
    <2>5. QED
      BY <1>1, <2>1, <2>2, <2>3, <2>4
  <1>4. CASE /\ fwd.pc = "wait" /\ fwd.batch = p.batch /\ pc = "ack"
             /\ fwd' = [fwd EXCEPT !.pc = "ack"]
    <2>1. fwd'.pc = "ack" /\ fwd'.rows = fwd.rows /\ fwd'.batch = fwd.batch
      BY <1>4 DEF PipelineTypes
    <2>2. PipelineTypes'
      BY <1>4 DEF PipelineTypes
    <2>3. AnswersMatch'
      BY <2>1 DEF AnswersMatch
    <2>4. \A i \in fwd.rows \ Corrupt : Stored(i)
      BY <1>4 DEF AnswersMatch, Vouched
    <2>5. Vouched'
      BY <1>1, <2>1, <2>4 DEF Vouched
    <2>6. OldestFirst'
      BY <1>1, <2>1 DEF OldestFirst, Prefixed
    <2>7. NothingLost'
      BY <1>1 DEF NothingLost
    <2>8. QED
      BY <1>1, <2>2, <2>3, <2>5, <2>6, <2>7
  <1>5. QED
    BY <1>2, <1>3, <1>4 DEF Receive

LEMMA PipelineNext == PipelineInv /\ [Next]_vars => PipelineInv'
  <1> SUFFICES ASSUME PipelineInv, [Next]_vars PROVE PipelineInv'
    OBVIOUS
  <1>1. CASE \E k \in 1 .. MaxReadings : EnqueueBatch(k)
    BY <1>1, EnqueueStep
  <1>2. CASE Collector
    BY <1>2, DrainStep, SendStep, AckStep DEF Collector
  <1>3. CASE GiveUp
    <2>1. posts' \subseteq posts
      BY <1>3 DEF GiveUp
    <2>2. QED
      BY <1>3, <2>1, LoopStep DEF GiveUp
  <1>4. CASE AckFails
    BY <1>4, LoopStep DEF AckFails
  <1>5. CASE Restart
    BY <1>5, LoopStep DEF Restart
  <1>6. CASE Heron
    <2>1. PICK p \in posts : writeHypertableRows(p) \/ upsertFreshness(p) \/ Answer(p)
      BY <1>6 DEF Heron
    <2>2. CASE Answer(p)
      <3>1. \E pc \in {"ack", "retry"} : Receive(p, pc) /\ (pc = "ack" => p.hyper = "ok")
        BY <2>2 DEF Answer
      <3>2. QED
        BY <2>2, <3>1, AnswerStep DEF Answer
    <2>3. QED
      BY <2>1, <2>2, HypertableStep, FreshnessStep
  <1>7. CASE \E p \in posts : Refuse(p)
    BY <1>7, AnswerStep DEF Refuse
  <1>8. CASE UNCHANGED vars
    BY <1>8 DEF vars, PipelineInv, PipelineTypes, AnswersMatch, Vouched, OldestFirst,
                Prefixed, NothingLost, HistoryHasNoGaps, Stored
  <1>9. QED
    BY <1>1, <1>2, <1>3, <1>4, <1>5, <1>6, <1>7, <1>8 DEF Next

LEMMA PipelineInvariant == Spec => []PipelineInv
  BY PipelineInit, PipelineNext, PTL DEF Spec

-----------------------------------------------------------------------------

\* At least once: whatever answers are lost or late, writes fail or processes
\* restart, a reading leaves the collector's buffer only when heron stored it.
THEOREM NoReadingIsLost == Spec => []NothingLost
  <1>1. PipelineInv => NothingLost
    BY DEF PipelineInv
  <1>2. QED
    BY <1>1, PipelineInvariant, PTL

\* The history of a collector is complete up to its last reading, although posts
\* of earlier attempts may still be served long after they were given up.
THEOREM HistoryIsComplete == Spec => []HistoryHasNoGaps
  <1>1. PipelineInv => HistoryHasNoGaps
    BY DEF PipelineInv
  <1>2. QED
    BY <1>1, PipelineInvariant, PTL

\* The two writes of handleIngest fail independently, yet a reading that a
\* freshness row shows is in the history or still in the buffer.
THEOREM FreshnessHasBacking == Spec => []FreshnessIsBacked
  <1>1. PipelineInv => FreshnessIsBacked
    BY DEF PipelineInv, PipelineTypes, NothingLost, FreshnessIsBacked
  <1>2. QED
    BY <1>1, PipelineInvariant, PTL
=============================================================================
