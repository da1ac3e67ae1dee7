----------------------------- MODULE ApplySink -----------------------------
(***************************************************************************)
(* The stream mode of apply-sink (runStream, applyBatch, tryBatch,         *)
(* applyOne): sink processes pull change events of one JetStream consumer, *)
(* apply a fetched batch in one transaction or, failing that, one by one,  *)
(* and acknowledge, Nak or park each event.  Event m is the m-th of the    *)
(* stream; KeyOf[m] is the row it carries an image of.                     *)
(***************************************************************************)
EXTENDS Integers, Sequences, FiniteSets, SequencesExt

CONSTANTS
    Sink,           \* sink processes on the durable consumer
    KeyOf,          \* the row of each event of the stream
    Deletes,        \* events that delete their row; the others upsert it
    Poison,         \* events whose row the target always rejects
    Guarded,        \* CONFLICT_COLUMN is set: an upsert takes only newer rows
    DlqReliable,    \* publishing to the dead-letter stream never fails
    BatchMax,       \* events per Fetch: 100 in the code
    StableUpTo,     \* sort.Slice keeps ties in order up to this length: 12
    MaxDeliver,     \* MAX_DELIVER
    TransientMax,   \* TRANSIENT_MAX_DELIVER
    MaxFaults,      \* bound on crashes, lost acks, expiries, lock conflicts
    MaxOutages      \* bound on outages of the target database

Msg == DOMAIN KeyOf
Key == {KeyOf[m] : m \in Msg}

ASSUME SinkAssumption ==
    /\ KeyOf \in Seq(Key) /\ Poison \subseteq Msg /\ Deletes \subseteq Msg
    /\ Guarded \in BOOLEAN /\ DlqReliable \in BOOLEAN
    /\ BatchMax \in Nat \ {0} /\ StableUpTo \in Nat
    /\ MaxDeliver \in Nat \ {0} /\ TransientMax \in Nat /\ MaxDeliver <= TransientMax
    /\ MaxFaults \in Nat /\ MaxOutages \in Nat

VARIABLES
    pub,        \* events published so far
    st,         \* JetStream's view of each event
    nd,         \* NumDelivered of each event
    held,       \* the fetched events a sink has yet to deal with
    mode,       \* where a sink is in its loop
    cache,      \* sinks that have looked up the target table since they started
    tgt,        \* the event whose image each target row shows, 0 for none
    landed,     \* events whose upsert was committed
    dlq,        \* the dead-letter stream
    up,         \* the target database answers
    faults, outages

vars == <<pub, st, nd, held, mode, cache, tgt, landed, dlq, up, faults, outages>>

\* An event is delivered until its retries are used up; only a mishap after
\* that can make JetStream deliver it once more.
Budget == TransientMax + MaxFaults

\* Types, with the bound on deliveries: no event is retried for ever.
TypeOK ==
    /\ pub \in 0 .. Len(KeyOf)
    /\ st \in [Msg -> {"new", "out", "due", "acked", "termed"}]
    /\ nd \in [Msg -> 0 .. Budget]
    /\ held \in [Sink -> Seq(Msg)]
    /\ mode \in [Sink -> {"start", "fetch", "batch", "each"}]
    /\ cache \subseteq Sink
    /\ tgt \in [Key -> Msg \union {0}]
    /\ landed \subseteq Msg /\ dlq \subseteq Msg
    /\ up \in BOOLEAN
    /\ faults \in 0 .. MaxFaults /\ outages \in 0 .. MaxOutages

Init ==
    /\ pub = 0
    /\ st = [m \in Msg |-> "new"]
    /\ nd = [m \in Msg |-> 0]
    /\ held = [s \in Sink |-> <<>>]
    /\ mode = [s \in Sink |-> "start"] /\ cache = {}
    /\ tgt = [k \in Key |-> 0]
    /\ landed = {} /\ dlq = {}
    /\ up = TRUE
    /\ faults = 0 /\ outages = 0

\* One more of the bounded mishaps happens.
Mishap == faults < MaxFaults /\ faults' = faults + 1

-----------------------------------------------------------------------------
(***************************************************************************)
(* The source, the bus and the target.                                     *)
(***************************************************************************)

Publish ==
    /\ pub < Len(KeyOf)
    /\ pub' = pub + 1
    /\ UNCHANGED <<st, nd, held, mode, cache, tgt, landed, dlq, up, faults, outages>>

TargetDown ==
    /\ up /\ outages < MaxOutages
    /\ up' = FALSE /\ outages' = outages + 1
    /\ UNCHANGED <<pub, st, nd, held, mode, cache, tgt, landed, dlq, faults>>

TargetUp ==
    /\ ~ up
    /\ up' = TRUE
    /\ UNCHANGED <<pub, st, nd, held, mode, cache, tgt, landed, dlq, faults, outages>>

\* AckWait expires on an event a sink is still busy with.
Expire(s) ==
    /\ Mishap
    /\ \E i \in DOMAIN held[s] :
          /\ st[held[s][i]] = "out"
          /\ st' = [st EXCEPT ![held[s][i]] = "due"]
    /\ UNCHANGED <<pub, nd, held, mode, cache, tgt, landed, dlq, up, outages>>

\* The sink dies; what it had not acknowledged becomes due again.
Crash(s) ==
    /\ Mishap
    /\ held[s] # <<>>
    /\ st' = [m \in Msg |-> IF st[m] = "out" /\ m \in ToSet(held[s])
                            THEN "due" ELSE st[m]]
    /\ held' = [held EXCEPT ![s] = <<>>]
    /\ mode' = [mode EXCEPT ![s] = "start"] /\ cache' = cache \ {s}
    /\ UNCHANGED <<pub, nd, tgt, landed, dlq, up, outages>>

-----------------------------------------------------------------------------
(***************************************************************************)
(* The loop of runStream.                                                  *)
(***************************************************************************)

\* openDB: a sink waits for the database before it subscribes.
Start(s) ==
    /\ mode[s] = "start" /\ up
    /\ mode' = [mode EXCEPT ![s] = "fetch"]
    /\ UNCHANGED <<pub, st, nd, held, cache, tgt, landed, dlq, up, faults, outages>>

\* getMeta: the table was found, or had been found before.
Learns(s) == cache' = cache \union {s}

\* The events of a set, in the order of the stream.
StreamOrder(S) == {q \in SetToSeqs(S) : \A j, k \in DOMAIN q : j < k => q[j] < q[k]}

\* sub.Fetch: redeliveries that are due, then the next new events, in order.
Fetch(s) ==
    /\ mode[s] = "fetch"
    /\ \E again \in SUBSET {m \in Msg : st[m] = "due"},
          n \in {0} \union {m \in 1 .. pub : st[m] = "new"} :
          LET fresh == {m \in 1 .. n : st[m] = "new"}
              got == again \union fresh
          IN  /\ got # {} /\ Cardinality(got) <= BatchMax
              /\ st' = [m \in Msg |-> IF m \in got THEN "out" ELSE st[m]]
              /\ nd' = [m \in Msg |-> IF m \in got THEN nd[m] + 1 ELSE nd[m]]
              /\ \E batch \in StreamOrder(got) : held' = [held EXCEPT ![s] = batch]
              /\ mode' = [mode EXCEPT ![s] =
                            IF Cardinality(got) > 1 THEN "batch" ELSE "each"]
    /\ UNCHANGED <<pub, cache, tgt, landed, dlq, up, faults, outages>>

\* Mutant of Upserted: the version guard is missing.
UpsertedUnguarded(old, m) == m

\* What a row that shows event old shows after event m.  The guard of
\* buildUpsert compares versions; execDelete has none, and a deleted row has
\* no version to compare with.
Upserted(old, m) ==
    IF Guarded /\ old > m /\ {old, m} \intersect Deletes = {} THEN old ELSE m

\* The orders in which a batch may apply its events of row k: entries are
\* sorted by row only, and sort.Slice keeps ties in order up to StableUpTo.
Orders(batch, k) ==
    LET mine == {m \in ToSet(batch) : KeyOf[m] = k}
    IN  IF Len(batch) > StableUpTo THEN SetToSeqs(mine) ELSE StreamOrder(mine)

\* What a row that shows event old shows after the events of order.
Shown(old, order) ==
    LET row[j \in 0 .. Len(order)] == IF j = 0 THEN old ELSE Upserted(row[j - 1], order[j])
    IN  row[Len(order)]

\* The row images a batch can leave behind.
BatchImages(batch) ==
    {t \in [Key -> Msg \union {0}] :
        \A k \in Key : \E order \in Orders(batch, k) :
            t[k] = Shown(tgt[k], order)}

\* Ack: JetStream forgets the event, unless the acknowledgement is lost.
Acked(batch, lost) ==
    [m \in Msg |-> IF m \in ToSet(batch)
                   THEN IF m \in lost THEN "due"
                        ELSE IF st[m] = "termed" THEN "termed" ELSE "acked"
                   ELSE st[m]]

\* Losing acknowledgements is one mishap.
SomeAcksLost(batch, lost) ==
    IF lost = {} THEN faults' = faults
    ELSE Mishap /\ lost \subseteq {m \in ToSet(batch) : st[m] = "out"}

\* The sink is done with the first event it holds.
Advance(s) ==
    /\ held' = [held EXCEPT ![s] = Tail(@)]
    /\ mode' = [mode EXCEPT ![s] = IF Len(held[s]) = 1 THEN "fetch" ELSE "each"]

\* applyBatch succeeds: one transaction, then every event is acknowledged.
BatchApplied(s) ==
    /\ mode[s] = "batch"
    /\ up /\ ToSet(held[s]) \intersect Poison = {}
    /\ tgt' \in BatchImages(held[s])
    /\ landed' = landed \union ToSet(held[s])
    /\ \E lost \in SUBSET ToSet(held[s]) :
          SomeAcksLost(held[s], lost) /\ st' = Acked(held[s], lost)
    /\ held' = [held EXCEPT ![s] = <<>>]
    /\ mode' = [mode EXCEPT ![s] = "fetch"]
    /\ Learns(s)
    /\ UNCHANGED <<pub, nd, dlq, up, outages>>

\* Mutant of BatchFailed: the batch is acknowledged although it rolled back.
BatchFailedAcks(s) ==
    /\ mode[s] = "batch"
    /\ ~ up \/ ToSet(held[s]) \intersect Poison # {}
    /\ st' = Acked(held[s], {})
    /\ held' = [held EXCEPT ![s] = <<>>]
    /\ mode' = [mode EXCEPT ![s] = "fetch"]
    /\ UNCHANGED <<pub, nd, cache, tgt, landed, dlq, up, faults, outages>>

\* applyBatch gives up (a bad row, no database, or a lock conflict on each of
\* its attempts) and everything rolls back: the events are taken one by one.
BatchFailed(s) ==
    /\ mode[s] = "batch"
    /\ \/ ~ up /\ faults' = faults /\ cache' = cache
       \/ up /\ ToSet(held[s]) \intersect Poison # {} /\ faults' = faults /\ Learns(s)
       \/ up /\ Mishap /\ (cache' = cache \/ Learns(s))
    /\ mode' = [mode EXCEPT ![s] = "each"]
    /\ UNCHANGED <<pub, st, nd, held, tgt, landed, dlq, up, outages>>

\* The commit went through but the sink was not told.
BatchCommitUnknown(s) ==
    /\ mode[s] = "batch"
    /\ up /\ ToSet(held[s]) \intersect Poison = {}
    /\ Mishap
    /\ tgt' \in BatchImages(held[s])
    /\ landed' = landed \union ToSet(held[s])
    /\ mode' = [mode EXCEPT ![s] = "each"]
    /\ Learns(s)
    /\ UNCHANGED <<pub, st, nd, held, dlq, up, outages>>

\* apply succeeds for the first event at hand.
Applied(s) ==
    /\ mode[s] = "each"
    /\ LET m == Head(held[s])
       IN  /\ up /\ m \notin Poison
           /\ tgt' = [tgt EXCEPT ![KeyOf[m]] = Upserted(@, m)]
           /\ landed' = landed \union {m}
           /\ \E lost \in SUBSET {m} :
                 SomeAcksLost(<<m>>, lost) /\ st' = Acked(<<m>>, lost)
    /\ Advance(s) /\ Learns(s)
    /\ UNCHANGED <<pub, nd, dlq, up, outages>>

\* Mutant of NakOrPark: the wrong budget, MAX_DELIVER for every error.
NakOrParkEarly(m, cap) ==
    IF nd[m] >= MaxDeliver
    THEN /\ st' = [st EXCEPT ![m] = "termed"]
         /\ dlq' = dlq \union {m}
    ELSE /\ st' = [st EXCEPT ![m] = IF @ = "out" THEN "due" ELSE @]
         /\ dlq' = dlq

\* A failed event goes back to the bus until its deliveries reach cap; then it
\* is published to the dead-letter stream (errors ignored) and terminated.
NakOrPark(m, cap) ==
    IF nd[m] >= cap
    THEN /\ st' = [st EXCEPT ![m] = IF @ = "acked" THEN @ ELSE "termed"]
         /\ \/ dlq' = dlq \union {m}
            \/ ~ DlqReliable /\ dlq' = dlq
    ELSE /\ st' = [st EXCEPT ![m] = IF @ = "out" THEN "due" ELSE @]
         /\ dlq' = dlq

\* apply fails in a way isRetryable knows, a deadlock or a lock timeout, or
\* parseMsg does not find the target table, which is not created yet.
FailedRetryable(s) ==
    /\ mode[s] = "each"
    /\ up /\ Mishap
    /\ cache' = cache \/ Learns(s)
    /\ NakOrPark(Head(held[s]), TransientMax)
    /\ Advance(s)
    /\ UNCHANGED <<pub, nd, tgt, landed, up, outages>>

\* The database is down before the sink has looked the table up: parseMsg
\* takes the error for a table that is not created yet.
FailedUnknownTable(s) ==
    /\ mode[s] = "each"
    /\ ~ up /\ s \notin cache
    /\ NakOrPark(Head(held[s]), TransientMax)
    /\ Advance(s)
    /\ UNCHANGED <<pub, nd, cache, tgt, landed, up, faults, outages>>

\* apply fails in any other way: a rejected row, or no connection.
Failed(s) ==
    /\ mode[s] = "each"
    /\ \/ ~ up /\ s \in cache /\ cache' = cache
       \/ up /\ Head(held[s]) \in Poison /\ Learns(s)
    /\ NakOrPark(Head(held[s]), MaxDeliver)
    /\ Advance(s)
    /\ UNCHANGED <<pub, nd, tgt, landed, up, faults, outages>>

-----------------------------------------------------------------------------
Loop(s) ==
    \/ Start(s) \/ Fetch(s)
    \/ BatchApplied(s) \/ BatchFailed(s)
    \/ Applied(s) \/ FailedUnknownTable(s) \/ Failed(s)

Next ==
    \/ Publish \/ TargetDown \/ TargetUp
    \/ \E s \in Sink :
          \/ Loop(s)
          \/ BatchCommitUnknown(s) \/ FailedRetryable(s)
          \/ Expire(s) \/ Crash(s)

\* The sinks keep running their loops and an outage ends.
Fairness == WF_vars(TargetUp) /\ \A s \in Sink : WF_vars(Loop(s))

Spec == Init /\ [][Next]_vars /\ Fairness

-----------------------------------------------------------------------------
Settled == {m \in Msg : st[m] \in {"acked", "termed"}}

\* No event is lost: an acknowledged one was committed to the target, and a
\* terminated one is in the dead-letter stream.
NoSilentLoss ==
    \A m \in Msg :
        /\ st[m] = "acked" => m \in landed
        /\ st[m] = "termed" => m \in dlq \union landed

\* As long as the target answers, only rows it rejects are parked in the
\* dead-letter stream, however often an event is redelivered.
OnlyBadRowsParked == outages = 0 => dlq \subseteq Poison

\* Once every event is settled each row shows the last image that landed,
\* whatever was redelivered, reordered or applied twice on the way.
LastImageWins ==
    Settled = Msg =>
        \A k \in Key :
            LET mine == {m \in landed : KeyOf[m] = k}
            IN  \A m \in mine : m <= tgt[k]

\* The backlog drains for good: every published event is settled in the end,
\* and one the target accepts has landed there, or is in the dead-letter stream
\* after an outage.  A poison row neither loops for ever nor blocks the others.
EveryEventSettles ==
    <>[](\A m \in 1 .. pub :
            /\ m \in Settled
            /\ m \in Poison \union landed \/ (outages > 0 /\ m \in dlq))

=============================================================================
