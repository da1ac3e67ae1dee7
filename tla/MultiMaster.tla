---------------------------- MODULE MultiMaster ----------------------------
(***************************************************************************)
(* Multi-master replication (apply-sink/main.go).  Every site is a member  *)
(* database prepared by mm-prep: native writes are stamped (version,       *)
(* origin) by a trigger, Debezium captures every change of the table onto  *)
(* the site's stream, and for every edge <<s, d>> an apply-sink consumes   *)
(* s's stream and writes to d: it drops what originated at d, applies      *)
(* upserts under last-write-wins and deletes unconditionally.  What a sink *)
(* writes to d is a change of d's table and is captured in its turn.       *)
(***************************************************************************)
EXTENDS Hlc, Sequences, SequencesExt

CONSTANTS
    Site,           \* member databases
    Key,            \* primary keys of the replicated table
    Edge,           \* <<s, d>>: an apply-sink from s's stream into d
    Engine,         \* the engine of each site
    Rank,           \* the collation order of the origin markers
    SerialDeletes,  \* TRUE: applications never let a delete race a write
    MaxClock,       \* wall clock readings are 1 .. MaxClock, in any order
    MaxWrites,      \* bound on native inserts and updates
    MaxDeletes,     \* bound on native deletes
    MaxRedeliver    \* bound on lost acknowledgements and Naks

ASSUME TopologyAssumption ==
    /\ Edge \subseteq {e \in Site \X Site : e[1] # e[2]}
    /\ Engine \in [Site -> {"postgres", "mysql"}]
    /\ Rank \in [Site -> Nat]
    /\ \A s, t \in Site : Rank[s] = Rank[t] => s = t

ASSUME BoundsAssumption ==
    /\ SerialDeletes \in BOOLEAN
    /\ MaxClock \in Nat /\ MaxWrites \in Nat
    /\ MaxDeletes \in Nat /\ MaxRedeliver \in Nat

VARIABLES
    hlc,        \* hlc[s]: the mm_hlc_state row of s
    tbl,        \* tbl[s]: the rows of the replicated table at s
    queue,      \* queue[<<s, d>>]: events of s's stream the sink has not acked
    writes,     \* native writes so far; also names the next one
    deletes,    \* native deletes so far
    redeliveries \* lost acks and Naks so far

vars == <<hlc, tbl, queue, writes, deletes, redeliveries>>

\* val is the set of native writes a row's contents were built from: a write
\* reads the row it overwrites.
Row == [key : Key, ver : Nat, org : Site, val : SUBSET Nat]
Event == [del : BOOLEAN, row : Row]

Upserted(r) == [del |-> FALSE, row |-> r]
Deleted(r) == [del |-> TRUE, row |-> r]

\* The row of key k at site s: a set of at most one row.
At(s, k) == {r \in tbl[s] : r.key = k}

Quiet == \A e \in Edge : queue[e] = <<>>

DeleteInFlight == \E e \in Edge : \E i \in DOMAIN queue[e] : queue[e][i].del

TypeOK ==
    /\ hlc \in [Site -> Clock]
    /\ tbl \in [Site -> SUBSET Row]
    /\ queue \in [Edge -> Seq(Event)]
    /\ writes \in Nat
    /\ deletes \in Nat
    /\ redeliveries \in Nat

Init ==
    /\ hlc = [s \in Site |-> ZeroClock]
    /\ tbl = [s \in Site |-> {}]
    /\ queue = [e \in Edge |-> <<>>]
    /\ writes = 0
    /\ deletes = 0
    /\ redeliveries = 0

\* Change data capture of s: its events go to every sink reading its stream.
Captured(q, s, evs) == [e \in Edge |-> IF e[1] = s THEN q[e] \o evs ELSE q[e]]

-----------------------------------------------------------------------------
(***************************************************************************)
(* Applications writing at a site, under the stamping trigger.             *)
(***************************************************************************)

\* The row a native write of key k leaves at s with the clock h.
Stamped(s, k, h) ==
    [key |-> k, ver |-> Version(h), org |-> s,
     val |-> {writes} \union (UNION {r.val : r \in At(s, k)})]

NativeWrite(s, k, n) ==
    /\ writes < MaxWrites
    /\ SerialDeletes => ~ DeleteInFlight
    /\ LET h == Tick(hlc[s], n)
           new == Stamped(s, k, h)
       IN  /\ hlc' = [hlc EXCEPT ![s] = h]
           /\ tbl' = [tbl EXCEPT ![s] = (@ \ At(s, k)) \union {new}]
           /\ queue' = Captured(queue, s, <<Upserted(new)>>)
    /\ writes' = writes + 1
    /\ UNCHANGED <<deletes, redeliveries>>

NativeDelete(s, r) ==
    /\ deletes < MaxDeletes
    /\ SerialDeletes => Quiet
    /\ r \in tbl[s]
    /\ tbl' = [tbl EXCEPT ![s] = @ \ {r}]
    /\ queue' = Captured(queue, s, <<Deleted(r)>>)
    /\ deletes' = deletes + 1
    /\ UNCHANGED <<hlc, writes, redeliveries>>

-----------------------------------------------------------------------------
(***************************************************************************)
(* The apply-sink of edge <<s, d>>.                                        *)
(***************************************************************************)

\* Loop prevention in parseMsg.  The event of a delete carries the before
\* image: the whole row on MySQL, only the primary key on Postgres.
Skipped(s, d, ev) ==
    /\ ev.row.org = d
    /\ ~ (ev.del /\ Engine[s] = "postgres")

\* Mutants of Newer: no tie-break, and a guard that lets an equal row through.
NewerNoTieBreak(new, old) == old.ver < new.ver
NewerOrSame(new, old) ==
    \/ old.ver < new.ver
    \/ old.ver = new.ver /\ Rank[old.org] <= Rank[new.org]

\* The last-write-wins guard of the upsert: new overwrites old.
Newer(new, old) ==
    \/ old.ver < new.ver
    \/ old.ver = new.ver /\ Rank[old.org] < Rank[new.org]

\* Mutant of Accepted: an upsert without its WHERE.
AcceptedAlways(d, r) == TRUE

\* Whether the upsert of r at d inserts it or overwrites the row of its key.
Accepted(d, r) == \A old \in At(d, r.key) : Newer(r, old)

\* The stamping trigger under the replication session flag.  Postgres runs it
\* for the proposed insert and again for an update; MySQL for the insert and,
\* on a duplicate key, for the row already there.
Observed(d, r, n) ==
    IF Engine[d] = "postgres"
    THEN LET once == ObservePg(hlc[d], r.ver, n)
         IN  IF At(d, r.key) # {} /\ Accepted(d, r)
             THEN ObservePg(once, r.ver, n) ELSE once
    ELSE ObserveMysql(hlc[d], r.ver)

\* execUpsert of r at d; rest is what the queues hold besides its capture.
Upsert(d, r, n, rest) ==
    /\ hlc' = [hlc EXCEPT ![d] = Observed(d, r, n)]
    /\ IF Accepted(d, r)
       THEN /\ tbl' = [tbl EXCEPT ![d] = (@ \ At(d, r.key)) \union {r}]
            /\ queue' = Captured(rest, d, <<Upserted(r)>>)
       ELSE /\ tbl' = tbl
            /\ queue' = rest

\* execDelete of key k at d, not guarded by any version.
Delete(d, k, rest) ==
    /\ IF At(d, k) # {}
       THEN \E old \in At(d, k) :
                /\ tbl' = [tbl EXCEPT ![d] = @ \ {old}]
                /\ queue' = Captured(rest, d, <<Deleted(old)>>)
       ELSE /\ tbl' = tbl
            /\ queue' = rest
    /\ hlc' = hlc

\* applyOne of ev at d.
Apply(s, d, ev, n, rest) ==
    IF Skipped(s, d, ev)
    THEN UNCHANGED <<hlc, tbl>> /\ queue' = rest
    ELSE IF ev.del THEN Delete(d, ev.row.key, rest)
                   ELSE Upsert(d, ev.row, n, rest)

\* The first event of the edge is applied and acknowledged.
Deliver(e, n) ==
    /\ queue[e] # <<>>
    /\ Apply(e[1], e[2], Head(queue[e]), n,
             [queue EXCEPT ![e] = Tail(@)])
    /\ UNCHANGED <<writes, deletes, redeliveries>>

\* The first event of the edge goes back among the later ones, at place i.
Requeued(e, i) ==
    [queue EXCEPT ![e] = InsertAt(Tail(@), i, Head(@))]

\* It was applied but its acknowledgement was lost (a crash, an expired
\* AckWait): JetStream delivers it again, after events that came later.
AckLost(e, n, i) ==
    /\ queue[e] # <<>>
    /\ redeliveries < MaxRedeliver
    /\ i \in 1 .. Len(queue[e])
    /\ Apply(e[1], e[2], Head(queue[e]), n, Requeued(e, i))
    /\ redeliveries' = redeliveries + 1
    /\ UNCHANGED <<writes, deletes>>

\* The apply failed and the event was Nak'ed for a later delivery.
Nak(e, i) ==
    /\ queue[e] # <<>>
    /\ redeliveries < MaxRedeliver
    /\ i \in 2 .. Len(queue[e])
    /\ queue' = Requeued(e, i)
    /\ redeliveries' = redeliveries + 1
    /\ UNCHANGED <<hlc, tbl, writes, deletes>>

-----------------------------------------------------------------------------
Reading == 1 .. MaxClock

Next ==
    \/ \E s \in Site, k \in Key, n \in Reading : NativeWrite(s, k, n)
    \/ \E s \in Site : \E r \in tbl[s] : NativeDelete(s, r)
    \/ \E e \in Edge, n \in Reading : Deliver(e, n)
    \/ \E e \in Edge, n \in Reading : \E i \in 1 .. Len(queue[e]) : AckLost(e, n, i)
    \/ \E e \in Edge : \E i \in 1 .. Len(queue[e]) : Nak(e, i)

Spec == Init /\ [][Next]_vars

\* Every sink keeps fetching and acknowledging (the for loop of runStream).
Fairness == \A e \in Edge : WF_vars(\E n \in Reading : Deliver(e, n))

FairSpec == Spec /\ Fairness

-----------------------------------------------------------------------------
(***************************************************************************)
(* Properties.                                                             *)
(***************************************************************************)

Stored == UNION {tbl[s] : s \in Site}
InFlight == UNION {{queue[e][i].row : i \in DOMAIN queue[e]} : e \in Edge}

\* Every copy of a row in the system: stored at a site or in a stream.
Copies == Stored \union InFlight

\* The logical counter has not run into the physical part of the version.
LcFits == \A s \in Site : hlc[s].lc < W

\* Two copies with the same version and origin are copies of the same write:
\* last-write-wins never meets two different rows it cannot order.
UniqueStamps ==
    \A c1, c2 \in Copies : c1.ver = c2.ver /\ c1.org = c2.org => c1 = c2

\* The clock condition: contents that were built from other contents of the
\* same key carry the larger version, so the causally later write wins
\* whatever the wall clocks read.
ClockCondition ==
    \A c1, c2 \in Copies :
        c1.key = c2.key /\ c1.val \subseteq c2.val /\ c1.val # c2.val
            => c1.ver < c2.ver

\* When every event has been applied, all sites hold the same rows.
ConvergedWhenQuiet ==
    Quiet => \A s, t \in Site : tbl[s] = tbl[t]

\* A site's clock never stamps a version below one it stamped or saw before.
ClockNeverFallsBack ==
    [][\A s \in Site : Version(hlc'[s]) >= Version(hlc[s])]_vars

\* A row is only ever replaced by one that wins against it: neither a late,
\* repeated or reordered delivery nor a native write takes it back.
RowsOnlyAdvance ==
    [][\A s \in Site : \A old \in tbl[s], new \in tbl'[s] :
          old.key = new.key /\ old # new => Newer(new, old)]_vars

\* Replication goes quiet once the applications do: no change is passed
\* around among the sites for ever.
EchoesDie == <>[]Quiet

=============================================================================
