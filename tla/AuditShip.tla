----------------------------- MODULE AuditShip -----------------------------
(***************************************************************************)
(* audit-offsite ship (console-api/cmd/audit-offsite): runs that read the  *)
(* audit log of the API server, which grows, is rotated and loses its      *)
(* oldest backups meanwhile, and append it to a chain of locked segments   *)
(* in the primary bucket and in the off-site one.  Records are numbered in *)
(* the order they are written; file f holds those after starts[f].  Files  *)
(* keep their number here, on disk they are known by their inode only.     *)
(***************************************************************************)
EXTENDS Integers, Sequences, FiniteSets

CONSTANTS
    Run,            \* the runs that may be there at one time
    Inode,          \* the inodes of the file system
    FastRotation,   \* the log may be rotated twice, or lose backups, while a run
                    \* lists it
    Undated,        \* the records whose timestamp cannot be parsed
    MaxBackups,     \* --audit-log-maxbackup
    SegMax,         \* SEGMENT_MAX_BYTES, in records
    MaxRecords,     \* bound on the records written
    MaxFiles,       \* bound on rotations
    MaxFaults       \* bound on failed PUTs and killed runs

ASSUME AuditShipAssumption ==
    /\ FastRotation \in BOOLEAN
    /\ MaxBackups \in Nat /\ SegMax \in Nat \ {0} /\ MaxRecords \in Nat
    /\ MaxFiles \in Nat \ {0} /\ MaxFaults \in Nat
    /\ Inode # {}

VARIABLES
    n, starts, inode, oldest,   \* the log: the records written, the first
                                \* record and the inode of each file, and the
                                \* oldest file still there
    primary,        \* the versions of each segment of the primary bucket
    offsite,        \* the segments of the off-site bucket
    pc, cur, prev, plan,        \* each run: where it is, the live log it opened,
                                \* its chain head, and the files it has to read
    open,           \* the files it holds open
    note,           \* the records after which it is to report missing ones
    noted,          \* those after which a run did
    unsaid,         \* those a run shipped past and was killed before it did
    mistaken,       \* the records after which another file passed for the live log
    faults

log == <<n, starts, inode, oldest>>
reports == <<note, noted, unsaid, mistaken>>
vars == <<log, primary, offsite, pc, cur, prev, plan, open, reports, faults>>

live == Len(starts)
Ends(f) == IF f = live THEN n ELSE starts[f + 1]
Size(f) == Ends(f) - starts[f]
NoSegment == [seq |-> 0, lo |-> 0, hi |-> 0, prev |-> <<>>, off |-> 0, ino |-> 0]

TypeOK ==
    /\ n \in 0 .. MaxRecords /\ live \in 1 .. MaxFiles
    /\ \A f \in 1 .. live : Size(f) >= 0 /\ inode[f] \in Inode
    /\ oldest \in 1 .. live
    /\ \A s \in 1 .. Len(primary) : primary[s] # <<>>
    /\ \A s \in offsite : s.seq \in 1 .. Len(primary)
    /\ \A r \in Run :
        /\ pc[r] \in {"idle", "plan", "read", "copy"} /\ cur[r] \in 0 .. live
        /\ prev[r].seq \in 0 .. Len(primary)
        /\ \A k \in 1 .. Len(plan[r]) :
            plan[r][k].file \in open[r] /\ plan[r][k].off \in 0 .. Size(plan[r][k].file)
        /\ open[r] \subseteq 1 .. live
        /\ pc[r] = "idle" => note[r] = {}
    /\ faults \in 0 .. MaxFaults

Init ==
    /\ n = 0 /\ starts = <<0>> /\ inode \in {<<x>> : x \in Inode} /\ oldest = 1
    /\ primary = <<>> /\ offsite = {}
    /\ pc = [r \in Run |-> "idle"] /\ cur = [r \in Run |-> 0]
    /\ prev = [r \in Run |-> NoSegment] /\ plan = [r \in Run |-> <<>>]
    /\ open = [r \in Run |-> {}]
    /\ note = [r \in Run |-> {}] /\ noted = {} /\ unsaid = {} /\ mistaken = {} /\ faults = 0

Fault == faults < MaxFaults /\ faults' = faults + 1

-----------------------------------------------------------------------------
(***************************************************************************)
(* The API server writes the log and rotates it.                           *)
(***************************************************************************)

AppendRecord ==
    /\ n < MaxRecords
    /\ n' = n + 1
    /\ UNCHANGED <<starts, inode, oldest, primary, offsite, pc, cur, prev, plan, open, reports,
                   faults>>

\* The inodes of the files that are there or held open.
InUse == {inode[f] : f \in (oldest .. live) \union UNION {open[r] : r \in Run}}

\* The full log is renamed and a fresh one opened, on any inode that is free.
Rotate ==
    /\ live < MaxFiles /\ Size(live) > 0
    /\ FastRotation \/ \A r \in Run : pc[r] = "plan" => cur[r] = live
    /\ \E x \in Inode \ InUse : inode' = Append(inode, x)
    /\ starts' = Append(starts, n)
    /\ UNCHANGED <<n, oldest, primary, offsite, pc, cur, prev, plan, open, reports, faults>>

\* The rotation's own cleanup, some time later.
Prune ==
    /\ live - oldest > MaxBackups
    /\ oldest' = oldest + 1
    /\ UNCHANGED <<n, starts, inode, primary, offsite, pc, cur, prev, plan, open, reports,
                   faults>>

-----------------------------------------------------------------------------
(***************************************************************************)
(* A run.                                                                  *)
(***************************************************************************)

\* The locked original of a segment.
Original(s) == primary[s][1]

\* Mutant of BucketHead: the run resumes from the last segment that was copied.
BucketHeadCopied ==
    IF offsite = {} THEN NoSegment
    ELSE CHOOSE s \in offsite : \A t \in offsite : t.seq <= s.seq

\* The highest segment there is.
BucketHead == IF primary = <<>> THEN NoSegment ELSE Original(Len(primary))

\* Mutant of Start: a run gives up when the log was rotated.
StartSameFile(r) ==
    /\ pc[r] = "idle"
    /\ IF BucketHead.ino \in {0, inode[live]}
       THEN /\ prev' = [prev EXCEPT ![r] = BucketHead]
            /\ cur' = [cur EXCEPT ![r] = live]
            /\ open' = [open EXCEPT ![r] = {live}]
            /\ pc' = [pc EXCEPT ![r] = "plan"]
       ELSE UNCHANGED <<prev, cur, open, pc>>
    /\ UNCHANGED <<log, primary, offsite, plan, reports, faults>>

\* The chain head is read, and gatherLogs opens the live log.
Start(r) ==
    /\ pc[r] = "idle"
    /\ prev' = [prev EXCEPT ![r] = BucketHead]
    /\ cur' = [cur EXCEPT ![r] = live]
    /\ open' = [open EXCEPT ![r] = {live}]
    /\ pc' = [pc EXCEPT ![r] = "plan"]
    /\ UNCHANGED <<log, primary, offsite, plan, reports, faults>>

\* Mutant of EndsAt: the inode is enough.
EndsAtAny(f, head) == TRUE

\* The file ends the head's last record at the head's offset.
EndsAt(f, head) == starts[f] + head.off = head.hi

From(f, off) == [file |-> f, off |-> off]

\* Mutant of Resumed: a file is read from its beginning again.
ResumedAtStart(f, head) == From(f, 0)

\* The chain's file goes on where the head ended.
Resumed(f, head) == From(f, head.off)

Whole(files) == [k \in 1 .. Len(files) |-> From(files[k], 0)]

\* The files of S, the oldest first.
Files(S) ==
    [k \in 1 .. Cardinality(S) |-> CHOOSE f \in S : Cardinality({g \in S : g <= f}) = k]

\* What a run reads, and whether it reports that records were missed.
planSources(c, rotated, head) ==
    LET same == {f \in rotated : /\ inode[f] = head.ino /\ Size(f) >= head.off
                                 /\ EndsAt(f, head)}
        first == CHOOSE f \in same : \A g \in same : f <= g
        after == {f \in rotated : head.hi \notin Undated /\ Ends(f) >= head.hi}
    IN  IF head.seq = 0
        THEN [plan |-> <<From(c, 0)>>, note |-> FALSE]
        ELSE IF head.ino \in {0, inode[c]}
        THEN IF Size(c) < head.off
             THEN [plan |-> <<From(c, 0)>>, note |-> TRUE]
             ELSE [plan |-> <<Resumed(c, head)>>, note |-> FALSE]
        ELSE IF same # {}
        THEN [plan |-> <<Resumed(first, head)>>
                        \o Whole(Files({f \in rotated : f > first})) \o <<From(c, 0)>>,
              note |-> FALSE]
        ELSE [plan |-> Whole(Files(after)) \o <<From(c, 0)>>, note |-> TRUE]

\* The backups are listed, opened one by one and planned.  Meanwhile the cleanup
\* may go on, up to file o, and what it removes before it is opened is passed over.
\* The live log, if it was rotated since it was opened, is not read twice, and the
\* one that replaced it not at all.
Plan(r) ==
    /\ pc[r] = "plan"
    /\ \E o \in oldest .. live, opened \in SUBSET (oldest .. live - 1) :
        LET rotated == opened \ {cur[r]}
            p == planSources(cur[r], rotated, prev[r])
        IN  /\ o = oldest \/ (FastRotation /\ live - o >= MaxBackups)
            /\ o .. live - 1 \subseteq opened
            /\ oldest' = o
            /\ plan' = [plan EXCEPT ![r] = p.plan]
            /\ open' = [open EXCEPT ![r] = rotated \union {cur[r]}]
            /\ note' = [note EXCEPT ![r] = IF p.note THEN {prev[r].hi} ELSE {}]
    /\ mistaken' = IF /\ prev[r].seq > 0 /\ prev[r].ino \in {0, inode[cur[r]]}
                      /\ starts[cur[r]] >= prev[r].hi
                   THEN mistaken \union {prev[r].hi} ELSE mistaken
    /\ pc' = [pc EXCEPT ![r] = "read"]
    /\ UNCHANGED <<n, starts, inode, primary, offsite, cur, prev, noted, unsaid, faults>>

\* The run is over: it closes its files.
Over(r) ==
    /\ pc' = [pc EXCEPT ![r] = "idle"]
    /\ cur' = [cur EXCEPT ![r] = 0]
    /\ prev' = [prev EXCEPT ![r] = NoSegment]
    /\ plan' = [plan EXCEPT ![r] = <<>>]
    /\ open' = [open EXCEPT ![r] = {}]
    /\ note' = [note EXCEPT ![r] = {}]

\* ship prints the note once shipRun has returned, with or without an error.
Say(r) == noted' = noted \union note[r]

\* The bytes a segment may carry that follow off in the file.
Complete(f, off) == IF Size(f) - off < SegMax THEN Size(f) - off ELSE SegMax

\* No complete line follows: the next file, or the end.
FileDone(r) ==
    /\ pc[r] = "read" /\ plan[r] # <<>>
    /\ Complete(plan[r][1].file, plan[r][1].off) = 0
    /\ plan' = [plan EXCEPT ![r] = Tail(@)]
    /\ UNCHANGED <<log, primary, offsite, pc, cur, prev, open, reports, faults>>

RunDone(r) ==
    /\ pc[r] = "read" /\ plan[r] = <<>>
    /\ Over(r) /\ Say(r)
    /\ UNCHANGED <<log, primary, offsite, unsaid, mistaken, faults>>

Hash(s) == IF s.seq = 0 THEN <<>> ELSE <<s.prev, s.lo, s.hi>>

BuildSegment(p, f, off) ==
    LET lo == starts[f] + off
        hi == lo + Complete(f, off)
    IN  [seq |-> p.seq + 1, prev |-> Hash(p), lo |-> lo, hi |-> hi,
         off |-> hi - starts[f], ino |-> inode[f]]

Put(s) ==
    primary' = IF s.seq > Len(primary) THEN Append(primary, <<s>>)
               ELSE [primary EXCEPT ![s.seq] = Append(@, s)]

\* The segment just written is the head for the next one.
Advanced(r, s) == [prev EXCEPT ![r] = s]

\* One segment is read and written to the primary bucket.
ShipSegment(r) ==
    /\ pc[r] = "read" /\ plan[r] # <<>>
    /\ LET f == plan[r][1].file
           off == plan[r][1].off
           s == BuildSegment(prev[r], f, off)
       IN  /\ Complete(f, off) > 0
           /\ Put(s)
           /\ prev' = Advanced(r, s)
           /\ plan' = [plan EXCEPT ![r][1].off = s.off]
    /\ pc' = [pc EXCEPT ![r] = "copy"]
    /\ UNCHANGED <<log, offsite, cur, open, reports, faults>>

\* The same segment goes to the off-site bucket.
CopySegment(r) ==
    /\ pc[r] = "copy"
    /\ offsite' = offsite \union {prev[r]}
    /\ pc' = [pc EXCEPT ![r] = "read"]
    /\ UNCHANGED <<log, primary, cur, prev, plan, open, reports, faults>>

\* Opening, reading or a PUT fails: shipRun returns the error.  A PUT whose
\* answer was lost is a segment written, and then this.
RunFails(r) ==
    /\ pc[r] # "idle"
    /\ Fault
    /\ Over(r) /\ Say(r)
    /\ UNCHANGED <<log, primary, offsite, unsaid, mistaken>>

\* The run is killed wherever it is, and its note with it: nobody will report
\* the records that are missing before what it has shipped.
Killed(r) ==
    /\ pc[r] # "idle"
    /\ Fault
    /\ Over(r)
    /\ unsaid' = unsaid \union (note[r] \ {prev[r].hi})
    /\ UNCHANGED <<log, primary, offsite, noted, mistaken>>

-----------------------------------------------------------------------------
Works(r) ==
    Start(r) \/ Plan(r) \/ FileDone(r) \/ RunDone(r) \/ ShipSegment(r) \/ CopySegment(r)

Next ==
    \/ AppendRecord \/ Rotate \/ Prune
    \/ \E r \in Run : Works(r) \/ RunFails(r) \/ Killed(r)

\* The CronJob starts run after run.
Spec == Init /\ [][Next]_vars /\ \A r \in Run : WF_vars(Works(r))

-----------------------------------------------------------------------------
\* Wherever runs are cut off, each segment has one content and links to the one
\* before it: resuming from the bucket head never forks the chain.
ChainLinked ==
    \A s \in 1 .. Len(primary) :
        /\ \A v \in 1 .. Len(primary[s]) : primary[s][v] = Original(s)
        /\ Original(s).seq = s
        /\ Original(s).prev = IF s = 1 THEN <<>> ELSE Hash(Original(s - 1))

\* The off-site bucket never contradicts the primary one: whatever was cut off
\* between the two PUTs of a segment, what is off-site is the locked original.
OffsiteAgrees == \A s \in offsite : s = Original(s.seq)

\* A record is shipped at most once, and in the order of the log.
InOrder ==
    \A s \in 2 .. Len(primary) : Original(s).lo >= Original(s - 1).hi

\* What is known of the records after hi: they were reported missing, or the run
\* that skipped them is still to say so; or it was killed before it could, or the
\* live log had passed for the file the chain ended in.
Told(hi) == hi \in noted \/ \E r \in Run : hi \in note[r]
Known(hi) == Told(hi) \/ hi \in unsaid \union mistaken

\* Rotation, late cleanup and reused inodes never make a run skip records in
\* silence: where two segments do not meet, the run that skipped records reports
\* it when it ends.  The exceptions are a run killed between the first segment
\* after the gap and its end, which takes its note with it, and a fresh live log
\* on the inode the chain last read, which is continued at the old offset.
NoSilentGap ==
    \A s \in 2 .. Len(primary) :
        Original(s).lo > Original(s - 1).hi => Known(Original(s - 1).hi)

\* Once the log is at rest the chain reaches its end, whatever failed before.
\* Left out are a log rotated before there was a chain, backups passed over for a
\* live log that was mistaken for the chain's file, and backups no run reads, but
\* reports, since the chain ends in a record without a timestamp.
ShipsAll ==
    <>[]( \/ BucketHead.hi \in {n} \union mistaken \union (Undated \intersect noted)
          \/ primary = <<>> /\ starts[live] = n )

\* Every segment of the chain gets to the off-site bucket.
OffsiteCatchesUp ==
    \A s \in 1 .. MaxRecords : (s <= Len(primary)) ~> (\E c \in offsite : c.seq = s)
=============================================================================
