------------------------- MODULE MultiMasterProofs -------------------------
(***************************************************************************)
(* Multi-master replication, for any members, topology, clock readings and *)
(* redeliveries: clocks never fall back, stamps are unique, a causally     *)
(* later write wins, rows never regress, and members that serialise their  *)
(* deletes hold the same rows whenever the streams are drained.            *)
(***************************************************************************)
EXTENDS MultiMaster, TLAPS

-----------------------------------------------------------------------------
(***************************************************************************)
(* What the clock operators guarantee, for every width W of the logical    *)
(* counter, as long as the counter fits in it.                             *)
(***************************************************************************)

\* One more unit of physical time outweighs a whole logical counter.
LEMMA PhysicalPartDominates ==
    ASSUME NEW a \in Nat, NEW b \in Nat, a < b
    PROVE  a * W + W <= b * W
<1>1. PICK c \in Nat : b = a + 1 + c
  <2>1. b - a - 1 \in Nat
    OBVIOUS
  <2> QED BY <2>1
<1>2. b * W = a * W + W + c * W
  BY <1>1, WAssumption
<1>3. c * W \in Nat /\ a * W \in Nat /\ b * W \in Nat
  BY WAssumption
<1> QED BY <1>2, <1>3, WAssumption

\* A version splits into the parts mm_hlc_observe reads from it.
LEMMA VersionSplits ==
    ASSUME NEW v \in Nat
    PROVE  /\ v \div W \in Nat
           /\ v % W \in 0 .. (W - 1)
           /\ v = (v \div W) * W + (v % W)
BY WAssumption

\* Versions of clocks are naturals.
LEMMA VersionType ==
    ASSUME NEW h \in Clock
    PROVE  Version(h) \in Nat
BY WAssumption DEF Clock, Version

\* A clock that is ahead in pt, or level in pt and ahead in lc, has the larger
\* version, whatever the counter of the clock that is ahead.
LEMMA VersionOrder ==
    ASSUME NEW g \in Clock, NEW h \in Clock,
           \/ g.pt < h.pt /\ g.lc < W
           \/ g.pt = h.pt /\ g.lc < h.lc
    PROVE  Version(g) < Version(h)
<1>1. g.pt \in Nat /\ g.lc \in Nat /\ h.pt \in Nat /\ h.lc \in Nat
  BY DEF Clock
<1>2. g.pt * W \in Nat /\ h.pt * W \in Nat
  BY <1>1, WAssumption
<1>3. CASE g.pt < h.pt /\ g.lc < W
  <2>1. g.pt * W + W <= h.pt * W
    BY <1>1, <1>3, PhysicalPartDominates
  <2> QED BY <1>1, <1>2, <1>3, <2>1, WAssumption DEF Version
<1>4. CASE g.pt = h.pt /\ g.lc < h.lc
  BY <1>1, <1>2, <1>4 DEF Version
<1> QED BY <1>3, <1>4

\* The operators return clocks.
LEMMA ClockTypes ==
    ASSUME NEW h \in Clock, NEW rv \in Nat, NEW n \in Nat
    PROVE  /\ Tick(h, n) \in Clock
           /\ ObservePg(h, rv, n) \in Clock
           /\ ObserveMysql(h, rv) \in Clock
<1>1. h.pt \in Nat /\ h.lc \in Nat /\ rv \div W \in Nat /\ rv % W \in Nat
  BY VersionSplits, WAssumption DEF Clock
<1>2. Tick(h, n) \in Clock
  BY <1>1 DEF Tick, Clock
<1>3. ObservePg(h, rv, n) \in Clock
  BY <1>1 DEF ObservePg, Greatest, Clock
<1>4. ObserveMysql(h, rv) \in Clock
  BY <1>1 DEF ObserveMysql, Greatest, Clock
<1> QED BY <1>2, <1>3, <1>4

\* mm_hlc_tick stamps a version above every earlier one of its clock.
LEMMA TickAdvances ==
    ASSUME NEW h \in Clock, NEW n \in Nat, h.lc < W
    PROVE  Version(h) < Version(Tick(h, n))
<1>1. h.pt \in Nat /\ h.lc \in Nat
  BY DEF Clock
<1>2. Tick(h, n) \in Clock
  BY ClockTypes
<1>3. \/ h.pt < Tick(h, n).pt
      \/ h.pt = Tick(h, n).pt /\ h.lc < Tick(h, n).lc
  BY <1>1 DEF Tick
<1> QED BY <1>2, <1>3, VersionOrder

\* mm_hlc_observe leaves the clock above where it was and above the version it
\* observed: the next native stamp beats both.
LEMMA ObserveAdvances ==
    ASSUME NEW h \in Clock, NEW rv \in Nat, NEW n \in Nat, h.lc < W
    PROVE  /\ Version(h) < Version(ObservePg(h, rv, n))
           /\ rv < Version(ObservePg(h, rv, n))
<1> DEFINE o == ObservePg(h, rv, n)
           g == [pt |-> rv \div W, lc |-> rv % W]
<1>1. h.pt \in Nat /\ h.lc \in Nat
  BY DEF Clock
<1>2. g \in Clock /\ g.lc < W /\ Version(g) = rv
  BY VersionSplits, WAssumption DEF Clock, Version
<1>3. o \in Clock
  BY ClockTypes
<1>4. \/ h.pt < o.pt
      \/ h.pt = o.pt /\ h.lc < o.lc
  BY <1>1, <1>2 DEF ObservePg, Greatest, Clock
<1>5. \/ g.pt < o.pt
      \/ g.pt = o.pt /\ g.lc < o.lc
  BY <1>1, <1>2 DEF ObservePg, Greatest, Clock
<1>6. Version(h) < Version(o)
  BY <1>3, <1>4, VersionOrder
<1>7. Version(g) < Version(o)
  BY <1>2, <1>3, <1>5, VersionOrder
<1> QED BY <1>2, <1>6, <1>7

\* Observing the same version a second time in one statement moves the clock
\* on once more, even when the first observation filled the counter.
LEMMA ObserveTwiceAdvances ==
    ASSUME NEW h \in Clock, NEW rv \in Nat, NEW n \in Nat
    PROVE  LET o == ObservePg(h, rv, n)
           IN  Version(o) < Version(ObservePg(o, rv, n))
<1> DEFINE o == ObservePg(h, rv, n)
           p == ObservePg(o, rv, n)
<1>1. h.pt \in Nat /\ h.lc \in Nat /\ rv \div W \in Nat /\ rv % W \in Nat
  BY VersionSplits, WAssumption DEF Clock
<1>2. o \in Clock
  BY ClockTypes
<1>3. o.pt >= rv \div W /\ o.pt >= n /\ o.pt \in Nat /\ o.lc \in Nat
  BY <1>1 DEF ObservePg, Greatest, Clock
<1> HIDE DEF o
<1>4. p \in Clock /\ p.pt = o.pt /\ o.lc < p.lc
  BY <1>1, <1>2, <1>3 DEF ObservePg, Greatest, Clock
<1>5. Version(o) < Version(p)
  BY <1>2, <1>4, VersionOrder
<1> QED BY <1>5 DEF o

\* The MySQL trigger never lowers the clock when it observes a row.
LEMMA ObserveMysqlKeeps ==
    ASSUME NEW h \in Clock, NEW rv \in Nat, h.lc < W
    PROVE  Version(h) <= Version(ObserveMysql(h, rv))
<1> DEFINE o == ObserveMysql(h, rv)
<1>1. h.pt \in Nat /\ h.lc \in Nat /\ rv \div W \in Nat
  BY VersionSplits DEF Clock
<1>2. o = [pt |-> Greatest(h.pt, rv \div W), lc |-> h.lc]
  BY DEF ObserveMysql, Clock
<1>3. o \in Clock /\ (h.pt < o.pt \/ o = h)
  BY <1>1, <1>2 DEF Greatest, Clock
<1>4. Version(o) \in Nat /\ Version(h) \in Nat
  BY <1>3, VersionType
<1>5. CASE h.pt < o.pt
  BY <1>3, <1>4, <1>5, VersionOrder
<1>6. CASE o = h
  BY <1>4, <1>6
<1> QED BY <1>3, <1>5, <1>6

-----------------------------------------------------------------------------
(***************************************************************************)
(* Sequences of events.                                                    *)
(***************************************************************************)

\* The events a sequence holds.
Elems(q) == {q[i] : i \in DOMAIN q}

\* Appending adds one event at most.
LEMMA AppendElems ==
    ASSUME NEW S, NEW q \in Seq(S), NEW x \in S
    PROVE  q \o <<x>> \in Seq(S) /\ Elems(q \o <<x>>) \subseteq Elems(q) \union {x}
BY DEF Elems

\* The tail of a sequence holds events of it.
LEMMA TailElems ==
    ASSUME NEW S, NEW q \in Seq(S), q # <<>>
    PROVE  /\ Tail(q) \in Seq(S) /\ Elems(Tail(q)) \subseteq Elems(q)
           /\ Head(q) \in Elems(q) /\ Head(q) \in S
BY DEF Elems

\* A concatenation holds the events of its parts.
LEMMA ConcatElems ==
    ASSUME NEW S, NEW p \in Seq(S), NEW q \in Seq(S)
    PROVE  p \o q \in Seq(S) /\ Elems(p \o q) \subseteq Elems(p) \union Elems(q)
<1>1. p \o q \in Seq(S) /\ Len(p \o q) = Len(p) + Len(q)
  OBVIOUS
<1>2. ASSUME NEW i \in 1 .. Len(p) + Len(q)
      PROVE  (p \o q)[i] \in Elems(p) \union Elems(q)
  <2>1. CASE i <= Len(p)
    BY <2>1 DEF Elems
  <2>2. CASE i > Len(p)
    <3>1. (p \o q)[i] = q[i - Len(p)] /\ i - Len(p) \in 1 .. Len(q)
      BY <2>2
    <3> QED BY <3>1 DEF Elems
  <2> QED BY <2>1, <2>2
<1> QED BY <1>1, <1>2 DEF Elems

\* A part of a sequence holds events of it.
LEMMA SubSeqElems ==
    ASSUME NEW S, NEW q \in Seq(S), NEW m \in Nat \ {0}, NEW n \in 0 .. Len(q)
    PROVE  SubSeq(q, m, n) \in Seq(S) /\ Elems(SubSeq(q, m, n)) \subseteq Elems(q)
BY DEF Elems

\* Inserting adds one event at most.
LEMMA InsertElems ==
    ASSUME NEW S, NEW q \in Seq(S), NEW x \in S, NEW i \in 1 .. Len(q) + 1
    PROVE  /\ InsertAt(q, i, x) \in Seq(S)
           /\ Elems(InsertAt(q, i, x)) \subseteq Elems(q) \union {x}
<1> DEFINE l == SubSeq(q, 1, i - 1)
           r == SubSeq(q, i, Len(q))
<1>1. l \in Seq(S) /\ Elems(l) \subseteq Elems(q)
  BY SubSeqElems
<1>2. r \in Seq(S) /\ Elems(r) \subseteq Elems(q)
  BY SubSeqElems
<1> HIDE DEF l, r
<1>3. l \o <<x>> \in Seq(S) /\ Elems(l \o <<x>>) \subseteq Elems(l) \union {x}
  BY <1>1, AppendElems
<1>4. /\ (l \o <<x>>) \o r \in Seq(S)
      /\ Elems((l \o <<x>>) \o r) \subseteq Elems(l \o <<x>>) \union Elems(r)
  BY <1>2, <1>3, ConcatElems
<1>5. InsertAt(q, i, x) = (l \o <<x>>) \o r
  BY DEF InsertAt, l, r
<1> QED BY <1>1, <1>2, <1>3, <1>4, <1>5

-----------------------------------------------------------------------------
(***************************************************************************)
(* Type correctness, and what a step can add to the copies in the system.  *)
(***************************************************************************)

\* An edge leads from one site to another.
LEMMA SiteOfEdge ==
    ASSUME NEW e \in Edge
    PROVE  e[1] \in Site /\ e[2] \in Site /\ e[1] # e[2]
BY TopologyAssumption

\* Wall clock readings are numbers.
LEMMA ReadingIsNat == \A n \in Reading : n \in Nat
BY BoundsAssumption DEF Reading

\* Capture adds the captured event to the queues and nothing else.
LEMMA CapturedAdds ==
    ASSUME NEW q \in [Edge -> Seq(Event)], NEW s \in Site, NEW ev \in Event
    PROVE  /\ Captured(q, s, <<ev>>) \in [Edge -> Seq(Event)]
           /\ \A e \in Edge :
                Elems(Captured(q, s, <<ev>>)[e]) \subseteq Elems(q[e]) \union {ev}
<1>1. ASSUME NEW e \in Edge
      PROVE  /\ Captured(q, s, <<ev>>)[e] \in Seq(Event)
             /\ Elems(Captured(q, s, <<ev>>)[e]) \subseteq Elems(q[e]) \union {ev}
  <2>1. q[e] \in Seq(Event)
    OBVIOUS
  <2>2. /\ q[e] \o <<ev>> \in Seq(Event)
        /\ Elems(q[e] \o <<ev>>) \subseteq Elems(q[e]) \union {ev}
    BY <2>1, AppendElems
  <2>3. Captured(q, s, <<ev>>)[e] = IF e[1] = s THEN q[e] \o <<ev>> ELSE q[e]
    BY DEF Captured
  <2> QED BY <2>1, <2>2, <2>3
<1>2. Captured(q, s, <<ev>>) = [e \in Edge |-> Captured(q, s, <<ev>>)[e]]
  BY DEF Captured
<1> QED BY <1>1, <1>2

\* A queue function that holds only events already in flight.
Within(q) ==
    /\ q \in [Edge -> Seq(Event)]
    /\ \A e \in Edge : Elems(q[e]) \subseteq Elems(queue[e])

\* The event at hand is in flight, and so are those behind it.
LEMMA HeadInFlight ==
    ASSUME TypeOK, NEW e \in Edge, queue[e] # <<>>
    PROVE  /\ Head(queue[e]) \in Event
           /\ Head(queue[e]) \in Elems(queue[e])
           /\ Within([queue EXCEPT ![e] = Tail(@)])
<1>1. queue[e] \in Seq(Event)
  BY DEF TypeOK
<1>2. /\ Tail(queue[e]) \in Seq(Event)
      /\ Elems(Tail(queue[e])) \subseteq Elems(queue[e])
      /\ Head(queue[e]) \in Elems(queue[e])
      /\ Head(queue[e]) \in Event
  BY <1>1, TailElems
<1> QED BY <1>2 DEF TypeOK, Within

\* Requeueing brings nothing new in flight.
LEMMA RequeuedWithin ==
    ASSUME TypeOK, NEW e \in Edge, queue[e] # <<>>, NEW i \in 1 .. Len(queue[e])
    PROVE  Within(Requeued(e, i))
<1>1. queue[e] \in Seq(Event)
  BY DEF TypeOK
<1>2. /\ Tail(queue[e]) \in Seq(Event)
      /\ Elems(Tail(queue[e])) \subseteq Elems(queue[e])
      /\ Head(queue[e]) \in Elems(queue[e])
      /\ Head(queue[e]) \in Event
  BY <1>1, TailElems
<1>3. i \in 1 .. Len(Tail(queue[e])) + 1
  BY <1>1
<1>4. /\ InsertAt(Tail(queue[e]), i, Head(queue[e])) \in Seq(Event)
      /\ Elems(InsertAt(Tail(queue[e]), i, Head(queue[e])))
            \subseteq Elems(Tail(queue[e])) \union {Head(queue[e])}
  BY <1>2, <1>3, InsertElems
<1> QED BY <1>2, <1>4 DEF TypeOK, Within, Requeued

\* What a sink's apply of an in-flight event may do to tables and queues.
ApplyOutcome(d, ev) ==
    /\ tbl' \in [Site -> SUBSET Row]
    /\ \A s \in Site \ {d} : tbl'[s] = tbl[s]
    /\ tbl'[d] \subseteq tbl[d] \union {ev.row}
    /\ queue' \in [Edge -> Seq(Event)]
    /\ \A e \in Edge : \A x \in Elems(queue'[e]) :
          x \in Elems(queue[e]) \/ x.row = ev.row \/ x.row \in tbl[d]
    /\ hlc' \in [Site -> Clock]
    /\ \A s \in Site \ {d} : hlc'[s] = hlc[s]

\* Observing leaves a clock.
LEMMA ObservedType ==
    ASSUME TypeOK, NEW d \in Site, NEW r \in Row, NEW n \in Nat
    PROVE  Observed(d, r, n) \in Clock
<1>1. hlc[d] \in Clock /\ r.ver \in Nat
  BY DEF TypeOK, Row
<1>2. ObservePg(hlc[d], r.ver, n) \in Clock
  BY <1>1, ClockTypes
<1>3. ObservePg(ObservePg(hlc[d], r.ver, n), r.ver, n) \in Clock
  BY <1>1, <1>2, ClockTypes
<1>4. ObserveMysql(hlc[d], r.ver) \in Clock
  BY <1>1, ClockTypes
<1> QED BY <1>2, <1>3, <1>4 DEF Observed

\* Applying an event has no other outcome.
LEMMA ApplyDoes ==
    ASSUME TypeOK, NEW s \in Site, NEW d \in Site, NEW ev \in Event,
           NEW n \in Nat, NEW rest, Within(rest), Apply(s, d, ev, n, rest)
    PROVE  ApplyOutcome(d, ev)
<1> USE DEF TypeOK
<1>0. ev.row \in Row /\ rest \in [Edge -> Seq(Event)]
  BY DEF Event, Within
<1>1. CASE UNCHANGED <<hlc, tbl>> /\ queue' = rest
  BY <1>1 DEF ApplyOutcome, Within
<1>2. CASE Delete(d, ev.row.key, rest)
  <2>1. CASE At(d, ev.row.key) # {}
    <3>1. PICK old \in At(d, ev.row.key) :
             /\ tbl' = [tbl EXCEPT ![d] = @ \ {old}]
             /\ queue' = Captured(rest, d, <<Deleted(old)>>)
      BY <1>2, <2>1 DEF Delete
    <3>2. old \in tbl[d] /\ Deleted(old) \in Event /\ Deleted(old).row = old
      BY DEF At, Deleted, Event
    <3>3. /\ queue' \in [Edge -> Seq(Event)]
          /\ \A e \in Edge : Elems(queue'[e]) \subseteq Elems(rest[e]) \union {Deleted(old)}
      BY <1>0, <3>1, <3>2, CapturedAdds
    <3>4. \A e \in Edge : \A x \in Elems(queue'[e]) :
             x \in Elems(queue[e]) \/ x.row = ev.row \/ x.row \in tbl[d]
      BY <3>2, <3>3 DEF Within
    <3>5. hlc' = hlc
      BY <1>2 DEF Delete
    <3> QED BY <3>1, <3>3, <3>4, <3>5 DEF ApplyOutcome
  <2>2. CASE At(d, ev.row.key) = {}
    BY <1>2, <2>2 DEF Delete, ApplyOutcome, Within
  <2> QED BY <2>1, <2>2
<1>3. CASE Upsert(d, ev.row, n, rest)
  <2>1. hlc' \in [Site -> Clock] /\ \A t \in Site \ {d} : hlc'[t] = hlc[t]
    <3>1. Observed(d, ev.row, n) \in Clock
      BY <1>0, ObservedType
    <3> QED BY <1>3, <3>1 DEF Upsert
  <2>2. CASE Accepted(d, ev.row)
    <3>1. /\ tbl' = [tbl EXCEPT ![d] = (@ \ At(d, ev.row.key)) \union {ev.row}]
          /\ queue' = Captured(rest, d, <<Upserted(ev.row)>>)
      BY <1>3, <2>2 DEF Upsert
    <3>2. Upserted(ev.row) \in Event /\ Upserted(ev.row).row = ev.row
      BY <1>0 DEF Upserted, Event
    <3>3. /\ queue' \in [Edge -> Seq(Event)]
          /\ \A e \in Edge : Elems(queue'[e]) \subseteq Elems(rest[e]) \union {Upserted(ev.row)}
      BY <1>0, <3>1, <3>2, CapturedAdds
    <3>4. \A e \in Edge : \A x \in Elems(queue'[e]) :
             x \in Elems(queue[e]) \/ x.row = ev.row \/ x.row \in tbl[d]
      BY <3>2, <3>3 DEF Within
    <3> QED BY <1>0, <2>1, <3>1, <3>3, <3>4 DEF ApplyOutcome
  <2>3. CASE ~ Accepted(d, ev.row)
    BY <1>3, <2>1, <2>3 DEF Upsert, ApplyOutcome, Within
  <2> QED BY <2>2, <2>3
<1> QED BY <1>1, <1>2, <1>3 DEF Apply

\* The initial state is typed.
LEMMA InitType == Init => TypeOK
BY DEF Init, TypeOK, ZeroClock, Clock

\* A native write is typed and adds one copy: the row it stamped.
LEMMA NativeWriteDoes ==
    ASSUME TypeOK, NEW s \in Site, NEW k \in Key, NEW n \in Nat,
           NativeWrite(s, k, n)
    PROVE  LET h == Tick(hlc[s], n)
               new == Stamped(s, k, h)
           IN  /\ TypeOK'
               /\ h \in Clock /\ new \in Row
               /\ hlc' = [hlc EXCEPT ![s] = h]
               /\ tbl' = [tbl EXCEPT ![s] = (@ \ At(s, k)) \union {new}]
               /\ writes' = writes + 1
               /\ \A e \in Edge : \A x \in Elems(queue'[e]) :
                     x \in Elems(queue[e]) \/ x.row = new
<1> USE DEF TypeOK
<1> DEFINE h == Tick(hlc[s], n)
           new == Stamped(s, k, h)
<1>1. h \in Clock
  <2>1. hlc[s] \in Clock
    OBVIOUS
  <2> QED BY <2>1, ClockTypes
<1>2. new \in Row
  <2>1. Version(h) \in Nat
    BY <1>1, VersionType
  <2>2. UNION {r.val : r \in At(s, k)} \subseteq Nat
    BY DEF At, Row
  <2> HIDE DEF h
  <2> QED BY <2>1, <2>2 DEF Stamped, Row
<1> HIDE DEF h, new
<1>3. /\ hlc' = [hlc EXCEPT ![s] = h]
      /\ tbl' = [tbl EXCEPT ![s] = (@ \ At(s, k)) \union {new}]
      /\ queue' = Captured(queue, s, <<Upserted(new)>>)
      /\ writes' = writes + 1
      /\ UNCHANGED <<deletes, redeliveries>>
  BY DEF NativeWrite, h, new
<1>4. Upserted(new) \in Event /\ Upserted(new).row = new
  BY <1>2 DEF Upserted, Event
<1>5. /\ queue' \in [Edge -> Seq(Event)]
      /\ \A e \in Edge : Elems(queue'[e]) \subseteq Elems(queue[e]) \union {Upserted(new)}
  BY <1>3, <1>4, CapturedAdds
<1>6. TypeOK'
  BY <1>1, <1>2, <1>3, <1>5
<1> QED BY <1>1, <1>2, <1>3, <1>4, <1>5, <1>6 DEF h, new

\* A native delete is typed and adds no copy.
LEMMA NativeDeleteDoes ==
    ASSUME TypeOK, NEW s \in Site, NEW r \in tbl[s], NativeDelete(s, r)
    PROVE  /\ TypeOK'
           /\ hlc' = hlc /\ writes' = writes
           /\ \A t \in Site : tbl'[t] \subseteq tbl[t]
           /\ \A e \in Edge : \A x \in Elems(queue'[e]) :
                 x \in Elems(queue[e]) \/ x.row \in tbl[s]
<1> USE DEF TypeOK
<1>1. Deleted(r) \in Event /\ Deleted(r).row = r
  BY DEF Deleted, Event
<1>2. /\ tbl' = [tbl EXCEPT ![s] = @ \ {r}]
      /\ queue' = Captured(queue, s, <<Deleted(r)>>)
      /\ deletes' = deletes + 1
      /\ UNCHANGED <<hlc, writes, redeliveries>>
  BY DEF NativeDelete
<1>3. /\ queue' \in [Edge -> Seq(Event)]
      /\ \A e \in Edge : Elems(queue'[e]) \subseteq Elems(queue[e]) \union {Deleted(r)}
  BY <1>1, <1>2, CapturedAdds
<1>4. TypeOK'
  BY <1>2, <1>3
<1>5. \A t \in Site : tbl'[t] \subseteq tbl[t]
  BY <1>2
<1>6. \A e \in Edge : \A x \in Elems(queue'[e]) :
         x \in Elems(queue[e]) \/ x.row \in tbl[s]
  BY <1>1, <1>3
<1> QED BY <1>2, <1>4, <1>5, <1>6

\* The three ways a sink handles the first event of its queue.
SinkStep(e, n) ==
    \/ Deliver(e, n)
    \/ \E i \in 1 .. Len(queue[e]) : AckLost(e, n, i)
    \/ \E i \in 1 .. Len(queue[e]) : Nak(e, i)

\* A sink's step applies the event it has at hand, or only moves it back.
LEMMA SinkStepDoes ==
    ASSUME TypeOK, NEW e \in Edge, NEW n \in Nat, SinkStep(e, n)
    PROVE  /\ TypeOK'
           /\ writes' = writes
           /\ Head(queue[e]) \in Elems(queue[e]) /\ Head(queue[e]) \in Event
           /\ ApplyOutcome(e[2], Head(queue[e]))
           /\ \/ \E rest : Apply(e[1], e[2], Head(queue[e]), n, rest)
              \/ UNCHANGED <<hlc, tbl>>
<1>0. queue[e] # <<>>
  BY DEF SinkStep, Deliver, AckLost, Nak
<1>1. /\ Head(queue[e]) \in Event
      /\ Head(queue[e]) \in Elems(queue[e])
      /\ Within([queue EXCEPT ![e] = Tail(@)])
  BY <1>0, HeadInFlight
<1>2. \A i \in 1 .. Len(queue[e]) : Within(Requeued(e, i))
  BY <1>0, RequeuedWithin
<1>3. CASE \E rest : Within(rest) /\ Apply(e[1], e[2], Head(queue[e]), n, rest)
             /\ writes' = writes /\ deletes' = deletes
             /\ redeliveries' \in {redeliveries, redeliveries + 1}
  <2>1. PICK rest : Within(rest) /\ Apply(e[1], e[2], Head(queue[e]), n, rest)
    BY <1>3
  <2>2. ApplyOutcome(e[2], Head(queue[e]))
    BY <1>1, <2>1, SiteOfEdge, ApplyDoes
  <2> QED BY <1>1, <1>3, <2>1, <2>2 DEF ApplyOutcome, TypeOK
<1>4. CASE \E i \in 1 .. Len(queue[e]) : Nak(e, i)
  <2>1. PICK i \in 1 .. Len(queue[e]) : Nak(e, i)
    BY <1>4
  <2>2. /\ queue' = Requeued(e, i) /\ redeliveries' = redeliveries + 1
        /\ UNCHANGED <<hlc, tbl, writes, deletes>>
    BY <2>1 DEF Nak
  <2>3. Within(queue')
    BY <1>2, <2>2
  <2> QED BY <1>1, <2>2, <2>3 DEF Within, ApplyOutcome, TypeOK
<1>5. CASE Deliver(e, n)
  <2>1. /\ Apply(e[1], e[2], Head(queue[e]), n, [queue EXCEPT ![e] = Tail(@)])
        /\ UNCHANGED <<writes, deletes, redeliveries>>
    BY <1>5 DEF Deliver
  <2> QED BY <1>1, <1>3, <2>1
<1>6. CASE \E i \in 1 .. Len(queue[e]) : AckLost(e, n, i)
  <2>1. PICK i \in 1 .. Len(queue[e]) : AckLost(e, n, i)
    BY <1>6
  <2>2. /\ Apply(e[1], e[2], Head(queue[e]), n, Requeued(e, i))
        /\ UNCHANGED <<writes, deletes>> /\ redeliveries' = redeliveries + 1
    BY <2>1 DEF AckLost
  <2> QED BY <1>2, <1>3, <2>2
<1> QED BY <1>4, <1>5, <1>6 DEF SinkStep

\* The shape of a step that the proofs below split on.
LEMMA NextCases ==
    ASSUME Next
    PROVE  \/ \E s \in Site, k \in Key, n \in Nat : NativeWrite(s, k, n)
           \/ \E s \in Site : \E r \in tbl[s] : NativeDelete(s, r)
           \/ \E e \in Edge, n \in Nat : SinkStep(e, n)
<1>1. ASSUME NEW e \in Edge, NEW i \in 1 .. Len(queue[e]), Nak(e, i)
      PROVE  SinkStep(e, 0)
  BY <1>1 DEF SinkStep
<1>2. ASSUME NEW e \in Edge, NEW n \in Reading,
             Deliver(e, n) \/ \E i \in 1 .. Len(queue[e]) : AckLost(e, n, i)
      PROVE  SinkStep(e, n)
  BY <1>2 DEF SinkStep
<1> QED BY <1>1, <1>2, ReadingIsNat DEF Next

\* Every step keeps the types.
LEMMA TypeStep ==
    ASSUME TypeOK, [Next]_vars
    PROVE  TypeOK'
<1>1. CASE \E s \in Site, k \in Key, n \in Nat : NativeWrite(s, k, n)
  BY <1>1, NativeWriteDoes
<1>2. CASE \E s \in Site : \E r \in tbl[s] : NativeDelete(s, r)
  BY <1>2, NativeDeleteDoes
<1>3. CASE \E e \in Edge, n \in Nat : SinkStep(e, n)
  BY <1>3, SinkStepDoes
<1>4. CASE UNCHANGED vars
  BY <1>4 DEF vars, TypeOK
<1> QED BY <1>1, <1>2, <1>3, <1>4, NextCases

\* Type correctness of the replication model for any topology, any mix of
\* Postgres and MySQL members and any clock readings.
THEOREM TypeCorrect == Spec => []TypeOK
<1>1. TypeOK /\ [Next]_vars => TypeOK'
  BY TypeStep
<1> QED BY <1>1, InitType, PTL DEF Spec

-----------------------------------------------------------------------------
(***************************************************************************)
(* Clocks.  LcFits is a hypothesis from here on: without it the version    *)
(* does fall back once lc runs over into pt.                               *)
(***************************************************************************)

\* The stamping trigger of an applied row never lowers d's clock, and on
\* Postgres lifts it to the row's version at least.
LEMMA ObservedKeeps ==
    ASSUME TypeOK, LcFits, NEW d \in Site, NEW r \in Row, NEW n \in Nat
    PROVE  /\ Version(hlc[d]) <= Version(Observed(d, r, n))
           /\ Engine[d] = "postgres" => r.ver <= Version(Observed(d, r, n))
<1> DEFINE h == hlc[d]
           once == ObservePg(h, r.ver, n)
           twice == ObservePg(once, r.ver, n)
           mine == ObserveMysql(h, r.ver)
<1>1. h \in Clock /\ h.lc < W /\ r.ver \in Nat
  BY DEF TypeOK, Row, LcFits
<1>2. once \in Clock /\ mine \in Clock
  BY <1>1, ClockTypes
<1>3. twice \in Clock
  BY <1>1, <1>2, ClockTypes
<1>4. /\ Version(h) \in Nat /\ Version(once) \in Nat
      /\ Version(twice) \in Nat /\ Version(mine) \in Nat
  BY <1>1, <1>2, <1>3, VersionType
<1>5. Version(h) < Version(once) /\ r.ver < Version(once)
  BY <1>1, ObserveAdvances
<1>6. Version(once) < Version(twice)
  BY <1>1, ObserveTwiceAdvances
<1>7. Version(h) <= Version(mine)
  BY <1>1, ObserveMysqlKeeps
<1>8. \/ Engine[d] = "postgres" /\ Observed(d, r, n) \in {once, twice}
      \/ Engine[d] # "postgres" /\ Observed(d, r, n) = mine
  BY DEF Observed
<1> HIDE DEF h, once, twice, mine
<1>9. /\ Version(h) <= Version(Observed(d, r, n))
      /\ Engine[d] = "postgres" => r.ver <= Version(Observed(d, r, n))
  BY <1>1, <1>4, <1>5, <1>6, <1>7, <1>8
<1> QED BY <1>9 DEF h

\* No step lowers a clock.
ClocksKept == \A s \in Site : Version(hlc[s]) <= Version(hlc'[s])

\* The versions of the clocks are numbers.
LEMMA HlcVersions ==
    ASSUME TypeOK
    PROVE  \A s \in Site : hlc[s] \in Clock /\ Version(hlc[s]) \in Nat
BY VersionType DEF TypeOK

\* A sink never lowers a clock.
LEMMA ClocksKeptBySinks ==
    ASSUME TypeOK, LcFits, NEW e \in Edge, NEW n \in Nat, SinkStep(e, n)
    PROVE  ClocksKept
<1> DEFINE d == e[2]
           ev == Head(queue[e])
<1>1. d \in Site /\ ev \in Event /\ ev.row \in Row
  BY SiteOfEdge, SinkStepDoes DEF Event
<1>2. \A s \in Site : Version(hlc[s]) \in Nat
  BY HlcVersions
<1>3. hlc \in [Site -> Clock]
  BY DEF TypeOK
<1>4. CASE hlc' = hlc
  BY <1>2, <1>4 DEF ClocksKept
<1>5. CASE \E rest : Apply(e[1], d, ev, n, rest)
  <2>1. PICK rest : Apply(e[1], d, ev, n, rest)
    BY <1>5
  <2>2. hlc' = hlc \/ hlc' = [hlc EXCEPT ![d] = Observed(d, ev.row, n)]
    BY <2>1 DEF Apply, Upsert, Delete
  <2>3. Version(hlc[d]) <= Version(Observed(d, ev.row, n))
    BY <1>1, ObservedKeeps
  <2> HIDE DEF d, ev
  <2>4. CASE hlc' = [hlc EXCEPT ![d] = Observed(d, ev.row, n)]
    BY <1>1, <1>2, <1>3, <2>3, <2>4 DEF ClocksKept
  <2> QED BY <1>4, <2>2, <2>4
<1> QED BY <1>4, <1>5, SinkStepDoes

\* No step lowers a clock.
LEMMA ClocksKeptByNext ==
    ASSUME TypeOK, LcFits, [Next]_vars
    PROVE  ClocksKept
<1>1. \A s \in Site : hlc[s] \in Clock /\ Version(hlc[s]) \in Nat
  BY HlcVersions
<1>2. ASSUME NEW s \in Site, NEW k \in Key, NEW n \in Nat, NativeWrite(s, k, n)
      PROVE  ClocksKept
  <2>1. hlc' = [hlc EXCEPT ![s] = Tick(hlc[s], n)]
    BY <1>2 DEF NativeWrite
  <2>2. Version(hlc[s]) < Version(Tick(hlc[s], n))
    BY <1>1, TickAdvances DEF LcFits
  <2>3. Tick(hlc[s], n) \in Clock
    BY <1>1, ClockTypes
  <2>4. Version(Tick(hlc[s], n)) \in Nat
    BY <2>3, VersionType
  <2>5. hlc \in [Site -> Clock]
    BY DEF TypeOK
  <2> QED BY <1>1, <2>1, <2>2, <2>4, <2>5 DEF ClocksKept
<1>3. CASE hlc' = hlc
  BY <1>1, <1>3 DEF ClocksKept
<1>4. ASSUME NEW s \in Site, NEW r \in tbl[s], NativeDelete(s, r)
      PROVE  hlc' = hlc
  BY <1>4 DEF NativeDelete
<1>5. UNCHANGED vars => hlc' = hlc
  BY DEF vars
<1> QED BY <1>2, <1>3, <1>4, <1>5, NextCases, ClocksKeptBySinks

\* While the logical counter fits its 16 bits, no clock of any engine ever
\* falls back, however the wall clocks jump (mm_hlc_tick, mm_hlc_observe and
\* the MySQL trigger).
THEOREM ClocksNeverFallBack == Spec /\ []LcFits => ClockNeverFallsBack
<1>1. TypeOK /\ LcFits /\ [Next]_vars
        => [\A s \in Site : Version(hlc'[s]) >= Version(hlc[s])]_vars
  <2> SUFFICES ASSUME TypeOK, LcFits, [Next]_vars, TypeOK'
               PROVE  \A s \in Site : Version(hlc'[s]) >= Version(hlc[s])
    BY TypeStep
  <2>1. ClocksKept
    BY ClocksKeptByNext
  <2>2. \A s \in Site : Version(hlc[s]) \in Nat
    BY HlcVersions
  <2>3. \A s \in Site : Version(hlc'[s]) \in Nat
    BY VersionType DEF TypeOK
  <2> QED BY <2>1, <2>2, <2>3 DEF ClocksKept
<1> QED BY <1>1, TypeCorrect, PTL DEF Spec, ClockNeverFallsBack

-----------------------------------------------------------------------------
(***************************************************************************)
(* Stamps.  A version is handed out by the clock of its origin, so no copy *)
(* carries more than that clock shows; the next stamp is above them all.   *)
(***************************************************************************)

\* The copies are what the sites store and what is in flight.
LEMMA CopiesAre ==
    \A c : c \in Copies <=>
             \/ \E s \in Site : c \in tbl[s]
             \/ \E e \in Edge : \E x \in Elems(queue[e]) : c = x.row
BY DEF Copies, Stored, InFlight, Elems

\* The same in the state after a step.
LEMMA CopiesAre2 ==
    \A c : c \in Copies' <=>
             \/ \E s \in Site : c \in tbl'[s]
             \/ \E e \in Edge : \E x \in Elems(queue'[e]) : c = x.row
BY DEF Copies, Stored, InFlight, Elems

\* Copies are rows.
LEMMA CopiesType ==
    ASSUME TypeOK
    PROVE  \A c \in Copies : c \in Row /\ c.ver \in Nat /\ c.org \in Site
<1>1. ASSUME NEW e \in Edge, NEW x \in Elems(queue[e])
      PROVE  x.row \in Row
  <2>1. queue[e] \in Seq(Event)
    BY DEF TypeOK
  <2>2. x \in Event
    BY <2>1 DEF Elems
  <2> QED BY <2>2 DEF Event
<1>2. \A s \in Site : tbl[s] \subseteq Row
  BY DEF TypeOK
<1>3. \A c \in Copies : c \in Row
  BY <1>1, <1>2, CopiesAre
<1> QED BY <1>3 DEF Row

\* Only a native write brings a copy into being.
LEMMA CopiesStep ==
    ASSUME TypeOK, [Next]_vars
    PROVE  \/ Copies' \subseteq Copies /\ writes' = writes
           \/ \E s \in Site, k \in Key, n \in Nat :
                 /\ NativeWrite(s, k, n)
                 /\ Copies' \subseteq Copies \union {Stamped(s, k, Tick(hlc[s], n))}
<1>1. ASSUME NEW s \in Site, NEW k \in Key, NEW n \in Nat, NativeWrite(s, k, n)
      PROVE  Copies' \subseteq Copies \union {Stamped(s, k, Tick(hlc[s], n))}
  <2> DEFINE new == Stamped(s, k, Tick(hlc[s], n))
  <2>1. /\ tbl' = [tbl EXCEPT ![s] = (@ \ At(s, k)) \union {new}]
        /\ \A e \in Edge : \A x \in Elems(queue'[e]) :
              x \in Elems(queue[e]) \/ x.row = new
    BY <1>1, NativeWriteDoes
  <2> HIDE DEF new
  <2>2. \A t \in Site : tbl'[t] \subseteq tbl[t] \union {new}
    BY <2>1 DEF TypeOK
  <2>3. Copies' \subseteq Copies \union {new}
    BY <2>1, <2>2, CopiesAre, CopiesAre2
  <2> QED BY <2>3 DEF new
<1>2. ASSUME NEW s \in Site, NEW r \in tbl[s], NativeDelete(s, r)
      PROVE  Copies' \subseteq Copies /\ writes' = writes
  <2>1. /\ writes' = writes
        /\ \A t \in Site : tbl'[t] \subseteq tbl[t]
        /\ \A e \in Edge : \A x \in Elems(queue'[e]) :
              x \in Elems(queue[e]) \/ x.row \in tbl[s]
    BY <1>2, NativeDeleteDoes
  <2> QED BY <2>1, CopiesAre, CopiesAre2
<1>3. ASSUME NEW e \in Edge, NEW n \in Nat, SinkStep(e, n)
      PROVE  Copies' \subseteq Copies /\ writes' = writes
  <2> DEFINE ev == Head(queue[e])
             d == e[2]
  <2>1. /\ writes' = writes
        /\ ev \in Elems(queue[e])
        /\ ApplyOutcome(d, ev)
    BY <1>3, SinkStepDoes
  <2>2. d \in Site
    BY SiteOfEdge
  <2>3. ev.row \in Copies
    BY <2>1, CopiesAre
  <2> HIDE DEF d, ev
  <2>4. \A t \in Site : tbl'[t] \subseteq tbl[t] \union {ev.row}
    BY <2>1 DEF ApplyOutcome
  <2>5. \A f \in Edge : \A x \in Elems(queue'[f]) :
           x \in Elems(queue[f]) \/ x.row = ev.row \/ x.row \in tbl[d]
    BY <2>1 DEF ApplyOutcome
  <2> QED BY <2>1, <2>2, <2>3, <2>4, <2>5, CopiesAre, CopiesAre2
<1>4. CASE UNCHANGED vars
  BY <1>4, CopiesAre, CopiesAre2 DEF vars
<1> QED BY <1>1, <1>2, <1>3, <1>4, NextCases

\* A row's version is covered by the clock of the site that stamped it.
OriginCovers == \A c \in Copies : c.ver <= Version(hlc[c.org])

StampInv == TypeOK /\ OriginCovers /\ UniqueStamps

\* There are none at first.
LEMMA NoCopiesInitially == Init => Copies = {}
BY DEF Init, Copies, Stored, InFlight

\* Every step keeps the invariant of the stamps.
LEMMA StampStep ==
    ASSUME StampInv, LcFits, [Next]_vars
    PROVE  StampInv'
<1> USE DEF StampInv
<1>1. TypeOK'
  BY TypeStep
<1>2. ClocksKept
  BY ClocksKeptByNext
<1>3. \A s \in Site : Version(hlc[s]) \in Nat
  BY HlcVersions
<1>4. \A s \in Site : Version(hlc'[s]) \in Nat
  BY <1>1, VersionType DEF TypeOK
<1>5. \A c \in Copies : c.ver \in Nat /\ c.org \in Site
  BY CopiesType
<1>6. \A c \in Copies : c.ver <= Version(hlc'[c.org])
  BY <1>2, <1>3, <1>4, <1>5 DEF ClocksKept, OriginCovers
<1>7. CASE Copies' \subseteq Copies
  BY <1>1, <1>6, <1>7 DEF OriginCovers, UniqueStamps
<1>8. ASSUME NEW s \in Site, NEW k \in Key, NEW n \in Nat, NativeWrite(s, k, n),
             Copies' \subseteq Copies \union {Stamped(s, k, Tick(hlc[s], n))}
      PROVE  StampInv'
  <2> DEFINE new == Stamped(s, k, Tick(hlc[s], n))
  <2>1. hlc'[s] = Tick(hlc[s], n)
    BY <1>8 DEF NativeWrite, TypeOK
  <2>2. new.org = s /\ new.ver = Version(hlc'[s])
    BY <2>1 DEF Stamped
  <2>3. Version(hlc[s]) < Version(hlc'[s])
    BY <2>1, TickAdvances DEF TypeOK, LcFits
  <2> HIDE DEF new
  <2>4. \A c \in Copies : c.org = s => c.ver < new.ver
    BY <1>3, <1>4, <1>5, <2>2, <2>3 DEF OriginCovers
  <2>5. Copies' \subseteq Copies \union {new}
    BY <1>8 DEF new
  <2>6. OriginCovers'
    BY <1>4, <1>6, <2>2, <2>5 DEF OriginCovers
  <2>7. UniqueStamps'
    BY <1>4, <1>5, <2>2, <2>4, <2>5 DEF UniqueStamps
  <2> QED BY <1>1, <2>6, <2>7
<1> QED BY <1>7, <1>8, CopiesStep

\* While the logical counter fits, a (version, origin) pair names one write
\* for ever, across engines, redeliveries and deletes: the origin tie-break of
\* the upsert guard never has to choose between different rows.
THEOREM StampsAreUnique == Spec /\ []LcFits => []UniqueStamps
<1>1. Init => StampInv
  BY InitType, NoCopiesInitially DEF StampInv, OriginCovers, UniqueStamps
<1>2. StampInv /\ LcFits /\ [Next]_vars => StampInv'
  BY StampStep
<1>3. StampInv => UniqueStamps
  BY DEF StampInv
<1> QED BY <1>1, <1>2, <1>3, PTL DEF Spec

-----------------------------------------------------------------------------
(***************************************************************************)
(* Causality.  On Postgres a site's clock also covers every row it stores, *)
(* wherever it was stamped, because the apply path observes before it      *)
(* stores.  So a write is stamped above what it read.                      *)
(***************************************************************************)

PostgresOnly == \A s \in Site : Engine[s] = "postgres"

\* A site's clock covers the rows it stores.
SiteCovers == \A s \in Site : \A r \in tbl[s] : r.ver <= Version(hlc[s])

OneRowPerKey == \A s \in Site : \A r1, r2 \in tbl[s] : r1.key = r2.key => r1 = r2

\* Contents are built from writes already made.
ContentsNamed == \A c \in Copies : c.val # {} /\ \A w \in c.val : w < writes

\* Two copies with the same contents are copies of the same write.
UniqueContents == \A c1, c2 \in Copies : c1.val = c2.val => c1 = c2

CausalInv ==
    /\ StampInv /\ SiteCovers /\ OneRowPerKey
    /\ ContentsNamed /\ UniqueContents /\ ClockCondition

\* A stored row is a copy.
LEMMA StoredAreCopies == \A s \in Site : \A r \in tbl[s] : r \in Copies
BY CopiesAre

\* How a step changes the rows of a site: it may drop rows, or put one in the
\* place of the others of its key.  The one it puts is covered by the clock.
LEMMA RowsStep ==
    ASSUME PostgresOnly, StampInv, SiteCovers, LcFits, [Next]_vars, NEW s \in Site
    PROVE  \/ tbl'[s] \subseteq tbl[s]
           \/ \E r : /\ tbl'[s] = (tbl[s] \ At(s, r.key)) \union {r}
                     /\ r.ver \in Nat /\ r.ver <= Version(hlc'[s])
                     /\ \A old \in At(s, r.key) : Newer(r, old)
<1> USE DEF StampInv
<1>0. /\ \A t \in Site : hlc[t] \in Clock /\ Version(hlc[t]) \in Nat
      /\ \A t \in Site : \A r \in tbl[t] : r \in Row /\ r.ver \in Nat
  BY HlcVersions, StoredAreCopies, CopiesType
<1>1. ASSUME NEW t \in Site, NEW k \in Key, NEW n \in Nat, NativeWrite(t, k, n)
      PROVE  \/ tbl'[s] \subseteq tbl[s]
             \/ \E r : /\ tbl'[s] = (tbl[s] \ At(s, r.key)) \union {r}
                       /\ r.ver \in Nat /\ r.ver <= Version(hlc'[s])
                       /\ \A old \in At(s, r.key) : Newer(r, old)
  <2> DEFINE new == Stamped(t, k, Tick(hlc[t], n))
  <2>1. /\ hlc' = [hlc EXCEPT ![t] = Tick(hlc[t], n)]
        /\ tbl' = [tbl EXCEPT ![t] = (@ \ At(t, k)) \union {new}]
        /\ Tick(hlc[t], n) \in Clock
    BY <1>1, NativeWriteDoes
  <2>2. new.key = k /\ new.ver = Version(Tick(hlc[t], n))
    BY DEF Stamped
  <2>3. Version(hlc[t]) < Version(Tick(hlc[t], n))
    BY <1>0, TickAdvances DEF LcFits
  <2>4. Version(Tick(hlc[t], n)) \in Nat
    BY <2>1, VersionType
  <2> HIDE DEF new
  <2>5. CASE s # t
    BY <2>1, <2>5 DEF TypeOK
  <2>6. CASE s = t
    <3>1. tbl'[s] = (tbl[s] \ At(s, new.key)) \union {new}
      BY <2>1, <2>2, <2>6 DEF TypeOK
    <3>2. hlc'[s] = Tick(hlc[t], n)
      BY <2>1, <2>6 DEF TypeOK
    <3>3. new.ver \in Nat /\ new.ver <= Version(hlc'[s])
      BY <2>2, <2>4, <3>2
    <3>4. \A old \in At(s, new.key) : old.ver < new.ver
      BY <1>0, <2>2, <2>3, <2>4, <2>6 DEF At, SiteCovers
    <3> QED BY <3>1, <3>3, <3>4 DEF Newer
  <2> QED BY <2>5, <2>6
<1>2. ASSUME NEW e \in Edge, NEW n \in Nat, SinkStep(e, n)
      PROVE  \/ tbl'[s] \subseteq tbl[s]
             \/ \E r : /\ tbl'[s] = (tbl[s] \ At(s, r.key)) \union {r}
                       /\ r.ver \in Nat /\ r.ver <= Version(hlc'[s])
                       /\ \A old \in At(s, r.key) : Newer(r, old)
  <2> DEFINE d == e[2]
             r == Head(queue[e]).row
  <2>1. d \in Site /\ r \in Row /\ r.ver \in Nat
    BY <1>2, SiteOfEdge, SinkStepDoes DEF Event, Row
  <2>2. r.ver <= Version(Observed(d, r, n))
    BY <2>1, ObservedKeeps DEF PostgresOnly
  <2>3. CASE tbl' = tbl
    BY <2>3
  <2>4. CASE \E rest : Apply(e[1], d, Head(queue[e]), n, rest)
    <3>1. PICK rest : Apply(e[1], d, Head(queue[e]), n, rest)
      BY <2>4
    <3>2. CASE Delete(d, r.key, rest)
      BY <3>2 DEF Delete, TypeOK
    <3>3. CASE Upsert(d, r, n, rest) /\ Accepted(d, r)
      <4>1. /\ tbl' = [tbl EXCEPT ![d] = (@ \ At(d, r.key)) \union {r}]
            /\ hlc' = [hlc EXCEPT ![d] = Observed(d, r, n)]
            /\ \A old \in At(d, r.key) : Newer(r, old)
        BY <3>3 DEF Upsert, Accepted
      <4> HIDE DEF d, r
      <4>2. CASE s # d
        BY <4>1, <4>2 DEF TypeOK
      <4>3. CASE s = d
        <5>1. tbl'[s] = (tbl[s] \ At(s, r.key)) \union {r}
          BY <4>1, <4>3 DEF TypeOK
        <5>2. r.ver <= Version(hlc'[s])
          BY <2>1, <2>2, <4>1, <4>3 DEF TypeOK
        <5> QED BY <2>1, <4>1, <4>3, <5>1, <5>2
      <4> QED BY <4>2, <4>3
    <3>4. CASE UNCHANGED tbl
      BY <3>4
    <3> QED BY <3>1, <3>2, <3>3, <3>4 DEF Apply, Upsert
  <2> QED BY <1>2, <2>3, <2>4, SinkStepDoes
<1>3. ASSUME NEW t \in Site, NEW r \in tbl[t], NativeDelete(t, r)
      PROVE  tbl'[s] \subseteq tbl[s]
  BY <1>3, NativeDeleteDoes
<1>4. CASE UNCHANGED vars
  BY <1>4 DEF vars
<1> QED BY <1>1, <1>2, <1>3, <1>4, NextCases

\* Every step keeps the invariant of causality.
LEMMA CausalStep ==
    ASSUME PostgresOnly, CausalInv, LcFits, [Next]_vars
    PROVE  CausalInv'
<1> USE DEF CausalInv
<1>1. StampInv' /\ TypeOK /\ TypeOK'
  BY StampStep DEF StampInv
<1>2. ClocksKept
  BY ClocksKeptByNext DEF StampInv
<1>3. /\ \A s \in Site : Version(hlc[s]) \in Nat /\ Version(hlc'[s]) \in Nat
      /\ \A c \in Copies : c \in Row /\ c.ver \in Nat
  BY <1>1, VersionType, CopiesType DEF TypeOK
<1>4. SiteCovers' /\ OneRowPerKey'
  <2> SUFFICES ASSUME NEW s \in Site
               PROVE  /\ \A r \in tbl'[s] : r.ver <= Version(hlc'[s])
                      /\ \A r1, r2 \in tbl'[s] : r1.key = r2.key => r1 = r2
    BY DEF SiteCovers, OneRowPerKey
  <2>1. \A r \in tbl[s] : r.ver \in Nat /\ r.ver <= Version(hlc'[s])
    BY <1>2, <1>3, StoredAreCopies DEF SiteCovers, ClocksKept
  <2>2. CASE tbl'[s] \subseteq tbl[s]
    BY <2>1, <2>2 DEF OneRowPerKey
  <2>3. ASSUME NEW r, tbl'[s] = (tbl[s] \ At(s, r.key)) \union {r},
               r.ver <= Version(hlc'[s])
        PROVE  /\ \A x \in tbl'[s] : x.ver <= Version(hlc'[s])
               /\ \A r1, r2 \in tbl'[s] : r1.key = r2.key => r1 = r2
    BY <2>1, <2>3 DEF OneRowPerKey, At
  <2> QED BY <2>2, <2>3, RowsStep
<1>5. CASE Copies' \subseteq Copies /\ writes' = writes
  BY <1>1, <1>4, <1>5 DEF ContentsNamed, UniqueContents, ClockCondition
<1>6. ASSUME NEW s \in Site, NEW k \in Key, NEW n \in Nat, NativeWrite(s, k, n),
             Copies' \subseteq Copies \union {Stamped(s, k, Tick(hlc[s], n))}
      PROVE  CausalInv'
  <2> DEFINE new == Stamped(s, k, Tick(hlc[s], n))
  <2>1. writes' = writes + 1 /\ writes \in Nat
    BY <1>1, <1>6 DEF NativeWrite, TypeOK
  <2>2. /\ new.key = k /\ new.ver = Version(Tick(hlc[s], n))
        /\ new.val = {writes} \union (UNION {r.val : r \in At(s, k)})
    BY DEF Stamped
  <2>3. Version(hlc[s]) < Version(Tick(hlc[s], n)) /\ new.ver \in Nat
    <3>1. hlc[s] \in Clock /\ Tick(hlc[s], n) \in Clock
      BY <1>1, ClockTypes DEF TypeOK
    <3> QED BY <2>2, <3>1, TickAdvances, VersionType DEF LcFits
  <2> HIDE DEF new
  <2>4. Copies' \subseteq Copies \union {new}
    BY <1>6 DEF new
  <2>5. \A c \in Copies : \A w \in c.val : w \in Nat /\ w < writes
    BY <1>3 DEF ContentsNamed, Row
  <2>6. \A c \in Copies : writes \notin c.val
    BY <2>1, <2>5
  <2>7. \A w \in new.val : w < writes + 1
    <3>1. \A r \in At(s, k) : r \in Copies
      BY StoredAreCopies DEF At
    <3> QED BY <2>1, <2>2, <2>5, <3>1
  <2>8. ContentsNamed'
    <3>1. \A c \in Copies : c.val # {} /\ \A w \in c.val : w < writes + 1
      BY <2>1, <2>5 DEF ContentsNamed
    <3>2. new.val # {}
      BY <2>2
    <3> QED BY <2>1, <2>4, <2>7, <3>1, <3>2 DEF ContentsNamed
  <2>9. UniqueContents'
    BY <2>2, <2>4, <2>6 DEF UniqueContents
  <2>10. ASSUME NEW c \in Copies, c.key = k, c.val \subseteq new.val
         PROVE  c.ver < new.ver
    <3>1. c.val \subseteq UNION {r.val : r \in At(s, k)}
      BY <2>2, <2>6, <2>10
    <3>2. PICK r \in At(s, k) : TRUE
      BY <3>1 DEF ContentsNamed
    <3>3. r \in tbl[s] /\ r.key = k /\ r \in Copies
      BY StoredAreCopies DEF At
    <3>4. At(s, k) = {r}
      BY <3>2, <3>3 DEF At, OneRowPerKey
    <3>5. c.val \subseteq r.val
      BY <3>1, <3>4
    <3>6. c.ver <= r.ver
      BY <1>3, <2>10, <3>3, <3>5 DEF UniqueContents, ClockCondition
    <3>7. r.ver <= Version(hlc[s])
      BY <3>3 DEF SiteCovers
    <3> QED BY <1>3, <2>2, <2>3, <3>3, <3>6, <3>7
  <2>11. ClockCondition'
    <3> SUFFICES ASSUME NEW c1 \in Copies', NEW c2 \in Copies', c1.key = c2.key,
                        c1.val \subseteq c2.val, c1.val # c2.val
                 PROVE  c1.ver < c2.ver
      BY DEF ClockCondition
    <3>1. CASE c1 \in Copies /\ c2 \in Copies
      BY <3>1 DEF ClockCondition
    <3>2. CASE c1 \in Copies /\ c2 = new
      BY <2>2, <2>10, <3>2
    <3>3. CASE c1 = new /\ c2 \in Copies
      BY <2>2, <2>6, <3>3
    <3>4. c1 # c2
      OBVIOUS
    <3> QED BY <2>4, <3>1, <3>2, <3>3, <3>4
  <2> QED BY <1>1, <1>4, <2>8, <2>9, <2>11
<1> QED BY <1>1, <1>5, <1>6, CopiesStep

\* The invariant of causality holds initially.
LEMMA CausalInit == Init => CausalInv
<1> SUFFICES ASSUME Init PROVE CausalInv
  OBVIOUS
<1>1. Copies = {} /\ TypeOK
  BY NoCopiesInitially, InitType
<1>2. \A s \in Site : tbl[s] = {}
  BY DEF Init
<1> QED BY <1>1, <1>2 DEF CausalInv, StampInv, OriginCovers, UniqueStamps, SiteCovers,
        OneRowPerKey, ContentsNamed, UniqueContents, ClockCondition

\* Among Postgres members a row built from another carries the larger version
\* for any number of sites, any topology, any wall clocks, any redelivery.
THEOREM CausalLaterWriteWins ==
    ASSUME PostgresOnly
    PROVE  Spec /\ []LcFits => []ClockCondition
<1>1. CausalInv /\ LcFits /\ [Next]_vars => CausalInv'
  BY CausalStep
<1>2. CausalInv => ClockCondition
  BY DEF CausalInv
<1> QED BY <1>1, <1>2, CausalInit, PTL DEF Spec

\* Among Postgres members no delivery, however late or often, and no native
\* write ever replaces a row by one that loses against it.
THEOREM RowsNeverRegress ==
    ASSUME PostgresOnly
    PROVE  Spec /\ []LcFits => RowsOnlyAdvance
<1>1. CausalInv /\ LcFits /\ [Next]_vars => CausalInv'
  BY CausalStep
<1>2. CausalInv /\ LcFits /\ [Next]_vars
        => [\A s \in Site : \A old \in tbl[s], new \in tbl'[s] :
              old.key = new.key /\ old # new => Newer(new, old)]_vars
  <2> SUFFICES ASSUME CausalInv, LcFits, [Next]_vars, NEW s \in Site,
                      NEW old \in tbl[s], NEW new \in tbl'[s],
                      old.key = new.key, old # new
               PROVE  Newer(new, old)
    OBVIOUS
  <2>1. CASE tbl'[s] \subseteq tbl[s]
    BY <2>1 DEF CausalInv, OneRowPerKey
  <2>2. ASSUME NEW r, tbl'[s] = (tbl[s] \ At(s, r.key)) \union {r},
               \A o \in At(s, r.key) : Newer(r, o)
        PROVE  Newer(new, old)
    <3>1. new = r
      BY <2>2 DEF CausalInv, OneRowPerKey
    <3> QED BY <2>2, <3>1 DEF At
  <2> QED BY <2>1, <2>2, RowsStep DEF CausalInv
<1> QED BY <1>1, <1>2, CausalInit, PTL DEF Spec, RowsOnlyAdvance

-----------------------------------------------------------------------------
(***************************************************************************)
(* Convergence.  While no delete is in flight, what a site stores is on    *)
(* its way to every site that reads its stream, or has got there or been   *)
(* beaten there.  A delete starts from drained streams and equal tables,   *)
(* and until it has been everywhere nothing else is in flight.             *)
(***************************************************************************)

\* A change at any site reaches every site along the edges.
Connected ==
    \A S \in SUBSET Site :
        S # {} /\ (\A e \in Edge : e[1] \in S => e[2] \in S) => S = Site

\* The events of a sequence, by their places.
LEMMA ElemsAre ==
    ASSUME NEW S, NEW q \in Seq(S)
    PROVE  \A y : y \in Elems(q) <=> \E i \in 1 .. Len(q) : y = q[i]
BY DEF Elems

\* Appending keeps the events of a sequence, and the one appended.
LEMMA AppendHolds ==
    ASSUME NEW S, NEW q \in Seq(S), NEW x \in S
    PROVE  Elems(q) \union {x} \subseteq Elems(q \o <<x>>)
<1>1. q \o <<x>> \in Seq(S) /\ Len(q \o <<x>>) = Len(q) + 1 /\ Len(q) \in Nat OBVIOUS
<1>2. \A i \in 1 .. Len(q) : (q \o <<x>>)[i] = q[i] OBVIOUS
<1>3. (q \o <<x>>)[Len(q) + 1] = x OBVIOUS
<1>4. \A i \in 1 .. Len(q) : i \in 1 .. Len(q) + 1 BY <1>1
<1>5. Len(q) + 1 \in 1 .. Len(q) + 1 BY <1>1
<1> QED BY <1>1, <1>2, <1>3, <1>4, <1>5 DEF Elems

\* An event of a sequence is its head or behind it.
LEMMA TailHolds ==
    ASSUME NEW S, NEW q \in Seq(S), q # <<>>
    PROVE  Elems(q) \subseteq Elems(Tail(q)) \union {Head(q)}
<1>1. /\ Len(q) \in Nat /\ Len(q) # 0 /\ Len(Tail(q)) = Len(q) - 1
      /\ Head(q) = q[1] /\ Tail(q) \in Seq(S)
  OBVIOUS
<1>2. \A i \in 1 .. Len(q) - 1 : Tail(q)[i] = q[i + 1] OBVIOUS
<1>3. ASSUME NEW i \in 1 .. Len(q), i # 1
      PROVE  \E j \in 1 .. Len(q) - 1 : Tail(q)[j] = q[i]
  <2>1. i - 1 \in 1 .. Len(q) - 1 /\ (i - 1) + 1 = i BY <1>1, <1>3
  <2> QED BY <1>2, <2>1
<1>4. \A y : y \in Elems(Tail(q)) <=> \E i \in 1 .. Len(q) - 1 : y = Tail(q)[i]
  <2> DEFINE t == Tail(q)
  <2>1. t \in Seq(S) /\ Len(t) = Len(q) - 1 BY <1>1
  <2> HIDE DEF t
  <2>2. \A y : y \in Elems(t) <=> \E i \in 1 .. Len(q) - 1 : y = t[i] BY <2>1, ElemsAre
  <2> QED BY <2>2 DEF t
<1>5. \A y : y \in Elems(q) <=> \E i \in 1 .. Len(q) : y = q[i] BY ElemsAre
<1> QED BY <1>1, <1>3, <1>4, <1>5

\* A concatenation keeps the events of its parts.
LEMMA ConcatHolds ==
    ASSUME NEW S, NEW p \in Seq(S), NEW q \in Seq(S)
    PROVE  Elems(p) \union Elems(q) \subseteq Elems(p \o q)
<1>1. /\ p \o q \in Seq(S) /\ Len(p \o q) = Len(p) + Len(q)
      /\ Len(p) \in Nat /\ Len(q) \in Nat
  OBVIOUS
<1>2. \A i \in 1 .. Len(p) : i \in 1 .. Len(p) + Len(q) /\ (p \o q)[i] = p[i] BY <1>1
<1>3. ASSUME NEW i \in 1 .. Len(q)
      PROVE  \E j \in 1 .. Len(p) + Len(q) : q[i] = (p \o q)[j]
  <2>1. Len(p) + i \in 1 .. Len(p) + Len(q) /\ (Len(p) + i) - Len(p) = i BY <1>1
  <2>2. (p \o q)[Len(p) + i] = q[i] BY <1>1, <2>1
  <2> QED BY <2>1, <2>2
<1>4. \A y : y \in Elems(p \o q) <=> \E j \in 1 .. Len(p) + Len(q) : y = (p \o q)[j]
  BY <1>1, ElemsAre
<1>5. \A y : y \in Elems(q) <=> \E i \in 1 .. Len(q) : y = q[i] BY ElemsAre
<1>6. \A y : y \in Elems(p) <=> \E i \in 1 .. Len(p) : y = p[i] BY ElemsAre
<1> DEFINE c == p \o q
<1>7. \A i \in 1 .. Len(p) : p[i] \in Elems(c)
  <2>1. \A i \in 1 .. Len(p) : p[i] = c[i] BY <1>2
  <2>2. \A y : (\E j \in 1 .. Len(p) + Len(q) : y = c[j]) => y \in Elems(c) BY <1>4
  <2> HIDE DEF c
  <2> QED BY <1>1, <2>1, <2>2
<1>8. \A i \in 1 .. Len(q) : q[i] \in Elems(c) BY <1>3, <1>4, Zenon
<1> HIDE DEF c
<1>9. \A y \in Elems(p) : y \in Elems(c) BY <1>6, <1>7
<1>10. \A y \in Elems(q) : y \in Elems(c) BY <1>5, <1>8
<1> QED BY <1>9, <1>10 DEF c

\* An insertion keeps the events of the sequence, and the one inserted.
LEMMA InsertHolds ==
    ASSUME NEW S, NEW q \in Seq(S), NEW x \in S, NEW i \in 1 .. Len(q) + 1
    PROVE  Elems(q) \union {x} \subseteq Elems(InsertAt(q, i, x))
<1> DEFINE l == SubSeq(q, 1, i - 1)
           r == SubSeq(q, i, Len(q))
<1>0. Len(q) \in Nat /\ i \in Nat /\ 1 <= i /\ i <= Len(q) + 1 OBVIOUS
<1>1. l \in Seq(S) /\ r \in Seq(S) BY SubSeqElems
<1>2. ASSUME NEW j \in 1 .. Len(q) PROVE q[j] \in Elems(l) \union Elems(r)
  <2>1. CASE j < i
    <3>1. j \in 1 .. i - 1 /\ Len(l) = i - 1 BY <1>0, <2>1
    <3>2. l[j] = q[j] BY <1>0, <3>1
    <3> HIDE DEF l
    <3>3. \A y : y \in Elems(l) <=> \E k \in 1 .. i - 1 : y = l[k] BY <1>1, <3>1, ElemsAre
    <3> QED BY <3>1, <3>2, <3>3
  <2>2. CASE i <= j
    <3>1. Len(r) = Len(q) - i + 1 BY <1>0, <2>2
    <3>2. j - i + 1 \in 1 .. Len(q) - i + 1 BY <1>0, <2>2
    <3>3. r[j - i + 1] = q[j] BY <1>0, <2>2, <3>2
    <3> HIDE DEF r
    <3> QED BY <1>1, <3>1, <3>2, <3>3 DEF Elems
  <2> QED BY <1>0, <2>1, <2>2
<1> HIDE DEF l, r
<1>3. Elems(q) \subseteq Elems(l) \union Elems(r) BY <1>2 DEF Elems
<1>4. l \o <<x>> \in Seq(S) /\ Elems(l) \union {x} \subseteq Elems(l \o <<x>>)
  BY <1>1, AppendHolds
<1>5. Elems(l \o <<x>>) \union Elems(r) \subseteq Elems((l \o <<x>>) \o r)
  BY <1>1, <1>4, ConcatHolds
<1>6. InsertAt(q, i, x) = (l \o <<x>>) \o r BY DEF InsertAt, l, r
<1> QED BY <1>3, <1>4, <1>5, <1>6

\* Capture keeps what was in flight and sends the event to every reader.
LEMMA CapturedHolds ==
    ASSUME NEW q \in [Edge -> Seq(Event)], NEW s \in Site, NEW ev \in Event, NEW e \in Edge
    PROVE  /\ Elems(q[e]) \subseteq Elems(Captured(q, s, <<ev>>)[e])
           /\ e[1] = s => ev \in Elems(Captured(q, s, <<ev>>)[e])
<1>1. Captured(q, s, <<ev>>)[e] = IF e[1] = s THEN q[e] \o <<ev>> ELSE q[e]
  BY DEF Captured
<1>2. Elems(q[e]) \union {ev} \subseteq Elems(q[e] \o <<ev>>) BY AppendHolds
<1> QED BY <1>1, <1>2

\* What is in flight besides the event at hand of edge e.
Keeps(e, rest) ==
    /\ Within(rest)
    /\ \A f \in Edge : Elems(queue[f]) \subseteq
          Elems(rest[f]) \union (IF f = e THEN {Head(queue[e])} ELSE {})

\* A sink's step applies the event at hand, which then may or may not stay in
\* flight, or leaves it there.
LEMMA SinkStepKeeps ==
    ASSUME TypeOK, NEW e \in Edge, NEW n \in Nat, SinkStep(e, n)
    PROVE  /\ deletes' = deletes
           /\ \/ \E rest : Keeps(e, rest) /\ Apply(e[1], e[2], Head(queue[e]), n, rest)
              \/ /\ tbl' = tbl /\ Within(queue')
                 /\ \A f \in Edge : Elems(queue[f]) \subseteq Elems(queue'[f])
<1>0. queue[e] # <<>> /\ queue[e] \in Seq(Event) /\ queue \in [Edge -> Seq(Event)]
  BY DEF SinkStep, Deliver, AckLost, Nak, TypeOK
<1>1. Keeps(e, [queue EXCEPT ![e] = Tail(@)])
  <2>1. Within([queue EXCEPT ![e] = Tail(@)]) BY <1>0, HeadInFlight
  <2>2. Elems(queue[e]) \subseteq Elems(Tail(queue[e])) \union {Head(queue[e])}
    BY <1>0, TailHolds
  <2> QED BY <1>0, <2>1, <2>2 DEF Keeps
<1>2. ASSUME NEW i \in 1 .. Len(queue[e])
      PROVE  /\ Within(Requeued(e, i)) /\ Keeps(e, Requeued(e, i))
             /\ \A f \in Edge : Elems(queue[f]) \subseteq Elems(Requeued(e, i)[f])
  <2>1. Within(Requeued(e, i)) BY <1>0, RequeuedWithin
  <2>2. Tail(queue[e]) \in Seq(Event) /\ Head(queue[e]) \in Event BY <1>0, TailElems
  <2>3. i \in 1 .. Len(Tail(queue[e])) + 1 BY <1>0
  <2>4. Elems(Tail(queue[e])) \union {Head(queue[e])}
          \subseteq Elems(InsertAt(Tail(queue[e]), i, Head(queue[e])))
    BY <2>2, <2>3, InsertHolds
  <2>5. Elems(queue[e]) \subseteq Elems(Tail(queue[e])) \union {Head(queue[e])}
    BY <1>0, TailHolds
  <2>6. Requeued(e, i) = [queue EXCEPT ![e] = InsertAt(Tail(queue[e]), i, Head(queue[e]))]
    BY DEF Requeued
  <2>7. \A f \in Edge : Elems(queue[f]) \subseteq Elems(Requeued(e, i)[f])
    BY <1>0, <2>4, <2>5, <2>6
  <2> QED BY <2>1, <2>7 DEF Keeps
<1>3. CASE Deliver(e, n) BY <1>1, <1>3 DEF Deliver
<1>4. CASE \E i \in 1 .. Len(queue[e]) : AckLost(e, n, i) BY <1>2, <1>4 DEF AckLost
<1>5. CASE \E i \in 1 .. Len(queue[e]) : Nak(e, i) BY <1>2, <1>5 DEF Nak
<1> QED BY <1>3, <1>4, <1>5 DEF SinkStep

\* Newer orders the copies of a key: it is transitive and strict, and between
\* two different copies one wins.
LEMMA NewerOrders ==
    ASSUME NEW S, \A c \in S : c.ver \in Nat /\ c.org \in Site
    PROVE  /\ \A a, b, c \in S : Newer(a, b) /\ Newer(b, c) => Newer(a, c)
           /\ \A a, b \in S : ~ (Newer(a, b) /\ Newer(b, a))
           /\ \A a, b \in S : \/ Newer(a, b) \/ Newer(b, a)
                              \/ a.ver = b.ver /\ a.org = b.org
<1>1. \A c \in S : Rank[c.org] \in Nat BY TopologyAssumption
<1>2. \A a, b \in S : Rank[a.org] = Rank[b.org] => a.org = b.org BY TopologyAssumption
<1>3. ASSUME NEW a \in S, NEW b \in S, NEW c \in S, Newer(a, b), Newer(b, c)
      PROVE  Newer(a, c)
  BY <1>1, <1>3 DEF Newer
<1>4. ASSUME NEW a \in S, NEW b \in S PROVE ~ (Newer(a, b) /\ Newer(b, a))
  BY <1>1 DEF Newer
<1>5. ASSUME NEW a \in S, NEW b \in S
      PROVE  Newer(a, b) \/ Newer(b, a) \/ (a.ver = b.ver /\ a.org = b.org)
  BY <1>1, <1>2 DEF Newer
<1> QED BY <1>3, <1>4, <1>5

\* Site d stores row r, or one of its key that won against it.
Covers(d, r) == \E x \in tbl[d] : x.key = r.key /\ (x = r \/ Newer(x, r))

\* What a site stores is covered at every site that reads its stream, or on its
\* way there.
Propagates ==
    \A e \in Edge : \A r \in tbl[e[1]] :
        Covers(e[2], r) \/ Upserted(r) \in Elems(queue[e])

\* A copy is covered at the site that stamped it, which may skip it.
KnownAtOrigin == \A c \in Copies : Covers(c.org, c)

NoDeletes == \A e \in Edge : \A ev \in Elems(queue[e]) : ~ ev.del
OnlyDeletes == \A e \in Edge : \A ev \in Elems(queue[e]) : ev.del

\* What is deleted at a site is deleted at every site that reads its stream, or
\* the delete is on its way there.
DeletesPropagate ==
    \A e \in Edge : \A r \in tbl[e[2]] :
        r \in tbl[e[1]] \/ \E ev \in Elems(queue[e]) : ev.row.key = r.key

Writing == NoDeletes /\ Propagates /\ KnownAtOrigin
Deleting == OnlyDeletes /\ DeletesPropagate

ConvergenceInv == CausalInv /\ (Writing \/ Deleting)

\* Drained streams hold nothing.
LEMMA QuietIs ==
    ASSUME TypeOK
    PROVE  Quiet <=> \A e \in Edge : Elems(queue[e]) = {}
<1>1. ASSUME NEW e \in Edge PROVE queue[e] = <<>> <=> Elems(queue[e]) = {}
  <2>1. queue[e] \in Seq(Event) BY DEF TypeOK
  <2>2. queue[e] # <<>> => Head(queue[e]) \in Elems(queue[e]) BY <2>1, TailElems
  <2>3. ASSUME queue[e] = <<>> PROVE Elems(queue[e]) = {}
    <3>1. Elems(<<>>) = {} BY DEF Elems
    <3> QED BY <2>3, <3>1
  <2> QED BY <2>2, <2>3
<1> QED BY <1>1 DEF Quiet

\* With drained streams what one site stores is covered at every other.
LEMMA QuietCovers ==
    ASSUME Connected, CausalInv, Propagates, Quiet,
           NEW s \in Site, NEW t \in Site, NEW r \in tbl[s]
    PROVE  Covers(t, r)
<1> USE DEF CausalInv, StampInv
<1> DEFINE S == {d \in Site : Covers(d, r)}
<1>1. s \in S BY DEF Covers
<1>2. \A e \in Edge : Elems(queue[e]) = {} BY QuietIs
<1>3. \A c \in Copies : c.ver \in Nat /\ c.org \in Site BY CopiesType
<1>4. \A a, b, c \in Copies : Newer(a, b) /\ Newer(b, c) => Newer(a, c)
  BY <1>3, NewerOrders
<1>5. ASSUME NEW e \in Edge, e[1] \in S PROVE e[2] \in S
  <2>1. e[2] \in Site BY SiteOfEdge
  <2>2. PICK x \in tbl[e[1]] : x.key = r.key /\ (x = r \/ Newer(x, r)) BY <1>5 DEF Covers
  <2>3. Covers(e[2], x) BY <1>2 DEF Propagates
  <2>4. PICK y \in tbl[e[2]] : y.key = x.key /\ (y = x \/ Newer(y, x)) BY <2>3 DEF Covers
  <2>5. x \in Copies /\ y \in Copies /\ r \in Copies BY <1>5, <2>1, StoredAreCopies
  <2>6. y.key = r.key /\ (y = r \/ Newer(y, r)) BY <1>4, <2>2, <2>4, <2>5
  <2> QED BY <2>1, <2>6 DEF Covers
<1> HIDE DEF S
<1>6. S \subseteq Site BY DEF S
<1>7. S = Site BY <1>1, <1>5, <1>6 DEF Connected
<1> QED BY <1>7 DEF S

\* With drained streams all sites hold the same rows, whichever phase is over.
LEMMA QuietConverges ==
    ASSUME Connected, ConvergenceInv, Quiet
    PROVE  \A s, t \in Site : tbl[s] = tbl[t]
<1> USE DEF ConvergenceInv, CausalInv, StampInv
<1>1. CASE Writing
  <2>1. ASSUME NEW s \in Site, NEW t \in Site, NEW r \in tbl[s] PROVE r \in tbl[t]
    <3>1. Covers(t, r) BY <1>1, QuietCovers DEF Writing
    <3>2. PICK x \in tbl[t] : x.key = r.key /\ (x = r \/ Newer(x, r)) BY <3>1 DEF Covers
    <3>3. Covers(s, x) BY <1>1, QuietCovers DEF Writing
    <3>4. PICK y \in tbl[s] : y.key = x.key /\ (y = x \/ Newer(y, x)) BY <3>3 DEF Covers
    <3>5. y = r BY <3>2, <3>4 DEF OneRowPerKey
    <3>6. x \in Copies /\ r \in Copies BY StoredAreCopies
    <3>7. \A c \in Copies : c.ver \in Nat /\ c.org \in Site BY CopiesType
    <3>8. ~ (Newer(x, r) /\ Newer(r, x)) BY <3>6, <3>7, NewerOrders
    <3> QED BY <3>2, <3>4, <3>5, <3>8
  <2> QED BY <2>1
<1>2. CASE Deleting
  <2>1. \A e \in Edge : tbl[e[2]] \subseteq tbl[e[1]]
    BY <1>2, QuietIs DEF Deleting, DeletesPropagate
  <2>2. ASSUME NEW s \in Site, NEW t \in Site, NEW r \in tbl[s] PROVE r \in tbl[t]
    <3> DEFINE S == {d \in Site : r \notin tbl[d]}
    <3> SUFFICES ASSUME t \in S PROVE FALSE OBVIOUS
    <3>1. \A e \in Edge : e[1] \in S => e[2] \in S BY <2>1, SiteOfEdge
    <3>2. s \notin S BY <2>2
    <3>3. S \in SUBSET Site OBVIOUS
    <3> HIDE DEF S
    <3> QED BY <3>1, <3>2, <3>3 DEF Connected
  <2> QED BY <2>2
<1> QED BY <1>1, <1>2

\* Then a write and a delete may both start.
LEMMA QuietIsBoth ==
    ASSUME Connected, ConvergenceInv, Quiet
    PROVE  Writing /\ Deleting
<1> USE DEF ConvergenceInv, CausalInv, StampInv
<1>1. \A s, t \in Site : tbl[s] = tbl[t] BY QuietConverges
<1>2. \A e \in Edge : Elems(queue[e]) = {} BY QuietIs
<1>3. \A e \in Edge : e[1] \in Site /\ e[2] \in Site BY SiteOfEdge
<1>4. NoDeletes /\ OnlyDeletes BY <1>2 DEF NoDeletes, OnlyDeletes
<1>5. Propagates BY <1>1, <1>3 DEF Propagates, Covers
<1>6. DeletesPropagate BY <1>1, <1>3 DEF DeletesPropagate
<1>7. KnownAtOrigin
  <2>1. ASSUME NEW c \in Copies PROVE Covers(c.org, c)
    <3>1. PICK s \in Site : c \in tbl[s] BY <1>2, CopiesAre
    <3>2. c.org \in Site BY CopiesType
    <3> QED BY <1>1, <3>1, <3>2 DEF Covers
  <2> QED BY <2>1 DEF KnownAtOrigin
<1> QED BY <1>4, <1>5, <1>6, <1>7 DEF Writing, Deleting

\* Covers, in the state after a step.
CoversNext(d, r) == \E x \in tbl'[d] : x.key = r.key /\ (x = r \/ Newer(x, r))

\* Row r takes the place of the others of its key at s and wins against them.
Puts(s, r) ==
    /\ r.ver \in Nat /\ r.org \in Site
    /\ tbl'[s] = (tbl[s] \ At(s, r.key)) \union {r}
    /\ \A old \in At(s, r.key) : Newer(r, old)

\* What is covered at a site stays covered when it keeps its rows or puts one.
LEMMA CoversStay ==
    ASSUME TypeOK, NEW s \in Site, tbl'[s] = tbl[s] \/ \E r : Puts(s, r),
           NEW c, c.ver \in Nat, c.org \in Site, Covers(s, c)
    PROVE  CoversNext(s, c)
<1>1. PICK x \in tbl[s] : x.key = c.key /\ (x = c \/ Newer(x, c)) BY DEF Covers
<1>2. x.ver \in Nat /\ x.org \in Site BY DEF TypeOK, Row
<1>3. CASE tbl'[s] = tbl[s] BY <1>1, <1>3 DEF CoversNext
<1>4. ASSUME NEW r, Puts(s, r) PROVE CoversNext(s, c)
  <2>1. r \in tbl'[s] BY <1>4 DEF Puts
  <2>2. CASE x.key = r.key
    <3>1. Newer(r, x) BY <1>4, <2>2 DEF Puts, At
    <3>2. \A a, b, d \in {r, x, c} : Newer(a, b) /\ Newer(b, d) => Newer(a, d)
      <4>1. \A a \in {r, x, c} : a.ver \in Nat /\ a.org \in Site BY <1>2, <1>4 DEF Puts
      <4> QED BY <4>1, NewerOrders
    <3>3. x = c \/ Newer(x, c) BY <1>1
    <3>4. Newer(r, c) BY <3>1, <3>2, <3>3
    <3> QED BY <1>1, <2>1, <2>2, <3>4 DEF CoversNext
  <2>3. CASE x.key # r.key
    <3>1. x \in tbl'[s] BY <1>4, <2>3 DEF Puts, At
    <3> QED BY <1>1, <3>1 DEF CoversNext
  <2> QED BY <2>2, <2>3
<1> QED BY <1>3, <1>4

\* A step that puts rows, sends them on, and lets go only of events that are
\* covered where they were going, keeps what is said of writing.
LEMMA WritingStays ==
    ASSUME TypeOK, Writing,
           \A s \in Site : tbl'[s] = tbl[s] \/ \E r : Puts(s, r),
           \A e \in Edge : \A ev \in Elems(queue'[e]) : ~ ev.del,
           \A e \in Edge : \A r \in tbl'[e[1]] :
              r \in tbl[e[1]] \/ Upserted(r) \in Elems(queue'[e]),
           \A e \in Edge : \A ev \in Elems(queue[e]) :
              ev \in Elems(queue'[e]) \/ CoversNext(e[2], ev.row),
           \A c \in Copies' : c \in Copies \/ CoversNext(c.org, c)
    PROVE  Writing'
<1> USE DEF Writing
<1>1. \A c \in Copies : c.ver \in Nat /\ c.org \in Site BY CopiesType
<1>2. NoDeletes' BY DEF NoDeletes
<1>3. \A e \in Edge : \A r \in tbl'[e[1]] :
         CoversNext(e[2], r) \/ Upserted(r) \in Elems(queue'[e])
  <2> SUFFICES ASSUME NEW e \in Edge, NEW r \in tbl'[e[1]], Upserted(r) \notin Elems(queue'[e])
               PROVE  CoversNext(e[2], r)
    OBVIOUS
  <2>0. e[1] \in Site /\ e[2] \in Site BY SiteOfEdge
  <2>1. r \in tbl[e[1]] OBVIOUS
  <2>2. r \in Copies BY <2>0, <2>1, StoredAreCopies
  <2>3. CASE Covers(e[2], r) BY <1>1, <2>0, <2>2, <2>3, CoversStay
  <2>4. CASE Upserted(r) \in Elems(queue[e])
    <3>1. Upserted(r).row = r BY DEF Upserted
    <3> QED BY <2>4, <3>1
  <2> QED BY <2>1, <2>3, <2>4 DEF Propagates
<1>4. Propagates' BY <1>3 DEF Propagates, Covers, CoversNext
<1>5. \A c \in Copies' : CoversNext(c.org, c)
  BY <1>1, CoversStay DEF KnownAtOrigin
<1>6. KnownAtOrigin' BY <1>5 DEF KnownAtOrigin, Covers, CoversNext
<1> QED BY <1>2, <1>4, <1>6

\* A native write keeps what is said of writing.
LEMMA NativeWriteWrites ==
    ASSUME CausalInv, Writing, LcFits, [Next]_vars,
           NEW s \in Site, NEW k \in Key, NEW n \in Nat, NativeWrite(s, k, n)
    PROVE  Writing'
<1> USE DEF CausalInv, StampInv
<1> DEFINE new == Stamped(s, k, Tick(hlc[s], n))
<1>1. /\ tbl' = [tbl EXCEPT ![s] = (@ \ At(s, k)) \union {new}]
      /\ Tick(hlc[s], n) \in Clock /\ new \in Row
  BY NativeWriteDoes
<1>2. queue' = Captured(queue, s, <<Upserted(new)>>) BY DEF NativeWrite
<1>3. new.key = k /\ new.org = s /\ new.ver = Version(Tick(hlc[s], n)) BY DEF Stamped
<1>4. new.ver \in Nat /\ Version(hlc[s]) < new.ver /\ Version(hlc[s]) \in Nat
  <2>1. hlc[s] \in Clock /\ Version(hlc[s]) \in Nat BY HlcVersions
  <2> QED BY <1>1, <1>3, <2>1, TickAdvances, VersionType DEF LcFits
<1>5. Copies' \subseteq Copies \union {new}
  <2>1. \A e \in Edge : \A x \in Elems(queue'[e]) : x \in Elems(queue[e]) \/ x.row = new
    BY NativeWriteDoes
  <2> HIDE DEF new
  <2>2. \A t \in Site : tbl'[t] \subseteq tbl[t] \union {new} BY <1>1 DEF TypeOK
  <2> QED BY <2>1, <2>2, CopiesAre, CopiesAre2
<1> HIDE DEF new
<1>6. Puts(s, new)
  <2>1. tbl'[s] = (tbl[s] \ At(s, new.key)) \union {new} BY <1>1, <1>3 DEF TypeOK
  <2>2. \A old \in At(s, new.key) : old.ver \in Nat /\ old.ver <= Version(hlc[s])
    BY CopiesType, StoredAreCopies DEF At, SiteCovers
  <2>3. \A old \in At(s, new.key) : Newer(new, old) BY <1>4, <2>2 DEF Newer
  <2> QED BY <1>3, <1>4, <2>1, <2>3 DEF Puts
<1>7. \A t \in Site : t # s => tbl'[t] = tbl[t] BY <1>1 DEF TypeOK
<1>8. Upserted(new) \in Event /\ ~ Upserted(new).del BY <1>1 DEF Upserted, Event
<1>9. queue \in [Edge -> Seq(Event)] BY DEF TypeOK
<1>10. \A e \in Edge : /\ Elems(queue[e]) \subseteq Elems(queue'[e])
                       /\ e[1] = s => Upserted(new) \in Elems(queue'[e])
  BY <1>2, <1>8, <1>9, CapturedHolds
<1>11. \A e \in Edge : Elems(queue'[e]) \subseteq Elems(queue[e]) \union {Upserted(new)}
  BY <1>2, <1>8, <1>9, CapturedAdds
<1>12. \A e \in Edge : \A ev \in Elems(queue'[e]) : ~ ev.del
  BY <1>8, <1>11 DEF Writing, NoDeletes
<1>13. \A e \in Edge : \A r \in tbl'[e[1]] :
          r \in tbl[e[1]] \/ Upserted(r) \in Elems(queue'[e])
  <2>1. \A r \in tbl'[s] : r \in tbl[s] \/ r = new BY <1>6 DEF Puts
  <2> QED BY <1>7, <1>10, <2>1, SiteOfEdge
<1>14. CoversNext(new.org, new)
  <2>1. new \in tbl'[s] BY <1>6 DEF Puts
  <2> QED BY <1>3, <2>1 DEF CoversNext
<1>15. \A t \in Site : tbl'[t] = tbl[t] \/ \E r : Puts(t, r) BY <1>6, <1>7
<1>16. \A c \in Copies' : c \in Copies \/ CoversNext(c.org, c) BY <1>5, <1>14
<1> QED BY <1>10, <1>12, <1>13, <1>15, <1>16, WritingStays

\* A sink's step keeps what is said of writing.
LEMMA SinkStepWrites ==
    ASSUME CausalInv, Writing, [Next]_vars, NEW e \in Edge, NEW n \in Nat, SinkStep(e, n)
    PROVE  Writing'
<1> USE DEF CausalInv, StampInv
<1> DEFINE d == e[2]
           ev == Head(queue[e])
           r == ev.row
<1>0. e[1] \in Site /\ d \in Site BY SiteOfEdge
<1>1. ev \in Elems(queue[e]) /\ ev \in Event /\ ApplyOutcome(d, ev)
  BY SinkStepDoes
<1>2. ~ ev.del BY <1>1 DEF Writing, NoDeletes
<1>3. r \in Copies /\ r \in Row /\ r.ver \in Nat /\ r.org \in Site
  <2>1. r \in Copies BY <1>1, CopiesAre
  <2> QED BY <2>1, CopiesType
<1>4. Copies' \subseteq Copies
  <2>1. \A t \in Site : tbl'[t] \subseteq tbl[t] \union {r} BY <1>0, <1>1 DEF ApplyOutcome
  <2>2. \A f \in Edge : \A x \in Elems(queue'[f]) :
           x \in Elems(queue[f]) \/ x.row = r \/ x.row \in tbl[d]
    BY <1>1 DEF ApplyOutcome
  <2> HIDE DEF d, ev, r
  <2> QED BY <1>0, <1>3, <2>1, <2>2, CopiesAre, CopiesAre2
<1>5. ASSUME tbl' = tbl, Within(queue'),
             \A f \in Edge : Elems(queue[f]) \subseteq
                Elems(queue'[f]) \union (IF f = e THEN {ev} ELSE {}),
             ev \in Elems(queue'[e]) \/ Covers(d, r)
      PROVE  Writing'
  <2>1. \A f \in Edge : \A x \in Elems(queue'[f]) : ~ x.del
    BY <1>5 DEF Within, Writing, NoDeletes
  <2>2. \A f \in Edge : \A x \in Elems(queue[f]) :
           x \in Elems(queue'[f]) \/ CoversNext(f[2], x.row)
    <3>1. Covers(d, r) => CoversNext(d, r) BY <1>5 DEF Covers, CoversNext
    <3> QED BY <1>5, <3>1
  <2> HIDE DEF d, ev, r
  <2> QED BY <1>4, <1>5, <2>1, <2>2, WritingStays
<1>6. ASSUME NEW rest, Keeps(e, rest), Apply(e[1], d, ev, n, rest)
      PROVE  Writing'
  <2>1. CASE Skipped(e[1], d, ev)
    <3>1. tbl' = tbl /\ queue' = rest /\ r.org = d BY <1>6, <2>1 DEF Apply, Skipped
    <3>2. Covers(d, r) BY <1>3, <3>1 DEF Writing, KnownAtOrigin
    <3> QED BY <1>5, <1>6, <3>1, <3>2 DEF Keeps
  <2>2. CASE ~ Skipped(e[1], d, ev)
    <3>0. Upsert(d, r, n, rest) BY <1>2, <1>6, <2>2 DEF Apply
    <3>1. CASE ~ Accepted(d, r)
      <4>1. tbl' = tbl /\ queue' = rest BY <3>0, <3>1 DEF Upsert
      <4>2. PICK old \in At(d, r.key) : ~ Newer(r, old) BY <3>1 DEF Accepted
      <4>3. old \in tbl[d] /\ old.key = r.key BY DEF At
      <4>4. old \in Copies BY <1>0, <4>3, StoredAreCopies
      <4>5. \A c \in Copies : c.ver \in Nat /\ c.org \in Site BY CopiesType
      <4>6. Newer(r, old) \/ Newer(old, r) \/ (r.ver = old.ver /\ r.org = old.org)
        BY <1>3, <4>4, <4>5, NewerOrders
      <4>7. old = r \/ Newer(old, r) BY <1>3, <4>2, <4>4, <4>6 DEF UniqueStamps
      <4>8. Covers(d, r) BY <4>3, <4>7 DEF Covers
      <4> QED BY <1>5, <1>6, <4>1, <4>8 DEF Keeps
    <3>2. CASE Accepted(d, r)
      <4>1. /\ tbl' = [tbl EXCEPT ![d] = (@ \ At(d, r.key)) \union {r}]
            /\ queue' = Captured(rest, d, <<Upserted(r)>>)
        BY <3>0, <3>2 DEF Upsert
      <4>2. rest \in [Edge -> Seq(Event)] BY <1>6 DEF Keeps, Within
      <4>3. Upserted(r) \in Event /\ ~ Upserted(r).del BY <1>3 DEF Upserted, Event
      <4>4. \A old \in At(d, r.key) : Newer(r, old) BY <3>2 DEF Accepted
      <4>5. \A f \in Edge : Elems(queue[f]) \subseteq
               Elems(rest[f]) \union (IF f = e THEN {ev} ELSE {})
        BY <1>6 DEF Keeps
      <4>6. \A f \in Edge : Elems(rest[f]) \subseteq Elems(queue[f])
        BY <1>6 DEF Keeps, Within
      <4> HIDE DEF d, r
      <4>7. Puts(d, r) /\ \A t \in Site : t # d => tbl'[t] = tbl[t]
        BY <1>0, <1>3, <4>1, <4>4 DEF Puts, TypeOK
      <4>8. \A f \in Edge : /\ Elems(rest[f]) \subseteq Elems(queue'[f])
                            /\ f[1] = d => Upserted(r) \in Elems(queue'[f])
        BY <1>0, <4>1, <4>2, <4>3, CapturedHolds
      <4>9. \A f \in Edge : Elems(queue'[f]) \subseteq Elems(rest[f]) \union {Upserted(r)}
        BY <1>0, <4>1, <4>2, <4>3, CapturedAdds
      <4>10. \A f \in Edge : \A x \in Elems(queue'[f]) : ~ x.del
        BY <4>3, <4>6, <4>9 DEF Writing, NoDeletes
      <4>11. \A f \in Edge : \A y \in tbl'[f[1]] :
                y \in tbl[f[1]] \/ Upserted(y) \in Elems(queue'[f])
        <5>1. \A y \in tbl'[d] : y \in tbl[d] \/ y = r BY <4>7 DEF Puts
        <5> QED BY <4>7, <4>8, <5>1, SiteOfEdge
      <4>12. CoversNext(d, r)
        <5>1. r \in tbl'[d] BY <4>7 DEF Puts
        <5> QED BY <5>1 DEF CoversNext
      <4>13. \A f \in Edge : \A x \in Elems(queue[f]) :
                x \in Elems(queue'[f]) \/ CoversNext(f[2], x.row)
        BY <4>5, <4>8, <4>12 DEF d, r
      <4>14. \A t \in Site : tbl'[t] = tbl[t] \/ \E x : Puts(t, x) BY <4>7
      <4> QED BY <1>4, <4>10, <4>11, <4>13, <4>14, WritingStays
    <3> QED BY <3>1, <3>2
  <2> QED BY <2>1, <2>2
<1>7. CASE /\ tbl' = tbl /\ Within(queue')
           /\ \A f \in Edge : Elems(queue[f]) \subseteq Elems(queue'[f])
  BY <1>1, <1>5, <1>7
<1> QED BY <1>6, <1>7, SinkStepKeeps

\* With drained streams and equal tables, a native delete is the only thing in
\* flight.
LEMMA NativeDeleteDeletes ==
    ASSUME TypeOK, Quiet, \A s, t \in Site : tbl[s] = tbl[t],
           NEW s \in Site, NEW r \in tbl[s], NativeDelete(s, r)
    PROVE  Deleting'
<1>1. /\ tbl' = [tbl EXCEPT ![s] = @ \ {r}]
      /\ queue' = Captured(queue, s, <<Deleted(r)>>)
  BY DEF NativeDelete
<1>2. Deleted(r) \in Event /\ Deleted(r).row = r /\ Deleted(r).del
  BY DEF Deleted, Event, TypeOK
<1>3. \A e \in Edge : Elems(queue[e]) = {} BY QuietIs
<1>4. queue \in [Edge -> Seq(Event)] BY DEF TypeOK
<1>5. \A e \in Edge : e[1] = s => Deleted(r) \in Elems(queue'[e])
  BY <1>1, <1>2, <1>4, CapturedHolds
<1>6. \A e \in Edge : Elems(queue'[e]) \subseteq Elems(queue[e]) \union {Deleted(r)}
  BY <1>1, <1>2, <1>4, CapturedAdds
<1>7. OnlyDeletes' BY <1>2, <1>3, <1>6 DEF OnlyDeletes
<1>8. DeletesPropagate'
  <2> SUFFICES ASSUME NEW e \in Edge, NEW x \in tbl'[e[2]]
      PROVE x \in tbl'[e[1]] \/ \E ev \in Elems(queue'[e]) : ev.row.key = x.key
    BY DEF DeletesPropagate
  <2>1. e[1] \in Site /\ e[2] \in Site BY SiteOfEdge
  <2>2. x \in tbl[e[1]] BY <1>1, <2>1 DEF TypeOK
  <2>3. CASE e[1] # s BY <1>1, <2>1, <2>2, <2>3 DEF TypeOK
  <2>4. CASE e[1] = s /\ x # r BY <1>1, <2>2, <2>4 DEF TypeOK
  <2>5. CASE e[1] = s /\ x = r BY <1>2, <1>5, <2>5
  <2> QED BY <2>3, <2>4, <2>5
<1> QED BY <1>7, <1>8 DEF Deleting

\* A sink's step keeps what is said of deleting: a Postgres member never skips
\* a delete, and passes it on when it had the row.
LEMMA SinkStepDeletes ==
    ASSUME PostgresOnly, CausalInv, Deleting, NEW e \in Edge, NEW n \in Nat, SinkStep(e, n)
    PROVE  Deleting'
<1> USE DEF CausalInv, StampInv
<1> DEFINE d == e[2]
           ev == Head(queue[e])
           k == ev.row.key
<1>0. e[1] \in Site /\ d \in Site BY SiteOfEdge
<1>1. ev \in Elems(queue[e]) /\ ev \in Event BY SinkStepDoes
<1>2. ev.del BY <1>1 DEF Deleting, OnlyDeletes
<1>3. CASE /\ tbl' = tbl /\ Within(queue')
           /\ \A f \in Edge : Elems(queue[f]) \subseteq Elems(queue'[f])
  BY <1>3 DEF Deleting, OnlyDeletes, DeletesPropagate, Within
<1>4. ASSUME NEW rest, Keeps(e, rest), Apply(e[1], d, ev, n, rest)
      PROVE  Deleting'
  <2>1. Delete(d, k, rest)
    <3>1. ~ Skipped(e[1], d, ev) BY <1>0, <1>2 DEF Skipped, PostgresOnly
    <3> QED BY <1>2, <1>4, <3>1 DEF Apply
  <2>2. /\ rest \in [Edge -> Seq(Event)]
        /\ \A f \in Edge : Elems(rest[f]) \subseteq Elems(queue[f])
        /\ \A f \in Edge : Elems(queue[f]) \subseteq
              Elems(rest[f]) \union (IF f = e THEN {ev} ELSE {})
    BY <1>4 DEF Keeps, Within
  <2>3. \A f \in Edge : \A x \in tbl[f[2]] :
           x \in tbl[f[1]] \/ \E y \in Elems(queue[f]) : y.row.key = x.key
    BY DEF Deleting, DeletesPropagate
  <2>4. CASE At(d, k) = {}
    <3>1. tbl' = tbl /\ queue' = rest BY <2>1, <2>4 DEF Delete
    <3>2. OnlyDeletes' BY <2>2, <3>1 DEF Deleting, OnlyDeletes
    <3>3. \A x \in tbl[d] : x.key # k BY <2>4 DEF At
    <3> HIDE DEF d, k
    <3>4. ASSUME NEW f \in Edge, NEW x \in tbl[f[2]]
          PROVE  x \in tbl[f[1]] \/ \E y \in Elems(rest[f]) : y.row.key = x.key
      <4>1. CASE f # e BY <2>2, <2>3, <4>1
      <4>2. CASE f = e
        <5>1. x.key # k BY <3>3, <4>2 DEF d
        <5> QED BY <2>2, <2>3, <4>2, <5>1 DEF k
      <4> QED BY <4>1, <4>2
    <3>5. DeletesPropagate' BY <3>1, <3>4 DEF DeletesPropagate
    <3> QED BY <3>2, <3>5 DEF Deleting
  <2>5. CASE At(d, k) # {}
    <3>1. PICK old \in At(d, k) :
             /\ tbl' = [tbl EXCEPT ![d] = @ \ {old}]
             /\ queue' = Captured(rest, d, <<Deleted(old)>>)
      BY <2>1, <2>5 DEF Delete
    <3>2. old \in tbl[d] /\ old.key = k BY DEF At
    <3>3. Deleted(old) \in Event /\ Deleted(old).row = old /\ Deleted(old).del
      BY <1>0, <3>2 DEF Deleted, Event, TypeOK
    <3>4. \A x \in tbl[d] : x.key = k => x = old BY <1>0, <3>2 DEF OneRowPerKey
    <3> HIDE DEF d, k
    <3>5. \A f \in Edge : /\ Elems(rest[f]) \subseteq Elems(queue'[f])
                          /\ f[1] = d => Deleted(old) \in Elems(queue'[f])
      BY <1>0, <2>2, <3>1, <3>3, CapturedHolds
    <3>6. \A f \in Edge : Elems(queue'[f]) \subseteq Elems(rest[f]) \union {Deleted(old)}
      BY <1>0, <2>2, <3>1, <3>3, CapturedAdds
    <3>7. OnlyDeletes' BY <2>2, <3>3, <3>6 DEF Deleting, OnlyDeletes
    <3>8. tbl'[d] = tbl[d] \ {old} /\ \A t \in Site : t # d => tbl'[t] = tbl[t]
      BY <1>0, <3>1 DEF TypeOK
    <3>9. ASSUME NEW f \in Edge, NEW x \in tbl'[f[2]]
          PROVE  x \in tbl'[f[1]] \/ \E y \in Elems(queue'[f]) : y.row.key = x.key
      <4>0. f[1] \in Site /\ f[2] \in Site /\ x \in tbl[f[2]] BY <3>8, SiteOfEdge
      <4>1. CASE \E y \in Elems(queue[f]) : y.row.key = x.key
        <5>1. PICK y \in Elems(queue[f]) : y.row.key = x.key BY <4>1
        <5>2. CASE y \in Elems(rest[f]) BY <3>5, <5>1, <5>2
        <5>3. CASE f = e /\ y = ev
          <6>1. x \in tbl[d] /\ x # old /\ x.key = k
            BY <3>8, <4>0, <5>1, <5>3 DEF d, k
          <6> QED BY <3>4, <6>1
        <5> QED BY <2>2, <5>2, <5>3
      <4>2. CASE x \in tbl[f[1]]
        <5>1. CASE x \in tbl'[f[1]] BY <5>1
        <5>2. CASE x \notin tbl'[f[1]]
          <6>1. f[1] = d /\ x = old BY <3>8, <4>0, <4>2, <5>2
          <6> QED BY <3>3, <3>5, <6>1
        <5> QED BY <5>1, <5>2
      <4> QED BY <2>3, <4>0, <4>1, <4>2
    <3>10. DeletesPropagate' BY <3>9 DEF DeletesPropagate
    <3> QED BY <3>7, <3>10 DEF Deleting
  <2> QED BY <2>4, <2>5
<1> QED BY <1>3, <1>4, SinkStepKeeps

\* Every step keeps the invariant of convergence.
LEMMA ConvergenceStep ==
    ASSUME PostgresOnly, SerialDeletes, Connected, ConvergenceInv, LcFits, [Next]_vars
    PROVE  ConvergenceInv'
<1>0. CausalInv /\ TypeOK BY DEF ConvergenceInv, CausalInv, StampInv
<1>1. CausalInv' BY <1>0, CausalStep
<1>2. ASSUME NEW s \in Site, NEW k \in Key, NEW n \in Nat, NativeWrite(s, k, n)
      PROVE  Writing'
  <2>1. ~ DeleteInFlight BY <1>2 DEF NativeWrite
  <2>2. NoDeletes BY <2>1 DEF DeleteInFlight, NoDeletes, Elems
  <2>3. Deleting => Quiet BY <1>0, <2>2, QuietIs DEF Deleting, OnlyDeletes, NoDeletes
  <2>4. Writing BY <2>3, QuietIsBoth DEF ConvergenceInv
  <2> QED BY <1>0, <1>2, <2>4, NativeWriteWrites
<1>3. ASSUME NEW s \in Site, NEW r \in tbl[s], NativeDelete(s, r)
      PROVE  Deleting'
  <2>1. Quiet BY <1>3 DEF NativeDelete
  <2>2. \A a, b \in Site : tbl[a] = tbl[b] BY <2>1, QuietConverges
  <2> QED BY <1>0, <1>3, <2>1, <2>2, NativeDeleteDeletes
<1>4. ASSUME NEW e \in Edge, NEW n \in Nat, SinkStep(e, n)
      PROVE  Writing' \/ Deleting'
  BY <1>0, <1>4, SinkStepWrites, SinkStepDeletes DEF ConvergenceInv
<1>5. CASE UNCHANGED vars
  <2>1. tbl' = tbl /\ queue' = queue BY <1>5 DEF vars
  <2>2. Copies' = Copies BY <2>1 DEF Copies, Stored, InFlight
  <2>3. Writing => Writing'
    BY <2>1, <2>2 DEF Writing, NoDeletes, Propagates, KnownAtOrigin, Covers
  <2>4. Deleting => Deleting' BY <2>1 DEF Deleting, OnlyDeletes, DeletesPropagate
  <2> QED BY <1>1, <2>3, <2>4 DEF ConvergenceInv
<1> QED BY <1>1, <1>2, <1>3, <1>4, <1>5, NextCases DEF ConvergenceInv

\* Postgres members that serialise their deletes hold the same rows whenever the
\* streams are drained: for any number of members, any topology in which every
\* one reaches every other, any wall clocks, and any lost or reordered delivery.
THEOREM MembersConverge ==
    ASSUME PostgresOnly, SerialDeletes, Connected
    PROVE  Spec /\ []LcFits => []ConvergedWhenQuiet
<1>1. Init => ConvergenceInv
  <2> SUFFICES ASSUME Init PROVE ConvergenceInv OBVIOUS
  <2>1. CausalInv /\ Copies = {} BY CausalInit, NoCopiesInitially
  <2>2. \A e \in Edge : Elems(queue[e]) = {} BY DEF Init, Elems
  <2>3. \A e \in Edge : tbl[e[1]] = {} BY SiteOfEdge DEF Init
  <2>4. Writing BY <2>1, <2>2, <2>3 DEF Writing, NoDeletes, Propagates, KnownAtOrigin
  <2> QED BY <2>1, <2>4 DEF ConvergenceInv
<1>2. ConvergenceInv /\ LcFits /\ [Next]_vars => ConvergenceInv'
  BY ConvergenceStep
<1>3. ConvergenceInv => ConvergedWhenQuiet
  BY QuietConverges DEF ConvergedWhenQuiet
<1> QED BY <1>1, <1>2, <1>3, PTL DEF Spec

=============================================================================
