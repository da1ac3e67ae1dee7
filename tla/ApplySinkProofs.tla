-------------------------- MODULE ApplySinkProofs --------------------------
(***************************************************************************)
(* The stream mode of apply-sink, for any stream, any number of sinks and  *)
(* any budgets: no event is lost, deliveries are bounded, only rejected    *)
(* rows are parked while the target answers, and the last image wins.      *)
(***************************************************************************)
EXTENDS ApplySink, FiniteSetTheorems, TLAPS

-----------------------------------------------------------------------------
(***************************************************************************)
(* The operators the model is built from.                                  *)
(***************************************************************************)

\* The constants as the provers use them.
LEMMA Bounds ==
    /\ KeyOf \in Seq(Key) /\ Poison \subseteq Msg
    /\ MaxDeliver \in Nat /\ 1 <= MaxDeliver /\ TransientMax \in Nat
    /\ MaxDeliver <= TransientMax /\ MaxFaults \in Nat /\ MaxOutages \in Nat
BY SinkAssumption

\* Events are numbered from 1.
LEMMA MsgIs == Msg = 1 .. Len(KeyOf) /\ Len(KeyOf) \in Nat /\ Msg \subseteq Nat \ {0}
           /\ \A m \in Msg : KeyOf[m] \in Key
<1>1. KeyOf \in Seq(Key) BY Bounds
<1>2. DOMAIN KeyOf = 1 .. Len(KeyOf) /\ Len(KeyOf) \in Nat BY <1>1
<1> QED BY <1>2 DEF Msg, Key

\* A set of events is finite.
LEMMA EventsFinite ==
    ASSUME NEW S, S \subseteq Msg
    PROVE  IsFiniteSet(S) /\ Cardinality(S) \in Nat /\ (S # {} => Cardinality(S) >= 1)
<1>1. IsFiniteSet(Msg) BY MsgIs, FS_Interval
<1>2. IsFiniteSet(S) BY <1>1, FS_Subset
<1>3. Cardinality(S) \in Nat BY <1>2, FS_CardinalityType
<1> QED BY <1>2, <1>3, FS_EmptySet

\* An arrangement of a set of events holds each of them.
LEMMA ArrangementOf ==
    ASSUME NEW S, S \subseteq Msg, NEW q \in SetToSeqs(S)
    PROVE  /\ q \in Seq(S) /\ Len(q) = Cardinality(S)
           /\ \A m \in S : \E j \in 1 .. Len(q) : q[j] = m
<1> DEFINE D == 1 .. Cardinality(S)
<1>1. q \in [D -> S] /\ \A j, k \in D : j # k => q[j] # q[k] BY DEF SetToSeqs
<1>2. Cardinality(S) \in Nat /\ IsFiniteSet(S) BY EventsFinite
<1>3. q \in Seq(S) /\ Len(q) = Cardinality(S) BY <1>1, <1>2
<1>4. q \in Injection(D, S) BY <1>1 DEF Injection, IsInjective
<1>5. Cardinality(D) = Cardinality(S) BY <1>2, FS_Interval
<1>6. q \in Surjection(D, S) BY <1>2, <1>4, <1>5, FS_Injection
<1>7. \A m \in S : \E j \in D : q[j] = m BY <1>6 DEF Surjection
<1> QED BY <1>3, <1>7

\* There is a least number in a set of them that has one.
LEMMA LeastOf ==
    ASSUME NEW S, S \subseteq Nat, S # {}
    PROVE  \E a \in S : \A b \in S : a <= b
<1> DEFINE less == {p \in Nat \X Nat : p[1] < p[2]}
<1>1. IsWellFoundedOn(less, Nat) BY NatLessThanWellFounded, Zenon DEF OpToRel
<1> HIDE DEF less
<1>2. PICK a \in S : \A b \in S : <<b, a>> \notin less BY <1>1, WFMin, Zenon
<1>3. ASSUME NEW b \in S PROVE a <= b
  <2>1. a \in Nat /\ b \in Nat OBVIOUS
  <2>2. b < a => <<b, a>> \in less BY <2>1 DEF less
  <2> QED BY <1>2, <2>1, <2>2
<1> QED BY <1>3

\* The images of a row.
Image == Msg \union {0}

\* What a row shows is one of the two images.
LEMMA UpsertedIs ==
    ASSUME NEW old \in Image, NEW m \in Msg
    PROVE  /\ Upserted(old, m) \in Image
           /\ Guarded /\ Deletes = {} => Upserted(old, m) >= old /\ Upserted(old, m) >= m
<1>1. old \in Nat /\ m \in Nat BY MsgIs DEF Image
<1>2. Upserted(old, m) \in {old, m} BY DEF Upserted
<1>3. ASSUME Guarded, Deletes = {} PROVE Upserted(old, m) = IF old > m THEN old ELSE m
  BY <1>3 DEF Upserted
<1> QED BY <1>1, <1>2, <1>3 DEF Image

\* The images a row goes through as the first n events of order are applied.
Through(old, order, n, row) ==
    /\ row \in [0 .. n -> Image] /\ row[0] = old
    /\ \A j \in 1 .. n : row[j] = Upserted(row[j - 1], order[j])

\* There are such images for every n: by the least n without.
LEMMA ThroughExists ==
    ASSUME NEW old \in Image, NEW order \in Seq(Msg), NEW n \in 0 .. Len(order)
    PROVE  \E row : Through(old, order, n, row)
<1> DEFINE without == {k \in 0 .. Len(order) : ~ \E row : Through(old, order, k, row)}
<1> SUFFICES ASSUME without # {} PROVE FALSE OBVIOUS
<1>0. Len(order) \in Nat OBVIOUS
<1>1. PICK k \in without : \A b \in without : k <= b
  <2>1. without \subseteq Nat BY <1>0
  <2> HIDE DEF without
  <2> QED BY <2>1, LeastOf
<1>2. k \in 0 .. Len(order) /\ ~ \E row : Through(old, order, k, row) BY <1>1
<1>3. CASE k = 0
  <2>1. Through(old, order, 0, [j \in 0 .. 0 |-> old])
    BY DEF Through
  <2> QED BY <1>2, <1>3, <2>1
<1>4. CASE k # 0
  <2>1. k \in Nat /\ k - 1 \in 0 .. Len(order) /\ ~ (k <= k - 1) BY <1>0, <1>2, <1>4
  <2>2. k - 1 \notin without BY <1>1, <2>1
  <2>3. PICK row : Through(old, order, k - 1, row) BY <2>1, <2>2
  <2> DEFINE more == [j \in 0 .. k |-> IF j = k THEN Upserted(row[k - 1], order[k]) ELSE row[j]]
  <2>4. order[k] \in Msg BY <1>0, <1>2, <1>4
  <2>5. row[k - 1] \in Image BY <2>1, <2>3 DEF Through
  <2>6. Upserted(row[k - 1], order[k]) \in Image BY <2>4, <2>5, UpsertedIs
  <2>7. more \in [0 .. k -> Image] BY <2>1, <2>3, <2>6 DEF Through
  <2>8. more[0] = old BY <1>4, <2>1, <2>3 DEF Through
  <2>9. ASSUME NEW j \in 1 .. k PROVE more[j] = Upserted(more[j - 1], order[j])
    <3>1. j \in 0 .. k /\ j - 1 \in 0 .. k /\ j - 1 # k BY <2>1
    <3>2. more[j - 1] = row[j - 1] BY <3>1
    <3>3. CASE j = k BY <3>1, <3>2, <3>3
    <3>4. CASE j # k
      <4>1. j \in 1 .. k - 1 BY <2>1, <3>4
      <4> QED BY <2>3, <3>1, <3>2, <3>4, <4>1 DEF Through
    <3> QED BY <3>3, <3>4
  <2> HIDE DEF more
  <2>10. Through(old, order, k, more) BY <2>7, <2>8, <2>9 DEF Through
  <2> QED BY <1>2, <2>10
<1> QED BY <1>3, <1>4

\* Shown is the last of these images.
LEMMA ShownIs ==
    ASSUME NEW old \in Image, NEW order \in Seq(Msg)
    PROVE  \E row : Through(old, order, Len(order), row) /\ Shown(old, order) = row[Len(order)]
<1> DEFINE n == Len(order)
           f == CHOOSE row : row = [j \in 0 .. n |-> IF j = 0 THEN old
                                                    ELSE Upserted(row[j - 1], order[j])]
<1>0. n \in Nat OBVIOUS
<1>1. PICK row : Through(old, order, n, row) BY <1>0, ThroughExists
<1>2. row = [j \in 0 .. n |-> IF j = 0 THEN old ELSE Upserted(row[j - 1], order[j])]
  BY <1>0, <1>1 DEF Through
<1>3. f = [j \in 0 .. n |-> IF j = 0 THEN old ELSE Upserted(f[j - 1], order[j])]
  BY <1>2
<1>4. Shown(old, order) = f[n] BY Zenon DEF Shown
<1> HIDE DEF f
<1> DEFINE other == {j \in 0 .. n : f[j] # row[j]}
<1>5. other = {}
  <2> SUFFICES ASSUME other # {} PROVE FALSE OBVIOUS
  <2>1. PICK j \in other : \A b \in other : j <= b
    <3>1. other \subseteq Nat BY <1>0
    <3> HIDE DEF other
    <3> QED BY <3>1, LeastOf
  <2>2. j \in 0 .. n /\ f[j] # row[j] BY <2>1
  <2>3. CASE j = 0 BY <1>2, <1>3, <2>2, <2>3
  <2>4. CASE j # 0
    <3>1. j \in Nat /\ j - 1 \in 0 .. n /\ ~ (j <= j - 1) BY <1>0, <2>2, <2>4
    <3>2. f[j - 1] = row[j - 1] BY <2>1, <3>1
    <3> QED BY <1>2, <1>3, <2>2, <2>4, <3>1, <3>2
  <2> QED BY <2>3, <2>4
<1>6. f[n] = row[n] BY <1>0, <1>5
<1> QED BY <1>1, <1>4, <1>6

\* With the version guard and no deletes a row never goes back: what it shows
\* in the end is at least what it showed and every event it went through.
LEMMA ShownIsNewest ==
    ASSUME Guarded, Deletes = {},
           NEW old \in Image, NEW order \in Seq(Msg)
    PROVE  /\ Shown(old, order) >= old
           /\ \A i \in 1 .. Len(order) : Shown(old, order) >= order[i]
<1> DEFINE n == Len(order)
<1>0. n \in Nat /\ \A i \in 1 .. n : order[i] \in Msg OBVIOUS
<1>1. PICK row : Through(old, order, n, row) /\ Shown(old, order) = row[n] BY ShownIs
<1>2. \A j \in 0 .. n : row[j] \in Image /\ row[j] \in Nat BY <1>1, MsgIs DEF Through, Image
<1>3. ASSUME NEW j \in 1 .. n PROVE row[j] >= row[j - 1] /\ row[j] >= order[j]
  <2>1. j - 1 \in 0 .. n BY <1>0
  <2>2. row[j] = Upserted(row[j - 1], order[j]) BY <1>1 DEF Through
  <2> QED BY <1>0, <1>2, <2>1, <2>2, UpsertedIs
<1> DEFINE back == {j \in 0 .. n : \E i \in 0 .. j : row[j] < row[i]}
<1>4. back = {}
  <2> SUFFICES ASSUME back # {} PROVE FALSE OBVIOUS
  <2>1. PICK j \in back : \A b \in back : j <= b
    <3>1. back \subseteq Nat BY <1>0
    <3> HIDE DEF back
    <3> QED BY <3>1, LeastOf
  <2>2. PICK i \in 0 .. j : row[j] < row[i] BY <2>1
  <2>3. j \in 0 .. n /\ i \in 0 .. n BY <1>0, <2>1, <2>2
  <2>4. row[i] \in Nat /\ row[j] \in Nat BY <1>2, <2>3
  <2>5. i # j BY <2>2, <2>4
  <2>6. j \in 1 .. n /\ j - 1 \in 0 .. n /\ ~ (j <= j - 1) /\ i \in 0 .. j - 1
    BY <1>0, <2>2, <2>3, <2>5
  <2>7. j - 1 \notin back BY <2>1, <2>6
  <2>8. ~ (row[j - 1] < row[i]) BY <2>6, <2>7
  <2>9. row[j] >= row[j - 1] /\ row[j - 1] \in Nat BY <1>2, <1>3, <2>6
  <2> QED BY <2>2, <2>4, <2>8, <2>9
<1>5. \A i \in 0 .. n : row[n] >= row[i] BY <1>0, <1>2, <1>4
<1>6. row[n] >= old BY <1>0, <1>1, <1>5 DEF Through
<1>7. ASSUME NEW i \in 1 .. n PROVE row[n] >= order[i]
  <2>1. row[n] >= row[i] /\ row[i] >= order[i] BY <1>0, <1>3, <1>5
  <2>2. row[n] \in Nat /\ row[i] \in Nat /\ order[i] \in Nat BY <1>0, <1>2, MsgIs
  <2> QED BY <2>1, <2>2
<1> QED BY <1>1, <1>6, <1>7

-----------------------------------------------------------------------------
(***************************************************************************)
(* The inductive invariant.                                                *)
(***************************************************************************)

\* The target is down only in an outage.
BusTyped ==
    /\ pub \in 0 .. Len(KeyOf)
    /\ st \in [Msg -> {"new", "out", "due", "acked", "termed"}]
    /\ nd \in [Msg -> Nat]
    /\ dlq \subseteq Msg /\ up \in BOOLEAN
    /\ faults \in 0 .. MaxFaults /\ outages \in 0 .. MaxOutages
    /\ ~ up => outages > 0

\* A sink at work on events has some.
SinkTyped ==
    /\ held \in [Sink -> Seq(Msg)]
    /\ mode \in [Sink -> {"start", "fetch", "batch", "each"}]
    /\ cache \subseteq Sink
    /\ \A s \in Sink : mode[s] \in {"batch", "each"} => held[s] # <<>>

TargetTyped == tgt \in [Key -> Image] /\ landed \subseteq Msg

\* An event is delivered beyond its budget only after a mishap, and one that is
\* due again has a delivery left.
Deliveries ==
    \A m \in Msg :
        /\ nd[m] <= TransientMax + faults
        /\ st[m] = "due" => nd[m] + 1 <= TransientMax + faults
        /\ st[m] = "new" => nd[m] = 0

\* Before the first outage every delivery but the first of an event the target
\* accepts was caused by a mishap of its own, and none of them is parked.
Calm ==
    outages = 0 =>
        \A m \in Msg \ Poison :
            /\ m \notin dlq /\ nd[m] <= faults + 1
            /\ st[m] = "due" => nd[m] <= faults

\* No row shows an image older than one that landed on it.
Newest == \A m \in landed : m <= tgt[KeyOf[m]]

Inv ==
    /\ BusTyped /\ SinkTyped /\ TargetTyped /\ Deliveries
    /\ DlqReliable => NoSilentLoss
    /\ MaxFaults < TransientMax => Calm
    /\ (Guarded /\ Deletes = {}) => Newest

-----------------------------------------------------------------------------
(***************************************************************************)
(* What the steps have in common.                                          *)
(***************************************************************************)

\* The inductive invariant holds initially.
LEMMA InvStarts == ASSUME Init PROVE Inv
<1>1. BusTyped
  <2>1. 0 \in 0 .. Len(KeyOf) /\ 0 \in 0 .. MaxFaults /\ 0 \in 0 .. MaxOutages
    BY Bounds, MsgIs
  <2> QED BY <2>1 DEF Init, BusTyped
<1>2. SinkTyped BY DEF Init, SinkTyped
<1>3. TargetTyped BY DEF Init, TargetTyped, Image
<1>4. Deliveries BY Bounds DEF Init, Deliveries
<1>5. NoSilentLoss BY DEF Init, NoSilentLoss
<1>6. Calm BY DEF Init, Calm
<1>7. Newest BY DEF Init, Newest
<1> QED BY <1>1, <1>2, <1>3, <1>4, <1>5, <1>6, <1>7 DEF Inv

\* A mishap is one more fault.
LEMMA MishapIs ==
    ASSUME BusTyped, Mishap
    PROVE  faults' = faults + 1 /\ faults' \in 0 .. MaxFaults
<1>1. \A a, b \in Nat : a < b => a + 1 \in 0 .. b OBVIOUS
<1>2. faults \in Nat /\ MaxFaults \in Nat BY Bounds DEF BusTyped
<1> QED BY <1>1, <1>2 DEF Mishap

\* The events of a sequence.
LEMMA HeldAre ==
    ASSUME NEW q \in Seq(Msg)
    PROVE  ToSet(q) \subseteq Msg /\ ToSet(q) = {q[i] : i \in 1 .. Len(q)}
BY DEF ToSet

\* The conditions under which a step that delivers nothing keeps deliveries
\* bounded and events the target accepts out of the dead-letter stream: an event
\* becomes due after a mishap, or with deliveries left and for a reason.
StepsBack ==
    /\ nd' = nd /\ outages' = outages /\ up' = up
    /\ faults' \in {faults, faults + 1}
    /\ \A m \in Msg :
        /\ st'[m] = "new" => st[m] = "new"
        /\ st'[m] = "due" => \/ st[m] = "due"
                             \/ faults' = faults + 1
                             \/ nd[m] < TransientMax /\ (m \in Poison \/ outages > 0)
        /\ m \in dlq' => \/ m \in dlq \/ m \in Poison \/ outages > 0
                         \/ faults' = faults + 1 /\ nd[m] >= TransientMax

\* Such a step keeps the deliveries bounded.
LEMMA StepsBackBounded ==
    ASSUME BusTyped, Deliveries, StepsBack
    PROVE  Deliveries'
<1>0. faults \in Nat /\ TransientMax \in Nat BY Bounds DEF BusTyped
<1> SUFFICES ASSUME NEW m \in Msg
    PROVE /\ nd'[m] <= TransientMax + faults'
          /\ st'[m] = "due" => nd'[m] + 1 <= TransientMax + faults'
          /\ st'[m] = "new" => nd'[m] = 0
  BY DEF Deliveries
<1>1. nd[m] \in Nat /\ nd'[m] = nd[m] BY DEF BusTyped, StepsBack
<1>2. /\ nd[m] <= TransientMax + faults
      /\ st[m] = "due" => nd[m] + 1 <= TransientMax + faults
      /\ st[m] = "new" => nd[m] = 0 BY DEF Deliveries
<1>3. faults' = faults \/ faults' = faults + 1 BY DEF StepsBack
<1>4. nd'[m] <= TransientMax + faults' BY <1>0, <1>1, <1>2, <1>3
<1>5. ASSUME st'[m] = "due" PROVE nd'[m] + 1 <= TransientMax + faults'
  <2>1. st[m] = "due" \/ faults' = faults + 1 \/ nd[m] < TransientMax BY <1>5 DEF StepsBack
  <2> QED BY <1>0, <1>1, <1>2, <1>3, <2>1
<1>6. st'[m] = "new" => nd'[m] = 0 BY <1>1, <1>2 DEF StepsBack
<1> QED BY <1>4, <1>5, <1>6

\* And parks nothing the target accepts.
LEMMA StepsBackCalm ==
    ASSUME BusTyped, BusTyped', MaxFaults < TransientMax, Calm, StepsBack
    PROVE  Calm'
<1>0. /\ faults \in Nat /\ faults' \in Nat /\ TransientMax \in Nat /\ MaxFaults \in Nat
      /\ faults' <= MaxFaults
  BY Bounds DEF BusTyped
<1>2. ASSUME outages' = 0, NEW m \in Msg \ Poison
      PROVE /\ m \notin dlq' /\ nd'[m] <= faults' + 1
            /\ st'[m] = "due" => nd'[m] <= faults'
  <2>1. outages = 0 /\ ~ (outages > 0) BY <1>2 DEF StepsBack
  <2>2. /\ m \notin dlq /\ nd[m] <= faults + 1
        /\ st[m] = "due" => nd[m] <= faults BY <2>1 DEF Calm
  <2>3. nd[m] \in Nat /\ nd'[m] = nd[m] BY DEF BusTyped, StepsBack
  <2>4. faults' = faults \/ faults' = faults + 1 BY DEF StepsBack
  <2>5. m \notin dlq'
    <3> SUFFICES ASSUME m \in dlq' PROVE FALSE OBVIOUS
    <3>1. faults' = faults + 1 /\ nd[m] >= TransientMax BY <2>1, <2>2 DEF StepsBack
    <3> QED BY <1>0, <2>2, <2>3, <3>1
  <2>6. nd'[m] <= faults' + 1 BY <1>0, <2>2, <2>3, <2>4
  <2>7. ASSUME st'[m] = "due" PROVE nd'[m] <= faults'
    <3>1. st[m] = "due" \/ faults' = faults + 1 BY <2>1, <2>7 DEF StepsBack
    <3> QED BY <1>0, <2>2, <2>3, <2>4, <3>1
  <2> QED BY <2>5, <2>6, <2>7
<1> QED BY <1>2 DEF Calm

\* What NakOrPark does to the bus.
LEMMA NakOrParkIs ==
    ASSUME BusTyped, NEW m \in Msg, NEW cap \in Nat, NakOrPark(m, cap)
    PROVE  /\ st' \in [Msg -> {"new", "out", "due", "acked", "termed"}]
           /\ dlq' \subseteq Msg /\ dlq \subseteq dlq'
           /\ \A x \in Msg : \/ st'[x] = st[x]
                             \/ x = m /\ nd[m] < cap /\ st'[x] = "due"
                             \/ x = m /\ st'[x] = "termed" /\ (DlqReliable => m \in dlq')
           /\ \A x \in dlq' : x \in dlq \/ (x = m /\ nd[m] >= cap)
<1>0. nd[m] \in Nat BY DEF BusTyped
<1>1. CASE nd[m] >= cap
  <2>1. /\ st' = [st EXCEPT ![m] = IF @ = "acked" THEN @ ELSE "termed"]
        /\ dlq' = dlq \union {m} \/ (~ DlqReliable /\ dlq' = dlq)
    BY <1>1 DEF NakOrPark
  <2>2. st' \in [Msg -> {"new", "out", "due", "acked", "termed"}] BY <2>1 DEF BusTyped
  <2>3. dlq' \subseteq Msg /\ dlq \subseteq dlq' BY <2>1 DEF BusTyped
  <2>4. DlqReliable => m \in dlq' BY <2>1
  <2>5. \A x \in Msg : st'[x] = st[x] \/ (x = m /\ st'[x] = "termed")
    BY <2>1 DEF BusTyped
  <2>6. \A x \in dlq' : x \in dlq \/ x = m BY <2>1
  <2> QED BY <1>1, <2>2, <2>3, <2>4, <2>5, <2>6
<1>2. CASE ~ (nd[m] >= cap)
  <2>1. st' = [st EXCEPT ![m] = IF @ = "out" THEN "due" ELSE @] /\ dlq' = dlq
    BY <1>2 DEF NakOrPark
  <2>2. st' \in [Msg -> {"new", "out", "due", "acked", "termed"}] BY <2>1 DEF BusTyped
  <2>3. \A x \in Msg : st'[x] = st[x] \/ (x = m /\ st'[x] = "due")
    BY <2>1 DEF BusTyped
  <2>4. nd[m] < cap BY <1>0, <1>2
  <2> QED BY <2>1, <2>2, <2>3, <2>4 DEF BusTyped
<1> QED BY <1>1, <1>2

\* The sink that gives its first event back or is done with it.
LEMMA AdvanceTyped ==
    ASSUME SinkTyped, NEW s \in Sink, mode[s] = "each", Advance(s), cache' \subseteq Sink
    PROVE  SinkTyped'
<1>1. held[s] \in Seq(Msg) /\ held[s] # <<>> BY DEF SinkTyped
<1>2. Tail(held[s]) \in Seq(Msg) /\ (Len(held[s]) # 1 => Tail(held[s]) # <<>>)
  <2>1. Tail(held[s]) \in Seq(Msg) /\ Len(Tail(held[s])) = Len(held[s]) - 1 BY <1>1
  <2>2. Len(held[s]) \in Nat BY <1>1
  <2>3. ASSUME Tail(held[s]) = <<>> PROVE Len(held[s]) = 1
    <3>1. Len(<<>>) = 0 OBVIOUS
    <3>2. 0 = Len(held[s]) - 1 BY <2>1, <2>3, <3>1
    <3> QED BY <2>2, <3>2
  <2> QED BY <2>1, <2>3
<1>3. /\ held' = [held EXCEPT ![s] = Tail(held[s])]
      /\ mode' = [mode EXCEPT ![s] = IF Len(held[s]) = 1 THEN "fetch" ELSE "each"]
  BY DEF Advance
<1>4. held' \in [Sink -> Seq(Msg)] BY <1>2, <1>3 DEF SinkTyped
<1>5. mode' \in [Sink -> {"start", "fetch", "batch", "each"}] BY <1>3 DEF SinkTyped
<1>6. ASSUME NEW t \in Sink, mode'[t] \in {"batch", "each"} PROVE held'[t] # <<>>
  <2>1. CASE t = s BY <1>2, <1>3, <1>6, <2>1 DEF SinkTyped
  <2>2. CASE t # s BY <1>3, <1>6, <2>2 DEF SinkTyped
  <2> QED BY <2>1, <2>2
<1> QED BY <1>4, <1>5, <1>6 DEF SinkTyped

\* The first event at hand.
LEMMA HeadIs ==
    ASSUME SinkTyped, NEW s \in Sink, mode[s] = "each"
    PROVE  Head(held[s]) \in Msg
<1>1. held[s] \in Seq(Msg) /\ held[s] # <<>> BY DEF SinkTyped
<1> QED BY <1>1

\* An event given back or parked keeps the invariant, if a mishap, a rejected
\* row or an outage made it fail.
LEMMA GivenBack ==
    ASSUME Inv, NEW s \in Sink, mode[s] = "each", NEW cap \in Nat, cap <= TransientMax,
           NakOrPark(Head(held[s]), cap), Advance(s), cache' \subseteq Sink,
           UNCHANGED <<pub, nd, tgt, landed, up, outages>>,
           \/ faults' = faults /\ (Head(held[s]) \in Poison \/ outages > 0)
           \/ Mishap /\ cap = TransientMax
    PROVE  Inv'
<1> DEFINE m == Head(held[s])
<1> USE DEF Inv
<1>1. m \in Msg BY HeadIs
<1> HIDE DEF m
<1>2. /\ st' \in [Msg -> {"new", "out", "due", "acked", "termed"}]
      /\ dlq' \subseteq Msg /\ dlq \subseteq dlq'
      /\ \A x \in Msg : \/ st'[x] = st[x]
                        \/ x = m /\ nd[m] < cap /\ st'[x] = "due"
                        \/ x = m /\ st'[x] = "termed" /\ (DlqReliable => m \in dlq')
      /\ \A x \in dlq' : x \in dlq \/ (x = m /\ nd[m] >= cap)
  <2>1. NakOrPark(m, cap) BY DEF m
  <2> QED BY <1>1, <2>1, NakOrParkIs
<1>3. \/ faults' = faults /\ (m \in Poison \/ outages > 0)
      \/ faults' = faults + 1 /\ cap = TransientMax
  BY MishapIs DEF m
<1>4. faults' \in 0 .. MaxFaults BY MishapIs DEF BusTyped
<1>5. BusTyped' BY <1>2, <1>4 DEF BusTyped
<1>6. SinkTyped' BY AdvanceTyped
<1>7. TargetTyped' BY DEF TargetTyped
<1>8. StepsBack
  <2>1. nd[m] \in Nat /\ TransientMax \in Nat BY <1>1, Bounds DEF BusTyped
  <2>2. faults' \in {faults, faults + 1} BY <1>3
  <2>3. ASSUME NEW x \in Msg, st'[x] = "due"
        PROVE  \/ st[x] = "due" \/ faults' = faults + 1
               \/ nd[x] < TransientMax /\ (x \in Poison \/ outages > 0)
    <3>1. st[x] = "due" \/ (x = m /\ nd[m] < cap) BY <1>2, <2>3
    <3> QED BY <1>3, <2>1, <3>1
  <2>4. \A x \in Msg : st'[x] = "new" => st[x] = "new" BY <1>2
  <2>5. ASSUME NEW x \in Msg, x \in dlq'
        PROVE  \/ x \in dlq \/ x \in Poison \/ outages > 0
               \/ faults' = faults + 1 /\ nd[x] >= TransientMax
    BY <1>2, <1>3, <2>5
  <2> QED BY <2>2, <2>3, <2>4, <2>5 DEF StepsBack
<1>9. Deliveries' BY <1>8, StepsBackBounded
<1>10. MaxFaults < TransientMax => Calm' BY <1>5, <1>8, StepsBackCalm
<1>11. ASSUME DlqReliable PROVE NoSilentLoss'
  <2>1. NoSilentLoss BY <1>11
  <2> SUFFICES ASSUME NEW x \in Msg
      PROVE /\ st'[x] = "acked" => x \in landed'
            /\ st'[x] = "termed" => x \in dlq' \union landed'
    BY DEF NoSilentLoss
  <2>2. landed' = landed OBVIOUS
  <2>3. st'[x] = "acked" => st[x] = "acked" BY <1>2
  <2>4. st'[x] = "termed" => st[x] = "termed" \/ x \in dlq' BY <1>2, <1>11
  <2> QED BY <1>2, <2>1, <2>2, <2>3, <2>4 DEF NoSilentLoss
<1>12. (Guarded /\ Deletes = {}) => Newest' BY DEF Newest
<1> QED BY <1>5, <1>6, <1>7, <1>9, <1>10, <1>11, <1>12

\* What acknowledging a batch does to the bus.
LEMMA AckedIs ==
    ASSUME BusTyped, NEW batch, NEW lost, st' = Acked(batch, lost)
    PROVE  /\ st' \in [Msg -> {"new", "out", "due", "acked", "termed"}]
           /\ \A x \in Msg : \/ st'[x] = st[x]
                             \/ x \in ToSet(batch) /\ st'[x] = "acked"
                             \/ x \in lost /\ st'[x] = "due"
BY DEF BusTyped, Acked

\* What a batch leaves in the target.
LEMMA BatchImagesAre ==
    ASSUME TargetTyped, NEW batch \in Seq(Msg), NEW t \in BatchImages(batch)
    PROVE  /\ t \in [Key -> Image]
           /\ (Guarded /\ Deletes = {}) =>
                /\ \A k \in Key : t[k] >= tgt[k]
                /\ \A m \in ToSet(batch) : t[KeyOf[m]] >= m
<1>1. /\ t \in [Key -> Image]
      /\ \A k \in Key : \E order \in Orders(batch, k) : t[k] = Shown(tgt[k], order)
  BY Zenon DEF BatchImages, Image
<1>2. ToSet(batch) \subseteq Msg BY HeldAre
<1>3. ASSUME Guarded, Deletes = {}, NEW k \in Key
      PROVE  /\ t[k] >= tgt[k]
             /\ \A m \in ToSet(batch) : KeyOf[m] = k => t[k] >= m
  <2> DEFINE mine == {m \in ToSet(batch) : KeyOf[m] = k}
  <2>1. PICK order \in Orders(batch, k) : t[k] = Shown(tgt[k], order) BY <1>1
  <2>2. order \in SetToSeqs(mine) BY Zenon DEF Orders, StreamOrder
  <2>3. mine \subseteq Msg BY <1>2
  <2> HIDE DEF mine
  <2>4. /\ order \in Seq(mine)
        /\ \A m \in mine : \E j \in 1 .. Len(order) : order[j] = m
    BY <2>2, <2>3, ArrangementOf
  <2>5. order \in Seq(Msg) BY <2>3, <2>4
  <2>6. tgt[k] \in Image BY DEF TargetTyped
  <2>7. /\ Shown(tgt[k], order) >= tgt[k]
        /\ \A i \in 1 .. Len(order) : Shown(tgt[k], order) >= order[i]
    BY <1>3, <2>5, <2>6, ShownIsNewest
  <2>8. \A m \in mine : t[k] >= m BY <2>1, <2>4, <2>7
  <2> QED BY <2>1, <2>7, <2>8 DEF mine
<1>4. \A m \in ToSet(batch) : KeyOf[m] \in Key BY <1>2, MsgIs
<1> QED BY <1>1, <1>3, <1>4

\* A commit keeps the invariant: the images are no older than before, every
\* event of it has landed, and at most those are acknowledged.
LEMMA Commits ==
    ASSUME Inv, NEW batch \in Seq(Msg), NEW lost,
           \/ st' = st /\ Mishap
           \/ SomeAcksLost(batch, lost) /\ st' = Acked(batch, lost),
           landed' = landed \union ToSet(batch),
           tgt' \in [Key -> Image],
           (Guarded /\ Deletes = {}) =>
                /\ \A k \in Key : tgt'[k] >= tgt[k]
                /\ \A m \in ToSet(batch) : tgt'[KeyOf[m]] >= m,
           SinkTyped',
           UNCHANGED <<pub, nd, dlq, up, outages>>
    PROVE  Inv'
<1> USE DEF Inv
<1>1. faults' \in {faults, faults + 1} /\ faults' \in 0 .. MaxFaults
  <2>1. faults' = faults \/ Mishap BY DEF SomeAcksLost
  <2> QED BY <2>1, MishapIs DEF BusTyped
<1>2. /\ st' \in [Msg -> {"new", "out", "due", "acked", "termed"}]
      /\ \A x \in Msg : \/ st'[x] = st[x]
                        \/ x \in ToSet(batch) /\ st'[x] = "acked"
                        \/ faults' = faults + 1 /\ st'[x] = "due"
  <2>1. CASE st' = st BY <2>1 DEF BusTyped
  <2>2. CASE SomeAcksLost(batch, lost) /\ st' = Acked(batch, lost)
    <3>1. lost = {} \/ faults' = faults + 1 BY <2>2, MishapIs DEF SomeAcksLost
    <3> QED BY <2>2, <3>1, AckedIs
  <2> QED BY <2>1, <2>2
<1>3. ToSet(batch) \subseteq Msg BY HeldAre
<1>4. BusTyped' BY <1>1, <1>2 DEF BusTyped
<1>5. TargetTyped' BY <1>3 DEF TargetTyped
<1>6. StepsBack BY <1>1, <1>2 DEF StepsBack
<1>7. Deliveries' BY <1>6, StepsBackBounded
<1>8. MaxFaults < TransientMax => Calm' BY <1>4, <1>6, StepsBackCalm
<1>9. DlqReliable => NoSilentLoss' BY <1>2 DEF NoSilentLoss
<1>10. ASSUME Guarded, Deletes = {} PROVE Newest'
  <2> SUFFICES ASSUME NEW m \in landed' PROVE m <= tgt'[KeyOf[m]] BY DEF Newest
  <2>1. m \in Msg BY <1>5 DEF TargetTyped
  <2>2. KeyOf[m] \in Key /\ m \in Nat BY <2>1, MsgIs
  <2>3. tgt[KeyOf[m]] \in Nat /\ tgt'[KeyOf[m]] \in Nat
    BY <1>5, <2>2, MsgIs DEF TargetTyped, Image
  <2>4. CASE m \in ToSet(batch) BY <1>10, <2>2, <2>3, <2>4
  <2>5. CASE m \in landed
    <3>1. m <= tgt[KeyOf[m]] BY <1>10, <2>5 DEF Newest
    <3>2. tgt'[KeyOf[m]] >= tgt[KeyOf[m]] BY <1>10, <2>2
    <3> QED BY <2>2, <2>3, <3>1, <3>2
  <2> QED BY <2>4, <2>5
<1> QED BY <1>4, <1>5, <1>7, <1>8, <1>9, <1>10

-----------------------------------------------------------------------------
(***************************************************************************)
(* The steps of the source, the bus and the target.                        *)
(***************************************************************************)

\* A step that leaves the bus and the target as they are, but for the number of
\* mishaps, keeps the invariant.
LEMMA OnlySinks ==
    ASSUME Inv, SinkTyped', faults' = faults \/ Mishap,
           UNCHANGED <<pub, st, nd, tgt, landed, dlq, up, outages>>
    PROVE  Inv'
<1> USE DEF Inv
<1>1. faults' \in {faults, faults + 1} /\ faults' \in 0 .. MaxFaults
  BY MishapIs DEF BusTyped
<1>2. BusTyped' BY <1>1 DEF BusTyped
<1>3. TargetTyped' BY DEF TargetTyped
<1>4. StepsBack BY <1>1 DEF StepsBack
<1>5. Deliveries' BY <1>4, StepsBackBounded
<1>6. MaxFaults < TransientMax => Calm' BY <1>2, <1>4, StepsBackCalm
<1>7. DlqReliable => NoSilentLoss' BY DEF NoSilentLoss
<1>8. (Guarded /\ Deletes = {}) => Newest' BY DEF Newest
<1> QED BY <1>2, <1>3, <1>5, <1>6, <1>7, <1>8

\* A stuttering step keeps the invariant.
LEMMA StutterKeeps == ASSUME Inv, UNCHANGED vars PROVE Inv'
<1>1. SinkTyped' BY DEF Inv, SinkTyped, vars
<1> QED BY <1>1, OnlySinks DEF vars

\* The source publishes.
LEMMA PublishKeeps == ASSUME Inv, Publish PROVE Inv'
<1> USE DEF Inv
<1>1. pub' \in 0 .. Len(KeyOf)
  <2>1. \A a, b \in Nat : a < b => a + 1 \in 0 .. b OBVIOUS
  <2>2. pub \in Nat /\ Len(KeyOf) \in Nat BY MsgIs DEF BusTyped
  <2> QED BY <2>1, <2>2 DEF Publish
<1>2. BusTyped' BY <1>1 DEF Publish, BusTyped
<1>3. SinkTyped' BY DEF Publish, SinkTyped
<1>4. TargetTyped' BY DEF Publish, TargetTyped
<1>5. Deliveries' BY DEF Publish, Deliveries
<1>6. DlqReliable => NoSilentLoss' BY DEF Publish, NoSilentLoss
<1>7. MaxFaults < TransientMax => Calm' BY DEF Publish, Calm
<1>8. (Guarded /\ Deletes = {}) => Newest' BY DEF Publish, Newest
<1> QED BY <1>2, <1>3, <1>4, <1>5, <1>6, <1>7, <1>8

\* The target goes down or comes back.
LEMMA OutageKeeps == ASSUME Inv, TargetDown \/ TargetUp PROVE Inv'
<1> USE DEF Inv
<1>1. /\ UNCHANGED <<pub, st, nd, held, mode, cache, tgt, landed, dlq, faults>>
      /\ up' \in BOOLEAN
  BY DEF TargetDown, TargetUp
<1>2. /\ outages' \in 0 .. MaxOutages
      /\ (~ up' \/ outages' # outages) => outages' > 0
      /\ outages' = 0 => outages = 0
  <2>1. \A a, b \in Nat : a < b => a + 1 \in 0 .. b /\ a + 1 > 0 /\ a + 1 # 0 OBVIOUS
  <2>2. outages \in Nat /\ MaxOutages \in Nat BY Bounds DEF BusTyped
  <2>3. CASE TargetDown BY <2>1, <2>2, <2>3 DEF TargetDown
  <2>4. CASE TargetUp BY <2>4 DEF TargetUp, BusTyped
  <2> QED BY <2>3, <2>4
<1>3. BusTyped' BY <1>1, <1>2 DEF BusTyped
<1>4. SinkTyped' BY <1>1 DEF SinkTyped
<1>5. TargetTyped' BY <1>1 DEF TargetTyped
<1>6. Deliveries' BY <1>1 DEF Deliveries
<1>7. DlqReliable => NoSilentLoss' BY <1>1 DEF NoSilentLoss
<1>8. MaxFaults < TransientMax => Calm' BY <1>1, <1>2 DEF Calm
<1>9. (Guarded /\ Deletes = {}) => Newest' BY <1>1 DEF Newest
<1> QED BY <1>3, <1>4, <1>5, <1>6, <1>7, <1>8, <1>9

\* Events a sink was at work on become due again, by a mishap.
LEMMA DueAgain ==
    ASSUME Inv, Mishap, SinkTyped',
           st' \in [Msg -> {"new", "out", "due", "acked", "termed"}],
           \A m \in Msg : st'[m] = st[m] \/ st'[m] = "due",
           UNCHANGED <<pub, nd, tgt, landed, dlq, up, outages>>
    PROVE  Inv'
<1> USE DEF Inv
<1>1. faults' = faults + 1 /\ faults' \in 0 .. MaxFaults BY MishapIs
<1>2. BusTyped' BY <1>1 DEF BusTyped
<1>3. TargetTyped' BY DEF TargetTyped
<1>4. StepsBack BY <1>1 DEF StepsBack
<1>5. Deliveries' BY <1>4, StepsBackBounded
<1>6. MaxFaults < TransientMax => Calm' BY <1>2, <1>4, StepsBackCalm
<1>7. DlqReliable => NoSilentLoss' BY DEF NoSilentLoss
<1>8. (Guarded /\ Deletes = {}) => Newest' BY DEF Newest
<1> QED BY <1>2, <1>3, <1>5, <1>6, <1>7, <1>8

\* AckWait expires.
LEMMA ExpireKeeps == ASSUME Inv, NEW s \in Sink, Expire(s) PROVE Inv'
<1>1. SinkTyped' BY DEF Inv, Expire, SinkTyped
<1>2. PICK i \in DOMAIN held[s] : st' = [st EXCEPT ![held[s][i]] = "due"] BY DEF Expire
<1>3. st \in [Msg -> {"new", "out", "due", "acked", "termed"}] BY DEF Inv, BusTyped
<1>4. st' \in [Msg -> {"new", "out", "due", "acked", "termed"}] BY <1>2, <1>3
<1>5. \A m \in Msg : st'[m] = st[m] \/ st'[m] = "due" BY <1>2, <1>3
<1> QED BY <1>1, <1>4, <1>5, DueAgain DEF Expire

\* A sink dies.
LEMMA CrashKeeps == ASSUME Inv, NEW s \in Sink, Crash(s) PROVE Inv'
<1>1. SinkTyped' BY DEF Inv, Crash, SinkTyped
<1>2. st' \in [Msg -> {"new", "out", "due", "acked", "termed"}] BY DEF Inv, BusTyped, Crash
<1>3. \A m \in Msg : st'[m] = st[m] \/ st'[m] = "due" BY DEF Crash
<1> QED BY <1>1, <1>2, <1>3, DueAgain DEF Crash

-----------------------------------------------------------------------------
(***************************************************************************)
(* The steps of the loop.                                                  *)
(***************************************************************************)

\* A sink starts.
LEMMA StartKeeps == ASSUME Inv, NEW s \in Sink, Start(s) PROVE Inv'
<1>1. SinkTyped' BY DEF Inv, Start, SinkTyped
<1> QED BY <1>1, OnlySinks DEF Start

\* A sink fetches: what was due or new has one more delivery.
LEMMA FetchKeeps == ASSUME Inv, NEW s \in Sink, Fetch(s) PROVE Inv'
<1> USE DEF Inv
<1>1. PICK again \in SUBSET {m \in Msg : st[m] = "due"},
           n \in {0} \union {m \in 1 .. pub : st[m] = "new"} :
        LET got == again \union {m \in 1 .. n : st[m] = "new"}
        IN  /\ got # {}
            /\ st' = [m \in Msg |-> IF m \in got THEN "out" ELSE st[m]]
            /\ nd' = [m \in Msg |-> IF m \in got THEN nd[m] + 1 ELSE nd[m]]
            /\ \E batch \in StreamOrder(got) : held' = [held EXCEPT ![s] = batch]
            /\ mode' = [mode EXCEPT ![s] = IF Cardinality(got) > 1 THEN "batch" ELSE "each"]
  BY Zenon DEF Fetch
<1> DEFINE got == again \union {m \in 1 .. n : st[m] = "new"}
<1>2. UNCHANGED <<pub, cache, tgt, landed, dlq, up, faults, outages>> BY DEF Fetch
<1>3. got \subseteq Msg /\ \A m \in got : st[m] = "due" \/ st[m] = "new"
  <2>1. pub \in 0 .. Len(KeyOf) /\ Msg = 1 .. Len(KeyOf) /\ Len(KeyOf) \in Nat
    BY MsgIs DEF BusTyped
  <2>2. n \in 0 .. Len(KeyOf) BY <2>1
  <2>3. 1 .. n \subseteq Msg BY <2>1, <2>2
  <2> QED BY <2>3
<1>4. /\ got # {}
      /\ st' = [m \in Msg |-> IF m \in got THEN "out" ELSE st[m]]
      /\ nd' = [m \in Msg |-> IF m \in got THEN nd[m] + 1 ELSE nd[m]]
      /\ \E batch \in StreamOrder(got) : held' = [held EXCEPT ![s] = batch]
      /\ mode' = [mode EXCEPT ![s] = IF Cardinality(got) > 1 THEN "batch" ELSE "each"]
  BY <1>1, Zenon
<1> HIDE DEF got
<1>5. PICK batch \in StreamOrder(got) : held' = [held EXCEPT ![s] = batch] BY <1>4
<1>6. batch \in Seq(Msg) /\ batch # <<>>
  <2>1. batch \in SetToSeqs(got) BY Zenon DEF StreamOrder
  <2>2. batch \in Seq(got) /\ \A m \in got : \E j \in 1 .. Len(batch) : batch[j] = m
    BY <1>3, <2>1, ArrangementOf
  <2>3. batch \in Seq(Msg) BY <1>3, <2>2
  <2>4. PICK m \in got : TRUE BY <1>4
  <2>5. Len(batch) # 0 BY <2>2, <2>3, <2>4
  <2>6. Len(<<>>) = 0 OBVIOUS
  <2> QED BY <2>3, <2>5, <2>6
<1>7. SinkTyped'
  <2>1. held' \in [Sink -> Seq(Msg)] BY <1>5, <1>6 DEF SinkTyped
  <2>2. mode' \in [Sink -> {"start", "fetch", "batch", "each"}] BY <1>4 DEF SinkTyped
  <2>3. ASSUME NEW t \in Sink, mode'[t] \in {"batch", "each"} PROVE held'[t] # <<>>
    <3>1. CASE t = s BY <1>5, <1>6, <3>1 DEF SinkTyped
    <3>2. CASE t # s BY <1>4, <1>5, <2>3, <3>2 DEF SinkTyped
    <3> QED BY <3>1, <3>2
  <2> QED BY <1>2, <2>1, <2>2, <2>3 DEF SinkTyped
<1>8. BusTyped' BY <1>2, <1>4 DEF BusTyped
<1>9. TargetTyped' BY <1>2 DEF TargetTyped
<1>10. Deliveries'
  <2> SUFFICES ASSUME NEW m \in Msg
      PROVE /\ nd'[m] <= TransientMax + faults
            /\ st'[m] = "due" => nd'[m] + 1 <= TransientMax + faults
            /\ st'[m] = "new" => nd'[m] = 0
    BY <1>2 DEF Deliveries
  <2>1. CASE m \in got
    <3>1. st'[m] = "out" /\ nd'[m] = nd[m] + 1 BY <1>4, <2>1
    <3>2. nd[m] \in Nat /\ faults \in Nat BY DEF BusTyped
    <3>3. nd[m] + 1 <= TransientMax + faults \/ nd[m] = 0 BY <1>3, <2>1 DEF Deliveries
    <3> QED BY <3>1, <3>2, <3>3, Bounds
  <2>2. CASE m \notin got BY <1>4, <2>2 DEF Deliveries
  <2> QED BY <2>1, <2>2
<1>11. DlqReliable => NoSilentLoss'
  <2>1. \A m \in Msg : st'[m] = "out" \/ st'[m] = st[m] BY <1>4
  <2> QED BY <1>2, <2>1 DEF NoSilentLoss
<1>12. ASSUME MaxFaults < TransientMax PROVE Calm'
  <2>2. ASSUME outages' = 0, NEW m \in Msg \ Poison
        PROVE /\ m \notin dlq' /\ nd'[m] <= faults' + 1
              /\ st'[m] = "due" => nd'[m] <= faults'
    <3>0. /\ m \notin dlq /\ nd[m] <= faults + 1
          /\ st[m] = "due" => nd[m] <= faults
      BY <1>2, <1>12, <2>2 DEF Calm
    <3>1. CASE m \in got
      <4>1. st'[m] = "out" /\ nd'[m] = nd[m] + 1 BY <1>4, <3>1
      <4>2. nd[m] \in Nat /\ faults \in Nat BY DEF BusTyped
      <4>3. nd[m] <= faults \/ nd[m] = 0 BY <1>3, <3>0, <3>1 DEF Deliveries
      <4> QED BY <1>2, <3>0, <4>1, <4>2, <4>3
    <3>2. CASE m \notin got BY <1>2, <1>4, <3>0, <3>2
    <3> QED BY <3>1, <3>2
  <2> QED BY <2>2 DEF Calm
<1>13. (Guarded /\ Deletes = {}) => Newest' BY <1>2 DEF Newest
<1> QED BY <1>7, <1>8, <1>9, <1>10, <1>11, <1>12, <1>13

\* A batch commits and is acknowledged.
LEMMA BatchAppliedKeeps == ASSUME Inv, NEW s \in Sink, BatchApplied(s) PROVE Inv'
<1>1. held[s] \in Seq(Msg) /\ TargetTyped BY DEF Inv, SinkTyped
<1>2. tgt' \in BatchImages(held[s]) BY DEF BatchApplied
<1>3. /\ tgt' \in [Key -> Image]
      /\ (Guarded /\ Deletes = {}) =>
            /\ \A k \in Key : tgt'[k] >= tgt[k]
            /\ \A m \in ToSet(held[s]) : tgt'[KeyOf[m]] >= m
  BY <1>1, <1>2, BatchImagesAre
<1>4. PICK lost : SomeAcksLost(held[s], lost) /\ st' = Acked(held[s], lost)
  BY DEF BatchApplied
<1>5. /\ landed' = landed \union ToSet(held[s])
      /\ held' = [held EXCEPT ![s] = <<>>] /\ mode' = [mode EXCEPT ![s] = "fetch"]
      /\ cache' = cache \union {s} /\ UNCHANGED <<pub, nd, dlq, up, outages>>
  BY DEF BatchApplied, Learns
<1>6. SinkTyped' BY <1>5 DEF Inv, SinkTyped
<1> QED BY <1>1, <1>3, <1>4, <1>5, <1>6, Commits

\* A batch commits and the sink is not told.
LEMMA BatchCommitUnknownKeeps == ASSUME Inv, NEW s \in Sink, BatchCommitUnknown(s) PROVE Inv'
<1>1. held[s] \in Seq(Msg) /\ TargetTyped BY DEF Inv, SinkTyped
<1>2. tgt' \in BatchImages(held[s]) BY DEF BatchCommitUnknown
<1>3. /\ tgt' \in [Key -> Image]
      /\ (Guarded /\ Deletes = {}) =>
            /\ \A k \in Key : tgt'[k] >= tgt[k]
            /\ \A m \in ToSet(held[s]) : tgt'[KeyOf[m]] >= m
  BY <1>1, <1>2, BatchImagesAre
<1>4. /\ landed' = landed \union ToSet(held[s]) /\ Mishap
      /\ mode[s] = "batch" /\ mode' = [mode EXCEPT ![s] = "each"]
      /\ cache' = cache \union {s} /\ UNCHANGED <<pub, st, nd, held, dlq, up, outages>>
  BY DEF BatchCommitUnknown, Learns
<1>5. SinkTyped' BY <1>4 DEF Inv, SinkTyped
<1> QED BY <1>1, <1>3, <1>4, <1>5, Commits

\* A batch rolls back.
LEMMA BatchFailedKeeps == ASSUME Inv, NEW s \in Sink, BatchFailed(s) PROVE Inv'
<1>1. /\ mode[s] = "batch" /\ mode' = [mode EXCEPT ![s] = "each"]
      /\ cache' \subseteq cache \union {s} /\ (faults' = faults \/ Mishap)
      /\ UNCHANGED <<pub, st, nd, held, tgt, landed, dlq, up, outages>>
  BY DEF BatchFailed, Learns
<1>2. SinkTyped' BY <1>1 DEF Inv, SinkTyped
<1> QED BY <1>1, <1>2, OnlySinks

\* One event is applied and acknowledged.
LEMMA AppliedKeeps == ASSUME Inv, NEW s \in Sink, Applied(s) PROVE Inv'
<1> DEFINE m == Head(held[s])
<1>1. m \in Msg /\ TargetTyped /\ KeyOf[m] \in Key
  BY HeadIs, MsgIs DEF Inv, Applied
<1>2. /\ tgt' = [tgt EXCEPT ![KeyOf[m]] = Upserted(@, m)]
      /\ landed' = landed \union {m}
      /\ \E lost \in SUBSET {m} : SomeAcksLost(<<m>>, lost) /\ st' = Acked(<<m>>, lost)
  BY DEF Applied
<1>3. /\ mode[s] = "each" /\ Advance(s) /\ cache' = cache \union {s}
      /\ UNCHANGED <<pub, nd, dlq, up, outages>>
  BY DEF Applied, Learns
<1> HIDE DEF m
<1>4. SinkTyped'
  <2>1. SinkTyped /\ cache' \subseteq Sink BY <1>3 DEF Inv, SinkTyped
  <2> QED BY <1>3, <2>1, AdvanceTyped
<1>5. <<m>> \in Seq(Msg) /\ ToSet(<<m>>) = {m}
  <2>1. <<m>> \in Seq(Msg) /\ Len(<<m>>) = 1 /\ <<m>>[1] = m BY <1>1
  <2>2. ToSet(<<m>>) = {<<m>>[i] : i \in 1 .. 1} BY <2>1, HeldAre
  <2> QED BY <2>1, <2>2
<1>6. tgt[KeyOf[m]] \in Image BY <1>1 DEF TargetTyped
<1>7. /\ Upserted(tgt[KeyOf[m]], m) \in Image
      /\ (Guarded /\ Deletes = {}) =>
            /\ Upserted(tgt[KeyOf[m]], m) >= tgt[KeyOf[m]]
            /\ Upserted(tgt[KeyOf[m]], m) >= m
  BY <1>1, <1>6, UpsertedIs
<1>8. tgt' = [tgt EXCEPT ![KeyOf[m]] = Upserted(tgt[KeyOf[m]], m)] BY <1>2
<1>9. tgt' \in [Key -> Image] /\ tgt'[KeyOf[m]] = Upserted(tgt[KeyOf[m]], m)
  BY <1>1, <1>7, <1>8 DEF TargetTyped
<1>10. ASSUME Guarded, Deletes = {}, NEW k \in Key PROVE tgt'[k] >= tgt[k]
  <2>1. CASE k = KeyOf[m] BY <1>7, <1>9, <1>10, <2>1
  <2>2. CASE k # KeyOf[m]
    <3>1. tgt'[k] = tgt[k] BY <1>1, <1>8, <2>2 DEF TargetTyped
    <3>2. tgt[k] \in Nat BY <1>1, MsgIs DEF TargetTyped, Image
    <3> QED BY <3>1, <3>2
  <2> QED BY <2>1, <2>2
<1>11. (Guarded /\ Deletes = {}) => \A x \in ToSet(<<m>>) : tgt'[KeyOf[x]] >= x
  BY <1>5, <1>7, <1>9
<1>12. landed' = landed \union ToSet(<<m>>) BY <1>2, <1>5
<1>13. PICK lost : SomeAcksLost(<<m>>, lost) /\ st' = Acked(<<m>>, lost) BY <1>2
<1> QED BY <1>3, <1>4, <1>5, <1>9, <1>10, <1>11, <1>12, <1>13, Commits

\* One event fails.
LEMMA FailedKeeps ==
    ASSUME Inv, NEW s \in Sink, FailedRetryable(s) \/ FailedUnknownTable(s) \/ Failed(s)
    PROVE  Inv'
<1>0. /\ MaxDeliver \in Nat /\ TransientMax \in Nat
      /\ MaxDeliver <= TransientMax /\ TransientMax <= TransientMax
  BY Bounds
<1>1. cache \subseteq Sink /\ (~ up => outages > 0) BY DEF Inv, SinkTyped, BusTyped
<1>2. CASE FailedRetryable(s)
  <2>1. /\ mode[s] = "each" /\ Mishap /\ cache' \subseteq Sink
        /\ NakOrPark(Head(held[s]), TransientMax) /\ Advance(s)
        /\ UNCHANGED <<pub, nd, tgt, landed, up, outages>>
    BY <1>1, <1>2 DEF FailedRetryable, Learns
  <2> QED BY <1>0, <2>1, GivenBack
<1>3. CASE FailedUnknownTable(s)
  <2>1. /\ mode[s] = "each" /\ outages > 0 /\ faults' = faults /\ cache' \subseteq Sink
        /\ NakOrPark(Head(held[s]), TransientMax) /\ Advance(s)
        /\ UNCHANGED <<pub, nd, tgt, landed, up, outages>>
    BY <1>1, <1>3 DEF FailedUnknownTable
  <2> QED BY <1>0, <2>1, GivenBack
<1>4. CASE Failed(s)
  <2>1. /\ mode[s] = "each" /\ (Head(held[s]) \in Poison \/ outages > 0)
        /\ faults' = faults /\ cache' \subseteq Sink
        /\ NakOrPark(Head(held[s]), MaxDeliver) /\ Advance(s)
        /\ UNCHANGED <<pub, nd, tgt, landed, up, outages>>
    BY <1>1, <1>4 DEF Failed, Learns
  <2> QED BY <1>0, <2>1, GivenBack
<1> QED BY <1>2, <1>3, <1>4

\* Every step keeps the inductive invariant.
LEMMA InvKept == ASSUME Inv, [Next]_vars PROVE Inv'
<1>1. CASE UNCHANGED vars BY <1>1, StutterKeeps
<1>2. CASE Publish BY <1>2, PublishKeeps
<1>3. CASE TargetDown \/ TargetUp BY <1>3, OutageKeeps
<1>4. ASSUME NEW s \in Sink, Loop(s) PROVE Inv'
  BY <1>4, StartKeeps, FetchKeeps, BatchAppliedKeeps, BatchFailedKeeps, AppliedKeeps,
     FailedKeeps DEF Loop
<1>5. ASSUME NEW s \in Sink,
             \/ BatchCommitUnknown(s) \/ FailedRetryable(s) \/ Expire(s) \/ Crash(s)
      PROVE  Inv'
  BY <1>5, BatchCommitUnknownKeeps, FailedKeeps, ExpireKeeps, CrashKeeps
<1> QED BY <1>1, <1>2, <1>3, <1>4, <1>5 DEF Next

-----------------------------------------------------------------------------
(***************************************************************************)
(* The theorems.                                                           *)
(***************************************************************************)

\* The inductive invariant holds in every state.
LEMMA InvHolds == Spec => []Inv
<1>1. Init => Inv BY InvStarts
<1>2. Inv /\ [Next]_vars => Inv' BY InvKept
<1> QED BY <1>1, <1>2, PTL DEF Spec

\* The state keeps its types, and deliveries stay within their budget: whatever
\* crashes, expires or fails, no event is retried more often than
\* TRANSIENT_MAX_DELIVER plus the mishaps there were.
THEOREM TypeCorrect == Spec => []TypeOK
<1>1. Inv => TypeOK
  <2> SUFFICES ASSUME Inv PROVE TypeOK OBVIOUS
  <2> USE DEF Inv
  <2>1. nd \in [Msg -> 0 .. Budget]
    <3>1. ASSUME NEW m \in Msg PROVE nd[m] \in 0 .. Budget
      <4>1. nd[m] \in Nat /\ nd[m] <= TransientMax + faults BY DEF BusTyped, Deliveries
      <4>2. faults \in Nat /\ faults <= MaxFaults BY Bounds DEF BusTyped
      <4> QED BY <4>1, <4>2, Bounds DEF Budget
    <3> QED BY <3>1 DEF BusTyped
  <2> QED BY <2>1 DEF BusTyped, SinkTyped, TargetTyped, Image, TypeOK
<1> QED BY <1>1, InvHolds, PTL

\* With a dead-letter stream that takes what it is given, no event is lost: the
\* acknowledged ones were committed and the terminated ones parked or committed,
\* through crashes, lost acknowledgements and commits nobody heard of.
THEOREM NoEventIsLost == ASSUME DlqReliable PROVE Spec => []NoSilentLoss
<1>1. Inv => NoSilentLoss BY DEF Inv
<1> QED BY <1>1, InvHolds, PTL

\* With retries enough for the mishaps there are, only rows the target rejects
\* are parked before its first outage.
THEOREM OnlyBadRowsAreParked ==
    ASSUME MaxFaults < TransientMax
    PROVE  Spec => []OnlyBadRowsParked
<1>1. Inv => OnlyBadRowsParked
  <2> SUFFICES ASSUME Inv, outages = 0, NEW m \in dlq PROVE m \in Poison
    BY DEF OnlyBadRowsParked
  <2>1. m \in Msg BY DEF Inv, BusTyped
  <2> QED BY <2>1 DEF Inv, Calm
<1> QED BY <1>1, InvHolds, PTL

\* With CONFLICT_COLUMN set and no deletes in the stream, the last image of
\* every row that landed is the one it shows, whatever was redelivered, reordered
\* by sort.Slice or applied twice on the way.
THEOREM LastImageStays ==
    ASSUME Guarded, Deletes = {}
    PROVE  Spec => []LastImageWins
<1>1. Inv => LastImageWins
  <2> SUFFICES ASSUME Inv, NEW m \in landed PROVE m <= tgt[KeyOf[m]]
    BY DEF LastImageWins
  <2> QED BY DEF Inv, Newest
<1> QED BY <1>1, InvHolds, PTL

=============================================================================
