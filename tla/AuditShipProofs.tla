-------------------------- MODULE AuditShipProofs --------------------------
(***************************************************************************)
(* The audit shipper, for any log, any rotation and any failures: with one *)
(* run at a time the segments form one chain, and if the log is not        *)
(* rotated twice while a run lists it, they carry the records in order and *)
(* leave none out unreported.                                              *)
(***************************************************************************)
EXTENDS AuditShip, FiniteSetTheorems, WellFoundedInduction, TLAPS

-----------------------------------------------------------------------------
(***************************************************************************)
(* The operators the model is built from.                                  *)
(***************************************************************************)

\* The constants as the provers use them.
LEMMA Bounds ==
    /\ MaxBackups \in Nat /\ SegMax \in Nat /\ 1 <= SegMax /\ MaxRecords \in Nat
    /\ MaxFiles \in Nat /\ 1 <= MaxFiles /\ MaxFaults \in Nat
BY AuditShipAssumption

\* There is a least number in a set of them that has one.
LEMMA LeastOf ==
    ASSUME NEW S, S \subseteq Nat, S # {}
    PROVE  \E a \in S : \A b \in S : a <= b
<1> DEFINE less == {p \in Nat \X Nat : p[1] < p[2]}
<1>1. IsWellFoundedOn(less, Nat) BY NatLessThanWellFounded, Zenon DEF OpToRel
<1> HIDE DEF less
<1>2. PICK a \in S : \A b \in S : <<b, a>> \notin less BY <1>1, WFMin, Zenon
<1>3. ASSUME NEW b \in S PROVE a <= b
  <2>1. a \in Nat /\ b \in Nat OBVIOUS
  <2>2. b < a => <<b, a>> \in less BY <2>1 DEF less
  <2> QED BY <1>2, <2>1, <2>2
<1> QED BY <1>3

\* A sequence, of whatever it may be: there is no set of all hashes.
IsSeq(q) == Len(q) \in Nat /\ q = [i \in 1 .. Len(q) |-> q[i]]

\* What a set of sequences has is one.
LEMMA SeqsAre == ASSUME NEW S, NEW q \in Seq(S) PROVE IsSeq(q)
<1>1. Len(q) \in Nat /\ q \in [1 .. Len(q) -> S] OBVIOUS
<1> QED BY <1>1 DEF IsSeq

\* A sequence grows at its end.
LEMMA SeqGrows ==
    ASSUME NEW q, IsSeq(q), NEW x
    PROVE  /\ IsSeq(Append(q, x)) /\ Len(Append(q, x)) = Len(q) + 1
           /\ \A i \in 1 .. Len(q) : Append(q, x)[i] = q[i]
           /\ Append(q, x)[Len(q) + 1] = x
<1> DEFINE S == {q[i] : i \in 1 .. Len(q)} \union {x}
<1>1. q \in [1 .. Len(q) -> S] BY DEF IsSeq
<1>2. q \in Seq(S) BY <1>1 DEF IsSeq
<1> HIDE DEF S
<1>3. x \in S BY DEF S
<1>4. Append(q, x) \in Seq(S) BY <1>2, <1>3
<1>5. /\ Len(Append(q, x)) = Len(q) + 1
      /\ \A i \in 1 .. Len(q) : Append(q, x)[i] = q[i]
      /\ Append(q, x)[Len(q) + 1] = x
  BY <1>2, <1>3
<1>6. IsSeq(Append(q, x)) BY <1>4, SeqsAre
<1> QED BY <1>5, <1>6

\* The sequence of one element.
LEMMA Singleton == ASSUME NEW x PROVE IsSeq(<<x>>) /\ Len(<<x>>) = 1 /\ <<x>>[1] = x
BY DEF IsSeq

\* A run of files with one left out, oldest first.  If it is all there, its
\* files follow one another.
LEMMA FilesAre ==
    ASSUME NEW a \in Nat, NEW b \in Nat, NEW c \in Nat, a <= b + 1,
           NEW S, S = (a .. b) \ {c}
    PROVE  /\ Cardinality(S) \in Nat /\ IsSeq(Files(S)) /\ Len(Files(S)) = Cardinality(S)
           /\ \A k \in 1 .. Cardinality(S) : Files(S)[k] \in S
           /\ c \notin a .. b =>
                 /\ Cardinality(S) = b - a + 1
                 /\ \A k \in 1 .. Cardinality(S) : Files(S)[k] = a + k - 1
<1> DEFINE Place(f) == Cardinality({g \in S : g <= f})
<1>1. IsFiniteSet(a .. b) /\ Cardinality(a .. b) = b - a + 1 BY FS_Interval
<1>2. Cardinality(S) = IF c \in a .. b THEN b - a ELSE b - a + 1
  <2>1. Cardinality(S) = IF c \in a .. b THEN Cardinality(a .. b) - 1 ELSE Cardinality(a .. b)
    BY <1>1, FS_RemoveElement
  <2>2. CASE c \in a .. b
    <3>1. Cardinality(S) = (b - a + 1) - 1 BY <1>1, <2>1, <2>2
    <3> QED BY <2>2, <3>1
  <2>3. CASE c \notin a .. b BY <1>1, <2>1, <2>3
  <2> QED BY <2>2, <2>3
<1>3. Cardinality(S) \in Nat BY <1>2
<1>4. \A f \in S : Place(f) = IF c \in a .. f THEN f - a ELSE f - a + 1
  <2> TAKE f \in S
  <2>1. {g \in S : g <= f} = (a .. f) \ {c} OBVIOUS
  <2>2. f \in Nat /\ a <= f OBVIOUS
  <2>3. IsFiniteSet(a .. f) /\ Cardinality(a .. f) = f - a + 1 BY <2>2, FS_Interval
  <2>4. Cardinality((a .. f) \ {c})
          = IF c \in a .. f THEN Cardinality(a .. f) - 1 ELSE Cardinality(a .. f)
    BY <2>3, FS_RemoveElement
  <2>5. Place(f) = Cardinality((a .. f) \ {c}) BY <2>1
  <2>6. (f - a + 1) - 1 = f - a BY <2>2
  <2> HIDE DEF Place
  <2> QED BY <2>3, <2>4, <2>5, <2>6
<1> HIDE DEF Place
<1>5. ASSUME NEW k \in 1 .. Cardinality(S) PROVE \E f \in S : Place(f) = k
  <2>1. CASE c \in a .. b /\ c <= a + k - 1
    <3>1. a + k \in S /\ c \in a .. a + k BY <1>2, <2>1
    <3> QED BY <1>4, <3>1
  <2>2. CASE ~ (c \in a .. b /\ c <= a + k - 1)
    <3>1. a + k - 1 \in S /\ c \notin a .. a + k - 1 BY <1>2, <2>2
    <3>2. Place(a + k - 1) = (a + k - 1) - a + 1 BY <1>4, <3>1
    <3>3. (a + k - 1) - a + 1 = k BY <1>3
    <3> QED BY <3>1, <3>2, <3>3
  <2> QED BY <2>1, <2>2
<1>6. Files(S) = [k \in 1 .. Cardinality(S) |-> CHOOSE f \in S : Place(f) = k]
  BY DEF Files, Place
<1>7. \A k \in 1 .. Cardinality(S) : Files(S)[k] \in S /\ Place(Files(S)[k]) = k
  BY <1>5, <1>6
<1>8. IsSeq(Files(S)) /\ Len(Files(S)) = Cardinality(S)
  <2> DEFINE N == Cardinality(S)
  <2> HIDE DEF N
  <2>1. N \in Nat /\ Files(S) = [k \in 1 .. N |-> Files(S)[k]] BY <1>3, <1>6 DEF N
  <2>2. Len(Files(S)) = N BY <2>1
  <2> QED BY <2>1, <2>2 DEF N, IsSeq
<1>9. ASSUME c \notin a .. b, NEW k \in 1 .. Cardinality(S) PROVE Files(S)[k] = a + k - 1
  <2>1. Files(S)[k] \in a .. b /\ Place(Files(S)[k]) = k BY <1>7
  <2>2. Place(Files(S)[k]) = Files(S)[k] - a + 1 BY <1>4, <1>7, <1>9, <2>1
  <2> QED BY <2>1, <2>2
<1> QED BY <1>2, <1>3, <1>7, <1>8, <1>9

\* Any files, oldest first: the next one after the k-th is the one after k.
LEMMA FilesOf ==
    ASSUME NEW N \in Nat, NEW S, S \subseteq 1 .. N
    PROVE  /\ Cardinality(S) \in Nat /\ Len(Files(S)) = Cardinality(S)
           /\ \A k \in 1 .. Cardinality(S) : Files(S)[k] \in S
<1> DEFINE Upto(f) == {g \in S : g <= f}
           Place(f) == Cardinality(Upto(f))
           M == Cardinality(S)
<1>0. \A f \in S : f \in Nat OBVIOUS
<1>1. IsFiniteSet(S) /\ M \in Nat
  <2>1. IsFiniteSet(1 .. N) BY FS_Interval
  <2>2. IsFiniteSet(S) BY <2>1, FS_Subset
  <2> QED BY <2>2, FS_CardinalityType
<1>2. \A f : IsFiniteSet(Upto(f)) /\ Place(f) \in Nat
  <2> TAKE f
  <2>1. IsFiniteSet(Upto(f)) BY <1>1, FS_Subset
  <2> QED BY <2>1, FS_CardinalityType
<1>3. ASSUME NEW T, T \subseteq S, T # {} PROVE \E a \in T : \A b \in T : a <= b
  <2>1. T \subseteq Nat BY <1>3
  <2> QED BY <1>3, <2>1, LeastOf
<1>4. S # {} => \E f \in S : Place(f) = 1
  <2> SUFFICES ASSUME S # {} PROVE \E f \in S : Place(f) = 1 OBVIOUS
  <2>1. PICK f \in S : \A b \in S : f <= b BY <1>3
  <2>2. Upto(f) = {f}
    <3>1. ASSUME NEW g \in S PROVE g <= f <=> g = f
      <4>1. g \in Nat /\ f \in Nat /\ f <= g BY <1>0, <2>1
      <4> QED BY <4>1
    <3> QED BY <3>1
  <2>3. Cardinality({f}) = 1 BY FS_Singleton
  <2>4. Place(f) = 1 BY <2>2, <2>3
  <2> QED BY <2>4
<1>5. ASSUME NEW f \in S, Place(f) < M PROVE \E g \in S : Place(g) = Place(f) + 1
  <2>1. Upto(f) # S BY <1>1, <1>5
  <2>2. {g \in S : g > f} # {}
    <3>1. PICK g \in S : ~ (g <= f) BY <2>1
    <3>2. g \in Nat /\ f \in Nat BY <1>0
    <3>3. g > f BY <3>1, <3>2
    <3> QED BY <3>3
  <2>3. PICK g \in S : g > f /\ \A b \in S : b > f => g <= b
    <3>1. \E a \in {x \in S : x > f} : \A b \in {x \in S : x > f} : a <= b BY <1>3, <2>2
    <3> QED BY <3>1
  <2>4. Upto(g) = Upto(f) \union {g} /\ g \notin Upto(f)
    <3>1. ASSUME NEW h \in S PROVE h <= g <=> (h <= f \/ h = g)
      <4>1. h \in Nat /\ g \in Nat /\ f \in Nat /\ g > f /\ (h > f => g <= h)
        BY <1>0, <2>3
      <4> QED BY <4>1
    <3>2. ~ (g <= f)
      <4>1. g \in Nat /\ f \in Nat /\ g > f BY <1>0, <2>3
      <4> QED BY <4>1
    <3> QED BY <3>1, <3>2
  <2>5. Cardinality(Upto(f) \union {g}) = Cardinality(Upto(f)) + 1
    BY <1>2, <2>4, FS_AddElement
  <2> QED BY <2>4, <2>5
<1> HIDE DEF Place, M
<1>6. ASSUME NEW k \in 1 .. M PROVE \E f \in S : Place(f) = k
  <2> DEFINE Miss == {j \in 1 .. M : \A f \in S : Place(f) # j}
  <2> SUFFICES ASSUME k \in Miss PROVE FALSE OBVIOUS
  <2>1. Miss \subseteq Nat /\ Miss # {}
    <3>1. k \in Miss OBVIOUS
    <3>2. 1 .. M \subseteq Nat BY <1>1
    <3> QED BY <3>1, <3>2
  <2>2. PICK j \in Miss : \A i \in Miss : j <= i BY <2>1, LeastOf
  <2>3. S # {} BY <1>1, FS_EmptySet DEF M
  <2>4. j # 1 BY <1>4, <2>2, <2>3
  <2>5. j \in 1 .. M /\ j - 1 \in 1 .. M /\ j - 1 \notin Miss BY <1>1, <2>2, <2>4
  <2>6. PICK f \in S : Place(f) = j - 1 BY <2>5
  <2>7. Place(f) < M BY <1>1, <2>5, <2>6
  <2>8. PICK g \in S : Place(g) = (j - 1) + 1 BY <1>5, <2>6, <2>7
  <2>9. Place(g) = j BY <2>5, <2>8
  <2> QED BY <2>2, <2>9
<1>7. Files(S) = [k \in 1 .. M |-> CHOOSE f \in S : Place(f) = k] BY DEF Files, Place, M
<1>8. \A k \in 1 .. M : Files(S)[k] \in S BY <1>6, <1>7
<1>9. Len(Files(S)) = M BY <1>1, <1>7
<1> QED BY <1>1, <1>8, <1>9 DEF M

-----------------------------------------------------------------------------
(***************************************************************************)
(* The types, whatever the number of runs.                                 *)
(***************************************************************************)

Entry == [file : Nat, off : Nat]
Measured(s) == s.seq \in Nat /\ s.lo \in Nat /\ s.hi \in Nat /\ s.off \in Nat

\* The files of the log follow one another.
LogInv ==
    /\ n \in 0 .. MaxRecords /\ starts \in Seq(Nat) /\ inode \in Seq(Inode)
    /\ live \in 1 .. MaxFiles /\ Len(inode) = live /\ oldest \in 1 .. live
    /\ \A f, g \in 1 .. live : f <= g => starts[f] <= starts[g]
    /\ starts[live] <= n

\* The segments of the primary bucket are numbered without a gap.
BucketInv ==
    /\ IsSeq(primary)
    /\ \A s \in 1 .. Len(primary) :
          /\ IsSeq(primary[s]) /\ Len(primary[s]) >= 1
          /\ Original(s).seq = s /\ Measured(Original(s))
    /\ \A s \in offsite : s.seq \in 1 .. Len(primary)

RunTypes ==
    /\ pc \in [Run -> {"idle", "plan", "read", "copy"}]
    /\ cur \in [Run -> Nat] /\ plan \in [Run -> Seq(Entry)]
    /\ open \in [Run -> SUBSET Nat] /\ prev = [r \in Run |-> prev[r]]
    /\ note = [r \in Run |-> note[r]]
    /\ faults \in 0 .. MaxFaults

\* A run has what it has to read in open files, and a head the bucket has.
RunOK(r) ==
    /\ cur[r] <= live /\ open[r] \subseteq 1 .. live
    /\ Measured(prev[r]) /\ prev[r].seq <= Len(primary)
    /\ pc[r] = "copy" => prev[r].seq # 0
    /\ pc[r] = "plan" => cur[r] # 0
    /\ pc[r] \in {"idle", "plan"} => plan[r] = <<>> /\ note[r] = {}
    /\ \A k \in 1 .. Len(plan[r]) :
          plan[r][k].file \in open[r] /\ plan[r][k].off <= Size(plan[r][k].file)

RunInv == RunTypes /\ \A r \in Run : RunOK(r)

Inv == LogInv /\ BucketInv /\ RunInv

\* What a file has is between its start and its end, and a later one begins
\* where it ends, or after.
LEMMA FileIs ==
    ASSUME LogInv, NEW f \in 1 .. live
    PROVE  /\ live \in Nat /\ n \in Nat /\ starts[f] \in Nat /\ inode[f] \in Inode
           /\ Ends(f) \in Nat /\ Size(f) \in Nat /\ Ends(f) = starts[f] + Size(f)
           /\ f < live => f + 1 \in 1 .. live /\ starts[f + 1] = Ends(f)
           /\ \A g \in 1 .. live : f < g => Ends(f) <= starts[g] /\ Ends(f) <= Ends(g)
<1>1. live \in Nat /\ n \in Nat /\ starts \in Seq(Nat) /\ Len(starts) = live
  BY Bounds DEF LogInv, live
<1>2. \A g \in 1 .. live : starts[g] \in Nat /\ inode[g] \in Inode
  BY <1>1 DEF LogInv
<1>3. Ends(f) \in Nat /\ starts[f] <= Ends(f)
  BY <1>1, <1>2 DEF Ends, LogInv
<1>4. \A g \in 1 .. live : f < g => Ends(f) <= starts[g] /\ starts[g] <= Ends(g)
  BY <1>1, <1>2 DEF Ends, LogInv
<1>5. \A g \in 1 .. live : Ends(g) \in Nat BY <1>1, <1>2 DEF Ends
<1>6. f < live => f + 1 \in 1 .. live /\ starts[f + 1] = Ends(f) BY <1>1 DEF Ends
<1> QED BY <1>1, <1>2, <1>3, <1>4, <1>5, <1>6 DEF Size

\* The log only grows: what a file has stays, and a rotated file is complete.
Grown ==
    /\ live' \in Nat /\ live <= live'
    /\ \A f \in 1 .. live :
          /\ starts'[f] = starts[f] /\ inode'[f] = inode[f]
          /\ Ends(f)' \in Nat /\ Ends(f) <= Ends(f)'
          /\ Size(f)' \in Nat /\ Size(f) <= Size(f)'
          /\ f < live => Ends(f)' = Ends(f)

\* The API server keeps the log in shape.
LEMMA LogGrows ==
    ASSUME LogInv, AppendRecord \/ Rotate \/ Prune \/ UNCHANGED log
    PROVE  LogInv' /\ Grown
<1>1. /\ live \in Nat /\ 1 <= live /\ live <= MaxFiles /\ n \in Nat /\ oldest \in Nat
      /\ starts \in Seq(Nat) /\ inode \in Seq(Inode) /\ Len(starts) = live /\ Len(inode) = live
      /\ \A f \in 1 .. live : starts[f] \in Nat
  BY Bounds DEF LogInv, live
<1>2. CASE AppendRecord \/ Prune \/ UNCHANGED log
  <2>1. /\ starts' = starts /\ inode' = inode /\ n' \in 0 .. MaxRecords /\ n <= n'
        /\ oldest' \in 1 .. live
    BY <1>1, <1>2, Bounds DEF AppendRecord, Prune, log, LogInv
  <2>2. live' = live BY <2>1 DEF live
  <2>3. LogInv'
    <3>1. starts[live] <= n' BY <1>1, <2>1 DEF LogInv
    <3> QED BY <2>1, <2>2, <3>1 DEF LogInv
  <2>4. Grown
    <3>1. n' \in Nat BY <1>1, <2>1, Bounds
    <3>2. ASSUME NEW f \in 1 .. live
          PROVE  /\ Ends(f)' \in Nat /\ Ends(f) <= Ends(f)'
                 /\ f < live => Ends(f)' = Ends(f)
                 /\ Size(f)' = Ends(f)' - starts[f]
      BY <1>1, <2>1, <2>2, <3>1 DEF Ends, Size
    <3>3. \A f \in 1 .. live : /\ Ends(f) \in Nat /\ Size(f) \in Nat /\ starts[f] \in Nat
                               /\ Ends(f) = starts[f] + Size(f)
      BY FileIs
    <3>4. \A f \in 1 .. live : Size(f)' \in Nat /\ Size(f) <= Size(f)' BY <3>2, <3>3
    <3>5. live' \in Nat /\ live <= live' BY <1>1, <2>2
    <3> QED BY <2>1, <3>2, <3>4, <3>5 DEF Grown
  <2> QED BY <2>3, <2>4
<1>3. CASE Rotate
  <2>1. PICK x \in Inode : inode' = Append(inode, x) BY <1>3 DEF Rotate
  <2>2. live < MaxFiles /\ starts' = Append(starts, n) /\ n' = n /\ oldest' = oldest
    BY <1>3 DEF Rotate
  <2>3. /\ starts' \in Seq(Nat) /\ live' = live + 1
        /\ \A f \in 1 .. live : starts'[f] = starts[f]
        /\ starts'[live + 1] = n
    BY <1>1, <2>2 DEF live
  <2>4. /\ inode' \in Seq(Inode) /\ Len(inode') = live + 1
        /\ \A f \in 1 .. live : inode'[f] = inode[f]
    BY <1>1, <2>1
  <2>5. \A f \in 1 .. live : starts[f] <= n
    <3>1. \A f \in 1 .. live : starts[f] <= starts[live] BY <1>1 DEF LogInv
    <3>2. starts[live] \in Nat /\ starts[live] <= n BY <1>1 DEF LogInv
    <3> QED BY <1>1, <3>1, <3>2
  <2>6. LogInv'
    <3>1. \A f, g \in 1 .. live + 1 : f <= g => starts'[f] <= starts'[g]
      BY <1>1, <2>3, <2>5 DEF LogInv
    <3>2. n' \in 0 .. MaxRecords /\ live + 1 \in 1 .. MaxFiles /\ oldest' \in 1 .. live + 1
      BY <1>1, <2>2, Bounds DEF LogInv
    <3>3. starts'[live + 1] <= n' BY <1>1, <2>2, <2>3
    <3> QED BY <2>3, <2>4, <3>1, <3>2, <3>3 DEF LogInv
  <2>7. Grown
    <3>1. live' \in Nat /\ live <= live' BY <1>1, <2>3
    <3>2. ASSUME NEW f \in 1 .. live PROVE Ends(f)' = Ends(f) /\ Size(f)' = Size(f)
      <4>1. Ends(f)' = starts'[f + 1] BY <1>1, <2>3 DEF Ends
      <4>2. starts'[f + 1] = Ends(f) BY <1>1, <2>3 DEF Ends
      <4> QED BY <2>3, <4>1, <4>2 DEF Size
    <3>3. \A f \in 1 .. live : Ends(f) \in Nat /\ Size(f) \in Nat BY FileIs
    <3> QED BY <2>3, <2>4, <3>1, <3>2, <3>3 DEF Grown
  <2> QED BY <2>6, <2>7
<1> QED BY <1>2, <1>3

-----------------------------------------------------------------------------
(***************************************************************************)
(* What a run plans to read.                                               *)
(***************************************************************************)

\* Places in files of S.
Readable(p, S) ==
    /\ p \in Seq(Entry)
    /\ \A k \in 1 .. Len(p) : p[k].file \in S /\ p[k].off <= Size(p[k].file)

\* The parts of a place.
LEMMA FromIs == ASSUME NEW f, NEW off PROVE From(f, off).file = f /\ From(f, off).off = off
BY DEF From

\* One place.
LEMMA OneReadable ==
    ASSUME NEW S, S \subseteq Nat, NEW f \in S, NEW off \in Nat, off <= Size(f)
    PROVE  /\ Readable(<<From(f, off)>>, S)
           /\ Len(<<From(f, off)>>) = 1 /\ <<From(f, off)>>[1] = From(f, off)
<1>1. From(f, off) \in Entry BY DEF From, Entry
<1>2. <<From(f, off)>> \in Seq(Entry) BY <1>1
<1>3. From(f, off).file = f /\ From(f, off).off = off BY FromIs
<1> QED BY <1>2, <1>3 DEF Readable

\* The places of one plan after those of another.
LEMMA BothReadable ==
    ASSUME NEW S, NEW p, NEW q, Readable(p, S), Readable(q, S)
    PROVE  /\ Readable(p \o q, S) /\ Len(p \o q) = Len(p) + Len(q)
           /\ \A k \in 1 .. Len(p) : (p \o q)[k] = p[k]
           /\ \A k \in 1 .. Len(q) : (p \o q)[Len(p) + k] = q[k]
<1>1. p \in Seq(Entry) /\ q \in Seq(Entry) BY DEF Readable
<1>2. p \o q \in Seq(Entry) /\ Len(p \o q) = Len(p) + Len(q) BY <1>1
<1>3. \A k \in 1 .. Len(p) : (p \o q)[k] = p[k] BY <1>1
<1>4. \A k \in 1 .. Len(q) : (p \o q)[Len(p) + k] = q[k] BY <1>1
<1>5. ASSUME NEW k \in 1 .. Len(p) + Len(q)
      PROVE  (p \o q)[k].file \in S /\ (p \o q)[k].off <= Size((p \o q)[k].file)
  <2>1. CASE k \in 1 .. Len(p) BY <1>3, <2>1 DEF Readable
  <2>2. CASE k \notin 1 .. Len(p)
    <3>1. k - Len(p) \in 1 .. Len(q) /\ k = Len(p) + (k - Len(p)) BY <1>1, <2>2
    <3>2. (p \o q)[k] = q[k - Len(p)] BY <1>4, <3>1
    <3> QED BY <3>1, <3>2 DEF Readable
  <2> QED BY <2>1, <2>2
<1> QED BY <1>2, <1>3, <1>4, <1>5 DEF Readable

\* A run of files from their beginnings.
LEMMA WholeReadable ==
    ASSUME LogInv, NEW a \in Nat, NEW b \in Nat, NEW c \in Nat, a <= b + 1,
           NEW S, S \subseteq 1 .. live, (a .. b) \ {c} \subseteq S
    PROVE  LET p == Whole(Files((a .. b) \ {c}))
           IN  /\ Readable(p, S) /\ \A k \in 1 .. Len(p) : p[k].off = 0
               /\ c \notin a .. b => /\ Len(p) = b - a + 1
                                    /\ \A k \in 1 .. Len(p) : p[k] = From(a + k - 1, 0)
<1> DEFINE T == (a .. b) \ {c}
           q == Files(T)
           p == Whole(q)
<1>1. /\ Len(q) \in Nat /\ \A k \in 1 .. Len(q) : q[k] \in T
      /\ c \notin a .. b => Len(q) = b - a + 1 /\ \A k \in 1 .. Len(q) : q[k] = a + k - 1
  <2>1. /\ Cardinality(T) \in Nat /\ Len(q) = Cardinality(T)
        /\ \A k \in 1 .. Cardinality(T) : q[k] \in T
        /\ c \notin a .. b =>
              /\ Cardinality(T) = b - a + 1
              /\ \A k \in 1 .. Cardinality(T) : q[k] = a + k - 1
    <3>1. T = (a .. b) \ {c} OBVIOUS
    <3> HIDE DEF T
    <3>2. Cardinality(T) \in Nat BY <3>1, FilesAre
    <3>3. Len(Files(T)) = Cardinality(T) BY <3>1, FilesAre
    <3>4. \A k \in 1 .. Cardinality(T) : Files(T)[k] \in T BY <3>1, FilesAre
    <3>5. c \notin a .. b => Cardinality(T) = b - a + 1 BY <3>1, FilesAre
    <3>6. c \notin a .. b => \A k \in 1 .. Cardinality(T) : Files(T)[k] = a + k - 1
      BY <3>1, FilesAre
    <3> QED BY <3>2, <3>3, <3>4, <3>5, <3>6
  <2> HIDE DEF T, q
  <2> QED BY <2>1
<1> HIDE DEF q
<1>2. p = [k \in 1 .. Len(q) |-> From(q[k], 0)] BY DEF Whole
<1>3. \A k \in 1 .. Len(q) : q[k] \in S /\ q[k] \in 1 .. live BY <1>1
<1>4. live \in Nat BY Bounds DEF LogInv
<1>5. \A k \in 1 .. Len(q) : p[k] = From(q[k], 0) /\ From(q[k], 0) \in Entry
  BY <1>2, <1>3, <1>4 DEF From, Entry
<1>6. p \in [1 .. Len(q) -> Entry] BY <1>2, <1>5
<1>7. p \in Seq(Entry) /\ Len(p) = Len(q) BY <1>1, <1>2, <1>6
<1>8. \A k \in 1 .. Len(q) : p[k].file = q[k] /\ p[k].off = 0
  <2> TAKE k \in 1 .. Len(q)
  <2>1. p[k] = From(q[k], 0) BY <1>5
  <2>2. From(q[k], 0).file = q[k] /\ From(q[k], 0).off = 0 BY FromIs
  <2> HIDE DEF p
  <2> QED BY <2>1, <2>2
<1>9. \A k \in 1 .. Len(q) : 0 <= Size(q[k]) BY <1>3, FileIs
<1>10. Readable(p, S) BY <1>3, <1>7, <1>8, <1>9 DEF Readable
<1> HIDE DEF p
<1> QED BY <1>1, <1>5, <1>7, <1>8, <1>10 DEF p, q

\* Any files from their beginnings.
LEMMA FilesReadable ==
    ASSUME LogInv, NEW S, S \subseteq 1 .. live, NEW T, T \subseteq S
    PROVE  Readable(Whole(Files(T)), S)
<1> DEFINE q == Files(T)
           p == Whole(q)
<1>1. live \in Nat BY Bounds DEF LogInv
<1>2. Len(q) \in Nat /\ \A k \in 1 .. Len(q) : q[k] \in T BY <1>1, FilesOf
<1> HIDE DEF q
<1>3. p = [k \in 1 .. Len(q) |-> From(q[k], 0)] BY DEF Whole
<1>4. \A k \in 1 .. Len(q) : q[k] \in S /\ q[k] \in 1 .. live BY <1>2
<1>5. \A k \in 1 .. Len(q) : p[k] = From(q[k], 0) /\ From(q[k], 0) \in Entry
  BY <1>1, <1>3, <1>4 DEF From, Entry
<1>6. p \in [1 .. Len(q) -> Entry] BY <1>3, <1>5
<1>7. p \in Seq(Entry) /\ Len(p) = Len(q) BY <1>2, <1>3, <1>6
<1>8. \A k \in 1 .. Len(q) : p[k].file = q[k] /\ p[k].off = 0
  <2> TAKE k \in 1 .. Len(q)
  <2>1. p[k] = From(q[k], 0) BY <1>5
  <2>2. From(q[k], 0).file = q[k] /\ From(q[k], 0).off = 0 BY FromIs
  <2> HIDE DEF p
  <2> QED BY <2>1, <2>2
<1>9. \A k \in 1 .. Len(q) : 0 <= Size(q[k]) BY <1>4, FileIs
<1>10. Readable(p, S) BY <1>4, <1>7, <1>8, <1>9 DEF Readable
<1> QED BY <1>10 DEF p, q

\* The files that end at the head or later are the last ones.
LEMMA AfterIs ==
    ASSUME LogInv, NEW c \in Nat, NEW b \in Nat, b < live, NEW hi \in Nat
    PROVE  \E m \in 1 .. b + 1 :
              /\ {f \in (oldest .. b) \ {c} : Ends(f) >= hi} = (m .. b) \ {c}
              /\ m = b + 1 \/ (oldest <= m /\ Ends(m) >= hi)
<1> DEFINE after == {f \in (oldest .. b) \ {c} : Ends(f) >= hi}
<1>1. live \in Nat /\ oldest \in Nat /\ 1 <= oldest BY Bounds DEF LogInv
<1>2. CASE after = {}
  <2>1. after = (b + 1 .. b) \ {c} /\ b + 1 \in 1 .. b + 1 BY <1>2
  <2> QED BY <2>1
<1>3. CASE after # {}
  <2>1. after \subseteq Nat BY <1>1
  <2>2. PICK m \in after : \A f \in after : m <= f BY <1>3, <2>1, LeastOf
  <2>3. m \in oldest .. b /\ m \in 1 .. b + 1 /\ m \in 1 .. live /\ Ends(m) >= hi /\ m # c
    BY <1>1, <2>2
  <2>4. ASSUME NEW f \in (m .. b) \ {c} PROVE f \in after
    <3>1. f \in 1 .. live /\ f \in (oldest .. b) \ {c} /\ (f = m \/ m < f) BY <1>1, <2>3
    <3>2. Ends(f) \in Nat /\ Ends(m) \in Nat /\ Ends(m) <= Ends(f) BY <2>3, <3>1, FileIs
    <3>3. Ends(f) >= hi BY <2>3, <3>2
    <3> QED BY <3>1, <3>3
  <2>5. after = (m .. b) \ {c} BY <1>1, <2>2, <2>3, <2>4
  <2> QED BY <2>3, <2>5
<1> QED BY <1>2, <1>3

\* A rotated file is the one the chain last read, as far as a run can tell.
Matches(f, head) ==
    inode[f] = head.ino /\ Size(f) >= head.off /\ EndsAt(f, head)

\* planSources, case by case: no chain yet; the live log is shorter than what
\* the chain has of it; it goes on; a rotated file goes on; or none of them does.
Fresh(c, head, p) ==
    head.seq = 0 /\ p = [plan |-> <<From(c, 0)>>, note |-> FALSE]
Shorter(c, head, p) ==
    /\ head.seq # 0 /\ head.ino \in {0, inode[c]} /\ Size(c) < head.off
    /\ p = [plan |-> <<From(c, 0)>>, note |-> TRUE]
GoesOn(c, head, p) ==
    /\ head.seq # 0 /\ head.ino \in {0, inode[c]} /\ Size(c) >= head.off
    /\ p = [plan |-> <<From(c, head.off)>>, note |-> FALSE]
Rotated(c, b, head, p) ==
    /\ head.seq # 0 /\ head.ino \notin {0, inode[c]}
    /\ \E first \in (oldest .. b) \ {c} :
          /\ Matches(first, head)
          /\ p = [plan |-> <<From(first, head.off)>> \o Whole(Files((first + 1 .. b) \ {c}))
                             \o <<From(c, 0)>>,
                  note |-> FALSE]
Vanished(c, b, head, p) ==
    /\ head.seq # 0 /\ head.ino \notin {0, inode[c]}
    /\ \A f \in (oldest .. b) \ {c} : ~ Matches(f, head)
    /\ \E m \in 1 .. b + 1 :
          /\ m = b + 1 \/ (oldest <= m /\ Ends(m) >= head.hi)
          /\ p = [plan |-> Whole(Files((m .. b) \ {c})) \o <<From(c, 0)>>, note |-> TRUE]

\* These are all.
LEMMA PlanCases ==
    ASSUME LogInv, NEW c \in 1 .. live, NEW head, Measured(head), NEW b \in Nat, b < live,
           NEW R, R = (oldest .. b) \ {c}, NEW p, p = planSources(c, R, head)
    PROVE  \/ Fresh(c, head, p) \/ Shorter(c, head, p) \/ GoesOn(c, head, p)
           \/ Rotated(c, b, head, p) \/ Vanished(c, b, head, p)
<1> DEFINE same == {f \in R : /\ inode[f] = head.ino /\ Size(f) >= head.off
                              /\ EndsAt(f, head)}
           first == CHOOSE f \in same : \A g \in same : f <= g
           after == {f \in R : head.hi \notin Undated /\ Ends(f) >= head.hi}
<1>0. live \in Nat /\ oldest \in Nat /\ 1 <= oldest /\ c \in Nat /\ R \subseteq Nat
  BY Bounds DEF LogInv
<1>1. CASE head.seq = 0 BY <1>1 DEF planSources, Fresh
<1>2. CASE head.seq # 0 /\ head.ino \in {0, inode[c]}
  <2>1. head.off \in Nat /\ Size(c) \in Nat BY FileIs DEF Measured
  <2>2. CASE Size(c) < head.off BY <1>2, <2>2 DEF planSources, Shorter
  <2>3. CASE ~ (Size(c) < head.off)
    <3>1. Size(c) >= head.off BY <2>1, <2>3
    <3> QED BY <1>2, <2>3, <3>1 DEF planSources, GoesOn, Resumed
  <2> QED BY <2>2, <2>3
<1>3. CASE head.seq # 0 /\ head.ino \notin {0, inode[c]} /\ same # {}
  <2>1. \E f \in same : \A g \in same : f <= g
    <3>1. same \subseteq Nat BY <1>0
    <3> QED BY <1>3, <3>1, LeastOf
  <2>2. first \in same BY <2>1
  <2> HIDE DEF first
  <2>3. first \in R /\ Matches(first, head) BY <2>2 DEF Matches
  <2>4. {f \in R : f > first} = (first + 1 .. b) \ {c} BY <1>0, <2>3
  <2>5. p = [plan |-> <<From(first, head.off)>> \o Whole(Files({f \in R : f > first}))
                        \o <<From(c, 0)>>,
             note |-> FALSE]
    BY <1>3 DEF planSources, first, Resumed
  <2> QED BY <1>3, <2>3, <2>4, <2>5 DEF Rotated
<1>4. CASE head.seq # 0 /\ head.ino \notin {0, inode[c]} /\ same = {}
  <2>1. \A f \in R : ~ Matches(f, head) BY <1>4 DEF Matches
  <2>2. PICK m \in 1 .. b + 1 :
          /\ after = (m .. b) \ {c}
          /\ m = b + 1 \/ (oldest <= m /\ Ends(m) >= head.hi)
    <3>1. CASE head.hi \in Undated
      <4>1. after = {} /\ b + 1 \in 1 .. b + 1 BY <3>1
      <4>2. after = (b + 1 .. b) \ {c} BY <4>1
      <4> QED BY <4>1, <4>2
    <3>2. CASE head.hi \notin Undated
      <4>1. after = {f \in (oldest .. b) \ {c} : Ends(f) >= head.hi} BY <3>2
      <4> QED BY <1>0, <4>1, AfterIs DEF Measured
    <3> QED BY <3>1, <3>2
  <2>3. p = [plan |-> Whole(Files(after)) \o <<From(c, 0)>>, note |-> TRUE]
    BY <1>4 DEF planSources
  <2>6. after = (m .. b) \ {c} BY <2>2
  <2> HIDE DEF after
  <2>4. p = [plan |-> Whole(Files((m .. b) \ {c})) \o <<From(c, 0)>>, note |-> TRUE]
    BY <2>3, <2>6, Zenon
  <2>5. \A f \in (oldest .. b) \ {c} : ~ Matches(f, head) BY <2>1
  <2> QED BY <1>4, <2>2, <2>4, <2>5, Zenon DEF Vanished
<1> QED BY <1>1, <1>2, <1>3, <1>4

\* Whatever is planned is in the files the run has opened.
LEMMA PlanReadable ==
    ASSUME LogInv, NEW c \in 1 .. live, NEW head, Measured(head),
           NEW R, R \subseteq 1 .. live, NEW p, p = planSources(c, R, head)
    PROVE  Readable(p.plan, R \union {c})
<1> DEFINE S == R \union {c}
           same == {f \in R : /\ inode[f] = head.ino /\ Size(f) >= head.off
                              /\ EndsAt(f, head)}
           first == CHOOSE f \in same : \A g \in same : f <= g
           later == {f \in R : f > first}
           after == {f \in R : head.hi \notin Undated /\ Ends(f) >= head.hi}
<1>0. live \in Nat BY Bounds DEF LogInv
<1>1. S \subseteq 1 .. live /\ S \subseteq Nat /\ c \in S /\ R \subseteq S BY <1>0
<1>2. \A f \in S : Size(f) \in Nat BY <1>1, FileIs
<1>3. head.off \in Nat BY DEF Measured
<1>4. later \subseteq S /\ after \subseteq S BY <1>1
<1> HIDE DEF S
<1>5. Readable(<<From(c, 0)>>, S)
  <2>1. 0 \in Nat /\ 0 <= Size(c) BY <1>1, <1>2
  <2> QED BY <1>1, <2>1, OneReadable
<1>6. CASE p.plan = <<From(c, 0)>> BY <1>5, <1>6 DEF S
<1>7. CASE p.plan = <<From(c, head.off)>> /\ ~ (Size(c) < head.off)
  <2>1. head.off <= Size(c) BY <1>1, <1>2, <1>3, <1>7
  <2>2. Readable(<<From(c, head.off)>>, S) BY <1>1, <1>3, <2>1, OneReadable
  <2> QED BY <1>7, <2>2 DEF S
<1>8. CASE /\ same # {}
           /\ p.plan = <<From(first, head.off)>> \o Whole(Files(later)) \o <<From(c, 0)>>
  <2>1. first \in same
    <3>1. same \subseteq Nat BY <1>1
    <3>2. \E f \in same : \A g \in same : f <= g BY <1>8, <3>1, LeastOf
    <3> QED BY <3>2
  <2>2. first \in S /\ Size(first) >= head.off BY <1>1, <2>1
  <2>3. Readable(Whole(Files(later)), S) BY <1>1, <1>4, FilesReadable
  <2> HIDE DEF first, later, same
  <2>4. head.off <= Size(first) BY <1>2, <1>3, <2>2
  <2>5. Readable(<<From(first, head.off)>>, S) BY <1>1, <1>3, <2>2, <2>4, OneReadable
  <2>6. Readable(<<From(first, head.off)>> \o Whole(Files(later)), S)
    BY <2>3, <2>5, BothReadable
  <2>7. Readable((<<From(first, head.off)>> \o Whole(Files(later))) \o <<From(c, 0)>>, S)
    BY <1>5, <2>6, BothReadable
  <2> QED BY <1>8, <2>7 DEF S
<1>9. CASE p.plan = Whole(Files(after)) \o <<From(c, 0)>>
  <2>1. Readable(Whole(Files(after)), S) BY <1>1, <1>4, FilesReadable
  <2> HIDE DEF after
  <2>2. Readable(Whole(Files(after)) \o <<From(c, 0)>>, S) BY <1>5, <2>1, BothReadable
  <2> QED BY <1>9, <2>2 DEF S
<1>10. \/ p.plan = <<From(c, 0)>>
       \/ p.plan = <<From(c, head.off)>> /\ ~ (Size(c) < head.off)
       \/ /\ same # {}
          /\ p.plan = <<From(first, head.off)>> \o Whole(Files(later)) \o <<From(c, 0)>>
       \/ p.plan = Whole(Files(after)) \o <<From(c, 0)>>
  BY DEF planSources, Resumed
<1> QED BY <1>6, <1>7, <1>8, <1>9, <1>10

-----------------------------------------------------------------------------
(***************************************************************************)
(* The types are kept.                                                     *)
(***************************************************************************)

\* What a run that sticks to its files has stays in them as the log grows.
LEMMA RunsKept ==
    ASSUME Inv, LogInv', Grown, UNCHANGED <<primary, offsite, pc, cur, prev, plan, open, note, faults>>
    PROVE  Inv'
<1>1. BucketInv' BY DEF Inv, BucketInv, Original
<1>2. live \in Nat /\ live' \in Nat /\ live <= live' BY Bounds DEF Inv, LogInv, Grown
<1>3. ASSUME NEW r \in Run
      PROVE  /\ cur[r] <= live' /\ open[r] \subseteq 1 .. live'
             /\ \A k \in 1 .. Len(plan[r]) : plan[r][k].off <= Size(plan[r][k].file)'
  <2>1. cur[r] \in Nat /\ cur[r] <= live /\ open[r] \subseteq 1 .. live
    BY DEF Inv, RunInv, RunTypes, RunOK
  <2>2. ASSUME NEW k \in 1 .. Len(plan[r]) PROVE plan[r][k].off <= Size(plan[r][k].file)'
    <3> DEFINE f == plan[r][k].file
    <3>1. f \in 1 .. live /\ plan[r][k].off <= Size(f) /\ plan[r][k] \in Entry
      BY <2>1 DEF Inv, RunInv, RunTypes, RunOK
    <3>2. plan[r][k].off \in Nat BY <3>1 DEF Entry
    <3>3. PICK g \in 1 .. live : g = f BY <3>1
    <3>4. Size(g) \in Nat /\ Size(g)' \in Nat /\ Size(g) <= Size(g)' BY FileIs DEF Inv, Grown
    <3>5. plan'[r][k].file = g BY <3>3
    <3> QED BY <3>1, <3>2, <3>3, <3>4, <3>5
  <2> QED BY <1>2, <2>1, <2>2
<1>4. RunInv' BY <1>3 DEF Inv, RunInv, RunTypes, RunOK
<1> QED BY <1>1, <1>4 DEF Inv

\* The inductive invariant holds initially.
LEMMA InvStarts == ASSUME Init PROVE Inv
<1>1. live = 1 /\ starts = <<0>> /\ n = 0 /\ oldest = 1 BY DEF Init, live
<1>2. PICK x \in Inode : inode = <<x>> BY DEF Init
<1>3. inode \in Seq(Inode) /\ Len(inode) = 1 BY <1>2
<1>4. LogInv BY <1>1, <1>3, Bounds DEF LogInv
<1>5. BucketInv BY DEF Init, BucketInv, IsSeq
<1>6. RunInv
  <2>1. Measured(NoSegment) /\ NoSegment.seq = 0 BY DEF Measured, NoSegment
  <2>2. Len(primary) = 0 BY DEF Init
  <2>3. \A r \in Run : prev[r] = NoSegment /\ plan[r] = <<>> /\ pc[r] = "idle"
                      /\ cur[r] = 0 /\ open[r] = {} /\ note[r] = {}
    BY DEF Init
  <2>4. prev = [r \in Run |-> prev[r]] /\ note = [r \in Run |-> note[r]] BY DEF Init
  <2>5. pc \in [Run -> {"idle", "plan", "read", "copy"}] /\ cur \in [Run -> Nat]
        /\ open \in [Run -> SUBSET Nat] /\ plan \in [Run -> Seq(Entry)] /\ faults = 0
    BY DEF Init
  <2> QED BY <1>1, <2>1, <2>2, <2>3, <2>4, <2>5, Bounds DEF RunInv, RunTypes, RunOK
<1> QED BY <1>4, <1>5, <1>6 DEF Inv

\* A segment is built from what follows in a file.
LEMMA BuildIs ==
    ASSUME LogInv, NEW h, Measured(h), NEW f \in 1 .. live, NEW off \in Nat, off <= Size(f),
           Complete(f, off) > 0, NEW s, s = BuildSegment(h, f, off)
    PROVE  /\ Measured(s) /\ s.seq = h.seq + 1 /\ s.prev = Hash(h) /\ s.ino = inode[f]
           /\ s.lo = starts[f] + off /\ s.hi = starts[f] + s.off
           /\ s.off <= Size(f) /\ s.lo < s.hi /\ s.hi <= Ends(f)
<1>1. starts[f] \in Nat /\ Size(f) \in Nat /\ Ends(f) = starts[f] + Size(f) BY FileIs
<1>2. Complete(f, off) \in Nat /\ Complete(f, off) <= Size(f) - off
  BY <1>1, Bounds DEF Complete
<1> DEFINE lo == starts[f] + off
           hi == lo + Complete(f, off)
<1>3. s = [seq |-> h.seq + 1, prev |-> Hash(h), lo |-> lo, hi |-> hi,
           off |-> hi - starts[f], ino |-> inode[f]]
  BY DEF BuildSegment
<1>4. /\ s.seq = h.seq + 1 /\ s.prev = Hash(h) /\ s.ino = inode[f]
      /\ s.lo = starts[f] + off /\ s.hi = starts[f] + off + Complete(f, off)
      /\ s.off = off + Complete(f, off)
  BY <1>1, <1>2, <1>3
<1> HIDE DEF lo, hi
<1> QED BY <1>1, <1>2, <1>4 DEF Measured

\* A segment is put behind the last one, or over one that is there.
LEMMA PutIs ==
    ASSUME BucketInv, NEW s, Measured(s), 1 <= s.seq, s.seq <= Len(primary) + 1, Put(s),
           offsite' = offsite
    PROVE  /\ BucketInv' /\ Len(primary) \in Nat /\ Len(primary') \in Nat
           /\ Len(primary) <= Len(primary') /\ s.seq <= Len(primary')
           /\ \A t \in 1 .. Len(primary) : Original(t)' = Original(t)
           /\ s.seq = Len(primary) + 1 =>
                 /\ Len(primary') = s.seq /\ primary'[s.seq] = <<s>>
                 /\ \A t \in 1 .. Len(primary) : primary'[t] = primary[t]
<1>0. IsSeq(primary) /\ Len(primary) \in Nat /\ s.seq \in Nat BY DEF BucketInv, IsSeq, Measured
<1>1. CASE s.seq = Len(primary) + 1
  <2>1. primary' = Append(primary, <<s>>) BY <1>0, <1>1 DEF Put
  <2>2. /\ IsSeq(primary') /\ Len(primary') = Len(primary) + 1
        /\ \A t \in 1 .. Len(primary) : primary'[t] = primary[t]
        /\ primary'[s.seq] = <<s>>
    BY <1>0, <1>1, <2>1, SeqGrows
  <2>3. IsSeq(<<s>>) /\ Len(<<s>>) = 1 /\ <<s>>[1] = s BY Singleton
  <2>4. ASSUME NEW t \in 1 .. Len(primary')
        PROVE  /\ IsSeq(primary'[t]) /\ Len(primary'[t]) >= 1
               /\ Original(t)'.seq = t /\ Measured(Original(t)')
    <3>1. CASE t = s.seq BY <2>2, <2>3, <3>1 DEF Original
    <3>2. CASE t # s.seq
      <4>1. t \in 1 .. Len(primary) /\ primary'[t] = primary[t] BY <1>0, <1>1, <2>2, <3>2
      <4> QED BY <4>1 DEF BucketInv, Original
    <3> QED BY <3>1, <3>2
  <2>5. \A x \in offsite' : x.seq \in 1 .. Len(primary') BY <1>0, <2>2 DEF BucketInv
  <2>6. BucketInv' BY <2>2, <2>4, <2>5 DEF BucketInv
  <2> QED BY <1>0, <1>1, <2>2, <2>6 DEF Original
<1>2. CASE s.seq # Len(primary) + 1
  <2>0. s.seq \in 1 .. Len(primary) BY <1>0, <1>2
  <2>1. primary' = [primary EXCEPT ![s.seq] = Append(primary[s.seq], s)]
    BY <1>0, <2>0 DEF Put
  <2>2. primary = [t \in 1 .. Len(primary) |-> primary[t]] BY <1>0 DEF IsSeq
  <2>3. /\ primary' = [t \in 1 .. Len(primary) |-> primary'[t]]
        /\ \A t \in 1 .. Len(primary) :
              primary'[t] = IF t = s.seq THEN Append(primary[s.seq], s) ELSE primary[t]
    BY <2>0, <2>1, <2>2
  <2>4. Len(primary') = Len(primary) BY <1>0, <2>3
  <2>5. /\ IsSeq(Append(primary[s.seq], s))
        /\ Len(Append(primary[s.seq], s)) = Len(primary[s.seq]) + 1
        /\ Append(primary[s.seq], s)[1] = primary[s.seq][1]
    <3>1. IsSeq(primary[s.seq]) /\ Len(primary[s.seq]) >= 1 BY <2>0 DEF BucketInv
    <3>2. 1 \in 1 .. Len(primary[s.seq]) BY <3>1 DEF IsSeq
    <3> QED BY <3>1, <3>2, SeqGrows
  <2>6. ASSUME NEW t \in 1 .. Len(primary)
        PROVE  /\ IsSeq(primary'[t]) /\ Len(primary'[t]) >= 1
               /\ Original(t)' = Original(t)
    <3>1. IsSeq(primary[t]) /\ Len(primary[t]) >= 1 BY DEF BucketInv
    <3>2. CASE t = s.seq
      <4>1. primary'[t] = Append(primary[s.seq], s) BY <2>3, <3>2
      <4>2. Len(primary[s.seq]) \in Nat BY <3>1, <3>2 DEF IsSeq
      <4>3. Len(primary'[t]) >= 1 BY <2>5, <4>1, <4>2
      <4> QED BY <2>5, <3>2, <4>1, <4>3 DEF Original
    <3>3. CASE t # s.seq BY <2>3, <3>1, <3>3 DEF Original
    <3> QED BY <3>2, <3>3
  <2>7. IsSeq(primary') BY <1>0, <2>3, <2>4 DEF IsSeq
  <2>8. \A t \in 1 .. Len(primary) : Original(t)'.seq = t /\ Measured(Original(t)')
    BY <2>6 DEF BucketInv
  <2>9. BucketInv' BY <2>4, <2>6, <2>7, <2>8 DEF BucketInv
  <2> QED BY <1>0, <1>2, <2>0, <2>4, <2>6, <2>9
<1> QED BY <1>1, <1>2

\* Run r changes and the others do not.
OnlyRun(r) ==
    \A q \in Run \ {r} : /\ pc'[q] = pc[q] /\ cur'[q] = cur[q] /\ prev'[q] = prev[q]
                         /\ plan'[q] = plan[q] /\ open'[q] = open[q] /\ note'[q] = note[q]

\* A step of one run, with backups removed meanwhile, may add to the bucket.
LEMMA OneRunSteps ==
    ASSUME Inv, NEW r \in Run, UNCHANGED <<n, starts, inode>>, oldest' \in 1 .. live,
           BucketInv', RunTypes', RunOK(r)', OnlyRun(r), Len(primary) <= Len(primary')
    PROVE  Inv'
<1>1. LogInv' /\ live' = live /\ \A f : Size(f)' = Size(f)
  BY DEF Inv, LogInv, live, Size, Ends
<1>2. Len(primary) \in Nat /\ Len(primary') \in Nat BY DEF Inv, BucketInv, IsSeq
<1>3. ASSUME NEW q \in Run \ {r} PROVE RunOK(q)'
  <2>1. RunOK(q) BY DEF Inv, RunInv
  <2>2. prev[q].seq \in Nat BY <2>1 DEF RunOK, Measured
  <2>3. prev'[q].seq <= Len(primary') BY <1>2, <2>1, <2>2 DEF RunOK, OnlyRun
  <2>4. \A k \in 1 .. Len(plan'[q]) :
          plan'[q][k].file \in open'[q] /\ plan'[q][k].off <= Size(plan[q][k].file)'
    BY <1>1, <2>1 DEF RunOK, OnlyRun
  <2> QED BY <1>1, <2>1, <2>3, <2>4 DEF RunOK, OnlyRun
<1>4. \A q \in Run : RunOK(q)' BY <1>3
<1>5. RunInv' BY <1>4 DEF RunInv
<1> QED BY <1>1, <1>5 DEF Inv

\* Most of its steps leave the log alone.
LEMMA OneRunKept ==
    ASSUME Inv, NEW r \in Run, UNCHANGED log, BucketInv', RunTypes', RunOK(r)', OnlyRun(r),
           Len(primary) <= Len(primary')
    PROVE  Inv'
<1>1. UNCHANGED <<n, starts, inode>> /\ oldest' \in 1 .. live BY DEF log, Inv, LogInv
<1> QED BY <1>1, OneRunSteps

\* The head of the bucket is a segment of it, or none.
LEMMA HeadIs ==
    ASSUME BucketInv
    PROVE  /\ Measured(BucketHead) /\ BucketHead.seq = Len(primary) /\ Len(primary) \in Nat
           /\ primary # <<>> <=> Len(primary) # 0
           /\ primary # <<>> => BucketHead = Original(Len(primary))
<1>1. Len(primary) \in Nat /\ primary = [i \in 1 .. Len(primary) |-> primary[i]]
  BY DEF BucketInv, IsSeq
<1>2. primary # <<>> <=> Len(primary) # 0
  <2>1. CASE Len(primary) = 0
    <3>1. primary = [i \in 1 .. 0 |-> primary[i]] BY <1>1, <2>1
    <3>2. primary = <<>> BY <3>1
    <3> QED BY <2>1, <3>2
  <2>2. CASE Len(primary) # 0 BY <2>2
  <2> QED BY <2>1, <2>2
<1>3. CASE primary = <<>> BY <1>1, <1>2, <1>3 DEF BucketHead, NoSegment, Measured
<1>4. CASE primary # <<>>
  <2>1. Len(primary) \in 1 .. Len(primary) BY <1>1, <1>2, <1>4
  <2> QED BY <1>1, <1>2, <1>4, <2>1 DEF BucketHead, BucketInv
<1> QED BY <1>3, <1>4

\* A run begins.
LEMMA StartKept == ASSUME Inv, NEW r \in Run, Start(r) PROVE Inv'
<1> USE DEF Inv
<1>1. UNCHANGED log /\ OnlyRun(r) /\ UNCHANGED <<primary, offsite, plan, note, faults>>
  BY DEF Start, OnlyRun, RunInv, RunTypes, reports
<1>2. BucketInv' /\ Len(primary) \in Nat /\ Len(primary) <= Len(primary')
  BY <1>1 DEF BucketInv, Original, IsSeq
<1>3. live \in Nat /\ live # 0 /\ live' = live BY <1>1, Bounds DEF LogInv, live, log
<1>4. /\ pc'[r] = "plan" /\ cur'[r] = live /\ open'[r] = {live} /\ prev'[r] = BucketHead
      /\ plan'[r] = <<>> /\ note'[r] = {}
  BY <1>1 DEF Start, RunInv, RunTypes, RunOK
<1>5. RunTypes' BY <1>1, <1>3 DEF Start, RunInv, RunTypes
<1>6. RunOK(r)'
  <2>1. Measured(BucketHead) /\ BucketHead.seq <= Len(primary') BY <1>1, HeadIs
  <2> QED BY <1>3, <1>4, <2>1 DEF RunOK
<1> QED BY <1>1, <1>2, <1>5, <1>6, OneRunKept

\* A run plans what to read.
LEMMA PlanKept == ASSUME Inv, NEW r \in Run, Plan(r) PROVE Inv'
<1> USE DEF Inv
<1>0. PICK o \in oldest .. live, opened \in SUBSET (oldest .. live - 1) :
        LET rotated == opened \ {cur[r]}
            q == planSources(cur[r], rotated, prev[r])
        IN  /\ oldest' = o
            /\ plan' = [plan EXCEPT ![r] = q.plan]
            /\ open' = [open EXCEPT ![r] = rotated \union {cur[r]}]
            /\ note' = [note EXCEPT ![r] = IF q.note THEN {prev[r].hi} ELSE {}]
  BY DEF Plan
<1> DEFINE R == opened \ {cur[r]}
           p == planSources(cur[r], R, prev[r])
<1>1. /\ UNCHANGED <<n, starts, inode, primary, offsite, cur, prev, faults>>
      /\ pc' = [pc EXCEPT ![r] = "read"] /\ OnlyRun(r)
  BY <1>0 DEF Plan, OnlyRun, RunInv, RunTypes
<1>2. BucketInv' /\ Len(primary) \in Nat /\ Len(primary) <= Len(primary')
  BY <1>1 DEF BucketInv, Original, IsSeq
<1>3. /\ live \in Nat /\ live' = live /\ oldest \in Nat /\ 1 <= oldest
      /\ oldest' \in 1 .. live /\ \A f : Size(f)' = Size(f)
  BY <1>0, <1>1, Bounds DEF LogInv, live, Size, Ends
<1>4. cur[r] \in 1 .. live /\ Measured(prev[r]) /\ prev[r].seq <= Len(primary)
  BY <1>3 DEF Plan, RunInv, RunTypes, RunOK
<1>5. /\ plan' = [plan EXCEPT ![r] = p.plan] /\ open' = [open EXCEPT ![r] = R \union {cur[r]}]
      /\ pc' = [pc EXCEPT ![r] = "read"]
      /\ note' = [note EXCEPT ![r] = IF p.note THEN {prev[r].hi} ELSE {}]
  BY <1>0, <1>1
<1>7. R \subseteq 1 .. live /\ R \union {cur[r]} \subseteq 1 .. live
  <2>1. oldest .. live - 1 \subseteq 1 .. live BY <1>3
  <2>2. R \subseteq oldest .. live - 1 BY <1>0
  <2> QED BY <1>4, <2>1, <2>2
<1>6. Readable(p.plan, R \union {cur[r]}) BY <1>4, <1>7, PlanReadable
<1> HIDE DEF p, R
<1>8. /\ plan'[r] = p.plan /\ open'[r] = R \union {cur[r]} /\ pc'[r] = "read"
      /\ cur'[r] = cur[r] /\ prev'[r] = prev[r]
  BY <1>1, <1>5 DEF RunInv, RunTypes
<1>9. RunTypes'
  <2>1. p.plan \in Seq(Entry) BY <1>6 DEF Readable
  <2>2. R \union {cur[r]} \in SUBSET Nat BY <1>3, <1>7
  <2>3. note' = [q \in Run |-> note'[q]] BY <1>5 DEF RunInv, RunTypes
  <2> QED BY <1>1, <1>5, <2>1, <2>2, <2>3 DEF RunInv, RunTypes
<1>10. RunOK(r)'
  <2>1. \A k \in 1 .. Len(plan'[r]) :
          plan'[r][k].file \in open'[r] /\ plan'[r][k].off <= Size(plan[r][k].file)'
    BY <1>3, <1>6, <1>8 DEF Readable
  <2>2. cur'[r] <= live' BY <1>3, <1>4, <1>8
  <2> QED BY <1>1, <1>3, <1>4, <1>7, <1>8, <2>1, <2>2 DEF RunOK
<1> QED BY <1>1, <1>2, <1>3, <1>9, <1>10, OneRunSteps

\* A run is over.
LEMMA OverKept ==
    ASSUME Inv, NEW r \in Run, RunDone(r) \/ RunFails(r) \/ Killed(r)
    PROVE  Inv'
<1> USE DEF Inv
<1>1. UNCHANGED log /\ OnlyRun(r) /\ UNCHANGED <<primary, offsite>> /\ Over(r)
  BY DEF RunDone, RunFails, Killed, Over, OnlyRun, RunInv, RunTypes
<1>2. faults' \in 0 .. MaxFaults
  BY Bounds DEF RunDone, RunFails, Killed, Fault, RunInv, RunTypes
<1>3. BucketInv' /\ Len(primary) \in Nat /\ Len(primary) <= Len(primary')
  BY <1>1 DEF BucketInv, Original, IsSeq
<1>4. live \in Nat /\ live' = live BY <1>1, Bounds DEF LogInv, live, log
<1>5. /\ pc'[r] = "idle" /\ cur'[r] = 0 /\ open'[r] = {} /\ prev'[r] = NoSegment
      /\ plan'[r] = <<>> /\ note'[r] = {}
  BY <1>1 DEF Over, RunInv, RunTypes
<1>6. RunTypes'
  <2>1. <<>> \in Seq(Entry) /\ {} \in SUBSET Nat /\ 0 \in Nat OBVIOUS
  <2>2. plan' \in [Run -> Seq(Entry)] BY <1>1, <2>1 DEF Over, RunInv, RunTypes
  <2>3. prev' = [q \in Run |-> prev'[q]] /\ note' = [q \in Run |-> note'[q]]
    BY <1>1 DEF Over, RunInv, RunTypes
  <2>4. /\ cur' \in [Run -> Nat] /\ open' \in [Run -> SUBSET Nat]
        /\ pc' \in [Run -> {"idle", "plan", "read", "copy"}]
    BY <1>1, <2>1 DEF Over, RunInv, RunTypes
  <2> QED BY <1>2, <2>2, <2>3, <2>4 DEF RunTypes
<1>7. RunOK(r)'
  <2>1. Measured(NoSegment) /\ NoSegment.seq = 0 BY DEF Measured, NoSegment
  <2> QED BY <1>1, <1>3, <1>4, <1>5, <2>1 DEF RunOK
<1> QED BY <1>1, <1>3, <1>6, <1>7, OneRunKept

\* The first place of a plan.
LEMMA PlaceIs ==
    ASSUME Inv, NEW r \in Run, plan[r] # <<>>
    PROVE  LET e == plan[r][1]
           IN  /\ plan[r] \in Seq(Entry) /\ Len(plan[r]) \in Nat /\ 1 <= Len(plan[r])
               /\ e \in Entry /\ e.file \in 1 .. live /\ e.file \in open[r]
               /\ e.off \in Nat /\ e.off <= Size(e.file)
<1>1. plan[r] \in Seq(Entry) BY DEF Inv, RunInv, RunTypes
<1>2. Len(plan[r]) \in Nat /\ 1 <= Len(plan[r]) /\ plan[r][1] \in Entry BY <1>1
<1>3. 1 \in 1 .. Len(plan[r]) BY <1>2
<1>4. plan[r][1].file \in open[r] /\ open[r] \subseteq 1 .. live
      /\ plan[r][1].off <= Size(plan[r][1].file)
  BY <1>3 DEF Inv, RunInv, RunOK
<1>5. plan[r][1].off \in Nat BY <1>2 DEF Entry
<1> QED BY <1>1, <1>2, <1>4, <1>5

\* A run goes on to its next file.
LEMMA FileDoneKept == ASSUME Inv, NEW r \in Run, FileDone(r) PROVE Inv'
<1> USE DEF Inv
<1>1. UNCHANGED log /\ OnlyRun(r) /\ UNCHANGED <<primary, offsite, pc, cur, prev, open, note, faults>>
  BY DEF FileDone, reports, OnlyRun, RunInv, RunTypes
<1>2. BucketInv' /\ Len(primary) \in Nat /\ Len(primary) <= Len(primary')
  BY <1>1 DEF BucketInv, Original, IsSeq
<1>3. live' = live /\ \A f : Size(f)' = Size(f) BY <1>1 DEF live, log, Size, Ends
<1>4. plan[r] # <<>> /\ plan' = [plan EXCEPT ![r] = Tail(plan[r])] /\ pc[r] = "read"
  BY DEF FileDone
<1>5. plan[r] \in Seq(Entry) /\ plan'[r] = Tail(plan[r]) BY <1>4 DEF RunInv, RunTypes
<1>6. /\ Tail(plan[r]) \in Seq(Entry) /\ Len(Tail(plan[r])) = Len(plan[r]) - 1
      /\ Len(plan[r]) \in Nat
      /\ \A k \in 1 .. Len(plan[r]) - 1 : Tail(plan[r])[k] = plan[r][k + 1]
  BY <1>4, <1>5
<1>7. RunTypes' BY <1>1, <1>4, <1>6 DEF RunInv, RunTypes
<1>8. RunOK(r)'
  <2>1. ASSUME NEW k \in 1 .. Len(plan'[r])
        PROVE  plan'[r][k].file \in open'[r] /\ plan'[r][k].off <= Size(plan[r][k].file)'
    <3>1. k + 1 \in 1 .. Len(plan[r]) /\ plan'[r][k] = plan[r][k + 1] BY <1>5, <1>6
    <3> QED BY <1>1, <1>3, <3>1 DEF RunInv, RunOK
  <2>2. RunOK(r) BY DEF RunInv
  <2> QED BY <1>1, <1>3, <1>4, <2>1, <2>2 DEF RunOK
<1> QED BY <1>1, <1>2, <1>7, <1>8, OneRunKept

\* A run that ships a segment, seen from its first place.
LEMMA ShipIs ==
    ASSUME Inv, NEW r \in Run, ShipSegment(r)
    PROVE  \E f \in 1 .. live, off \in Nat : \E s :
              /\ plan[r] # <<>> /\ plan[r][1] = From(f, off) /\ f \in open[r]
              /\ off <= Size(f) /\ Complete(f, off) > 0
              /\ s = BuildSegment(prev[r], f, off) /\ Put(s)
              /\ prev' = [prev EXCEPT ![r] = s]
              /\ plan' = [plan EXCEPT ![r] = [plan[r] EXCEPT ![1] = From(f, s.off)]]
<1> DEFINE e == plan[r][1]
           f == e.file
           off == e.off
           s == BuildSegment(prev[r], f, off)
<1>1. /\ plan[r] # <<>> /\ Complete(f, off) > 0 /\ Put(s)
      /\ prev' = [prev EXCEPT ![r] = s]
      /\ plan' = [plan EXCEPT ![r][1].off = s.off]
  BY DEF ShipSegment, Advanced
<1> HIDE DEF s
<1>2. /\ plan[r] \in Seq(Entry) /\ Len(plan[r]) \in Nat /\ 1 <= Len(plan[r]) /\ e \in Entry
      /\ f \in 1 .. live /\ f \in open[r] /\ off \in Nat /\ off <= Size(f)
  BY <1>1, PlaceIs
<1>3. e = From(f, off) BY <1>2 DEF Entry, From
<1>4. plan' = [plan EXCEPT ![r] = [plan[r] EXCEPT ![1] = [plan[r][1] EXCEPT !.off = s.off]]]
  BY <1>1
<1>5. [plan[r][1] EXCEPT !.off = s.off] = From(f, s.off) BY <1>2 DEF Entry, From
<1>6. plan' = [plan EXCEPT ![r] = [plan[r] EXCEPT ![1] = From(f, s.off)]] BY <1>4, <1>5
<1> QED BY <1>1, <1>2, <1>3, <1>6 DEF s

\* A run ships a segment.
LEMMA ShipKept == ASSUME Inv, NEW r \in Run, ShipSegment(r) PROVE Inv'
<1> USE DEF Inv
<1>1. PICK f \in 1 .. live, off \in Nat : \E s :
         /\ plan[r] # <<>> /\ plan[r][1] = From(f, off) /\ f \in open[r]
         /\ off <= Size(f) /\ Complete(f, off) > 0
         /\ s = BuildSegment(prev[r], f, off) /\ Put(s)
         /\ prev' = [prev EXCEPT ![r] = s]
         /\ plan' = [plan EXCEPT ![r] = [plan[r] EXCEPT ![1] = From(f, s.off)]]
  BY ShipIs
<1>2. PICK s :
         /\ plan[r] # <<>> /\ plan[r][1] = From(f, off) /\ f \in open[r]
         /\ off <= Size(f) /\ Complete(f, off) > 0
         /\ s = BuildSegment(prev[r], f, off) /\ Put(s)
         /\ prev' = [prev EXCEPT ![r] = s]
         /\ plan' = [plan EXCEPT ![r] = [plan[r] EXCEPT ![1] = From(f, s.off)]]
  BY <1>1
<1>3. UNCHANGED log /\ OnlyRun(r) /\ UNCHANGED <<offsite, cur, open, note, faults>>
      /\ pc' = [pc EXCEPT ![r] = "copy"]
  BY <1>2 DEF ShipSegment, reports, OnlyRun, RunInv, RunTypes
<1>4. Measured(prev[r]) /\ prev[r].seq \in Nat /\ prev[r].seq <= Len(primary) /\ RunOK(r)
  BY DEF RunInv, RunOK, Measured
<1>5. Measured(s) /\ s.seq = prev[r].seq + 1 /\ s.off <= Size(f) /\ s.off \in Nat /\ s.seq \in Nat
  BY <1>2, <1>4, BuildIs DEF Measured
<1>6. 1 <= s.seq /\ s.seq <= Len(primary) + 1
  BY <1>4, <1>5 DEF BucketInv, IsSeq
<1>7. /\ BucketInv' /\ Len(primary) \in Nat /\ Len(primary') \in Nat
      /\ Len(primary) <= Len(primary') /\ s.seq <= Len(primary')
  BY <1>2, <1>3, <1>5, <1>6, PutIs
<1>8. live' = live /\ live \in Nat /\ \A g : Size(g)' = Size(g)
  BY <1>3, Bounds DEF live, log, Size, Ends, LogInv
<1>9. From(f, s.off) \in Entry /\ From(f, s.off).file = f /\ From(f, s.off).off = s.off
  BY <1>5, <1>8 DEF From, Entry
<1> DEFINE q == [plan[r] EXCEPT ![1] = From(f, s.off)]
<1>10. plan[r] \in Seq(Entry) /\ plan[r] # <<>> BY <1>2 DEF RunInv, RunTypes
<1>11. /\ q \in Seq(Entry) /\ Len(q) = Len(plan[r])
       /\ \A k \in 1 .. Len(plan[r]) : q[k] = IF k = 1 THEN From(f, s.off) ELSE plan[r][k]
  BY <1>9, <1>10
<1> HIDE DEF q
<1>12. plan' = [plan EXCEPT ![r] = q] BY <1>2 DEF q
<1>13. plan'[r] = q /\ prev'[r] = s /\ pc'[r] = "copy" /\ cur'[r] = cur[r] /\ open'[r] = open[r]
  BY <1>2, <1>3, <1>12 DEF RunInv, RunTypes
<1>14. RunTypes'
  <2>1. prev' = [t \in Run |-> prev'[t]] BY <1>2 DEF RunInv, RunTypes
  <2> QED BY <1>3, <1>11, <1>12, <2>1 DEF RunInv, RunTypes
<1>15. RunOK(r)'
  <2>1. ASSUME NEW k \in 1 .. Len(plan'[r])
        PROVE  plan'[r][k].file \in open'[r] /\ plan'[r][k].off <= Size(plan[r][k].file)'
    <3>1. k \in 1 .. Len(plan[r]) /\ plan'[r][k] = q[k] BY <1>11, <1>13
    <3>2. CASE k = 1 BY <1>2, <1>5, <1>8, <1>9, <1>11, <1>13, <3>1, <3>2
    <3>3. CASE k # 1 BY <1>4, <1>8, <1>11, <1>13, <3>1, <3>3 DEF RunOK
    <3> QED BY <3>2, <3>3
  <2> QED BY <1>4, <1>5, <1>6, <1>7, <1>8, <1>13, <2>1 DEF RunOK
<1> QED BY <1>3, <1>7, <1>14, <1>15, OneRunKept

\* A run copies the segment it shipped.
LEMMA CopyKept == ASSUME Inv, NEW r \in Run, CopySegment(r) PROVE Inv'
<1> USE DEF Inv
<1>1. UNCHANGED log /\ OnlyRun(r) /\ UNCHANGED <<primary, cur, prev, plan, open, note, faults>>
      /\ pc[r] = "copy" /\ pc' = [pc EXCEPT ![r] = "read"] /\ offsite' = offsite \union {prev[r]}
  BY DEF CopySegment, reports, OnlyRun, RunInv, RunTypes
<1>2. RunOK(r) /\ prev[r].seq \in Nat /\ prev[r].seq # 0 /\ prev[r].seq <= Len(primary)
  BY <1>1 DEF RunInv, RunOK, Measured
<1>3. BucketInv' /\ Len(primary) \in Nat /\ Len(primary) <= Len(primary')
  BY <1>1, <1>2 DEF BucketInv, Original, IsSeq
<1>4. live' = live /\ \A f : Size(f)' = Size(f) BY <1>1 DEF live, log, Size, Ends
<1>5. RunTypes' BY <1>1 DEF RunInv, RunTypes
<1>6. pc'[r] = "read" BY <1>1 DEF RunInv, RunTypes
<1>7. RunOK(r)' BY <1>1, <1>2, <1>4, <1>6 DEF RunOK
<1> QED BY <1>1, <1>3, <1>5, <1>7, OneRunKept

\* The inductive invariant is kept.
LEMMA InvHolds == ASSUME Inv, [Next]_vars PROVE Inv'
<1>1. CASE AppendRecord \/ Rotate \/ Prune
  <2>1. UNCHANGED <<primary, offsite, pc, cur, prev, plan, open, note, faults>>
    BY <1>1 DEF AppendRecord, Rotate, Prune, reports
  <2> QED BY <1>1, <2>1, LogGrows, RunsKept DEF Inv
<1>2. ASSUME NEW r \in Run, Works(r) \/ RunFails(r) \/ Killed(r) PROVE Inv'
  BY <1>2, StartKept, PlanKept, FileDoneKept, OverKept, ShipKept, CopyKept DEF Works
<1>3. CASE UNCHANGED vars
  BY <1>3, LogGrows, RunsKept DEF Inv, vars, reports
<1> QED BY <1>1, <1>2, <1>3 DEF Next

\* The inductive invariant is an invariant of the specification.
LEMMA InvAlways == Spec => []Inv
BY InvStarts, InvHolds, PTL DEF Spec

\* The log, the buckets and the runs keep their types, and a run never reads
\* outside the files it holds open, for any number of runs at one time.
THEOREM TypeCorrect == Spec => []TypeOK
<1>1. Inv => TypeOK
  <2> SUFFICES ASSUME Inv PROVE TypeOK OBVIOUS
  <2>1. /\ n \in 0 .. MaxRecords /\ live \in 1 .. MaxFiles /\ oldest \in 1 .. live
        /\ faults \in 0 .. MaxFaults /\ live \in Nat
    BY Bounds DEF Inv, LogInv, RunInv, RunTypes
  <2>2. \A f \in 1 .. live : Size(f) >= 0 /\ inode[f] \in Inode BY FileIs DEF Inv
  <2>3. /\ \A s \in 1 .. Len(primary) : primary[s] # <<>>
        /\ \A s \in offsite : s.seq \in 1 .. Len(primary)
    BY DEF Inv, BucketInv
  <2>4. ASSUME NEW r \in Run
        PROVE  /\ pc[r] \in {"idle", "plan", "read", "copy"} /\ cur[r] \in 0 .. live
               /\ prev[r].seq \in 0 .. Len(primary)
               /\ \A k \in 1 .. Len(plan[r]) :
                     plan[r][k].file \in open[r] /\ plan[r][k].off \in 0 .. Size(plan[r][k].file)
               /\ open[r] \subseteq 1 .. live
               /\ pc[r] = "idle" => note[r] = {}
    <3>1. RunOK(r) /\ RunTypes BY DEF Inv, RunInv
    <3>2. Len(primary) \in Nat BY DEF Inv, BucketInv, IsSeq
    <3>3. ASSUME NEW k \in 1 .. Len(plan[r])
          PROVE  plan[r][k].file \in open[r] /\ plan[r][k].off \in 0 .. Size(plan[r][k].file)
      <4>1. plan[r][k] \in Entry /\ plan[r][k].file \in open[r] /\ plan[r][k].file \in 1 .. live
            /\ plan[r][k].off <= Size(plan[r][k].file)
        BY <3>1 DEF RunOK, RunTypes
      <4>2. plan[r][k].off \in Nat BY <4>1 DEF Entry
      <4>3. Size(plan[r][k].file) \in Nat BY <4>1, FileIs DEF Inv
      <4> QED BY <4>1, <4>2, <4>3
    <3> QED BY <2>1, <3>1, <3>2, <3>3 DEF RunOK, RunTypes, Measured
  <2> QED BY <2>1, <2>2, <2>3, <2>4 DEF TypeOK
<1> QED BY <1>1, InvAlways, PTL

-----------------------------------------------------------------------------
(***************************************************************************)
(* One run at a time: the segments form one chain.                         *)
(***************************************************************************)

\* A run is over before the next one starts.  The CronJob's concurrencyPolicy,
\* Replace, sees to that but for the time it takes to terminate the old one.
OneRun == \A r, q \in Run : r = q

\* A run's head is the head of the bucket.
HeadsAgree == \A r \in Run : pc[r] # "idle" => prev[r] = BucketHead

ChainInv == ChainLinked /\ HeadsAgree

\* A run that has the head of the bucket ships the segment after it.
LEMMA ShipsNext ==
    ASSUME Inv, NEW r \in Run, ShipSegment(r), prev[r] = BucketHead
    PROVE  \E f \in 1 .. live, off \in Nat : \E s :
              /\ plan[r] # <<>> /\ plan[r][1] = From(f, off) /\ off <= Size(f)
              /\ Measured(s) /\ s.seq = Len(primary) + 1 /\ s.prev = Hash(prev[r])
              /\ s.ino = inode[f] /\ s.lo = starts[f] + off /\ s.hi = starts[f] + s.off
              /\ s.off <= Size(f) /\ s.lo < s.hi /\ s.hi <= Ends(f)
              /\ Len(primary') = Len(primary) + 1 /\ primary'[Len(primary) + 1] = <<s>>
              /\ \A t \in 1 .. Len(primary) : primary'[t] = primary[t]
              /\ BucketHead' = s /\ prev'[r] = s
              /\ Len(plan'[r]) = Len(plan[r]) /\ plan'[r][1] = From(f, s.off)
              /\ \A k \in 2 .. Len(plan[r]) : plan'[r][k] = plan[r][k]
<1> USE DEF Inv
<1>1. PICK f \in 1 .. live, off \in Nat : \E s :
         /\ plan[r] # <<>> /\ plan[r][1] = From(f, off) /\ f \in open[r]
         /\ off <= Size(f) /\ Complete(f, off) > 0
         /\ s = BuildSegment(prev[r], f, off) /\ Put(s)
         /\ prev' = [prev EXCEPT ![r] = s]
         /\ plan' = [plan EXCEPT ![r] = [plan[r] EXCEPT ![1] = From(f, s.off)]]
  BY ShipIs
<1>2. PICK s :
         /\ plan[r] # <<>> /\ plan[r][1] = From(f, off) /\ f \in open[r]
         /\ off <= Size(f) /\ Complete(f, off) > 0
         /\ s = BuildSegment(prev[r], f, off) /\ Put(s)
         /\ prev' = [prev EXCEPT ![r] = s]
         /\ plan' = [plan EXCEPT ![r] = [plan[r] EXCEPT ![1] = From(f, s.off)]]
  BY <1>1
<1>3. Measured(prev[r]) /\ prev[r].seq = Len(primary) /\ Len(primary) \in Nat BY HeadIs
<1>4. /\ Measured(s) /\ s.seq = Len(primary) + 1 /\ s.prev = Hash(prev[r]) /\ s.ino = inode[f]
      /\ s.lo = starts[f] + off /\ s.hi = starts[f] + s.off
      /\ s.off <= Size(f) /\ s.lo < s.hi /\ s.hi <= Ends(f)
  BY <1>2, <1>3, BuildIs
<1>5. /\ BucketInv' /\ Len(primary') = Len(primary) + 1
      /\ primary'[Len(primary) + 1] = <<s>>
      /\ \A t \in 1 .. Len(primary) : primary'[t] = primary[t]
  <2>1. offsite' = offsite BY DEF ShipSegment
  <2>2. 1 <= s.seq /\ s.seq <= Len(primary) + 1 BY <1>3, <1>4
  <2> QED BY <1>2, <1>4, <2>1, <2>2, PutIs
<1>6. BucketHead' = s
  <2>1. primary' # <<>> BY <1>3, <1>5
  <2>2. BucketHead' = primary'[Len(primary')][1] BY <2>1 DEF BucketHead, Original
  <2> QED BY <1>5, <2>2
<1>7. prev'[r] = s BY <1>2 DEF RunInv, RunTypes
<1>8. /\ Len(plan'[r]) = Len(plan[r]) /\ plan'[r][1] = From(f, s.off)
      /\ \A k \in 2 .. Len(plan[r]) : plan'[r][k] = plan[r][k]
  <2>1. plan[r] \in Seq(Entry) /\ plan[r] # <<>> BY <1>2 DEF RunInv, RunTypes
  <2>2. From(f, s.off) \in Entry
    <3>1. live \in Nat BY Bounds DEF LogInv
    <3> QED BY <1>4, <3>1 DEF From, Entry, Measured
  <2> DEFINE q == [plan[r] EXCEPT ![1] = From(f, s.off)]
  <2>3. /\ Len(q) = Len(plan[r])
        /\ \A k \in 1 .. Len(plan[r]) : q[k] = IF k = 1 THEN From(f, s.off) ELSE plan[r][k]
    BY <2>1, <2>2
  <2> HIDE DEF q
  <2>4. plan'[r] = q BY <1>2 DEF q, RunInv, RunTypes
  <2>5. Len(plan[r]) \in Nat /\ 1 <= Len(plan[r]) BY <2>1
  <2> QED BY <2>3, <2>4, <2>5
<1> QED BY <1>2, <1>4, <1>5, <1>6, <1>7, <1>8

\* The chain goes on with that segment.
LEMMA ChainGrows ==
    ASSUME OneRun, Inv, ChainInv, NEW r \in Run, ShipSegment(r)
    PROVE  ChainInv'
<1>0. prev[r] = BucketHead BY DEF ChainInv, HeadsAgree, ShipSegment
<1>1. PICK f \in 1 .. live, off \in Nat : \E s :
         /\ s.seq = Len(primary) + 1 /\ s.prev = Hash(prev[r])
         /\ Len(primary') = Len(primary) + 1 /\ primary'[Len(primary) + 1] = <<s>>
         /\ \A t \in 1 .. Len(primary) : primary'[t] = primary[t]
         /\ BucketHead' = s /\ prev'[r] = s
  BY <1>0, ShipsNext
<1>2. PICK s :
         /\ s.seq = Len(primary) + 1 /\ s.prev = Hash(prev[r])
         /\ Len(primary') = Len(primary) + 1 /\ primary'[Len(primary) + 1] = <<s>>
         /\ \A t \in 1 .. Len(primary) : primary'[t] = primary[t]
         /\ BucketHead' = s /\ prev'[r] = s
  BY <1>1
<1>3. HeadsAgree' BY <1>2 DEF HeadsAgree, OneRun
<1>4. /\ Len(primary) \in Nat /\ BucketHead.seq = Len(primary)
      /\ Len(primary) # 0 => BucketHead = Original(Len(primary))
  BY HeadIs DEF Inv
<1>5. s.prev = IF Len(primary) + 1 = 1 THEN <<>> ELSE Hash(Original(Len(primary)))
  BY <1>0, <1>2, <1>4 DEF Hash
<1>6. \A t \in 1 .. Len(primary) + 1 :
         Original(t)' = IF t = Len(primary) + 1 THEN s ELSE Original(t)
  <2> TAKE t \in 1 .. Len(primary) + 1
  <2>1. CASE t = Len(primary) + 1
    <3>1. primary'[t] = <<s>> /\ <<s>>[1] = s BY <1>2, <2>1
    <3> QED BY <2>1, <3>1 DEF Original
  <2>2. CASE t # Len(primary) + 1
    <3>1. t \in 1 .. Len(primary) BY <1>4, <2>2
    <3> QED BY <1>2, <2>2, <3>1 DEF Original
  <2> QED BY <2>1, <2>2
<1>7. ASSUME NEW t \in 1 .. Len(primary) + 1
      PROVE  /\ \A v \in 1 .. Len(primary'[t]) : primary'[t][v] = Original(t)'
             /\ Original(t)'.seq = t
             /\ Original(t)'.prev = IF t = 1 THEN <<>> ELSE Hash(Original(t - 1)')
  <2>1. CASE t = Len(primary) + 1
    <3>1. \A v \in 1 .. Len(primary'[t]) : primary'[t][v] = s
      <4>1. primary'[t] = <<s>> BY <1>2, <2>1
      <4>2. Len(<<s>>) = 1 /\ <<s>>[1] = s OBVIOUS
      <4> QED BY <4>1, <4>2
    <3>2. t # 1 => t - 1 = Len(primary) /\ Original(t - 1)' = Original(t - 1)
      BY <1>4, <1>6, <2>1
    <3> QED BY <1>2, <1>5, <1>6, <2>1, <3>1, <3>2
  <2>2. CASE t # Len(primary) + 1
    <3>1. t \in 1 .. Len(primary) BY <1>4, <2>2
    <3>2. t # 1 => Original(t - 1)' = Original(t - 1) BY <1>4, <1>6, <3>1
    <3>3. primary'[t] = primary[t] /\ Original(t)' = Original(t) BY <1>2, <1>6, <3>1
    <3> QED BY <3>1, <3>2, <3>3 DEF ChainInv, ChainLinked
  <2> QED BY <2>1, <2>2
<1>8. ChainLinked'
  <2>1. Len(primary') = Len(primary) + 1 BY <1>2
  <2>2. ASSUME NEW t PROVE Hash(Original(t - 1)') = Hash(Original(t - 1))' BY DEF Hash
  <2> QED BY <1>7, <2>1, <2>2 DEF ChainLinked, Hash
<1> QED BY <1>3, <1>8 DEF ChainInv

\* The chain, and that a run has its head, is kept.
LEMMA ChainKept == ASSUME OneRun, Inv, ChainInv, [Next]_vars PROVE ChainInv'
<1>1. ASSUME primary' = primary, \A r \in Run : pc'[r] # "idle" => prev'[r] = BucketHead
      PROVE  ChainInv'
  <2>1. BucketHead' = BucketHead /\ ChainLinked'
    BY <1>1 DEF BucketHead, Original, ChainInv, ChainLinked, Hash
  <2> QED BY <1>1, <2>1 DEF ChainInv, HeadsAgree
<1>2. ASSUME UNCHANGED <<primary, prev, pc>> PROVE ChainInv'
  BY <1>1, <1>2 DEF ChainInv, HeadsAgree
<1>3. CASE AppendRecord \/ Rotate \/ Prune \/ UNCHANGED vars
  BY <1>2, <1>3 DEF AppendRecord, Rotate, Prune, vars
<1>4. ASSUME NEW r \in Run, Works(r) \/ RunFails(r) \/ Killed(r) PROVE ChainInv'
  <2>0. \A q \in Run : q = r BY DEF OneRun
  <2>1. CASE Start(r)
    <3>1. primary' = primary /\ prev'[r] = BucketHead
      BY <2>1 DEF Start, Inv, RunInv, RunTypes
    <3> QED BY <1>1, <2>0, <3>1
  <2>2. CASE Plan(r) \/ CopySegment(r)
    <3>1. primary' = primary /\ prev' = prev /\ pc[r] # "idle"
      BY <2>2 DEF Plan, CopySegment
    <3> QED BY <1>1, <2>0, <3>1 DEF ChainInv, HeadsAgree
  <2>3. CASE FileDone(r) BY <1>2, <2>3 DEF FileDone
  <2>4. CASE RunDone(r) \/ RunFails(r) \/ Killed(r)
    <3>1. primary' = primary /\ pc'[r] = "idle"
      BY <2>4 DEF RunDone, RunFails, Killed, Over, Inv, RunInv, RunTypes
    <3> QED BY <1>1, <2>0, <3>1
  <2>5. CASE ShipSegment(r) BY <2>5, ChainGrows
  <2> QED BY <1>4, <2>1, <2>2, <2>3, <2>4, <2>5 DEF Works
<1> QED BY <1>3, <1>4 DEF Next

\* It holds initially.
LEMMA ChainStarts == ASSUME Init PROVE ChainInv
BY DEF Init, ChainInv, ChainLinked, HeadsAgree

\* Wherever runs are cut off, and however the log is rotated, resuming from the
\* head of the bucket never forks the chain.
THEOREM OneChain == ASSUME OneRun PROVE Spec => []ChainLinked
<1>1. Inv /\ ChainInv /\ [Next]_vars => ChainInv' BY ChainKept
<1>2. ChainInv => ChainLinked BY DEF ChainInv
<1> QED BY <1>1, <1>2, InvAlways, ChainStarts, PTL DEF Spec

\* The off-site bucket is kept in agreement.
LEMMA AgreementKept ==
    ASSUME Inv, ChainInv, OffsiteAgrees, [Next]_vars
    PROVE  OffsiteAgrees'
<1> USE DEF Inv
<1>1. ASSUME UNCHANGED <<primary, offsite>> PROVE OffsiteAgrees'
  BY <1>1 DEF OffsiteAgrees, Original
<1>2. CASE AppendRecord \/ Rotate \/ Prune \/ UNCHANGED vars
  BY <1>1, <1>2 DEF AppendRecord, Rotate, Prune, vars
<1>3. ASSUME NEW r \in Run, Works(r) \/ RunFails(r) \/ Killed(r) PROVE OffsiteAgrees'
  <2>1. CASE Start(r) \/ Plan(r) \/ FileDone(r) \/ RunDone(r) \/ RunFails(r) \/ Killed(r)
    BY <1>1, <2>1 DEF Start, Plan, FileDone, RunDone, RunFails, Killed
  <2>2. CASE CopySegment(r)
    <3>1. primary' = primary /\ offsite' = offsite \union {prev[r]} /\ pc[r] = "copy"
      BY <2>2 DEF CopySegment
    <3>2. prev[r] = BucketHead /\ prev[r].seq # 0
      BY <3>1 DEF ChainInv, HeadsAgree, RunInv, RunOK
    <3>3. prev[r] = Original(prev[r].seq) BY <3>2, HeadIs
    <3> QED BY <3>1, <3>3 DEF OffsiteAgrees, Original
  <2>3. CASE ShipSegment(r)
    <3>1. prev[r] = BucketHead /\ offsite' = offsite
      BY <2>3 DEF ShipSegment, ChainInv, HeadsAgree
    <3>2. \A t \in 1 .. Len(primary) : primary'[t] = primary[t] BY <2>3, <3>1, ShipsNext
    <3>3. \A s \in offsite : s.seq \in 1 .. Len(primary) BY DEF BucketInv
    <3> QED BY <3>1, <3>2, <3>3 DEF OffsiteAgrees, Original
  <2> QED BY <1>3, <2>1, <2>2, <2>3 DEF Works
<1> QED BY <1>2, <1>3 DEF Next

\* What is off-site is the locked original of its segment, wherever a run was cut
\* off between the two PUTs.
THEOREM BucketsAgree == ASSUME OneRun PROVE Spec => []OffsiteAgrees
<1>1. Inv /\ ChainInv /\ [Next]_vars => ChainInv' BY ChainKept
<1>2. Inv /\ ChainInv /\ OffsiteAgrees /\ [Next]_vars => OffsiteAgrees' BY AgreementKept
<1>3. Init => OffsiteAgrees BY DEF Init, OffsiteAgrees
<1> QED BY <1>1, <1>2, <1>3, InvAlways, ChainStarts, PTL DEF Spec

-----------------------------------------------------------------------------
(***************************************************************************)
(* One run at a time, and no two rotations while it lists the log: the     *)
(* records are shipped in order and none is left out unreported.           *)
(***************************************************************************)

\* Where a run reads next, as a number of records.
At(r) == starts[plan[r][1].file] + plan[r][1].off

\* The chain ends in a file of the log: it may be gone by now.
LastRead == primary # <<>> => \E f \in 1 .. live : Matches(f, BucketHead)

\* The log was rotated once at most since a run opened it, and the chain does
\* not end in a later file.  The planned files follow one another.  The next
\* record to read is not behind the head, and is only ahead of it if that is
\* accounted for.
OrderOK(r) ==
    /\ pc[r] = "plan" =>
          /\ live <= cur[r] + 1
          /\ primary # <<>> => \E f \in 1 .. cur[r] : Matches(f, BucketHead)
    /\ \A k \in 1 .. Len(plan[r]) - 1 : plan[r][k + 1] = From(plan[r][k].file + 1, 0)
    /\ plan[r] # <<>> /\ prev[r].seq > 0 =>
          /\ prev[r].hi <= At(r)
          /\ prev[r].hi < At(r) => Known(prev[r].hi)

\* Every segment before the last one ends before it.
HeadIsLast == \A s \in 1 .. Len(primary) - 1 : Original(s).hi < BucketHead.hi

OrderInv == InOrder /\ NoSilentGap /\ HeadIsLast /\ LastRead /\ \A r \in Run : OrderOK(r)

\* A place, and from there whole files up to c.
Straight(p, g, off, c) ==
    /\ Len(p) = c - g + 1 /\ p[1] = From(g, off)
    /\ \A k \in 2 .. Len(p) : p[k] = From(g + k - 1, 0)

\* Whole files up to the live log are such a plan.
LEMMA WholeStraight ==
    ASSUME LogInv, NEW c \in 1 .. live, NEW g \in 1 .. c
    PROVE  LET p == Whole(Files((g .. c - 1) \ {c})) \o <<From(c, 0)>>
           IN  Straight(p, g, 0, c) /\ Readable(p, 1 .. live)
<1>0. live \in Nat /\ c \in Nat /\ g \in Nat /\ c - 1 \in Nat /\ g <= (c - 1) + 1
      /\ 1 .. live \subseteq Nat
  BY Bounds DEF LogInv
<1> DEFINE q == Whole(Files((g .. c - 1) \ {c}))
           p == q \o <<From(c, 0)>>
<1>1. (g .. c - 1) \ {c} \subseteq 1 .. live /\ c \notin g .. c - 1 BY <1>0
<1>2. /\ Readable(q, 1 .. live) /\ Len(q) = (c - 1) - g + 1
      /\ \A k \in 1 .. Len(q) : q[k] = From(g + k - 1, 0)
  <2>1. LET w == Whole(Files((g .. c - 1) \ {c}))
        IN  /\ Readable(w, 1 .. live) /\ \A k \in 1 .. Len(w) : w[k].off = 0
            /\ c \notin g .. c - 1 => /\ Len(w) = (c - 1) - g + 1
                                    /\ \A k \in 1 .. Len(w) : w[k] = From(g + k - 1, 0)
    BY <1>0, <1>1, WholeReadable
  <2> QED BY <1>1, <2>1
<1>3. /\ Readable(<<From(c, 0)>>, 1 .. live) /\ Len(<<From(c, 0)>>) = 1
      /\ <<From(c, 0)>>[1] = From(c, 0)
  <2>1. c \in 1 .. live /\ 0 \in Nat /\ 0 <= Size(c) BY FileIs
  <2> QED BY <1>0, <2>1, OneReadable
<1> HIDE DEF q
<1>4. /\ Readable(p, 1 .. live) /\ Len(p) = Len(q) + Len(<<From(c, 0)>>)
      /\ \A k \in 1 .. Len(q) : p[k] = q[k]
      /\ \A k \in 1 .. Len(<<From(c, 0)>>) : p[Len(q) + k] = <<From(c, 0)>>[k]
  BY <1>2, <1>3, BothReadable
<1> HIDE DEF p
<1>5. Len(q) = c - g /\ Len(p) = c - g + 1 /\ p[c - g + 1] = From(c, 0)
  BY <1>0, <1>2, <1>3, <1>4
<1>6. \A k \in 1 .. Len(p) : p[k] = From(g + k - 1, 0)
  <2> TAKE k \in 1 .. Len(p)
  <2>1. CASE k \in 1 .. Len(q) BY <1>2, <1>4, <2>1
  <2>2. CASE k \notin 1 .. Len(q)
    <3>1. k = c - g + 1 /\ g + k - 1 = c BY <1>0, <1>5, <2>2
    <3> QED BY <1>5, <3>1
  <2> QED BY <2>1, <2>2
<1>7. p[1] = From(g, 0)
  <2>1. 1 \in 1 .. Len(p) /\ g + 1 - 1 = g BY <1>0, <1>5
  <2>2. p[1] = From(g + 1 - 1, 0) BY <1>6, <2>1
  <2> QED BY <2>1, <2>2
<1>8. Straight(p, g, 0, c)
  <2>1. \A k \in 2 .. Len(p) : k \in 1 .. Len(p) BY <1>0, <1>5
  <2> QED BY <1>5, <1>6, <1>7, <2>1 DEF Straight
<1> QED BY <1>4, <1>8 DEF p, q

\* A place in an older file, and whole files from there, is one too.
LEMMA ResumedStraight ==
    ASSUME LogInv, NEW c \in 1 .. live, NEW g \in 1 .. c, g < c, NEW off \in Nat, off <= Size(g)
    PROVE  LET p == <<From(g, off)>> \o Whole(Files((g + 1 .. c - 1) \ {c})) \o <<From(c, 0)>>
           IN  Straight(p, g, off, c)
<1>0. live \in Nat /\ c \in Nat /\ g \in 1 .. live /\ g + 1 \in 1 .. c
      /\ 1 .. live \subseteq Nat /\ g \in Nat
  BY Bounds DEF LogInv
<1> DEFINE w == Whole(Files((g + 1 .. c - 1) \ {c}))
           q == w \o <<From(c, 0)>>
           x == <<From(g, off)>>
<1>1. Straight(q, g + 1, 0, c) /\ Readable(q, 1 .. live) BY <1>0, WholeStraight
<1>2. Readable(x, 1 .. live) /\ Len(x) = 1 /\ x[1] = From(g, off) BY <1>0, OneReadable
<1>3. /\ (x \o w) \o <<From(c, 0)>> = x \o q
  <2>1. Readable(w, 1 .. live)
    <3>1. (g + 1 .. c - 1) \ {c} \subseteq 1 .. live /\ c - 1 \in Nat /\ g + 1 \in Nat
          /\ g + 1 <= (c - 1) + 1
      BY <1>0
    <3> QED BY <1>0, <3>1, WholeReadable
  <2>2. Readable(<<From(c, 0)>>, 1 .. live)
    <3>1. c \in 1 .. live /\ 0 \in Nat /\ 0 <= Size(c) BY FileIs
    <3> QED BY <1>0, <3>1, OneReadable
  <2> DEFINE y == <<From(c, 0)>>
  <2>3. x \in Seq(Entry) /\ w \in Seq(Entry) /\ y \in Seq(Entry)
    BY <1>2, <2>1, <2>2 DEF Readable
  <2> HIDE DEF x, y, w
  <2>4. (x \o w) \o y = x \o (w \o y) BY <2>3
  <2> QED BY <2>4 DEF y
<1> DEFINE p == x \o q
<1> HIDE DEF x, q
<1>4. /\ Len(p) = Len(x) + Len(q)
      /\ \A k \in 1 .. Len(x) : p[k] = x[k]
      /\ \A k \in 1 .. Len(q) : p[Len(x) + k] = q[k]
  <2>1. Readable(x, 1 .. live) /\ Readable(q, 1 .. live) BY <1>1, <1>2
  <2>2. Len(x \o q) = Len(x) + Len(q) BY <2>1, BothReadable
  <2>3. \A k \in 1 .. Len(x) : (x \o q)[k] = x[k] BY <2>1, BothReadable
  <2>4. \A k \in 1 .. Len(q) : (x \o q)[Len(x) + k] = q[k] BY <2>1, BothReadable
  <2> QED BY <2>2, <2>3, <2>4
<1> HIDE DEF p
<1>5. Len(q) = c - (g + 1) + 1 /\ Len(p) = c - g + 1 /\ p[1] = From(g, off)
  BY <1>0, <1>1, <1>2, <1>4 DEF Straight
<1>6. ASSUME NEW k \in 2 .. Len(p) PROVE p[k] = From(g + k - 1, 0)
  <2>1. k - 1 \in 1 .. Len(q) /\ 1 + (k - 1) = k /\ g + k - 1 = g + 1 + (k - 1) - 1
    BY <1>0, <1>5
  <2>2. p[k] = q[k - 1] BY <1>2, <1>4, <2>1
  <2>3. q[k - 1] = From(g + 1 + (k - 1) - 1, 0)
    <3>1. CASE k - 1 = 1
      <4>1. q[1] = From(g + 1, 0) BY <1>1 DEF Straight
      <4>2. g + 1 + (k - 1) - 1 = g + 1 BY <1>0, <3>1
      <4> QED BY <3>1, <4>1, <4>2
    <3>2. CASE k - 1 # 1
      <4>1. k - 1 \in 2 .. Len(q) BY <1>0, <1>5, <2>1, <3>2
      <4> QED BY <1>1, <4>1 DEF Straight
    <3> QED BY <3>1, <3>2
  <2> QED BY <2>1, <2>2, <2>3
<1>7. Straight(p, g, off, c) BY <1>5, <1>6 DEF Straight
<1> QED BY <1>3, <1>7 DEF p, x, q, w

\* A file that the chain ends in reaches as far as its head.
LEMMA MatchIs ==
    ASSUME LogInv, NEW head, Measured(head), NEW f \in 1 .. live, Matches(f, head)
    PROVE  /\ starts[f] + head.off = head.hi /\ head.hi <= Ends(f) /\ head.off <= Size(f)
           /\ head.ino = inode[f]
           /\ \A g \in 1 .. live : f < g => head.hi <= starts[g]
<1>1. /\ starts[f] \in Nat /\ Size(f) \in Nat /\ Ends(f) = starts[f] + Size(f) /\ Ends(f) \in Nat
      /\ \A g \in 1 .. live : f < g => Ends(f) <= starts[g]
  BY FileIs
<1>2. \A g \in 1 .. live : starts[g] \in Nat BY FileIs
<1>3. head.off \in Nat /\ head.hi \in Nat BY DEF Measured
<1>4. starts[f] + head.off = head.hi /\ Size(f) >= head.off /\ head.ino = inode[f]
  BY DEF Matches, EndsAt
<1> QED BY <1>1, <1>2, <1>3, <1>4

\* What a run plans goes on where the chain ends, or after it: and then it is
\* reported, or the live log passed for the file the chain ended in.
LEMMA PlanAhead ==
    ASSUME LogInv, NEW c \in 1 .. live, live <= c + 1, NEW head, Measured(head),
           head.seq # 0 => \E f \in 1 .. c : Matches(f, head),
           NEW R, R = (oldest .. live - 1) \ {c}, NEW p, p = planSources(c, R, head)
    PROVE  \E g \in 1 .. c, off \in Nat :
              /\ Straight(p.plan, g, off, c)
              /\ head.seq # 0 =>
                    /\ head.hi <= starts[g] + off
                    /\ head.hi < starts[g] + off =>
                          p.note = TRUE \/ (head.ino \in {0, inode[c]} /\ starts[c] >= head.hi)
<1> DEFINE b == c - 1
<1>0. /\ live \in Nat /\ oldest \in Nat /\ 1 <= oldest /\ c \in Nat /\ 1 <= c /\ c <= live
      /\ b \in Nat /\ b < live /\ b + 1 = c
  BY Bounds DEF LogInv
<1>1. R = (oldest .. b) \ {c} BY <1>0
<1>2. \A g \in 1 .. live : starts[g] \in Nat /\ Size(g) \in Nat BY FileIs
<1>3. head.off \in Nat /\ head.hi \in Nat BY DEF Measured
<1>4. c \in 1 .. c /\ 0 \in Nat /\ \A g \in 1 .. c : g \in 1 .. live BY <1>0
<1>5. \A off : Straight(<<From(c, off)>>, c, off, c)
  <2> TAKE off
  <2>1. Len(<<From(c, off)>>) = 1 /\ <<From(c, off)>>[1] = From(c, off) /\ c - c + 1 = 1
        /\ 2 .. 1 = {}
    BY <1>0
  <2> QED BY <2>1 DEF Straight
<1> HIDE DEF b
<1>6. CASE Fresh(c, head, p)
  <2>1. p.plan = <<From(c, 0)>> /\ head.seq = 0 BY <1>6 DEF Fresh
  <2> QED BY <1>4, <1>5, <2>1
<1>7. CASE Shorter(c, head, p)
  <2>1. p = [plan |-> <<From(c, 0)>>, note |-> TRUE] /\ head.seq # 0 /\ Size(c) < head.off
    BY <1>7 DEF Shorter
  <2>2. p.plan = <<From(c, 0)>> /\ p.note = TRUE
    <3> DEFINE x == <<From(c, 0)>>
    <3>1. p = [plan |-> x, note |-> TRUE] BY <2>1
    <3> HIDE DEF x
    <3>2. p.plan = x /\ p.note = TRUE BY <3>1
    <3> QED BY <3>2 DEF x
  <2>3. PICK f \in 1 .. c : Matches(f, head) BY <2>1
  <2>4. head.off <= Size(f) /\ \A g \in 1 .. live : f < g => head.hi <= starts[g]
    BY <1>4, <2>3, MatchIs
  <2>5. f # c BY <1>2, <1>3, <1>4, <2>1, <2>4
  <2>6. f < c BY <1>0, <2>5
  <2>7. head.hi <= starts[c] + 0 BY <1>2, <2>4, <2>6
  <2>8. Straight(p.plan, c, 0, c) BY <1>5, <2>2
  <2> QED BY <1>4, <2>2, <2>7, <2>8
<1>8. CASE GoesOn(c, head, p)
  <2>1. p = [plan |-> <<From(c, head.off)>>, note |-> FALSE] /\ head.seq # 0
        /\ head.ino \in {0, inode[c]}
    BY <1>8 DEF GoesOn
  <2>2. p.plan = <<From(c, head.off)>>
    <3> DEFINE x == <<From(c, head.off)>>
    <3>1. p = [plan |-> x, note |-> FALSE] BY <2>1
    <3> HIDE DEF x
    <3>2. p.plan = x BY <3>1
    <3> QED BY <3>2 DEF x
  <2>3. PICK f \in 1 .. c : Matches(f, head) BY <2>1
  <2>4. starts[f] + head.off = head.hi /\ \A g \in 1 .. live : f < g => head.hi <= starts[g]
    BY <1>4, <2>3, MatchIs
  <2>5. Straight(p.plan, c, head.off, c) BY <1>5, <2>2
  <2>6. /\ head.hi <= starts[c] + head.off
        /\ head.hi < starts[c] + head.off => starts[c] >= head.hi
    <3>1. CASE f = c BY <1>2, <1>3, <2>4, <3>1
    <3>2. CASE f # c
      <4>1. f < c /\ starts[c] \in Nat BY <1>0, <1>2, <3>2
      <4>2. head.hi <= starts[c] BY <2>4, <4>1
      <4> QED BY <1>3, <4>1, <4>2
    <3> QED BY <3>1, <3>2
  <2> QED BY <1>3, <1>4, <2>1, <2>5, <2>6
<1>9. CASE Rotated(c, b, head, p)
  <2>1. PICK first \in (oldest .. b) \ {c} :
          /\ Matches(first, head)
          /\ p = [plan |-> <<From(first, head.off)>> \o Whole(Files((first + 1 .. b) \ {c}))
                             \o <<From(c, 0)>>,
                  note |-> FALSE]
    BY <1>9 DEF Rotated
  <2> DEFINE x == <<From(first, head.off)>> \o Whole(Files((first + 1 .. c - 1) \ {c}))
                     \o <<From(c, 0)>>
  <2>2. p = [plan |-> x, note |-> FALSE] BY <2>1 DEF b
  <2>3. first \in 1 .. c /\ first < c /\ first \in 1 .. live BY <1>0, <2>1
  <2>4. starts[first] + head.off = head.hi /\ head.off <= Size(first) BY <2>1, <2>3, MatchIs
  <2>5. Straight(x, first, head.off, c) BY <1>3, <2>3, <2>4, ResumedStraight
  <2> HIDE DEF x
  <2>6. p.plan = x BY <2>2
  <2>7. Straight(p.plan, first, head.off, c) BY <2>5, <2>6
  <2>8. head.hi <= starts[first] + head.off /\ ~ (head.hi < starts[first] + head.off)
    BY <1>3, <2>4
  <2> QED BY <1>3, <2>3, <2>7, <2>8
<1>10. CASE Vanished(c, b, head, p)
  <2>1. PICK m \in 1 .. b + 1 :
          /\ m = b + 1 \/ (oldest <= m /\ Ends(m) >= head.hi)
          /\ p = [plan |-> Whole(Files((m .. b) \ {c})) \o <<From(c, 0)>>, note |-> TRUE]
    BY <1>10 DEF Vanished
  <2> DEFINE x == Whole(Files((m .. c - 1) \ {c})) \o <<From(c, 0)>>
  <2>2. p = [plan |-> x, note |-> TRUE] BY <2>1 DEF b
  <2>3. m \in 1 .. c /\ m \in 1 .. live BY <1>0, <2>1
  <2>4. Straight(x, m, 0, c) BY <2>3, WholeStraight
  <2> HIDE DEF x
  <2>5. p.plan = x /\ p.note = TRUE BY <2>2
  <2>6. PICK f \in 1 .. c : Matches(f, head) BY <1>10 DEF Vanished
  <2>7. head.ino = inode[f] /\ \A g \in 1 .. live : f < g => head.hi <= starts[g]
    BY <1>4, <2>6, MatchIs
  <2>8. f # c /\ f \notin (oldest .. b) \ {c} BY <1>10, <2>6, <2>7 DEF Vanished
  <2>9. f < m
    <3>1. f \in Nat /\ f < c /\ f < oldest BY <1>0, <2>8
    <3> QED BY <1>0, <2>1, <3>1
  <2>10. head.hi <= starts[m] + 0 BY <1>2, <2>3, <2>7, <2>9
  <2>11. Straight(p.plan, m, 0, c) BY <2>4, <2>5
  <2> QED BY <1>4, <2>3, <2>5, <2>10, <2>11
<1> QED BY <1>0, <1>1, <1>6, <1>7, <1>8, <1>9, <1>10, PlanCases

-----------------------------------------------------------------------------
(***************************************************************************)
(* The order is kept.                                                      *)
(***************************************************************************)

\* The API server writes, rotates and prunes the log.
LEMMA OrderWhileLogGrows ==
    ASSUME ~ FastRotation, Inv, OrderInv, AppendRecord \/ Rotate \/ Prune \/ UNCHANGED vars
    PROVE  OrderInv'
<1> USE DEF Inv
<1>1. UNCHANGED <<primary, pc, cur, prev, plan, note, noted, unsaid, mistaken>>
  BY DEF AppendRecord, Rotate, Prune, vars, reports
<1>2. LogInv' /\ Grown BY LogGrows DEF vars
<1>3. BucketHead' = BucketHead BY <1>1 DEF BucketHead, Original
<1>4. InOrder' /\ NoSilentGap' /\ HeadIsLast'
  BY <1>1, <1>3 DEF OrderInv, InOrder, NoSilentGap, Known, Told, Original, HeadIsLast
<1>5. live \in Nat /\ live' \in Nat /\ live <= live' BY <1>2, Bounds DEF LogInv, Grown
<1>6. Measured(BucketHead) BY HeadIs
<1>7. ASSUME NEW f \in 1 .. live, Matches(f, BucketHead) PROVE Matches(f, BucketHead)'
  <2>1. /\ starts'[f] = starts[f] /\ inode'[f] = inode[f] /\ Size(f) \in Nat
        /\ Size(f)' \in Nat /\ Size(f) <= Size(f)'
    BY <1>2, FileIs DEF Grown
  <2>2. Size(f)' >= BucketHead.off BY <1>6, <1>7, <2>1 DEF Matches, Measured
  <2> QED BY <1>3, <1>7, <2>1, <2>2 DEF Matches, EndsAt
<1>8. LastRead'
  <2>1. \A f \in 1 .. live : f \in 1 .. live' BY <1>5
  <2> QED BY <1>1, <1>7, <2>1 DEF OrderInv, LastRead
<1>9. ASSUME NEW r \in Run PROVE OrderOK(r)'
  <2>0. OrderOK(r) /\ cur[r] \in Nat /\ cur[r] <= live BY DEF OrderInv, RunInv, RunTypes, RunOK
  <2>1. ASSUME pc[r] = "plan" PROVE live' <= cur[r] + 1
    <3>1. live <= cur[r] + 1 BY <2>0, <2>1 DEF OrderOK
    <3>2. CASE Rotate
      <4>1. cur[r] = live BY <2>1, <3>2 DEF Rotate
      <4>2. live' = live + 1
        <5>1. starts \in Seq(Nat) /\ starts' = Append(starts, n) BY <3>2 DEF Rotate, LogInv
        <5> QED BY <5>1 DEF live
      <4> QED BY <1>5, <4>1, <4>2
    <3>3. CASE ~ Rotate
      <4>1. live' = live BY <3>3 DEF AppendRecord, Prune, vars, log, live
      <4> QED BY <3>1, <4>1
    <3> QED BY <3>2, <3>3
  <2>2. ASSUME pc[r] = "plan", primary # <<>>
        PROVE  \E f \in 1 .. cur[r] : Matches(f, BucketHead)'
    <3>1. PICK f \in 1 .. cur[r] : Matches(f, BucketHead) BY <2>0, <2>2 DEF OrderOK
    <3>2. f \in 1 .. live BY <1>5, <2>0
    <3> QED BY <1>7, <3>1, <3>2
  <2>3. plan[r] # <<>> => At(r)' = At(r)
    <3>1. plan[r] # <<>> => plan[r][1].file \in 1 .. live BY PlaceIs
    <3> QED BY <1>1, <1>2, <3>1 DEF At, Grown
  <2>4. Known(prev[r].hi)' <=> Known(prev[r].hi) BY <1>1 DEF Known, Told
  <2> QED BY <1>1, <2>0, <2>1, <2>2, <2>3, <2>4 DEF OrderOK
<1> QED BY <1>4, <1>8, <1>9 DEF OrderInv

\* A step of the run that leaves the log and the bucket alone, and what is known
\* of the records before the head.
LEMMA OrderWhileBucketRests ==
    ASSUME OneRun, Inv, OrderInv, NEW r \in Run, OrderOK(r)', UNCHANGED <<log, primary>>,
           \A hi : hi # BucketHead.hi /\ Known(hi) => Known(hi)'
    PROVE  OrderInv'
<1>0. BucketHead' = BucketHead /\ \A s : Original(s)' = Original(s) BY DEF BucketHead, Original
<1>1. InOrder' /\ NoSilentGap' /\ HeadIsLast'
  <2>1. InOrder' /\ HeadIsLast' BY <1>0 DEF OrderInv, InOrder, HeadIsLast
  <2>2. ASSUME NEW s \in 2 .. Len(primary), Original(s).lo > Original(s - 1).hi
        PROVE  Known(Original(s - 1).hi)'
    <3>1. PICK hi : hi = Original(s - 1).hi OBVIOUS
    <3>2. s - 1 \in 1 .. Len(primary) - 1 BY DEF Inv, BucketInv, IsSeq
    <3>3. hi < BucketHead.hi /\ hi \in Nat /\ BucketHead.hi \in Nat
      <4>1. Measured(BucketHead) /\ Measured(Original(s - 1))
        BY <3>2, HeadIs DEF Inv, BucketInv, IsSeq
      <4> QED BY <3>1, <3>2, <4>1 DEF OrderInv, HeadIsLast, Measured
    <3>4. hi # BucketHead.hi /\ Known(hi) BY <2>2, <3>1, <3>3 DEF OrderInv, NoSilentGap
    <3>5. Known(hi)' BY <3>4
    <3> QED BY <1>0, <3>1, <3>5 DEF Known, Told
  <2>3. NoSilentGap' BY <1>0, <2>2 DEF NoSilentGap
  <2> QED BY <2>1, <2>3
<1>2. LastRead'
  BY DEF OrderInv, LastRead, live, log, Matches, EndsAt, Size, Ends, BucketHead, Original
<1>3. \A q \in Run : q = r BY DEF OneRun
<1>4. \A q \in Run : OrderOK(q)' BY <1>3
<1> QED BY <1>1, <1>2, <1>4 DEF OrderInv

\* What is known stays so, if the note is kept or printed.
LEMMA KnownStays ==
    ASSUME OneRun, NEW r \in Run, noted \subseteq noted', unsaid \subseteq unsaid',
           mistaken \subseteq mistaken', \A hi \in note[r] : hi \in noted' \/ hi \in note'[r]
    PROVE  \A hi : Known(hi) => Known(hi)'
<1>1. \A q \in Run : q = r BY DEF OneRun
<1> QED BY <1>1 DEF Known, Told

\* A run begins: its live log is the last file there is.
LEMMA OrderAtStart ==
    ASSUME OneRun, Inv, OrderInv, NEW r \in Run, Start(r)
    PROVE  OrderInv'
<1> USE DEF Inv
<1>1. UNCHANGED <<log, primary, plan, note, noted, unsaid, mistaken>> BY DEF Start, reports
<1>2. plan[r] = <<>> /\ cur'[r] = live BY DEF Start, RunInv, RunTypes, RunOK
<1>3. live' = live /\ live \in Nat /\ live <= live + 1 BY <1>1, Bounds DEF live, log, LogInv
<1>4. \A f : Matches(f, BucketHead)' <=> Matches(f, BucketHead)
  BY <1>1 DEF Matches, EndsAt, Size, Ends, live, log, BucketHead, Original
<1>5. OrderOK(r)'
  <2>1. Len(plan'[r]) = 0 BY <1>1, <1>2
  <2>2. primary' # <<>> => \E f \in 1 .. cur'[r] : Matches(f, BucketHead)'
    BY <1>1, <1>2, <1>4 DEF OrderInv, LastRead
  <2> QED BY <1>1, <1>2, <1>3, <2>1, <2>2 DEF OrderOK
<1>6. \A hi : Known(hi) => Known(hi)' BY <1>1, KnownStays
<1> QED BY <1>1, <1>5, <1>6, OrderWhileBucketRests

\* A run plans.
LEMMA OrderAtPlan ==
    ASSUME OneRun, ~ FastRotation, Inv, HeadsAgree, OrderInv, NEW r \in Run, Plan(r)
    PROVE  OrderInv'
<1> USE DEF Inv
<1> DEFINE c == cur[r]
           head == prev[r]
           R == (oldest .. live - 1) \ {c}
           p == planSources(c, R, head)
<1>0. /\ oldest' = oldest /\ plan' = [plan EXCEPT ![r] = p.plan]
      /\ note' = [note EXCEPT ![r] = IF p.note THEN {head.hi} ELSE {}]
  <2>1. PICK o \in oldest .. live, opened \in SUBSET (oldest .. live - 1) :
          LET rotated == opened \ {cur[r]}
              q == planSources(cur[r], rotated, prev[r])
          IN  /\ o = oldest \/ (FastRotation /\ live - o >= MaxBackups)
              /\ o .. live - 1 \subseteq opened
              /\ oldest' = o
              /\ plan' = [plan EXCEPT ![r] = q.plan]
              /\ note' = [note EXCEPT ![r] = IF q.note THEN {prev[r].hi} ELSE {}]
    BY DEF Plan
  <2>2. oldest' = oldest /\ opened = oldest .. live - 1 BY <2>1
  <2>3. opened \ {cur[r]} = R BY <2>2
  <2> QED BY <2>1, <2>2, <2>3
<1>1. UNCHANGED <<log, primary, cur, prev>> /\ pc[r] = "plan" BY <1>0 DEF Plan, log
<1>2. /\ plan'[r] = p.plan /\ pc'[r] = "read"
      /\ note'[r] = IF p.note THEN {head.hi} ELSE {}
      /\ noted' = noted /\ unsaid' = unsaid /\ note[r] = {}
      /\ mistaken' = IF head.seq > 0 /\ head.ino \in {0, inode[c]} /\ starts[c] >= head.hi
                     THEN mistaken \union {head.hi} ELSE mistaken
  BY <1>0 DEF Plan, RunInv, RunTypes, RunOK
<1>3. live \in Nat /\ c \in 1 .. live /\ live <= c + 1 /\ Measured(head)
  BY <1>1, Bounds DEF LogInv, RunInv, RunTypes, RunOK, OrderInv, OrderOK
<1>4. head = BucketHead BY <1>1 DEF HeadsAgree
<1>5. head.seq # 0 => \E f \in 1 .. c : Matches(f, head)
  BY <1>1, <1>4, HeadIs DEF OrderInv, OrderOK
<1> HIDE DEF p, head, c
<1>6. PICK g \in 1 .. c, off \in Nat :
         /\ Straight(p.plan, g, off, c)
         /\ head.seq # 0 =>
               /\ head.hi <= starts[g] + off
               /\ head.hi < starts[g] + off =>
                     p.note = TRUE \/ (head.ino \in {0, inode[c]} /\ starts[c] >= head.hi)
  BY <1>3, <1>5, PlanAhead DEF p
<1>7. /\ Len(plan'[r]) = c - g + 1 /\ plan'[r][1] = From(g, off)
      /\ \A k \in 2 .. Len(plan'[r]) : plan'[r][k] = From(g + k - 1, 0)
  BY <1>2, <1>6 DEF Straight
<1>8. At(r)' = starts[g] + off BY <1>1, <1>7, FromIs DEF At, log
<1>9. ASSUME NEW k \in 1 .. Len(plan'[r]) - 1
      PROVE  plan'[r][k + 1] = From(plan'[r][k].file + 1, 0)
  <2>0. c \in Nat /\ g \in Nat /\ Len(plan'[r]) \in Nat BY <1>3, <1>7
  <2>1. plan'[r][k].file = g + k - 1
    <3>1. CASE k = 1 BY <1>7, <2>0, <3>1, FromIs
    <3>2. CASE k # 1
      <4>1. k \in 2 .. Len(plan'[r]) BY <2>0, <3>2
      <4> QED BY <1>7, <4>1, FromIs
    <3> QED BY <3>1, <3>2
  <2>2. k + 1 \in 2 .. Len(plan'[r]) BY <2>0
  <2>3. plan'[r][k + 1] = From(g + (k + 1) - 1, 0) BY <1>7, <2>2
  <2>4. g + (k + 1) - 1 = (g + k - 1) + 1 BY <2>0
  <2> QED BY <2>1, <2>3, <2>4
<1>10. head.seq > 0 => head.seq # 0 BY <1>3 DEF Measured
<1>11. head.seq > 0 /\ head.hi < starts[g] + off =>
          head.hi \in note'[r] \/ head.hi \in mistaken'
  <2> SUFFICES ASSUME head.seq > 0, head.hi < starts[g] + off
               PROVE  head.hi \in note'[r] \/ head.hi \in mistaken'
    OBVIOUS
  <2>1. CASE p.note = TRUE BY <1>2, <2>1
  <2>2. CASE head.ino \in {0, inode[c]} /\ starts[c] >= head.hi
    <3>1. mistaken' = mistaken \union {head.hi} BY <1>2, <2>2
    <3> QED BY <3>1
  <2> QED BY <1>6, <1>10, <2>1, <2>2
<1>12. prev'[r] = head BY <1>1 DEF head
<1>13. OrderOK(r)'
  <2>1. head.hi \in note'[r] \/ head.hi \in mistaken' => Known(prev[r].hi)'
    BY <1>12 DEF Known, Told
  <2> QED BY <1>2, <1>6, <1>8, <1>9, <1>10, <1>11, <1>12, <2>1 DEF OrderOK
<1>14. \A hi : Known(hi) => Known(hi)' BY <1>2, KnownStays
<1> QED BY <1>1, <1>13, <1>14, OrderWhileBucketRests

\* A run goes on to its next file, which begins where this one ends.
LEMMA OrderAtFileDone ==
    ASSUME OneRun, Inv, OrderInv, NEW r \in Run, FileDone(r)
    PROVE  OrderInv'
<1> USE DEF Inv
<1> DEFINE e == plan[r][1]
<1>1. /\ UNCHANGED <<log, primary, pc, cur, prev, note, noted, unsaid, mistaken>>
      /\ pc[r] = "read" /\ plan[r] # <<>> /\ Complete(e.file, e.off) = 0
  BY DEF FileDone, reports
<1>2. plan[r] \in Seq(Entry) /\ plan'[r] = Tail(plan[r]) BY DEF FileDone, RunInv, RunTypes
<1>3. /\ Len(plan'[r]) = Len(plan[r]) - 1 /\ Len(plan[r]) \in Nat /\ 1 <= Len(plan[r])
      /\ \A k \in 1 .. Len(plan[r]) - 1 : plan'[r][k] = plan[r][k + 1]
      /\ plan'[r] \in Seq(Entry)
  BY <1>1, <1>2
<1>4. OrderOK(r) BY DEF OrderInv
<1>5. \A k \in 1 .. Len(plan'[r]) - 1 : plan'[r][k + 1] = From(plan'[r][k].file + 1, 0)
  <2> TAKE k \in 1 .. Len(plan'[r]) - 1
  <2>1. k + 1 \in 1 .. Len(plan[r]) - 1 /\ k \in 1 .. Len(plan[r]) - 1 BY <1>3
  <2>2. plan[r][(k + 1) + 1] = From(plan[r][k + 1].file + 1, 0) BY <1>4, <2>1 DEF OrderOK
  <2> QED BY <1>3, <2>1, <2>2
<1>6. ASSUME plan'[r] # <<>> PROVE At(r)' = At(r)
  <2>0. e.file \in 1 .. live /\ e.off \in Nat /\ e.off <= Size(e.file) BY <1>1, PlaceIs
  <2>1. Len(plan'[r]) # 0 BY <1>3, <1>6
  <2>2. 1 \in 1 .. Len(plan[r]) - 1 /\ 2 \in 1 .. Len(plan[r])
    <3>1. PICK N \in Nat : N = Len(plan[r]) BY <1>3
    <3>2. 1 <= N /\ N - 1 # 0 BY <1>3, <2>1, <3>1
    <3>3. 1 \in 1 .. N - 1 /\ 2 \in 1 .. N BY <3>2
    <3> QED BY <3>1, <3>3
  <2>3. plan[r][1 + 1] = From(e.file + 1, 0) BY <1>4, <2>2 DEF OrderOK
  <2>4. plan'[r][1] = From(e.file + 1, 0) BY <1>3, <2>2, <2>3
  <2> DEFINE f == e.file
  <2>5. plan[r][2].file = f + 1 BY <2>3, FromIs
  <2>6. f + 1 \in 1 .. live BY <2>2, <2>5 DEF RunInv, RunOK
  <2> HIDE DEF f
  <2>7. f \in 1 .. live BY <2>0 DEF f
  <2>8. /\ live \in Nat /\ starts[f] \in Nat /\ Size(f) \in Nat
        /\ Ends(f) = starts[f] + Size(f)
        /\ f < live => starts[f + 1] = Ends(f)
    BY <2>7, FileIs
  <2>9. f < live BY <2>6, <2>7, <2>8
  <2>10. Size(f) = e.off
    <3>1. Complete(f, e.off) = 0 /\ e.off \in Nat /\ e.off <= Size(f) BY <1>1, <2>0 DEF f
    <3>2. CASE Size(f) - e.off < SegMax
      <4>1. Size(f) - e.off = 0 BY <3>1, <3>2 DEF Complete
      <4> QED BY <2>8, <3>1, <4>1
    <3>3. CASE ~ (Size(f) - e.off < SegMax)
      <4>1. SegMax = 0 BY <3>1, <3>3 DEF Complete
      <4> QED BY <4>1, Bounds
    <3> QED BY <3>2, <3>3
  <2>11. starts[f + 1] = starts[f] + e.off BY <2>8, <2>9, <2>10
  <2>12. At(r)' = starts[f + 1] + 0 BY <1>1, <2>4, FromIs DEF At, log, f
  <2>13. At(r) = starts[f] + e.off BY DEF At, f
  <2> QED BY <2>0, <2>8, <2>11, <2>12, <2>13
<1>7. OrderOK(r)'
  <2>1. Known(prev[r].hi)' <=> Known(prev[r].hi) BY <1>1 DEF Known, Told
  <2> QED BY <1>1, <1>4, <1>5, <1>6, <2>1 DEF OrderOK
<1>8. \A hi : Known(hi) => Known(hi)' BY <1>1, KnownStays
<1> QED BY <1>1, <1>7, <1>8, OrderWhileBucketRests

\* A run is over, or has copied a segment.
LEMMA OrderAtRest ==
    ASSUME OneRun, Inv, HeadsAgree, OrderInv, NEW r \in Run,
           RunDone(r) \/ RunFails(r) \/ Killed(r) \/ CopySegment(r)
    PROVE  OrderInv'
<1> USE DEF Inv
<1>1. UNCHANGED <<log, primary, mistaken>>
  BY DEF RunDone, RunFails, Killed, CopySegment, reports
<1>2. OrderOK(r) BY DEF OrderInv
<1>3. CASE CopySegment(r)
  <2>1. pc'[r] = "read" /\ UNCHANGED <<plan, prev, note, noted, unsaid>>
    BY <1>3 DEF CopySegment, reports, RunInv, RunTypes
  <2>2. At(r)' = At(r) BY <1>1, <2>1 DEF At, log
  <2>3. Known(prev[r].hi)' <=> Known(prev[r].hi) BY <1>1, <2>1 DEF Known, Told
  <2>4. OrderOK(r)' BY <1>1, <1>2, <2>1, <2>2, <2>3 DEF OrderOK
  <2>5. \A hi : Known(hi) => Known(hi)' BY <1>1, <2>1, KnownStays
  <2> QED BY <1>1, <2>4, <2>5, OrderWhileBucketRests
<1>4. CASE RunDone(r) \/ RunFails(r) \/ Killed(r)
  <2>1. pc'[r] = "idle" /\ plan'[r] = <<>>
    BY <1>4 DEF RunDone, RunFails, Killed, Over, RunInv, RunTypes
  <2>2. Len(plan'[r]) = 0 BY <2>1
  <2>3. OrderOK(r)' BY <2>1, <2>2 DEF OrderOK
  <2>4. \A hi : hi # BucketHead.hi /\ Known(hi) => Known(hi)'
    <3>1. CASE RunDone(r) \/ RunFails(r)
      <4>1. unsaid' = unsaid /\ noted' = noted \union note[r]
        BY <3>1 DEF RunDone, RunFails, Say
      <4>2. \A hi \in note[r] : hi \in noted' BY <4>1
      <4>3. \A hi : Known(hi) => Known(hi)' BY <1>1, <4>1, <4>2, KnownStays
      <4> QED BY <4>3
    <3>2. CASE Killed(r)
      <4>1. unsaid' = unsaid \union (note[r] \ {BucketHead.hi}) /\ noted' = noted
        BY <3>2 DEF Killed, HeadsAgree
      <4>2. \A q \in Run : q = r BY DEF OneRun
      <4> QED BY <1>1, <4>1, <4>2 DEF Known, Told
    <3> QED BY <1>4, <3>1, <3>2
  <2> QED BY <1>1, <2>3, <2>4, OrderWhileBucketRests
<1> QED BY <1>3, <1>4

\* A run ships from where it reads.
LEMMA OrderAtShip ==
    ASSUME OneRun, Inv, HeadsAgree, OrderInv, NEW r \in Run, ShipSegment(r)
    PROVE  OrderInv'
<1> USE DEF Inv
<1>0. prev[r] = BucketHead /\ UNCHANGED <<log, note, noted, unsaid, mistaken>>
      /\ pc'[r] = "copy"
  BY DEF HeadsAgree, ShipSegment, reports, RunInv, RunTypes
<1>1. PICK f \in 1 .. live, off \in Nat : \E s :
         /\ plan[r] # <<>> /\ plan[r][1] = From(f, off) /\ off <= Size(f)
         /\ Measured(s) /\ s.seq = Len(primary) + 1 /\ s.prev = Hash(prev[r])
         /\ s.ino = inode[f] /\ s.lo = starts[f] + off /\ s.hi = starts[f] + s.off
         /\ s.off <= Size(f) /\ s.lo < s.hi /\ s.hi <= Ends(f)
         /\ Len(primary') = Len(primary) + 1 /\ primary'[Len(primary) + 1] = <<s>>
         /\ \A t \in 1 .. Len(primary) : primary'[t] = primary[t]
         /\ BucketHead' = s /\ prev'[r] = s
         /\ Len(plan'[r]) = Len(plan[r]) /\ plan'[r][1] = From(f, s.off)
         /\ \A k \in 2 .. Len(plan[r]) : plan'[r][k] = plan[r][k]
  BY <1>0, ShipsNext
<1>2. PICK s :
         /\ plan[r] # <<>> /\ plan[r][1] = From(f, off) /\ off <= Size(f)
         /\ Measured(s) /\ s.seq = Len(primary) + 1 /\ s.prev = Hash(prev[r])
         /\ s.ino = inode[f] /\ s.lo = starts[f] + off /\ s.hi = starts[f] + s.off
         /\ s.off <= Size(f) /\ s.lo < s.hi /\ s.hi <= Ends(f)
         /\ Len(primary') = Len(primary) + 1 /\ primary'[Len(primary) + 1] = <<s>>
         /\ \A t \in 1 .. Len(primary) : primary'[t] = primary[t]
         /\ BucketHead' = s /\ prev'[r] = s
         /\ Len(plan'[r]) = Len(plan[r]) /\ plan'[r][1] = From(f, s.off)
         /\ \A k \in 2 .. Len(plan[r]) : plan'[r][k] = plan[r][k]
  BY <1>1
<1>3. live \in Nat /\ live' = live /\ starts' = starts /\ inode' = inode
      /\ \A g : Size(g)' = Size(g)
  BY <1>0, Bounds DEF live, log, Size, Ends, LogInv
<1>4. /\ Len(primary) \in Nat /\ BucketHead.seq = Len(primary) /\ Measured(BucketHead)
      /\ Len(primary) # 0 => BucketHead = Original(Len(primary))
  BY HeadIs
<1>5. starts[f] \in Nat /\ Size(f) \in Nat BY FileIs
<1>6. At(r) = s.lo BY <1>2, FromIs DEF At
<1>7. LastRead'
  <2>1. Matches(f, s)'
    <3>1. Size(f)' >= s.off BY <1>2, <1>3, <1>5 DEF Measured
    <3> QED BY <1>2, <1>3, <3>1 DEF Matches, EndsAt
  <2>2. \E g \in 1 .. live' : Matches(g, BucketHead)'
    <3>1. Matches(f, BucketHead)' BY <1>2, <2>1 DEF Matches, EndsAt
    <3> QED BY <1>3, <3>1
  <2> QED BY <2>2 DEF LastRead
<1>8. \A t \in 1 .. Len(primary) + 1 :
         Original(t)' = IF t = Len(primary) + 1 THEN s ELSE Original(t)
  <2> TAKE t \in 1 .. Len(primary) + 1
  <2>1. CASE t = Len(primary) + 1
    <3>1. primary'[t] = <<s>> /\ <<s>>[1] = s BY <1>2, <2>1
    <3> QED BY <2>1, <3>1 DEF Original
  <2>2. CASE t # Len(primary) + 1
    <3>1. t \in 1 .. Len(primary) BY <1>4, <2>2
    <3> QED BY <1>2, <2>2, <3>1 DEF Original
  <2> QED BY <2>1, <2>2
<1>9. Len(primary) # 0 =>
         /\ s.lo >= Original(Len(primary)).hi
         /\ s.lo > Original(Len(primary)).hi => Known(Original(Len(primary)).hi)
  <2> SUFFICES ASSUME Len(primary) # 0
               PROVE  /\ s.lo >= prev[r].hi
                      /\ s.lo > prev[r].hi => Known(prev[r].hi)
    BY <1>0, <1>4
  <2>1. prev[r].seq > 0 /\ prev[r].hi \in Nat /\ s.lo \in Nat
    BY <1>0, <1>2, <1>4 DEF Measured
  <2>2. /\ prev[r].hi <= At(r)
        /\ prev[r].hi < At(r) => Known(prev[r].hi)
    BY <1>2, <2>1 DEF OrderInv, OrderOK
  <2> QED BY <1>6, <2>1, <2>2
<1>10. ASSUME NEW t \in 2 .. Len(primary')
       PROVE  /\ Original(t)'.lo >= Original(t - 1)'.hi
              /\ Original(t)'.lo > Original(t - 1)'.hi => Known(Original(t - 1).hi)'
  <2>0. Len(primary') = Len(primary) + 1 BY <1>2
  <2>1. t \in 1 .. Len(primary) + 1 /\ t - 1 \in 1 .. Len(primary) + 1 BY <1>4, <2>0
  <2>2. Original(t - 1)' = Original(t - 1) BY <1>4, <1>8, <2>0, <2>1
  <2>5. Known(Original(t - 1).hi)' <=> Known(Original(t - 1).hi)
    BY <1>0, <2>2 DEF Known, Told
  <2>3. CASE t = Len(primary) + 1
    <3>1. Original(t)' = s /\ t - 1 = Len(primary) /\ Len(primary) # 0
      BY <1>4, <1>8, <2>1, <2>3
    <3> QED BY <1>9, <2>2, <2>5, <3>1
  <2>4. CASE t # Len(primary) + 1
    <3>1. Original(t)' = Original(t) /\ t \in 2 .. Len(primary) BY <1>4, <1>8, <2>0, <2>1, <2>4
    <3> QED BY <2>2, <2>5, <3>1 DEF OrderInv, InOrder, NoSilentGap
  <2> QED BY <2>3, <2>4
<1>11. InOrder' /\ NoSilentGap' /\ HeadIsLast'
  <2>1. ASSUME NEW t \in 1 .. Len(primary') - 1 PROVE Original(t)'.hi < s.hi
    <3>1. t \in 1 .. Len(primary) /\ Len(primary) # 0 BY <1>2, <1>4
    <3>2. Original(t)' = Original(t) /\ Measured(Original(t))
      BY <1>2, <3>1 DEF Original, BucketInv
    <3>3. BucketHead = Original(Len(primary)) /\ BucketHead.hi \in Nat /\ s.lo \in Nat /\ s.hi \in Nat
      BY <1>2, <1>4, <3>1 DEF Measured
    <3>4. BucketHead.hi <= s.lo BY <1>9, <3>1, <3>3
    <3>5. Original(t).hi <= BucketHead.hi
      <4>1. CASE t = Len(primary) BY <3>3, <4>1
      <4>2. CASE t # Len(primary)
        <5>1. t \in 1 .. Len(primary) - 1 BY <1>4, <3>1, <4>2
        <5>2. Original(t).hi < BucketHead.hi BY <5>1 DEF OrderInv, HeadIsLast
        <5> QED BY <3>2, <3>3, <5>2 DEF Measured
      <4> QED BY <4>1, <4>2
    <3>6. Original(t).hi < s.hi BY <1>2, <3>2, <3>3, <3>4, <3>5 DEF Measured
    <3> QED BY <3>2, <3>6
  <2>2. BucketHead' = s BY <1>2
  <2>3. HeadIsLast' BY <2>1, <2>2 DEF HeadIsLast
  <2> QED BY <1>10, <2>3 DEF InOrder, NoSilentGap
<1>12. OrderOK(r)'
  <2>1. At(r)' = s.hi BY <1>2, <1>3, FromIs DEF At
  <2>2. OrderOK(r) /\ plan[r] \in Seq(Entry) BY DEF OrderInv, RunInv, RunTypes
  <2>3. ASSUME NEW k \in 1 .. Len(plan[r]) - 1
        PROVE  plan'[r][k + 1] = From(plan'[r][k].file + 1, 0)
    <3>1. Len(plan[r]) \in Nat BY <2>2
    <3>2. k + 1 \in 2 .. Len(plan[r]) BY <3>1
    <3>3. plan'[r][k + 1] = plan[r][k + 1] BY <1>2, <3>2
    <3>4. plan[r][k + 1] = From(plan[r][k].file + 1, 0) BY <2>2 DEF OrderOK
    <3>5. plan'[r][k].file = plan[r][k].file
      <4>1. CASE k = 1 BY <1>2, <4>1, FromIs
      <4>2. CASE k # 1
        <5>1. k \in 2 .. Len(plan[r]) BY <3>1, <4>2
        <5> QED BY <1>2, <5>1
      <4> QED BY <4>1, <4>2
    <3> QED BY <3>3, <3>4, <3>5
  <2>4. Len(plan'[r]) = Len(plan[r]) BY <1>2
  <2>5. s.hi \in Nat /\ prev'[r] = s BY <1>2 DEF Measured
  <2>6. prev'[r].hi <= At(r)' /\ ~ (prev'[r].hi < At(r)') BY <2>1, <2>5
  <2> QED BY <1>0, <2>3, <2>4, <2>6 DEF OrderOK
<1>13. \A q \in Run : OrderOK(q)'
  <2>1. \A q \in Run : q = r BY DEF OneRun
  <2> QED BY <1>12, <2>1
<1> QED BY <1>7, <1>11, <1>13 DEF OrderInv

\* The order is kept by every step.
LEMMA OrderKept ==
    ASSUME OneRun, ~ FastRotation, Inv, ChainInv, OrderInv, [Next]_vars
    PROVE  OrderInv'
<1>0. HeadsAgree BY DEF ChainInv
<1>1. CASE AppendRecord \/ Rotate \/ Prune \/ UNCHANGED vars BY <1>1, OrderWhileLogGrows
<1>2. ASSUME NEW r \in Run, Works(r) \/ RunFails(r) \/ Killed(r) PROVE OrderInv'
  BY <1>0, <1>2, OrderAtStart, OrderAtPlan, OrderAtFileDone, OrderAtRest, OrderAtShip DEF Works
<1> QED BY <1>1, <1>2 DEF Next

\* It holds initially.
LEMMA OrderStarts == ASSUME Init PROVE OrderInv
<1>1. primary = <<>> /\ Len(primary) = 0 BY DEF Init
<1>2. InOrder /\ NoSilentGap /\ HeadIsLast /\ LastRead
  BY <1>1 DEF InOrder, NoSilentGap, HeadIsLast, LastRead
<1>3. ASSUME NEW r \in Run PROVE OrderOK(r)
  <2>1. pc[r] = "idle" /\ plan[r] = <<>> /\ Len(plan[r]) = 0 BY DEF Init
  <2> QED BY <2>1 DEF OrderOK
<1> QED BY <1>2, <1>3 DEF OrderInv

\* So it holds always.
LEMMA OrderAlways == ASSUME OneRun, ~ FastRotation PROVE Spec => []OrderInv
<1>1. Inv /\ ChainInv /\ [Next]_vars => ChainInv' BY ChainKept
<1>2. Inv /\ ChainInv /\ OrderInv /\ [Next]_vars => OrderInv' BY OrderKept
<1> QED BY <1>1, <1>2, InvAlways, ChainStarts, OrderStarts, PTL DEF Spec

\* A record is shipped at most once and in the order of the log, whatever is
\* rotated, pruned or cut off meanwhile, and whichever inodes are used again.
THEOREM ShipsInOrder == ASSUME OneRun, ~ FastRotation PROVE Spec => []InOrder
<1>1. OrderInv => InOrder BY DEF OrderInv
<1> QED BY <1>1, OrderAlways, PTL

\* Where two segments do not meet, the run that skipped the records reports it
\* when it ends, or it was killed after it had shipped past them, or a fresh live
\* log had the inode of the file the chain ended in.
THEOREM GapsReported == ASSUME OneRun, ~ FastRotation PROVE Spec => []NoSilentGap
<1>1. OrderInv => NoSilentGap BY DEF OrderInv
<1> QED BY <1>1, OrderAlways, PTL

=============================================================================
