-------------------------- MODULE LanExposeProofs --------------------------
(***************************************************************************)
(* The lan-expose controller for any number of Services, addresses, pods,  *)
(* edits and failed calls: an address goes to one Service, and a FIP does  *)
(* not outlive its OvnEip.                                                 *)
(***************************************************************************)
EXTENDS LanExpose, WellFoundedInduction, TLAPS

ClusterInv ==
    /\ want \subseteq Svc /\ ask \in [Svc -> Ip \union {NoIp}] /\ taken \subseteq Taken
    /\ gen \in [Svc -> 0 .. MaxPods] /\ up \in [Svc -> BOOLEAN]
    /\ \A s \in Svc : up[s] => gen[s] # NoPod

ChainInv ==
    /\ eip \in [Svc -> Ip \union {NoIp}] /\ fip \in [Svc -> 0 .. MaxPods]
    /\ netpol \subseteq Svc /\ routes \subseteq Pod \union {Foreign}
    /\ assigned \in [Svc -> Ip \union {NoIp}]
    /\ blame \subseteq Svc \X {"asked", "lost", "raced", "kept"}

\* Between the pick and the mark of a Service there is a Service, and a pod that
\* was picked for it.
SweepInv ==
    /\ pc \in {"idle", "pick", "eip", "fip", "mark", "gc", "netpols", "vpc", "patch"}
    /\ i \in 0 .. Services + 1 /\ pod \in 0 .. MaxPods
    /\ pc \in {"eip", "fip", "mark"} => i \in Svc
    /\ pc \in {"eip", "fip"} => pod # NoPod
    /\ snap \in [want : SUBSET Svc, ask : [Svc -> Ip \union {NoIp}], eips : SUBSET Svc]
    /\ used \subseteq Ip /\ keep \subseteq Svc
    /\ pods \subseteq Pod /\ seen \subseteq Pod \union {Foreign}

CountInv == edits \in 0 .. MaxEdits /\ faults \in 0 .. MaxFaults

\* An address asked for, now or when the sweep listed the Services, is blamed on
\* the one who asked.
AskedBlamed ==
    \A s \in Svc : ask[s] # NoIp \/ snap.ask[s] # NoIp => <<s, "asked">> \in blame

\* While addresses are given out, used holds those of every Service, but for an
\* OvnEip whose creation the controller does not know of.
Filling == {"pick", "eip", "fip", "mark"}
UsedKnows ==
    pc \in Filling =>
        \A s \in Svc : eip[s] # NoIp => eip[s] \in used \/ <<s, "lost">> \in blame

\* A Service gets its FIP, and its mark, only after its OvnEip.
EipFirst == pc \in {"fip", "mark"} => eip[i] # NoIp

Inv ==
    /\ ClusterInv /\ ChainInv /\ SweepInv /\ CountInv
    /\ AskedBlamed /\ UsedKnows /\ EipFirst /\ NoSharedEip /\ FipHasEip

-----------------------------------------------------------------------------
\* The constants as the provers use them.
LEMMA Bounds ==
    /\ Services \in Nat /\ Addresses \in Nat /\ Taken \subseteq Ip
    /\ MaxEdits \in Nat /\ MaxPods \in Nat \ {0} /\ MaxFaults \in Nat
BY LanExposeAssumption DEF Ip

\* An address is not the lack of one.
LEMMA IpsAreReal == NoIp \notin Ip /\ Ip \subseteq Nat
BY Bounds DEF Ip, NoIp

\* allocate returns a free address when there is one.
LEMMA LowestIsFree == ASSUME NEW S, S \subseteq Ip, S # {} PROVE Lowest(S) \in S
<1> DEFINE less == {p \in Nat \X Nat : p[1] < p[2]}
<1>1. IsWellFoundedOn(less, Nat) BY NatLessThanWellFounded, Zenon DEF OpToRel
<1> HIDE DEF less
<1>2. S \subseteq Nat BY IpsAreReal
<1>3. PICK a \in S : \A b \in S : <<b, a>> \notin less BY <1>1, <1>2, WFMin, Zenon
<1>4. ASSUME NEW b \in S PROVE a <= b
  <2>1. a \in Nat /\ b \in Nat BY <1>2
  <2>2. b < a => <<b, a>> \in less BY <2>1 DEF less
  <2> QED BY <1>3, <2>1, <2>2
<1> QED BY <1>4, Zenon DEF Lowest

\* The inductive invariant holds initially.
LEMMA InvStarts == ASSUME Init PROVE Inv
<1>1. ClusterInv
  <2>1. 1 \in 0 .. MaxPods /\ NoPod # 1 BY Bounds DEF NoPod
  <2> QED BY <2>1 DEF Init, ClusterInv
<1>2. ChainInv
  <2>1. NoPod \in 0 .. MaxPods BY Bounds DEF NoPod
  <2> QED BY <2>1 DEF Init, ChainInv
<1>3. SweepInv
  <2>1. NoPod \in 0 .. MaxPods /\ 0 \in 0 .. Services + 1 BY Bounds DEF NoPod
  <2> QED BY <2>1 DEF Init, SweepInv, NoSnap
<1>4. CountInv BY Bounds DEF Init, CountInv
<1>5. AskedBlamed BY DEF Init, AskedBlamed, NoSnap
<1>6. UsedKnows /\ EipFirst BY DEF Init, UsedKnows, Filling, EipFirst
<1>7. NoSharedEip /\ FipHasEip BY DEF Init, NoSharedEip, FipHasEip
<1> QED BY <1>1, <1>2, <1>3, <1>4, <1>5, <1>6, <1>7 DEF Inv

-----------------------------------------------------------------------------
(***************************************************************************)
(* The steps.                                                              *)
(***************************************************************************)

\* One more fault, or none, within its bound.
LEMMA FaultCount ==
    ASSUME CountInv, faults' = faults \/ Fault, UNCHANGED edits PROVE CountInv'
BY Bounds DEF CountInv, Fault

\* The annotations of Services change and pods come and go.
LEMMA ClusterKeeps ==
    ASSUME Inv, NEW s \in Svc, Annotate(s) \/ Request(s) \/ PodUp(s) \/ PodDown(s)
    PROVE  Inv'
<1>1. /\ UNCHANGED <<taken, eip, fip, netpol, routes, assigned>>
      /\ UNCHANGED <<pc, i, pod, snap, used, keep, pods, seen, faults>>
  BY DEF Annotate, Request, PodUp, PodDown, chain, sweep
<1>2. blame \subseteq blame' /\ blame' \subseteq Svc \X {"asked", "lost", "raced", "kept"}
  BY DEF Annotate, Request, PodUp, PodDown, Inv, ChainInv
<1>3. ClusterInv'
  <2>1. CASE Annotate(s) BY <2>1 DEF Annotate, Inv, ClusterInv
  <2>2. CASE Request(s) BY <2>2 DEF Request, Inv, ClusterInv
  <2>3. CASE PodUp(s)
    <3>1. gen[s] \in Nat /\ gen[s] < MaxPods BY <2>3, Bounds DEF PodUp, Inv, ClusterInv
    <3>2. gen[s] + 1 \in 0 .. MaxPods /\ gen[s] + 1 # NoPod BY <3>1, Bounds DEF NoPod
    <3> QED BY <2>3, <3>2 DEF PodUp, Inv, ClusterInv
  <2>4. CASE PodDown(s) BY <2>4 DEF PodDown, Inv, ClusterInv
  <2> QED BY <2>1, <2>2, <2>3, <2>4
<1>4. ChainInv' BY <1>1, <1>2 DEF Inv, ChainInv
<1>5. SweepInv' BY <1>1 DEF Inv, SweepInv
<1>6. CountInv' BY <1>1, Bounds DEF Annotate, Request, PodUp, PodDown, Edit, Inv, CountInv
<1>7. AskedBlamed'
  <2>1. CASE Request(s)
    <3>1. <<s, "asked">> \in blame' /\ \A t \in Svc \ {s} : ask'[t] = ask[t]
      BY <2>1 DEF Request, Inv, ClusterInv
    <3> QED BY <1>1, <1>2, <3>1 DEF Inv, AskedBlamed
  <2>2. CASE ask' = ask BY <1>1, <1>2, <2>2 DEF Inv, AskedBlamed
  <2> QED BY <2>1, <2>2 DEF Annotate, PodUp, PodDown
<1>8. UsedKnows' /\ EipFirst' BY <1>1, <1>2 DEF Inv, UsedKnows, EipFirst
<1>9. NoSharedEip' BY <1>1, <1>2 DEF Inv, NoSharedEip
<1>10. FipHasEip' BY <1>1, <1>2 DEF Inv, FipHasEip
<1> QED BY <1>3, <1>4, <1>5, <1>6, <1>7, <1>8, <1>9, <1>10 DEF Inv

\* Steps of the sweep that leave the OvnEips and FIPs and the lists alone.
LEMMA SweepMoves ==
    ASSUME Inv, UNCHANGED <<cluster, eip, fip, blame, edits>>,
           faults' = faults \/ Fault,
           netpol' \subseteq Svc, routes' \subseteq Pod \union {Foreign},
           assigned' \in [Svc -> Ip \union {NoIp}], SweepInv',
           \A s \in Svc : snap'.ask[s] # NoIp => <<s, "asked">> \in blame,
           pc' \in Filling => pc \in Filling /\ used' = used,
           pc' \in {"fip", "mark"} => pc \in {"fip", "mark"} /\ i' = i
    PROVE  Inv'
<1>1. ClusterInv' BY DEF cluster, Inv, ClusterInv
<1>2. ChainInv' BY DEF Inv, ChainInv
<1>3. CountInv' BY FaultCount DEF Inv
<1>4. AskedBlamed' BY DEF cluster, Inv, AskedBlamed
<1>5. UsedKnows' /\ EipFirst' BY DEF cluster, Inv, UsedKnows, EipFirst
<1>6. NoSharedEip' /\ FipHasEip' BY DEF cluster, Inv, NoSharedEip, FipHasEip
<1> QED BY <1>1, <1>2, <1>3, <1>4, <1>5, <1>6 DEF Inv

\* The sweep goes on to the next Service.
LEMMA AdvanceTyped ==
    ASSUME Inv, Advance, i \in Svc, UNCHANGED <<snap, keep, pods, seen>>, used' \subseteq Ip
    PROVE  SweepInv'
<1>1. i + 1 \in 0 .. Services + 1 /\ NoPod \in 0 .. MaxPods BY Bounds DEF Svc, NoPod
<1> QED BY <1>1 DEF Advance, Inv, SweepInv

\* Nothing is left of a sweep that is over.
LEMMA RestTyped ==
    ASSUME Rest
    PROVE  SweepInv' /\ pc' = "idle" /\ \A s \in Svc : snap'.ask[s] = NoIp
<1>1. NoPod \in 0 .. MaxPods /\ 0 \in 0 .. Services + 1 BY Bounds DEF NoPod
<1>2. NoSnap \in [want : SUBSET Svc, ask : [Svc -> Ip \union {NoIp}], eips : SUBSET Svc]
  BY DEF NoSnap
<1>3. \A s \in Svc : NoSnap.ask[s] = NoIp BY DEF NoSnap
<1> QED BY <1>1, <1>2, <1>3 DEF Rest, SweepInv

\* The steps that pass a Service over, or fail before anything changed.
LEMMA PassKeeps == ASSUME Inv, Pass \/ CallFails \/ Exhausted PROVE Inv'
<1>1. /\ Advance /\ i \in Svc /\ pc \in Filling
      /\ UNCHANGED <<cluster, chain, snap, used, keep, pods, seen, edits, blame>>
      /\ (faults' = faults \/ Fault)
  BY DEF Pass, CallFails, Exhausted, Inv, SweepInv, Filling
<1>2. SweepInv' BY <1>1, AdvanceTyped DEF Inv, SweepInv
<1>3. pc' = "pick" BY <1>1 DEF Advance
<1> QED BY <1>1, <1>2, <1>3, SweepMoves DEF chain, Inv, ChainInv, AskedBlamed

\* A pod is picked.
LEMMA PickEndpointKeeps == ASSUME Inv, PickEndpoint PROVE Inv'
<1>1. /\ pc = "pick" /\ i \in snap.want /\ up[i] /\ pod' = gen[i] /\ pc' = "eip"
      /\ UNCHANGED <<cluster, chain, i, snap, used, keep, pods, seen, edits, faults, blame>>
  BY DEF PickEndpoint
<1>2. i \in Svc BY <1>1 DEF Inv, SweepInv
<1>3. pod' \in 0 .. MaxPods /\ pod' # NoPod BY <1>1, <1>2 DEF Inv, ClusterInv
<1>4. SweepInv' BY <1>1, <1>2, <1>3 DEF Inv, SweepInv
<1> QED BY <1>1, <1>4, SweepMoves DEF chain, Inv, ChainInv, AskedBlamed, Filling

\* The lists of a sweep know every address that is out.
LEMMA StartKeeps == ASSUME Inv, Start PROVE Inv'
<1>1. /\ pc' = "pick" /\ i' = 1
      /\ snap' = [want |-> want, ask |-> ask, eips |-> {s \in Svc : eip[s] # NoIp}]
      /\ used' = taken \union ({eip[s] : s \in Svc} \ {NoIp})
      /\ UNCHANGED <<cluster, chain, pod, keep, pods, seen, edits, faults, blame>>
  BY DEF Start
<1>2. used' \subseteq Ip BY <1>1, Bounds DEF Inv, ClusterInv, ChainInv
<1>3. SweepInv'
  <2>1. 1 \in 0 .. Services + 1 BY Bounds
  <2>2. snap' \in [want : SUBSET Svc, ask : [Svc -> Ip \union {NoIp}], eips : SUBSET Svc]
    BY <1>1 DEF Inv, ClusterInv
  <2> QED BY <1>1, <1>2, <2>1, <2>2 DEF Inv, SweepInv
<1>4. ClusterInv' BY <1>1 DEF cluster, Inv, ClusterInv
<1>5. ChainInv' BY <1>1 DEF chain, Inv, ChainInv
<1>6. CountInv' BY <1>1 DEF Inv, CountInv
<1>7. AskedBlamed'
  <2>1. snap'.ask = ask BY <1>1
  <2> QED BY <1>1, <2>1 DEF cluster, Inv, AskedBlamed
<1>8. UsedKnows' BY <1>1 DEF cluster, chain, UsedKnows
<1>9. EipFirst' BY <1>1 DEF EipFirst
<1>10. NoSharedEip' /\ FipHasEip' BY <1>1 DEF cluster, chain, Inv, NoSharedEip, FipHasEip
<1> QED BY <1>3, <1>4, <1>5, <1>6, <1>7, <1>8, <1>9, <1>10 DEF Inv

\* The address a new OvnEip gets was asked for, or is nobody's the sweep knows of.
LEMMA DesiredIs ==
    ASSUME Inv, pc = "eip", eip[i] = NoIp, Desired(i) # NoIp
    PROVE  /\ Desired(i) \in Ip
           /\ Desired(i) \notin used \/ <<i, "asked">> \in blame
<1>1. i \in Svc BY DEF Inv, SweepInv
<1>2. CASE snap.ask[i] # NoIp
  BY <1>1, <1>2 DEF Desired, Inv, SweepInv, AskedBlamed
<1>3. CASE snap.ask[i] = NoIp
  <2>1. Free # {} /\ Desired(i) = Lowest(Free) BY <1>3 DEF Desired
  <2>2. Lowest(Free) \in Free BY <2>1, LowestIsFree DEF Free
  <2> QED BY <2>1, <2>2 DEF Free
<1> QED BY <1>2, <1>3

\* An OvnEip with that address shares it with nobody, as far as the controller
\* can know.
LEMMA NewEipKeeps ==
    ASSUME Inv, pc = "eip", eip[i] = NoIp, Desired(i) # NoIp,
           eip' = [eip EXCEPT ![i] = Desired(i)],
           UNCHANGED <<taken, fip>>, blame \union Raced(i) \subseteq blame'
    PROVE  /\ eip' \in [Svc -> Ip \union {NoIp}] /\ NoSharedEip' /\ FipHasEip'
           /\ eip'[i] = Desired(i) /\ \A s \in Svc \ {i} : eip'[s] = eip[s]
<1>1. i \in Svc BY DEF Inv, SweepInv
<1>2. /\ Desired(i) \in Ip
      /\ Desired(i) \notin used \/ <<i, "asked">> \in blame
  BY DesiredIs
<1>3. eip'[i] = Desired(i) /\ \A s \in Svc \ {i} : eip'[s] = eip[s]
  BY <1>1 DEF Inv, ChainInv
<1>4. eip' \in [Svc -> Ip \union {NoIp}] BY <1>1, <1>2 DEF Inv, ChainInv
<1>5. \A s \in Svc : eip[s] # NoIp => eip[s] \in used \/ <<s, "lost">> \in blame
  BY DEF Inv, UsedKnows, Filling
<1>a. Desired(i) \in taken => {<<i, "asked">>, <<i, "raced">>} \intersect blame' # {}
  BY <1>2 DEF Raced
<1>6. NoSharedEip'
  <2> SUFFICES ASSUME NEW s \in Svc, eip'[s] # NoIp
               PROVE  /\ eip'[s] \in taken =>
                           {<<s, "asked">>, <<s, "raced">>} \intersect blame' # {}
                      /\ \A t \in Svc \ {s} : eip'[s] = eip'[t] =>
                           \E u \in {s, t} : {<<u, "asked">>, <<u, "lost">>} \intersect blame' # {}
    BY DEF NoSharedEip
  <2>1. CASE s = i BY <1>2, <1>3, <1>5, <1>a, <2>1
  <2>2. CASE s # i
    <3>1. eip[s] \in taken => {<<s, "asked">>, <<s, "raced">>} \intersect blame # {}
      BY <1>3, <2>2 DEF Inv, NoSharedEip
    <3>2. ASSUME NEW t \in Svc \ {s}, eip'[s] = eip'[t]
          PROVE  \E u \in {s, t} : {<<u, "asked">>, <<u, "lost">>} \intersect blame' # {}
      <4>1. CASE t = i BY <1>2, <1>3, <1>5, <2>2, <3>2, <4>1
      <4>2. CASE t # i
        <5>1. \E u \in {s, t} : {<<u, "asked">>, <<u, "lost">>} \intersect blame # {}
          BY <1>3, <2>2, <3>2, <4>2 DEF Inv, NoSharedEip
        <5> QED BY <5>1
      <4> QED BY <4>1, <4>2
    <3> QED BY <1>3, <2>2, <3>1, <3>2
  <2> QED BY <2>1, <2>2
<1>7. FipHasEip'
  BY <1>1, <1>2, <1>3, IpsAreReal DEF Inv, FipHasEip
<1> QED BY <1>3, <1>4, <1>6, <1>7

\* ensureEip keeps the OvnEip there is, or creates one and marks its address used.
LEMMA EnsureEipKeeps == ASSUME Inv, EnsureEip PROVE Inv'
<1>1. /\ pc = "eip" /\ Desired(i) # NoIp /\ eip[i] \in {NoIp, Desired(i)}
      /\ eip' = [eip EXCEPT ![i] = Desired(i)] /\ used' = used \union {Desired(i)}
      /\ pc' = "fip" /\ blame' = blame \union Raced(i)
      /\ UNCHANGED <<cluster, fip, netpol, routes, assigned, i, pod, snap, keep, pods, seen,
                     edits, faults>>
  BY DEF EnsureEip, Claimed
<1>2. i \in Svc BY <1>1 DEF Inv, SweepInv
<1>3. Desired(i) \in Ip BY <1>1, <1>2, DesiredIs DEF Inv, ChainInv
<1>a. Raced(i) \subseteq {<<i, "raced">>} BY DEF Raced
<1>4. /\ eip' \in [Svc -> Ip \union {NoIp}] /\ NoSharedEip' /\ FipHasEip'
      /\ eip'[i] = Desired(i) /\ \A s \in Svc \ {i} : eip'[s] = eip[s]
  <2>1. CASE eip[i] = NoIp BY <1>1, <2>1, NewEipKeeps DEF cluster
  <2>2. CASE eip[i] = Desired(i)
    <3>1. eip' = eip BY <1>1, <2>2 DEF Inv, ChainInv
    <3>2. blame' = blame BY <1>1, <2>2 DEF Raced
    <3> QED BY <1>1, <2>2, <3>1, <3>2 DEF cluster, Inv, ChainInv, NoSharedEip, FipHasEip
  <2> QED BY <1>1, <2>1, <2>2
<1>5. ClusterInv' BY <1>1 DEF cluster, Inv, ClusterInv
<1>6. ChainInv' BY <1>1, <1>2, <1>4, <1>a DEF Inv, ChainInv
<1>7. SweepInv' BY <1>1, <1>3 DEF Inv, SweepInv
<1>8. CountInv' BY <1>1 DEF Inv, CountInv
<1>9. AskedBlamed' BY <1>1 DEF cluster, Inv, AskedBlamed
<1>10. UsedKnows' BY <1>1, <1>4 DEF cluster, Inv, UsedKnows, Filling
<1>11. EipFirst' BY <1>1, <1>4 DEF EipFirst
<1> QED BY <1>4, <1>5, <1>6, <1>7, <1>8, <1>9, <1>10, <1>11 DEF Inv

\* A creation whose answer is lost is blamed on its Service.
LEMMA CreateEipLostKeeps == ASSUME Inv, CreateEipLost PROVE Inv'
<1>1. /\ pc = "eip" /\ Desired(i) # NoIp /\ eip[i] = NoIp
      /\ eip' = [eip EXCEPT ![i] = Desired(i)] 
      /\ blame' = blame \union Raced(i) \union {<<i, "lost">>}
      /\ Fault /\ Advance
      /\ UNCHANGED <<cluster, fip, netpol, routes, assigned, snap, used, keep, pods, seen, edits>>
  BY DEF CreateEipLost
<1>2. i \in Svc BY <1>1 DEF Inv, SweepInv
<1>4. /\ eip' \in [Svc -> Ip \union {NoIp}] /\ NoSharedEip' /\ FipHasEip'
      /\ eip'[i] = Desired(i) /\ \A s \in Svc \ {i} : eip'[s] = eip[s]
  BY <1>1, NewEipKeeps DEF cluster
<1>5. ClusterInv' BY <1>1 DEF cluster, Inv, ClusterInv
<1>a. Raced(i) \subseteq {<<i, "raced">>} BY DEF Raced
<1>6. ChainInv' BY <1>1, <1>2, <1>4, <1>a DEF Inv, ChainInv
<1>7. SweepInv' BY <1>1, <1>2, AdvanceTyped DEF Inv, SweepInv
<1>8. CountInv' BY <1>1, FaultCount DEF Inv
<1>9. AskedBlamed' BY <1>1 DEF cluster, Inv, AskedBlamed
<1>10. UsedKnows' BY <1>1, <1>4 DEF cluster, Inv, UsedKnows, Filling
<1>11. EipFirst' BY <1>1 DEF EipFirst, Advance
<1> QED BY <1>4, <1>5, <1>6, <1>7, <1>8, <1>9, <1>10, <1>11 DEF Inv

\* A teardown frees an address or leaves it, and leaves a FIP alone only when
\* that is blamed on its Service.
LEMMA TeardownDoes ==
    ASSUME Inv, NEW s \in Svc, Teardown(s), UNCHANGED taken
    PROVE  /\ eip' \in [Svc -> Ip \union {NoIp}] /\ fip' \in [Svc -> 0 .. MaxPods]
           /\ blame \subseteq blame' /\ blame' \subseteq Svc \X {"asked", "lost", "raced", "kept"}
           /\ \A t \in Svc : eip'[t] # NoIp => eip'[t] = eip[t]
           /\ (faults' = faults \/ Fault)
           /\ NoSharedEip' /\ FipHasEip'
<1>1. /\ eip' \in [Svc -> Ip \union {NoIp}] /\ eip'[s] \in {eip[s], NoIp}
      /\ \A t \in Svc \ {s} : eip'[t] = eip[t]
  BY DEF Teardown, Inv, ChainInv
<1>2. /\ fip' \in [Svc -> 0 .. MaxPods] /\ \A t \in Svc \ {s} : fip'[t] = fip[t]
      /\ fip'[s] = NoPod \/ <<s, "kept">> \in blame'
  <2>1. NoPod \in 0 .. MaxPods BY Bounds DEF NoPod
  <2> QED BY <2>1 DEF Teardown, Inv, ChainInv
<1>3. blame \subseteq blame' /\ blame' \subseteq Svc \X {"asked", "lost", "raced", "kept"}
  BY DEF Teardown, Inv, ChainInv
<1>4. \A t \in Svc : eip'[t] # NoIp => eip'[t] = eip[t] BY <1>1
<1>5. NoSharedEip' BY <1>3, <1>4 DEF Inv, NoSharedEip
<1>6. FipHasEip' BY <1>1, <1>2, <1>3 DEF Inv, FipHasEip
<1> QED BY <1>1, <1>2, <1>3, <1>4, <1>5, <1>6 DEF Teardown

\* Both objects go when another address is asked for, and those of a Service the
\* sweep did not complete.
LEMMA RecreateKeeps == ASSUME Inv, RecreateEip \/ GcEip PROVE Inv'
<1>1. PICK s \in Svc : Teardown(s)
  BY DEF RecreateEip, GcEip, Stale, Inv, SweepInv
<1>2. /\ UNCHANGED <<cluster, netpol, routes, assigned, used, keep, pods, seen, edits>>
      /\ pc' \in {"pick", "gc"} /\ (pc' \in Filling => pc \in Filling)
      /\ snap'.ask = snap.ask
  BY DEF RecreateEip, GcEip, Advance, Filling, Inv, SweepInv
<1>3. SweepInv'
  <2>1. CASE RecreateEip
    <3>1. i \in Svc BY <2>1 DEF RecreateEip, Inv, SweepInv
    <3> QED BY <2>1, <3>1, AdvanceTyped DEF RecreateEip, Inv, SweepInv
  <2>2. CASE GcEip
    <3>1. snap' \in [want : SUBSET Svc, ask : [Svc -> Ip \union {NoIp}], eips : SUBSET Svc]
      BY <2>2 DEF GcEip, Inv, SweepInv
    <3> QED BY <2>2, <3>1 DEF GcEip, Inv, SweepInv
  <2> QED BY <2>1, <2>2
<1>4. taken' = taken BY <1>2 DEF cluster
<1>5. /\ eip' \in [Svc -> Ip \union {NoIp}] /\ fip' \in [Svc -> 0 .. MaxPods]
      /\ blame \subseteq blame' /\ blame' \subseteq Svc \X {"asked", "lost", "raced", "kept"}
      /\ \A t \in Svc : eip'[t] # NoIp => eip'[t] = eip[t]
      /\ (faults' = faults \/ Fault)
      /\ NoSharedEip' /\ FipHasEip'
  BY <1>1, <1>4, TeardownDoes
<1>6. ClusterInv' BY <1>2 DEF cluster, Inv, ClusterInv
<1>7. ChainInv' BY <1>2, <1>5 DEF Inv, ChainInv
<1>8. CountInv' BY <1>2, <1>5, FaultCount DEF Inv
<1>9. AskedBlamed' BY <1>2, <1>5 DEF cluster, Inv, AskedBlamed
<1>10. UsedKnows' BY <1>2, <1>4, <1>5 DEF Inv, UsedKnows
<1>11. EipFirst' BY <1>2 DEF EipFirst
<1> QED BY <1>3, <1>5, <1>6, <1>7, <1>8, <1>9, <1>10, <1>11 DEF Inv

\* A FIP is created only next to its OvnEip.
LEMMA EnsureFipKeeps == ASSUME Inv, EnsureFip PROVE Inv'
<1>1. /\ pc = "fip" /\ pc' = "mark"
      /\ fip' = [fip EXCEPT ![i] = IF fip[i] = NoPod THEN pod ELSE fip[i]]
      /\ keep' = keep \union {i} /\ pods' = pods \union {<<i, pod>>}
      /\ UNCHANGED <<cluster, eip, netpol, routes, assigned, i, pod, snap, used, seen,
                     edits, faults, blame>>
  BY DEF EnsureFip
<1>2. i \in Svc /\ pod \in 0 .. MaxPods /\ pod # NoPod /\ eip[i] # NoIp
  BY <1>1 DEF Inv, SweepInv, EipFirst
<1>3. pod \in 1 .. MaxPods BY <1>2, Bounds DEF NoPod
<1>4. fip' \in [Svc -> 0 .. MaxPods] /\ \A s \in Svc \ {i} : fip'[s] = fip[s]
  BY <1>1, <1>2 DEF Inv, ChainInv
<1>5. SweepInv' BY <1>1, <1>2, <1>3 DEF Inv, SweepInv, Pod
<1>6. ClusterInv' BY <1>1 DEF cluster, Inv, ClusterInv
<1>7. ChainInv' BY <1>1, <1>4 DEF Inv, ChainInv
<1>8. CountInv' BY <1>1 DEF Inv, CountInv
<1>9. AskedBlamed' BY <1>1 DEF cluster, Inv, AskedBlamed
<1>10. UsedKnows' /\ EipFirst'
  BY <1>1, <1>2 DEF cluster, Inv, UsedKnows, Filling, EipFirst
<1>11. NoSharedEip' BY <1>1 DEF cluster, Inv, NoSharedEip
<1>12. FipHasEip' BY <1>1, <1>2, <1>4 DEF Inv, FipHasEip
<1> QED BY <1>5, <1>6, <1>7, <1>8, <1>9, <1>10, <1>11, <1>12 DEF Inv

\* So is one whose creation goes unnoticed.
LEMMA CreateFipLostKeeps == ASSUME Inv, CreateFipLost PROVE Inv'
<1>1. /\ pc = "fip" /\ Fault /\ Advance /\ fip' = [fip EXCEPT ![i] = pod]
      /\ UNCHANGED <<cluster, eip, netpol, routes, assigned, snap, used, keep, pods, seen,
                     edits, blame>>
  BY DEF CreateFipLost
<1>2. i \in Svc /\ pod \in 0 .. MaxPods /\ eip[i] # NoIp
  BY <1>1 DEF Inv, SweepInv, EipFirst
<1>3. fip' \in [Svc -> 0 .. MaxPods] /\ \A s \in Svc \ {i} : fip'[s] = fip[s]
  BY <1>1, <1>2 DEF Inv, ChainInv
<1>4. SweepInv' BY <1>1, <1>2, AdvanceTyped DEF Inv, SweepInv
<1>5. ClusterInv' BY <1>1 DEF cluster, Inv, ClusterInv
<1>6. ChainInv' BY <1>1, <1>3 DEF Inv, ChainInv
<1>7. CountInv' BY <1>1, FaultCount DEF Inv
<1>8. AskedBlamed' BY <1>1 DEF cluster, Inv, AskedBlamed
<1>9. UsedKnows' /\ EipFirst'
  BY <1>1 DEF cluster, Advance, Inv, UsedKnows, Filling, EipFirst
<1>10. NoSharedEip' BY <1>1 DEF cluster, Inv, NoSharedEip
<1>11. FipHasEip' BY <1>1, <1>2, <1>3 DEF Inv, FipHasEip
<1> QED BY <1>4, <1>5, <1>6, <1>7, <1>8, <1>9, <1>10, <1>11 DEF Inv

\* A FIP at another pod goes, or its staying is blamed on its Service.
LEMMA RepointFipKeeps == ASSUME Inv, RepointFip PROVE Inv'
<1>1. /\ pc = "fip" /\ Advance /\ (faults' = faults \/ Fault)
      /\ fip' \in {fip, [fip EXCEPT ![i] = NoPod]}
      /\ blame' \in {blame, blame \union {<<i, "kept">>}}
      /\ UNCHANGED <<cluster, eip, netpol, routes, assigned, snap, used, keep, pods, seen, edits>>
  BY DEF RepointFip
<1>2. i \in Svc BY <1>1 DEF Inv, SweepInv
<1>3. /\ fip' \in [Svc -> 0 .. MaxPods]
      /\ \A s \in Svc : fip'[s] # NoPod => fip'[s] = fip[s]
  <2>1. NoPod \in 0 .. MaxPods BY Bounds DEF NoPod
  <2> QED BY <1>1, <1>2, <2>1 DEF Inv, ChainInv
<1>4. blame \subseteq blame' /\ blame' \subseteq Svc \X {"asked", "lost", "raced", "kept"}
  BY <1>1, <1>2 DEF Inv, ChainInv
<1>5. SweepInv' BY <1>1, <1>2, AdvanceTyped DEF Inv, SweepInv
<1>6. ClusterInv' BY <1>1 DEF cluster, Inv, ClusterInv
<1>7. ChainInv' BY <1>1, <1>3, <1>4 DEF Inv, ChainInv
<1>8. CountInv' BY <1>1, FaultCount DEF Inv
<1>9. AskedBlamed' BY <1>1, <1>4 DEF cluster, Inv, AskedBlamed
<1>10. UsedKnows' BY <1>1, <1>4 DEF cluster, Inv, UsedKnows, Filling
<1>11. EipFirst' BY <1>1 DEF Advance, EipFirst
<1>12. NoSharedEip' BY <1>1, <1>4 DEF cluster, Inv, NoSharedEip
<1>13. FipHasEip' BY <1>1, <1>3, <1>4 DEF Inv, FipHasEip
<1> QED BY <1>5, <1>6, <1>7, <1>8, <1>9, <1>10, <1>11, <1>12, <1>13 DEF Inv

\* The policy and the annotation of a Service.
LEMMA MarkKeeps == ASSUME Inv, Mark PROVE Inv'
<1>1. /\ pc = "mark" /\ Advance /\ (faults' = faults \/ Fault)
      /\ netpol' \in {netpol, netpol \union {i}}
      /\ assigned' \in {assigned, [assigned EXCEPT ![i] = eip[i]]}
      /\ UNCHANGED <<cluster, eip, fip, routes, snap, used, keep, pods, seen, edits, blame>>
  BY DEF Mark
<1>2. i \in Svc BY <1>1 DEF Inv, SweepInv
<1>3. SweepInv' BY <1>1, <1>2, AdvanceTyped DEF Inv, SweepInv
<1>4. /\ netpol' \subseteq Svc /\ assigned' \in [Svc -> Ip \union {NoIp}]
      /\ routes' \subseteq Pod \union {Foreign}
  BY <1>1, <1>2 DEF Inv, ChainInv
<1>5. pc' = "pick" /\ pc \in Filling BY <1>1 DEF Advance, Filling
<1> QED BY <1>1, <1>3, <1>4, <1>5, SweepMoves DEF Inv, AskedBlamed

\* The end of the sweep, up to the read of the VPC.
LEMMA EndKeeps ==
    ASSUME Inv, ServicesDone \/ GcEipsDone \/ GcNetpols PROVE Inv'
<1>1. /\ pc' \in {"gc", "netpols", "vpc"} /\ (faults' = faults \/ Fault)
      /\ netpol' \subseteq Svc
      /\ snap' \in {snap, NoSnap, [NoSnap EXCEPT !.eips = snap.eips]}
      /\ used' \in {used, {}} /\ keep' \in {keep, {}}
      /\ UNCHANGED <<cluster, eip, fip, routes, assigned, i, pod, pods, seen, edits, blame>>
  BY DEF ServicesDone, GcEipsDone, GcNetpols, chain, Inv, ChainInv
<1>2. /\ snap' \in [want : SUBSET Svc, ask : [Svc -> Ip \union {NoIp}], eips : SUBSET Svc]
      /\ \A s \in Svc : snap'.ask[s] # NoIp => <<s, "asked">> \in blame
  <2>1. CASE snap' = snap BY <2>1 DEF Inv, SweepInv, AskedBlamed
  <2>2. CASE snap' = NoSnap BY <2>2 DEF NoSnap
  <2>3. CASE snap' = [NoSnap EXCEPT !.eips = snap.eips]
    BY <2>3 DEF NoSnap, Inv, SweepInv
  <2> QED BY <1>1, <2>1, <2>2, <2>3
<1>3. SweepInv' BY <1>1, <1>2 DEF Inv, SweepInv
<1> QED BY <1>1, <1>2, <1>3, SweepMoves DEF Inv, ChainInv, Filling

\* The VPC is read, or the sweep ends there.
LEMMA GetVpcKeeps == ASSUME Inv, GetVpc PROVE Inv'
<1>1. UNCHANGED <<cluster, chain, edits, blame>> BY DEF GetVpc
<1>2. CASE seen' = routes /\ pc' = "patch" /\ UNCHANGED <<i, pod, snap, used, keep, pods, faults>>
  <2>1. SweepInv' BY <1>2 DEF Inv, SweepInv, ChainInv
  <2> QED BY <1>1, <1>2, <2>1, SweepMoves DEF chain, Inv, ChainInv, AskedBlamed, Filling
<1>3. CASE Rest /\ Fault
  BY <1>1, <1>3, RestTyped, SweepMoves DEF chain, Inv, ChainInv, Filling
<1> QED BY <1>2, <1>3 DEF GetVpc

\* The routes are replaced and the sweep is over, or the controller restarts.
LEMMA RestKeeps == ASSUME Inv, PatchVpc \/ Restart PROVE Inv'
<1>1. /\ UNCHANGED <<cluster, eip, fip, netpol, assigned, edits, blame>>
      /\ Rest /\ (faults' = faults \/ Fault)
      /\ routes' \in {routes, mergePolicyRoutes(seen, pods)}
  BY DEF PatchVpc, Restart, chain
<1>2. routes' \subseteq Pod \union {Foreign}
  BY <1>1 DEF Inv, ChainInv, SweepInv, mergePolicyRoutes
<1> QED BY <1>1, <1>2, RestTyped, SweepMoves DEF Inv, ChainInv, Filling

\* Another component adds its route, or takes an address no Service has.
LEMMA OthersKeep ==
    ASSUME Inv, AddForeignRoute \/ \E a \in Taken : TakeAddress(a) PROVE Inv'
<1>1. /\ routes' \subseteq Pod \union {Foreign} /\ Edit
      /\ taken' \subseteq Taken /\ \A s \in Svc : eip[s] \in taken' => eip[s] \in taken
      /\ UNCHANGED <<want, ask, gen, up, eip, fip, netpol, assigned, pc, i, pod, snap, used,
                     keep, pods, seen, faults, blame>>
  <2>1. CASE AddForeignRoute
    BY <2>1 DEF AddForeignRoute, cluster, sweep, Inv, ClusterInv, ChainInv
  <2>2. CASE \E a \in Taken : TakeAddress(a)
    BY <2>2 DEF TakeAddress, chain, sweep, Inv, ClusterInv, ChainInv
  <2> QED BY <2>1, <2>2
<1>2. ClusterInv' BY <1>1 DEF Inv, ClusterInv
<1>3. ChainInv' BY <1>1 DEF Inv, ChainInv
<1>4. SweepInv' BY <1>1 DEF Inv, SweepInv
<1>5. CountInv' BY <1>1, Bounds DEF Edit, Inv, CountInv
<1>6. AskedBlamed' BY <1>1 DEF Inv, AskedBlamed
<1>7. UsedKnows' /\ EipFirst' BY <1>1 DEF Inv, UsedKnows, EipFirst
<1>8. NoSharedEip' BY <1>1 DEF Inv, NoSharedEip
<1>9. FipHasEip' BY <1>1 DEF Inv, FipHasEip
<1> QED BY <1>2, <1>3, <1>4, <1>5, <1>6, <1>7, <1>8, <1>9 DEF Inv

\* Every step keeps the inductive invariant.
LEMMA InvHolds == ASSUME Inv, [Next]_vars PROVE Inv'
<1>1. CASE UNCHANGED vars
  <2>1. UNCHANGED <<cluster, chain, pc, i, pod, snap, used, keep, pods, seen, edits, faults, blame>>
    BY <1>1 DEF vars, sweep
  <2>2. SweepInv' BY <2>1 DEF Inv, SweepInv
  <2> QED BY <2>1, <2>2, SweepMoves DEF chain, Inv, ChainInv, AskedBlamed
<1>2. CASE \E s \in Svc : Annotate(s) \/ Request(s) \/ PodUp(s) \/ PodDown(s)
  BY <1>2, ClusterKeeps
<1>3. CASE Sweep
  BY <1>3, StartKeeps, PassKeeps, PickEndpointKeeps, EnsureEipKeeps, RecreateKeeps,
     EnsureFipKeeps, RepointFipKeeps, MarkKeeps, EndKeeps, GetVpcKeeps, RestKeeps DEF Sweep
<1>4. CASE CallFails \/ CreateEipLost \/ CreateFipLost \/ Restart
  BY <1>4, PassKeeps, CreateEipLostKeeps, CreateFipLostKeeps, RestKeeps
<1> QED BY <1>1, <1>2, <1>3, <1>4, OthersKeep DEF Next

\* The inductive invariant is an invariant of the specification.
LEMMA InvAlways == Spec => []Inv
BY InvStarts, InvHolds, PTL DEF Spec

-----------------------------------------------------------------------------
(***************************************************************************)
(* The theorems.                                                           *)
(***************************************************************************)

\* The objects of the cluster and the maps of the sweep keep their types, and a
\* Service comes to its FIP only with an OvnEip, for any number of Services,
\* addresses and pods.
THEOREM TypeCorrect == Spec => []TypeOK
<1>1. Inv => TypeOK
  BY Zenon DEF Inv, ClusterInv, ChainInv, SweepInv, CountInv, EipFirst, TypeOK
<1> QED BY <1>1, InvAlways, PTL

\* allocate never gives an address to two Services, nor one that another
\* component has, through any sequence of sweeps, failed calls and restarts,
\* unless the address was asked for, was taken by the other after the sweep listed
\* the OvnEips, or a creation went unnoticed.
THEOREM AddressesAreNotShared == Spec => []NoSharedEip
<1>1. Inv => NoSharedEip BY DEF Inv
<1> QED BY <1>1, InvAlways, PTL

\* A FIP without its OvnEip can only come from a deletion of that FIP that
\* failed: every other order of creations and deletions, wherever it is cut off,
\* keeps the OvnEip longer.
THEOREM FipsHaveEips == Spec => []FipHasEip
<1>1. Inv => FipHasEip BY DEF Inv
<1> QED BY <1>1, InvAlways, PTL

=============================================================================
