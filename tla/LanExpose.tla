----------------------------- MODULE LanExpose -----------------------------
(***************************************************************************)
(* The lan-expose controller (reconcile.go, alloc.go): sweep after sweep   *)
(* it gives every annotated Service an OvnEip, an OvnFip at the pod behind *)
(* it, a NetworkPolicy and a return route in the default VPC, and takes    *)
(* them away again, while Services are annotated, pods come and go, other  *)
(* components write the VPC and take addresses, API calls fail and the     *)
(* controller is restarted.  Services are numbered in the order they are   *)
(* listed in.                                                              *)
(***************************************************************************)
EXTENDS Integers, FiniteSets

CONSTANTS
    Services,       \* the number of Services
    Addresses,      \* the size of the range EIPs are allocated from
    Taken,          \* addresses that OvnEips of others may hold
    MaxEdits,       \* bound on changes of annotations and by other components
    MaxPods,        \* bound on the pods that come up behind one Service
    MaxFaults       \* bound on failed API calls and restarts

ASSUME LanExposeAssumption ==
    /\ Services \in Nat /\ Addresses \in Nat /\ Taken \subseteq 1 .. Addresses
    /\ MaxEdits \in Nat /\ MaxPods \in Nat \ {0} /\ MaxFaults \in Nat

Svc == 1 .. Services
Ip == 1 .. Addresses
Pod == Svc \X (1 .. MaxPods)
NoIp == 0
NoPod == 0
Foreign == <<0, 0>>         \* the policy route of another component

VARIABLES
    want, ask,      \* the Services annotated lan-expose, and their lan-ip
    taken,          \* the addresses OvnEips of others hold
    gen, up,        \* how many pods came up behind a Service, and if one runs
    eip, fip,       \* the OvnEip and the OvnFip of each Service
    netpol,         \* the Services with a managed NetworkPolicy
    routes,         \* the policyRoutes of the default VPC
    assigned,       \* the annotation lan-ip-assigned
    pc, i, pod,     \* where the sweep is, its Service, the pod picked for it
    snap,           \* what the sweep listed
    used, keep,     \* the maps used and wantResource of the sweep
    pods, seen,     \* its wantPodIPs, and the policyRoutes it read
    edits, faults,
    blame           \* what happened to each Service: an address was asked for,
                    \* the answer to the creation of its OvnEip was lost, its
                    \* address was taken after the list, its FIP was not deleted

cluster == <<want, ask, taken, gen, up>>
chain == <<eip, fip, netpol, routes, assigned>>
sweep == <<pc, i, pod, snap, used, keep, pods, seen>>
vars == <<cluster, chain, sweep, edits, faults, blame>>

NoSnap == [want |-> {}, ask |-> [s \in Svc |-> NoIp], eips |-> {}]

TypeOK ==
    /\ want \subseteq Svc /\ ask \in [Svc -> Ip \union {NoIp}]
    /\ taken \subseteq Taken
    /\ gen \in [Svc -> 0 .. MaxPods] /\ up \in [Svc -> BOOLEAN]
    /\ \A s \in Svc : up[s] => gen[s] # NoPod
    /\ eip \in [Svc -> Ip \union {NoIp}] /\ fip \in [Svc -> 0 .. MaxPods]
    /\ netpol \subseteq Svc /\ routes \subseteq Pod \union {Foreign}
    /\ assigned \in [Svc -> Ip \union {NoIp}]
    /\ pc \in {"idle", "pick", "eip", "fip", "mark", "gc", "netpols", "vpc", "patch"}
    /\ i \in 0 .. Services + 1 /\ pod \in 0 .. MaxPods
    /\ (pc \in {"fip", "mark"} => eip[i] # NoIp)
    /\ snap \in [want : SUBSET Svc, ask : [Svc -> Ip \union {NoIp}], eips : SUBSET Svc]
    /\ used \subseteq Ip /\ keep \subseteq Svc
    /\ pods \subseteq Pod /\ seen \subseteq Pod \union {Foreign}
    /\ edits \in 0 .. MaxEdits /\ faults \in 0 .. MaxFaults
    /\ blame \subseteq Svc \X {"asked", "lost", "raced", "kept"}

\* The sweep is over and forgets everything.
Rest ==
    /\ pc' = "idle" /\ i' = 0 /\ pod' = NoPod /\ snap' = NoSnap
    /\ used' = {} /\ keep' = {} /\ pods' = {} /\ seen' = {}

Init ==
    /\ want \in SUBSET Svc /\ ask = [s \in Svc |-> NoIp] /\ taken \in SUBSET Taken
    /\ gen = [s \in Svc |-> 1] /\ up = [s \in Svc |-> TRUE]
    /\ eip = [s \in Svc |-> NoIp] /\ fip = [s \in Svc |-> NoPod]
    /\ netpol = {} /\ routes \in SUBSET {Foreign} /\ assigned = [s \in Svc |-> NoIp]
    /\ pc = "idle" /\ i = 0 /\ pod = NoPod /\ snap = NoSnap
    /\ used = {} /\ keep = {} /\ pods = {} /\ seen = {}
    /\ edits = 0 /\ faults = 0 /\ blame = {}

Fault == faults < MaxFaults /\ faults' = faults + 1

-----------------------------------------------------------------------------
(***************************************************************************)
(* The cluster around the controller.                                      *)
(***************************************************************************)

Edit == edits < MaxEdits /\ edits' = edits + 1

\* The annotation lan-expose is set or taken away.
Annotate(s) ==
    /\ Edit
    /\ want' = IF s \in want THEN want \ {s} ELSE want \union {s}
    /\ UNCHANGED <<ask, gen, up, taken, chain, sweep, faults, blame>>

\* The annotation lan-ip is set to an address, or taken away.
Request(s) ==
    /\ Edit
    /\ \E a \in (Ip \union {NoIp}) \ {ask[s]} : ask' = [ask EXCEPT ![s] = a]
    /\ blame' = blame \union {<<s, "asked">>}
    /\ UNCHANGED <<want, gen, up, taken, chain, sweep, faults>>

PodUp(s) ==
    /\ ~ up[s] /\ gen[s] < MaxPods
    /\ gen' = [gen EXCEPT ![s] = @ + 1]
    /\ up' = [up EXCEPT ![s] = TRUE]
    /\ UNCHANGED <<want, ask, taken, chain, sweep, edits, faults, blame>>

PodDown(s) ==
    /\ up[s]
    /\ up' = [up EXCEPT ![s] = FALSE]
    /\ UNCHANGED <<want, ask, gen, taken, chain, sweep, edits, faults, blame>>

\* Another component adds its policy route to the VPC.
AddForeignRoute ==
    /\ Edit /\ Foreign \notin routes
    /\ routes' = routes \union {Foreign}
    /\ UNCHANGED <<cluster, eip, fip, netpol, assigned, sweep, faults, blame>>

\* Another component creates an OvnEip at an address nobody has.
TakeAddress(a) ==
    /\ Edit /\ a \notin taken /\ \A s \in Svc : eip[s] # a
    /\ taken' = taken \union {a}
    /\ UNCHANGED <<want, ask, gen, up, chain, sweep, faults, blame>>

-----------------------------------------------------------------------------
(***************************************************************************)
(* One sweep: the lists, and the Services one by one.                      *)
(***************************************************************************)

\* Both lists are there; without either the sweep ends at once.
Start ==
    /\ pc = "idle"
    /\ snap' = [want |-> want, ask |-> ask, eips |-> {s \in Svc : eip[s] # NoIp}]
    /\ used' = taken \union ({eip[s] : s \in Svc} \ {NoIp})
    /\ pc' = "pick" /\ i' = 1
    /\ UNCHANGED <<cluster, chain, pod, keep, pods, seen, edits, faults, blame>>

\* continue: the next Service.
Advance ==
    /\ i' = i + 1
    /\ pc' = "pick" /\ pod' = NoPod

\* A Service that is not annotated, or has no running pod, is passed over.
Pass ==
    /\ pc = "pick" /\ i \in Svc
    /\ i \notin snap.want \/ ~ up[i]
    /\ Advance
    /\ UNCHANGED <<cluster, chain, snap, used, keep, pods, seen, edits, faults, blame>>

\* pickEndpoint answers.
PickEndpoint ==
    /\ pc = "pick" /\ i \in snap.want /\ up[i]
    /\ pod' = gen[i] /\ pc' = "eip"
    /\ UNCHANGED <<cluster, chain, i, snap, used, keep, pods, seen, edits, faults, blame>>

\* listPods, getOvnEip, createOvnEip, getOvnFip or createOvnFip fails.
CallFails ==
    /\ \/ pc = "pick" /\ i \in snap.want
       \/ pc \in {"eip", "fip"}
    /\ Fault
    /\ Advance
    /\ UNCHANGED <<cluster, chain, snap, used, keep, pods, seen, edits, blame>>

\* The addresses of the range that allocate may return.
Free == Ip \ used

Lowest(S) == CHOOSE a \in S : \A b \in S : a <= b

\* The address ensureEip settles on: the one asked for, the one there is, or
\* the lowest free one.
Desired(s) ==
    IF snap.ask[s] # NoIp THEN snap.ask[s]
    ELSE IF eip[s] # NoIp THEN eip[s]
    ELSE IF Free # {} THEN Lowest(Free) ELSE NoIp

\* allocate finds the range full and the Service is left for a later sweep.
Exhausted ==
    /\ pc = "eip" /\ Desired(i) = NoIp
    /\ Advance
    /\ UNCHANGED <<cluster, chain, snap, used, keep, pods, seen, edits, faults, blame>>

\* Mutant of Claimed: the address given in this sweep is not marked as used.
ClaimedNot(a) == used

Claimed(a) == used \union {a}

\* A new OvnEip of Service s gets an address that was taken since the list.
Raced(s) == IF eip[s] = NoIp /\ Desired(s) \in taken \ used THEN {<<s, "raced">>} ELSE {}

EnsureEip ==
    /\ pc = "eip" /\ Desired(i) # NoIp
    /\ eip[i] \in {NoIp, Desired(i)}
    /\ eip' = [eip EXCEPT ![i] = Desired(i)]
    /\ blame' = blame \union Raced(i)
    /\ used' = Claimed(Desired(i))
    /\ pc' = "fip"
    /\ UNCHANGED <<cluster, fip, netpol, routes, assigned, i, pod, snap, keep, pods, seen,
                   edits, faults>>

\* The OvnEip is created and the answer is lost: to the sweep, it failed.
CreateEipLost ==
    /\ pc = "eip" /\ eip[i] = NoIp /\ Desired(i) # NoIp
    /\ Fault
    /\ eip' = [eip EXCEPT ![i] = Desired(i)]
    /\ blame' = blame \union Raced(i) \union {<<i, "lost">>}
    /\ Advance
    /\ UNCHANGED <<cluster, fip, netpol, routes, assigned, snap, used, keep, pods, seen, edits>>

\* Mutant of Teardown: the FIP is left to the next sweep.
TeardownEip(s) ==
    /\ eip' = [eip EXCEPT ![s] = NoIp]
    /\ UNCHANGED <<fip, faults, blame>>

\* deleteOvnFip and deleteOvnEip, the errors of both ignored.
Teardown(s) ==
    \/ /\ fip' = [fip EXCEPT ![s] = NoPod]
       /\ \/ eip' = [eip EXCEPT ![s] = NoIp] /\ UNCHANGED faults
          \/ eip' = eip /\ Fault
       /\ blame' = blame
    \/ /\ fip[s] # NoPod /\ fip' = fip
       /\ Fault
       /\ eip' = [eip EXCEPT ![s] = NoIp]
       /\ blame' = blame \union {<<s, "kept">>}

\* Another address is asked for: both objects go, the next sweep creates them.
RecreateEip ==
    /\ pc = "eip" /\ eip[i] # NoIp /\ Desired(i) # eip[i]
    /\ Teardown(i)
    /\ Advance
    /\ UNCHANGED <<cluster, netpol, routes, assigned, snap, used, keep, pods, seen, edits>>

\* Mutant of Points: a FIP that is there is taken as it is.
PointsAnywhere(s, p) == fip[s] # NoPod

\* The FIP is at the pod that was picked.
Points(s, p) == fip[s] = p

EnsureFip ==
    /\ pc = "fip" /\ (fip[i] = NoPod \/ Points(i, pod))
    /\ fip' = [fip EXCEPT ![i] = IF @ = NoPod THEN pod ELSE @]
    /\ keep' = keep \union {i}
    /\ pods' = pods \union {<<i, pod>>}
    /\ pc' = "mark"
    /\ UNCHANGED <<cluster, eip, netpol, routes, assigned, i, pod, snap, used, seen,
                   edits, faults, blame>>

\* The OvnFip is created and the answer is lost: to the sweep, it failed.
CreateFipLost ==
    /\ pc = "fip" /\ fip[i] = NoPod
    /\ Fault
    /\ fip' = [fip EXCEPT ![i] = pod]
    /\ Advance
    /\ UNCHANGED <<cluster, eip, netpol, routes, assigned, snap, used, keep, pods, seen, edits,
                   blame>>

\* The FIP is at another pod: it is deleted, whether that fails or not.
RepointFip ==
    /\ pc = "fip" /\ fip[i] # NoPod /\ ~ Points(i, pod)
    /\ \/ fip' = [fip EXCEPT ![i] = NoPod] /\ UNCHANGED <<faults, blame>>
       \/ fip' = fip /\ Fault /\ blame' = blame \union {<<i, "kept">>}
    /\ Advance
    /\ UNCHANGED <<cluster, eip, netpol, routes, assigned, snap, used, keep, pods, seen, edits>>

\* ensureNetpol and the annotation that publishes the address; either may fail.
Mark ==
    /\ pc = "mark"
    /\ \/ netpol' = netpol \union {i} /\ assigned' = [assigned EXCEPT ![i] = eip[i]]
          /\ UNCHANGED faults
       \/ netpol' = netpol /\ assigned' = [assigned EXCEPT ![i] = eip[i]] /\ Fault
       \/ netpol' = netpol \union {i} /\ assigned' = assigned /\ Fault
    /\ Advance
    /\ UNCHANGED <<cluster, eip, fip, routes, snap, used, keep, pods, seen, edits, blame>>

-----------------------------------------------------------------------------
(***************************************************************************)
(* The end of the sweep: gc and reconcilePolicy.                           *)
(***************************************************************************)

\* gc is given the listed OvnEips and wantResource; what else the sweep listed is
\* of no more use.
ServicesDone ==
    /\ pc = "pick" /\ i > Services
    /\ pc' = "gc"
    /\ snap' = [NoSnap EXCEPT !.eips = snap.eips] /\ used' = {}
    /\ UNCHANGED <<cluster, chain, i, pod, keep, pods, seen, edits, faults, blame>>

\* The listed OvnEips of ours that the sweep did not complete.
Stale == snap.eips \ keep

GcEip ==
    /\ pc = "gc"
    /\ \E s \in Stale :
        /\ Teardown(s)
        /\ snap' = [snap EXCEPT !.eips = @ \ {s}]
    /\ UNCHANGED <<cluster, netpol, routes, assigned, pc, i, pod, used, keep, pods, seen, edits>>

GcEipsDone ==
    /\ pc = "gc" /\ Stale = {}
    /\ pc' = "netpols"
    /\ UNCHANGED <<cluster, chain, i, pod, snap, used, keep, pods, seen, edits, faults, blame>>

\* The managed NetworkPolicies are listed and the others removed; the list or
\* a removal may fail.  reconcilePolicy is given wantPodIPs only.
GcNetpols ==
    /\ pc = "netpols"
    /\ \/ netpol' = netpol \intersect keep /\ UNCHANGED faults
       \/ \E s \in netpol \ keep : netpol' = (netpol \intersect keep) \union {s} /\ Fault
       \/ netpol' = netpol /\ Fault
    /\ pc' = "vpc" /\ snap' = NoSnap /\ keep' = {}
    /\ UNCHANGED <<cluster, eip, fip, routes, assigned, i, pod, used, pods, seen, edits, blame>>

GetVpc ==
    /\ pc = "vpc"
    /\ \/ seen' = routes /\ pc' = "patch"
          /\ UNCHANGED <<i, pod, snap, used, keep, pods, faults>>
       \/ Rest /\ Fault
    /\ UNCHANGED <<cluster, chain, edits, blame>>

\* The entries of others stay, ours are one for each wanted pod.
mergePolicyRoutes(existing, ps) == (existing \intersect {Foreign}) \union ps

\* The whole list is replaced when it differs; the patch may fail.
PatchVpc ==
    /\ pc = "patch"
    /\ LET desired == mergePolicyRoutes(seen, pods) IN
        \/ routes' = (IF desired = seen THEN routes ELSE desired) /\ UNCHANGED faults
        \/ desired # seen /\ routes' = routes /\ Fault
    /\ Rest
    /\ UNCHANGED <<cluster, eip, fip, netpol, assigned, edits, blame>>

\* The controller is stopped in the middle of a sweep and started again.
Restart ==
    /\ pc # "idle"
    /\ Fault
    /\ Rest
    /\ UNCHANGED <<cluster, chain, edits, blame>>

-----------------------------------------------------------------------------
Sweep ==
    \/ Start \/ Pass \/ PickEndpoint \/ Exhausted \/ EnsureEip \/ RecreateEip
    \/ EnsureFip \/ RepointFip \/ Mark \/ ServicesDone \/ GcEip \/ GcEipsDone
    \/ GcNetpols \/ GetVpc \/ PatchVpc

Next ==
    \/ \E s \in Svc : Annotate(s) \/ Request(s) \/ PodUp(s) \/ PodDown(s)
    \/ AddForeignRoute \/ \E a \in Taken : TakeAddress(a)
    \/ Sweep
    \/ CallFails \/ CreateEipLost \/ CreateFipLost \/ Restart

\* The ticker starts sweep after sweep, and a sweep goes on to its end.
Spec == Init /\ [][Next]_vars /\ WF_vars(Sweep)

-----------------------------------------------------------------------------
\* Two OvnEips never carry one address: allocate stays clear of everything
\* listed at the start of the sweep and of what the sweep itself gave out.  The
\* exceptions are an address asked for by annotation, which is honoured whoever
\* has it, one that another component took after the list, and a create whose
\* answer was lost.
NoSharedEip ==
    \A s \in Svc : eip[s] # NoIp =>
        /\ eip[s] \in taken => {<<s, "asked">>, <<s, "raced">>} \intersect blame # {}
        /\ \A t \in Svc \ {s} : eip[s] = eip[t] =>
            \E u \in {s, t} : {<<u, "asked">>, <<u, "lost">>} \intersect blame # {}

\* A FIP never outlives the OvnEip it names, wherever a sweep is cut off, unless
\* deleting that FIP failed: gc looks for OvnEips only, so such a FIP stays.
FipHasEip ==
    \A s \in Svc : fip[s] # NoPod => eip[s] # NoIp \/ <<s, "kept">> \in blame

Exposed(s) ==
    /\ eip[s] # NoIp /\ fip[s] = gen[s] /\ s \in netpol
    /\ {r \in routes : r[1] = s} = {<<s, gen[s]>>}
    /\ assigned[s] = eip[s]
    /\ ask[s] \in {NoIp, eip[s]}

TornDown(s) ==
    /\ eip[s] = NoIp /\ s \notin netpol
    /\ {r \in routes : r[1] = s} = {}

\* No address is left in the range for the Service.
Full(s) ==
    /\ ask[s] = NoIp
    /\ Ip \subseteq taken \union {eip[t] : t \in Svc \ {s}}

\* Whatever failed on the way, once annotations, pods and faults come to rest
\* every annotated Service with a pod is exposed on its address at that pod, if
\* the range has one left, and nothing but a FIP that could not be deleted is
\* left of any other.
Settles ==
    \A s \in Svc : <>[](IF s \in want /\ up[s]
                        THEN Exposed(s) \/ (Full(s) /\ TornDown(s))
                        ELSE TornDown(s))
=============================================================================
