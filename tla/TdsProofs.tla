----------------------------- MODULE TdsProofs -----------------------------
(***************************************************************************)
(* The two modes of tds-proxy, for any number of sessions, backends and    *)
(* slots, both on the proofs of the pool they share.                       *)
(*                                                                         *)
(* The default mode keeps its types, conserves the slots of the pool and   *)
(* never shares a backend; without cancels, neither answers nor session    *)
(* state cross from one session to the next.                               *)
(*                                                                         *)
(* The multiplexing mode does the former too, never moves a transaction,   *)
(* leaves none on an idle backend and gives each request the session state *)
(* of its client.                                                          *)
(*                                                                         *)
(* Both implement PoolContract.                                            *)
(***************************************************************************)
EXTENDS TdsSession, TdsTxMultiplex, TdsPoolProofs

-----------------------------------------------------------------------------
(***************************************************************************)
(* The default mode.                                                       *)
(***************************************************************************)

\* A relaying session has a backend; nobody is in a place of the other mode.
RelayHolds ==
    \A s \in Session :
        /\ pc[s] = "relay" => be[s] # NoConn
        /\ pc[s] # "forward"

RelayTypeOK ==
    /\ work \in [Conn -> Seq(Request)] /\ inbox \in [Conn -> Seq(Session)]
    /\ left \in [Conn -> SUBSET Session]
    /\ req \in [Session -> Nat] /\ resp \in [Session -> Nat]
    /\ att \in [Session -> BOOLEAN]
    /\ reset \in [Session -> BOOLEAN] /\ pinned \in [Session -> BOOLEAN]
    /\ real \in [Session -> BOOLEAN] /\ beDone \in [Session -> BOOLEAN]
    /\ cl \in [Session -> {"run", "clean", "unclean"}]
    /\ sel \in [Session -> {"none", "quiet", "client", "backend"}]

Inv == PoolInv /\ RelayHolds /\ RelayTypeOK

\* The inductive invariant holds initially.
LEMMA InvStarts == Init => Inv
PROOF
  <1> SUFFICES ASSUME Init PROVE Inv
    OBVIOUS
  <1>1. PoolInv
    BY PoolStarts DEF Init
  <1>2. RelayHolds
    BY DEF Init, PoolInit, RelayHolds
  <1>3. RelayTypeOK
    BY DEF Init, RelayTypeOK
  <1> QED BY <1>1, <1>2, <1>3 DEF Inv

\* A step of the relay leaves the pool and everybody's place alone.
LEMMA RelayLeavesPool ==
    ASSUME PoolInv, RelayHolds, UNCHANGED poolVars
    PROVE  PoolInv' /\ RelayHolds'
PROOF
  <1>1. PoolTypeOK' /\ PlaceMatches' /\ Holders' = Holders
    BY DEF PoolInv, poolVars, PoolTypeOK, PlaceMatches, Holders
  <1>2. PoolInv'
    BY <1>1, PoolUntouched DEF PoolInv, poolVars
  <1> QED BY <1>2 DEF RelayHolds, poolVars

\* The steps up to the relay and the end of a session.
LEMMA PoolStepsKeepPool ==
    ASSUME Inv, NEW s \in Session,
           Acquire(s) \/ Probe(s) \/ Dial(s) \/ Greet(s) \/ GreetFails(s) \/ Leave(s)
             \/ Finish(s)
    PROVE  PoolInv' /\ RelayHolds'
PROOF
  <1> USE DEF Inv
  <1>1. CASE Acquire(s)
    <2>1. PoolInv'
      BY <1>1, MovesKeepPool, AcquireIdleKeepsPool, AcquireTokenKeepsPool,
         DialFailsKeepsPool DEF Acquire
    <2>2. \E to \in {"acquire", "wait", "probe", "dial", "refused", "done"} :
             pc' = [pc EXCEPT ![s] = to]
      BY <1>1 DEF Acquire, Connect, AcquireIdle, AcquireBlocks, AcquireToken,
                  AcquireTimeout, DialFails, EndWith
    <2>3. \A t \in Session : t # s => be'[t] = be[t]
      BY <1>1 DEF Acquire, Connect, AcquireIdle, AcquireBlocks, AcquireToken,
                  AcquireTimeout, DialFails, EndWith, PoolInv, PoolTypeOK
    <2>4. RelayHolds'
      BY <2>2, <2>3 DEF RelayHolds, PoolInv, PoolTypeOK
    <2> QED BY <2>1, <2>4
  <1>2. CASE Probe(s)
    <2> DEFINE quiet == inbox[be[s]] = <<>>
    <2>1. CASE ProbePasses(s, quiet)
      <3>1. quiet \in BOOLEAN
        OBVIOUS
      <3>2. ProbePasses(s, TRUE) \/ ProbePasses(s, FALSE)
        BY <2>1 DEF ProbePasses
      <3>3. PoolInv'
        BY <3>2, MovesKeepPool
      <3>4. RelayHolds'
        BY <2>1 DEF ProbePasses, RelayHolds, PoolInv, PoolTypeOK
      <3> QED BY <3>3, <3>4
    <2>2. CASE ProbeEvicts(s, quiet)
      <3>1. PoolInv'
        BY <2>2, ProbeEvictsKeepsPool
      <3>2. RelayHolds'
        BY <2>2 DEF ProbeEvicts, RelayHolds, PoolInv, PoolTypeOK
      <3> QED BY <3>1, <3>2
    <2> QED BY <1>2, <2>1, <2>2 DEF Probe
  <1>3. CASE Dial(s)
    <2>1. PICK c \in Conn, r \in {"ok", "error"} : DialAnswered(s, c, r)
      BY <1>3 DEF Dial
    <2>2. pc' = [pc EXCEPT ![s] = "relay"]
      BY <1>3 DEF Dial
    <2>3. PoolInv'
      BY <2>1, <2>2, DialKeepsPool
    <2>4. RelayHolds'
      BY <2>1, <2>2, PoolAssumption DEF DialAnswered, RelayHolds, PoolInv, PoolTypeOK
    <2> QED BY <2>3, <2>4
  <1>4. CASE Greet(s)
    <2>1. /\ pc[s] = "got" /\ pc' = [pc EXCEPT ![s] = "relay"]
          /\ UNCHANGED <<idle, tokens, loginResp, sock, deaths, be, grant, tries, gone>>
      BY <1>4 DEF Greet
    <2>2. be[s] # NoConn
      BY <2>1 DEF PoolInv, PlaceMatches
    <2>3. PoolTypeOK' /\ PlaceMatches' /\ Holders' = Holders
      BY <2>1, <2>2 DEF PoolInv, PoolTypeOK, PlaceMatches, Outside, Holders
    <2>4. PoolInv'
      BY <2>1, <2>3, PoolUntouched
    <2>5. RelayHolds'
      BY <2>1, <2>2 DEF RelayHolds, PoolInv, PoolTypeOK
    <2> QED BY <2>4, <2>5
  <1>5. CASE GreetFails(s)
    <2>1. be[s] # NoConn /\ pc[s] = "got"
      BY <1>5 DEF GreetFails, PoolInv, PlaceMatches
    <2>2. PoolInv'
      BY <1>5, <2>1, EndKeepsPool DEF GreetFails
    <2>3. RelayHolds'
      BY <1>5 DEF GreetFails, EndWith, RelayHolds, PoolInv, PoolTypeOK
    <2> QED BY <2>2, <2>3
  <1>6. CASE Leave(s)
    <2>1. /\ gone' = [gone EXCEPT ![s] = TRUE]
          /\ UNCHANGED <<idle, tokens, loginResp, sock, deaths, pc, be, grant, tries>>
      BY <1>6 DEF Leave
    <2>2. PoolTypeOK' /\ PlaceMatches' /\ Holders' = Holders
      BY <2>1 DEF PoolInv, PoolTypeOK, PlaceMatches, Holders
    <2>3. PoolInv'
      BY <2>1, <2>2, PoolUntouched
    <2> QED BY <2>1, <2>3 DEF RelayHolds
  <1>7. CASE Finish(s)
    <2>1. be[s] # NoConn /\ pc[s] = "relay"
      BY <1>7 DEF Finish, Relaying, RelayHolds
    <2>2. PoolInv'
      BY <1>7, <2>1, EndKeepsPool DEF Finish, EndWith
    <2>3. RelayHolds'
      BY <1>7 DEF Finish, EndWith, RelayHolds, PoolInv, PoolTypeOK
    <2> QED BY <2>2, <2>3
  <1> QED BY <1>1, <1>2, <1>3, <1>4, <1>5, <1>6, <1>7

\* Every step keeps the variables of the relay in their types.
LEMMA RelayTypes ==
    ASSUME Inv, NEW s \in Session,
           Acquire(s) \/ Probe(s) \/ Dial(s) \/ Greet(s) \/ GreetFails(s)
             \/ Forward(s) \/ ForwardFails(s) \/ Attention(s) \/ RelayAnswer(s)
             \/ BackendReaderEnds(s) \/ Leave(s) \/ ClientReaderEnds(s)
             \/ SelectClient(s) \/ SelectBackend(s) \/ Finish(s)
    PROVE  RelayTypeOK'
PROOF
  <1> USE DEF Inv
  <1>1. CASE UNCHANGED relayVars
    BY <1>1 DEF relayVars, RelayTypeOK
  <1>2. CASE Dial(s)
    <2>1. PICK c \in Conn :
             /\ work' = [work EXCEPT ![c] = <<>>]
             /\ inbox' = [inbox EXCEPT ![c] = <<>>]
             /\ left' = [left EXCEPT ![c] = {}]
      BY <1>2 DEF Dial
    <2>2. work' \in [Conn -> Seq(Request)] /\ inbox' \in [Conn -> Seq(Session)]
      BY <2>1 DEF RelayTypeOK
    <2>3. left' \in [Conn -> SUBSET Session]
      BY <2>1 DEF RelayTypeOK
    <2> QED BY <1>2, <2>2, <2>3 DEF Dial, RelayTypeOK
  <1>3. CASE Greet(s)
    BY <1>3 DEF Greet, RelayTypeOK
  <1>4. CASE Forward(s)
    <2>1. PICK k \in Kind :
             /\ work' = [work EXCEPT ![be[s]] =
                           Append(@, [by |-> s, kind |-> k, reset |-> reset[s]])]
             /\ pinned' = [pinned EXCEPT ![s] = @ \/ Pins(k, real[s])]
             /\ real' = [real EXCEPT ![s] = @ \/ k = "plain"]
      BY <1>4 DEF Forward
    <2>2. [by |-> s, kind |-> k, reset |-> reset[s]] \in Request
      BY DEF Request, RelayTypeOK
    <2>3. be[s] \in Conn
      BY <1>4 DEF Forward, Relaying, RelayHolds, PoolInv, PoolTypeOK
    <2>4. work' \in [Conn -> Seq(Request)]
      BY <2>1, <2>2, <2>3 DEF RelayTypeOK
    <2>5. pinned' \in [Session -> BOOLEAN] /\ real' \in [Session -> BOOLEAN]
      BY <2>1, Zenon DEF RelayTypeOK, Pins
    <2> QED BY <1>4, <2>4, <2>5 DEF Forward, RelayTypeOK
  <1>5. CASE ForwardFails(s)
    BY <1>5 DEF ForwardFails, RelayTypeOK
  <1>6. CASE Attention(s)
    <2>1. be[s] \in Conn
      BY <1>6 DEF Attention, Relaying, RelayHolds, PoolInv, PoolTypeOK
    <2>2. inbox' \in [Conn -> Seq(Session)]
      BY <1>6, <2>1 DEF Attention, RelayTypeOK
    <2>3. work' \in [Conn -> Seq(Request)]
      BY <1>6, <2>1 DEF Attention, RelayTypeOK
    <2> QED BY <1>6, <2>2, <2>3 DEF Attention, RelayTypeOK
  <1>7. CASE RelayAnswer(s)
    <2>0. be[s] \in Conn
      BY <1>7 DEF RelayAnswer, Relaying, RelayHolds, PoolInv, PoolTypeOK
    <2>a. /\ inbox[be[s]] # <<>>
          /\ inbox' = [inbox EXCEPT ![be[s]] = Tail(inbox[be[s]])]
          /\ resp' = [resp EXCEPT ![s] = resp[s] + 1] \/ resp' = resp
      BY <1>7 DEF RelayAnswer
    <2>1. inbox' \in [Conn -> Seq(Session)]
      <3>1. inbox[be[s]] \in Seq(Session)
        BY <2>0 DEF RelayTypeOK
      <3>2. Tail(inbox[be[s]]) \in Seq(Session)
        BY <2>a, <3>1
      <3> QED BY <2>a, <3>2 DEF RelayTypeOK
    <2>2. resp' \in [Session -> Nat]
      <3>1. resp \in [Session -> Nat] /\ resp[s] + 1 \in Nat
        BY DEF RelayTypeOK
      <3>2. CASE resp' = resp
        BY <3>1, <3>2
      <3>3. CASE resp' = [resp EXCEPT ![s] = resp[s] + 1]
        BY <3>1, <3>3
      <3> QED BY <2>a, <3>2, <3>3
    <2> QED BY <1>7, <2>1, <2>2 DEF RelayAnswer, RelayTypeOK
  <1>8. CASE BackendReaderEnds(s)
    BY <1>8 DEF BackendReaderEnds, RelayTypeOK
  <1>9. CASE ClientReaderEnds(s)
    BY <1>9 DEF ClientReaderEnds, RelayTypeOK
  <1>10. CASE SelectClient(s) \/ SelectBackend(s)
    BY <1>10 DEF SelectClient, SelectBackend, RelayTypeOK
  <1> QED BY <1>1, <1>2, <1>3, <1>4, <1>5, <1>6, <1>7, <1>8, <1>9, <1>10
          DEF Acquire, Probe, GreetFails, Leave, Finish

\* Every step keeps the inductive invariant.
LEMMA InvHolds == Inv /\ [Next]_vars => Inv'
PROOF
  <1> SUFFICES ASSUME Inv, [Next]_vars PROVE Inv'
    OBVIOUS
  <1>1. ASSUME NEW s \in Session,
               Acquire(s) \/ Probe(s) \/ Dial(s) \/ Greet(s) \/ GreetFails(s)
                 \/ Leave(s) \/ Finish(s)
        PROVE  Inv'
    BY <1>1, PoolStepsKeepPool, RelayTypes DEF Inv
  <1>2. ASSUME NEW s \in Session,
               Forward(s) \/ ForwardFails(s) \/ Attention(s) \/ RelayAnswer(s)
                 \/ BackendReaderEnds(s) \/ ClientReaderEnds(s)
                 \/ SelectClient(s) \/ SelectBackend(s)
        PROVE  Inv'
    <2>1. UNCHANGED poolVars
      BY <1>2 DEF Forward, ForwardFails, Attention, RelayAnswer, BackendReaderEnds,
                  ClientReaderEnds, SelectClient, SelectBackend
    <2>2. PoolInv' /\ RelayHolds'
      BY <2>1, RelayLeavesPool DEF Inv
    <2>3. RelayTypeOK'
      BY <1>2, RelayTypes
    <2> QED BY <2>2, <2>3 DEF Inv
  <1>3. ASSUME NEW c \in Conn, Execute(c) PROVE Inv'
    <2>1. PoolInv' /\ RelayHolds'
      BY <1>3, RelayLeavesPool DEF Execute, Inv
    <2>2. work[c] \in Seq(Request) /\ work[c] # <<>>
      BY <1>3 DEF Execute, Inv, RelayTypeOK
    <2>3. Head(work[c]) \in Request /\ Tail(work[c]) \in Seq(Request)
      BY <2>2
    <2>4. Head(work[c]).by \in Session
      BY <2>3 DEF Request
    <2>5. work' \in [Conn -> Seq(Request)]
      BY <1>3, <2>3 DEF Execute, Inv, RelayTypeOK
    <2>6. inbox' \in [Conn -> Seq(Session)]
      BY <1>3, <2>4 DEF Execute, Inv, RelayTypeOK
    <2>7. left' \in [Conn -> SUBSET Session]
      BY <1>3, <2>4 DEF Execute, Inv, RelayTypeOK
    <2>8. RelayTypeOK'
      BY <1>3, <2>5, <2>6, <2>7 DEF Execute, Inv, RelayTypeOK
    <2> QED BY <2>1, <2>8 DEF Inv
  <1>4. ASSUME NEW c \in Conn, Die(c) PROVE Inv'
    <2>1. PoolInv'
      BY <1>4, DeathKeepsPool DEF Die, Inv
    <2>2. RelayHolds' /\ RelayTypeOK'
      BY <1>4 DEF Die, ConnDies, Inv, RelayHolds, RelayTypeOK, relayVars
    <2> QED BY <2>1, <2>2 DEF Inv
  <1>5. CASE UNCHANGED vars
    <2>1. PoolInv' /\ RelayHolds'
      BY <1>5, RelayLeavesPool DEF vars, Inv
    <2>2. RelayTypeOK'
      BY <1>5 DEF vars, relayVars, Inv, RelayTypeOK
    <2> QED BY <2>1, <2>2 DEF Inv
  <1> QED BY <1>1, <1>2, <1>3, <1>4, <1>5 DEF Next

\* The inductive invariant is an invariant of the specification.
LEMMA InvAlways == Spec => []Inv
PROOF
  BY InvStarts, InvHolds, PTL DEF Spec

-----------------------------------------------------------------------------
\* The type invariant of the default mode, pool and relay, for any constants.
THEOREM SessionTypes == Spec => []TypeOK
PROOF
  <1>1. Inv => TypeOK
    BY DEF Inv, PoolInv, RelayTypeOK, TypeOK
  <1> QED BY <1>1, InvAlways, PTL

\* No path through handle and relaySession, failing ones included, leaks a slot
\* of the pool or issues one too many: the connection ceiling holds.
THEOREM SlotsNeverLeak == Spec => []SlotsConserved
PROOF
  <1>1. Inv => SlotsConserved
    BY DEF Inv, PoolInv
  <1> QED BY <1>1, InvAlways, PTL

\* A backend is never in the hands of two sessions, nor held and idle at once.
THEOREM BackendsNeverShared == Spec => []OneUserPerBackend
PROOF
  <1>1. Inv => OneUserPerBackend
    BY DEF Inv, PoolInv
  <1> QED BY <1>1, InvAlways, PTL

\* Every step of the default mode is a step of the pool's contract, or none.
LEMMA StepsAllowed == Inv /\ [Next]_vars => Allowed
PROOF
  <1> SUFFICES ASSUME Inv, [Next]_vars PROVE Allowed
    OBVIOUS
  <1>0. PoolInv /\ RelayHolds
    BY DEF Inv
  <1>1. ASSUME NEW s \in Session, Acquire(s) PROVE Allowed
    BY <1>0, <1>1, MovesAllowed, AcquireIdleAllowed, AcquireTokenAllowed, DialAllowed
       DEF Acquire
  <1>2. ASSUME NEW s \in Session, Probe(s) PROVE Allowed
    <2>1. \E quiet \in BOOLEAN : ProbePasses(s, quiet) \/ ProbeEvicts(s, quiet)
      BY <1>2 DEF Probe, ProbePasses, ProbeEvicts
    <2> QED BY <1>0, <2>1, MovesAllowed
  <1>3. ASSUME NEW s \in Session, Dial(s) PROVE Allowed
    <2>1. PICK c \in Conn, r \in {"ok", "error"} : DialAnswered(s, c, r)
      BY <1>3 DEF Dial
    <2>2. pc' = [pc EXCEPT ![s] = "relay"]
      BY <1>3 DEF Dial
    <2> QED BY <1>0, <2>1, <2>2, DialAllowed
  <1>4. ASSUME NEW s \in Session, Greet(s) PROVE Allowed
    BY <1>0, <1>4, PlaceAllowed DEF Greet
  <1>5. ASSUME NEW s \in Session, GreetFails(s) \/ Finish(s) PROVE Allowed
    <2>1. /\ be[s] # NoConn /\ pc' = [pc EXCEPT ![s] = "done"]
          /\ be' = [be EXCEPT ![s] = NoConn] /\ (Discard(be[s]) \/ Return(be[s]))
      BY <1>0, <1>5
         DEF GreetFails, Finish, EndWith, Relaying, RelayHolds, PoolInv, PlaceMatches
    <2> QED BY <1>0, <2>1, GiveBackAllowed
  <1>6. ASSUME UNCHANGED <<idle, tokens, pc, be>> PROVE Allowed
    BY <1>6, StutterAllowed DEF Shelf, Reserved, Lent
  <1>7. ASSUME NEW s \in Session,
               Forward(s) \/ ForwardFails(s) \/ Attention(s) \/ RelayAnswer(s)
                 \/ BackendReaderEnds(s) \/ Leave(s) \/ ClientReaderEnds(s)
                 \/ SelectClient(s) \/ SelectBackend(s)
        PROVE  Allowed
    BY <1>6, <1>7 DEF Forward, ForwardFails, Attention, RelayAnswer, BackendReaderEnds,
       Leave, ClientReaderEnds, SelectClient, SelectBackend, poolVars
  <1>8. ASSUME NEW c \in Conn, Execute(c) \/ Die(c) PROVE Allowed
    BY <1>6, <1>8 DEF Execute, Die, ConnDies, poolVars
  <1>9. CASE UNCHANGED vars
    BY <1>6, <1>9 DEF vars, poolVars
  <1> QED BY <1>1, <1>2, <1>3, <1>4, <1>5, <1>7, <1>8, <1>9 DEF Next

\* The default mode keeps the contract of the pool: slots move only as
\* PoolContract says, and a backend changes hands only over the shelf.
THEOREM SessionImplementsPool == Spec => ImplementsPool
PROOF
  <1>1. Init => Contract!Init
    BY ContractStarts DEF Init
  <1>2. Inv /\ [Next]_vars => [Contract!Next]_(Contract!vars)
    BY StepsAllowed DEF Allowed
  <1> QED BY <1>1, <1>2, InvAlways, PTL DEF Spec, ImplementsPool, Contract!Spec

-----------------------------------------------------------------------------
(***************************************************************************)
(* What crosses from one session to the next, when no client cancels.      *)
(***************************************************************************)

\* A backend owes no answer.
Settled(c) == work[c] = <<>> /\ inbox[c] = <<>>

\* A backend that is idle, or borrowed and not used yet, owes nothing.
FreeSettled ==
    /\ \A i \in DOMAIN idle : Settled(idle[i])
    /\ \A s \in Session : pc[s] \in {"probe", "got"} => Settled(be[s])

\* A session that has yet to relay has counted nothing and decided nothing.
Untouched ==
    \A s \in Session : pc[s] \notin {"relay", "done"} =>
        req[s] = 0 /\ resp[s] = 0 /\ sel[s] = "none"

\* The counts of a session differ by at least what its backend owes it; once
\* they agreed on a close, no request follows.
Counted ==
    \A s \in Session : pc[s] = "relay" =>
        /\ resp[s] + Len(work[be[s]]) + Len(inbox[be[s]]) <= req[s]
        /\ sel[s] = "quiet" => req[s] = resp[s] /\ cl[s] # "run"

\* A client waits for its answer: nothing is owed behind something owed.
OneAtATime == \A c \in Conn : Len(work[c]) + Len(inbox[c]) <= 1

\* What another session left is reset by the next request, or by the one the
\* backend is about to carry out.
ResetOnItsWay ==
    \A s \in Session : pc[s] = "relay" =>
        \/ reset[s] \/ left[be[s]] \subseteq {s}
        \/ work[be[s]] # <<>> /\ Head(work[be[s]]).reset

HandOver ==
    /\ FreeSettled /\ Untouched /\ Counted /\ OneAtATime /\ ResetOnItsWay
    /\ OwnAnswersOnly /\ NoForeignState

\* Where a session can be.
Place == {"new", "acquire", "wait", "probe", "dial", "got", "relay", "forward", "refused",
          "done"}

\* A relaying session has a backend that nobody else uses.
LEMMA RelaysAlone ==
    ASSUME Inv, NEW s \in Session, pc[s] = "relay"
    PROVE  /\ be[s] \in Conn
           /\ \A i \in DOMAIN idle : idle[i] # be[s]
           /\ \A t \in Session : t # s => be[t] # be[s]
PROOF
  BY DEF Inv, RelayHolds, PoolInv, PoolTypeOK, OneUserPerBackend

\* A backend that owes nothing has nothing for anybody, one that owes one thing
\* nothing after it.
LEMMA OweSeqs ==
    ASSUME RelayTypeOK, NEW c \in Conn
    PROVE  /\ work[c] \in Seq(Request) /\ inbox[c] \in Seq(Session)
           /\ Len(work[c]) \in Nat /\ Len(inbox[c]) \in Nat
           /\ work[c] # <<>> => Len(work[c]) >= 1
           /\ inbox[c] # <<>> => Len(inbox[c]) >= 1
           /\ Len(work[c]) + Len(inbox[c]) <= 0 => Settled(c)
           /\ Settled(c) => Len(work[c]) = 0 /\ Len(inbox[c]) = 0
PROOF
  <1>1. work[c] \in Seq(Request) /\ inbox[c] \in Seq(Session)
    BY DEF RelayTypeOK
  <1>2. /\ Len(work[c]) \in Nat /\ Len(inbox[c]) \in Nat
        /\ work[c] # <<>> => Len(work[c]) >= 1
        /\ inbox[c] # <<>> => Len(inbox[c]) >= 1
    BY <1>1
  <1>3. \A a, b \in Nat : a + b <= 0 => a = 0 /\ b = 0
    OBVIOUS
  <1>4. Len(work[c]) + Len(inbox[c]) <= 0 => Len(work[c]) = 0 /\ Len(inbox[c]) = 0
    BY <1>2, <1>3
  <1>5. (Len(work[c]) = 0 => work[c] = <<>>) /\ (Len(inbox[c]) = 0 => inbox[c] = <<>>)
    BY <1>1
  <1>6. Len(work[c]) + Len(inbox[c]) <= 0 => Settled(c)
    BY <1>4, <1>5 DEF Settled
  <1>7. Settled(c) => Len(work[c]) = 0 /\ Len(inbox[c]) = 0
    BY DEF Settled
  <1> QED BY <1>1, <1>2, <1>6, <1>7

\* A sequence with an element has a first one, and one with a single element
\* nothing after it.
LEMMA FirstOf ==
    ASSUME NEW S, NEW q \in Seq(S)
    PROVE  /\ q # <<>> => 1 \in DOMAIN q /\ Head(q) = q[1]
           /\ Len(q) = 1 => Tail(q) = <<>>
           /\ Len(q) = 0 => q = <<>>
PROOF
  <1>1. Len(q) \in Nat /\ (q # <<>> => Len(q) >= 1) /\ DOMAIN q = 1 .. Len(q)
    OBVIOUS
  <1>2. q # <<>> => 1 \in DOMAIN q /\ Head(q) = q[1]
    BY <1>1
  <1>3. \A x \in Seq(S) : Len(x) = 0 => x = <<>>
    OBVIOUS
  <1>4. Len(q) = 1 => Tail(q) = <<>>
    <2> SUFFICES ASSUME Len(q) = 1 PROVE Tail(q) = <<>>
      OBVIOUS
    <2>1. q # <<>>
      OBVIOUS
    <2>2. Tail(q) \in Seq(S) /\ Len(Tail(q)) = 0
      BY <2>1
    <2> QED BY <1>3, <2>2
  <1> QED BY <1>2, <1>3, <1>4

\* Two numbers that add up to at most one.
LEMMA AtMostOne ==
    \A a, b \in Nat : a + b <= 1 => (a >= 1 => a = 1 /\ b = 0) /\ (b >= 1 => b = 1 /\ a = 0)
PROOF
  OBVIOUS

\* It holds initially.
LEMMA HandOverStarts == Init => HandOver
PROOF
  <1> SUFFICES ASSUME Init PROVE HandOver
    OBVIOUS
  <1>1. FreeSettled /\ Untouched
    BY DEF Init, PoolInit, FreeSettled, Settled, Untouched
  <1>2. Counted /\ ResetOnItsWay /\ OwnAnswersOnly
    BY DEF Init, PoolInit, Counted, ResetOnItsWay, OwnAnswersOnly, Relaying
  <1>3. OneAtATime /\ NoForeignState
    BY DEF Init, OneAtATime, NoForeignState
  <1> QED BY <1>1, <1>2, <1>3 DEF HandOver

\* Steps that move sessions and backends about but touch no request.
LEMMA Rearranged ==
    ASSUME Inv, HandOver, UNCHANGED <<work, inbox, left, req, resp, reset, cl, sel>>,
           \A i \in DOMAIN idle' : Settled(idle'[i]),
           \A s \in Session : pc'[s] \in {"probe", "got"} => Settled(be'[s]),
           \A s \in Session : pc'[s] \notin {"relay", "done"} => pc[s] \notin {"relay", "done"},
           \A s \in Session : pc'[s] = "relay" => pc[s] = "relay" /\ be'[s] = be[s]
    PROVE  HandOver'
PROOF
  <1>1. FreeSettled'
    BY DEF FreeSettled, Settled
  <1>2. Untouched'
    BY DEF HandOver, Untouched
  <1>3. Counted' /\ OneAtATime' /\ ResetOnItsWay'
    BY DEF HandOver, Counted, OneAtATime, ResetOnItsWay
  <1>4. OwnAnswersOnly'
    BY DEF HandOver, OwnAnswersOnly, Relaying
  <1>5. NoForeignState'
    BY DEF HandOver, NoForeignState
  <1> QED BY <1>1, <1>2, <1>3, <1>4, <1>5 DEF HandOver

\* A backend returned after a quiet close owes nothing.
LEMMA QuietSettled ==
    ASSUME Inv, HandOver, NEW s \in Session, pc[s] = "relay", sel[s] = "quiet"
    PROVE  Settled(be[s])
PROOF
  <1>1. be[s] \in Conn
    BY RelaysAlone
  <1>2. Len(work[be[s]]) \in Nat /\ Len(inbox[be[s]]) \in Nat
    BY <1>1, OweSeqs DEF Inv
  <1>3. resp[s] + Len(work[be[s]]) + Len(inbox[be[s]]) <= req[s] /\ req[s] = resp[s]
    BY DEF HandOver, Counted
  <1>4. req[s] \in Nat /\ resp[s] \in Nat
    BY DEF Inv, RelayTypeOK
  <1>a. \A a, b, r \in Nat : r + a + b <= r => a + b <= 0
    OBVIOUS
  <1>5. Len(work[be[s]]) + Len(inbox[be[s]]) <= 0
    BY <1>2, <1>3, <1>4, <1>a
  <1> QED BY <1>1, <1>5, OweSeqs DEF Inv

\* Borrowing, probing, ending and dying.
LEMMA HandOverElsewhere ==
    ASSUME Inv, HandOver, NEW s \in Session,
           Acquire(s) \/ Probe(s) \/ GreetFails(s) \/ Leave(s) \/ Finish(s)
    PROVE  HandOver'
PROOF
  <1>0. /\ pc \in [Session -> Place] /\ be \in [Session -> Conn \union {NoConn}]
        /\ idle \in Seq(Conn)
    BY DEF Inv, PoolInv, PoolTypeOK, Place
  <1>a. FreeSettled
    BY DEF HandOver
  <1>1. CASE Acquire(s)
    <2>1. UNCHANGED relayVars
      BY <1>1 DEF Acquire
    <2>2. CASE AcquireIdle(s)
      <3>1. /\ idle # <<>> /\ idle' = Tail(idle) /\ pc[s] \in {"acquire", "wait"}
            /\ be' = [be EXCEPT ![s] = Head(idle)] /\ pc' = [pc EXCEPT ![s] = "probe"]
        BY <2>2 DEF AcquireIdle
      <3>2. /\ Settled(Head(idle))
            /\ \A i \in DOMAIN idle' : Settled(idle'[i])
        BY <1>0, <1>a, <3>1 DEF FreeSettled
      <3> QED BY <1>0, <1>a, <2>1, <3>1, <3>2, Rearranged DEF relayVars, FreeSettled
    <2>3. CASE DialFails(s)
      <3>1. /\ pc[s] = "dial" /\ pc' = [pc EXCEPT ![s] = "done"]
            /\ be' = [be EXCEPT ![s] = NoConn] /\ idle' = idle
        BY <2>3 DEF DialFails, EndWith, Discard
      <3> QED BY <1>0, <1>a, <2>1, <3>1, Rearranged DEF relayVars, FreeSettled
    <2>4. CASE Connect(s) \/ AcquireBlocks(s) \/ AcquireToken(s) \/ AcquireTimeout(s)
      <3>1. /\ pc[s] \in {"new", "acquire", "wait"}
            /\ \E to \in {"acquire", "wait", "dial", "refused"} : pc' = [pc EXCEPT ![s] = to]
            /\ UNCHANGED <<be, idle>>
        BY <2>4 DEF Connect, AcquireBlocks, AcquireToken, AcquireTimeout
      <3> QED BY <1>0, <1>a, <2>1, <3>1, Rearranged DEF relayVars, FreeSettled
    <2> QED BY <1>1, <2>2, <2>3, <2>4 DEF Acquire
  <1>2. CASE Probe(s)
    <2>1. /\ pc[s] = "probe" /\ idle' = idle
          /\ \/ pc' = [pc EXCEPT ![s] = "got"] /\ be' = be
             \/ /\ \E to \in {"refused", "acquire"} : pc' = [pc EXCEPT ![s] = to]
                /\ be' = [be EXCEPT ![s] = NoConn]
      BY <1>2 DEF Probe, ProbePasses, ProbeEvicts, Discard
    <2>2. UNCHANGED relayVars
      BY <1>2 DEF Probe
    <2> QED BY <1>0, <1>a, <2>1, <2>2, Rearranged DEF relayVars, FreeSettled
  <1>3. CASE GreetFails(s)
    <2>1. /\ pc[s] = "got" /\ pc' = [pc EXCEPT ![s] = "done"]
          /\ be' = [be EXCEPT ![s] = NoConn] /\ idle' = idle /\ UNCHANGED relayVars
      BY <1>3 DEF GreetFails, EndWith, Discard
    <2> QED BY <1>0, <1>a, <2>1, Rearranged DEF relayVars, FreeSettled
  <1>4. CASE Leave(s)
    <2>1. UNCHANGED <<pc, be, idle, relayVars>>
      BY <1>4 DEF Leave
    <2> QED BY <1>a, <2>1, Rearranged DEF relayVars, FreeSettled
  <1>5. CASE Finish(s)
    <2>1. /\ pc[s] = "relay" /\ pc' = [pc EXCEPT ![s] = "done"]
          /\ be' = [be EXCEPT ![s] = NoConn] /\ UNCHANGED relayVars
          /\ \/ idle' = idle
             \/ sel[s] = "quiet" /\ idle' = Append(idle, be[s])
      BY <1>5 DEF Finish, EndWith, Relaying, Return, Discard
    <2>2. \A i \in DOMAIN idle' : Settled(idle'[i])
      <3>1. CASE idle' = idle
        BY <1>a, <3>1 DEF FreeSettled
      <3>2. CASE sel[s] = "quiet" /\ idle' = Append(idle, be[s])
        <4>1. Settled(be[s]) /\ be[s] \in Conn
          BY <2>1, <3>2, QuietSettled, RelaysAlone
        <4>2. \A i \in DOMAIN idle' : (i \in DOMAIN idle /\ idle'[i] = idle[i]) \/ idle'[i] = be[s]
          BY <1>0, <3>2, <4>1
        <4> QED BY <1>a, <4>1, <4>2 DEF FreeSettled
      <3> QED BY <2>1, <3>1, <3>2
    <2> QED BY <1>0, <1>a, <2>1, <2>2, Rearranged DEF relayVars, FreeSettled
  <1> QED BY <1>1, <1>2, <1>3, <1>4, <1>5

\* A new backend owes nothing and carries nobody's state.
LEMMA HandOverDials ==
    ASSUME Inv, Inv', HandOver, NEW s \in Session, Dial(s)
    PROVE  HandOver'
PROOF
  <1>1. PICK c \in Conn :
          /\ sock[c] = "closed" /\ be' = [be EXCEPT ![s] = c]
          /\ work' = [work EXCEPT ![c] = <<>>] /\ inbox' = [inbox EXCEPT ![c] = <<>>]
          /\ left' = [left EXCEPT ![c] = {}]
    BY DEF Dial, DialAnswered
  <1>2. /\ pc[s] = "dial" /\ pc' = [pc EXCEPT ![s] = "relay"]
        /\ UNCHANGED <<idle, req, resp, att, reset, pinned, real, cl, beDone, sel>>
    BY DEF Dial, DialAnswered
  <1>3. /\ pc \in [Session -> Place] /\ be \in [Session -> Conn \union {NoConn}]
        /\ work \in [Conn -> Seq(Request)] /\ inbox \in [Conn -> Seq(Session)]
        /\ left \in [Conn -> SUBSET Session] /\ req \in [Session -> Nat]
    BY DEF Inv, PoolInv, PoolTypeOK, RelayTypeOK, Place
  <1>4. /\ pc'[s] = "relay" /\ be'[s] = c
        /\ \A t \in Session \ {s} : pc'[t] = pc[t] /\ be'[t] = be[t]
        /\ work'[c] = <<>> /\ inbox'[c] = <<>> /\ left'[c] = {}
        /\ \A d \in Conn \ {c} : work'[d] = work[d] /\ inbox'[d] = inbox[d] /\ left'[d] = left[d]
    BY <1>1, <1>2, <1>3
  <1>5. /\ \A t \in Session \ {s} : be[t] # c
        /\ \A i \in DOMAIN idle : idle[i] \in Conn \ {c}
        /\ \A t \in Session \ {s} : be[t] # NoConn => be[t] \in Conn \ {c}
        /\ \A t \in Session : pc[t] \in {"probe", "got", "relay"} => be[t] # NoConn
    BY <1>1, <1>3, PoolAssumption
       DEF Inv, PoolInv, PoolTypeOK, OneUserPerBackend, PlaceMatches, RelayHolds
  <1>6. FreeSettled'
    BY <1>2, <1>4, <1>5 DEF HandOver, FreeSettled, Settled
  <1>7. Untouched'
    BY <1>2, <1>4 DEF HandOver, Untouched
  <1>8. Counted'
    <2>1. Len(work'[c]) = 0 /\ Len(inbox'[c]) = 0
      BY <1>4
    <2>2. req[s] = 0 /\ resp[s] = 0 /\ sel[s] = "none"
      BY <1>2 DEF HandOver, Untouched
    <2>3. resp[s] + Len(work'[c]) + Len(inbox'[c]) <= req[s]
      BY <2>1, <2>2
    <2>4. \A t \in Session \ {s} : pc[t] = "relay" =>
             /\ resp[t] + Len(work'[be[t]]) + Len(inbox'[be[t]]) <= req[t]
             /\ sel[t] = "quiet" => req[t] = resp[t] /\ cl[t] # "run"
      BY <1>4, <1>5 DEF HandOver, Counted
    <2> QED BY <1>2, <1>4, <2>2, <2>3, <2>4 DEF Counted
  <1>9. OneAtATime'
    <2>1. Len(work'[c]) = 0 /\ Len(inbox'[c]) = 0
      BY <1>4
    <2>2. Len(work'[c]) + Len(inbox'[c]) <= 1
      BY <2>1
    <2> QED BY <1>4, <2>2 DEF HandOver, OneAtATime
  <1>10. ResetOnItsWay'
    BY <1>2, <1>4, <1>5 DEF HandOver, ResetOnItsWay
  <1>11. OwnAnswersOnly'
    BY <1>2, <1>4, <1>5 DEF HandOver, OwnAnswersOnly, Relaying
  <1>12. NoForeignState'
    BY <1>4 DEF HandOver, NoForeignState
  <1> QED BY <1>6, <1>7, <1>8, <1>9, <1>10, <1>11, <1>12 DEF HandOver

\* A warm backend is settled when its new session starts; its reset is pending.
LEMMA HandOverGreets ==
    ASSUME Inv, HandOver, NEW s \in Session, Greet(s)
    PROVE  HandOver'
PROOF
  <1>1. /\ pc[s] = "got" /\ pc' = [pc EXCEPT ![s] = "relay"]
        /\ reset' = [reset EXCEPT ![s] = TRUE]
        /\ UNCHANGED <<idle, be, work, inbox, left, req, resp, cl, sel>>
    BY DEF Greet
  <1>2. /\ pc \in [Session -> Place] /\ reset \in [Session -> BOOLEAN]
        /\ be \in [Session -> Conn \union {NoConn}] /\ be[s] # NoConn
        /\ req \in [Session -> Nat] /\ resp \in [Session -> Nat]
    BY <1>1 DEF Inv, PoolInv, PoolTypeOK, RelayTypeOK, PlaceMatches, Place
  <1>3. Settled(be[s])
    BY <1>1 DEF HandOver, FreeSettled
  <1>4. FreeSettled' /\ Untouched'
    BY <1>1, <1>2 DEF HandOver, FreeSettled, Settled, Untouched
  <1>5. Counted'
    <2>1. req[s] = 0 /\ resp[s] = 0 /\ sel[s] = "none"
      BY <1>1 DEF HandOver, Untouched
    <2>2. Len(work[be[s]]) = 0 /\ Len(inbox[be[s]]) = 0
      BY <1>2, <1>3, OweSeqs DEF Inv
    <2>3. resp[s] + Len(work[be[s]]) + Len(inbox[be[s]]) <= req[s]
      BY <2>1, <2>2
    <2> QED BY <1>1, <1>2, <2>1, <2>3 DEF HandOver, Counted
  <1>6. OneAtATime' /\ NoForeignState'
    BY <1>1 DEF HandOver, OneAtATime, NoForeignState
  <1>7. ResetOnItsWay'
    BY <1>1, <1>2 DEF HandOver, ResetOnItsWay
  <1>8. OwnAnswersOnly'
    BY <1>1, <1>2, <1>3 DEF HandOver, OwnAnswersOnly, Relaying, Settled
  <1> QED BY <1>4, <1>5, <1>6, <1>7, <1>8 DEF HandOver

\* The ends of the two goroutines and the branch of the select.
LEMMA HandOverCloses ==
    ASSUME Inv, HandOver, NEW s \in Session,
           ForwardFails(s) \/ BackendReaderEnds(s) \/ ClientReaderEnds(s)
             \/ SelectClient(s) \/ SelectBackend(s)
    PROVE  HandOver'
PROOF
  <1>1. UNCHANGED <<pc, be, idle, work, inbox, left, req, resp, reset>>
    BY DEF ForwardFails, BackendReaderEnds, ClientReaderEnds, SelectClient, SelectBackend,
           poolVars
  <1>2. /\ pc[s] = "relay"
        /\ \A t \in Session \ {s} : sel'[t] = sel[t] /\ cl'[t] = cl[t]
    BY DEF ForwardFails, BackendReaderEnds, ClientReaderEnds, SelectClient, SelectBackend,
           Relaying, Inv, RelayTypeOK
  <1>3. sel'[s] = "quiet" => sel[s] = "quiet" \/ (req[s] = resp[s] /\ cl[s] # "run")
    <2>1. sel \in [Session -> {"none", "quiet", "client", "backend"}]
      BY DEF Inv, RelayTypeOK
    <2>2. CASE SelectClient(s)
      <3>1. cl[s] # "run" /\ sel'[s] = IF cl[s] = "clean" /\ req[s] = resp[s]
                                       THEN "quiet" ELSE "client"
        BY <2>1, <2>2 DEF SelectClient
      <3> QED BY <3>1
    <2>3. CASE SelectBackend(s)
      BY <2>1, <2>3 DEF SelectBackend
    <2>4. CASE sel' = sel
      BY <2>4
    <2> QED BY <2>2, <2>3, <2>4 DEF ForwardFails, BackendReaderEnds, ClientReaderEnds
  <1>4. cl[s] # "run" => cl'[s] # "run"
    BY DEF ForwardFails, BackendReaderEnds, ClientReaderEnds, SelectClient, SelectBackend
  <1>5. FreeSettled' /\ OneAtATime' /\ ResetOnItsWay' /\ NoForeignState'
    BY <1>1 DEF HandOver, FreeSettled, Settled, OneAtATime, ResetOnItsWay, NoForeignState
  <1>6. Untouched'
    BY <1>1, <1>2 DEF HandOver, Untouched
  <1>7. Counted'
    BY <1>1, <1>2, <1>3, <1>4 DEF HandOver, Counted
  <1>8. OwnAnswersOnly'
    BY <1>1 DEF HandOver, OwnAnswersOnly, Relaying
  <1> QED BY <1>5, <1>6, <1>7, <1>8 DEF HandOver

\* Only the backend of a relaying session changes: the others stay as settled,
\* as owned and as counted as they were.
LEMMA OthersStay ==
    ASSUME Inv, Inv', HandOver, NEW s \in Session, pc[s] = "relay",
           UNCHANGED <<pc, be, idle, cl, sel>>,
           \A d \in Conn \ {be[s]} : work'[d] = work[d] /\ inbox'[d] = inbox[d] /\ left'[d] = left[d],
           \A t \in Session \ {s} : /\ req'[t] = req[t] /\ resp'[t] = resp[t]
                                    /\ reset'[t] = reset[t],
           Len(work'[be[s]]) + Len(inbox'[be[s]]) <= 1,
           resp'[s] + Len(work'[be[s]]) + Len(inbox'[be[s]]) <= req'[s],
           sel[s] = "quiet" => req'[s] = resp'[s] /\ cl[s] # "run",
           \A i \in DOMAIN inbox'[be[s]] : inbox'[be[s]][i] = s,
           \A i \in DOMAIN work'[be[s]] : work'[be[s]][i].by = s,
           work'[be[s]] # <<>> => Head(work'[be[s]]).reset \/ left'[be[s]] \subseteq {s},
           reset'[s] \/ left'[be[s]] \subseteq {s} \/ (work'[be[s]] # <<>> /\ Head(work'[be[s]]).reset)
    PROVE  HandOver'
PROOF
  <1>0. /\ be[s] \in Conn
        /\ \A i \in DOMAIN idle : idle[i] \in Conn \ {be[s]}
        /\ \A t \in Session \ {s} : be[t] # NoConn => be[t] \in Conn \ {be[s]}
        /\ \A t \in Session : pc[t] \in {"probe", "got", "relay"} => be[t] # NoConn
    BY RelaysAlone DEF Inv, PoolInv, PoolTypeOK, PlaceMatches, RelayHolds
  <1>1. FreeSettled'
    BY <1>0 DEF HandOver, FreeSettled, Settled
  <1>2. Untouched'
    BY DEF HandOver, Untouched
  <1>3. Counted'
    BY <1>0 DEF HandOver, Counted
  <1>4. OneAtATime'
    BY <1>0 DEF HandOver, OneAtATime
  <1>5. ResetOnItsWay'
    BY <1>0 DEF HandOver, ResetOnItsWay
  <1>6. OwnAnswersOnly'
    <2> SUFFICES ASSUME NEW t \in Session, pc[t] = "relay"
                 PROVE  /\ \A i \in DOMAIN inbox'[be[t]] : inbox'[be[t]][i] = t
                        /\ \A i \in DOMAIN work'[be[t]] : work'[be[t]][i].by = t
      BY DEF OwnAnswersOnly, Relaying
    <2>1. CASE t = s
      BY <2>1
    <2>2. CASE t # s
      <3>1. be[t] \in Conn \ {be[s]}
        BY <1>0, <2>2
      <3>2. /\ \A i \in DOMAIN inbox[be[t]] : inbox[be[t]][i] = t
            /\ \A i \in DOMAIN work[be[t]] : work[be[t]][i].by = t
        BY DEF HandOver, OwnAnswersOnly, Relaying
      <3>3. work'[be[t]] = work[be[t]] /\ inbox'[be[t]] = inbox[be[t]]
        BY <3>1
      <3> QED BY <3>2, <3>3
    <2> QED BY <2>1, <2>2
  <1>7. NoForeignState'
    <2> SUFFICES ASSUME NEW d \in Conn, work'[d] # <<>>
                 PROVE  Head(work'[d]).reset \/ left'[d] \subseteq {Head(work'[d]).by}
      BY DEF NoForeignState
    <2>1. CASE d = be[s]
      <3>1. work'[be[s]] \in Seq(Request)
        BY <1>0 DEF Inv, RelayTypeOK
      <3>2. Head(work'[be[s]]) = work'[be[s]][1] /\ 1 \in DOMAIN work'[be[s]]
        BY <2>1, <3>1
      <3> QED BY <2>1, <3>2
    <2>2. CASE d # be[s]
      BY <2>2 DEF HandOver, NoForeignState
    <2> QED BY <2>1, <2>2
  <1> QED BY <1>1, <1>2, <1>3, <1>4, <1>5, <1>6, <1>7 DEF HandOver

\* A request goes to a backend that owes nothing, and carries the pending reset.
LEMMA HandOverForwards ==
    ASSUME Inv, Inv', HandOver, NEW s \in Session, Forward(s)
    PROVE  HandOver'
PROOF
  <1> DEFINE c == be[s]
  <1>1. /\ pc[s] = "relay" /\ cl[s] = "run" /\ sel[s] = "none" /\ ~ Awaits(s)
        /\ req' = [req EXCEPT ![s] = req[s] + 1] /\ reset' = [reset EXCEPT ![s] = FALSE]
        /\ UNCHANGED <<pc, be, idle, inbox, left, resp, cl, sel>>
    BY DEF Forward, Relaying, poolVars
  <1>2. PICK k \in Kind :
          work' = [work EXCEPT ![c] = Append(work[c], [by |-> s, kind |-> k, reset |-> reset[s]])]
    BY DEF Forward
  <1>3. c \in Conn
    BY <1>1, RelaysAlone
  <1>4. work[c] \in Seq(Request) /\ inbox[c] \in Seq(Session)
    BY <1>3, OweSeqs DEF Inv
  <1>5. work[c] = <<>> /\ inbox[c] = <<>>
    <2>1. /\ \A i \in DOMAIN inbox[c] : inbox[c][i] = s
          /\ \A i \in DOMAIN work[c] : work[c][i].by = s
      BY <1>1 DEF HandOver, OwnAnswersOnly, Relaying
    <2>2. 1 \notin DOMAIN inbox[c] /\ 1 \notin DOMAIN work[c]
      BY <1>1, <2>1 DEF Awaits
    <2> QED BY <1>4, <2>2, FirstOf
  <1> DEFINE r == [by |-> s, kind |-> k, reset |-> reset[s]]
  <1>6. work'[c] = <<r>> /\ \A d \in Conn \ {c} : work'[d] = work[d]
    BY <1>2, <1>3, <1>5 DEF Inv, RelayTypeOK
  <1>7. /\ Len(work'[c]) = 1 /\ Len(inbox'[c]) = 0
        /\ Head(work'[c]).reset = reset[s] /\ work'[c] # <<>>
        /\ \A i \in DOMAIN work'[c] : work'[c][i].by = s
        /\ \A i \in DOMAIN inbox'[c] : inbox'[c][i] = s
    BY <1>1, <1>5, <1>6
  <1>8. /\ req'[s] = req[s] + 1 /\ resp'[s] = resp[s]
        /\ req[s] \in Nat /\ resp[s] \in Nat
        /\ \A t \in Session \ {s} : req'[t] = req[t] /\ reset'[t] = reset[t]
    BY <1>1 DEF Inv, RelayTypeOK
  <1>9. resp[s] <= req[s]
    <2>1. resp[s] + Len(work[c]) + Len(inbox[c]) <= req[s]
      BY <1>1 DEF HandOver, Counted
    <2>2. Len(work[c]) = 0 /\ Len(inbox[c]) = 0
      BY <1>5
    <2> QED BY <1>8, <2>1, <2>2
  <1>10. /\ Len(work'[c]) + Len(inbox'[c]) <= 1
         /\ resp'[s] + Len(work'[c]) + Len(inbox'[c]) <= req'[s]
    <2>1. \A a, b \in Nat : a <= b => 1 + 0 <= 1 /\ a + 1 + 0 <= b + 1
      OBVIOUS
    <2> QED BY <1>7, <1>8, <1>9, <2>1
  <1>11. reset[s] \/ left[c] \subseteq {s}
    BY <1>1, <1>5 DEF HandOver, ResetOnItsWay
  <1> QED BY <1>1, <1>6, <1>7, <1>8, <1>10, <1>11, OthersStay

\* An answer is taken from the socket and counted, or lost with the client.
LEMMA HandOverAnswers ==
    ASSUME Inv, Inv', HandOver, NEW s \in Session, RelayAnswer(s)
    PROVE  HandOver'
PROOF
  <1> DEFINE c == be[s]
  <1>1. /\ pc[s] = "relay" /\ sel[s] # "quiet" /\ inbox[c] # <<>>
        /\ inbox' = [inbox EXCEPT ![c] = Tail(inbox[c])]
        /\ resp' = [resp EXCEPT ![s] = resp[s] + 1] \/ resp' = resp
        /\ UNCHANGED <<pc, be, idle, work, left, req, reset, cl, sel>>
    BY DEF RelayAnswer, Relaying, poolVars
  <1>2. c \in Conn
    BY <1>1, RelaysAlone
  <1>3. /\ work[c] \in Seq(Request) /\ inbox[c] \in Seq(Session)
        /\ Len(work[c]) \in Nat /\ Len(inbox[c]) \in Nat /\ Len(inbox[c]) >= 1
    BY <1>1, <1>2, OweSeqs DEF Inv
  <1>4. inbox'[c] = Tail(inbox[c]) /\ \A d \in Conn \ {c} : inbox'[d] = inbox[d]
    BY <1>1, <1>2 DEF Inv, RelayTypeOK
  <1>5. Len(work[c]) + Len(inbox[c]) <= 1
    BY <1>2 DEF HandOver, OneAtATime
  <1>6. Len(work[c]) = 0 /\ Len(inbox[c]) = 1
    BY <1>3, <1>5, AtMostOne
  <1>7. work'[c] = <<>> /\ inbox'[c] = <<>>
    BY <1>1, <1>3, <1>4, <1>6, FirstOf
  <1>8. Len(work'[c]) = 0 /\ Len(inbox'[c]) = 0
    BY <1>7
  <1>9. /\ req[s] \in Nat /\ resp[s] \in Nat /\ resp'[s] \in {resp[s], resp[s] + 1}
        /\ \A t \in Session \ {s} : resp'[t] = resp[t]
    BY <1>1 DEF Inv, RelayTypeOK
  <1>10. resp[s] + 1 <= req[s]
    <2>1. resp[s] + Len(work[c]) + Len(inbox[c]) <= req[s]
      BY <1>1 DEF HandOver, Counted
    <2> QED BY <1>6, <1>9, <2>1
  <1>11. /\ Len(work'[c]) + Len(inbox'[c]) <= 1
         /\ resp'[s] + Len(work'[c]) + Len(inbox'[c]) <= req'[s]
    <2>1. \A a, b \in Nat : a + 1 <= b => a + 0 + 0 <= b /\ (a + 1) + 0 + 0 <= b
      OBVIOUS
    <2>2. req'[s] = req[s]
      BY <1>1
    <2> QED BY <1>8, <1>9, <1>10, <2>1, <2>2
  <1>12. reset[s] \/ left[c] \subseteq {s}
    BY <1>1, <1>7 DEF HandOver, ResetOnItsWay
  <1>13. /\ \A d \in Conn \ {c} : work'[d] = work[d] /\ inbox'[d] = inbox[d] /\ left'[d] = left[d]
         /\ \A t \in Session \ {s} : req'[t] = req[t] /\ resp'[t] = resp[t] /\ reset'[t] = reset[t]
    BY <1>1, <1>4, <1>9
  <1>14. /\ \A i \in DOMAIN inbox'[c] : inbox'[c][i] = s
         /\ \A i \in DOMAIN work'[c] : work'[c][i].by = s
    BY <1>7
  <1>15. reset'[s] \/ left'[c] \subseteq {s}
    BY <1>1, <1>12
  <1> HIDE DEF c
  <1> QED BY <1>1, <1>7, <1>11, <1>13, <1>14, <1>15, OthersStay DEF c

\* The backend carries out the one request it has, on top of nothing but what the
\* same session left.
LEMMA HandOverExecutes ==
    ASSUME Inv, Inv', HandOver, NEW c \in Conn, Execute(c)
    PROVE  HandOver'
PROOF
  <1> DEFINE r == Head(work[c])
  <1>1. /\ work[c] # <<>> /\ work' = [work EXCEPT ![c] = Tail(work[c])]
        /\ inbox' = [inbox EXCEPT ![c] = Append(inbox[c], r.by)]
        /\ left' = [left EXCEPT ![c] = (IF r.reset THEN {} ELSE left[c]) \union
                                       (IF r.kind \in {"set", "state"} THEN {r.by} ELSE {})]
        /\ UNCHANGED <<pc, be, idle, req, resp, reset, cl, sel>>
    BY DEF Execute, poolVars
  <1>2. /\ work[c] \in Seq(Request) /\ inbox[c] \in Seq(Session)
        /\ Len(work[c]) \in Nat /\ Len(inbox[c]) \in Nat /\ Len(work[c]) >= 1
    BY <1>1, OweSeqs DEF Inv
  <1>3. Len(work[c]) + Len(inbox[c]) <= 1
    BY DEF HandOver, OneAtATime
  <1>4. Len(work[c]) = 1 /\ Len(inbox[c]) = 0
    BY <1>2, <1>3, AtMostOne
  <1>5. /\ work'[c] = Tail(work[c]) /\ inbox'[c] = Append(inbox[c], r.by)
        /\ \A d \in Conn \ {c} : work'[d] = work[d] /\ inbox'[d] = inbox[d] /\ left'[d] = left[d]
    BY <1>1 DEF Inv, RelayTypeOK
  <1>6. work'[c] = <<>> /\ inbox'[c] = <<r.by>>
    <2>1. inbox[c] = <<>> /\ Tail(work[c]) = <<>>
      BY <1>2, <1>4, FirstOf
    <2> QED BY <1>5, <2>1
  <1>7. Len(work'[c]) = 0 /\ Len(inbox'[c]) = 1
    BY <1>6
  <1>8. r.reset \/ left[c] \subseteq {r.by}
    BY <1>1 DEF HandOver, NoForeignState
  <1>9. left'[c] \subseteq {r.by}
    <2>1. left'[c] = (IF r.reset THEN {} ELSE left[c]) \union
                     (IF r.kind \in {"set", "state"} THEN {r.by} ELSE {})
      BY <1>1 DEF Inv, RelayTypeOK
    <2> QED BY <1>8, <2>1
  <1>10. Len(work'[c]) + Len(inbox'[c]) <= 1
    BY <1>7
  <1>11. ASSUME NEW s \in Session, pc[s] = "relay", be[s] = c PROVE HandOver'
    <2>1. r.by = s
      <3>1. \A i \in DOMAIN work[c] : work[c][i].by = s
        BY <1>11 DEF HandOver, OwnAnswersOnly, Relaying
      <3>2. r = work[c][1] /\ 1 \in DOMAIN work[c]
        BY <1>1, <1>2, FirstOf
      <3> QED BY <3>1, <3>2
    <2>2. resp'[s] + Len(work'[c]) + Len(inbox'[c]) <= req'[s]
      <3>1. resp[s] + Len(work[c]) + Len(inbox[c]) <= req[s]
        BY <1>11 DEF HandOver, Counted
      <3>2. req[s] \in Nat /\ resp[s] \in Nat /\ req'[s] = req[s] /\ resp'[s] = resp[s]
        BY <1>1 DEF Inv, RelayTypeOK
      <3>3. \A a, b \in Nat : a + 1 + 0 <= b => a + 0 + 1 <= b
        OBVIOUS
      <3> QED BY <1>4, <1>7, <3>1, <3>2, <3>3
    <2>3. /\ \A i \in DOMAIN inbox'[c] : inbox'[c][i] = s
          /\ \A i \in DOMAIN work'[c] : work'[c][i].by = s
      BY <1>6, <2>1
    <2>4. sel[s] = "quiet" => req'[s] = resp'[s] /\ cl[s] # "run"
      BY <1>1, <1>11 DEF HandOver, Counted
    <2>5. /\ UNCHANGED <<pc, be, idle, cl, sel>>
          /\ \A t \in Session \ {s} : req'[t] = req[t] /\ resp'[t] = resp[t] /\ reset'[t] = reset[t]
          /\ left'[c] \subseteq {s} /\ work'[c] = <<>>
      BY <1>1, <1>6, <1>9, <2>1
    <2> HIDE DEF r
    <2> QED BY <1>5, <1>10, <1>11, <2>2, <2>3, <2>4, <2>5, OthersStay
  <1>12. ASSUME \A s \in Session : pc[s] = "relay" => be[s] # c PROVE HandOver'
    <2>1. /\ \A i \in DOMAIN idle : idle[i] \in Conn \ {c}
          /\ \A s \in Session : pc[s] \in {"probe", "got"} => be[s] \in Conn \ {c}
          /\ \A s \in Session : pc[s] = "relay" => be[s] \in Conn \ {c}
      BY <1>1, <1>12
         DEF HandOver, FreeSettled, Settled, Inv, PoolInv, PoolTypeOK, PlaceMatches, RelayHolds
    <2>2. FreeSettled' /\ Untouched'
      BY <1>1, <1>5, <2>1 DEF HandOver, FreeSettled, Settled, Untouched
    <2>3. Counted'
      BY <1>1, <1>5, <2>1 DEF HandOver, Counted
    <2>4. OneAtATime'
      BY <1>5, <1>10 DEF HandOver, OneAtATime
    <2>5. ResetOnItsWay'
      BY <1>1, <1>5, <2>1 DEF HandOver, ResetOnItsWay
    <2>6. OwnAnswersOnly'
      <3> SUFFICES ASSUME NEW t \in Session, pc[t] = "relay"
                   PROVE  /\ \A i \in DOMAIN inbox'[be[t]] : inbox'[be[t]][i] = t
                          /\ \A i \in DOMAIN work'[be[t]] : work'[be[t]][i].by = t
        BY <1>1 DEF OwnAnswersOnly, Relaying
      <3>1. /\ \A i \in DOMAIN inbox[be[t]] : inbox[be[t]][i] = t
            /\ \A i \in DOMAIN work[be[t]] : work[be[t]][i].by = t
        BY DEF HandOver, OwnAnswersOnly, Relaying
      <3>2. work'[be[t]] = work[be[t]] /\ inbox'[be[t]] = inbox[be[t]]
        BY <1>5, <2>1
      <3> QED BY <3>1, <3>2
    <2>7. NoForeignState'
      BY <1>5, <1>6 DEF HandOver, NoForeignState
    <2> QED BY <2>2, <2>3, <2>4, <2>5, <2>6, <2>7 DEF HandOver
  <1> QED BY <1>11, <1>12

\* Every step keeps it, ATTENTION aside.
LEMMA HandOverHolds ==
    ASSUME ~ Cancels, Inv, Inv', HandOver, [Next]_vars
    PROVE  HandOver'
PROOF
  <1>1. ASSUME UNCHANGED <<pc, be, idle, relayVars>> PROVE HandOver'
    BY <1>1, Rearranged DEF relayVars, HandOver, FreeSettled
  <1>2. ASSUME NEW s \in Session, Attention(s) PROVE HandOver'
    BY <1>2 DEF Attention
  <1>3. ASSUME NEW c \in Conn, Die(c) PROVE HandOver'
    BY <1>1, <1>3 DEF Die, ConnDies
  <1>4. CASE UNCHANGED vars
    BY <1>1, <1>4 DEF vars, poolVars
  <1> QED BY <1>2, <1>3, <1>4, HandOverElsewhere, HandOverDials, HandOverGreets,
             HandOverForwards, HandOverAnswers, HandOverCloses, HandOverExecutes DEF Next

\* It is an invariant of the specification when no client cancels.
LEMMA HandOverAlways == ASSUME ~ Cancels PROVE Spec => []HandOver
PROOF
  <1>1. Inv /\ Inv' /\ HandOver /\ [Next]_vars => HandOver'
    BY HandOverHolds
  <1> QED BY <1>1, HandOverStarts, InvAlways, PTL DEF Spec

\* As long as no client sends ATTENTION, a session reads only the answers to its
\* own requests, however clients leave and backends die in the middle of one: the
\* comparison of reqCount and respCount lets a backend back into the pool only
\* when it owes nothing.
THEOREM AnswersStayWithTheirSession == ASSUME ~ Cancels PROVE Spec => []OwnAnswersOnly
PROOF
  <1>1. HandOver => OwnAnswersOnly
    BY DEF HandOver
  <1> QED BY <1>1, HandOverAlways, PTL

\* As long as no client sends ATTENTION, no request is carried out on top of what
\* another session left on its backend: RESETCONNECTION goes with the first
\* request of every session that was given a used one.
THEOREM StateStaysWithItsSession == ASSUME ~ Cancels PROVE Spec => []NoForeignState
PROOF
  <1>1. HandOver => NoForeignState
    BY DEF HandOver
  <1> QED BY <1>1, HandOverAlways, PTL

-----------------------------------------------------------------------------
(***************************************************************************)
(* The multiplexing mode.                                                  *)
(***************************************************************************)

Borrowing == {"acquire", "wait", "probe", "dial", "got"}
Relays(s) == pc[s] \in {"relay", "forward"}

\* Nothing has been asked yet.
TxUntouched(s) ==
    /\ ~ sent[s] /\ txns[s] = 0 /\ depth[s] = 0 /\ s \notin torn
    /\ own[s] = {} /\ ~ sticky[s] /\ ~ prelude[s]

\* A session that may swap its backend.
Swappable(s) ==
    sawReal[s] /\ ~ sticky[s] /\ depth[s] = 0 /\ (s \notin torn => txns[s] = 0)

\* Until the session is sticky, txnDepth is at least the number of transactions
\* the client has open, unless a rollback to a savepoint has reset it.
Tracked(s) ==
    /\ s \notin torn /\ ~ sticky[s] => txns[s] <= depth[s]
    /\ asks[s] # "none" =>
          Nested(asks[s], txns[s]) <= MaxDepth /\ Held(asks[s], depth[s]) <= MaxDepth

\* Where a session is says what it has done so far.
Placed(s) ==
    /\ pc[s] \in {"new", "relay"} => asks[s] = "none"
    /\ pc[s] = "forward" => asks[s] # "none"
    /\ pc[s] = "new" \/ (pc[s] \in Borrowing /\ asks[s] = "none") => TxUntouched(s)
    /\ pc[s] \in Borrowing /\ asks[s] # "none" => Swappable(s)
    /\ pc[s] = "relay" /\ be[s] = NoConn => Swappable(s)
    /\ pc[s] = "dial" => grant[s] = "cold"
    /\ pc[s] = "probe" => grant[s] = "warm"
    /\ pc[s] = "got" => grant[s] # "none"

\* The transactions on the backend of a session are its client's, unless the
\* next message wipes them; no more are open than txnDepth says.
TxnsMatch(s) ==
    /\ pc[s] = "got" /\ be[s] # NoConn /\ grant[s] = "cold" => open[be[s]] = 0
    /\ Relays(s) /\ needReset[s] =>
          /\ ~ sticky[s] /\ depth[s] = 0 /\ (s \notin torn => txns[s] = 0)
          /\ pc[s] = "relay" => ~ sent[s]
          /\ asks[s] = "attention" => sawReal[s]
    /\ Relays(s) /\ ~ needReset[s] /\ be[s] # NoConn =>
          /\ open[be[s]] <= txns[s] /\ (s \notin torn => open[be[s]] = txns[s])
          /\ ~ sticky[s] => open[be[s]] <= depth[s]

\* So is the session state; a session that may swap has its options in the
\* prelude.
StateMatches(s) ==
    "insertBulk" \notin TxKind =>
        /\ ~ sticky[s] => own[s] = IF prelude[s] THEN {"option"} ELSE {}
        /\ pc[s] = "got" /\ be[s] # NoConn /\ grant[s] = "cold" => state[be[s]] = {}
        /\ Relays(s) /\ needReset[s] => own[s] = {}
        /\ Relays(s) /\ ~ needReset[s] /\ be[s] # NoConn => state[be[s]] = {s} \X own[s]

\* A borrowed backend that is not wiped yet may have an abandoned transaction.
Inherits(s) ==
    be[s] # NoConn /\ (pc[s] \in {"probe", "got"} \/ (Relays(s) /\ needReset[s])) =>
        (open[be[s]] > 0 => be[s] \in abandoned)

SessionInv(s) ==
    Tracked(s) /\ Placed(s) /\ TxnsMatch(s) /\ StateMatches(s) /\ Inherits(s)

TxInv ==
    /\ PoolInv /\ TxTypeOK
    /\ \A s \in Session : SessionInv(s)
    /\ IdleWithoutTxn

-----------------------------------------------------------------------------
(***************************************************************************)
(* Nesting and classification.                                             *)
(***************************************************************************)

\* The messages there are.
LEMMA KindNames ==
    TxKind \subseteq {"plain", "insertBulk", "set", "object", "implicit", "beginText",
                    "attention", "tmBegin", "tmCommit", "tmRollback", "tmRollbackTo",
                    "tmSave", "tmOdd"}
PROOF BY TxAssumption DEF Pin

\* A message nests more the deeper it starts.
LEMMA NestedFacts ==
    ASSUME NEW k, NEW n \in Nat
    PROVE  /\ Nested(k, n) \in Nat
           /\ k \in {"attention", "tmRollbackTo"} => Nested(k, n) = n
           /\ \A m \in Nat : m <= n => Nested(k, m) <= Nested(k, n)
PROOF BY DEF Nested

\* txnDepth stays at or above the transactions, except for a text BEGIN TRAN and
\* a rollback to a savepoint.
LEMMA HeldFacts ==
    ASSUME NEW k, NEW n \in Nat, NEW m \in Nat, n <= m
    PROVE  /\ Held(k, m) \in Nat
           /\ k \notin {"beginText", "tmRollbackTo"} => Nested(k, n) <= Held(k, m)
           /\ k = "tmRollbackTo" => Held(k, m) = 0
PROOF BY DEF Held, Nested

\* A message that leaves anything behind makes the session sticky, or is a SET of
\* the prelude; so does a text BEGIN TRAN.
LEMMA SticksFacts ==
    ASSUME NEW s \in Session, NEW k \in TxKind, ~ Sticks(s, k)
    PROVE  /\ k # "beginText"
           /\ k # "insertBulk" => Sorts(k) = IF Exempt(s, k) THEN {"option"} ELSE {}
PROOF
  <1>1. k # "beginText" /\ k # "object" /\ k # "implicit"
    BY DEF Sticks, Pin, Exempt, TxMgr
  <1>2. k = "set" => Exempt(s, k)
    BY DEF Sticks, Pin, TxMgr
  <1>3. k # "set" => ~ Exempt(s, k)
    BY DEF Exempt
  <1> QED BY <1>1, <1>2, <1>3, KindNames DEF Sorts

-----------------------------------------------------------------------------
(***************************************************************************)
(* What a step does to a session other than the one that takes it.         *)
(***************************************************************************)

Same(t) ==
    /\ pc'[t] = pc[t] /\ be'[t] = be[t] /\ grant'[t] = grant[t] /\ gone'[t] = gone[t]
    /\ own'[t] = own[t] /\ txns'[t] = txns[t] /\ asks'[t] = asks[t]
    /\ sent'[t] = sent[t] /\ needReset'[t] = needReset[t] /\ sticky'[t] = sticky[t]
    /\ sawReal'[t] = sawReal[t] /\ prelude'[t] = prelude[t] /\ depth'[t] = depth[t]
    /\ (t \in torn') = (t \in torn)
    /\ be[t] # NoConn =>
          /\ open'[be[t]] = open[be[t]] /\ state'[be[t]] = state[be[t]]
          /\ be[t] \in abandoned => be[t] \in abandoned'

\* A session nothing happens to keeps its part of the invariant.
LEMMA SameKeeps ==
    ASSUME NEW t \in Session, SessionInv(t), Same(t)
    PROVE  SessionInv(t)'
PROOF
  <1>1. Tracked(t)'
    BY DEF SessionInv, Same, Tracked
  <1>2. Placed(t)'
    BY DEF SessionInv, Same, Placed, Borrowing, TxUntouched, Swappable
  <1>3. TxnsMatch(t)'
    BY DEF SessionInv, Same, TxnsMatch, Relays
  <1>4. StateMatches(t)'
    BY DEF SessionInv, Same, StateMatches, Relays
  <1>5. Inherits(t)'
    BY DEF SessionInv, Same, Inherits, Relays
  <1> QED BY <1>1, <1>2, <1>3, <1>4, <1>5 DEF SessionInv

\* A step that keeps the pool, the types and the acting session in order, and
\* leaves the others alone, keeps the invariant.
LEMMA StepKeeps ==
    ASSUME TxInv, NEW s \in Session,
           PoolInv', TxTypeOK', SessionInv(s)',
           \A t \in Session \ {s} : Same(t),
           IdleWithoutTxn'
    PROVE  TxInv'
PROOF
  <1>1. ASSUME NEW t \in Session PROVE SessionInv(t)'
    <2>1. CASE t = s
      BY <2>1
    <2>2. CASE t # s
      <3>1. SessionInv(t) /\ Same(t)
        BY <2>2 DEF TxInv
      <3> QED BY <3>1, SameKeeps
    <2> QED BY <2>1, <2>2
  <1> QED BY <1>1 DEF TxInv

\* The backends of two sessions, and those that are idle, are different ones.
LEMMA Apart ==
    ASSUME PoolInv, NEW s \in Session, be[s] # NoConn
    PROVE  /\ be[s] \in Conn
           /\ \A t \in Session \ {s} : be[t] # be[s]
           /\ \A i \in DOMAIN idle : idle[i] # be[s] /\ idle[i] \in Conn
PROOF BY DEF PoolInv, PoolTypeOK, OneUserPerBackend

-----------------------------------------------------------------------------
(***************************************************************************)
(* Borrowing.                                                              *)
(***************************************************************************)

\* A session on its way to a backend has done nothing else.
LEMMA OnTheWay ==
    ASSUME NEW s \in Session, SessionInv(s),
           UNCHANGED <<sessVars, hist, state, open, asks, needReset>>, gone'[s] = gone[s],
           pc[s] \in {"new"} \union Borrowing,
           pc'[s] \in Borrowing \union {"refused", "done"},
           pc'[s] = "dial" => grant'[s] = "cold",
           pc'[s] \in {"probe", "got"} => grant'[s] = "warm",
           be'[s] # NoConn /\ open[be'[s]] > 0 => be'[s] \in abandoned
    PROVE  SessionInv(s)'
PROOF
  <1>1. Tracked(s)'
    BY DEF SessionInv, Tracked, sessVars, hist
  <1>2. Placed(s)'
    BY DEF SessionInv, Placed, sessVars, hist, Borrowing, TxUntouched, Swappable
  <1>3. TxnsMatch(s)'
    BY DEF SessionInv, TxnsMatch, sessVars, hist, Borrowing, Relays
  <1>4. StateMatches(s)'
    BY DEF SessionInv, StateMatches, sessVars, hist, Borrowing, Relays
  <1>5. Inherits(s)'
    BY DEF SessionInv, Inherits, sessVars, hist, Borrowing, Relays
  <1> QED BY <1>1, <1>2, <1>3, <1>4, <1>5 DEF SessionInv

\* Acquiring, probing, evicting, giving up.
LEMMA BorrowKeeps ==
    ASSUME TxInv, NEW s \in Session, Borrow(s)
    PROVE  TxInv'
PROOF
  <1>1. UNCHANGED <<sessVars, hist, state, open, asks, needReset>>
    BY DEF Borrow
  <1>2. PoolInv /\ TxTypeOK /\ SessionInv(s)
    BY DEF TxInv
  <1>3. PoolInv'
    BY <1>2, MovesKeepPool, AcquireIdleKeepsPool, AcquireTokenKeepsPool,
       DialFailsKeepsPool, ProbeEvictsKeepsPool DEF Borrow
  <1>4. TxTypeOK'
    BY <1>1, <1>2, <1>3 DEF TxTypeOK, PoolInv, sessVars, hist
  <1>5. gone' = gone
    BY DEF Borrow, Connect, AcquireIdle, AcquireBlocks, AcquireToken, AcquireTimeout,
           DialFails, ProbePasses, ProbeEvicts
  <1>6. /\ pc[s] \in {"new"} \union Borrowing
        /\ \E to \in Borrowing \union {"refused", "done"} : pc' = [pc EXCEPT ![s] = to]
    BY DEF Borrow, Connect, AcquireIdle, AcquireBlocks, AcquireToken, AcquireTimeout,
           DialFails, EndWith, ProbePasses, ProbeEvicts, Borrowing
  <1>7. /\ \E b \in Conn \union {NoConn} : be' = [be EXCEPT ![s] = b]
        /\ \E g : grant' = [grant EXCEPT ![s] = g]
    <2>1. be[s] \in Conn \union {NoConn} /\ be = [be EXCEPT ![s] = be[s]]
      BY <1>2 DEF PoolInv, PoolTypeOK
    <2>2. grant = [grant EXCEPT ![s] = grant[s]]
      BY <1>2 DEF PoolInv, PoolTypeOK
    <2>3. CASE AcquireIdle(s)
      <3>1. Head(idle) \in Conn
        BY <1>2, <2>3 DEF AcquireIdle, PoolInv, PoolTypeOK
      <3> QED BY <2>3, <3>1 DEF AcquireIdle
    <2>4. CASE ~ AcquireIdle(s)
      BY <2>1, <2>2, <2>4 DEF Borrow, Connect, AcquireBlocks, AcquireToken, AcquireTimeout,
           DialFails, EndWith, ProbePasses, ProbeEvicts
    <2> QED BY <2>3, <2>4
  <1>8. ASSUME NEW t \in Session \ {s} PROVE Same(t)
    BY <1>1, <1>2, <1>5, <1>6, <1>7 DEF Same, sessVars, hist, PoolInv, PoolTypeOK
  <1>9. pc'[s] = "dial" => grant'[s] = "cold"
    BY <1>2 DEF Borrow, Connect, AcquireIdle, AcquireBlocks, AcquireToken, AcquireTimeout,
           DialFails, EndWith, ProbePasses, ProbeEvicts, PoolInv, PoolTypeOK
  <1>10. pc'[s] \in {"probe", "got"} => grant'[s] = "warm"
    BY <1>2 DEF Borrow, Connect, AcquireIdle, AcquireBlocks, AcquireToken, AcquireTimeout,
           DialFails, EndWith, ProbePasses, ProbeEvicts, PoolInv, PoolTypeOK, SessionInv, Placed
  <1>11. (be'[s] # NoConn /\ open[be'[s]] > 0 => be'[s] \in abandoned) /\ IdleWithoutTxn'
    <2>1. \A i \in DOMAIN idle : open[idle[i]] > 0 => idle[i] \in abandoned
      BY DEF TxInv, IdleWithoutTxn
    <2>2. CASE AcquireIdle(s)
      <3>1. idle \in Seq(Conn) /\ idle # <<>> /\ idle' = Tail(idle) /\ be'[s] = Head(idle)
        BY <1>2, <2>2 DEF AcquireIdle, PoolInv, PoolTypeOK
      <3>2. Head(idle) = idle[1] /\ 1 \in DOMAIN idle
        BY <3>1
      <3>3. \A i \in DOMAIN idle' : i + 1 \in DOMAIN idle /\ idle'[i] = idle[i + 1]
        BY <3>1
      <3> QED BY <1>1, <2>1, <3>1, <3>2, <3>3 DEF IdleWithoutTxn, hist
    <2>3. CASE ~ AcquireIdle(s)
      <3>1. idle' = idle
        BY <2>3 DEF Borrow, Connect, AcquireBlocks, AcquireToken, AcquireTimeout,
             DialFails, EndWith, ProbePasses, ProbeEvicts, Discard
      <3>2. IdleWithoutTxn'
        BY <1>1, <2>1, <3>1 DEF IdleWithoutTxn, hist
      <3>3. be'[s] = NoConn \/ (be'[s] = be[s] /\ (pc[s] = "probe" \/ be[s] = NoConn))
        BY <1>2, <2>3 DEF Borrow, Connect, AcquireBlocks, AcquireToken, AcquireTimeout,
             DialFails, EndWith, ProbePasses, ProbeEvicts, PoolInv, PoolTypeOK,
             PlaceMatches, Outside
      <3>4. be'[s] # NoConn /\ open[be'[s]] > 0 => be'[s] \in abandoned
        BY <1>2, <3>3 DEF SessionInv, Inherits
      <3> QED BY <3>2, <3>4
    <2> QED BY <2>2, <2>3
  <1>12. pc'[s] \in Borrowing \union {"refused", "done"}
    BY <1>2, <1>6 DEF PoolInv, PoolTypeOK
  <1>13. SessionInv(s)'
    BY <1>1, <1>2, <1>5, <1>6, <1>9, <1>10, <1>11, <1>12, OnTheWay
  <1> QED BY <1>3, <1>4, <1>8, <1>11, <1>13, StepKeeps

\* A cold login gives the session a backend nobody else has, with nothing on it.
LEMMA DialKeeps ==
    ASSUME TxInv, NEW s \in Session, ColdLogin(s)
    PROVE  TxInv'
PROOF
  <1>1. PICK c \in Conn, r \in {"ok", "error"} :
           /\ DialAnswered(s, c, r)
           /\ state' = [state EXCEPT ![c] = {}] /\ open' = [open EXCEPT ![c] = 0]
           /\ abandoned' = abandoned \ {c}
    BY DEF ColdLogin
  <1> DEFINE to == IF asks[s] = "none" THEN "relay" ELSE "got"
  <1>2. /\ UNCHANGED <<sessVars, torn, asks>> /\ pc' = [pc EXCEPT ![s] = to]
        /\ needReset' = [needReset EXCEPT ![s] = FALSE]
    BY DEF ColdLogin
  <1>3. PoolInv /\ TxTypeOK /\ SessionInv(s) /\ IdleWithoutTxn
    BY DEF TxInv
  <1>4. /\ pc[s] = "dial" /\ sock[c] = "closed" /\ be' = [be EXCEPT ![s] = c]
        /\ UNCHANGED <<idle, tokens, grant, gone>>
    BY <1>1 DEF DialAnswered
  <1>5. PoolInv'
    BY <1>1, <1>2, <1>3, DialKeepsPool
  <1>6. TxTypeOK'
    <2>1. state' \in [Conn -> SUBSET (Session \X Sort)]
      BY <1>1, <1>3 DEF TxTypeOK
    <2>2. open' \in [Conn -> 0 .. MaxDepth] /\ needReset' \in [Session -> BOOLEAN]
      BY <1>1, <1>2, <1>3, TxAssumption DEF TxTypeOK
    <2>3. abandoned' \subseteq Conn
      BY <1>1, <1>3 DEF TxTypeOK
    <2> QED BY <1>2, <1>3, <1>5, <2>1, <2>2, <2>3 DEF TxTypeOK, PoolInv, sessVars
  <1>7. (\A t \in Session : be[t] # c) /\ (\A i \in DOMAIN idle : idle[i] # c)
    BY <1>3, <1>4, PoolAssumption DEF PoolInv, OneUserPerBackend
  <1>8. ASSUME NEW t \in Session \ {s} PROVE Same(t)
    BY <1>1, <1>2, <1>3, <1>4, <1>7
       DEF Same, sessVars, hist, TxTypeOK, PoolInv, PoolTypeOK
  <1>9. /\ pc'[s] = to /\ be'[s] = c /\ ~ needReset'[s] /\ open'[c] = 0 /\ state'[c] = {}
        /\ grant'[s] = grant[s] /\ gone'[s] = gone[s] /\ c # NoConn
    BY <1>1, <1>2, <1>3, <1>4, PoolAssumption DEF TxTypeOK, PoolInv, PoolTypeOK
  <1>10. SessionInv(s)'
    <2>1. Tracked(s)'
      BY <1>2, <1>3 DEF SessionInv, Tracked, sessVars, hist
    <2>2. Placed(s)'
      BY <1>2, <1>3, <1>4, <1>9
         DEF SessionInv, Placed, sessVars, hist, Borrowing, TxUntouched, Swappable
    <2>3. asks[s] = "none" => txns[s] = 0 /\ own[s] = {} /\ depth[s] = 0
      BY <1>3, <1>4 DEF SessionInv, Placed, Borrowing, TxUntouched
    <2>4. TxnsMatch(s)'
      BY <1>2, <1>9, <2>3 DEF TxnsMatch, Relays, sessVars, hist
    <2>5. StateMatches(s)'
      BY <1>2, <1>3, <1>9, <2>3 DEF SessionInv, StateMatches, Relays, sessVars, hist
    <2>6. Inherits(s)'
      BY <1>2, <1>3, <1>9 DEF SessionInv, Inherits, Relays, sessVars, hist
    <2> QED BY <2>1, <2>2, <2>4, <2>5, <2>6 DEF SessionInv
  <1>11. IdleWithoutTxn'
    BY <1>1, <1>3, <1>4, <1>7 DEF IdleWithoutTxn, TxTypeOK, PoolInv, PoolTypeOK
  <1> QED BY <1>5, <1>6, <1>8, <1>10, <1>11, StepKeeps

-----------------------------------------------------------------------------
(***************************************************************************)
(* The loop.                                                               *)
(***************************************************************************)

\* A session that moves between borrowing and relaying leaves the pool as it is.
LEMMA LoopKeepsPool ==
    ASSUME PoolInv, NEW s \in Session, pc[s] \in {"got", "relay", "forward"},
           NEW to \in {"relay", "forward", "acquire"}, pc' = [pc EXCEPT ![s] = to],
           to = "forward" => be[s] # NoConn,
           to = "acquire" => be[s] = NoConn,
           tries' \in {tries, [tries EXCEPT ![s] = 0]},
           UNCHANGED <<idle, tokens, loginResp, sock, deaths, be, grant, gone>>
    PROVE  PoolInv'
PROOF
  <1>0. tries' \in [Session -> 0 .. MaxTries] /\ (tries'[s] = tries[s] \/ tries'[s] = 0)
        /\ \A t \in Session \ {s} : tries'[t] = tries[t]
    BY PoolAssumption DEF PoolInv, PoolTypeOK
  <1>1. PoolTypeOK'
    BY <1>0 DEF PoolInv, PoolTypeOK
  <1>2. PlaceMatches'
    BY <1>0, PoolAssumption DEF PoolInv, PoolTypeOK, PlaceMatches, Outside
  <1>3. Holders' = Holders
    BY DEF PoolInv, PoolTypeOK, Holders
  <1> QED BY <1>1, <1>2, <1>3, PoolUntouched

\* A warm client is greeted: its first message is to wipe the backend.
LEMMA GreetKeeps ==
    ASSUME TxInv, NEW s \in Session, ReplayLogin(s)
    PROVE  TxInv'
PROOF
  <1>1. /\ pc[s] = "got" /\ asks[s] = "none" /\ pc' = [pc EXCEPT ![s] = "relay"]
        /\ needReset' = [needReset EXCEPT ![s] = TRUE]
        /\ UNCHANGED <<idle, tokens, loginResp, sock, deaths, be, grant, tries, gone>>
        /\ UNCHANGED <<sessVars, hist, state, open, asks>>
    BY DEF ReplayLogin
  <1>2. PoolInv /\ TxTypeOK /\ SessionInv(s) /\ IdleWithoutTxn
    BY DEF TxInv
  <1>3. PoolInv'
    BY <1>1, <1>2, LoopKeepsPool
  <1>4. TxTypeOK'
    BY <1>1, <1>2, <1>3 DEF TxTypeOK, PoolInv, sessVars, hist
  <1>5. ASSUME NEW t \in Session \ {s} PROVE Same(t)
    BY <1>1, <1>2 DEF Same, sessVars, hist, TxTypeOK, PoolInv, PoolTypeOK
  <1>6. pc'[s] = "relay" /\ needReset'[s] /\ be[s] # NoConn /\ TxUntouched(s)
    BY <1>1, <1>2
       DEF TxTypeOK, PoolInv, PoolTypeOK, PlaceMatches, SessionInv, Placed, Borrowing
  <1>7. SessionInv(s)'
    <2>1. Tracked(s)' /\ Placed(s)'
      BY <1>1, <1>2, <1>6
         DEF SessionInv, Tracked, Placed, sessVars, hist, Borrowing, TxUntouched, Swappable
    <2>2. TxnsMatch(s)'
      BY <1>1, <1>6 DEF TxnsMatch, Relays, sessVars, hist, TxUntouched
    <2>3. StateMatches(s)'
      BY <1>1, <1>6 DEF StateMatches, Relays, sessVars, hist, TxUntouched
    <2>4. Inherits(s)'
      BY <1>1, <1>2, <1>6 DEF SessionInv, Inherits, Relays, sessVars, hist
    <2> QED BY <2>1, <2>2, <2>3, <2>4 DEF SessionInv
  <1>8. IdleWithoutTxn'
    BY <1>1, <1>2 DEF IdleWithoutTxn, hist
  <1> QED BY <1>3, <1>4, <1>5, <1>7, <1>8, StepKeeps

\* The prelude puts the session state of a swappable session on its new backend.
LEMMA ApplyPreludeKeeps ==
    ASSUME TxInv, NEW s \in Session, ApplyPrelude(s)
    PROVE  TxInv'
PROOF
  <1> DEFINE c == be[s]
             warm == grant[s] = "warm"
  <1>1. /\ pc[s] = "got" /\ asks[s] # "none" /\ pc' = [pc EXCEPT ![s] = "forward"]
        /\ UNCHANGED <<idle, tokens, loginResp, sock, deaths, be, grant, tries, gone>>
        /\ UNCHANGED <<sessVars, torn, asks>>
    BY DEF ApplyPrelude
  <1>2. PoolInv /\ TxTypeOK /\ SessionInv(s) /\ IdleWithoutTxn
    BY DEF TxInv
  <1>3. c # NoConn
    BY <1>1, <1>2 DEF PoolInv, PlaceMatches
  <1>4. /\ c \in Conn
        /\ \A t \in Session \ {s} : be[t] # c
        /\ \A i \in DOMAIN idle : idle[i] # c /\ idle[i] \in Conn
    BY <1>2, <1>3, Apart
  <1>5. IF prelude[s]
        THEN /\ state' = [state EXCEPT ![c] = (IF warm THEN {} ELSE state[c]) \union ({s} \X {"option"})]
             /\ open' = [open EXCEPT ![c] = IF warm THEN 0 ELSE open[c]]
             /\ needReset' = [needReset EXCEPT ![s] = FALSE]
             /\ abandoned' = IF warm THEN abandoned \ {c} ELSE abandoned
        ELSE needReset' = [needReset EXCEPT ![s] = warm] /\ UNCHANGED <<state, open, abandoned>>
    BY DEF ApplyPrelude, StateAfter
  <1>6. PoolInv'
    BY <1>1, <1>2, <1>3, LoopKeepsPool
  <1>7. TxTypeOK'
    <2>1. state' \in [Conn -> SUBSET (Session \X Sort)]
      <3>1. {s} \X {"option"} \subseteq Session \X Sort /\ state[c] \subseteq Session \X Sort
        BY <1>2, <1>4 DEF TxTypeOK, Sort
      <3> QED BY <1>2, <1>5, <3>1 DEF TxTypeOK
    <2>2. open' \in [Conn -> 0 .. MaxDepth]
      BY <1>2, <1>4, <1>5, TxAssumption DEF TxTypeOK
    <2>3. needReset' \in [Session -> BOOLEAN]
      BY <1>2, <1>5, Zenon DEF TxTypeOK
    <2>4. abandoned' \subseteq Conn
      BY <1>2, <1>5 DEF TxTypeOK
    <2> QED BY <1>1, <1>2, <1>6, <2>1, <2>2, <2>3, <2>4 DEF TxTypeOK, PoolInv, sessVars
  <1>8. \A d \in Conn : d # c =>
           state'[d] = state[d] /\ open'[d] = open[d] /\ (d \in abandoned => d \in abandoned')
    BY <1>2, <1>5 DEF TxTypeOK
  <1>9. \A t \in Session \ {s} : needReset'[t] = needReset[t]
    BY <1>2, <1>5 DEF TxTypeOK
  <1>10. ASSUME NEW t \in Session \ {s} PROVE Same(t)
    BY <1>1, <1>2, <1>4, <1>8, <1>9 DEF Same, sessVars, hist, TxTypeOK, PoolInv, PoolTypeOK
  <1>11. /\ sawReal[s] /\ ~ sticky[s] /\ depth[s] = 0 /\ (s \notin torn => txns[s] = 0)
         /\ pc'[s] = "forward"
         /\ "insertBulk" \notin TxKind => own[s] = IF prelude[s] THEN {"option"} ELSE {}
         /\ grant[s] = "cold" => open[c] = 0 /\ ("insertBulk" \notin TxKind => state[c] = {})
         /\ open[c] > 0 => c \in abandoned
    BY <1>1, <1>2, <1>3
       DEF SessionInv, Placed, Borrowing, Swappable, TxTypeOK, PoolInv, PoolTypeOK,
           StateMatches, TxnsMatch, Inherits
  <1>12. grant[s] \in {"cold", "warm"}
    BY <1>1, <1>2 DEF SessionInv, Placed, PoolInv, PoolTypeOK
  <1>13. /\ needReset'[s] = (warm /\ ~ prelude[s])
         /\ ~ needReset'[s] => open'[c] = 0
         /\ needReset'[s] => (open'[c] > 0 => c \in abandoned')
    BY <1>2, <1>4, <1>5, <1>11, <1>12 DEF TxTypeOK
  <1>14. "insertBulk" \notin TxKind =>
            IF needReset'[s] THEN own[s] = {} ELSE state'[c] = {s} \X own[s]
    BY <1>2, <1>4, <1>5, <1>11, <1>12, <1>13 DEF TxTypeOK
  <1>15. SessionInv(s)'
    <2>1. Tracked(s)' /\ Placed(s)'
      BY <1>1, <1>2, <1>11
         DEF SessionInv, Tracked, Placed, sessVars, hist, Borrowing, TxUntouched, Swappable
    <2>2. TxnsMatch(s)'
      <3>1. txns[s] \in Nat
        BY <1>2 DEF TxTypeOK
      <3> QED BY <1>1, <1>11, <1>13, <3>1 DEF TxnsMatch, Relays, sessVars
    <2>3. StateMatches(s)'
      BY <1>1, <1>11, <1>14 DEF StateMatches, Relays, sessVars, hist
    <2>4. Inherits(s)'
      BY <1>1, <1>2, <1>11, <1>13 DEF SessionInv, Inherits, Relays, sessVars, hist
    <2> QED BY <2>1, <2>2, <2>3, <2>4 DEF SessionInv
  <1>16. IdleWithoutTxn'
    BY <1>1, <1>2, <1>4, <1>8 DEF IdleWithoutTxn
  <1> QED BY <1>6, <1>7, <1>10, <1>15, <1>16, StepKeeps

\* A request is read.  No cancel comes first, so none meets a pending reset.
LEMMA AskKeeps ==
    ASSUME TxInv, NEW s \in Session, NEW k \in TxKind, Ask(s, k)
    PROVE  TxInv'
PROOF
  <1> DEFINE to == IF be[s] = NoConn THEN "acquire" ELSE "forward"
  <1>1. /\ pc[s] = "relay" /\ ~ gone[s] /\ asked < MaxAsked
        /\ Nested(k, txns[s]) <= MaxDepth /\ Held(k, depth[s]) <= MaxDepth
        /\ k = "attention" => sent[s]
        /\ asks' = [asks EXCEPT ![s] = k] /\ sent' = [sent EXCEPT ![s] = TRUE]
        /\ asked' = asked + 1
        /\ tries' = [tries EXCEPT ![s] = 0] /\ pc' = [pc EXCEPT ![s] = to]
        /\ UNCHANGED <<idle, tokens, loginResp, sock, deaths, be, grant, gone>>
        /\ UNCHANGED <<own, txns, sticky, sawReal, prelude, depth, hist, state, open, needReset>>
    BY DEF Ask
  <1>2. PoolInv /\ TxTypeOK /\ SessionInv(s) /\ IdleWithoutTxn
    BY DEF TxInv
  <1>3. PoolInv'
    BY <1>1, <1>2, LoopKeepsPool
  <1>4. TxTypeOK'
    BY <1>1, <1>2, <1>3, TxAssumption DEF TxTypeOK, PoolInv, hist
  <1>5. ASSUME NEW t \in Session \ {s} PROVE Same(t)
    BY <1>1, <1>2 DEF Same, hist, TxTypeOK, PoolInv, PoolTypeOK
  <1>6. /\ pc'[s] = to /\ asks'[s] = k /\ k # "none"
        /\ (be[s] = NoConn => Swappable(s))
        /\ (needReset[s] => k # "attention")
    BY <1>1, <1>2, KindNames
       DEF TxTypeOK, PoolInv, PoolTypeOK, SessionInv, Placed, TxnsMatch, Relays
  <1>7. SessionInv(s)'
    <2>1. Tracked(s)'
      BY <1>1, <1>2, <1>6 DEF SessionInv, Tracked, hist
    <2>2. Placed(s)'
      BY <1>1, <1>2, <1>6 DEF Placed, Borrowing, Swappable, hist
    <2>3. TxnsMatch(s)'
      BY <1>1, <1>2, <1>6 DEF SessionInv, TxnsMatch, Relays, hist
    <2>4. StateMatches(s)'
      BY <1>1, <1>2, <1>6 DEF SessionInv, StateMatches, Relays
    <2>5. Inherits(s)'
      BY <1>1, <1>2, <1>6 DEF SessionInv, Inherits, Relays, hist
    <2> QED BY <2>1, <2>2, <2>3, <2>4, <2>5 DEF SessionInv
  <1>8. IdleWithoutTxn'
    BY <1>1, <1>2 DEF IdleWithoutTxn, hist
  <1> QED BY <1>3, <1>4, <1>5, <1>7, <1>8, StepKeeps

\* The idle channel after a backend is handed to it.
LEMMA ReturnStaysNamed ==
    ASSUME idle \in Seq(Conn), NEW c \in Conn, IdleWithoutTxn,
           idle' = idle \/ (idle' = Append(idle, c) /\ (open'[c] > 0 => c \in abandoned')),
           \A i \in DOMAIN idle :
               /\ open'[idle[i]] = open[idle[i]]
               /\ idle[i] \in abandoned => idle[i] \in abandoned'
    PROVE  IdleWithoutTxn'
PROOF
  <1>1. CASE idle' = idle
    BY <1>1 DEF IdleWithoutTxn
  <1>2. CASE idle' = Append(idle, c) /\ (open'[c] > 0 => c \in abandoned')
    <2>1. \A i \in DOMAIN idle' :
             (i \in DOMAIN idle /\ idle'[i] = idle[i]) \/ idle'[i] = c
      BY <1>2
    <2> QED BY <1>2, <2>1 DEF IdleWithoutTxn
  <1> QED BY <1>1, <1>2

\* A session ends.
LEMMA EndKeeps ==
    ASSUME TxInv, NEW s \in Session, PoolInv',
           pc' = [pc EXCEPT ![s] = "done"], be' = [be EXCEPT ![s] = NoConn],
           UNCHANGED <<grant, gone>>,
           UNCHANGED <<sessVars, torn, state, open, asks, needReset>>,
           abandoned' \subseteq Conn, abandoned \subseteq abandoned',
           \/ idle' = idle
           \/ /\ be[s] # NoConn /\ idle' = Append(idle, be[s])
              /\ open[be[s]] > 0 => be[s] \in abandoned'
    PROVE  TxInv'
PROOF
  <1>1. PoolInv /\ TxTypeOK /\ SessionInv(s) /\ IdleWithoutTxn
    BY DEF TxInv
  <1>2. TxTypeOK'
    BY <1>1 DEF TxTypeOK, PoolInv, sessVars
  <1>3. ASSUME NEW t \in Session \ {s} PROVE Same(t)
    BY <1>1 DEF Same, sessVars, TxTypeOK, PoolInv, PoolTypeOK
  <1>4. pc'[s] = "done" /\ be'[s] = NoConn
    BY <1>1 DEF PoolInv, PoolTypeOK
  <1>5. SessionInv(s)'
    <2>1. Tracked(s)' /\ Placed(s)'
      BY <1>1, <1>4 DEF SessionInv, Tracked, Placed, sessVars, Borrowing
    <2>2. TxnsMatch(s)' /\ StateMatches(s)' /\ Inherits(s)'
      BY <1>1, <1>4
         DEF SessionInv, TxnsMatch, StateMatches, Inherits, Relays, sessVars
    <2> QED BY <2>1, <2>2 DEF SessionInv
  <1>6. IdleWithoutTxn'
    <2>1. CASE idle' = idle
      BY <1>1, <2>1 DEF IdleWithoutTxn
    <2>2. CASE idle' # idle
      <3>1. be[s] \in Conn /\ idle \in Seq(Conn)
        BY <1>1, <2>2 DEF PoolInv, PoolTypeOK
      <3> QED BY <1>1, <2>2, <3>1, ReturnStaysNamed
    <2> QED BY <2>1, <2>2
  <1> QED BY <1>2, <1>3, <1>5, <1>6, StepKeeps

\* Greeting or serving fails and the backend is discarded.
LEMMA FailsKeep ==
    ASSUME TxInv, NEW s \in Session, ReplayFails(s) \/ ServeFails(s)
    PROVE  TxInv'
PROOF
  <1>1. /\ pc[s] \in {"got", "forward"} /\ EndWith(s, Discard(be[s]))
        /\ UNCHANGED <<loginResp, deaths, grant, tries, gone>>
        /\ UNCHANGED <<sessVars, hist, state, open, asks, needReset>>
    BY DEF ReplayFails, ServeFails
  <1>2. PoolInv /\ be[s] # NoConn
    BY <1>1 DEF TxInv, PoolInv, PlaceMatches
  <1>3. PoolInv'
    BY <1>1, <1>2, EndKeepsPool
  <1>4. UNCHANGED <<sessVars, torn, state, open, asks, needReset>> /\ abandoned' = abandoned
    BY <1>1 DEF hist
  <1>5. abandoned \subseteq Conn
    BY DEF TxInv, TxTypeOK
  <1> QED BY <1>1, <1>3, <1>4, <1>5, EndKeeps DEF EndWith, Discard

\* The client has left between two requests.
LEMMA CloseKeeps ==
    ASSUME TxInv, NEW s \in Session, Close(s)
    PROVE  TxInv'
PROOF
  <1>1. /\ pc[s] = "relay" /\ gone[s] /\ pc' = [pc EXCEPT ![s] = "done"]
        /\ be' = [be EXCEPT ![s] = NoConn]
        /\ UNCHANGED <<loginResp, deaths, grant, tries, gone>>
        /\ UNCHANGED <<sessVars, torn, state, open, asks, needReset>>
        /\ abandoned' = IF be[s] # NoConn /\ ~ sticky[s] /\ txns[s] > 0
                        THEN abandoned \union {be[s]} ELSE abandoned
    BY DEF Close, EndWith
  <1>2. PoolInv /\ TxTypeOK /\ SessionInv(s)
    BY DEF TxInv
  <1>0. abandoned' \subseteq Conn /\ abandoned \subseteq abandoned'
    BY <1>1, <1>2 DEF TxTypeOK, PoolInv, PoolTypeOK
  <1>3. CASE be[s] = NoConn
    <2>1. UNCHANGED <<idle, tokens, sock>> /\ be' = be
      BY <1>1, <1>2, <1>3 DEF Close, EndWith, PoolInv, PoolTypeOK
    <2>2. PoolTypeOK' /\ PlaceMatches' /\ Holders' = Holders
      BY <1>1, <1>2, <1>3, <2>1
         DEF PoolInv, PoolTypeOK, PlaceMatches, Outside, Holders
    <2>3. PoolInv'
      BY <1>2, <2>1, <2>2, PoolUntouched
    <2> QED BY <1>0, <1>1, <2>1, <2>3, EndKeeps
  <1>4. CASE be[s] # NoConn
    <2>1. EndWith(s, Discard(be[s])) \/ EndWith(s, Return(be[s]))
      BY <1>4 DEF Close, EndWith
    <2>2. PoolInv'
      BY <1>1, <1>2, <1>4, <2>1, EndKeepsPool
    <2>3. ASSUME ~ sticky[s], open[be[s]] > 0 PROVE be[s] \in abandoned'
      <3>1. CASE needReset[s]
        BY <1>0, <1>1, <1>2, <1>4, <2>3, <3>1 DEF SessionInv, Inherits, Relays
      <3>2. CASE ~ needReset[s]
        <4>1. open[be[s]] <= txns[s] /\ open[be[s]] \in Nat /\ txns[s] \in Nat
          BY <1>1, <1>2, <1>4, <3>2
             DEF SessionInv, TxnsMatch, Relays, TxTypeOK, PoolInv, PoolTypeOK
        <4>2. txns[s] > 0
          BY <2>3, <4>1
        <4> QED BY <1>1, <1>4, <2>3, <4>2
      <3> QED BY <3>1, <3>2
    <2>4. idle' = idle \/ (idle' = Append(idle, be[s]) /\ ~ sticky[s])
      BY <1>4 DEF Close, EndWith, Discard, Return
    <2> QED BY <1>0, <1>1, <1>4, <2>2, <2>3, <2>4, EndKeeps
  <1> QED BY <1>3, <1>4

\* The client leaves.
LEMMA LeaveKeeps ==
    ASSUME TxInv, NEW s \in Session, ClientLeaves(s)
    PROVE  TxInv'
PROOF
  <1>1. /\ gone' = [gone EXCEPT ![s] = TRUE]
        /\ UNCHANGED <<idle, tokens, loginResp, sock, deaths, pc, be, grant, tries>>
        /\ UNCHANGED <<sessVars, hist, state, open, asks, needReset>>
    BY DEF ClientLeaves
  <1>2. PoolInv /\ TxTypeOK /\ SessionInv(s) /\ IdleWithoutTxn
    BY DEF TxInv
  <1>3. PoolTypeOK' /\ PlaceMatches' /\ Holders' = Holders
    BY <1>1, <1>2 DEF PoolInv, PoolTypeOK, PlaceMatches, Holders
  <1>4. PoolInv'
    BY <1>1, <1>2, <1>3, PoolUntouched
  <1>5. TxTypeOK'
    BY <1>1, <1>2, <1>4 DEF TxTypeOK, PoolInv, sessVars, hist
  <1>6. ASSUME NEW t \in Session \ {s} PROVE Same(t)
    BY <1>1, <1>2 DEF Same, sessVars, hist, PoolInv, PoolTypeOK
  <1>7. SessionInv(s)'
    BY <1>1, <1>2 DEF SessionInv, Tracked, Placed, TxnsMatch, StateMatches, Inherits,
       Relays, Borrowing, TxUntouched, Swappable, sessVars, hist
  <1>8. IdleWithoutTxn'
    BY <1>1, <1>2 DEF IdleWithoutTxn, hist
  <1> QED BY <1>4, <1>5, <1>6, <1>7, <1>8, StepKeeps

\* Nothing of a session depends on whether its backend is alive.
LEMMA DieKeeps ==
    ASSUME TxInv, NEW c \in Conn, BackendDies(c)
    PROVE  TxInv'
PROOF
  <1>1. /\ UNCHANGED <<idle, tokens, loginResp, pc, be, grant, tries, gone>>
        /\ UNCHANGED <<sessVars, hist, state, open, asks, needReset>>
    BY DEF BackendDies, ConnDies
  <1>2. PoolInv'
    BY DeathKeepsPool DEF TxInv, BackendDies
  <1>3. TxTypeOK'
    BY <1>1, <1>2 DEF TxInv, TxTypeOK, PoolInv, sessVars, hist
  <1>4. ASSUME NEW t \in Session PROVE SessionInv(t)'
    <2>1. Same(t)
      BY <1>1 DEF Same, sessVars, hist
    <2> QED BY <2>1, SameKeeps DEF TxInv
  <1>5. IdleWithoutTxn'
    BY <1>1 DEF TxInv, IdleWithoutTxn, hist
  <1> QED BY <1>2, <1>3, <1>4, <1>5 DEF TxInv

-----------------------------------------------------------------------------
(***************************************************************************)
(* A request is served.                                                    *)
(***************************************************************************)

\* What a session is after the answer, and whether it gives its backend back.
Sticky2(s) == sticky[s] \/ Sticks(s, asks[s])
Real2(s) ==
    sawReal[s] \/ asks[s] \in TxMgr \union {"plain", "insertBulk"}
Swaps(s) == Real2(s) /\ ~ Sticky2(s) /\ Held(asks[s], depth[s]) = 0
Wipes(s) == needReset[s] /\ asks[s] # "attention"

\* The client is torn from its transaction once the request is answered.
TornAfter(s) ==
    Nested(asks[s], txns[s]) # 0 /\ (s \in torn \/ Tears(s, asks[s]))

\* The transactions left on a backend that is kept are those of the client, and
\* no more than txnDepth says.  One that is given back has none, unless the
\* request was a rollback to a savepoint or a cancel, which wipes nothing.
LEMMA ServedTxns ==
    ASSUME TxInv, NEW s \in Session, pc[s] = "forward"
    PROVE  LET n == Nested(asks[s], txns[s])
               o == Nested(asks[s], IF Wipes(s) THEN 0 ELSE open[be[s]])
               h == Held(asks[s], depth[s])
           IN  /\ n \in 0 .. MaxDepth /\ o \in 0 .. MaxDepth /\ h \in 0 .. MaxDepth
               /\ ~ Swaps(s) => o <= n /\ (~ TornAfter(s) => o = n)
               /\ ~ Swaps(s) /\ ~ Sticky2(s) => o <= h
               /\ ~ TornAfter(s) /\ ~ Sticky2(s) => n <= h
               /\ Swaps(s) /\ o > 0 =>
                     Tears(s, asks[s]) \/ (~ Wipes(s) /\ be[s] \in abandoned)
PROOF
  <1> DEFINE k == asks[s]
             b == IF Wipes(s) THEN 0 ELSE open[be[s]]
             n == Nested(k, txns[s])
             o == Nested(k, b)
             h == Held(k, depth[s])
  <1>1. /\ be[s] # NoConn /\ be[s] \in Conn /\ k \in TxKind /\ k # "none"
        /\ txns[s] \in Nat /\ depth[s] \in Nat /\ open[be[s]] \in Nat /\ MaxDepth \in Nat
        /\ open[be[s]] <= MaxDepth /\ n <= MaxDepth /\ h <= MaxDepth
        /\ s \notin torn /\ ~ sticky[s] => txns[s] <= depth[s]
    BY TxAssumption
       DEF TxInv, PoolInv, PoolTypeOK, PlaceMatches, TxTypeOK, SessionInv, Placed, Tracked
  <1>2. /\ needReset[s] => /\ ~ sticky[s] /\ depth[s] = 0 /\ (s \notin torn => txns[s] = 0)
                           /\ k = "attention" => sawReal[s]
                           /\ open[be[s]] > 0 => be[s] \in abandoned
        /\ ~ needReset[s] => /\ open[be[s]] <= txns[s]
                             /\ s \notin torn => open[be[s]] = txns[s]
                             /\ ~ sticky[s] => open[be[s]] <= depth[s]
    BY <1>1 DEF TxInv, SessionInv, TxnsMatch, Inherits, Relays
  <1>3. n \in Nat /\ b \in Nat /\ o \in Nat /\ h \in Nat
    BY <1>1, NestedFacts, HeldFacts
  <1>4. ~ Sticky2(s) => ~ sticky[s] /\ k # "beginText"
    BY <1>1, SticksFacts DEF Sticky2
  <1>5. ~ TornAfter(s) => n = 0 \/ (s \notin torn /\ ~ Tears(s, k))
    BY DEF TornAfter
  <1>6. ASSUME ~ TornAfter(s), ~ Sticky2(s) PROVE n <= h
    <2>1. CASE n = 0
      BY <1>3, <2>1
    <2>2. CASE s \notin torn /\ ~ Tears(s, k)
      <3>1. txns[s] <= depth[s]
        BY <1>1, <1>4, <1>6, <2>2
      <3>2. CASE k = "tmRollbackTo"
        <4>1. txns[s] = 0
          BY <1>1, <1>4, <1>6, <2>2, <3>2 DEF Tears
        <4> QED BY <1>1, <1>3, <3>2, <4>1, NestedFacts
      <3>3. CASE k # "tmRollbackTo"
        BY <1>1, <1>4, <1>6, <3>1, <3>3, HeldFacts
      <3> QED BY <3>2, <3>3
    <2> QED BY <1>5, <1>6, <2>1, <2>2
  <1>7. CASE needReset[s] /\ k = "attention"
    <2>1. o = open[be[s]] /\ ~ Wipes(s)
      BY <1>1, <1>7, NestedFacts DEF Wipes
    <2>2. Swaps(s)
      BY <1>1, <1>2, <1>7 DEF Swaps, Real2, Sticky2, Sticks, Pin, Held
    <2> QED BY <1>1, <1>2, <1>3, <1>6, <1>7, <2>1, <2>2
  <1>8. CASE ~ (needReset[s] /\ k = "attention")
    <2>1. /\ b <= txns[s] /\ (s \notin torn => b = txns[s])
          /\ ~ sticky[s] => b <= depth[s]
      BY <1>1, <1>2, <1>8 DEF Wipes
    <2>2. o <= n
      BY <1>1, <1>3, <2>1, NestedFacts
    <2>3. ~ TornAfter(s) => o = n
      BY <1>3, <1>5, <2>1, <2>2
    <2>4. ~ Sticky2(s) /\ k # "tmRollbackTo" => o <= h
      BY <1>1, <1>3, <1>4, <2>1, HeldFacts
    <2>5. ~ Sticky2(s) /\ k = "tmRollbackTo" => Swaps(s)
      BY <1>1, HeldFacts DEF Swaps, Real2, TxMgr
    <2>6. ASSUME Swaps(s), o > 0 PROVE Tears(s, k)
      <3>1. h = 0 /\ ~ Sticky2(s)
        BY <2>6 DEF Swaps
      <3>2. k = "tmRollbackTo"
        BY <1>3, <2>4, <2>6, <3>1
      <3>3. o = b
        BY <1>3, <3>2, NestedFacts
      <3>4. txns[s] > 0
        BY <1>1, <1>3, <2>1, <2>6, <3>3
      <3> QED BY <1>4, <3>1, <3>2, <3>4 DEF Tears
    <2>7. o <= MaxDepth
      BY <1>1, <1>3, <2>2
    <2> HIDE DEF o, n, h, b
    <2> QED BY <1>1, <1>3, <1>6, <2>2, <2>3, <2>4, <2>5, <2>6, <2>7 DEF o, n, h, b
  <1> QED BY <1>7, <1>8

\* So is the session state.
LEMMA ServedState ==
    ASSUME TxInv, NEW s \in Session, pc[s] = "forward", "insertBulk" \notin TxKind
    PROVE  LET mine == own[s] \union Sorts(asks[s])
           IN  /\ ~ Sticky2(s) =>
                      mine = IF prelude[s] \/ Exempt(s, asks[s]) THEN {"option"} ELSE {}
               /\ ~ Swaps(s) =>
                      StateAfter(be[s], s, Wipes(s), Sorts(asks[s])) = {s} \X mine
PROOF
  <1> DEFINE k == asks[s]
  <1>1. /\ be[s] # NoConn /\ be[s] \in Conn /\ k \in TxKind /\ k # "insertBulk"
    BY DEF TxInv, PoolInv, PoolTypeOK, PlaceMatches, TxTypeOK, SessionInv, Placed
  <1>2. /\ ~ sticky[s] => own[s] = IF prelude[s] THEN {"option"} ELSE {}
        /\ needReset[s] => own[s] = {}
        /\ ~ needReset[s] => state[be[s]] = {s} \X own[s]
    BY <1>1 DEF TxInv, SessionInv, StateMatches, Relays
  <1>3. ASSUME ~ Sticky2(s)
        PROVE  own[s] \union Sorts(k) = IF prelude[s] \/ Exempt(s, k) THEN {"option"} ELSE {}
    <2>1. Sorts(k) = IF Exempt(s, k) THEN {"option"} ELSE {}
      BY <1>1, <1>3, SticksFacts DEF Sticky2
    <2>2. ~ sticky[s]
      BY <1>3 DEF Sticky2
    <2> QED BY <1>2, <2>1, <2>2
  <1>4. ASSUME ~ Swaps(s)
        PROVE  StateAfter(be[s], s, Wipes(s), Sorts(k)) = {s} \X (own[s] \union Sorts(k))
    <2>1. ~ (needReset[s] /\ k = "attention")
      <3>1. SUFFICES ASSUME needReset[s], k = "attention" PROVE Swaps(s)
        BY <1>4
      <3>2. sawReal[s] /\ ~ sticky[s] /\ depth[s] = 0
        BY <3>1 DEF TxInv, SessionInv, TxnsMatch, Relays
      <3> QED BY <3>1, <3>2 DEF Swaps, Real2, Sticky2, Sticks, Pin, Held
    <2>2. CASE needReset[s]
      BY <1>2, <2>1, <2>2 DEF StateAfter, Wipes
    <2>3. CASE ~ needReset[s]
      BY <1>2, <2>3 DEF StateAfter, Wipes
    <2> QED BY <2>2, <2>3
  <1> QED BY <1>3, <1>4

\* The pool, whether the backend is kept or given back.
LEMMA ServeKeepsPool ==
    ASSUME PoolInv, NEW s \in Session, Serve(s)
    PROVE  PoolInv'
PROOF
  <1>1. /\ pc[s] = "forward" /\ be[s] # NoConn /\ be[s] \in Conn
        /\ pc' = [pc EXCEPT ![s] = "relay"]
        /\ UNCHANGED <<loginResp, deaths, tries, gone>>
    BY DEF Serve, PoolInv, PoolTypeOK, PlaceMatches
  <1>2. CASE UNCHANGED <<idle, tokens, sock, be, grant>>
    BY <1>1, <1>2, LoopKeepsPool
  <1>3. CASE /\ Return(be[s]) /\ be' = [be EXCEPT ![s] = NoConn]
             /\ grant' = [grant EXCEPT ![s] = "none"]
    <2>1. PoolTypeOK'
      <3>1. idle' \in Seq(Conn)
        <4>1. idle \in Seq(Conn) /\ Append(idle, be[s]) \in Seq(Conn)
          BY <1>1 DEF PoolInv, PoolTypeOK
        <4>2. idle' = idle \/ idle' = Append(idle, be[s])
          BY <1>3 DEF Discard, Return
        <4> QED BY <4>1, <4>2
      <3>2. tokens' \in 0 .. PoolMax /\ sock' \in [Conn -> {"closed", "open", "dead"}]
        BY <1>1, <1>3, PoolAssumption DEF PoolInv, PoolTypeOK, Discard, Return
      <3> QED BY <1>1, <1>3, <3>1, <3>2 DEF PoolInv, PoolTypeOK
    <2>2. PlaceMatches'
      BY <1>1, <1>3 DEF PoolInv, PoolTypeOK, PlaceMatches, Outside
    <2>3. Holders' = Holders \ {s}
      BY <1>1, <1>3 DEF PoolInv, PoolTypeOK, Holders
    <2> QED BY <1>1, <1>3, <2>1, <2>2, <2>3, ReturnKeepsPool
  <1> QED BY <1>2, <1>3 DEF Serve

\* A request is served and the backend kept, or given back as it should be.
LEMMA ServeKeeps ==
    ASSUME TxInv, NEW s \in Session, Serve(s)
    PROVE  TxInv'
PROOF
  <1> DEFINE k == asks[s]
             c == be[s]
             n == Nested(k, txns[s])
             o == Nested(k, IF Wipes(s) THEN 0 ELSE open[c])
             h == Held(k, depth[s])
             mine == own[s] \union Sorts(k)
  <1>1. PoolInv /\ TxTypeOK /\ SessionInv(s) /\ IdleWithoutTxn
    BY DEF TxInv
  <1>2. /\ pc[s] = "forward" /\ pc' = [pc EXCEPT ![s] = "relay"]
        /\ state' = [state EXCEPT ![c] = StateAfter(c, s, Wipes(s), Sorts(k))]
        /\ open' = [open EXCEPT ![c] = o]
        /\ own' = [own EXCEPT ![s] = mine]
        /\ txns' = [txns EXCEPT ![s] = n]
        /\ sticky' = [sticky EXCEPT ![s] = Sticky2(s)]
        /\ sawReal' = [sawReal EXCEPT ![s] = Real2(s)]
        /\ prelude' = [prelude EXCEPT ![s] = prelude[s] \/ Exempt(s, k)]
        /\ depth' = [depth EXCEPT ![s] = h]
        /\ needReset' = [needReset EXCEPT ![s] = FALSE]
        /\ asks' = [asks EXCEPT ![s] = "none"]
        /\ UNCHANGED <<loginResp, deaths, tries, gone, sent, asked>>
        /\ torn' = IF n = 0 THEN torn \ {s} ELSE IF Tears(s, k) THEN torn \union {s} ELSE torn
        /\ abandoned' = IF Tears(s, k) THEN abandoned \union {c}
                        ELSE IF Wipes(s) THEN abandoned \ {c} ELSE abandoned
    BY DEF Serve, Wipes, Sticky2, Real2
  <1>3. IF Swaps(s)
        THEN /\ Return(c) /\ be' = [be EXCEPT ![s] = NoConn]
             /\ grant' = [grant EXCEPT ![s] = "none"]
        ELSE UNCHANGED <<idle, tokens, sock, be, grant>>
    BY DEF Serve, Swaps, Sticky2, Real2
  <1>4. c # NoConn /\ c \in Conn
    BY <1>1, <1>2 DEF PoolInv, PoolTypeOK, PlaceMatches
  <1>5. /\ \A t \in Session \ {s} : be[t] # c
        /\ \A i \in DOMAIN idle : idle[i] # c /\ idle[i] \in Conn
    BY <1>1, <1>4, Apart
  <1>6. /\ n \in 0 .. MaxDepth /\ o \in 0 .. MaxDepth /\ h \in 0 .. MaxDepth
        /\ ~ Swaps(s) => o <= n /\ (~ TornAfter(s) => o = n)
        /\ ~ Swaps(s) /\ ~ Sticky2(s) => o <= h
        /\ ~ TornAfter(s) /\ ~ Sticky2(s) => n <= h
        /\ Swaps(s) /\ o > 0 => Tears(s, k) \/ (~ Wipes(s) /\ c \in abandoned)
    BY <1>2, ServedTxns
  <1>7. PoolInv'
    BY <1>1, ServeKeepsPool
  <1>8. TxTypeOK'
    <2>1. state' \in [Conn -> SUBSET (Session \X Sort)] /\ own' \in [Session -> SUBSET Sort]
      <3>1. Sorts(k) \subseteq Sort
        BY DEF Sorts, Sort
      <3>2. StateAfter(c, s, Wipes(s), Sorts(k)) \subseteq Session \X Sort
        BY <1>1, <1>4, <3>1 DEF StateAfter, TxTypeOK
      <3> QED BY <1>1, <1>2, <1>4, <3>1, <3>2 DEF TxTypeOK
    <2>2. open' \in [Conn -> 0 .. MaxDepth] /\ txns' \in [Session -> 0 .. MaxDepth]
      BY <1>1, <1>2, <1>6 DEF TxTypeOK
    <2>3. depth' \in [Session -> 0 .. MaxDepth]
      BY <1>1, <1>2, <1>6 DEF TxTypeOK
    <2>4. sticky' \in [Session -> BOOLEAN] /\ sawReal' \in [Session -> BOOLEAN]
      BY <1>1, <1>2, Zenon DEF TxTypeOK, Sticky2, Real2
    <2>5. prelude' \in [Session -> BOOLEAN] /\ needReset' \in [Session -> BOOLEAN]
      BY <1>1, <1>2, Zenon DEF TxTypeOK
    <2>6. asks' \in [Session -> TxKind \union {"none"}] /\ sent' \in [Session -> BOOLEAN]
      BY <1>1, <1>2 DEF TxTypeOK
    <2>7. torn' \subseteq Session /\ abandoned' \subseteq Conn /\ asked' \in 0 .. MaxAsked
      BY <1>1, <1>2, <1>4 DEF TxTypeOK
    <2> QED BY <1>7, <2>1, <2>2, <2>3, <2>4, <2>5, <2>6, <2>7 DEF TxTypeOK, PoolInv
  <1>9. ASSUME NEW t \in Session \ {s} PROVE Same(t)
    <2>1. be'[t] = be[t] /\ grant'[t] = grant[t]
      BY <1>1, <1>3 DEF PoolInv, PoolTypeOK
    <2>2. be[t] # NoConn => open'[be[t]] = open[be[t]] /\ state'[be[t]] = state[be[t]]
      BY <1>1, <1>2, <1>5 DEF TxTypeOK, PoolInv, PoolTypeOK
    <2>3. be[t] # NoConn => (be[t] \in abandoned => be[t] \in abandoned')
      BY <1>2, <1>5
    <2>4. (t \in torn') = (t \in torn)
      BY <1>2
    <2> QED BY <1>1, <1>2, <2>1, <2>2, <2>3, <2>4 DEF Same, TxTypeOK, PoolInv, PoolTypeOK
  <1>10. /\ pc'[s] = "relay" /\ asks'[s] = "none" /\ needReset'[s] = FALSE
         /\ txns'[s] = n /\ depth'[s] = h /\ own'[s] = mine
         /\ open'[c] = o /\ state'[c] = StateAfter(c, s, Wipes(s), Sorts(k))
         /\ sent'[s] = sent[s] /\ gone'[s] = gone[s]
    BY <1>1, <1>2, <1>4 DEF TxTypeOK, PoolInv, PoolTypeOK
  <1>11. /\ sticky'[s] = Sticky2(s) /\ sawReal'[s] = Real2(s)
         /\ prelude'[s] = (prelude[s] \/ Exempt(s, k))
    BY <1>1, <1>2, Zenon DEF TxTypeOK
  <1>12. be'[s] = IF Swaps(s) THEN NoConn ELSE c
    BY <1>1, <1>3 DEF PoolInv, PoolTypeOK
  <1>0. (s \in torn') = TornAfter(s)
    BY <1>1, <1>2 DEF TornAfter, TxTypeOK
  <1>13. SessionInv(s)'
    <2>1. Tracked(s)'
      BY <1>0, <1>6, <1>10, <1>11 DEF Tracked
    <2>2. ASSUME Swaps(s) PROVE Swappable(s)'
      <3>1. Real2(s) /\ ~ Sticky2(s) /\ h = 0
        BY <2>2 DEF Swaps
      <3>2. ~ TornAfter(s) => n = 0
        BY <1>6, <3>1
      <3> QED BY <1>0, <1>10, <1>11, <3>1, <3>2 DEF Swappable
    <2>3. Placed(s)'
      BY <1>4, <1>10, <1>12, <2>2 DEF Placed, Borrowing
    <2>4. TxnsMatch(s)'
      BY <1>0, <1>6, <1>10, <1>11, <1>12 DEF TxnsMatch, Relays
    <2>5. StateMatches(s)'
      <3>1. SUFFICES ASSUME "insertBulk" \notin TxKind PROVE StateMatches(s)'
        BY DEF StateMatches
      <3>2. /\ ~ Sticky2(s) =>
                   mine = IF prelude[s] \/ Exempt(s, k) THEN {"option"} ELSE {}
            /\ ~ Swaps(s) => StateAfter(c, s, Wipes(s), Sorts(k)) = {s} \X mine
        BY <1>2, <3>1, ServedState
      <3> QED BY <1>10, <1>11, <1>12, <3>2 DEF StateMatches, Relays
    <2>6. Inherits(s)'
      BY <1>6, <1>10 DEF Inherits, Relays
    <2> QED BY <2>1, <2>3, <2>4, <2>5, <2>6 DEF SessionInv
  <1>14. IdleWithoutTxn'
    <2>1. idle' = idle \/ (Swaps(s) /\ idle' = Append(idle, c))
      BY <1>3 DEF Return, Discard
    <2>2. \A i \in DOMAIN idle :
             /\ open'[idle[i]] = open[idle[i]]
             /\ idle[i] \in abandoned => idle[i] \in abandoned'
      BY <1>1, <1>2, <1>5 DEF TxTypeOK
    <2>3. Swaps(s) /\ open'[c] > 0 => c \in abandoned'
      BY <1>2, <1>6, <1>10
    <2>4. idle \in Seq(Conn)
      BY <1>1 DEF PoolInv, PoolTypeOK
    <2> QED BY <1>1, <1>4, <2>1, <2>2, <2>3, <2>4, ReturnStaysNamed
  <1> QED BY <1>7, <1>8, <1>9, <1>13, <1>14, StepKeeps

-----------------------------------------------------------------------------
(***************************************************************************)
(* The inductive invariant.                                                *)
(***************************************************************************)

\* It holds initially.
LEMMA TxInvStarts == TxInit => TxInv
PROOF
  <1> SUFFICES ASSUME TxInit PROVE TxInv
    OBVIOUS
  <1>1. PoolInv
    BY PoolStarts DEF TxInit
  <1>2. TxTypeOK
    BY <1>1, TxAssumption DEF TxInit, TxTypeOK, PoolInv
  <1>3. ASSUME NEW s \in Session PROVE SessionInv(s)
    BY <1>3 DEF TxInit, PoolInit, SessionInv, Tracked, Placed, TxnsMatch, StateMatches,
       Inherits, Relays, Borrowing, TxUntouched, Swappable
  <1>4. IdleWithoutTxn
    BY DEF TxInit, PoolInit, IdleWithoutTxn
  <1> QED BY <1>1, <1>2, <1>3, <1>4 DEF TxInv

\* Every step keeps it.
LEMMA TxInvHolds == TxInv /\ [TxNext]_txVars => TxInv'
PROOF
  <1> SUFFICES ASSUME TxInv, [TxNext]_txVars PROVE TxInv'
    OBVIOUS
  <1>1. CASE UNCHANGED txVars
    <2>1. UNCHANGED poolVars /\ UNCHANGED <<sessVars, hist, state, open, asks, needReset>>
      BY <1>1 DEF txVars
    <2>2. PoolTypeOK' /\ PlaceMatches' /\ Holders' = Holders
      BY <2>1 DEF TxInv, PoolInv, poolVars, PoolTypeOK, PlaceMatches, Holders
    <2>3. PoolInv'
      BY <2>1, <2>2, PoolUntouched DEF TxInv, poolVars
    <2>4. TxTypeOK'
      BY <2>1, <2>3 DEF TxInv, TxTypeOK, PoolInv, sessVars, hist
    <2>5. ASSUME NEW t \in Session PROVE SessionInv(t)'
      <3>1. Same(t)
        BY <2>1 DEF Same, sessVars, hist, poolVars
      <3> QED BY <3>1, SameKeeps DEF TxInv
    <2>6. IdleWithoutTxn'
      BY <2>1 DEF TxInv, IdleWithoutTxn, poolVars, hist
    <2> QED BY <2>3, <2>4, <2>5, <2>6 DEF TxInv
  <1>2. CASE TxNext
    BY <1>2, BorrowKeeps, DialKeeps, GreetKeeps, ApplyPreludeKeeps, AskKeeps, ServeKeeps,
       FailsKeep, LeaveKeeps, CloseKeeps, DieKeeps DEF TxNext
  <1> QED BY <1>1, <1>2

\* It is an invariant of the specification.
LEMMA TxInvAlways == TxSpec => []TxInv
PROOF
  BY TxInvStarts, TxInvHolds, PTL DEF TxSpec

-----------------------------------------------------------------------------
(***************************************************************************)
(* The results.                                                            *)
(***************************************************************************)

\* The type invariant of the multiplexing mode; in particular no transaction
\* count, of a client, of a backend or in txnDepth, goes below zero.
THEOREM TxTypes == TxSpec => []TxTypeOK
PROOF
  <1>1. TxInv => TxTypeOK
    BY DEF TxInv
  <1> QED BY <1>1, TxInvAlways, PTL

\* Giving a backend back between requests and borrowing another leaks no slot of
\* the pool and issues none too many, on the failing paths either.
THEOREM TxSlotsNeverLeak == TxSpec => []SlotsConserved
PROOF
  <1>1. TxInv => SlotsConserved
    BY DEF TxInv, PoolInv
  <1> QED BY <1>1, TxInvAlways, PTL

\* A backend is never in the hands of two sessions, nor held and idle at once.
THEOREM TxBackendsNeverShared == TxSpec => []OneUserPerBackend
PROOF
  <1>1. TxInv => OneUserPerBackend
    BY DEF TxInv, PoolInv
  <1> QED BY <1>1, TxInvAlways, PTL

\* A session with a transaction open keeps the backend it is open on, and none
\* runs inside a transaction somebody else has left behind, whatever mixture of
\* transaction manager requests, text batches and cancels the clients send and
\* wherever they close; except for the rest of a transaction in which the client
\* has rolled back to a savepoint.
THEOREM TxnsStayHome == TxSpec => []TxnStaysHome
PROOF
  <1>1. ASSUME TxInv, NEW s \in Session, pc[s] \in {"relay", "forward"}, s \notin torn
        PROVE  IF be[s] = NoConn \/ needReset[s] THEN txns[s] = 0 ELSE open[be[s]] = txns[s]
    <2>1. PlaceMatches /\ SessionInv(s)
      BY <1>1 DEF TxInv, PoolInv
    <2>2. CASE be[s] = NoConn
      BY <1>1, <2>1, <2>2 DEF PlaceMatches, SessionInv, Placed, Swappable
    <2>3. CASE be[s] # NoConn
      BY <1>1, <2>1, <2>3 DEF SessionInv, TxnsMatch, Relays
    <2> QED BY <2>2, <2>3
  <1>2. TxInv => TxnStaysHome
    BY <1>1 DEF TxnStaysHome
  <1> QED BY <1>2, TxInvAlways, PTL

\* A backend in the idle channel has a transaction open only if the client that
\* gave it back closed inside the transaction or rolled back to a savepoint.
THEOREM IdleBackendsHaveNoTxn == TxSpec => []IdleWithoutTxn
PROOF
  <1>1. TxInv => IdleWithoutTxn
    BY DEF TxInv
  <1> QED BY <1>1, TxInvAlways, PTL

\* Without INSERT BULK, which the classifier lets pass, a request finds its own
\* client's session state on its backend and no other, across every swap.
THEOREM StateFollowsClient ==
    ASSUME "insertBulk" \notin TxKind
    PROVE  TxSpec => []OwnStateAtHand
PROOF
  <1>1. ASSUME TxInv, NEW s \in Session, Ready(s)
        PROVE  IF needReset[s] THEN own[s] = {} ELSE state[be[s]] = {s} \X own[s]
    BY <1>1 DEF TxInv, PoolInv, PlaceMatches, SessionInv, StateMatches, Relays, Ready
  <1>2. TxInv => OwnStateAtHand
    BY <1>1 DEF OwnStateAtHand
  <1> QED BY <1>2, TxInvAlways, PTL

\* Every step of the multiplexing mode is a step of the pool's contract, or none.
LEMMA TxStepsAllowed == TxInv /\ [TxNext]_txVars => Allowed
PROOF
  <1> SUFFICES ASSUME TxInv, [TxNext]_txVars PROVE Allowed
    OBVIOUS
  <1>0. PoolInv
    BY DEF TxInv
  <1>1. ASSUME NEW s \in Session, Borrow(s) PROVE Allowed
    BY <1>0, <1>1, MovesAllowed, AcquireIdleAllowed, AcquireTokenAllowed, DialAllowed
       DEF Borrow
  <1>2. ASSUME NEW s \in Session, ColdLogin(s) PROVE Allowed
    <2>1. PICK c \in Conn, r \in {"ok", "error"} : DialAnswered(s, c, r)
      BY <1>2 DEF ColdLogin
    <2>2. PICK to \in {"relay", "got"} : pc' = [pc EXCEPT ![s] = to]
      BY <1>2 DEF ColdLogin
    <2> QED BY <1>0, <2>1, <2>2, DialAllowed
  <1>3. ASSUME NEW s \in Session,
               ReplayLogin(s) \/ ApplyPrelude(s) \/ (\E k \in TxKind : Ask(s, k)) \/ ClientLeaves(s)
        PROVE  Allowed
    <2>1. UNCHANGED <<idle, tokens, be>>
      BY <1>3 DEF ReplayLogin, ApplyPrelude, Ask, ClientLeaves
    <2>2. CASE ClientLeaves(s)
      BY <2>1, <2>2, StutterAllowed DEF ClientLeaves, Shelf, Reserved, Lent
    <2>3. CASE ~ ClientLeaves(s)
      <3>1. pc[s] # "dial"
        BY <1>3, <2>3 DEF ReplayLogin, ApplyPrelude, Ask
      <3>2. \E to \in {"relay", "forward", "acquire"} : pc' = [pc EXCEPT ![s] = to]
        BY <1>3, <2>3 DEF ReplayLogin, ApplyPrelude, Ask
      <3> QED BY <1>0, <2>1, <3>1, <3>2, PlaceAllowed
    <2> QED BY <2>2, <2>3
  <1>4. ASSUME NEW s \in Session, ReplayFails(s) \/ ServeFails(s) PROVE Allowed
    <2>1. /\ be[s] # NoConn /\ Discard(be[s])
          /\ pc' = [pc EXCEPT ![s] = "done"] /\ be' = [be EXCEPT ![s] = NoConn]
      BY <1>0, <1>4 DEF ReplayFails, ServeFails, EndWith, PoolInv, PlaceMatches
    <2> QED BY <1>0, <2>1, GiveBackAllowed
  <1>5. ASSUME NEW s \in Session, Serve(s) PROVE Allowed
    <2>1. pc[s] = "forward" /\ be[s] # NoConn /\ pc' = [pc EXCEPT ![s] = "relay"]
      BY <1>0, <1>5 DEF Serve, PoolInv, PlaceMatches
    <2>2. CASE UNCHANGED <<idle, tokens, sock, be, grant>>
      BY <1>0, <2>1, <2>2, PlaceAllowed
    <2>3. CASE Return(be[s]) /\ be' = [be EXCEPT ![s] = NoConn]
      BY <1>0, <2>1, <2>3, GiveBackAllowed
    <2> QED BY <1>5, <2>2, <2>3 DEF Serve
  <1>6. ASSUME NEW s \in Session, Close(s) PROVE Allowed
    <2>1. /\ pc[s] = "relay" /\ pc' = [pc EXCEPT ![s] = "done"]
          /\ be' = [be EXCEPT ![s] = NoConn]
      BY <1>6 DEF Close, EndWith
    <2>2. CASE be[s] = NoConn
      <3>1. UNCHANGED <<idle, tokens, be>>
        BY <1>0, <1>6, <2>1, <2>2 DEF Close, EndWith, PoolInv, PoolTypeOK
      <3> QED BY <1>0, <2>1, <3>1, PlaceAllowed
    <2>3. CASE be[s] # NoConn
      <3>1. Discard(be[s]) \/ Return(be[s])
        BY <1>6, <2>3 DEF Close, EndWith
      <3> QED BY <1>0, <2>1, <2>3, <3>1, GiveBackAllowed
    <2> QED BY <2>2, <2>3
  <1>7. ASSUME NEW c \in Conn, BackendDies(c) PROVE Allowed
    BY <1>7, DeathAllowed DEF BackendDies
  <1>8. CASE UNCHANGED txVars
    BY <1>8, StutterAllowed DEF txVars, poolVars, Shelf, Reserved, Lent
  <1> QED BY <1>1, <1>2, <1>3, <1>4, <1>5, <1>6, <1>7, <1>8 DEF TxNext

\* The multiplexing mode keeps the contract of the pool: slots move only as
\* PoolContract says, and a backend changes hands only over the shelf.
THEOREM TxImplementsPool == TxSpec => ImplementsPool
PROOF
  <1>1. TxInit => Contract!Init
    BY ContractStarts DEF TxInit
  <1>2. TxInv /\ [TxNext]_txVars => [Contract!Next]_(Contract!vars)
    BY TxStepsAllowed DEF Allowed
  <1> QED BY <1>1, <1>2, TxInvAlways, PTL DEF TxSpec, ImplementsPool, Contract!Spec

=============================================================================
