--------------------------- MODULE TdsPoolProofs ---------------------------
(***************************************************************************)
(* Each operation of the pool keeps the slots of a key conserved and its   *)
(* backends in one pair of hands.  The lemmas are about the actions of     *)
(* TdsPool alone; the proofs about a mode of the proxy cite them.          *)
(***************************************************************************)
EXTENDS TdsPool, FiniteSetTheorems, TLAPS

\* Between operations a session without a backend is in one of these places.
Outside == {"new", "acquire", "wait", "dial", "refused", "done"}

\* Where a session is says whether it holds a backend, and one that has used up
\* its attempts is refused.
PlaceMatches ==
    \A s \in Session :
        /\ tries[s] = MaxTries => pc[s] = "refused"
        /\ pc[s] \in Outside => be[s] = NoConn
        /\ pc[s] \in {"probe", "got", "forward"} => be[s] # NoConn

PoolInv == PoolTypeOK /\ PlaceMatches /\ SlotsConserved /\ OneUserPerBackend

\* The holders are counted: the number of sessions is finite.
LEMMA HoldersFinite ==
    IsFiniteSet(Holders) /\ Cardinality(Holders) \in Nat
PROOF
  <1>1. Holders \subseteq Session
    BY DEF Holders
  <1>2. IsFiniteSet(Holders)
    BY <1>1, PoolAssumption, FS_Subset
  <1> QED BY <1>2, FS_CardinalityType

\* One more session holds a slot.
LEMMA HoldersGrow ==
    ASSUME NEW s, s \notin Holders, Holders' = Holders \union {s}
    PROVE  Cardinality(Holders') = Cardinality(Holders) + 1
PROOF
  <1>1. Cardinality(Holders \union {s}) = Cardinality(Holders) + 1
    BY HoldersFinite, FS_AddElement
  <1> QED BY <1>1

\* One session less holds a slot.
LEMMA HoldersShrink ==
    ASSUME NEW s, s \in Holders, Holders' = Holders \ {s}
    PROVE  /\ Cardinality(Holders') = Cardinality(Holders) - 1
           /\ Cardinality(Holders) > 0
PROOF
  <1>1. Cardinality(Holders \ {s}) = Cardinality(Holders) - 1
    BY HoldersFinite, FS_RemoveElement
  <1>2. IsFiniteSet(Holders \ {s})
    BY HoldersFinite, FS_RemoveElement
  <1>3. Cardinality(Holders \ {s}) \in Nat
    BY <1>2, FS_CardinalityType
  <1> QED BY <1>1, <1>3, HoldersFinite

-----------------------------------------------------------------------------
(***************************************************************************)
(* What happens to the slots and the backends when a session moves without *)
(* touching the pool, takes from it, or gives back to it.                  *)
(***************************************************************************)

\* A session moves on and the pool is left alone.
LEMMA PoolUntouched ==
    ASSUME PoolInv, PoolTypeOK', PlaceMatches',
           UNCHANGED <<idle, tokens, be>>,
           Holders' = Holders,
           \A c \in Conn : sock[c] # "closed" => sock'[c] # "closed"
    PROVE  PoolInv'
PROOF
  <1>1. SlotsConserved'
    BY DEF PoolInv, SlotsConserved
  <1>2. OneUserPerBackend'
    BY DEF PoolInv, OneUserPerBackend, PoolTypeOK
  <1> QED BY <1>1, <1>2 DEF PoolInv

\* A session s gives its slot back through Discard, closing its backend if it
\* has one.
LEMMA DiscardKeepsPool ==
    ASSUME PoolInv, PoolTypeOK', PlaceMatches',
           NEW s \in Session, s \in Holders, Holders' = Holders \ {s},
           Discard(be[s]), be' = [be EXCEPT ![s] = NoConn]
    PROVE  PoolInv'
PROOF
  <1>1. /\ Cardinality(Holders') = Cardinality(Holders) - 1
        /\ Cardinality(Holders) > 0
    BY HoldersShrink
  <1>2. SlotsConserved'
    BY <1>1, HoldersFinite, PoolAssumption
       DEF PoolInv, SlotsConserved, Discard, PoolTypeOK
  <1>3. \A c \in Conn : c # be[s] => sock'[c] = sock[c]
    BY DEF Discard, PoolInv, PoolTypeOK
  <1>4. \A i \in DOMAIN idle : idle[i] \in Conn /\ idle[i] # be[s]
    <2>1. \A i \in DOMAIN idle : idle[i] \in Conn
      BY DEF PoolInv, PoolTypeOK
    <2>2. be[s] # NoConn => \A i \in DOMAIN idle : idle[i] # be[s]
      BY DEF PoolInv, OneUserPerBackend
    <2> QED BY <2>1, <2>2, PoolAssumption
  <1>5. \A t \in Session : be'[t] # NoConn => t # s /\ be'[t] = be[t] /\ be[t] # be[s] /\ be[t] \in Conn
    BY DEF PoolInv, PoolTypeOK, OneUserPerBackend
  <1>6. idle' = idle
    BY DEF Discard
  <1>7. OneUserPerBackend'
    <2>1. \A i, j \in DOMAIN idle : idle[i] = idle[j] => i = j
      BY DEF PoolInv, OneUserPerBackend
    <2>2. \A i \in DOMAIN idle : sock'[idle[i]] # "closed"
      BY <1>3, <1>4 DEF PoolInv, OneUserPerBackend
    <2>3. ASSUME NEW t \in Session, be'[t] # NoConn
          PROVE  /\ sock'[be'[t]] # "closed"
                 /\ \A i \in DOMAIN idle : idle[i] # be'[t]
                 /\ \A u \in Session : be'[u] = be'[t] => u = t
      BY <1>3, <1>5, <2>3 DEF PoolInv, OneUserPerBackend
    <2> QED BY <1>6, <2>1, <2>2, <2>3 DEF OneUserPerBackend
  <1> QED BY <1>2, <1>7 DEF PoolInv

\* A session s hands its backend to the idle channel.
LEMMA ReturnKeepsPool ==
    ASSUME PoolInv, PoolTypeOK', PlaceMatches',
           NEW s \in Session, be[s] # NoConn, Holders' = Holders \ {s},
           Return(be[s]), be' = [be EXCEPT ![s] = NoConn]
    PROVE  PoolInv'
PROOF
  <1>0. s \in Holders
    BY DEF Holders
  <1>1. /\ Cardinality(Holders') = Cardinality(Holders) - 1
        /\ Cardinality(Holders) > 0
    BY <1>0, HoldersShrink
  <1>2. Len(idle) < PoolMax
    BY <1>1, HoldersFinite, PoolAssumption DEF PoolInv, SlotsConserved, PoolTypeOK
  <1>3. idle' = Append(idle, be[s]) /\ tokens' = tokens /\ sock' = sock
    BY <1>2 DEF Return
  <1>4. be[s] \in Conn /\ idle \in Seq(Conn)
    BY DEF PoolInv, PoolTypeOK
  <1>5. /\ Len(idle') = Len(idle) + 1
        /\ DOMAIN idle' = 1 .. Len(idle) + 1
        /\ DOMAIN idle = 1 .. Len(idle)
        /\ Len(idle) \in Nat
        /\ \A i \in 1 .. Len(idle) : idle'[i] = idle[i]
        /\ idle'[Len(idle) + 1] = be[s]
    BY <1>3, <1>4
  <1>6. SlotsConserved'
    BY <1>1, <1>3, <1>5, HoldersFinite, PoolAssumption
       DEF PoolInv, SlotsConserved, PoolTypeOK
  <1>7. OneUserPerBackend'
    <2>1. ASSUME NEW i \in DOMAIN idle', NEW j \in DOMAIN idle', idle'[i] = idle'[j]
          PROVE  i = j
      BY <1>5, <2>1 DEF PoolInv, OneUserPerBackend
    <2>2. ASSUME NEW i \in DOMAIN idle'
          PROVE  sock'[idle'[i]] # "closed"
      BY <1>3, <1>5 DEF PoolInv, OneUserPerBackend
    <2>3. ASSUME NEW t \in Session, be'[t] # NoConn
          PROVE  /\ sock'[be'[t]] # "closed"
                 /\ \A i \in DOMAIN idle' : idle'[i] # be'[t]
                 /\ \A u \in Session : be'[u] = be'[t] => u = t
      <3>1. t # s /\ be'[t] = be[t] /\ be[t] # be[s]
        BY <2>3 DEF PoolInv, PoolTypeOK, OneUserPerBackend
      <3> QED BY <1>3, <1>5, <2>3, <3>1 DEF PoolInv, PoolTypeOK, OneUserPerBackend
    <2> QED BY <2>1, <2>2, <2>3 DEF OneUserPerBackend
  <1> QED BY <1>6, <1>7 DEF PoolInv

-----------------------------------------------------------------------------
(***************************************************************************)
(* The actions of TdsPool.                                                 *)
(***************************************************************************)

\* A session that neither takes nor gives only changes its place.
LEMMA MovesKeepPool ==
    ASSUME PoolInv, NEW s \in Session,
           Connect(s) \/ AcquireBlocks(s) \/ AcquireTimeout(s)
             \/ ProbePasses(s, TRUE) \/ ProbePasses(s, FALSE)
    PROVE  PoolInv'
PROOF
  <1>1. UNCHANGED <<idle, tokens, loginResp, sock, deaths, be, grant, tries, gone>>
    BY DEF Connect, AcquireBlocks, AcquireTimeout, ProbePasses
  <1>2. \E to \in {"acquire", "wait", "refused", "got"} :
           /\ pc' = [pc EXCEPT ![s] = to]
           /\ pc[s] \notin {"dial", "refused"}
           /\ to # "got" => pc[s] \in Outside
           /\ to = "got" => pc[s] = "probe"
    BY DEF Connect, AcquireBlocks, AcquireTimeout, ProbePasses, Outside
  <1>3. PICK to \in {"acquire", "wait", "refused", "got"} :
           /\ pc' = [pc EXCEPT ![s] = to]
           /\ pc[s] \notin {"dial", "refused"}
           /\ to # "got" => pc[s] \in Outside
           /\ to = "got" => pc[s] = "probe"
    BY <1>2
  <1>4. PoolTypeOK'
    BY <1>1, <1>3 DEF PoolInv, PoolTypeOK
  <1>5. PlaceMatches'
    BY <1>1, <1>3 DEF PoolInv, PoolTypeOK, PlaceMatches, Outside
  <1>6. Holders' = Holders
    BY <1>1, <1>3 DEF PoolInv, PoolTypeOK, Holders
  <1> QED BY <1>1, <1>4, <1>5, <1>6, PoolUntouched

\* An idle backend leaves the channel for the session that received it.
LEMMA AcquireIdleKeepsPool ==
    ASSUME PoolInv, NEW s \in Session, AcquireIdle(s)
    PROVE  PoolInv'
PROOF
  <1>1. /\ idle \in Seq(Conn) /\ idle # <<>> /\ idle' = Tail(idle)
        /\ UNCHANGED <<tokens, loginResp, sock, deaths, tries, gone>>
        /\ be' = [be EXCEPT ![s] = Head(idle)]
        /\ pc' = [pc EXCEPT ![s] = "probe"]
        /\ grant' = [grant EXCEPT ![s] = "warm"]
        /\ pc[s] \in {"acquire", "wait"}
    BY DEF AcquireIdle, PoolInv, PoolTypeOK
  <1>2. /\ Len(idle) \in Nat \ {0}
        /\ DOMAIN idle = 1 .. Len(idle)
        /\ Head(idle) = idle[1] /\ Head(idle) \in Conn
        /\ idle' \in Seq(Conn)
        /\ Len(idle') = Len(idle) - 1
        /\ DOMAIN idle' = 1 .. Len(idle) - 1
        /\ \A i \in 1 .. Len(idle) - 1 : idle'[i] = idle[i + 1]
    BY <1>1
  <1>3. be[s] = NoConn /\ pc[s] # "dial" /\ Head(idle) # NoConn
    BY <1>1, <1>2, PoolAssumption DEF PoolInv, PlaceMatches, Outside
  <1>4. PoolTypeOK'
    BY <1>1, <1>2 DEF PoolInv, PoolTypeOK
  <1>5. PlaceMatches'
    BY <1>1, <1>3 DEF PoolInv, PoolTypeOK, PlaceMatches, Outside
  <1>6. s \notin Holders /\ Holders' = Holders \union {s}
    BY <1>1, <1>3 DEF PoolInv, PoolTypeOK, Holders
  <1>6a. Cardinality(Holders') = Cardinality(Holders) + 1
    BY <1>6, HoldersGrow
  <1>7. SlotsConserved'
    BY <1>1, <1>2, <1>6a, HoldersFinite, PoolAssumption
       DEF PoolInv, SlotsConserved, PoolTypeOK
  <1>8. OneUserPerBackend'
    <2>1. ASSUME NEW i \in DOMAIN idle', NEW j \in DOMAIN idle', idle'[i] = idle'[j]
          PROVE  i = j
      BY <1>2, <2>1 DEF PoolInv, OneUserPerBackend
    <2>2. ASSUME NEW i \in DOMAIN idle'
          PROVE  sock'[idle'[i]] # "closed" /\ idle'[i] # idle[1]
      BY <1>1, <1>2 DEF PoolInv, OneUserPerBackend
    <2>3. ASSUME NEW t \in Session, be'[t] # NoConn
          PROVE  /\ sock'[be'[t]] # "closed"
                 /\ \A i \in DOMAIN idle' : idle'[i] # be'[t]
                 /\ \A u \in Session : be'[u] = be'[t] => u = t
      <3>1. CASE t = s
        <4>1. be'[t] = idle[1] /\ 1 \in DOMAIN idle
          BY <1>1, <1>2, <3>1 DEF PoolInv, PoolTypeOK
        <4>2. sock'[be'[t]] # "closed" /\ \A i \in DOMAIN idle' : idle'[i] # be'[t]
          BY <1>1, <2>2, <4>1 DEF PoolInv, OneUserPerBackend
        <4>3. ASSUME NEW u \in Session, u # s PROVE be'[u] # be'[t]
          <5>1. be'[u] = be[u]
            BY <1>1, <4>3 DEF PoolInv, PoolTypeOK
          <5>2. CASE be[u] = NoConn
            BY <1>2, <1>3, <4>1, <5>1, <5>2
          <5>3. CASE be[u] # NoConn
            BY <4>1, <5>1, <5>3 DEF PoolInv, OneUserPerBackend
          <5> QED BY <5>2, <5>3
        <4> QED BY <3>1, <4>2, <4>3
      <3>2. CASE t # s
        <4>1. be'[t] = be[t] /\ be[t] # NoConn /\ be[t] # idle[1]
          BY <1>1, <1>2, <2>3, <3>2 DEF PoolInv, PoolTypeOK, OneUserPerBackend
        <4>2. \A u \in Session : be'[u] = be'[t] => u = t
          BY <1>1, <1>2, <4>1, <3>2 DEF PoolInv, PoolTypeOK, OneUserPerBackend
        <4> QED BY <1>1, <1>2, <4>1, <4>2 DEF PoolInv, OneUserPerBackend
      <3> QED BY <3>1, <3>2
    <2> QED BY <2>1, <2>2, <2>3 DEF OneUserPerBackend
  <1> QED BY <1>4, <1>5, <1>7, <1>8 DEF PoolInv

\* A free slot becomes a reserved one.
LEMMA AcquireTokenKeepsPool ==
    ASSUME PoolInv, NEW s \in Session, AcquireToken(s)
    PROVE  PoolInv'
PROOF
  <1>1. /\ pc[s] = "wait" /\ tokens > 0 /\ tokens' = tokens - 1
        /\ pc' = [pc EXCEPT ![s] = "dial"]
        /\ grant' = [grant EXCEPT ![s] = "cold"]
        /\ UNCHANGED <<idle, loginResp, sock, deaths, be, tries, gone>>
    BY DEF AcquireToken
  <1>2. be[s] = NoConn
    BY <1>1 DEF PoolInv, PlaceMatches, Outside
  <1>3. PoolTypeOK'
    BY <1>1, PoolAssumption DEF PoolInv, PoolTypeOK
  <1>4. PlaceMatches'
    BY <1>1, <1>2 DEF PoolInv, PoolTypeOK, PlaceMatches, Outside
  <1>5. s \notin Holders /\ Holders' = Holders \union {s}
    BY <1>1, <1>2 DEF PoolInv, PoolTypeOK, Holders
  <1>5a. Cardinality(Holders') = Cardinality(Holders) + 1
    BY <1>5, HoldersGrow
  <1>6. SlotsConserved'
    BY <1>1, <1>5a, HoldersFinite, PoolAssumption
       DEF PoolInv, SlotsConserved, PoolTypeOK
  <1>7. OneUserPerBackend'
    BY <1>1 DEF PoolInv, OneUserPerBackend
  <1> QED BY <1>3, <1>4, <1>6, <1>7 DEF PoolInv

\* A reserved slot becomes an open backend, one that nobody else can have.
LEMMA DialKeepsPool ==
    ASSUME PoolInv, NEW s \in Session, NEW c \in Conn, NEW resp \in {"ok", "error"},
           DialAnswered(s, c, resp),
           NEW to \in {"relay", "got"}, pc' = [pc EXCEPT ![s] = to]
    PROVE  PoolInv'
PROOF
  <1>1. /\ pc[s] = "dial" /\ sock[c] = "closed"
        /\ sock' = [sock EXCEPT ![c] = IF resp = "ok" THEN "open" ELSE "dead"]
        /\ loginResp' \in {"ok", "error"} \union {loginResp}
        /\ be' = [be EXCEPT ![s] = c]
        /\ UNCHANGED <<idle, tokens, deaths, grant, tries, gone>>
    BY DEF DialAnswered, CaptureLogin
  <1>2. be[s] = NoConn /\ c # NoConn
    BY <1>1, PoolAssumption DEF PoolInv, PlaceMatches, Outside
  <1>3. PoolTypeOK'
    BY <1>1 DEF PoolInv, PoolTypeOK
  <1>4. PlaceMatches'
    BY <1>1, <1>2 DEF PoolInv, PoolTypeOK, PlaceMatches, Outside
  <1>5. Holders' = Holders
    BY <1>1, <1>2 DEF PoolInv, PoolTypeOK, Holders
  <1>6. SlotsConserved'
    BY <1>1, <1>5 DEF PoolInv, SlotsConserved
  <1>7. OneUserPerBackend'
    <2>1. \A i \in DOMAIN idle : idle[i] \in Conn /\ idle[i] # c
      BY <1>1 DEF PoolInv, PoolTypeOK, OneUserPerBackend
    <2>2. \A t \in Session : t # s => be'[t] = be[t] /\ be[t] # c
      BY <1>1, <1>2 DEF PoolInv, PoolTypeOK, OneUserPerBackend
    <2>3. ASSUME NEW t \in Session, be'[t] # NoConn
          PROVE  /\ sock'[be'[t]] # "closed"
                 /\ \A i \in DOMAIN idle : idle[i] # be'[t]
                 /\ \A u \in Session : be'[u] = be'[t] => u = t
      <3>1. CASE t = s
        BY <1>1, <2>1, <2>2, <3>1 DEF PoolInv, PoolTypeOK
      <3>2. CASE t # s
        BY <1>1, <2>2, <2>3, <3>2 DEF PoolInv, PoolTypeOK, OneUserPerBackend
      <3> QED BY <3>1, <3>2
    <2>4. /\ \A i, j \in DOMAIN idle : idle[i] = idle[j] => i = j
          /\ \A i \in DOMAIN idle : sock'[idle[i]] # "closed"
      BY <1>1, <2>1 DEF PoolInv, PoolTypeOK, OneUserPerBackend
    <2> QED BY <1>1, <2>3, <2>4 DEF OneUserPerBackend
  <1> QED BY <1>3, <1>4, <1>6, <1>7 DEF PoolInv

\* A dead or unquiet idle backend is evicted.
LEMMA ProbeEvictsKeepsPool ==
    ASSUME PoolInv, NEW s \in Session, NEW quiet, ProbeEvicts(s, quiet)
    PROVE  PoolInv'
PROOF
  <1>1. /\ pc[s] = "probe" /\ Discard(be[s])
        /\ be' = [be EXCEPT ![s] = NoConn]
        /\ grant' = [grant EXCEPT ![s] = "none"]
        /\ tries' = [tries EXCEPT ![s] = @ + 1]
        /\ pc' = [pc EXCEPT ![s] = IF tries[s] + 1 = MaxTries THEN "refused" ELSE "acquire"]
        /\ UNCHANGED <<loginResp, deaths, gone>>
    BY DEF ProbeEvicts
  <1>2. /\ be[s] # NoConn /\ be[s] \in Conn
        /\ tries[s] \in 0 .. MaxTries - 1
    BY <1>1, PoolAssumption DEF PoolInv, PoolTypeOK, PlaceMatches
  <1>3. PoolTypeOK'
    BY <1>1, <1>2, PoolAssumption DEF PoolInv, PoolTypeOK, Discard
  <1>4. PlaceMatches'
    BY <1>1, <1>2, PoolAssumption DEF PoolInv, PoolTypeOK, PlaceMatches, Outside
  <1>5. s \in Holders /\ Holders' = Holders \ {s}
    BY <1>1, <1>2 DEF PoolInv, PoolTypeOK, Holders
  <1> QED BY <1>1, <1>3, <1>4, <1>5, DiscardKeepsPool

\* The cold login fails and the reserved slot is released.
LEMMA DialFailsKeepsPool ==
    ASSUME PoolInv, NEW s \in Session, DialFails(s)
    PROVE  PoolInv'
PROOF
  <1>1. /\ pc[s] = "dial" /\ Discard(NoConn)
        /\ be' = [be EXCEPT ![s] = NoConn]
        /\ pc' = [pc EXCEPT ![s] = "done"]
        /\ UNCHANGED <<loginResp, deaths, grant, tries, gone>>
    BY DEF DialFails, EndWith
  <1>2. be[s] = NoConn
    BY <1>1 DEF PoolInv, PlaceMatches, Outside
  <1>3. PoolTypeOK'
    BY <1>1, PoolAssumption DEF PoolInv, PoolTypeOK, Discard
  <1>4. PlaceMatches'
    BY <1>1 DEF PoolInv, PoolTypeOK, PlaceMatches, Outside
  <1>5. s \in Holders /\ Holders' = Holders \ {s}
    BY <1>1, <1>2 DEF PoolInv, PoolTypeOK, Holders
  <1> QED BY <1>1, <1>2, <1>3, <1>4, <1>5, DiscardKeepsPool

\* A session ends and gives its backend up, either way.
LEMMA EndKeepsPool ==
    ASSUME PoolInv, NEW s \in Session, be[s] # NoConn, pc[s] # "refused",
           EndWith(s, Discard(be[s])) \/ EndWith(s, Return(be[s])),
           UNCHANGED <<loginResp, deaths, grant, tries, gone>>
    PROVE  PoolInv'
PROOF
  <1>1. /\ be' = [be EXCEPT ![s] = NoConn]
        /\ pc' = [pc EXCEPT ![s] = "done"]
        /\ Discard(be[s]) \/ Return(be[s])
    BY DEF EndWith
  <1>2. PoolTypeOK'
    <2>1. be[s] \in Conn
      BY DEF PoolInv, PoolTypeOK
    <2>2. idle' \in Seq(Conn)
      <3>1. idle \in Seq(Conn) /\ Append(idle, be[s]) \in Seq(Conn)
        BY <2>1 DEF PoolInv, PoolTypeOK
      <3>2. idle' = idle \/ idle' = Append(idle, be[s])
        BY <1>1 DEF Discard, Return
      <3> QED BY <3>1, <3>2
    <2>3. tokens' \in 0 .. PoolMax
      BY <1>1, PoolAssumption DEF PoolInv, PoolTypeOK, Discard, Return
    <2>4. sock' \in [Conn -> {"closed", "open", "dead"}]
      BY <1>1, <2>1 DEF PoolInv, PoolTypeOK, Discard, Return
    <2> QED BY <1>1, <2>2, <2>3, <2>4 DEF PoolInv, PoolTypeOK
  <1>3. PlaceMatches'
    BY <1>1 DEF PoolInv, PoolTypeOK, PlaceMatches, Outside
  <1>4. s \in Holders /\ Holders' = Holders \ {s}
    BY <1>1 DEF PoolInv, PoolTypeOK, Holders
  <1> QED BY <1>1, <1>2, <1>3, <1>4, DiscardKeepsPool, ReturnKeepsPool

\* A dead backend keeps its slot until somebody notices.
LEMMA DeathKeepsPool ==
    ASSUME PoolInv, NEW c \in Conn, ConnDies(c)
    PROVE  PoolInv'
PROOF
  <1>1. /\ UNCHANGED <<idle, tokens, loginResp, pc, be, grant, tries, gone>>
        /\ sock' = [sock EXCEPT ![c] = "dead"]
        /\ deaths < MaxDeaths /\ deaths' = deaths + 1
    BY DEF ConnDies
  <1>2. PoolTypeOK'
    BY <1>1, PoolAssumption DEF PoolInv, PoolTypeOK
  <1>3. PlaceMatches' /\ Holders' = Holders
    BY <1>1 DEF PoolInv, PlaceMatches, Holders
  <1>4. \A d \in Conn : sock[d] # "closed" => sock'[d] # "closed"
    BY <1>1 DEF PoolInv, PoolTypeOK
  <1> QED BY <1>1, <1>2, <1>3, <1>4, PoolUntouched

\* The pool starts with every slot free.
LEMMA PoolStarts == PoolInit => PoolInv
PROOF
  <1> SUFFICES ASSUME PoolInit PROVE PoolInv
    OBVIOUS
  <1>1. PoolTypeOK
    BY PoolAssumption DEF PoolInit, PoolTypeOK
  <1>2. PlaceMatches
    BY PoolAssumption DEF PoolInit, PlaceMatches, Outside
  <1>3. Holders = {}
    BY DEF PoolInit, Holders
  <1>4. SlotsConserved
    BY <1>3, FS_EmptySet, PoolAssumption DEF PoolInit, SlotsConserved
  <1>5. OneUserPerBackend
    BY DEF PoolInit, OneUserPerBackend
  <1> QED BY <1>1, <1>2, <1>4, <1>5 DEF PoolInv

-----------------------------------------------------------------------------
(***************************************************************************)
(* The same operations as steps of PoolContract.                           *)
(***************************************************************************)

Shelf == {idle[i] : i \in DOMAIN idle}
Reserved == {s \in Session : pc[s] = "dial"}
Lent == {p \in Session \X Conn : be[p[1]] = p[2]}

\* A step the contract allows.
Allowed == Contract!Next \/ UNCHANGED Contract!vars

\* A step that touches nothing of the pool is none of the contract.
LEMMA StutterAllowed ==
    ASSUME tokens' = tokens, Shelf' = Shelf, Reserved' = Reserved, Lent' = Lent
    PROVE  Allowed
PROOF BY DEF Allowed, Contract!vars, Shelf, Reserved, Lent

\* What a session has borrowed grows by the backend it is given ...
LEMMA LentGrows ==
    ASSUME PoolInv, NEW s \in Session, NEW c \in Conn, be[s] = NoConn,
           be' = [be EXCEPT ![s] = c]
    PROVE  /\ Lent' = Lent \union {<<s, c>>}
           /\ \A d \in Conn : <<s, d>> \notin Lent
PROOF
  <1>1. be \in [Session -> Conn \union {NoConn}] /\ NoConn \notin Conn
    BY PoolAssumption DEF PoolInv, PoolTypeOK
  <1>2. \A t \in Session, d \in Conn :
           <<t, d>> \in Lent' <=> <<t, d>> \in Lent \/ (t = s /\ d = c)
    BY <1>1 DEF Lent
  <1>3. Lent \subseteq Session \X Conn /\ Lent' \subseteq Session \X Conn
    BY DEF Lent
  <1>4. Lent' = Lent \union {<<s, c>>}
    BY <1>2, <1>3
  <1>5. \A d \in Conn : <<s, d>> \notin Lent
    BY <1>1 DEF Lent
  <1> QED BY <1>4, <1>5

\* ... and shrinks by the one it gives up.
LEMMA LentShrinks ==
    ASSUME PoolInv, NEW s \in Session, be[s] # NoConn,
           be' = [be EXCEPT ![s] = NoConn]
    PROVE  /\ be[s] \in Conn /\ <<s, be[s]>> \in Lent
           /\ Lent' = Lent \ {<<s, be[s]>>}
PROOF
  <1>1. be \in [Session -> Conn \union {NoConn}] /\ NoConn \notin Conn
    BY PoolAssumption DEF PoolInv, PoolTypeOK
  <1>2. \A t \in Session, d \in Conn :
           <<t, d>> \in Lent' <=> <<t, d>> \in Lent /\ ~ (t = s /\ d = be[s])
    BY <1>1 DEF Lent
  <1>3. Lent \subseteq Session \X Conn /\ Lent' \subseteq Session \X Conn
    BY DEF Lent
  <1>4. Lent' = Lent \ {<<s, be[s]>>}
    BY <1>2, <1>3
  <1> QED BY <1>1, <1>4 DEF Lent

\* Whoever holds a slot can give it back.
LEMMA SlotFits ==
    ASSUME PoolInv, NEW s \in Session, s \in Holders
    PROVE  tokens < PoolMax /\ Len(idle) < PoolMax
PROOF
  <1>1. Cardinality(Holders) \in Nat /\ IsFiniteSet(Holders)
    BY HoldersFinite
  <1>2. Cardinality(Holders) # 0
    BY <1>1, FS_EmptySet
  <1>3. Len(idle) \in Nat /\ tokens \in Nat /\ PoolMax \in Nat
    BY PoolAssumption DEF PoolInv, PoolTypeOK
  <1> QED BY <1>1, <1>2, <1>3 DEF PoolInv, SlotsConserved

\* Places other than "dial" are all the same to the contract.
LEMMA PlaceAllowed ==
    ASSUME PoolInv, NEW s \in Session, pc[s] # "dial",
           pc' = pc \/ \E to : to # "dial" /\ pc' = [pc EXCEPT ![s] = to],
           UNCHANGED <<idle, tokens, be>>
    PROVE  Allowed
PROOF
  <1>1. Reserved' = Reserved
    BY DEF Reserved, PoolInv, PoolTypeOK
  <1>2. Shelf' = Shelf /\ Lent' = Lent
    BY DEF Shelf, Lent
  <1> QED BY <1>1, <1>2, StutterAllowed

\* A backend is discarded, or put back on the shelf.
LEMMA GiveBackAllowed ==
    ASSUME PoolInv, NEW s \in Session, be[s] # NoConn, NEW to, to # "dial",
           pc' = [pc EXCEPT ![s] = to], be' = [be EXCEPT ![s] = NoConn],
           Discard(be[s]) \/ Return(be[s])
    PROVE  Allowed
PROOF
  <1>0. PICK c \in Conn : c = be[s]
    BY LentShrinks
  <1>1. <<s, c>> \in Lent /\ Lent' = Lent \ {<<s, c>>}
    BY <1>0, LentShrinks
  <1>2. s \in Holders
    BY DEF Holders
  <1>3. tokens < PoolMax /\ Len(idle) < PoolMax
    BY <1>2, SlotFits
  <1>4. pc[s] # "dial" /\ Reserved' = Reserved
    BY DEF Reserved, PoolInv, PoolTypeOK, PlaceMatches, Outside
  <1>5. CASE Discard(c)
    <2>1. tokens' = tokens + 1 /\ Shelf' = Shelf
      BY <1>3, <1>5 DEF Discard, Shelf
    <2>2. Contract!Drop(s, c)
      BY <1>1, <1>4, <2>1 DEF Contract!Drop, Shelf, Reserved, Lent
    <2> QED BY <1>1, <2>2 DEF Allowed, Contract!Next
  <1>6. CASE Return(c)
    <2>1. idle' = Append(idle, c) /\ tokens' = tokens
      BY <1>3, <1>6 DEF Return
    <2>2. idle \in Seq(Conn)
      BY DEF PoolInv, PoolTypeOK
    <2>3. /\ DOMAIN idle = 1 .. Len(idle) /\ DOMAIN idle' = 1 .. Len(idle) + 1
          /\ Len(idle) \in Nat /\ idle'[Len(idle) + 1] = c
          /\ \A i \in 1 .. Len(idle) : idle'[i] = idle[i]
      BY <1>1, <2>1, <2>2
    <2>4. Shelf' = Shelf \union {c}
      BY <2>3 DEF Shelf
    <2>5. Contract!TakeBack(s, c)
      BY <1>1, <1>4, <2>1, <2>4 DEF Contract!TakeBack, Shelf, Reserved, Lent
    <2> QED BY <1>1, <2>5 DEF Allowed, Contract!Next
  <1> QED BY <1>0, <1>5, <1>6

\* Moving about, blocking, timing out and probing.
LEMMA MovesAllowed ==
    ASSUME PoolInv, NEW s \in Session, NEW quiet,
           Connect(s) \/ AcquireBlocks(s) \/ AcquireTimeout(s) \/ ProbePasses(s, quiet)
             \/ ProbeEvicts(s, quiet)
    PROVE  Allowed
PROOF
  <1>1. CASE ProbeEvicts(s, quiet)
    <2>1. Discard(be[s]) /\ be' = [be EXCEPT ![s] = NoConn] /\ be[s] # NoConn
      BY <1>1 DEF ProbeEvicts, PoolInv, PlaceMatches
    <2>2. PICK to \in {"refused", "acquire"} : pc' = [pc EXCEPT ![s] = to]
      BY <1>1 DEF ProbeEvicts
    <2> QED BY <2>1, <2>2, GiveBackAllowed
  <1>2. CASE ~ ProbeEvicts(s, quiet)
    <2>1. /\ pc[s] # "dial" /\ UNCHANGED <<idle, tokens, be>>
          /\ \E to : to # "dial" /\ pc' = [pc EXCEPT ![s] = to]
      BY <1>2 DEF Connect, AcquireBlocks, AcquireTimeout, ProbePasses
    <2> QED BY <2>1, PlaceAllowed
  <1> QED BY <1>1, <1>2

\* An idle backend is lent.
LEMMA AcquireIdleAllowed ==
    ASSUME PoolInv, NEW s \in Session, AcquireIdle(s)
    PROVE  Allowed
PROOF
  <1>0. PICK c \in Conn : c = Head(idle)
    BY DEF AcquireIdle, PoolInv, PoolTypeOK
  <1>1. /\ pc[s] \in {"acquire", "wait"} /\ idle # <<>> /\ idle' = Tail(idle)
        /\ be' = [be EXCEPT ![s] = c] /\ pc' = [pc EXCEPT ![s] = "probe"]
        /\ tokens' = tokens
    BY <1>0 DEF AcquireIdle
  <1>2. be[s] = NoConn /\ idle \in Seq(Conn)
    BY <1>1 DEF PoolInv, PoolTypeOK, PlaceMatches, Outside
  <1>3. /\ c \in Conn /\ c = idle[1] /\ DOMAIN idle = 1 .. Len(idle)
        /\ Len(idle) \in Nat \ {0} /\ DOMAIN idle' = 1 .. Len(idle) - 1
        /\ \A i \in DOMAIN idle' : idle'[i] = idle[i + 1]
    BY <1>0, <1>1, <1>2
  <1>4. \A i \in DOMAIN idle : i # 1 => idle[i] # c
    BY <1>3 DEF PoolInv, OneUserPerBackend
  <1>5. c \in Shelf /\ Shelf' = Shelf \ {c}
    <2>1. \A x : x \in Shelf' => x \in Shelf /\ x # c
      BY <1>3, <1>4 DEF Shelf
    <2>2. ASSUME NEW i \in DOMAIN idle, idle[i] # c PROVE idle[i] \in Shelf'
      <3>1. i - 1 \in DOMAIN idle' /\ idle'[i - 1] = idle[i]
        BY <1>3, <2>2
      <3> QED BY <3>1 DEF Shelf
    <2>3. \A x : x \in Shelf /\ x # c => x \in Shelf'
      BY <2>2 DEF Shelf
    <2>4. c \in Shelf
      BY <1>3 DEF Shelf
    <2> QED BY <2>1, <2>3, <2>4
  <1>6. Lent' = Lent \union {<<s, c>>} /\ \A d \in Conn : <<s, d>> \notin Lent
    BY <1>1, <1>2, <1>3, LentGrows
  <1>7. Reserved' = Reserved /\ s \notin Reserved
    BY <1>1 DEF Reserved, PoolInv, PoolTypeOK
  <1>8. Contract!Lend(s, c)
    BY <1>1, <1>5, <1>6, <1>7 DEF Contract!Lend, Contract!Busy, Shelf, Reserved, Lent
  <1> QED BY <1>3, <1>8 DEF Allowed, Contract!Next

\* A free slot is reserved.
LEMMA AcquireTokenAllowed ==
    ASSUME PoolInv, NEW s \in Session, AcquireToken(s)
    PROVE  Allowed
PROOF
  <1>1. /\ pc[s] = "wait" /\ tokens > 0 /\ tokens' = tokens - 1
        /\ pc' = [pc EXCEPT ![s] = "dial"] /\ UNCHANGED <<idle, be>>
    BY DEF AcquireToken
  <1>2. be[s] = NoConn
    BY <1>1 DEF PoolInv, PlaceMatches, Outside
  <1>3. \A d \in Conn : <<s, d>> \notin Lent
    BY <1>2, PoolAssumption DEF Lent
  <1>4. Reserved' = Reserved \union {s} /\ s \notin Reserved
    BY <1>1 DEF Reserved, PoolInv, PoolTypeOK
  <1>5. Shelf' = Shelf /\ Lent' = Lent
    BY <1>1 DEF Shelf, Lent
  <1>6. Contract!Reserve(s)
    BY <1>1, <1>3, <1>4, <1>5 DEF Contract!Reserve, Contract!Busy, Shelf, Reserved, Lent
  <1> QED BY <1>6 DEF Allowed, Contract!Next

\* The reserved slot becomes a backend or is given up.
LEMMA DialAllowed ==
    ASSUME PoolInv, NEW s \in Session,
           \/ DialFails(s)
           \/ \E c \in Conn, r \in {"ok", "error"}, to \in {"relay", "got"} :
                 DialAnswered(s, c, r) /\ pc' = [pc EXCEPT ![s] = to]
    PROVE  Allowed
PROOF
  <1>1. /\ pc[s] = "dial" /\ be[s] = NoConn /\ s \in Reserved /\ s \in Holders
    BY DEF DialFails, DialAnswered, PoolInv, PlaceMatches, Outside, Reserved, Holders
  <1>2. Reserved' = Reserved \ {s}
    <2>1. \E to \in {"relay", "got", "done"} : pc' = [pc EXCEPT ![s] = to]
      BY DEF DialFails, EndWith
    <2> QED BY <2>1 DEF Reserved, PoolInv, PoolTypeOK
  <1>3. CASE DialFails(s)
    <2>1. tokens' = tokens + 1 /\ idle' = idle /\ be' = be
      BY <1>1, <1>3, SlotFits DEF DialFails, EndWith, Discard, PoolInv, PoolTypeOK
    <2>2. Shelf' = Shelf /\ Lent' = Lent
      BY <2>1 DEF Shelf, Lent
    <2>3. Contract!GiveUp(s)
      BY <1>1, <1>2, <2>1, <2>2 DEF Contract!GiveUp, Shelf, Reserved, Lent
    <2> QED BY <2>3 DEF Allowed, Contract!Next
  <1>4. CASE ~ DialFails(s)
    <2>1. PICK c \in Conn, r \in {"ok", "error"} : DialAnswered(s, c, r)
      BY <1>4
    <2>2. /\ sock[c] = "closed" /\ be' = [be EXCEPT ![s] = c]
          /\ UNCHANGED <<idle, tokens>>
      BY <2>1 DEF DialAnswered
    <2>3. Lent' = Lent \union {<<s, c>>}
      BY <1>1, <2>2, LentGrows
    <2>4. c \notin Shelf /\ \A t \in Session : <<t, c>> \notin Lent
      BY <2>2, PoolAssumption DEF PoolInv, OneUserPerBackend, Shelf, Lent
    <2>5. Shelf' = Shelf
      BY <2>2 DEF Shelf
    <2>6. Contract!Open(s, c)
      BY <1>1, <1>2, <2>2, <2>3, <2>4, <2>5
         DEF Contract!Open, Contract!Out, Shelf, Reserved, Lent
    <2> QED BY <2>6 DEF Allowed, Contract!Next
  <1> QED BY <1>3, <1>4

\* A dying connection is not noticed by the contract.
LEMMA DeathAllowed ==
    ASSUME NEW c \in Conn, ConnDies(c)
    PROVE  Allowed
PROOF
  <1>1. UNCHANGED <<idle, tokens, pc, be>>
    BY DEF ConnDies
  <1> QED BY <1>1, StutterAllowed DEF Shelf, Reserved, Lent

\* The contract starts with every slot free.
LEMMA ContractStarts == PoolInit => Contract!Init
PROOF BY PoolAssumption DEF PoolInit, Contract!Init

=============================================================================
