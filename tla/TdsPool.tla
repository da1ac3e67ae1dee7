------------------------------ MODULE TdsPool ------------------------------
(***************************************************************************)
(* The backend pool of tds-proxy for one credential key (pool.go), and how *)
(* a session obtains a backend from it (acquireUsable, and the cold login  *)
(* of handle and coldLogin).  TdsSession and TdsTxMultiplex add what a     *)
(* session does with the backend it was granted.                           *)
(***************************************************************************)
EXTENDS Integers, Sequences, FiniteSets

CONSTANTS
    Session,        \* client sessions of the key, one goroutine of handle each
    Conn,           \* backend connections, a closed one may be opened again
    NoConn,         \* no connection
    PoolMax,        \* pool-max, at least 1 by New
    MaxTries,       \* attempts of acquireUsable: 4 in the code
    LoginCanFail,   \* the database may reject a login
    MaxDeaths       \* bound on backend connections that die

ASSUME PoolAssumption ==
    /\ IsFiniteSet(Session)
    /\ NoConn \notin Conn
    /\ PoolMax \in Nat \ {0} /\ MaxTries \in Nat \ {0}
    /\ LoginCanFail \in BOOLEAN /\ MaxDeaths \in Nat

VARIABLES
    idle,       \* the idle channel: backends returned for reuse
    tokens,     \* free slots in the tokens channel
    loginResp,  \* the login response kept for warm clients
    sock,       \* each backend connection, as the proxy's socket finds it
    deaths,     \* how many died so far
    pc,         \* where a session is
    be,         \* the backend a session holds
    grant,      \* how it got it
    tries,      \* dead backends acquireUsable has evicted for it
    gone        \* the client has closed its connection

poolVars == <<idle, tokens, loginResp, sock, deaths, pc, be, grant, tries, gone>>

PoolTypeOK ==
    /\ idle \in Seq(Conn)
    /\ tokens \in 0 .. PoolMax
    /\ loginResp \in {"none", "ok", "error"}
    /\ sock \in [Conn -> {"closed", "open", "dead"}]
    /\ deaths \in 0 .. MaxDeaths
    /\ pc \in [Session -> {"new", "acquire", "wait", "probe", "dial", "got",
                           "relay", "forward", "refused", "done"}]
    /\ be \in [Session -> Conn \union {NoConn}]
    /\ grant \in [Session -> {"none", "cold", "warm"}]
    /\ tries \in [Session -> 0 .. MaxTries]
    /\ gone \in [Session -> BOOLEAN]

PoolInit ==
    /\ idle = <<>> /\ tokens = PoolMax
    /\ loginResp = "none"
    /\ sock = [c \in Conn |-> "closed"]
    /\ deaths = 0
    /\ pc = [s \in Session |-> "new"]
    /\ be = [s \in Session |-> NoConn]
    /\ grant = [s \in Session |-> "none"]
    /\ tries = [s \in Session |-> 0]
    /\ gone = [s \in Session |-> FALSE]

-----------------------------------------------------------------------------
(***************************************************************************)
(* The operations of Pool.                                                 *)
(***************************************************************************)

\* Mutant of Discard: the socket is closed but the slot is not given back.
DiscardKeepsToken(c) ==
    /\ tokens' = tokens
    /\ sock' = IF c = NoConn THEN sock ELSE [sock EXCEPT ![c] = "closed"]
    /\ idle' = idle

\* Discard closes the backend, if there is one, and frees its slot.
Discard(c) ==
    /\ tokens' = IF tokens < PoolMax THEN tokens + 1 ELSE tokens
    /\ sock' = IF c = NoConn THEN sock ELSE [sock EXCEPT ![c] = "closed"]
    /\ idle' = idle

\* Mutant of Return: the slot of a backend that stays open is freed as well.
ReturnFreesToken(c) ==
    /\ idle' = Append(idle, c)
    /\ tokens' = IF tokens < PoolMax THEN tokens + 1 ELSE tokens
    /\ sock' = sock

\* Return hands the backend to the next borrower; it keeps its slot.
Return(c) ==
    IF Len(idle) < PoolMax
    THEN idle' = Append(idle, c) /\ UNCHANGED <<tokens, sock>>
    ELSE Discard(c)

\* The session gives up its backend and ends.
EndWith(s, release) ==
    /\ release
    /\ pc' = [pc EXCEPT ![s] = "done"]
    /\ be' = [be EXCEPT ![s] = NoConn]

\* CaptureLogin: the first login response of the key is the one kept.
CaptureLogin(resp) == loginResp' = IF loginResp = "none" THEN resp ELSE loginResp

-----------------------------------------------------------------------------
(***************************************************************************)
(* Acquire and acquireUsable.                                              *)
(***************************************************************************)

\* A client has logged in as far as LOGIN7; handle turns to the pool.
Connect(s) ==
    /\ pc[s] = "new"
    /\ pc' = [pc EXCEPT ![s] = "acquire"]
    /\ UNCHANGED <<idle, tokens, loginResp, sock, deaths, be, grant, tries, gone>>

\* Mutant of AcquireIdle: the newest backend is handed out, the oldest removed.
AcquireIdleWrongEnd(s) ==
    /\ pc[s] \in {"acquire", "wait"}
    /\ idle # <<>>
    /\ idle' = Tail(idle)
    /\ be' = [be EXCEPT ![s] = idle[Len(idle)]]
    /\ grant' = [grant EXCEPT ![s] = "warm"]
    /\ pc' = [pc EXCEPT ![s] = "probe"]
    /\ UNCHANGED <<tokens, loginResp, sock, deaths, tries, gone>>

\* An idle backend comes first, on arrival or while blocked in the select.
AcquireIdle(s) ==
    /\ pc[s] \in {"acquire", "wait"}
    /\ idle # <<>>
    /\ idle' = Tail(idle)
    /\ be' = [be EXCEPT ![s] = Head(idle)]
    /\ grant' = [grant EXCEPT ![s] = "warm"]
    /\ pc' = [pc EXCEPT ![s] = "probe"]
    /\ UNCHANGED <<tokens, loginResp, sock, deaths, tries, gone>>

\* No idle backend: the session enters the three-way select.
AcquireBlocks(s) ==
    /\ pc[s] = "acquire" /\ idle = <<>>
    /\ pc' = [pc EXCEPT ![s] = "wait"]
    /\ UNCHANGED <<idle, tokens, loginResp, sock, deaths, be, grant, tries, gone>>

\* Mutant of AcquireToken: a slot is reserved although none is free.
AcquireTokenUnchecked(s) ==
    /\ pc[s] = "wait"
    /\ tokens' = tokens - 1
    /\ grant' = [grant EXCEPT ![s] = "cold"]
    /\ pc' = [pc EXCEPT ![s] = "dial"]
    /\ UNCHANGED <<idle, loginResp, sock, deaths, be, tries, gone>>

\* A free slot: the session may open a backend of its own.
AcquireToken(s) ==
    /\ pc[s] = "wait" /\ tokens > 0
    /\ tokens' = tokens - 1
    /\ grant' = [grant EXCEPT ![s] = "cold"]
    /\ pc' = [pc EXCEPT ![s] = "dial"]
    /\ UNCHANGED <<idle, loginResp, sock, deaths, be, tries, gone>>

\* The pool stayed at its cap for the whole acquire timeout.
AcquireTimeout(s) ==
    /\ pc[s] = "wait" /\ idle = <<>> /\ tokens = 0
    /\ pc' = [pc EXCEPT ![s] = "refused"]
    /\ UNCHANGED <<idle, tokens, loginResp, sock, deaths, be, grant, tries, gone>>

\* probeIdle reads nothing from a live connection: the backend is usable.
ProbePasses(s, quiet) ==
    /\ pc[s] = "probe"
    /\ sock[be[s]] = "open" /\ quiet
    /\ pc' = [pc EXCEPT ![s] = "got"]
    /\ UNCHANGED <<idle, tokens, loginResp, sock, deaths, be, grant, tries, gone>>

\* probeIdle meets an error or stray bytes: evict, and try again up to MaxTries.
ProbeEvicts(s, quiet) ==
    /\ pc[s] = "probe"
    /\ sock[be[s]] # "open" \/ ~ quiet
    /\ Discard(be[s])
    /\ be' = [be EXCEPT ![s] = NoConn]
    /\ grant' = [grant EXCEPT ![s] = "none"]
    /\ tries' = [tries EXCEPT ![s] = @ + 1]
    /\ pc' = [pc EXCEPT ![s] = IF tries[s] + 1 = MaxTries THEN "refused" ELSE "acquire"]
    /\ UNCHANGED <<loginResp, deaths, gone>>

-----------------------------------------------------------------------------
(***************************************************************************)
(* The cold login.                                                         *)
(***************************************************************************)

\* Dial or one step of the handshake fails: the reserved slot is released.
DialFails(s) ==
    /\ pc[s] = "dial"
    /\ EndWith(s, Discard(NoConn))
    /\ UNCHANGED <<loginResp, deaths, grant, tries, gone>>

\* The database answers LOGIN7.  Its answer is kept without being looked at;
\* after a rejection the database closes the connection.
DialAnswered(s, c, resp) ==
    /\ pc[s] = "dial"
    /\ sock[c] = "closed"
    /\ resp = "ok" \/ LoginCanFail
    /\ sock' = [sock EXCEPT ![c] = IF resp = "ok" THEN "open" ELSE "dead"]
    /\ CaptureLogin(resp)
    /\ be' = [be EXCEPT ![s] = c]
    /\ UNCHANGED <<idle, tokens, deaths, grant, tries, gone>>

-----------------------------------------------------------------------------
(***************************************************************************)
(* The outside world.                                                      *)
(***************************************************************************)

\* A backend connection dies: a restart of the database, a network fault.
ConnDies(c) ==
    /\ sock[c] = "open" /\ deaths < MaxDeaths
    /\ sock' = [sock EXCEPT ![c] = "dead"]
    /\ deaths' = deaths + 1
    /\ UNCHANGED <<idle, tokens, loginResp, pc, be, grant, tries, gone>>

\* Sessions that own a slot: a reserved one or that of an open backend.
Holders == {s \in Session : pc[s] = "dial" \/ be[s] # NoConn}

\* Every slot is accounted for: it is free, or it belongs to an idle backend or
\* to exactly one session.  No failure path of handle or txMultiplexRelay leaks
\* one or gives one back twice, however often backends are borrowed again.
SlotsConserved == tokens + Len(idle) + Cardinality(Holders) = PoolMax

\* A live backend has one user: it is in the idle channel once, or held by one
\* session, and never both; a closed one is neither.
OneUserPerBackend ==
    /\ \A i, j \in DOMAIN idle : idle[i] = idle[j] => i = j
    /\ \A i \in DOMAIN idle : sock[idle[i]] # "closed"
    /\ \A s \in Session : be[s] # NoConn =>
          /\ sock[be[s]] # "closed"
          /\ \A i \in DOMAIN idle : idle[i] # be[s]
          /\ \A t \in Session : be[t] = be[s] => t = s

-----------------------------------------------------------------------------
\* The pool as its sessions may rely on it.
Contract == INSTANCE PoolContract WITH
    free <- tokens,
    shelf <- {idle[i] : i \in DOMAIN idle},
    reserved <- {s \in Session : pc[s] = "dial"},
    lent <- {p \in Session \X Conn : be[p[1]] = p[2]}

\* The channels and sockets of the code implement that contract: every step of a
\* session, of the database or of a dying connection moves one slot as the
\* contract allows, or none.
ImplementsPool == Contract!Spec

=============================================================================
