---------------------------- MODULE TdsSession -----------------------------
(***************************************************************************)
(* tds-proxy in its default mode: a session holds one backend from login   *)
(* to close (handle) while two goroutines relay the two directions         *)
(* (relaySession), and the backend is then returned or discarded.          *)
(***************************************************************************)
EXTENDS TdsPool

CONSTANTS
    Kind,           \* client messages: a plain batch or RPC, a SET-only batch,
                    \* or one the classifier says leaves session state
    Cancels,        \* clients may send ATTENTION
    MaxReq          \* bound on the requests of a session

ASSUME SessionAssumption ==
    /\ Kind \subseteq {"plain", "rpc", "set", "state"}
    /\ Cancels \in BOOLEAN /\ MaxReq \in Nat

VARIABLES
    work,       \* requests a backend has yet to answer, in order
    inbox,      \* whose answers wait in the proxy's socket to a backend
    left,       \* sessions whose state is on a backend
    req, resp,  \* reqCount and respCount of a session
    att,        \* the client has cancelled its latest request
    reset,      \* the next message of the session carries RESETCONNECTION
    pinned,     \* the classifier found session state
    real,       \* sawRealBatch
    cl,         \* the client-to-backend goroutine: runs, or how it ended
    beDone,     \* the backend-to-client goroutine has ended
    sel         \* the branch the final select took

relayVars == <<work, inbox, left, req, resp, att, reset, pinned, real, cl, beDone, sel>>
vars == <<poolVars, relayVars>>

Request == [by : Session, kind : Kind, reset : BOOLEAN]

TypeOK ==
    /\ PoolTypeOK
    /\ work \in [Conn -> Seq(Request)] /\ inbox \in [Conn -> Seq(Session)]
    /\ left \in [Conn -> SUBSET Session]
    /\ req \in [Session -> Nat] /\ resp \in [Session -> Nat]
    /\ att \in [Session -> BOOLEAN]
    /\ reset \in [Session -> BOOLEAN] /\ pinned \in [Session -> BOOLEAN]
    /\ real \in [Session -> BOOLEAN] /\ beDone \in [Session -> BOOLEAN]
    /\ cl \in [Session -> {"run", "clean", "unclean"}]
    /\ sel \in [Session -> {"none", "quiet", "client", "backend"}]

Init ==
    /\ PoolInit
    /\ work = [c \in Conn |-> <<>>] /\ inbox = [c \in Conn |-> <<>>]
    /\ left = [c \in Conn |-> {}]
    /\ req = [s \in Session |-> 0] /\ resp = [s \in Session |-> 0]
    /\ att = [s \in Session |-> FALSE]
    /\ reset = [s \in Session |-> FALSE] /\ pinned = [s \in Session |-> FALSE]
    /\ real = [s \in Session |-> FALSE] /\ beDone = [s \in Session |-> FALSE]
    /\ cl = [s \in Session |-> "run"]
    /\ sel = [s \in Session |-> "none"]

-----------------------------------------------------------------------------
(***************************************************************************)
(* handle, up to the relay.                                                *)
(***************************************************************************)

Probe(s) ==
    /\ \/ ProbePasses(s, inbox[be[s]] = <<>>)
       \/ ProbeEvicts(s, inbox[be[s]] = <<>>)
    /\ UNCHANGED relayVars

Acquire(s) ==
    /\ \/ Connect(s) \/ AcquireIdle(s) \/ AcquireBlocks(s) \/ AcquireToken(s)
       \/ AcquireTimeout(s) \/ DialFails(s)
    /\ UNCHANGED relayVars

\* The cold login succeeds as far as the proxy can tell.
Dial(s) ==
    /\ \E c \in Conn, resp0 \in {"ok", "error"} :
          /\ DialAnswered(s, c, resp0)
          /\ work' = [work EXCEPT ![c] = <<>>]
          /\ inbox' = [inbox EXCEPT ![c] = <<>>]
          /\ left' = [left EXCEPT ![c] = {}]
    /\ pc' = [pc EXCEPT ![s] = "relay"]
    /\ UNCHANGED <<req, resp, att, reset, pinned, real, cl, beDone, sel>>

\* Mutant of Greet: a reused backend is not reset before its first message.
GreetNoReset(s) ==
    /\ pc[s] = "got" /\ loginResp # "none"
    /\ pc' = [pc EXCEPT ![s] = "relay"]
    /\ reset' = reset
    /\ UNCHANGED <<idle, tokens, loginResp, sock, deaths, be, grant, tries, gone>>
    /\ UNCHANGED <<work, inbox, left, req, resp, att, pinned, real, cl, beDone, sel>>

\* The warm client is sent the kept login response.
Greet(s) ==
    /\ pc[s] = "got" /\ loginResp # "none"
    /\ pc' = [pc EXCEPT ![s] = "relay"]
    /\ reset' = [reset EXCEPT ![s] = TRUE]
    /\ UNCHANGED <<idle, tokens, loginResp, sock, deaths, be, grant, tries, gone>>
    /\ UNCHANGED <<work, inbox, left, req, resp, att, pinned, real, cl, beDone, sel>>

\* There is no kept response, or the client is gone.
GreetFails(s) ==
    /\ pc[s] = "got"
    /\ loginResp = "none" \/ gone[s]
    /\ EndWith(s, Discard(be[s]))
    /\ UNCHANGED <<loginResp, deaths, grant, tries, gone, relayVars>>

-----------------------------------------------------------------------------
(***************************************************************************)
(* relaySession.                                                           *)
(***************************************************************************)

Relaying(s) == pc[s] = "relay"

\* Classify and the prelude exception: what makes a message pin the session.
Pins(kind, seen) == kind = "state" \/ (kind = "set" /\ seen)

\* The client has a request without its complete answer.
Awaits(s) ==
    \/ \E i \in DOMAIN work[be[s]] : work[be[s]][i].by = s
    \/ \E i \in DOMAIN inbox[be[s]] : inbox[be[s]][i] = s

\* The client, one request at a time, sends the next; its goroutine forwards and classifies it.
Forward(s) ==
    /\ Relaying(s) /\ ~ gone[s] /\ cl[s] = "run" /\ sel[s] = "none"
    /\ req[s] < MaxReq /\ ~ Awaits(s)
    /\ sock[be[s]] = "open"
    /\ \E k \in Kind :
          /\ work' = [work EXCEPT ![be[s]] =
                        Append(@, [by |-> s, kind |-> k, reset |-> reset[s]])]
          /\ pinned' = [pinned EXCEPT ![s] = @ \/ Pins(k, real[s])]
          /\ real' = [real EXCEPT ![s] = @ \/ k = "plain"]
    /\ req' = [req EXCEPT ![s] = @ + 1]
    /\ reset' = [reset EXCEPT ![s] = FALSE]
    /\ att' = [att EXCEPT ![s] = FALSE]
    /\ UNCHANGED <<poolVars, inbox, left, resp, cl, beDone, sel>>

\* The write to a dead backend fails in the middle of a message.
ForwardFails(s) ==
    /\ Relaying(s) /\ ~ gone[s] /\ cl[s] = "run"
    /\ sock[be[s]] = "dead"
    /\ cl' = [cl EXCEPT ![s] = "unclean"]
    /\ UNCHANGED <<poolVars, work, inbox, left, req, resp, att, reset, pinned, real, beDone, sel>>

\* The client cancels a request it has no answer to.  The backend stops at
\* once and says so; if it had finished already, it acknowledges on top.
Attention(s) ==
    /\ Cancels
    /\ Relaying(s) /\ ~ gone[s] /\ cl[s] = "run" /\ sel[s] = "none"
    /\ sock[be[s]] = "open" /\ Awaits(s) /\ ~ att[s]
    /\ att' = [att EXCEPT ![s] = TRUE]
    /\ inbox' = [inbox EXCEPT ![be[s]] = Append(@, s)]
    /\ work' = [work EXCEPT ![be[s]] = IF @ = <<>> THEN @ ELSE Tail(@)]
    /\ UNCHANGED <<poolVars, left, req, resp, reset, pinned, real, cl, beDone, sel>>

\* The backend carries out the oldest request it has and answers it.
Execute(c) ==
    /\ sock[c] = "open" /\ work[c] # <<>>
    /\ LET r == Head(work[c])
       IN  /\ left' = [left EXCEPT ![c] = (IF r.reset THEN {} ELSE @) \union
                                          (IF r.kind \in {"set", "state"} THEN {r.by} ELSE {})]
           /\ inbox' = [inbox EXCEPT ![c] = Append(@, r.by)]
    /\ work' = [work EXCEPT ![c] = Tail(@)]
    /\ UNCHANGED <<poolVars, req, resp, att, reset, pinned, real, cl, beDone, sel>>

\* The backend-to-client goroutine passes one answer on.  A write to a client
\* that is gone may still be taken by the socket, or fail and end the goroutine.
RelayAnswer(s) ==
    /\ Relaying(s) /\ ~ beDone[s] /\ sel[s] # "quiet"
    /\ inbox[be[s]] # <<>>
    /\ inbox' = [inbox EXCEPT ![be[s]] = Tail(@)]
    /\ \/ resp' = [resp EXCEPT ![s] = @ + 1] /\ beDone' = beDone
       \/ gone[s] /\ beDone' = [beDone EXCEPT ![s] = TRUE] /\ resp' = resp
    /\ UNCHANGED <<poolVars, work, left, req, att, reset, pinned, real, cl, sel>>

\* It ends when the backend died or the read deadline of the quiet close fires.
BackendReaderEnds(s) ==
    /\ Relaying(s) /\ ~ beDone[s]
    /\ sock[be[s]] = "dead" \/ sel[s] = "quiet"
    /\ beDone' = [beDone EXCEPT ![s] = TRUE]
    /\ UNCHANGED <<poolVars, work, inbox, left, req, resp, att, reset, pinned, real, cl, sel>>

\* The client closes its connection, at any time.
Leave(s) ==
    /\ ~ gone[s] /\ pc[s] \notin {"new", "refused", "done"}
    /\ gone' = [gone EXCEPT ![s] = TRUE]
    /\ UNCHANGED <<idle, tokens, loginResp, sock, deaths, pc, be, grant, tries, relayVars>>

\* The client-to-backend goroutine meets the end of the client's stream, between
\* two messages or inside one, or the deadline set after the backend died.
ClientReaderEnds(s) ==
    /\ Relaying(s) /\ cl[s] = "run"
    /\ gone[s] \/ sel[s] = "backend"
    /\ \E how \in {"clean", "unclean"} : cl' = [cl EXCEPT ![s] = how]
    /\ UNCHANGED <<poolVars, work, inbox, left, req, resp, att, reset, pinned, real, beDone, sel>>

\* Mutant of SelectClient: the counts are not compared.
SelectClientAny(s) ==
    /\ Relaying(s) /\ sel[s] = "none" /\ cl[s] # "run"
    /\ sel' = [sel EXCEPT ![s] = IF cl[s] = "clean" THEN "quiet" ELSE "client"]
    /\ UNCHANGED <<poolVars, work, inbox, left, req, resp, att, reset, pinned, real, cl, beDone>>

\* Mutant of SelectClient: the quiet close sets no read deadline.
SelectClientNoDeadline(s) ==
    /\ Relaying(s) /\ sel[s] = "none" /\ cl[s] # "run"
    /\ sel' = [sel EXCEPT ![s] = "client"]
    /\ UNCHANGED <<poolVars, work, inbox, left, req, resp, att, reset, pinned, real, cl, beDone>>

\* The select sees the client gone: a quiet close if every request is answered.
SelectClient(s) ==
    /\ Relaying(s) /\ sel[s] = "none" /\ cl[s] # "run"
    /\ sel' = [sel EXCEPT ![s] = IF cl[s] = "clean" /\ req[s] = resp[s]
                                 THEN "quiet" ELSE "client"]
    /\ UNCHANGED <<poolVars, work, inbox, left, req, resp, att, reset, pinned, real, cl, beDone>>

\* The select sees the backend gone.
SelectBackend(s) ==
    /\ Relaying(s) /\ sel[s] = "none" /\ beDone[s]
    /\ sel' = [sel EXCEPT ![s] = "backend"]
    /\ UNCHANGED <<poolVars, work, inbox, left, req, resp, att, reset, pinned, real, cl, beDone>>

\* Both goroutines have ended: handle returns or discards the backend.
Finish(s) ==
    /\ Relaying(s) /\ sel[s] # "none" /\ cl[s] # "run" /\ beDone[s]
    /\ EndWith(s, IF sel[s] = "quiet" /\ ~ pinned[s] THEN Return(be[s])
                                                     ELSE Discard(be[s]))
    /\ UNCHANGED <<loginResp, deaths, grant, tries, gone, relayVars>>

Die(c) == ConnDies(c) /\ UNCHANGED relayVars

-----------------------------------------------------------------------------
\* The steps the proxy takes by itself once a client has connected.
Proxy(s) ==
    \/ (pc[s] # "new" /\ Acquire(s)) \/ Probe(s) \/ Dial(s)
    \/ Greet(s) \/ GreetFails(s)
    \/ RelayAnswer(s) \/ BackendReaderEnds(s) \/ ClientReaderEnds(s)
    \/ SelectClient(s) \/ SelectBackend(s) \/ Finish(s)

Next ==
    \/ \E s \in Session :
          \/ Acquire(s) \/ Probe(s) \/ Dial(s) \/ Greet(s) \/ GreetFails(s)
          \/ Forward(s) \/ ForwardFails(s) \/ Attention(s) \/ RelayAnswer(s)
          \/ BackendReaderEnds(s) \/ Leave(s) \/ ClientReaderEnds(s)
          \/ SelectClient(s) \/ SelectBackend(s) \/ Finish(s)
    \/ \E c \in Conn : Execute(c) \/ Die(c)

Spec == Init /\ [][Next]_vars

\* Each goroutine of the proxy keeps running; the database answers what it is sent.
FairSpec ==
    /\ Spec
    /\ \A s \in Session : WF_vars(Proxy(s))
    /\ \A c \in Conn : WF_vars(Execute(c))

-----------------------------------------------------------------------------
\* A session reads answers to its own requests only: the backend it was given
\* owes nothing to the session that used it before.
OwnAnswersOnly ==
    \A s \in Session : Relaying(s) =>
        /\ \A i \in DOMAIN inbox[be[s]] : inbox[be[s]][i] = s
        /\ \A i \in DOMAIN work[be[s]] : work[be[s]][i].by = s

\* No request is carried out on top of what another session left behind: temp
\* tables, handles and options are gone when a backend changes hands.
NoForeignState ==
    \A c \in Conn : work[c] # <<>> =>
        LET r == Head(work[c])
        IN  r.reset \/ left[c] \subseteq {r.by}

\* A client that closes between two messages with every request answered gives
\* its slot back: the session ends and its backend is returned or discarded,
\* whatever happens to the backend meanwhile.
SlotsComeBack ==
    \A s \in Session :
        (Relaying(s) /\ sel[s] = "none" /\ cl[s] = "clean" /\ req[s] = resp[s])
            ~> (pc[s] = "done")

=============================================================================
