--------------------------- MODULE TdsTxMultiplex ---------------------------
(***************************************************************************)
(* tds-proxy with -tx-multiplex (txMultiplexRelay): a session gives its    *)
(* backend back between requests and borrows one again for the next, as    *)
(* long as it has left no session state and no transaction is open.        *)
(***************************************************************************)
EXTENDS TdsPool

CONSTANTS
    TxKind,         \* client messages that occur
    MaxAsked,       \* bound on the requests of all sessions
    MaxDepth        \* bound on nested transactions

\* What the classifier says of each kind of client message.  Plain statements
\* and INSERT BULK are multiplexable; an attention, a cancel, is not classified
\* at all.
Pin == [plain |-> FALSE, insertBulk |-> FALSE, set |-> TRUE, object |-> TRUE,
        implicit |-> TRUE, beginText |-> TRUE, attention |-> FALSE,
        tmBegin |-> TRUE, tmCommit |-> TRUE, tmRollback |-> TRUE,
        tmRollbackTo |-> TRUE, tmSave |-> TRUE, tmOdd |-> TRUE]

\* The requests to the transaction manager.  A rollback may name a savepoint; the
\* creation of one stands for a promotion too; of the odd ones no request type
\* can be read.
TxMgr == {"tmBegin", "tmCommit", "tmRollback", "tmRollbackTo", "tmSave", "tmOdd"}

ASSUME TxAssumption ==
    /\ TxKind \subseteq DOMAIN Pin
    /\ MaxAsked \in Nat /\ MaxDepth \in Nat

VARIABLES
    state,      \* session state on a backend: pairs of a session and a sort
    open,       \* open transactions on a backend, nested
    own,        \* sorts of session state a client has created
    txns,       \* transactions a client has open, nested
    asks,       \* the request being served
    sent,       \* a client has sent a request
    asked,      \* requests so far, of all clients
    needReset,  \* the first message to this backend carries RESETCONNECTION
    sticky, sawReal, prelude, depth,  \* of txMultiplexRelay; depth is txnDepth
    torn,       \* history: clients that have rolled back to a savepoint, not
                \* sticky, and have not ended that transaction yet
    abandoned   \* history: backends given back by such a rollback, or by a client
                \* that closed inside a transaction, and not wiped since

hist == <<torn, abandoned>>
sessVars == <<own, txns, sent, asked, sticky, sawReal, prelude, depth>>
txVars == <<poolVars, sessVars, hist, state, open, asks, needReset>>

Sort == {"option", "object"}

TxTypeOK ==
    /\ PoolTypeOK
    /\ state \in [Conn -> SUBSET (Session \X Sort)]
    /\ open \in [Conn -> 0 .. MaxDepth]
    /\ own \in [Session -> SUBSET Sort]
    /\ txns \in [Session -> 0 .. MaxDepth]
    /\ asks \in [Session -> TxKind \union {"none"}]
    /\ sent \in [Session -> BOOLEAN] /\ asked \in 0 .. MaxAsked
    /\ needReset \in [Session -> BOOLEAN] /\ sticky \in [Session -> BOOLEAN]
    /\ sawReal \in [Session -> BOOLEAN] /\ prelude \in [Session -> BOOLEAN]
    /\ depth \in [Session -> 0 .. MaxDepth]
    /\ torn \subseteq Session /\ abandoned \subseteq Conn

TxInit ==
    /\ PoolInit
    /\ state = [c \in Conn |-> {}] /\ open = [c \in Conn |-> 0]
    /\ own = [s \in Session |-> {}] /\ txns = [s \in Session |-> 0]
    /\ asks = [s \in Session |-> "none"]
    /\ sent = [s \in Session |-> FALSE] /\ asked = 0
    /\ needReset = [s \in Session |-> FALSE] /\ sticky = [s \in Session |-> FALSE]
    /\ sawReal = [s \in Session |-> FALSE] /\ prelude = [s \in Session |-> FALSE]
    /\ depth = [s \in Session |-> 0]
    /\ torn = {} /\ abandoned = {}

-----------------------------------------------------------------------------
(***************************************************************************)
(* What a message does on the backend: RESETCONNECTION wipes session state *)
(* and rolls back; the message itself adds what its kind leaves behind.    *)
(***************************************************************************)

Sorts(k) ==
    IF k \in {"set", "implicit"} THEN {"option"}
    ELSE IF k \in {"object", "insertBulk"} THEN {"object"} ELSE {}

\* The transactions SQL Server has open after a message of kind k, with n before.
\* A rollback to a savepoint ends none.
Nested(k, n) ==
    IF k \in {"tmBegin", "beginText"} THEN n + 1
    ELSE IF k = "tmCommit" /\ n > 0 THEN n - 1
    ELSE IF k \in {"tmCommit", "tmRollback"} THEN 0 ELSE n

StateAfter(c, s, wipe, sorts) ==
    (IF wipe THEN {} ELSE state[c]) \union ({s} \X sorts)

-----------------------------------------------------------------------------
(***************************************************************************)
(* Borrowing: first by handle, later by reacquireBackend.                  *)
(***************************************************************************)

Borrow(s) ==
    /\ \/ Connect(s) \/ AcquireIdle(s) \/ AcquireBlocks(s) \/ AcquireToken(s)
       \/ AcquireTimeout(s) \/ DialFails(s)
       \/ ProbePasses(s, TRUE) \/ ProbeEvicts(s, TRUE)
    /\ UNCHANGED <<sessVars, hist, state, open, asks, needReset>>

\* A cold login, for handle or on a re-borrow.
ColdLogin(s) ==
    /\ \E c \in Conn, resp \in {"ok", "error"} :
          /\ DialAnswered(s, c, resp)
          /\ state' = [state EXCEPT ![c] = {}]
          /\ open' = [open EXCEPT ![c] = 0]
          /\ abandoned' = abandoned \ {c}
    /\ needReset' = [needReset EXCEPT ![s] = FALSE]
    /\ pc' = [pc EXCEPT ![s] = IF asks[s] = "none" THEN "relay" ELSE "got"]
    /\ UNCHANGED <<sessVars, torn, asks>>

\* handle replays the kept login response to a warm client.
ReplayLogin(s) ==
    /\ pc[s] = "got" /\ asks[s] = "none" /\ loginResp # "none"
    /\ pc' = [pc EXCEPT ![s] = "relay"]
    /\ needReset' = [needReset EXCEPT ![s] = TRUE]
    /\ UNCHANGED <<idle, tokens, loginResp, sock, deaths, be, grant, tries, gone>>
    /\ UNCHANGED <<sessVars, hist, state, open, asks>>

ReplayFails(s) ==
    /\ pc[s] = "got" /\ asks[s] = "none"
    /\ loginResp = "none" \/ gone[s]
    /\ EndWith(s, Discard(be[s]))
    /\ UNCHANGED <<loginResp, deaths, grant, tries, gone>>
    /\ UNCHANGED <<sessVars, hist, state, open, asks, needReset>>

\* Mutant of ApplyPrelude: the captured options are not replayed.
ApplyPreludeSkipped(s) ==
    /\ pc[s] = "got" /\ asks[s] # "none" /\ sock[be[s]] = "open"
    /\ pc' = [pc EXCEPT ![s] = "forward"]
    /\ needReset' = [needReset EXCEPT ![s] = grant[s] = "warm"]
    /\ UNCHANGED <<idle, tokens, loginResp, sock, deaths, be, grant, tries, gone>>
    /\ UNCHANGED <<sessVars, hist, state, open, asks>>

\* applyPrelude: the captured login prelude goes to the re-borrowed backend,
\* the first message of it with RESETCONNECTION if the backend is a warm one.
ApplyPrelude(s) ==
    /\ pc[s] = "got" /\ asks[s] # "none" /\ sock[be[s]] = "open"
    /\ pc' = [pc EXCEPT ![s] = "forward"]
    /\ LET warm == grant[s] = "warm"
       IN  IF prelude[s]
           THEN /\ state' = [state EXCEPT ![be[s]] = StateAfter(be[s], s, warm, {"option"})]
                /\ open' = [open EXCEPT ![be[s]] = IF warm THEN 0 ELSE @]
                /\ abandoned' = IF warm THEN abandoned \ {be[s]} ELSE abandoned
                /\ needReset' = [needReset EXCEPT ![s] = FALSE]
           ELSE needReset' = [needReset EXCEPT ![s] = warm] /\ UNCHANGED <<state, open, abandoned>>
    /\ UNCHANGED <<idle, tokens, loginResp, sock, deaths, be, grant, tries, gone>>
    /\ UNCHANGED <<sessVars, torn, asks>>

-----------------------------------------------------------------------------
(***************************************************************************)
(* The loop of txMultiplexRelay.                                           *)
(***************************************************************************)

\* A SET batch before any real work is the driver's login prelude.
Exempt(s, k) == k = "set" /\ ~ sawReal[s]

\* Mutant of Held: a commit always ends the outermost transaction.
HeldOne(k, n) ==
    IF k = "tmBegin" THEN n + 1 ELSE IF k \in {"tmCommit", "tmRollback"} THEN 0 ELSE n

\* txnDepth after a message of kind k.  Every rollback counts as one of the whole
\* transaction, and what cannot be read as a begin.
Held(k, n) ==
    IF k \in {"tmBegin", "tmOdd"} THEN n + 1
    ELSE IF k = "tmCommit" /\ n > 0 THEN n - 1
    ELSE IF k \in {"tmRollback", "tmRollbackTo"} THEN 0 ELSE n

\* The message leaves state that outlives a transaction.
Sticks(s, k) == Pin[k] /\ k \notin TxMgr /\ ~ Exempt(s, k)

\* The message tears the client's transaction from its backend.
Tears(s, k) == k = "tmRollbackTo" /\ txns[s] > 0 /\ ~ sticky[s]

\* The client's next request is read; without a backend, one is borrowed.  The
\* cancel of a request waits until that is answered, and is a message like others.
Ask(s, k) ==
    /\ pc[s] = "relay" /\ ~ gone[s] /\ asked < MaxAsked
    /\ Nested(k, txns[s]) <= MaxDepth /\ Held(k, depth[s]) <= MaxDepth
    /\ k = "attention" => sent[s]
    /\ asks' = [asks EXCEPT ![s] = k]
    /\ sent' = [sent EXCEPT ![s] = TRUE] /\ asked' = asked + 1
    /\ tries' = [tries EXCEPT ![s] = 0]
    /\ pc' = [pc EXCEPT ![s] = IF be[s] = NoConn THEN "acquire" ELSE "forward"]
    /\ UNCHANGED <<idle, tokens, loginResp, sock, deaths, be, grant, gone>>
    /\ UNCHANGED <<own, txns, sticky, sawReal, prelude, depth, hist, state, open, needReset>>

\* The request is carried out and answered, classified, and the backend is
\* given back at a safe boundary.  An attention cannot carry RESETCONNECTION out.
Serve(s) ==
    /\ pc[s] = "forward" /\ sock[be[s]] = "open"
    /\ LET k == asks[s]
           c == be[s]
           wipe == needReset[s] /\ k # "attention"
           sticky2 == sticky[s] \/ Sticks(s, k)
           real2 == sawReal[s] \/ k \in TxMgr \union {"plain", "insertBulk"}
           depth2 == Held(k, depth[s])
       IN  /\ state' = [state EXCEPT ![c] = StateAfter(c, s, wipe, Sorts(k))]
           /\ open' = [open EXCEPT ![c] = Nested(k, IF wipe THEN 0 ELSE @)]
           /\ own' = [own EXCEPT ![s] = @ \union Sorts(k)]
           /\ txns' = [txns EXCEPT ![s] = Nested(k, @)]
           /\ sticky' = [sticky EXCEPT ![s] = sticky2]
           /\ sawReal' = [sawReal EXCEPT ![s] = real2]
           /\ prelude' = [prelude EXCEPT ![s] = @ \/ Exempt(s, k)]
           /\ depth' = [depth EXCEPT ![s] = depth2]
           /\ torn' = IF Nested(k, txns[s]) = 0 THEN torn \ {s}
                      ELSE IF Tears(s, k) THEN torn \union {s} ELSE torn
           /\ abandoned' = IF Tears(s, k) THEN abandoned \union {c}
                           ELSE IF wipe THEN abandoned \ {c} ELSE abandoned
           /\ IF real2 /\ ~ sticky2 /\ depth2 = 0
              THEN /\ Return(c)
                   /\ be' = [be EXCEPT ![s] = NoConn]
                   /\ grant' = [grant EXCEPT ![s] = "none"]
              ELSE UNCHANGED <<idle, tokens, sock, be, grant>>
    /\ needReset' = [needReset EXCEPT ![s] = FALSE]
    /\ asks' = [asks EXCEPT ![s] = "none"]
    /\ pc' = [pc EXCEPT ![s] = "relay"]
    /\ UNCHANGED <<loginResp, deaths, tries, gone, sent, asked>>

\* Mutant of ServeFails: the backend is returned.
ServeFailsReturned(s) ==
    /\ pc[s] \in {"got", "forward"} /\ asks[s] # "none"
    /\ sock[be[s]] = "dead" \/ (gone[s] /\ pc[s] = "forward")
    /\ EndWith(s, Return(be[s]))
    /\ UNCHANGED <<loginResp, deaths, grant, tries, gone>>
    /\ UNCHANGED <<sessVars, hist, state, open, asks, needReset>>

\* The backend dies or the client leaves in the middle of a request or of the
\* prelude: the backend is discarded.
ServeFails(s) ==
    /\ pc[s] \in {"got", "forward"} /\ asks[s] # "none"
    /\ sock[be[s]] = "dead" \/ (gone[s] /\ pc[s] = "forward")
    /\ EndWith(s, Discard(be[s]))
    /\ UNCHANGED <<loginResp, deaths, grant, tries, gone>>
    /\ UNCHANGED <<sessVars, hist, state, open, asks, needReset>>

\* The client closes its connection.
ClientLeaves(s) ==
    /\ ~ gone[s] /\ pc[s] \notin {"new", "refused", "done"}
    /\ gone' = [gone EXCEPT ![s] = TRUE]
    /\ UNCHANGED <<idle, tokens, loginResp, sock, deaths, pc, be, grant, tries>>
    /\ UNCHANGED <<sessVars, hist, state, open, asks, needReset>>

\* The read of the next request fails: the deferred function discards the
\* backend of a sticky session and returns any other.
Close(s) ==
    /\ pc[s] = "relay" /\ gone[s]
    /\ EndWith(s, IF be[s] = NoConn THEN UNCHANGED <<idle, tokens, sock>>
                  ELSE IF sticky[s] THEN Discard(be[s])
                  ELSE Return(be[s]))
    /\ abandoned' = IF be[s] # NoConn /\ ~ sticky[s] /\ txns[s] > 0
                    THEN abandoned \union {be[s]} ELSE abandoned
    /\ UNCHANGED <<loginResp, deaths, grant, tries, gone>>
    /\ UNCHANGED <<sessVars, torn, state, open, asks, needReset>>

BackendDies(c) == ConnDies(c) /\ UNCHANGED <<sessVars, hist, state, open, asks, needReset>>

-----------------------------------------------------------------------------
TxNext ==
    \/ \E s \in Session :
          \/ Borrow(s) \/ ColdLogin(s) \/ ReplayLogin(s) \/ ReplayFails(s) \/ ApplyPrelude(s)
          \/ \E k \in TxKind : Ask(s, k)
          \/ Serve(s) \/ ServeFails(s) \/ ClientLeaves(s) \/ Close(s)
    \/ \E c \in Conn : BackendDies(c)

TxSpec == TxInit /\ [][TxNext]_txVars

-----------------------------------------------------------------------------
\* The backend a request is about to run on.
Ready(s) == pc[s] = "forward" \/ (pc[s] = "relay" /\ be[s] # NoConn)

\* A request finds on its backend the session state its client has created, and
\* no other: nothing is lost when the backend is swapped, nothing is inherited.
OwnStateAtHand ==
    \A s \in Session : Ready(s) =>
        IF needReset[s] THEN own[s] = {} ELSE state[be[s]] = {s} \X own[s]

\* A transaction never spans backends, and no request runs inside somebody else's:
\* a session without a backend, or with one still to be wiped, has none open, and
\* any other has exactly its own open on the backend it holds.  Excepted is a
\* client that has rolled back to a savepoint, until it ends that transaction.
TxnStaysHome ==
    \A s \in Session : pc[s] \in {"relay", "forward"} /\ s \notin torn =>
        IF be[s] = NoConn \/ needReset[s] THEN txns[s] = 0 ELSE open[be[s]] = txns[s]

\* A backend is handed back with a transaction open, whose locks are then kept for
\* as long as it stays idle, in two cases only: by a client that closed inside the
\* transaction, and by a rollback to a savepoint.
IdleWithoutTxn == \A i \in DOMAIN idle : open[idle[i]] > 0 => idle[i] \in abandoned

=============================================================================
