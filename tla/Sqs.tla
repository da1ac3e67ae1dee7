-------------------------------- MODULE Sqs --------------------------------
(***************************************************************************)
(* The message side of the SQS front door of aws-shim (sqs.go, sqs_fifo.go *)
(* and the Postgres store of sqs_store.go) for one queue, standard or      *)
(* FIFO, and its dead-letter queue: senders, consumers that receive, delete*)
(* and change visibility, the retention reaper.  Message m is the m-th row *)
(* inserted, so m is its id and sequence number.                           *)
(***************************************************************************)
EXTENDS Integers, FiniteSets

CONSTANTS
    Consumer,       \* clients that receive
    Group,          \* message groups
    Dedup,          \* deduplication ids
    MaxReceive,     \* maxReceiveCount of the RedrivePolicy
    BatchMax,       \* MaxNumberOfMessages: up to 10 in the code
    LateExtend,     \* clients change the visibility of messages that timed out
    MaxSend,        \* bound on the messages of the queue
    MaxCount,       \* bound on receives while no RedrivePolicy is set
    MaxExtend       \* bound on ChangeMessageVisibility calls

NoOne == "no one"

ASSUME SqsAssumption ==
    /\ NoOne \notin Consumer /\ Group # {} /\ Dedup # {}
    /\ MaxReceive \in Nat \ {0} /\ BatchMax \in Nat \ {0}
    /\ LateExtend \in BOOLEAN
    /\ MaxSend \in Nat /\ MaxCount \in Nat /\ MaxExtend \in Nat

Msg == 1 .. MaxSend

VARIABLES
    fifo,       \* FifoQueue, fixed when the queue is created
    dlq,        \* the dead-letter queue: not set up, in use, deleted
    next,       \* the next id
    tag,        \* group and deduplication id of each message
    where,      \* where each message is, or how it left
    hidden,     \* visible_after > now(): delayed or in flight
    cnt,        \* receive_count
    rh,         \* receipt_handle, 0 for none
    open,       \* deduplication ids inside their window
    lock,       \* who holds the row lock on a FIFO queue
    pc,         \* a consumer: idle, polling, or inside the receive transaction
    seen,       \* the RedrivePolicy a polling consumer read, as in use or not
    picked,     \* the rows its UPDATE selected
    held,       \* messages and handles it was given
    extends     \* ChangeMessageVisibility calls so far

queueVars == <<fifo, dlq, next, tag, where, hidden, cnt, rh, open>>
vars == <<queueVars, lock, pc, seen, picked, held, extends>>

TypeOK ==
    /\ fifo \in BOOLEAN /\ dlq \in {"none", "used", "deleted"}
    /\ next \in 1 .. MaxSend + 1
    /\ tag \in [Msg -> Group \X Dedup]
    /\ where \in [Msg -> {"unsent", "queue", "dlq", "deleted", "purged", "dropped"}]
    /\ hidden \in [Msg -> BOOLEAN] /\ cnt \in [Msg -> Nat] /\ rh \in [Msg -> Nat]
    /\ open \subseteq Dedup
    /\ lock \in Consumer \union {NoOne}
    /\ \A c \in Consumer : (lock = c) <=> (fifo /\ pc[c] = "claim")
    /\ pc \in [Consumer -> {"idle", "poll", "claim"}]
    /\ seen \in [Consumer -> BOOLEAN]
    /\ picked \in [Consumer -> SUBSET Msg]
    /\ held \in [Consumer -> SUBSET (Msg \X Nat)]
    /\ extends \in 0 .. MaxExtend

Init ==
    /\ fifo \in BOOLEAN /\ dlq \in {"none", "used"}
    /\ next = 1
    /\ tag = [m \in Msg |-> CHOOSE t \in Group \X Dedup : TRUE]
    /\ where = [m \in Msg |-> "unsent"]
    /\ hidden = [m \in Msg |-> FALSE]
    /\ cnt = [m \in Msg |-> 0] /\ rh = [m \in Msg |-> 0]
    /\ open = {}
    /\ lock = NoOne
    /\ pc = [c \in Consumer |-> "idle"] /\ seen = [c \in Consumer |-> FALSE]
    /\ picked = [c \in Consumer |-> {}] /\ held = [c \in Consumer |-> {}]
    /\ extends = 0

Queued == {m \in Msg : where[m] = "queue"}
GroupOf(m) == tag[m][1]

\* A standard receive locks the rows it selects (FOR UPDATE); a FIFO receive
\* locks the queue's row instead, which only sends and receives respect.
RowLocked(m) == ~ fifo /\ \E c \in Consumer : m \in picked[c]

-----------------------------------------------------------------------------
(***************************************************************************)
(* Sending.                                                                *)
(***************************************************************************)

Insert(delayed) ==
    /\ next \in Msg
    /\ next' = next + 1
    /\ where' = [where EXCEPT ![next] = "queue"]
    /\ hidden' = [hidden EXCEPT ![next] = delayed]

\* sendMessage: a plain insert; the queue's or the message's DelaySeconds
\* hides the message at first.
Send(delayed) ==
    /\ ~ fifo
    /\ Insert(delayed)
    /\ UNCHANGED <<fifo, dlq, tag, cnt, rh, open, lock, pc, seen, picked, held, extends>>

\* sendFIFO, one transaction under the queue's lock.  A send whose
\* deduplication id is inside its window changes nothing.
SendFIFO(g, d, delayed) ==
    /\ fifo /\ lock = NoOne
    /\ d \notin open
    /\ Insert(delayed)
    /\ tag' = [tag EXCEPT ![next] = <<g, d>>]
    /\ open' = open \union {d}
    /\ UNCHANGED <<fifo, dlq, cnt, rh, lock, pc, seen, picked, held, extends>>

\* Five minutes have passed since d was sent.
WindowEnds(d) ==
    /\ d \in open
    /\ open' = open \ {d}
    /\ UNCHANGED <<fifo, dlq, next, tag, where, hidden, cnt, rh, lock, pc, seen, picked, held, extends>>

-----------------------------------------------------------------------------
(***************************************************************************)
(* Receiving.                                                              *)
(***************************************************************************)

\* receiveMessage reads the queue's attributes and resolves the dead-letter
\* queue once, before it starts to poll.
Poll(c) ==
    /\ pc[c] = "idle"
    /\ pc' = [pc EXCEPT ![c] = "poll"]
    /\ seen' = [seen EXCEPT ![c] = dlq = "used"]
    /\ UNCHANGED <<queueVars, lock, picked, held, extends>>

\* The wait is over, or the client is gone: an empty answer.
PollEnds(c) ==
    /\ pc[c] = "poll"
    /\ pc' = [pc EXCEPT ![c] = "idle"] /\ seen' = [seen EXCEPT ![c] = FALSE]
    /\ UNCHANGED <<queueVars, lock, picked, held, extends>>

\* Mutant of Blocked: only messages in flight block their group, not delayed ones.
BlockedByFlightOnly(m) ==
    \E b \in Queued : GroupOf(b) = GroupOf(m) /\ hidden[b] /\ cnt[b] > 0

\* Mutant of Blocked: a message counts as in flight once it was ever received.
BlockedByReceived(m) ==
    \E b \in Queued : GroupOf(b) = GroupOf(m) /\ (cnt[b] > 0 \/ (hidden[b] /\ b < m))

\* The NOT EXISTS of the FIFO pick: a message of the group is in flight, or an
\* earlier one is still delayed.
Blocked(m) ==
    \E b \in Queued : GroupOf(b) = GroupOf(m) /\ hidden[b] /\ (cnt[b] > 0 \/ b < m)

\* Mutant of Eligible: rows another receive has selected are not skipped.
EligibleLocked(m) ==
    m \in Queued /\ ~ hidden[m] /\ (fifo => ~ Blocked(m))

\* The rows a receive may select, SKIP LOCKED included.
Eligible(m) ==
    m \in Queued /\ ~ hidden[m] /\ ~ RowLocked(m) /\ (fifo => ~ Blocked(m))

\* The first rows in id order, up to the limit.
Selection(n) ==
    {m \in Msg : Eligible(m) /\ Cardinality({b \in 1 .. m : Eligible(b)}) <= n}

\* The UPDATE of receive takes its snapshot and selects rows.
Pick(c) ==
    /\ pc[c] = "poll" /\ (fifo => lock = NoOne)
    /\ \E n \in 1 .. BatchMax :
          /\ Selection(n) # {}
          /\ seen[c] \/ \A m \in Selection(n) : cnt[m] < MaxCount
          /\ picked' = [picked EXCEPT ![c] = Selection(n)]
    /\ lock' = IF fifo THEN c ELSE lock
    /\ pc' = [pc EXCEPT ![c] = "claim"]
    /\ UNCHANGED <<queueVars, seen, held, extends>>

\* The selected rows that are still there when the UPDATE reaches them.
Claimed(c) == picked[c] \intersect Queued

\* Those received more than maxReceiveCount times go to the dead-letter queue.
Dead(c) == {m \in Claimed(c) : seen[c] /\ cnt[m] + 1 > MaxReceive}

\* Mutant of CanMove: a failed copy goes unnoticed and the row is deleted.
CanMoveAlways(c) == TRUE

\* The copies into the dead-letter queue satisfy the foreign key.
CanMove(c) == Dead(c) # {} => dlq = "used"

\* The transaction is over: its locks are released.
Release(c, then) ==
    /\ picked' = [picked EXCEPT ![c] = {}]
    /\ lock' = IF lock = c THEN NoOne ELSE lock
    /\ pc' = [pc EXCEPT ![c] = then]
    /\ seen' = [seen EXCEPT ![c] = then = "poll" /\ @]

\* The copy into the dead-letter queue and the deletion of the row.
Moved(c) == [m \in Msg |-> IF m \in Dead(c) THEN "dlq" ELSE where[m]]

\* A fresh handle for every row claimed.
Minted(c) == [m \in Msg |-> IF m \in Claimed(c) THEN cnt[m] + 1 ELSE rh[m]]

\* What the consumer holds then; of a message it had before, the new handle.
Given(c) ==
    LET out == Claimed(c) \ Dead(c)
    IN  {mh \in held[c] : mh[1] \notin out} \union {<<m, Minted(c)[m]>> : m \in out}

\* The transaction commits.  The consumer gets the messages that are not dead,
\* unless the answer is lost; with none to return it polls again.
Claim(c) ==
    /\ pc[c] = "claim"
    /\ CanMove(c)
    /\ cnt' = [m \in Msg |-> IF m \in Claimed(c) THEN cnt[m] + 1 ELSE cnt[m]]
    /\ rh' = Minted(c)
    /\ hidden' = [m \in Msg |-> IF m \in Claimed(c) THEN m \notin Dead(c) ELSE hidden[m]]
    /\ where' = Moved(c)
    /\ IF Claimed(c) \subseteq Dead(c)
       THEN Release(c, "poll") /\ held' = held
       ELSE /\ Release(c, "idle")
            /\ \/ held' = held
               \/ held' = [held EXCEPT ![c] = Given(c)]
    /\ UNCHANGED <<fifo, dlq, next, tag, open, extends>>

\* A statement or the commit fails and the whole transaction is rolled back; so it
\* must be if the dead-letter queue was deleted after the poll had resolved it,
\* since the copy violates the foreign key.
ClaimFails(c) ==
    /\ pc[c] = "claim"
    /\ Release(c, "idle")
    /\ UNCHANGED <<queueVars, held, extends>>

-----------------------------------------------------------------------------
(***************************************************************************)
(* What else happens to a message.                                         *)
(***************************************************************************)

\* Mutant of Names: the message is found whatever handle it carries now.
NamesMessage(m, h) == where[m] = "queue"

\* The row a handle names, if it names one.
Names(m, h) == where[m] = "queue" /\ rh[m] = h

\* deleteByHandle, alone or as an entry of a batch; a handle that names no row
\* is refused.
DeleteByHandle(c) ==
    /\ \E mh \in held[c] :
          /\ ~ RowLocked(mh[1])
          /\ where' = [where EXCEPT ![mh[1]] = IF Names(mh[1], mh[2]) THEN "deleted" ELSE @]
          /\ hidden' = [hidden EXCEPT ![mh[1]] = @ /\ ~ Names(mh[1], mh[2])]
          /\ held' = [held EXCEPT ![c] = @ \ {mh}]
    /\ UNCHANGED <<fifo, dlq, next, tag, cnt, rh, open, lock, pc, seen, picked, extends>>

\* changeVisibility: any row the handle names, its visibility expired or not.
ChangeVisibility(c, long) ==
    /\ extends < MaxExtend
    /\ \E mh \in held[c] :
          /\ Names(mh[1], mh[2]) /\ ~ RowLocked(mh[1])
          /\ hidden[mh[1]] \/ LateExtend
          /\ hidden' = [hidden EXCEPT ![mh[1]] = long]
    /\ extends' = extends + 1
    /\ UNCHANGED <<fifo, dlq, next, tag, where, cnt, rh, open, lock, pc, seen, picked, held>>

\* Time passes: a delay or a visibility timeout runs out.
Expire(m) ==
    /\ m \in Queued /\ hidden[m]
    /\ hidden' = [hidden EXCEPT ![m] = FALSE]
    /\ UNCHANGED <<fifo, dlq, next, tag, where, cnt, rh, open, lock, pc, seen, picked, held, extends>>

\* Messages leave without being consumed: all of them by purge, the oldest ones
\* by reapExpired.
Remove(gone) ==
    /\ gone \subseteq Queued /\ gone # {}
    /\ \A m \in gone : ~ RowLocked(m)
    /\ where' = [m \in Msg |-> IF m \in gone THEN "purged" ELSE where[m]]
    /\ hidden' = [m \in Msg |-> m \notin gone /\ hidden[m]]
    /\ UNCHANGED <<fifo, dlq, next, tag, cnt, rh, open, lock, pc, seen, picked, held, extends>>

Purge == Remove(Queued)
ReapExpired == \E last \in Msg : Remove(Queued \intersect (1 .. last))

\* SetQueueAttributes gives the queue a RedrivePolicy.
SetRedrive ==
    /\ dlq = "none"
    /\ dlq' = "used"
    /\ UNCHANGED <<fifo, next, tag, where, hidden, cnt, rh, open, lock, pc, seen, picked, held, extends>>

\* DeleteQueue of the dead-letter queue, its messages with it.
DeleteDlq ==
    /\ dlq = "used"
    /\ dlq' = "deleted"
    /\ where' = [m \in Msg |-> IF where[m] = "dlq" THEN "dropped" ELSE where[m]]
    /\ UNCHANGED <<fifo, next, tag, hidden, cnt, rh, open, lock, pc, seen, picked, held, extends>>

-----------------------------------------------------------------------------
Receive(c) == Poll(c) \/ PollEnds(c) \/ Pick(c) \/ Claim(c) \/ ClaimFails(c)

Next ==
    \/ \E delayed \in BOOLEAN :
          Send(delayed) \/ \E g \in Group, d \in Dedup : SendFIFO(g, d, delayed)
    \/ \E d \in Dedup : WindowEnds(d)
    \/ \E c \in Consumer :
          \/ Receive(c) \/ DeleteByHandle(c)
          \/ \E long \in BOOLEAN : ChangeVisibility(c, long)
    \/ \E m \in Msg : Expire(m)
    \/ Purge \/ ReapExpired \/ SetRedrive \/ DeleteDlq

\* Consumers keep receiving, their transactions do not fail for ever and time
\* passes; nobody need ever delete anything.
Fairness ==
    /\ \A c \in Consumer : SF_vars(Pick(c)) /\ SF_vars(Claim(c)) /\ WF_vars(Receive(c))
    /\ \A m \in Msg : WF_vars(Expire(m))

Spec == Init /\ [][Next]_vars /\ Fairness

-----------------------------------------------------------------------------
\* A receive hands out a message together with every earlier one of its group
\* that is still queued, whatever deletes and changes of visibility slip in
\* between its snapshot and its update.
GroupInOrder ==
    [][\A m, b \in Msg :
          (fifo /\ m \in Queued /\ b \in Queued /\ b < m
             /\ GroupOf(b) = GroupOf(m) /\ cnt'[m] > cnt[m])
          => cnt'[b] > cnt[b] ]_vars

\* A message is deleted only with the handle of its latest delivery: a consumer
\* that was too slow cannot delete what another one is working on.
LatestHolderDeletes ==
    [][\A m \in Msg :
          (where[m] = "queue" /\ where'[m] = "deleted")
          => \E c \in Consumer : <<m, cnt[m]>> \in held[c] /\ <<m, cnt[m]>> \notin held'[c] ]_vars

\* While a message of a standard queue is in flight no receive hands it out:
\* concurrent receives share the queue without sharing a delivery.
InFlightIsExclusive ==
    [][\A m \in Msg : (~ fifo /\ hidden[m]) => cnt'[m] = cnt[m] ]_vars

\* A message that left the queue was consumed, removed on purpose or is in the
\* dead-letter queue, and there only after it was handed out as often as the
\* policy allows: a dead-letter queue that disappears in the middle of a long
\* poll costs a receive and never a message.
NoMessageLost ==
    \A m \in Msg : /\ where[m] = "dlq" => dlq = "used" /\ cnt[m] > MaxReceive
                   /\ where[m] = "dropped" => dlq = "deleted"

\* While a dead-letter queue is in use no message stays for ever, and a FIFO
\* group is not blocked for good by one that nobody can process.
NothingStays ==
    \A m \in Msg : (where[m] = "queue" /\ dlq = "used")
                   ~> (where[m] # "queue" \/ dlq # "used")

\* In a FIFO group one batch is in flight at a time: the messages in flight
\* were all given to the same consumer.
OneBatchPerGroup ==
    fifo => \A m, b \in Queued : \A c, d \in Consumer :
        (/\ GroupOf(m) = GroupOf(b) /\ hidden[m] /\ hidden[b]
         /\ <<m, rh[m]>> \in held[c] /\ <<b, rh[b]>> \in held[d]) => c = d

=============================================================================
