----------------------------- MODULE SqsProofs -----------------------------
(***************************************************************************)
(* The SQS front door, for any number of consumers, groups, deduplication  *)
(* ids and messages: no message is lost to the dead-letter queue, only the *)
(* latest delivery can delete, deliveries of a standard queue are exclusive*)
(* and those of a FIFO group are in order.                                 *)
(***************************************************************************)
EXTENDS Sqs, FiniteSetTheorems, TLAPS

QueueTyped ==
    /\ fifo \in BOOLEAN /\ dlq \in {"none", "used", "deleted"}
    /\ next \in 1 .. MaxSend + 1
    /\ tag \in [Msg -> Group \X Dedup]
    /\ where \in [Msg -> {"unsent", "queue", "dlq", "deleted", "purged", "dropped"}]
    /\ hidden \in [Msg -> BOOLEAN] /\ cnt \in [Msg -> Nat] /\ rh \in [Msg -> Nat]
    /\ open \in SUBSET Dedup

ClientTyped ==
    /\ lock \in Consumer \union {NoOne}
    /\ pc \in [Consumer -> {"idle", "poll", "claim"}]
    /\ seen \in [Consumer -> BOOLEAN]
    /\ picked \in [Consumer -> SUBSET Msg]
    /\ held \in [Consumer -> SUBSET (Msg \X Nat)]
    /\ extends \in 0 .. MaxExtend

\* The messages sent are those below the next id.
Sent == \A m \in Msg : (where[m] = "unsent") <=> (m >= next)

\* The lock of a FIFO queue is held through the transaction of a receive, and
\* rows are selected only inside one.
Locks ==
    \A c \in Consumer : /\ (lock = c) <=> (fifo /\ pc[c] = "claim")
                        /\ pc[c] # "claim" => picked[c] = {}

\* The handle of a message is that of its latest delivery.
Handles == rh = cnt

\* The rows a receive of a standard queue selected stay as it saw them, and are
\* its own.
RowsOwn ==
    ~ fifo => \A c \in Consumer : \A m \in picked[c] :
        /\ where[m] = "queue" /\ ~ hidden[m]
        /\ \A d \in Consumer : m \in picked[d] => d = c

\* The rows a receive of a FIFO queue selected leave out no earlier message of
\* their groups.
GroupsWhole ==
    fifo => \A c \in Consumer : \A m \in picked[c] : \A b \in Msg :
        (where[b] = "queue" /\ b < m /\ GroupOf(b) = GroupOf(m)) => b \in picked[c]

Inv ==
    /\ QueueTyped /\ ClientTyped /\ Sent /\ Locks /\ Handles
    /\ RowsOwn /\ GroupsWhole /\ NoMessageLost

-----------------------------------------------------------------------------
(***************************************************************************)
(* The steps.                                                              *)
(***************************************************************************)

\* The constants as the provers use them.
LEMMA Bounds ==
    /\ MaxSend \in Nat /\ MaxReceive \in Nat /\ BatchMax \in Nat /\ MaxExtend \in Nat
    /\ NoOne \notin Consumer
BY SqsAssumption

\* The inductive invariant holds initially.
LEMMA InvStarts == ASSUME Init PROVE Inv
<1>1. QueueTyped
  <2>1. (CHOOSE t \in Group \X Dedup : TRUE) \in Group \X Dedup
    <3>1. PICK g \in Group, d \in Dedup : TRUE BY SqsAssumption
    <3>2. <<g, d>> \in Group \X Dedup OBVIOUS
    <3> QED BY <3>2
  <2>2. 1 \in 1 .. MaxSend + 1 BY Bounds
  <2> QED BY <2>1, <2>2 DEF Init, QueueTyped
<1>2. ClientTyped
  <2>1. 0 \in 0 .. MaxExtend BY Bounds
  <2> QED BY <2>1 DEF Init, ClientTyped
<1>3. Sent BY Bounds DEF Init, Sent, Msg
<1>4. Locks BY Bounds DEF Init, Locks
<1>5. Handles /\ RowsOwn /\ GroupsWhole BY DEF Init, Handles, RowsOwn, GroupsWhole
<1>6. NoMessageLost BY DEF Init, NoMessageLost
<1> QED BY <1>1, <1>2, <1>3, <1>4, <1>5, <1>6 DEF Inv

\* Messages leave the queue or change their visibility, but not those a receive
\* of a standard queue has locked.
LEMMA ElsewhereKeeps ==
    ASSUME Inv, QueueTyped', ClientTyped', NoMessageLost',
           UNCHANGED <<fifo, next, tag, cnt, rh, lock, pc, picked>>,
           \A m \in Msg : (where'[m] = "unsent") <=> (where[m] = "unsent"),
           \A m \in Msg : where'[m] = "queue" => where[m] = "queue",
           \A m \in Msg : RowLocked(m) => where'[m] = where[m] /\ (hidden'[m] => hidden[m])
    PROVE  Inv'
<1>1. Sent' BY DEF Inv, Sent
<1>2. Locks' /\ Handles' BY DEF Inv, Locks, Handles
<1>3. RowsOwn'
  <2> SUFFICES ASSUME ~ fifo, NEW c \in Consumer, NEW m \in picked[c]
               PROVE  /\ where'[m] = "queue" /\ ~ hidden'[m]
                      /\ \A d \in Consumer : m \in picked[d] => d = c
    BY DEF RowsOwn
  <2>1. m \in Msg /\ RowLocked(m) BY DEF Inv, ClientTyped, RowLocked
  <2> QED BY <2>1 DEF Inv, RowsOwn
<1>4. GroupsWhole' BY DEF Inv, GroupsWhole, GroupOf
<1> QED BY <1>1, <1>2, <1>3, <1>4 DEF Inv

\* The deduplication window of an id ends.
LEMMA WindowEndsKeeps == ASSUME Inv, NEW d \in Dedup, WindowEnds(d) PROVE Inv'
<1>1. QueueTyped' BY DEF WindowEnds, Inv, QueueTyped
<1>2. ClientTyped' BY DEF WindowEnds, Inv, ClientTyped
<1>3. NoMessageLost' BY DEF WindowEnds, Inv, NoMessageLost
<1> QED BY <1>1, <1>2, <1>3, ElsewhereKeeps DEF WindowEnds

\* A delete takes a message nobody has locked, if its handle is the latest.
LEMMA DeleteByHandleKeeps ==
    ASSUME Inv, NEW c \in Consumer, DeleteByHandle(c) PROVE Inv'
<1>1. PICK mh \in held[c] :
        /\ ~ RowLocked(mh[1])
        /\ where' = [where EXCEPT ![mh[1]] = IF Names(mh[1], mh[2]) THEN "deleted" ELSE @]
        /\ hidden' = [hidden EXCEPT ![mh[1]] = @ /\ ~ Names(mh[1], mh[2])]
        /\ held' = [held EXCEPT ![c] = @ \ {mh}]
  BY DEF DeleteByHandle
<1>2. mh \in Msg \X Nat BY DEF Inv, ClientTyped
<1> DEFINE m == mh[1]
<1>3. m \in Msg BY <1>2
<1>4. UNCHANGED <<fifo, dlq, next, tag, cnt, rh, open, lock, pc, seen, picked, extends>>
  BY DEF DeleteByHandle
<1>5. /\ where' \in [Msg -> {"unsent", "queue", "dlq", "deleted", "purged", "dropped"}]
      /\ \A k \in Msg \ {m} : where'[k] = where[k]
      /\ where'[m] = where[m] \/ (where[m] = "queue" /\ where'[m] = "deleted")
  BY <1>1, <1>3 DEF Inv, QueueTyped, Names
<1>6. /\ hidden' \in [Msg -> BOOLEAN]
      /\ \A k \in Msg \ {m} : hidden'[k] = hidden[k]
  BY <1>1, <1>3 DEF Inv, QueueTyped
<1>7. QueueTyped' BY <1>4, <1>5, <1>6 DEF Inv, QueueTyped
<1>8. ClientTyped'
  <2>1. held' \in [Consumer -> SUBSET (Msg \X Nat)] BY <1>1 DEF Inv, ClientTyped
  <2> QED BY <1>4, <2>1 DEF Inv, ClientTyped
<1>9. NoMessageLost' BY <1>3, <1>4, <1>5 DEF Inv, NoMessageLost
<1> QED BY <1>1, <1>3, <1>4, <1>5, <1>6, <1>7, <1>8, <1>9, ElsewhereKeeps

\* A change of visibility shows or hides a message nobody has locked.
LEMMA ChangeVisibilityKeeps ==
    ASSUME Inv, NEW c \in Consumer, NEW long \in BOOLEAN, ChangeVisibility(c, long)
    PROVE  Inv'
<1>1. PICK mh \in held[c] :
        /\ ~ RowLocked(mh[1])
        /\ hidden' = [hidden EXCEPT ![mh[1]] = long]
  BY DEF ChangeVisibility
<1>2. mh \in Msg \X Nat BY DEF Inv, ClientTyped
<1> DEFINE m == mh[1]
<1>3. m \in Msg BY <1>2
<1>4. UNCHANGED <<fifo, dlq, next, tag, where, cnt, rh, open, lock, pc, seen, picked, held>>
  BY DEF ChangeVisibility
<1>5. /\ hidden' \in [Msg -> BOOLEAN]
      /\ \A k \in Msg \ {m} : hidden'[k] = hidden[k]
  BY <1>1, <1>3 DEF Inv, QueueTyped
<1>6. QueueTyped' BY <1>4, <1>5 DEF Inv, QueueTyped
<1>7. extends' \in 0 .. MaxExtend
  BY Bounds DEF ChangeVisibility, Inv, ClientTyped
<1>8. ClientTyped' BY <1>4, <1>7 DEF Inv, ClientTyped
<1>9. NoMessageLost' BY <1>4 DEF Inv, NoMessageLost
<1> QED BY <1>1, <1>3, <1>4, <1>5, <1>6, <1>8, <1>9, ElsewhereKeeps

\* A visibility timeout ends, which hides nothing.
LEMMA ExpireKeeps == ASSUME Inv, NEW m \in Msg, Expire(m) PROVE Inv'
<1>1. UNCHANGED <<fifo, dlq, next, tag, where, cnt, rh, open, lock, pc, seen, picked, held, extends>>
  BY DEF Expire
<1>2. /\ hidden' \in [Msg -> BOOLEAN]
      /\ \A k \in Msg : hidden'[k] => hidden[k]
  BY DEF Expire, Inv, QueueTyped
<1>3. QueueTyped' BY <1>1, <1>2 DEF Inv, QueueTyped
<1>4. ClientTyped' BY <1>1 DEF Inv, ClientTyped
<1>5. NoMessageLost' BY <1>1 DEF Inv, NoMessageLost
<1> QED BY <1>1, <1>2, <1>3, <1>4, <1>5, ElsewhereKeeps

\* The purge and the reaper take messages nobody has locked.
LEMMA RemoveKeeps == ASSUME Inv, NEW gone, Remove(gone) PROVE Inv'
<1>1. UNCHANGED <<fifo, dlq, next, tag, cnt, rh, open, lock, pc, seen, picked, held, extends>>
  BY DEF Remove
<1>2. /\ where' = [m \in Msg |-> IF m \in gone THEN "purged" ELSE where[m]]
      /\ hidden' = [m \in Msg |-> m \notin gone /\ hidden[m]]
      /\ \A m \in gone : m \in Msg /\ where[m] = "queue" /\ ~ RowLocked(m)
  BY DEF Remove, Queued
<1>3. QueueTyped'
  <2>1. where' \in [Msg -> {"unsent", "queue", "dlq", "deleted", "purged", "dropped"}]
    BY <1>2 DEF Inv, QueueTyped
  <2>2. hidden' \in [Msg -> BOOLEAN] BY <1>2
  <2> QED BY <1>1, <2>1, <2>2 DEF Inv, QueueTyped
<1>4. ClientTyped' BY <1>1 DEF Inv, ClientTyped
<1>5. NoMessageLost' BY <1>1, <1>2 DEF Inv, NoMessageLost
<1>6. \A m \in Msg : /\ m \in gone => where'[m] = "purged" /\ where[m] = "queue"
                     /\ m \notin gone => where'[m] = where[m]
                     /\ hidden'[m] => hidden[m]
  BY <1>2
<1> QED BY <1>1, <1>2, <1>3, <1>4, <1>5, <1>6, ElsewhereKeeps

\* A redrive policy is set.
LEMMA SetRedriveKeeps == ASSUME Inv, SetRedrive PROVE Inv'
<1>1. QueueTyped' BY DEF SetRedrive, Inv, QueueTyped
<1>2. ClientTyped' BY DEF SetRedrive, Inv, ClientTyped
<1>3. NoMessageLost' BY DEF SetRedrive, Inv, NoMessageLost
<1> QED BY <1>1, <1>2, <1>3, ElsewhereKeeps DEF SetRedrive

\* The dead-letter queue goes, and with it the messages in it.
LEMMA DeleteDlqKeeps == ASSUME Inv, DeleteDlq PROVE Inv'
<1>1. /\ dlq' = "deleted"
      /\ where' = [m \in Msg |-> IF where[m] = "dlq" THEN "dropped" ELSE where[m]]
      /\ UNCHANGED <<fifo, next, tag, hidden, cnt, rh, open, lock, pc, seen, picked, held, extends>>
  BY DEF DeleteDlq
<1>2. where' \in [Msg -> {"unsent", "queue", "dlq", "deleted", "purged", "dropped"}]
  BY <1>1 DEF Inv, QueueTyped
<1>3. QueueTyped' BY <1>1, <1>2 DEF Inv, QueueTyped
<1>4. ClientTyped' BY <1>1 DEF Inv, ClientTyped
<1>5. NoMessageLost' BY <1>1 DEF Inv, NoMessageLost
<1>6. \A m \in Msg : IF where[m] = "dlq" THEN where'[m] = "dropped" ELSE where'[m] = where[m]
  BY <1>1
<1>7. \A m \in Msg : RowLocked(m) => where[m] = "queue"
  BY DEF RowLocked, Inv, RowsOwn
<1> QED BY <1>1, <1>3, <1>4, <1>5, <1>6, <1>7, ElsewhereKeeps

\* An insert puts a message that was unsent in the queue and touches no other.
LEMMA Inserted ==
    ASSUME Inv, NEW delayed \in BOOLEAN, Insert(delayed), UNCHANGED <<fifo, dlq, cnt>>
    PROVE  /\ next \in Msg /\ next' \in 1 .. MaxSend + 1 /\ where[next] = "unsent"
           /\ where' \in [Msg -> {"unsent", "queue", "dlq", "deleted", "purged", "dropped"}]
           /\ hidden' \in [Msg -> BOOLEAN]
           /\ where'[next] = "queue"
           /\ \A m \in Msg \ {next} : where'[m] = where[m] /\ hidden'[m] = hidden[m]
           /\ Sent' /\ NoMessageLost'
<1>1. /\ next \in Msg /\ next' = next + 1
      /\ where' = [where EXCEPT ![next] = "queue"]
      /\ hidden' = [hidden EXCEPT ![next] = delayed]
  BY DEF Insert
<1>2. next' \in 1 .. MaxSend + 1 BY <1>1, Bounds DEF Msg
<1>3. /\ where' \in [Msg -> {"unsent", "queue", "dlq", "deleted", "purged", "dropped"}]
      /\ where'[next] = "queue" /\ \A m \in Msg \ {next} : where'[m] = where[m]
  BY <1>1 DEF Inv, QueueTyped
<1>4. hidden' \in [Msg -> BOOLEAN] /\ \A m \in Msg \ {next} : hidden'[m] = hidden[m]
  BY <1>1 DEF Inv, QueueTyped
<1>5. \A m \in Msg : m \in Int /\ next \in Int BY <1>1, Bounds DEF Msg
<1>6. where[next] = "unsent" BY <1>1, <1>5 DEF Inv, Sent
<1>7. Sent'
  <2> SUFFICES ASSUME NEW m \in Msg PROVE (where'[m] = "unsent") <=> (m >= next')
    BY DEF Sent
  <2>1. CASE m = next BY <1>1, <1>3, <1>5, <2>1
  <2>2. CASE m # next BY <1>1, <1>3, <1>5, <2>2 DEF Inv, Sent
  <2> QED BY <2>1, <2>2
<1>8. NoMessageLost' BY <1>3 DEF Inv, NoMessageLost
<1> QED BY <1>1, <1>2, <1>3, <1>4, <1>6, <1>7, <1>8

\* A send to a standard queue is selected by no receive under way.
LEMMA SendKeeps == ASSUME Inv, NEW delayed \in BOOLEAN, Send(delayed) PROVE Inv'
<1>1. /\ ~ fifo /\ Insert(delayed)
      /\ UNCHANGED <<fifo, dlq, tag, cnt, rh, open, lock, pc, seen, picked, held, extends>>
  BY DEF Send
<1>2. /\ next \in Msg /\ next' \in 1 .. MaxSend + 1 /\ where[next] = "unsent"
      /\ where' \in [Msg -> {"unsent", "queue", "dlq", "deleted", "purged", "dropped"}]
      /\ hidden' \in [Msg -> BOOLEAN]
      /\ \A m \in Msg \ {next} : where'[m] = where[m] /\ hidden'[m] = hidden[m]
      /\ Sent' /\ NoMessageLost'
  BY <1>1, Inserted
<1>3. QueueTyped' BY <1>1, <1>2 DEF Inv, QueueTyped
<1>4. ClientTyped' BY <1>1 DEF Inv, ClientTyped
<1>5. Locks' /\ Handles' BY <1>1 DEF Inv, Locks, Handles
<1>6. RowsOwn'
  <2> SUFFICES ASSUME NEW c \in Consumer, NEW m \in picked[c]
               PROVE  /\ where'[m] = "queue" /\ ~ hidden'[m]
                      /\ \A d \in Consumer : m \in picked[d] => d = c
    BY <1>1 DEF RowsOwn
  <2>1. /\ where[m] = "queue" /\ ~ hidden[m] /\ m \in Msg
        /\ \A d \in Consumer : m \in picked[d] => d = c
    BY <1>1 DEF Inv, RowsOwn, ClientTyped
  <2> QED BY <1>2, <2>1
<1>7. GroupsWhole' BY <1>1 DEF GroupsWhole
<1> QED BY <1>2, <1>3, <1>4, <1>5, <1>6, <1>7 DEF Inv

\* A send to a FIFO queue waits for the lock, so no receive is under way.
LEMMA SendFIFOKeeps ==
    ASSUME Inv, NEW g \in Group, NEW d \in Dedup, NEW delayed \in BOOLEAN,
           SendFIFO(g, d, delayed)
    PROVE  Inv'
<1>1. /\ fifo /\ lock = NoOne /\ Insert(delayed)
      /\ tag' = [tag EXCEPT ![next] = <<g, d>>] /\ open' = open \union {d}
      /\ UNCHANGED <<fifo, dlq, cnt, rh, lock, pc, seen, picked, held, extends>>
  BY DEF SendFIFO
<1>2. /\ next \in Msg /\ next' \in 1 .. MaxSend + 1
      /\ where' \in [Msg -> {"unsent", "queue", "dlq", "deleted", "purged", "dropped"}]
      /\ hidden' \in [Msg -> BOOLEAN]
      /\ Sent' /\ NoMessageLost'
  BY <1>1, Inserted
<1>3. QueueTyped'
  <2>1. tag' \in [Msg -> Group \X Dedup] BY <1>1 DEF Inv, QueueTyped
  <2>2. open' \in SUBSET Dedup BY <1>1 DEF Inv, QueueTyped
  <2> QED BY <1>1, <1>2, <2>1, <2>2 DEF Inv, QueueTyped
<1>4. ClientTyped' BY <1>1 DEF Inv, ClientTyped
<1>5. Locks' /\ Handles' BY <1>1 DEF Inv, Locks, Handles
<1>6. RowsOwn' BY <1>1 DEF RowsOwn
<1>7. \A c \in Consumer : picked[c] = {} BY <1>1, Bounds DEF Inv, Locks
<1>8. GroupsWhole' BY <1>1, <1>7 DEF GroupsWhole
<1> QED BY <1>2, <1>3, <1>4, <1>5, <1>6, <1>8 DEF Inv

\* A consumer moves between polls, holding nothing.
LEMMA PollingKeeps ==
    ASSUME Inv, NEW c \in Consumer, Poll(c) \/ PollEnds(c) PROVE Inv'
<1>1. /\ UNCHANGED <<queueVars, lock, picked, held, extends>>
      /\ pc[c] \in {"idle", "poll"}
      /\ \E p \in {"idle", "poll"} : pc' = [pc EXCEPT ![c] = p]
      /\ \E b \in BOOLEAN : seen' = [seen EXCEPT ![c] = b]
  BY DEF Poll, PollEnds
<1>2. PICK p \in {"idle", "poll"} : pc' = [pc EXCEPT ![c] = p] BY <1>1
<1>3. PICK b \in BOOLEAN : seen' = [seen EXCEPT ![c] = b] BY <1>1
<1>4. ClientTyped'
  <2>1. pc' \in [Consumer -> {"idle", "poll", "claim"}] BY <1>2 DEF Inv, ClientTyped
  <2>2. seen' \in [Consumer -> BOOLEAN] BY <1>3 DEF Inv, ClientTyped
  <2> QED BY <1>1, <2>1, <2>2 DEF Inv, ClientTyped
<1>5. Locks'
  <2>1. \A x \in Consumer : pc'[x] = "claim" <=> pc[x] = "claim"
    BY <1>1, <1>2 DEF Inv, ClientTyped
  <2> QED BY <1>1, <2>1 DEF Inv, Locks, queueVars
<1>6. QueueTyped' /\ Sent' /\ Handles' BY <1>1 DEF Inv, QueueTyped, Sent, Handles, queueVars
<1>7. RowsOwn' BY <1>1 DEF Inv, RowsOwn, queueVars
<1>8. GroupsWhole' BY <1>1 DEF Inv, GroupsWhole, GroupOf, queueVars
<1>9. NoMessageLost' BY <1>1 DEF Inv, NoMessageLost, queueVars
<1> QED BY <1>4, <1>5, <1>6, <1>7, <1>8, <1>9 DEF Inv

\* The limit cuts a selection off from above: with a message it takes every
\* eligible one before it.
LEMMA SelectionBelow ==
    ASSUME NEW n \in Nat, NEW m \in Selection(n), NEW b \in Msg, b < m, Eligible(b)
    PROVE  b \in Selection(n)
<1>1. m \in Msg /\ Cardinality({x \in 1 .. m : Eligible(x)}) <= n BY DEF Selection
<1>2. IsFiniteSet(1 .. m) BY <1>1, Bounds, FS_Interval DEF Msg
<1>3. IsFiniteSet({x \in 1 .. m : Eligible(x)})
  <2>1. {x \in 1 .. m : Eligible(x)} \subseteq 1 .. m OBVIOUS
  <2> QED BY <1>2, <2>1, FS_Subset
<1>4. {x \in 1 .. b : Eligible(x)} \subseteq {x \in 1 .. m : Eligible(x)}
  BY <1>1, Bounds DEF Msg
<1>5. /\ Cardinality({x \in 1 .. b : Eligible(x)}) <= Cardinality({x \in 1 .. m : Eligible(x)})
      /\ Cardinality({x \in 1 .. m : Eligible(x)}) \in Nat
      /\ Cardinality({x \in 1 .. b : Eligible(x)}) \in Nat
  BY <1>3, <1>4, FS_Subset, FS_CardinalityType
<1> QED BY <1>1, <1>5 DEF Selection

\* An earlier message of the group of an eligible one is eligible itself.
LEMMA EarlierEligible ==
    ASSUME Inv, fifo, NEW m \in Msg, Eligible(m), NEW b \in Msg, where[b] = "queue",
           b < m, GroupOf(b) = GroupOf(m)
    PROVE  Eligible(b)
<1>1. \A x \in Msg : x \in Int BY Bounds DEF Msg
<1>2. ~ Blocked(m) BY DEF Eligible
<1>3. \A x \in Msg : where[x] = "queue" /\ GroupOf(x) = GroupOf(m) /\ hidden[x]
                     => ~ (cnt[x] > 0) /\ ~ (x < m)
  BY <1>2 DEF Blocked, Queued
<1>4. ~ hidden[b] BY <1>3
<1>5. ~ Blocked(b)
  <2> SUFFICES ASSUME NEW x \in Msg, where[x] = "queue", GroupOf(x) = GroupOf(b),
                      hidden[x], cnt[x] > 0 \/ x < b
               PROVE  FALSE
    BY DEF Blocked, Queued
  <2>1. x < b => x < m BY <1>1
  <2> QED BY <1>3, <2>1
<1> QED BY <1>4, <1>5 DEF Eligible, RowLocked, Queued

\* A receive selects visible rows nobody has locked, and of a group the
\* earliest.
LEMMA PickKeeps == ASSUME Inv, NEW c \in Consumer, Pick(c) PROVE Inv'
<1>1. PICK n \in 1 .. BatchMax : picked' = [picked EXCEPT ![c] = Selection(n)]
  BY DEF Pick
<1>2. /\ pc[c] = "poll" /\ (fifo => lock = NoOne)
      /\ lock' = IF fifo THEN c ELSE lock
      /\ pc' = [pc EXCEPT ![c] = "claim"]
      /\ UNCHANGED <<queueVars, seen, held, extends>>
  BY DEF Pick
<1>3. n \in Nat BY <1>1, Bounds
<1>4. Selection(n) \in SUBSET Msg BY DEF Selection
<1>5. picked'[c] = Selection(n) /\ \A x \in Consumer \ {c} : picked'[x] = picked[x]
  BY <1>1 DEF Inv, ClientTyped
<1>6. pc'[c] = "claim" /\ \A x \in Consumer \ {c} : pc'[x] = pc[x]
  BY <1>2 DEF Inv, ClientTyped
<1>7. ClientTyped'
  <2>1. picked' \in [Consumer -> SUBSET Msg] BY <1>1, <1>4 DEF Inv, ClientTyped
  <2>2. pc' \in [Consumer -> {"idle", "poll", "claim"}] BY <1>2 DEF Inv, ClientTyped
  <2>3. lock' \in Consumer \union {NoOne} BY <1>2 DEF Inv, ClientTyped
  <2> QED BY <1>2, <2>1, <2>2, <2>3 DEF Inv, ClientTyped
<1>8. Locks'
  <2> SUFFICES ASSUME NEW x \in Consumer
               PROVE  /\ (lock' = x) <=> (fifo' /\ pc'[x] = "claim")
                      /\ pc'[x] # "claim" => picked'[x] = {}
    BY DEF Locks
  <2>1. fifo' = fifo BY <1>2 DEF queueVars
  <2>2. CASE x = c BY <1>2, <1>6, <2>1, <2>2, Bounds DEF Inv, Locks
  <2>3. CASE x # c BY <1>2, <1>5, <1>6, <2>1, <2>3, Bounds DEF Inv, Locks
  <2> QED BY <2>2, <2>3
<1>9. RowsOwn'
  <2> SUFFICES ASSUME ~ fifo, NEW x \in Consumer, NEW m \in picked'[x]
               PROVE  /\ where[m] = "queue" /\ ~ hidden[m]
                      /\ \A d \in Consumer : m \in picked'[d] => d = x
    BY <1>2 DEF RowsOwn, queueVars
  <2>1. \A k \in Selection(n) :
          where[k] = "queue" /\ ~ hidden[k] /\ \A d \in Consumer : k \notin picked[d]
    BY DEF Selection, Eligible, Queued, RowLocked
  <2>2. \A d \in Consumer : \A k \in picked[d] :
          /\ where[k] = "queue" /\ ~ hidden[k]
          /\ \A f \in Consumer : k \in picked[f] => f = d
    BY DEF Inv, RowsOwn
  <2>3. CASE x = c BY <1>5, <2>1, <2>3
  <2>4. CASE x # c BY <1>5, <2>1, <2>2, <2>4
  <2> QED BY <2>3, <2>4
<1>10. GroupsWhole'
  <2> SUFFICES ASSUME fifo, NEW x \in Consumer, NEW m \in picked'[x], NEW b \in Msg,
                      where[b] = "queue", b < m, GroupOf(b) = GroupOf(m)
               PROVE  b \in picked'[x]
    BY <1>2 DEF GroupsWhole, GroupOf, queueVars
  <2>1. CASE x = c
    <3>1. m \in Selection(n) BY <1>5, <2>1
    <3>2. m \in Msg /\ Eligible(m) BY <3>1 DEF Selection
    <3>3. Eligible(b) BY <3>2, EarlierEligible
    <3> QED BY <1>3, <1>5, <2>1, <3>1, <3>3, SelectionBelow
  <2>2. CASE x # c BY <1>5, <2>2 DEF Inv, GroupsWhole
  <2> QED BY <2>1, <2>2
<1>11. QueueTyped' /\ Sent' /\ Handles' BY <1>2 DEF Inv, QueueTyped, Sent, Handles, queueVars
<1>12. NoMessageLost' BY <1>2 DEF Inv, NoMessageLost, queueVars
<1> QED BY <1>7, <1>8, <1>9, <1>10, <1>11, <1>12 DEF Inv

\* The transaction of a receive is over: its rows and the lock are free.
LEMMA Released ==
    ASSUME Inv, NEW c \in Consumer, NEW then \in {"idle", "poll"}, Release(c, then),
           pc[c] = "claim", fifo' = fifo
    PROVE  /\ picked' \in [Consumer -> SUBSET Msg]
           /\ pc' \in [Consumer -> {"idle", "poll", "claim"}]
           /\ seen' \in [Consumer -> BOOLEAN]
           /\ lock' \in Consumer \union {NoOne}
           /\ picked'[c] = {} /\ \A x \in Consumer \ {c} : picked'[x] = picked[x]
           /\ Locks'
<1>1. /\ picked' = [picked EXCEPT ![c] = {}]
      /\ lock' = IF lock = c THEN NoOne ELSE lock
      /\ pc' = [pc EXCEPT ![c] = then]
      /\ seen' = [seen EXCEPT ![c] = then = "poll" /\ @]
  BY DEF Release
<1>2. picked' \in [Consumer -> SUBSET Msg] /\ picked'[c] = {}
      /\ \A x \in Consumer \ {c} : picked'[x] = picked[x]
  BY <1>1 DEF Inv, ClientTyped
<1>3. pc' \in [Consumer -> {"idle", "poll", "claim"}] /\ pc'[c] = then
      /\ \A x \in Consumer \ {c} : pc'[x] = pc[x]
  BY <1>1 DEF Inv, ClientTyped
<1>4. seen' \in [Consumer -> BOOLEAN] BY <1>1 DEF Inv, ClientTyped
<1>5. lock' \in Consumer \union {NoOne} BY <1>1 DEF Inv, ClientTyped
<1>6. Locks'
  <2> SUFFICES ASSUME NEW x \in Consumer
               PROVE  /\ (lock' = x) <=> (fifo' /\ pc'[x] = "claim")
                      /\ pc'[x] # "claim" => picked'[x] = {}
    BY DEF Locks
  <2>1. CASE x = c BY <1>1, <1>2, <1>3, <2>1, Bounds DEF Inv, Locks
  <2>2. CASE x # c BY <1>1, <1>2, <1>3, <2>2, Bounds DEF Inv, Locks
  <2> QED BY <2>1, <2>2
<1> QED BY <1>2, <1>3, <1>4, <1>5, <1>6

\* A transaction that fails changes no row.
LEMMA ClaimFailsKeeps == ASSUME Inv, NEW c \in Consumer, ClaimFails(c) PROVE Inv'
<1>1. pc[c] = "claim" /\ Release(c, "idle") /\ UNCHANGED <<queueVars, held, extends>>
  BY DEF ClaimFails
<1>2. fifo' = fifo BY <1>1 DEF queueVars
<1>3. /\ picked' \in [Consumer -> SUBSET Msg]
      /\ pc' \in [Consumer -> {"idle", "poll", "claim"}]
      /\ seen' \in [Consumer -> BOOLEAN] /\ lock' \in Consumer \union {NoOne}
      /\ picked'[c] = {} /\ \A x \in Consumer \ {c} : picked'[x] = picked[x]
      /\ Locks'
  BY <1>1, <1>2, Released
<1>4. ClientTyped' BY <1>1, <1>3 DEF Inv, ClientTyped
<1>5. \A x \in Consumer : picked'[x] \subseteq picked[x] /\ (x = c \/ picked'[x] = picked[x])
  BY <1>3
<1>6. RowsOwn' BY <1>1, <1>5 DEF Inv, RowsOwn, queueVars
<1>7. GroupsWhole' BY <1>1, <1>3, <1>5 DEF Inv, GroupsWhole, GroupOf, queueVars
<1>8. QueueTyped' /\ Sent' /\ Handles' BY <1>1 DEF Inv, QueueTyped, Sent, Handles, queueVars
<1>9. NoMessageLost' BY <1>1 DEF Inv, NoMessageLost, queueVars
<1> QED BY <1>3, <1>4, <1>6, <1>7, <1>8, <1>9 DEF Inv

\* What a commit does to each message.
LEMMA Committed ==
    ASSUME Inv, NEW c \in Consumer, Claim(c)
    PROVE  /\ \A m \in Claimed(c) : /\ m \in Msg /\ m \in picked[c] /\ where[m] = "queue"
                                    /\ cnt'[m] = cnt[m] + 1 /\ rh'[m] = cnt[m] + 1
                                    /\ where'[m] = "queue" \/
                                         (where'[m] = "dlq" /\ dlq = "used" /\ cnt'[m] > MaxReceive)
           /\ \A m \in Msg \ Claimed(c) : /\ cnt'[m] = cnt[m] /\ rh'[m] = rh[m]
                                          /\ where'[m] = where[m] /\ hidden'[m] = hidden[m]
           /\ where' \in [Msg -> {"unsent", "queue", "dlq", "deleted", "purged", "dropped"}]
           /\ hidden' \in [Msg -> BOOLEAN]
           /\ cnt' \in [Msg -> Nat] /\ rh' \in [Msg -> Nat]
           /\ UNCHANGED <<fifo, dlq, next, tag, open, extends>>
<1>1. /\ CanMove(c)
      /\ cnt' = [m \in Msg |-> IF m \in Claimed(c) THEN cnt[m] + 1 ELSE cnt[m]]
      /\ rh' = [m \in Msg |-> IF m \in Claimed(c) THEN cnt[m] + 1 ELSE rh[m]]
      /\ hidden' = [m \in Msg |-> IF m \in Claimed(c) THEN m \notin Dead(c) ELSE hidden[m]]
      /\ where' = [m \in Msg |-> IF m \in Dead(c) THEN "dlq" ELSE where[m]]
      /\ UNCHANGED <<fifo, dlq, next, tag, open, extends>>
  BY DEF Claim, Minted, Moved
<1>2. \A m \in Claimed(c) : m \in Msg /\ m \in picked[c] /\ where[m] = "queue"
  BY DEF Claimed, Queued
<1>3. \A m \in Dead(c) : m \in Claimed(c) /\ cnt[m] + 1 > MaxReceive BY DEF Dead
<1>4. Dead(c) # {} => dlq = "used" BY <1>1 DEF CanMove
<1>5. \A m \in Msg : cnt[m] \in Nat /\ rh[m] \in Nat BY DEF Inv, QueueTyped
<1>6. cnt' \in [Msg -> Nat] /\ rh' \in [Msg -> Nat] BY <1>1, <1>5
<1>7. where' \in [Msg -> {"unsent", "queue", "dlq", "deleted", "purged", "dropped"}]
  BY <1>1 DEF Inv, QueueTyped
<1>8. hidden' \in [Msg -> BOOLEAN] BY <1>1 DEF Inv, QueueTyped
<1>9. \A m \in Claimed(c) : /\ cnt'[m] = cnt[m] + 1 /\ rh'[m] = cnt[m] + 1
                            /\ where'[m] = "queue" \/
                                 (where'[m] = "dlq" /\ dlq = "used" /\ cnt'[m] > MaxReceive)
  BY <1>1, <1>2, <1>3, <1>4
<1>10. \A m \in Msg \ Claimed(c) : /\ cnt'[m] = cnt[m] /\ rh'[m] = rh[m]
                                   /\ where'[m] = where[m] /\ hidden'[m] = hidden[m]
  BY <1>1, <1>3
<1> QED BY <1>1, <1>2, <1>6, <1>7, <1>8, <1>9, <1>10

\* A transaction that commits delivers what it selected or moves it to a queue
\* that exists.
LEMMA ClaimKeeps == ASSUME Inv, NEW c \in Consumer, Claim(c) PROVE Inv'
<1>1. PICK then \in {"idle", "poll"} : Release(c, then) BY DEF Claim
<1>2. pc[c] = "claim" BY DEF Claim
<1>3. UNCHANGED <<fifo, dlq, next, tag, open, extends>> BY Committed
<1>4. /\ picked' \in [Consumer -> SUBSET Msg]
      /\ pc' \in [Consumer -> {"idle", "poll", "claim"}]
      /\ seen' \in [Consumer -> BOOLEAN] /\ lock' \in Consumer \union {NoOne}
      /\ picked'[c] = {} /\ \A x \in Consumer \ {c} : picked'[x] = picked[x]
      /\ Locks'
  BY <1>1, <1>2, <1>3, Released
<1>5. QueueTyped' BY <1>3, Committed DEF Inv, QueueTyped
<1>6. ClientTyped'
  <2>1. Given(c) \in SUBSET (Msg \X Nat)
    <3>1. \A m \in Claimed(c) : m \in Msg /\ Minted(c)[m] \in Nat
      BY DEF Claimed, Queued, Minted, Inv, QueueTyped
    <3>2. held[c] \in SUBSET (Msg \X Nat) BY DEF Inv, ClientTyped
    <3> QED BY <3>1, <3>2 DEF Given
  <2>2. held' = held \/ held' = [held EXCEPT ![c] = Given(c)] BY DEF Claim
  <2>3. held' \in [Consumer -> SUBSET (Msg \X Nat)]
    BY <2>1, <2>2 DEF Inv, ClientTyped
  <2> QED BY <1>3, <1>4, <2>3 DEF Inv, ClientTyped
<1>7. Sent'
  <2>1. \A m \in Msg : (where'[m] = "unsent") <=> (where[m] = "unsent")
    BY Committed
  <2> QED BY <1>3, <2>1 DEF Inv, Sent
<1>8. Handles'
  <2>1. \A m \in Msg : rh'[m] = cnt'[m] BY Committed DEF Inv, Handles
  <2>2. rh' \in [Msg -> Nat] /\ cnt' \in [Msg -> Nat] BY Committed
  <2> QED BY <2>1, <2>2 DEF Handles
<1>9. RowsOwn'
  <2> SUFFICES ASSUME ~ fifo, NEW x \in Consumer, NEW m \in picked'[x]
               PROVE  /\ where'[m] = "queue" /\ ~ hidden'[m]
                      /\ \A d \in Consumer : m \in picked'[d] => d = x
    BY <1>3 DEF RowsOwn
  <2>1. x # c /\ m \in picked[x] BY <1>4
  <2>2. /\ where[m] = "queue" /\ ~ hidden[m] /\ m \in Msg
        /\ \A d \in Consumer : m \in picked[d] => d = x
    BY <2>1 DEF Inv, RowsOwn, ClientTyped
  <2>3. m \notin Claimed(c) BY <2>1, <2>2 DEF Claimed
  <2>4. where'[m] = where[m] /\ hidden'[m] = hidden[m] BY <2>2, <2>3, Committed
  <2> QED BY <1>4, <2>2, <2>4
<1>10. GroupsWhole'
  <2>1. \A m \in Msg : where'[m] = "queue" => where[m] = "queue" BY Committed
  <2> QED BY <1>3, <1>4, <2>1 DEF Inv, GroupsWhole, GroupOf
<1>11. NoMessageLost'
  <2> SUFFICES ASSUME NEW m \in Msg
               PROVE  /\ where'[m] = "dlq" => dlq' = "used" /\ cnt'[m] > MaxReceive
                      /\ where'[m] = "dropped" => dlq' = "deleted"
    BY DEF NoMessageLost
  <2>1. CASE m \in Claimed(c) BY <1>3, <2>1, Committed
  <2>2. CASE m \notin Claimed(c)
    <3>1. cnt'[m] = cnt[m] /\ where'[m] = where[m] BY <2>2, Committed
    <3> QED BY <1>3, <3>1 DEF Inv, NoMessageLost
  <2> QED BY <2>1, <2>2
<1> QED BY <1>4, <1>5, <1>6, <1>7, <1>8, <1>9, <1>10, <1>11 DEF Inv

\* Every step keeps the inductive invariant.
LEMMA InvHolds == ASSUME Inv, [Next]_vars PROVE Inv'
<1>1. CASE UNCHANGED vars
  <2>1. QueueTyped' BY <1>1 DEF Inv, QueueTyped, vars, queueVars
  <2>2. ClientTyped' BY <1>1 DEF Inv, ClientTyped, vars
  <2>3. NoMessageLost' BY <1>1 DEF Inv, NoMessageLost, vars, queueVars
  <2> QED BY <1>1, <2>1, <2>2, <2>3, ElsewhereKeeps DEF vars, queueVars
<1>2. CASE \E delayed \in BOOLEAN :
             Send(delayed) \/ \E g \in Group, d \in Dedup : SendFIFO(g, d, delayed)
  BY <1>2, SendKeeps, SendFIFOKeeps
<1>3. CASE \E d \in Dedup : WindowEnds(d) BY <1>3, WindowEndsKeeps
<1>4. CASE \E c \in Consumer : Receive(c)
  BY <1>4, PollingKeeps, PickKeeps, ClaimKeeps, ClaimFailsKeeps DEF Receive
<1>5. CASE \E c \in Consumer : DeleteByHandle(c) BY <1>5, DeleteByHandleKeeps
<1>6. CASE \E c \in Consumer : \E long \in BOOLEAN : ChangeVisibility(c, long)
  BY <1>6, ChangeVisibilityKeeps
<1>7. CASE \E m \in Msg : Expire(m) BY <1>7, ExpireKeeps
<1>8. CASE Purge \/ ReapExpired BY <1>8, RemoveKeeps DEF Purge, ReapExpired
<1>9. CASE SetRedrive \/ DeleteDlq BY <1>9, SetRedriveKeeps, DeleteDlqKeeps
<1> QED BY <1>1, <1>2, <1>3, <1>4, <1>5, <1>6, <1>7, <1>8, <1>9 DEF Next

\* The inductive invariant is an invariant of the specification.
LEMMA InvAlways == Spec => []Inv
BY InvStarts, InvHolds, PTL DEF Spec

-----------------------------------------------------------------------------
(***************************************************************************)
(* The theorems.                                                           *)
(***************************************************************************)

\* The rows, the clients and their handles keep their types, and the row lock of
\* a FIFO queue is held exactly through the transaction of a receive.
THEOREM TypeCorrect == Spec => []TypeOK
<1>1. Inv => TypeOK BY Zenon DEF Inv, QueueTyped, ClientTyped, Locks, TypeOK
<1> QED BY <1>1, InvAlways, PTL

\* A message is in the dead-letter queue only after more receives than the policy
\* allows and while that queue exists, and it is dropped only with that queue: a
\* receive whose dead-letter queue is deleted under it loses nothing.
THEOREM NothingIsLost == Spec => []NoMessageLost
<1>1. Inv => NoMessageLost BY DEF Inv
<1> QED BY <1>1, InvAlways, PTL

\* How often a message was received changes only when a receive that selected it
\* commits.
LEMMA CountsMoveByClaim ==
    ASSUME Inv, [Next]_vars, NEW m \in Msg, cnt'[m] # cnt[m]
    PROVE  \E c \in Consumer : Claim(c) /\ m \in Claimed(c)
<1>1. PICK c \in Consumer : Claim(c)
  BY DEF Next, Receive, Send, SendFIFO, WindowEnds, Poll, PollEnds, Pick, ClaimFails,
         DeleteByHandle, ChangeVisibility, Expire, Purge, ReapExpired, Remove, SetRedrive,
         DeleteDlq, vars, queueVars
<1>2. m \in Claimed(c) BY <1>1, Committed
<1> QED BY <1>1, <1>2

\* A receive of a FIFO queue hands out a message only together with every earlier
\* one of its group that is still queued, although deletes, changes of visibility
\* and the reaper run between its snapshot and its update.
THEOREM GroupsStayInOrder == Spec => GroupInOrder
<1>1. ASSUME Inv, [Next]_vars, NEW m \in Msg, NEW b \in Msg, fifo, m \in Queued,
             b \in Queued, b < m, GroupOf(b) = GroupOf(m), cnt'[m] > cnt[m]
      PROVE  cnt'[b] > cnt[b]
  <2>1. cnt[m] \in Nat /\ cnt[b] \in Nat BY <1>1 DEF Inv, QueueTyped
  <2>2. cnt'[m] # cnt[m] BY <1>1, <2>1
  <2>3. PICK c \in Consumer : Claim(c) /\ m \in Claimed(c)
    BY <1>1, <2>2, CountsMoveByClaim
  <2>4. m \in picked[c] /\ where[b] = "queue" BY <1>1, <2>3 DEF Claimed, Queued
  <2>5. b \in Claimed(c) BY <1>1, <2>4 DEF Inv, GroupsWhole, Claimed
  <2>6. cnt'[b] = cnt[b] + 1 BY <1>1, <2>3, <2>5, Committed
  <2> QED BY <2>1, <2>6
<1>2. Inv /\ [Next]_vars =>
        [\A m, b \in Msg :
          (fifo /\ m \in Queued /\ b \in Queued /\ b < m
             /\ GroupOf(b) = GroupOf(m) /\ cnt'[m] > cnt[m])
          => cnt'[b] > cnt[b] ]_vars
  BY <1>1
<1> QED BY <1>2, InvAlways, PTL DEF Spec, GroupInOrder

\* deleteByHandle removes a message only for the client that holds the handle of
\* its latest delivery, and takes that handle from it.
THEOREM OnlyLatestHolderDeletes == Spec => LatestHolderDeletes
<1>1. ASSUME Inv, [Next]_vars, NEW m \in Msg, where[m] = "queue", where'[m] = "deleted"
      PROVE  \E c \in Consumer : <<m, cnt[m]>> \in held[c] /\ <<m, cnt[m]>> \notin held'[c]
  <2>1. ASSUME NEW c \in Consumer, Claim(c) PROVE FALSE BY <1>1, <2>1, Committed
  <2>2. ASSUME NEW delayed \in BOOLEAN, Insert(delayed) PROVE FALSE
    BY <1>1, <2>2 DEF Insert, Inv, QueueTyped
  <2>3. PICK c \in Consumer : DeleteByHandle(c)
    BY <1>1, <2>1, <2>2
    DEF Next, Receive, Send, SendFIFO, WindowEnds, Poll, PollEnds, Pick, ClaimFails,
        ChangeVisibility, Expire, Purge, ReapExpired, Remove, SetRedrive, DeleteDlq,
        vars, queueVars
  <2>4. PICK mh \in held[c] :
        /\ where' = [where EXCEPT ![mh[1]] = IF Names(mh[1], mh[2]) THEN "deleted" ELSE @]
        /\ held' = [held EXCEPT ![c] = @ \ {mh}]
    BY <2>3 DEF DeleteByHandle
  <2>5. mh \in Msg \X Nat BY <1>1 DEF Inv, ClientTyped
  <2>6. mh[1] = m /\ Names(mh[1], mh[2]) BY <1>1, <2>4, <2>5 DEF Inv, QueueTyped
  <2>7. mh[2] = cnt[m] BY <1>1, <2>6 DEF Names, Inv, Handles
  <2>8. mh = <<m, cnt[m]>> BY <2>5, <2>6, <2>7
  <2>9. mh \notin held'[c] BY <1>1, <2>4 DEF Inv, ClientTyped
  <2> QED BY <2>8, <2>9
<1>2. Inv /\ [Next]_vars =>
        [\A m \in Msg :
          (where[m] = "queue" /\ where'[m] = "deleted")
          => \E c \in Consumer : <<m, cnt[m]>> \in held[c] /\ <<m, cnt[m]>> \notin held'[c] ]_vars
  BY <1>1
<1> QED BY <1>2, InvAlways, PTL DEF Spec, LatestHolderDeletes

\* No receive of a standard queue hands out a message that is in flight or
\* delayed, however many receives, deletes and changes of visibility overlap:
\* FOR UPDATE SKIP LOCKED keeps the rows it selected as its snapshot saw them.
THEOREM DeliveriesAreExclusive == Spec => InFlightIsExclusive
<1>1. ASSUME Inv, [Next]_vars, NEW m \in Msg, ~ fifo, hidden[m]
      PROVE  cnt'[m] = cnt[m]
  <2> SUFFICES ASSUME cnt'[m] # cnt[m] PROVE FALSE OBVIOUS
  <2>1. PICK c \in Consumer : Claim(c) /\ m \in Claimed(c) BY <1>1, CountsMoveByClaim
  <2>2. m \in picked[c] BY <2>1 DEF Claimed
  <2> QED BY <1>1, <2>2 DEF Inv, RowsOwn
<1>2. Inv /\ [Next]_vars => [\A m \in Msg : (~ fifo /\ hidden[m]) => cnt'[m] = cnt[m] ]_vars
  BY <1>1
<1> QED BY <1>2, InvAlways, PTL DEF Spec, InFlightIsExclusive

-----------------------------------------------------------------------------
(***************************************************************************)
(* FIFO groups, when clients leave messages that timed out alone.          *)
(***************************************************************************)

\* A handle held is that of a delivery that took place.
HandlesPast ==
    /\ \A c \in Consumer : \A m \in Msg, h \in Nat :
          <<m, h>> \in held[c] => 1 <= h /\ h <= cnt[m]
    /\ \A m \in Msg : where[m] = "unsent" => cnt[m] = 0

\* At most one client holds the handle of the latest delivery.
OneHolder ==
    \A m \in Msg : \A c, d \in Consumer :
        <<m, cnt[m]>> \in held[c] /\ <<m, cnt[m]>> \in held[d] => c = d

\* Nothing of a group is in flight while a receive has rows of it selected.
PickedAlone ==
    fifo => \A c \in Consumer : \A m \in picked[c] : \A b \in Msg :
        where[b] = "queue" /\ GroupOf(b) = GroupOf(m) /\ hidden[b] => cnt[b] = 0

\* OneBatchPerGroup, with the handles as Handles has them.
OneBatch ==
    fifo => \A m, b \in Msg : \A c, d \in Consumer :
        (/\ where[m] = "queue" /\ where[b] = "queue"
         /\ GroupOf(m) = GroupOf(b) /\ hidden[m] /\ hidden[b]
         /\ <<m, cnt[m]>> \in held[c] /\ <<b, cnt[b]>> \in held[d]) => c = d

BatchInv == HandlesPast /\ OneHolder /\ PickedAlone /\ OneBatch

\* Steps that hand out, insert and hide nothing.
LEMMA BatchShrinks ==
    ASSUME Inv, BatchInv, UNCHANGED <<fifo, tag, cnt>>,
           \A c \in Consumer : picked'[c] \subseteq picked[c] /\ held'[c] \subseteq held[c],
           \A m \in Msg : where'[m] = "queue" =>
                            where[m] = "queue" /\ (hidden'[m] => hidden[m]),
           \A m \in Msg : where'[m] = "unsent" => where[m] = "unsent"
    PROVE  BatchInv'
<1>1. HandlesPast' BY DEF BatchInv, HandlesPast
<1>2. OneHolder' BY DEF BatchInv, OneHolder
<1>3. PickedAlone' BY DEF BatchInv, PickedAlone, GroupOf, Inv, ClientTyped
<1>4. OneBatch' BY DEF BatchInv, OneBatch, GroupOf
<1> QED BY <1>1, <1>2, <1>3, <1>4 DEF BatchInv

\* A message just sent was never handed out.
LEMMA BatchSends ==
    ASSUME Inv, BatchInv, NEW delayed \in BOOLEAN,
           Send(delayed) \/ \E g \in Group, d \in Dedup : SendFIFO(g, d, delayed)
    PROVE  BatchInv'
<1>1. /\ UNCHANGED <<fifo, dlq, cnt, picked, held>> /\ Insert(delayed)
      /\ fifo => lock = NoOne
      /\ \A m \in Msg \ {next} : tag'[m] = tag[m]
  BY DEF Send, SendFIFO, Inv, QueueTyped
<1>2. /\ next \in Msg /\ where[next] = "unsent" /\ where'[next] = "queue"
      /\ \A m \in Msg \ {next} : where'[m] = where[m] /\ hidden'[m] = hidden[m]
  BY <1>1, Inserted
<1>3. cnt[next] = 0 BY <1>2 DEF BatchInv, HandlesPast
<1>4. HandlesPast' BY <1>1, <1>2 DEF BatchInv, HandlesPast
<1>5. OneHolder' BY <1>1 DEF BatchInv, OneHolder
<1>6. PickedAlone'
  <2>1. fifo => \A c \in Consumer : picked[c] = {} BY <1>1, Bounds DEF Inv, Locks
  <2> QED BY <1>1, <2>1 DEF PickedAlone
<1>7. OneBatch'
  <2>1. \A c \in Consumer : <<next, cnt[next]>> \notin held[c]
    BY <1>2, <1>3 DEF BatchInv, HandlesPast
  <2> QED BY <1>1, <1>2, <2>1 DEF BatchInv, OneBatch, GroupOf
<1> QED BY <1>4, <1>5, <1>6, <1>7 DEF BatchInv

\* A receive selects rows of no group that has something in flight.
LEMMA BatchPicks == ASSUME Inv, BatchInv, NEW c \in Consumer, Pick(c) PROVE BatchInv'
<1>1. PICK n \in 1 .. BatchMax : picked' = [picked EXCEPT ![c] = Selection(n)]
  BY DEF Pick
<1>2. UNCHANGED <<queueVars, held>> BY DEF Pick
<1>3. picked'[c] = Selection(n) /\ \A x \in Consumer \ {c} : picked'[x] = picked[x]
  BY <1>1 DEF Inv, ClientTyped
<1>4. PickedAlone'
  <2> SUFFICES ASSUME fifo, NEW x \in Consumer, NEW m \in picked'[x], NEW b \in Msg,
                      where[b] = "queue", GroupOf(b) = GroupOf(m), hidden[b]
               PROVE  cnt[b] = 0
    BY <1>2 DEF PickedAlone, GroupOf, queueVars
  <2>1. CASE x = c
    <3>1. ~ Blocked(m) BY <1>3, <2>1 DEF Selection, Eligible
    <3>2. ~ (cnt[b] > 0) BY <3>1 DEF Blocked, Queued
    <3>3. cnt[b] \in Nat BY DEF Inv, QueueTyped
    <3> QED BY <3>2, <3>3
  <2>2. CASE x # c BY <1>3, <2>2 DEF BatchInv, PickedAlone
  <2> QED BY <2>1, <2>2
<1>5. HandlesPast' /\ OneHolder' BY <1>2 DEF BatchInv, HandlesPast, OneHolder, queueVars
<1>6. OneBatch' BY <1>2 DEF BatchInv, OneBatch, GroupOf, queueVars
<1> QED BY <1>4, <1>5, <1>6 DEF BatchInv

\* Who holds what once a receive has committed: of a message it claimed only the
\* consumer itself can hold the new handle, of any other what was held before.
LEMMA BatchGiven ==
    ASSUME Inv, BatchInv, NEW c \in Consumer, Claim(c)
    PROVE  \A d \in Consumer : \A m \in Msg, h \in Nat : <<m, h>> \in held'[d] =>
              <<m, h>> \in held[d] \/ (d = c /\ m \in Claimed(c) /\ h = cnt[m] + 1)
<1>1. held' = held \/ held' = [held EXCEPT ![c] = Given(c)] BY DEF Claim
<1>2. \A m \in Msg, h \in Nat : <<m, h>> \in Given(c) =>
        <<m, h>> \in held[c] \/ (m \in Claimed(c) /\ h = cnt[m] + 1)
  <2> SUFFICES ASSUME NEW m \in Msg, NEW h \in Nat, <<m, h>> \in Given(c),
                      <<m, h>> \notin held[c]
               PROVE  m \in Claimed(c) /\ h = cnt[m] + 1
    OBVIOUS
  <2>1. PICK k \in Claimed(c) : <<m, h>> = <<k, Minted(c)[k]>> BY DEF Given
  <2>2. k \in Msg BY DEF Claimed, Queued
  <2> QED BY <2>1, <2>2 DEF Minted
<1>3. held'[c] \in {held[c], Given(c)} /\ \A d \in Consumer \ {c} : held'[d] = held[d]
  BY <1>1 DEF Inv, ClientTyped
<1> QED BY <1>2, <1>3

\* What a receive delivers is then all that is in flight of its groups.
LEMMA BatchClaims == ASSUME Inv, BatchInv, NEW c \in Consumer, Claim(c) PROVE BatchInv'
<1>1. \A m \in Msg : cnt[m] \in Nat /\ cnt'[m] \in Nat BY Committed DEF Inv, QueueTyped
<1>2. \A m \in Msg : (m \in Claimed(c) /\ cnt'[m] = cnt[m] + 1)
                     \/ (m \notin Claimed(c) /\ cnt'[m] = cnt[m])
  BY Committed
<1>3. UNCHANGED <<fifo, tag>> BY Committed
<1>4. \A m \in Msg : where'[m] = "queue" => where[m] = "queue" BY Committed
<1>5. HandlesPast'
  <2>1. \A d \in Consumer : \A m \in Msg, h \in Nat :
          <<m, h>> \in held'[d] => 1 <= h /\ h <= cnt'[m]
    <3> SUFFICES ASSUME NEW d \in Consumer, NEW m \in Msg, NEW h \in Nat, <<m, h>> \in held'[d]
                 PROVE  1 <= h /\ h <= cnt'[m]
      OBVIOUS
    <3>1. CASE <<m, h>> \in held[d] BY <1>1, <1>2, <3>1 DEF BatchInv, HandlesPast
    <3>2. CASE m \in Claimed(c) /\ h = cnt[m] + 1 BY <1>1, <1>2, <3>2
    <3> QED BY <3>1, <3>2, BatchGiven
  <2>2. \A m \in Msg : where'[m] = "unsent" => where[m] = "unsent" /\ cnt'[m] = cnt[m]
    BY Committed
  <2> QED BY <2>1, <2>2 DEF BatchInv, HandlesPast
\* A new handle was held by nobody before.
<1>6. \A d \in Consumer : \A m \in Msg :
        <<m, cnt'[m]>> \in held'[d] => (m \in Claimed(c) /\ d = c)
                                       \/ (m \notin Claimed(c) /\ <<m, cnt[m]>> \in held[d])
  <2> SUFFICES ASSUME NEW d \in Consumer, NEW m \in Msg, <<m, cnt'[m]>> \in held'[d]
               PROVE  (m \in Claimed(c) /\ d = c)
                      \/ (m \notin Claimed(c) /\ <<m, cnt[m]>> \in held[d])
    OBVIOUS
  <2>1. CASE m \in Claimed(c)
    <3>1. cnt'[m] = cnt[m] + 1 BY <1>2, <2>1
    <3>2. <<m, cnt[m] + 1>> \notin held[d]
      BY <1>1 DEF BatchInv, HandlesPast
    <3> QED BY <1>1, <2>1, <3>1, <3>2, BatchGiven
  <2>2. CASE m \notin Claimed(c) BY <1>1, <1>2, <2>2, BatchGiven
  <2> QED BY <2>1, <2>2
<1>7. OneHolder' BY <1>6 DEF BatchInv, OneHolder
<1>8. PickedAlone'
  <2>1. pc[c] = "claim" BY DEF Claim
  <2>2. fifo => \A d \in Consumer \ {c} : picked[d] = {} BY <2>1 DEF Inv, Locks
  <2>3. \A d \in Consumer : picked'[d] = IF d = c THEN {} ELSE picked[d]
    BY DEF Claim, Release, Inv, ClientTyped
  <2> QED BY <1>3, <2>2, <2>3 DEF PickedAlone
<1>9. OneBatch'
  <2> SUFFICES ASSUME fifo, NEW m \in Msg, NEW b \in Msg, NEW x \in Consumer,
                      NEW y \in Consumer, where'[m] = "queue", where'[b] = "queue",
                      GroupOf(m) = GroupOf(b), hidden'[m], hidden'[b],
                      <<m, cnt'[m]>> \in held'[x], <<b, cnt'[b]>> \in held'[y]
               PROVE  x = y
    BY <1>3 DEF OneBatch, GroupOf
  <2>1. \A k \in Claimed(c) : k \in picked[c] BY DEF Claimed
  <2>2. \A k \in Msg \ Claimed(c) : hidden'[k] = hidden[k] BY Committed
  <2>3. \A d \in Consumer : \A k \in Msg : <<k, cnt[k]>> \in held[d] => cnt[k] # 0
    BY <1>1 DEF BatchInv, HandlesPast
  <2>4. CASE m \in Claimed(c) /\ b \in Claimed(c) BY <1>6, <2>4
  <2>5. CASE m \in Claimed(c) /\ b \notin Claimed(c)
    BY <1>4, <1>6, <2>1, <2>2, <2>3, <2>5 DEF BatchInv, PickedAlone
  <2>6. CASE m \notin Claimed(c) /\ b \in Claimed(c)
    BY <1>4, <1>6, <2>1, <2>2, <2>3, <2>6 DEF BatchInv, PickedAlone
  <2>7. CASE m \notin Claimed(c) /\ b \notin Claimed(c)
    BY <1>4, <1>6, <2>2, <2>7 DEF BatchInv, OneBatch
  <2> QED BY <2>4, <2>5, <2>6, <2>7
<1> QED BY <1>5, <1>7, <1>8, <1>9 DEF BatchInv

\* Every step keeps one batch in flight per group when no client extends a
\* message that timed out.
LEMMA BatchHolds ==
    ASSUME ~ LateExtend, Inv, BatchInv, [Next]_vars PROVE BatchInv'
<1>1. CASE UNCHANGED vars \/ SetRedrive \/ \E d \in Dedup : WindowEnds(d)
  BY <1>1, BatchShrinks DEF SetRedrive, WindowEnds, vars, queueVars
<1>2. CASE \E delayed \in BOOLEAN :
             Send(delayed) \/ \E g \in Group, d \in Dedup : SendFIFO(g, d, delayed)
  BY <1>2, BatchSends
<1>3. CASE \E c \in Consumer : Receive(c)
  <2>1. PICK c \in Consumer : Receive(c) BY <1>3
  <2>2. CASE Poll(c) \/ PollEnds(c) BY <2>2, BatchShrinks DEF Poll, PollEnds, queueVars
  <2>3. CASE Pick(c) BY <2>3, BatchPicks
  <2>4. CASE Claim(c) BY <2>4, BatchClaims
  <2>5. CASE ClaimFails(c)
    <3>1. picked' = [picked EXCEPT ![c] = {}] BY <2>5 DEF ClaimFails, Release
    <3>2. \A d \in Consumer : picked'[d] \subseteq picked[d]
      BY <3>1 DEF Inv, ClientTyped
    <3> QED BY <2>5, <3>2, BatchShrinks DEF ClaimFails, queueVars
  <2> QED BY <2>1, <2>2, <2>3, <2>4, <2>5 DEF Receive
<1>4. CASE \E c \in Consumer : DeleteByHandle(c)
  <2>1. PICK c \in Consumer : DeleteByHandle(c) BY <1>4
  <2>2. PICK mh \in held[c] :
        /\ where' = [where EXCEPT ![mh[1]] = IF Names(mh[1], mh[2]) THEN "deleted" ELSE @]
        /\ hidden' = [hidden EXCEPT ![mh[1]] = @ /\ ~ Names(mh[1], mh[2])]
        /\ held' = [held EXCEPT ![c] = @ \ {mh}]
    BY <2>1 DEF DeleteByHandle
  <2>3. mh[1] \in Msg BY DEF Inv, ClientTyped
  <2>4. \A m \in Msg : hidden'[m] => hidden[m] BY <2>2, <2>3 DEF Inv, QueueTyped
  <2>5. \A m \in Msg : where'[m] = where[m] \/ (where[m] = "queue" /\ where'[m] = "deleted")
    BY <2>2, <2>3 DEF Inv, QueueTyped, Names
  <2>6. \A d \in Consumer : held'[d] \subseteq held[d] BY <2>2 DEF Inv, ClientTyped
  <2> QED BY <2>1, <2>4, <2>5, <2>6, BatchShrinks DEF DeleteByHandle
<1>5. CASE \E c \in Consumer : \E long \in BOOLEAN : ChangeVisibility(c, long)
  <2>1. PICK c \in Consumer, long \in BOOLEAN : ChangeVisibility(c, long) BY <1>5
  <2>2. PICK mh \in held[c] : hidden[mh[1]] /\ hidden' = [hidden EXCEPT ![mh[1]] = long]
    BY <2>1 DEF ChangeVisibility
  <2>3. mh[1] \in Msg BY DEF Inv, ClientTyped
  <2>4. \A m \in Msg : hidden'[m] => hidden[m] BY <2>2, <2>3 DEF Inv, QueueTyped
  <2> QED BY <2>1, <2>4, BatchShrinks DEF ChangeVisibility
<1>6. CASE \E m \in Msg : Expire(m)
  <2>1. PICK k \in Msg : Expire(k) BY <1>6
  <2>2. \A m \in Msg : hidden'[m] => hidden[m] BY <2>1 DEF Expire, Inv, QueueTyped
  <2> QED BY <2>1, <2>2, BatchShrinks DEF Expire
<1>7. CASE Purge \/ ReapExpired
  <2>1. PICK gone : Remove(gone) BY <1>7 DEF Purge, ReapExpired
  <2>2. \A m \in Msg : /\ hidden'[m] => hidden[m]
                       /\ where'[m] \in {where[m], "purged"}
    BY <2>1 DEF Remove
  <2> QED BY <2>1, <2>2, BatchShrinks DEF Remove
<1>8. CASE DeleteDlq
  <2>1. \A m \in Msg : where'[m] \in {where[m], "dropped"} BY <1>8 DEF DeleteDlq
  <2> QED BY <1>8, <2>1, BatchShrinks DEF DeleteDlq
<1> QED BY <1>1, <1>2, <1>3, <1>4, <1>5, <1>6, <1>7, <1>8 DEF Next

\* When clients change the visibility only of messages still in flight, the
\* messages of a FIFO group in flight were all given to one consumer: the pick
\* sees no other batch, and none appears before it commits.  With LateExtend the
\* code breaks this.
THEOREM OneBatchInFlight == ASSUME ~ LateExtend PROVE Spec => []OneBatchPerGroup
<1>1. Init => BatchInv
  <2> SUFFICES ASSUME Init PROVE BatchInv OBVIOUS
  <2>1. \A m \in Msg : cnt[m] = 0 BY DEF Init
  <2>2. \A c \in Consumer : held[c] = {} /\ picked[c] = {} BY DEF Init
  <2> QED BY <2>1, <2>2 DEF BatchInv, HandlesPast, OneHolder, PickedAlone, OneBatch
<1>2. Inv /\ BatchInv /\ [Next]_vars => (Inv /\ BatchInv)'
  BY InvHolds, BatchHolds
<1>3. Inv /\ BatchInv => OneBatchPerGroup
  BY DEF Inv, Handles, BatchInv, OneBatch, OneBatchPerGroup, Queued
<1> QED BY <1>1, <1>2, <1>3, InvStarts, PTL DEF Spec

=============================================================================
