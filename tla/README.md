# open-infra: TLA+ models and proofs

This directory holds TLA+ models of the parts of open-infra where several
parties act at once on state that outlives a request: **apply-sink**, which
replicates tables between databases over NATS JetStream; **tds-proxy**, a
connection pool in front of SQL Server; the **SQS** front door of aws-shim on
Postgres; the **statemachine** controller behind Step Functions; **lan-expose**,
which gives Services addresses on the LAN; and the **audit shipper**, which keeps
a hash chain of the API server's audit log in locked buckets. The rest of the
repository is largely translation of requests into Kubernetes objects,
manifests, images and scripts. TLC checks every model on small instances, and
TLAPS proves the safety properties of all of them for all values of the
constants.

## 1. The system

### Components

| component | state it keeps | operations | talks to |
|---|---|---|---|
| apply-sink, multi-master (`apply-sink/main.go`: `mmPrep*`, `buildUpsert`, `execUpsert*`, `execDelete`, `parseMsg`) | per member: the `mm_hlc_state` row (pt, lc), tables with version and origin columns | native write under the stamping trigger, replicated upsert under last-write-wins, delete, origin filter | each member's change stream (Debezium to JetStream), one sink per directed edge |
| apply-sink, stream mode (`runStream`, `applyBatch`, `tryBatch`, `applyOne`) | the events of a Fetch; a cache of table metadata | fetch, batch transaction, one-by-one fallback, Ack, Nak, park in the dead-letter stream | a durable JetStream consumer, the target database, the `DLQ` stream |
| apply-sink, pump mode (`runPump`, `transform`) | the events of a Fetch | call a function, publish, Ack, Nak, park | JetStream, a function over HTTP |
| apply-sink, reconciler (`reconcileOnce`, `mmPrepTable`) | `prepped` and `noPK` across cycles | discover, create, prepare tables | every member database |
| apply-sink, schema sync and drift | none | introspect, create, add columns | source and target |
| tds-proxy, pool (`pool/pool.go`) | per credential key: the `idle` and `tokens` channels, the kept login response | Acquire, Return, Discard, CaptureLogin | sessions |
| tds-proxy, session relay (`main.go`: `handle`, `acquireUsable`, `relaySession`) | one goroutine per client and two per relay; reqCount, respCount, pinned, sawRealBatch | borrow, cold login, relay both ways, classify, return or discard | pool, client, backend |
| tds-proxy, transaction multiplexing (`txmultiplex.go`) | sticky, sawReal, prelude, txnDepth, needReset | borrow per request, replay the prelude, give back at a boundary | pool, classifier |
| tds-proxy, classifier (`classify/classify.go`) | none | Classify, isSetOnly | the two relays |
| aws-shim, SQS (`sqs.go`, `sqs_fifo.go`, `sqs_store.go`) | rows of messages with visibility, receive count and receipt handle; deduplication rows; queue attributes | send, long-poll receive, delete, change visibility, purge, redrive, retention reaper | senders and consumers, Postgres |
| statemachine (`main.go`, `engine.go`) and aws-shim's `createExecution`, `stopExecution` | the status of an Execution (phase, currentState, context, stopRequested); the `active` and `cancels` maps in memory | poll, claim, resume, checkpoint, run a state, finalize, stop, shut down | the Kubernetes API, functions |
| lan-expose (`reconcile.go`, `alloc.go`) | OvnEip, OvnFip, NetworkPolicy, annotations and the default VPC's policy routes, all in the cluster | a sweep: list, allocate, create, re-point, annotate, collect, patch the VPC | the Kubernetes API, pods, whoever else writes the VPC |
| audit shipping (`cmd/audit-offsite`) | the chain of segments in the primary bucket; nothing local | resume from the chain head, plan the files to read, write a segment to both buckets | the API server's rotating log, two S3 buckets |
| dynamodb, open-appsync, cfn, hpo, featurestore, other console-api services, authorization, certificates, vtl, policyengine | mostly request-scoped; the durable state is in a database or in the cluster | see PROJECT.json | |
| ui, platform, query, lambda-runtime, babelfish, chaos, probe, conformance, test and the other directories of manifests, images, scripts and examples | none of their own | | |

### What is hard here, and what makes each part correct

* **Clocks and conflicts.** Wall clocks jump, two sites write one row at once,
  a sink's own write is captured and sent on. Correct means: stamps are unique,
  a causally later write wins, a stored row is never replaced by one that loses
  against it, nothing circulates for ever, and quiet members agree.
* **At-least-once delivery.** Acknowledgements get lost, AckWait expires under a
  busy sink, sinks die between commit and acknowledgement, two sinks share a
  consumer during a rollout, a batch fails as a whole. Correct means: no event
  vanishes, no good event is parked, every event is settled in the end, and
  each row shows its last image.
* **A shared pool.** A slot must be given back exactly once on every way out of
  a session; two goroutines and a select decide whether a backend is clean.
  Correct means: slots add up, a backend has one user, no answer and no session
  state crosses from one client to the next, and a client that left does not
  keep its slot.
* **Swapping backends inside a session.** Correct means: a transaction never
  changes backends and nobody works inside another's, an idle backend has one
  open only for a reason known by name, and each request finds the session state
  its client created and no other.
* **A queue on a database.** Receives select and update rows while deletes and
  changes of visibility commit in between; handles go stale; the dead-letter
  queue is looked up once and used up to twenty seconds later. Correct means: a
  FIFO group stays in order, a delivery is one consumer's, a late delete removes
  nothing, no message is lost between the queues, and none blocks its group for
  ever.
* **Resuming a workflow.** The controller may be stopped or killed between the
  work of a state and the next checkpoint, a stop may meet the goroutine at any
  point of its life, a cancelled context looks like a failure. Correct means: a
  checkpoint stands for work done, success is complete, work is repeated only
  for a cause, a terminal phase stays but for a list that is out of date, a
  shutdown is not recorded as a failure of the workflow, a stop takes effect.
* **Level-triggered sweeps.** Every call of a sweep may fail, gc runs on what the
  sweep listed at its start, other components take addresses and add routes
  meanwhile, re-pointing takes two sweeps. Correct means: no address is given
  twice, nothing is orphaned, and the sweeps settle on what the annotations ask
  for.
* **A chain without local state.** The log is rotated and pruned while it is
  read, inodes are reused, a run may be killed between any two PUTs. Correct
  means: the chain never forks, no record is shipped twice or out of order, a
  gap is reported by the run that leaves it, the two buckets agree, and the chain
  reaches the end of the log.

PROJECT.json lists the hazards line by line with the properties that watch them.

## 2. Modules

| module | models | state and actions |
|---|---|---|
| `Hlc` | the clock functions installed by mm-prep | operators only: `Tick` (mm_hlc_tick), `ObservePg` (mm_hlc_observe), `ObserveMysql` (the ELSE branch of the MySQL trigger), `Version` |
| `MultiMaster` | members, their streams and the sinks between them | `hlc`, `tbl`, `queue`; `NativeWrite`, `NativeDelete`, `Deliver` (parse, filter, upsert or delete, capture, Ack), `AckLost`, `Nak` |
| `ApplySink` | the loop of stream mode | `st`, `nd` (JetStream), `held`, `mode`, `cache` (the sinks), `tgt`, `landed` (the target), `dlq`; an action per outcome of a batch and of an event, plus `Expire`, `Crash`, `TargetDown`, `TargetUp` |
| `PoolContract` | what the pool promises, abstractly | `free`, `shelf`, `reserved`, `lent`; `Reserve`, `GiveUp`, `Open`, `Lend`, `TakeBack`, `Drop` |
| `TdsPool` | the pool and how a session gets a backend | `idle`, `tokens`, `loginResp`, `sock`, `pc`, `be`; `AcquireIdle`, `AcquireBlocks`, `AcquireToken`, `AcquireTimeout`, `ProbePasses`, `ProbeEvicts`, `DialFails`, `DialAnswered`; the operations `Return`, `Discard`, `CaptureLogin` |
| `TdsSession` | the default mode, on top of `TdsPool` | the two relay goroutines and the final select: `Forward`, `ForwardFails`, `Attention`, `RelayAnswer`, `BackendReaderEnds`, `ClientReaderEnds`, `SelectClient`, `SelectBackend`, `Finish`; the backend's `Execute`, the client's `Leave` |
| `TdsTxMultiplex` | `-tx-multiplex`, on top of `TdsPool` | `Borrow`, `ColdLogin`, `ReplayLogin`, `ReplayFails`, `ApplyPrelude`, `Ask`, `Serve`, `ServeFails`, `ClientLeaves`, `Close`, `BackendDies`; `open` and `txns` count transactions as SQL Server does (`Nested`), `depth` is the proxy's own count (`Held`); `torn` and `abandoned` remember transactions taken from their client; its own `TxInit`, `TxNext`, `TxSpec`, `TxTypeOK`, so that one module can state the theorems of both modes |
| `Sqs` | one queue, standard or FIFO, with its dead-letter queue | `where`, `hidden`, `cnt`, `rh` (the rows), `lock`, `pc`, `seen`, `picked` (receives), `held` (what consumers have); `Send`, `SendFIFO`, `Poll`, `Pick`, `Claim`, `ClaimFails`, `DeleteByHandle`, `ChangeVisibility`, `Expire`, `Purge`, `ReapExpired`, `SetRedrive`, `DeleteDlq` |
| `StateMachine` | one Execution, its controller and the shim | `phase`, `cur`, `data`, `stop`, `output`, `creds` (the objects), `proc`, `snap` (the poll), `go`, `e`, `at`, `acc`, `res`, `canc` (the goroutine), `late` (goroutines that ended between a list and its dispatch); `List`, `Dispatch*`, `Register`, `Load*`, `Claim`, `Enter*`, `Work*`, `End`, `Finalize`, `Shutdown`, `Exit`, `Crash`, `Boot`, `StopExecution`, `StoreCreds` |
| `LanExpose` | the cluster and the sweep | `want`, `ask`, `up`, `taken`, `eip`, `fip`, `netpol`, `routes`, `assigned` (the cluster), `pc`, `i`, `snap`, `used`, `keep`, `seen` (the sweep); `Start`, `PickEndpoint`, `EnsureEip`, `RecreateEip`, `EnsureFip`, `RepointFip`, `Mark`, `GcEip`, `GcNetpols`, `GetVpc`, `PatchVpc`, `CallFails`, `CreateEipLost`, `CreateFipLost`, `Restart`; around it `Annotate`, `Request`, `PodUp`, `PodDown`, `AddForeignRoute`, `TakeAddress` |
| `AuditShip` | the log, the runs and the two buckets | `n`, `starts`, `inode`, `oldest` (the log), `primary`, `offsite`, `pc`, `cur`, `prev`, `plan`, `open`, `note` (a run), `noted`, `unsaid`, `mistaken` (what was reported, and what was not); `AppendRecord`, `Rotate`, `Prune`, `Start`, `Plan`, `ShipSegment`, `CopySegment`, `FileDone`, `RunDone`, `RunFails` (shipRun returns an error), `Killed` |
| `MultiMasterProofs`, `ApplySinkProofs`, `TdsPoolProofs`, `TdsProofs` (both modes), `SqsProofs`, `StateMachineProofs`, `LanExposeProofs`, `AuditShipProofs` | the proofs | |
| `MC*` | sets, topologies and symmetry for TLC | |

`MultiMaster` EXTENDS `Hlc`. `TdsSession` and `TdsTxMultiplex` both EXTEND
`TdsPool`, as `relaySession` and `txMultiplexRelay` share `pool.go`. `TdsPool`
INSTANCEs `PoolContract` with a refinement mapping: `free` is the number of
tokens, `shelf` the contents of the idle channel, `reserved` the sessions that
have a token and are still dialling, `lent` the pairs given by `be`.
`ApplySink` is the same program seen from the bus: `MultiMaster` shows what many
sinks do together, with delivery reduced to apply, lose and repeat; `ApplySink`
shows what one or two sinks do with batches, budgets and crashes, with the row
reduced to the number of the event it shows. `StateMachine` composes the
controller with the part of aws-shim that creates and stops executions.

Abstractions worth knowing:

* A row is its key, version, origin and the set of native writes it was built
  from (`val`), which is what "causally later" means. Columns are left out.
* A change event carries the row; a delete carries the before image, which on
  Postgres is the primary key only. `Skipped` keeps that difference.
* Stream mode sorts a batch by table and key. Ties stay in order in Go's
  sort.Slice only while the slice is short (12), which is `StableUpTo`.
* A failed apply is classified as `isRetryable` does. A database that is down
  counts as retryable only while the sink has not looked the table up; from then
  on it is an ordinary error. `cache` is there for this distinction.
* A client message is a kind: `plain`, `rpc`, `set` (a SET-only batch), `state`
  or `object` (leaves session state), transaction manager requests. The regular
  expressions of the classifier are represented by their verdicts. `Awaits` says
  that a TDS client has one request outstanding.
* What a transaction manager request does to the database and what the proxy
  makes of it are two operators. They differ: a rollback that names a savepoint
  (`tmRollbackTo`) ends nothing for SQL Server and everything for the proxy. To
  both, creating a savepoint (`tmSave`) and promoting a transaction change no
  count, so one kind stands for the two. A request whose type cannot be read
  (`tmOdd`) counts as a begin for the proxy and as refused by the server; had the
  server read it as a begin, it would be `tmBegin`.
* A backend is a queue of requests, a socket buffer of answers, and the session
  state left on it. RESETCONNECTION wipes that state before the request runs.
* Failures of the dial, of TLS, of framing and of the login are the branches `DialFails`
  and `DialAnswered(…, "error")`.
* An SQS message is its id, which is also its order. `hidden` is
  `visible_after > now()`: a delay and a delivery in flight are the same to the
  code. The receive transaction is two steps, `Pick` (the snapshot of the SELECT)
  and `Claim` (the UPDATE, which skips rows that are gone), because deletes and
  changes of visibility do not take the queue's lock and commit in between;
  whatever fails in it rolls it back (`ClaimFails`). A handle is the receive count
  it was minted at.
* A workflow is a line of `Steps` states; the work of a state adds its number to
  the data passed on, and `ran` counts how often the work was done. Retry and
  Catch are the outcomes of `WorkFails`.
* A sweep of lan-expose is one action per API call, each of which may fail
  (`CallFails`) or succeed unnoticed (`CreateEipLost`, `CreateFipLost`). `blame`
  records which mishap a Service had, so that the properties can name their
  exceptions. The lists of Services and of OvnEips are one step: a Service
  annotated between the two is to the sweep as one annotated after both, an
  OvnEip created between them is in the list and only makes `used` more accurate,
  and of our own OvnEips none changes while a sweep is at its lists.
* Audit records are numbered, a file is a range of them, a segment's hash is the
  nested tuple of what it covers. `mistaken` records that a run took a fresh live
  log for the file the chain had last read, because it was on the same inode. A
  file's modification time is idealised as the number of its last record; it is
  later than that record's timestamp, which is why `after` compares with `>=`. The
  record at the head may have a timestamp that cannot be parsed (`Undated`), and
  then no backup is read. A head without an inode means the live log goes on; only
  chains begun by an older version have such heads, so from the empty bucket of
  `Init` the clause never decides.
* The backups are listed and opened one after the other; `Plan` is one step, in
  which the cleanup may go on and any file it removes may or may not have been
  opened before. A single removal makes no difference to a removal before or after
  the step; several, which leave out a file between two that are read, are part
  of `FastRotation`.
* The note about missing records is made in `Plan` and reported when `shipRun`
  returns, with an error or without (`Say`). A killed run reports nothing;
  `unsaid` keeps the notes lost in this way after something was shipped.

## 3. Runs

All runs bound what the environment does (writes, faults, requests) and nothing
the code does. Most end when the environment has used its allowance, and there
deadlock is not checked; `lan` and `audit_ship` never end, since sweeps and runs
start again for ever, and there it is.

| run | instance | shows |
|---|---|---|
| `mm_pair` | 2 Postgres members, 1 key, 3 writes, 1 delete, clocks reading 1 or 2 in any order, 1 lost Ack or Nak | `TypeOK`, `UniqueStamps`, `ClockCondition`, `ConvergedWhenQuiet`, `ClockNeverFallsBack`, `RowsOnlyAdvance` |
| `mm_mesh` | full mesh of 1 Postgres and 2 MySQL members, 2 writes, 1 lost Ack or Nak, fair sinks | `EchoesDie` |
| `sink` | 2 sinks on one consumer, 3 events of 2 rows, one poisoned, 2 mishaps, 1 outage | `NoSilentLoss`, `OnlyBadRowsParked`, `LastImageWins`, `EveryEventSettles` |
| `tds_cap` | 3 clients, pool of 2, cancels, clients leave at any point | `TypeOK`, `SlotsConserved`, `OneUserPerBackend` |
| `tds_reuse` | 2 clients, 1 backend, rejected logins, a backend that dies, 2 requests each, clients leave at any point, no cancels, fair goroutines | `OwnAnswersOnly`, `NoForeignState`, `SlotsComeBack` |
| `tx_pool` | 2 clients, 2 backends, 4 requests in all of 11 kinds (six of them to the transaction manager), nesting up to 2, late cancels, one death, clients close at any point | `TxnStaysHome`, `IdleWithoutTxn`, `OwnStateAtHand`, `ImplementsPool` |
| `sqs` | 2 consumers, 2 messages of a standard queue or of one FIFO group, maxReceiveCount 1, batches of 2, 1 change of visibility, fair consumers | `NoMessageLost`, `GroupInOrder`, `LatestHolderDeletes`, `InFlightIsExclusive`, `NothingStays` |
| `sm` | 3 states, 2 shutdowns or crashes, 2 failing calls or tasks, a Secret that may be late, a stop at any moment, 1 goroutine that ends between a list and its dispatch | `SuccessIsComplete`, `CheckpointIsTrue`, `RepeatsHaveCauses`, `TerminalIsFinal`, `StopTakesEffect`, `ShutdownIsNoFailure` |
| `lan` | 2 Services, 2 addresses of which one may be or become somebody else's, 1 change of an annotation or by another component, 2 pods each, 1 failed call, lost answer or restart | `NoSharedEip`, `FipHasEip`, `Settles` |
| `audit_ship` | 1 run at a time, 3 inodes, 1 backup kept, 5 records, one of them undated, in up to 5 files, segments of 2, 1 killed run or failed PUT | `ChainLinked`, `InOrder`, `NoSilentGap`, `OffsiteAgrees`, `ShipsAll` |
| `mm_mysql_delete` | 2 MySQL members, 1 write, 1 delete | `ConvergedWhenQuiet` fails |
| `audit_offsite` | 1 run at a time, 2 records, 1 killed run or failed PUT | `OffsiteCatchesUp` fails |

Every module has a `TypeOK`. Two runs check it, and it may be added to any of
the others.

**Why the bounds suffice.** Two clock readings are enough for a clock to stand
still, to jump forward and to fall back; three writes let a site overwrite a row
it received while another write is concurrent; the mesh has three members
because that is the least at which a change also arrives by a detour. Three
events of two rows give a batch with two images of one row and an unrelated one
that fails; two sinks suffice for every overtaking. Three clients on two
backends make the pool reach its cap with a client waiting, and two idle
backends make the order of the idle channel matter. Four requests are enough to
begin a transaction, tear it at a savepoint, go on with it elsewhere and let the
other client meet what was left behind. `MaxDeliver = 2` and a small
`TransientMax` (real values 5 and 60) only shorten the retries; `sink` keeps them
further apart than the mishaps it allows, as 60 is in practice. Two messages of
one group are an earlier and a later one; a receive count of 1 makes the second
delivery the dead one, so that a message is delivered, times out, is dead-lettered
or deleted late, all within the bounds. Three states are a first, a middle and a
last one; two restarts let a resumed execution be resumed again, and one late
goroutine brings an ended execution back. Two Services
and two addresses, of which one may be taken, let the range run out and one
address pass from one Service to the other. Three inodes and one backup let an
inode come back while the chain still names it, and backups disappear before
they are shipped. The constant `W` is 65536 everywhere.

**Restrictions a constant states.** `SerialDeletes = TRUE`: applications delete
only while the streams are drained and write only while no delete is on its way.
`Guarded = TRUE`: the sinks run with CONFLICT_COLUMN. `Cancels = FALSE` in
`tds_reuse`: clients send no ATTENTION. `insertBulk` is not in the `TxKind` of
`tx_pool`. `FastRotation = FALSE`: the log is not rotated twice, and does not
lose several backups, while one run lists it. Section 5 says what happens without
them. `LateExtend = TRUE` in `sqs` is the general case.

**Fairness.** `MultiMaster`: every sink keeps delivering (the `for` of
`runStream` never ends). `ApplySink`: weak fairness of each sink's loop and of
the end of an outage; the process is restarted by Kubernetes after a crash, and
mishaps are not fair. `TdsSession`: each session's goroutines run, and the
database answers a request it has received; nothing is assumed of clients, which
need not send, leave or cancel. `Sqs`: consumers keep polling, and a poll that
again and again finds the row lock free gets to select (strong fairness of
`Pick`: Postgres queues lock requests), and one that selects again and again
does commit in the end (strong fairness of `Claim`: transactions do not fail for
ever); timeouts run out; nobody need delete
anything, so that every message may have to reach the dead-letter queue.
`StateMachine`: the ticker polls, a started goroutine runs on (strong fairness:
a shutdown may interrupt it before the next process resumes it, and polls are
seconds apart and never keep a goroutine from ending), a process
that is stopping exits and Kubernetes starts another; stops, shutdowns and
crashes are not fair. A task need not return unless it is cancelled.
`LanExpose`: the ticker keeps sweeping. `AuditShip`: the CronJob keeps starting
runs and a run goes on unless it is killed. Liveness is checked only where such
an assumption is in the specification.

## 4. Disagreements the violation runs exhibit

* `mm_mysql_delete` (`apply-sink/main.go:876`): the origin in a MySQL delete is
  that of the row's last writer. A row written at a, replicated to b and deleted
  at b is filtered on its way back to a and stays there for good.
* `audit_offsite` (`console-api/cmd/audit-offsite/main.go:265`): the primary
  bucket is written first and the next run resumes from the primary's head, so a
  segment whose off-site PUT failed, or that was cut off in between, is never
  written off-site. docs/audit-offsite.md:101-102 and the comment at 256-258 say
  that the cursor does not advance until it is.

## 5. What the models show when a constant or an exception is changed

These are not separate runs; setting the constant in the named configuration, or
leaving out the named part of the property, with that property alone, reproduces
each.

| change | property that then fails | behaviour of the code |
|---|---|---|
| `mm_pair` with `Engine <- AllMysql`, `MaxDeletes = 0` | `ClockCondition` | the MySQL trigger (main.go:357; SQL Server 310 alike) carries over only pt, so the next native write may be stamped below the row it overwrote; docs/replication.md:23-24 says a causally later write wins |
| `mm_mesh` with `MaxWrites = 3`, or `mm_mysql_delete` with `MaxDeletes = 0`, `MaxWrites = 3` | `ConvergedWhenQuiet` | the same, without any delete: a MySQL site stamps a write at or below the row it overwrote, the others reject it as older, and the site keeps it. Two writes are too few for this, which is why `mm_mesh` does not check convergence |
| `mm_mesh` with `Engine <- AllMysql`, `SerialDeletes = FALSE`, `MaxDeletes = 1` | `EchoesDie` | deletes have no version and leave no tombstone; a delete and an upsert may chase each other round the mesh (docs/replication.md:81-83 says it converges without looping) |
| `mm_pair` with `SerialDeletes = FALSE` | `ConvergedWhenQuiet` | a delete racing a write wins at one site and loses at the other |
| `mm_pair` with `W = 2`, `MaxWrites = 4` | `ClockNeverFallsBack` | nothing stops lc from reaching 65536; the version space of the next millisecond is then used twice (main.go:553, docs/replication.md:70-73) |
| `sink` with `Guarded = FALSE`, 1 sink | `LastImageWins` | without CONFLICT_COLUMN a redelivered event puts its older image back: idempotent, not commutative (main.go:628) |
| `sink` with `Deletes = {3}`, `Poison = {}`, 1 sink | `LastImageWins` | an upsert redelivered after the delete of its row brings the row back, guard or not (main.go:1344) |
| `sink` with `Guarded = FALSE`, `StableUpTo = 2`, `MaxFaults = 0`, `Poison = {}`, 1 sink | `LastImageWins` | sort.Slice is not stable beyond 12 entries and entries of one row compare equal (main.go:809) |
| `sink` with `DlqReliable = FALSE`, 1 sink | `NoSilentLoss` | the error of the publish to the dead-letter stream is discarded and the event terminated (main.go:651) |
| `sink` with `MaxDeliver = 5`, `TransientMax = 60`, `Poison = {}`, 1 sink | `dlq \subseteq Poison` in place of `OnlyBadRowsParked` | a refused connection is not retryable (main.go:907), so an outage that outlasts five immediate redeliveries parks good events; the comment at 769-770 reserves the dead-letter stream for data problems |
| `tds_reuse` with `Cancels = TRUE` | `OwnAnswersOnly` | the acknowledgement of a late cancel is counted as an answer, the counts then agree one request too early and a backend that still owes an answer is returned (main.go:473; the comment at 378-379 calls it quiescent) |
| `tds_reuse` with `Cancels = TRUE` | `NoForeignState` | RESETCONNECTION goes out with a session's first request; a cancel that overtakes it makes the backend drop request and reset together, and the next request runs on what the previous session left |
| `tds_reuse`, with a leaving client's session required to end unconditionally in `SlotsComeBack` | that property | after a close inside a message, or while an answer is under way, the session waits for the backend reader, which waits for a silent backend; no deadline is set and the slot is never freed (main.go:479) |
| `tx_pool`, with `s \notin torn` left out | `TxnStaysHome` | a transaction manager rollback to a savepoint sets txnDepth to 0 like one of the whole transaction (txmultiplex.go:136-137), and line 169 gives the backend back while the transaction is open on it: the client goes on elsewhere, outside its transaction. The comments at 123-126 and 163-166 say a transaction can never span backends |
| `tx_pool`, with `abandoned` left out | `IdleWithoutTxn` | the same rollback, and a client that closes inside a transaction (txmultiplex.go:57), leave the transaction and its locks on an idle backend until the next borrower resets it |
| `tx_pool` with `insertBulk` in `TxKind` | `OwnStateAtHand` | INSERT BULK matches no pattern of the classifier and does not pin the session (classify.go:104; docs/design/rds-proxy-tds-multiplexing.md:75 lists it as a pin) |
| `sqs` | `OneBatchPerGroup` | changeVisibility takes a handle whose visibility has run out as long as the message was not received again (sqs_store.go:439-444): the message is hidden anew although the group has moved on, so two consumers work on one group; sqs_fifo.go:4-6 excludes that. With `LateExtend = FALSE` it holds (`OneBatchInFlight`, section 6) |
| `sm` | `RestartNeverFails` | the definition and the Secret are read with the context a shutdown cancels, and the failure to read them is recorded as Failed (main.go:132, 158, 249); docs/state-machines.md:127-129 says a running execution survives a controller restart. From the engine on it does, which is `ShutdownIsNoFailure` |
| `sm`, with `late > 0` left out | `TerminalIsFinal` | an execution that ends between the list and its dispatch is started again from its listed status, or aborted, over the phase it ended with (main.go:69-103). The comment at 82-83 excludes such a race because the shim never writes the terminal phase; the poll and the goroutine are enough for one |
| `sm`, with `late` left out of the sum | `RepeatsHaveCauses` | the same: states that were worked are worked again although nothing failed and nothing was restarted; docs/state-machines.md:129-132 allows it on a retry or a resume only |
| `lan` with `Addresses = 3`, `MaxFaults = 0` | `[][\A s \in Svc : (eip[s] # NoIp /\ s \in want /\ up[s] /\ blame' = {}) => eip'[s] = eip[s]]_vars` | a Service without a pod for one sweep, or whose FIP is re-pointed, is missing from the keep list and gc deletes its EIP; the next sweep may give it another address (reconcile.go:143, 190), although reconcile.go:1-10 promises a stable one |
| `lan` | `[][(Foreign \in routes) => (Foreign \in routes')]_vars` | a route that another component adds between the read and the patch of the VPC is lost with the replaced list; reconcile.go:252-253 and alloc.go:95-98 say that foreign entries are preserved, which holds of the ones that were read |
| `lan`, with `"raced"` left out | `NoSharedEip` | createOvnEip does not look again: an address another component took since the list is given a second time (reconcile.go:162) |
| `audit_ship`, with `unsaid` left out of `Known` | `NoSilentGap` | the note that records were missed is printed after shipRun returns (main.go:274-277); a run killed after its first segment past the gap never prints it, and the next run resumes behind the gap without one. docs/audit-offsite.md:179-181 says the run says so in its log |
| `audit_ship` with `Run = {r1, r2}` | `ChainLinked`, `OffsiteAgrees` | concurrencyPolicy Replace (platform/security/audit-offsite.yaml:234-237) starts a run while the old one is still being terminated; both write the next segment |
| `audit_ship` with `FastRotation = TRUE` | `InOrder` | a run that opens the live log just before two rotations reads it after newer backups |
| `audit_ship` with `FastRotation = TRUE`, `Inode = {1, 2, 3, 4}`, `MaxFaults = 0` | `NoSilentGap` | two backups removed between the opening of the first and of the second: the second is passed over (main.go:344-347), the third is read after the first, and nothing is noted since the chain's own file was found |
| `audit_ship` with `FastRotation = TRUE`, `Inode = {1, 2, 3, 4}`, `MaxBackups = 3`, `SegMax = 3`, `MaxFaults = 0` | `NoSilentGap` | the same run goes from an older backup to the newer one and passes over the live log it opened, without a note, until it reads that last |

Exceptions the properties name, each a behaviour of the code and none of them a
step the model leaves out: a client that rolled back to a savepoint (`TxnStaysHome`)
and a backend so left or left by a close (`IdleWithoutTxn`); a goroutine that ended
between a list and its dispatch (`TerminalIsFinal`, `RepeatsHaveCauses`); an
address asked for by annotation, which is given whoever holds it, one that another
component took after the list, and one whose OvnEip was created with the answer
lost, which may be given again in the same sweep (`NoSharedEip`;
reconcile.go:162); a FIP whose deletion failed, which stays for good because gc
looks for EIPs only (`FipHasEip`; reconcile.go:233); a run killed before it could
report, and a fresh live log on the inode the chain last read, which is continued
at the old offset without a note (`NoSilentGap`; cmd/audit-offsite/main.go:274, 372);
a log rotated before the first run, which is never shipped, and the backups no
run reads because the head has no timestamp, which is reported (`ShipsAll`).

Two more are visible in the actions and have no property: a rejected first login
is kept and replayed to every warm client (`CaptureLogin`, `Greet` and `ReplayLogin`; main.go:307),
and a client that meets four dead idle backends is refused although the
evictions freed slots (`ProbeEvicts`; main.go:345).

Hazards seen in the code and not modelled yet: the pump publishes and then
acknowledges (apply-sink/main.go:730); the reconciler keeps `prepped` across
cycles and writes to a nil map when discovery failed for a member (495, 484); a
sink keeps table metadata for its life (920); createQueue and setQueueAttrs read
and write without a lock (sqs_store.go:104, 172); a resumed Wait may begin anew
and a resumed execution restarts its time limit (engine.go:106, 82); the branches
of a Parallel append to one history (parallelmap.go:35); the verifier writes its
anchor without the version it read (cmd/audit-offsite/main.go:1030); on SQL
Server the AFTER trigger stamps in a second update, so that change capture first
sees the row with its old version and origin (apply-sink/main.go:312).

## 6. Proofs

TLAPS checks all of them; the theorems hold for every set of sites, keys, edges,
sessions, connections, sinks, events, consumers, groups, states, Services,
addresses, runs and inodes and for every bound. They rest on the ASSUME of each module, which
gives the constants their kind and which TLC evaluates in the runs. Where a
theorem has a hypothesis of its own, section 5 shows that the code breaks the
property without it. Every safety property has the same form of argument: an
invariant is strengthened until each action keeps it, there is one step per
action, and the last step is temporal.

**Replication** (`MultiMasterProofs`).

* `TypeCorrect`: `Spec => []TypeOK`.
* `ClocksNeverFallBack`: `Spec /\ []LcFits => ClockNeverFallsBack`. `LcFits`, the
  logical counter staying below W, is the honest hypothesis: the code does not
  enforce it (section 5). The clock lemmas (`VersionOrder`, `TickAdvances`,
  `ObserveAdvances`) rest on `PhysicalPartDominates`: with the counter in its
  room, versions are ordered as the pairs (pt, lc).
* `StampsAreUnique`: `Spec /\ []LcFits => []UniqueStamps`. Uniqueness is not
  inductive by itself; `StampInv` adds `OriginCovers`, that a site's clock is at
  or above every version it has stamped, wherever the copies are. A native write
  then stamps above all of them.
* `CausalLaterWriteWins`: for Postgres members, under `[]LcFits`, `ClockCondition`
  always holds. The
  invariant `CausalInv` adds `SiteCovers` (a site's clock covers the rows it
  stores, the part MySQL lacks), `OneRowPerKey`, `ContentsNamed` and
  `UniqueContents` (contents are built from writes already made, and copies with
  equal contents are equal).
* `RowsNeverRegress`: for Postgres members, under `[]LcFits`, `RowsOnlyAdvance`,
  from the same invariant: a replicated upsert passes the guard, and a native write is stamped
  above the row it replaces because the clock covers it.

None of these assumes anything of deletes, redeliveries or wall clocks, so
they also cover `SerialDeletes = FALSE`.

* `MembersConverge`: for Postgres members, with `SerialDeletes`, on a `Connected`
  topology, under `[]LcFits`, `ConvergedWhenQuiet` always holds: members whose
  streams are drained store the same rows. `ConvergenceInv` adds to `CausalInv`
  that the system is either `Writing` (no delete is in a stream; what a site
  stores is covered at each neighbour or on its way there, `Propagates`; and a
  copy is covered at the site that stamped it, `KnownAtOrigin`, which is why the
  origin filter may drop it) or `Deleting` (only deletes are in the streams, and a
  row a neighbour has and the site has not is about to be deleted there,
  `DeletesPropagate`). The two phases meet only in drained streams, and that is
  where `SerialDeletes` enters. `Connected` says that a nonempty set of sites
  closed under edges is all of them; pair, ring and mesh satisfy it, and it is
  applied to the set of sites that cover a given row, so that no induction over
  paths is needed.

**Stream mode** (`ApplySinkProofs`).

* `TypeCorrect`: `Spec => []TypeOK`, in which deliveries are bounded by
  `TransientMax` and the mishaps so far (`Deliveries`).
* `NoEventIsLost`: with `DlqReliable`, `NoSilentLoss` always holds. It is kept by every
  step because an event is settled only in the step, or after the step, in which
  it landed or was parked.
* `OnlyBadRowsAreParked`: with `MaxFaults < TransientMax`, `OnlyBadRowsParked`
  always holds. `Calm` adds the count it takes: before the first outage each
  delivery of a good event after its first was caused by a mishap.
* `LastImageStays`: with `Guarded` and without deletes, `LastImageWins` always
  holds. `Newest`: no row shows an image older than one that landed on it, in
  whatever order the batch was sorted. What a batch leaves on a row is the
  recursive function `Shown`; since induction over it is out of reach, the lemma
  takes the least place at which the claim would fail (`LeastOf`) and refutes it.
  `StreamOrder` is any order the sort may return.

**Queues** (`SqsProofs`). The assumption on the constants asks for a group, a
deduplication id and a `NoOne` who is no consumer.

* `TypeCorrect`, and with it that the row lock of a FIFO queue is held exactly
  through the transaction of a receive.
* `NothingIsLost`, `GroupsStayInOrder`, `OnlyLatestHolderDeletes`,
  `DeliveriesAreExclusive`: `NoMessageLost`, `GroupInOrder`, `LatestHolderDeletes`
  and `InFlightIsExclusive`, without hypotheses. `Inv` relates what a receive
  selected to the rows of now, between its two steps: in a standard queue the
  rows are still as it saw them and nobody else's (`RowsOwn`, the effect of FOR
  UPDATE SKIP LOCKED); in a FIFO queue they leave out no earlier message of their
  groups (`GroupsWhole`, the effect of the lock of the queue, although deletes
  and changes of visibility do not take it); and `rh = cnt`, so that a handle
  names one delivery.
* `OneBatchInFlight`: with `LateExtend = FALSE`, `OneBatchPerGroup` always holds.
  `BatchInv` adds that handles are of past deliveries, that only one client holds
  the latest one, and that nothing of a group is in flight while a receive has
  rows of it selected, which is what a late change of visibility breaks.

**Workflows** (`StateMachineProofs`).

* `TypeCorrect`, `CheckpointsAreTrue`, `SuccessesAreComplete`: `TypeOK`,
  `CheckpointIsTrue` and `SuccessIsComplete`, also when an execution is started
  again from a stale list. A status is `Sound` when the states before its checkpoint
  are done and their results in its data; the object's is, the listed one is and
  the one the goroutine started from is, and soundness of an old status lasts
  since work done stays done.
* `RepeatsAreCaused`, `TerminalsAreFinal`, `ShutdownsAreNoFailures`:
  `RepeatsHaveCauses`, `TerminalIsFinal` and `ShutdownIsNoFailure`, without
  hypotheses: goroutines may end at any time between a list and its dispatch, any
  number of them, and `late` counts those. `CurrentInv` says that what is listed or
  loaded is what the object says as long as none has been late. `StopInv` adds what
  is true even then: a goroutine whose execution is Aborted cannot exist, since
  the stop that led there was in every list since, and this is why a stopped
  execution is never brought back. `FailInv` is the case of a shutdown: a Failed
  that the engine hands on comes from a fault, or from a context that a stop
  cancelled (and is then recorded as Aborted), or from a process that is stopping
  (and is then not recorded). `Accounted` counts runs of a state against causes; a
  shutdown counts only once what it interrupted has ended.

**LAN addresses** (`LanExposeProofs`).

* `TypeCorrect`, `AddressesAreNotShared`, `FipsHaveEips`: `TypeOK`, `NoSharedEip`
  and `FipHasEip`, through any sequence of sweeps, failed calls, lost answers,
  restarts and addresses taken by others. `UsedKnows` carries the first:
  while addresses are given out, `used` has those of every Service, also of the
  ones whose turn is past, but for an OvnEip created with the answer lost, so
  that an address of somebody else can only be given if it was asked for or taken
  since the list (`Raced`). `AskedBlamed` ties the exception to the annotation that asked,
  now or when the sweep listed the Services.

**The pool** (`TdsPoolProofs`, `TdsProofs`).

* `SessionTypes`, `SlotsNeverLeak`, `BackendsNeverShared`: `TypeOK`,
  `SlotsConserved` and `OneUserPerBackend` of `TdsSession`. The inductive
  invariant is `PoolInv` (types, `PlaceMatches`: where a session is tells whether
  it holds a backend, and the two properties) with `RelayHolds` and the types of
  the relay's variables. `SlotsConserved` needs `OneUserPerBackend` and
  `PlaceMatches` so that giving up a backend takes exactly one session out of
  `Holders`. `TdsPoolProofs` states one lemma per operation of the pool, so that
  both relays can use it.
* `SessionImplementsPool` and `TxImplementsPool`: `Spec => ImplementsPool` and
  `TxSpec => ImplementsPool`. Each operation of the pool is one action of
  `PoolContract` under the mapping (`AcquireToken` is `Reserve`, `DialAnswered` is `Open`, and so on) and everything else a
  stutter. That needs `PoolInv`: `Return` is a `TakeBack` and `Discard` frees a
  slot only because a holder leaves room in both channels, and `AcquireIdle`
  takes one backend off the shelf only because none is in the channel twice.

**What a session hands over** (`TdsProofs`).

* `AnswersStayWithTheirSession` and `StateStaysWithItsSession`: with
  `Cancels = FALSE`, `OwnAnswersOnly` and `NoForeignState` always hold. `HandOver`
  adds to `Inv` that idle and freshly borrowed backends owe nothing
  (`FreeSettled`), that reqCount exceeds respCount by at least what the backend
  owes (`Counted`; by more when an answer could not be written to a client that
  left, which only costs a reuse), that at most one answer is owed (`OneAtATime`, the client's
  side of the protocol), and that what another session left is still to be reset
  or its reset is at the head of the queue (`ResetOnItsWay`). `Counted` is what a
  cancel breaks.

**The multiplexing mode** (`TdsProofs`).

* `TxTypes`, `TxSlotsNeverLeak`, `TxBackendsNeverShared`: as for the default mode.
* `TxnsStayHome`: `TxSpec => []TxnStaysHome`, and `IdleBackendsHaveNoTxn`:
  `TxSpec => []IdleWithoutTxn`, for every set of kinds and wherever clients close.
* `StateFollowsClient`: `TxSpec => []OwnStateAtHand`, assuming that `insertBulk` is
  not in `TxKind`; section 5 says why.

The invariant is `TxInv`: `PoolInv` and, for each session, `Tracked` (until the
session is sticky, txnDepth is at least the number of its client's transactions,
unless it rolled back to a savepoint: more, since a request that cannot be read
counts as a begin and only keeps the backend longer; a text BEGIN TRAN is not
counted but makes the session sticky), `Placed` (a session without a backend has
no transaction, unless torn, and no state but what the prelude carries),
`TxnsMatch` and `StateMatches` (what is on the backend is the client's, unless the
next message wipes it; a torn client has at most as many open on it as it
believes) and `Inherits` (a borrowed backend that is not wiped yet may still have
the transaction someone abandoned). The case that needs care is a late cancel. It
uses up `needReset` and wipes nothing, but it only meets a pending reset in a
session that may swap, which gives the backend back at once: `TxnsMatch` records
this, and it rests on a client not cancelling before its first request, which
`Ask` assumes.

**The audit chain** (`AuditShipProofs`). `OneRun` says that no two runs are there
at one time; section 5 shows the fork, and what a second rotation does, without
the two hypotheses.

* `TypeCorrect`: `Spec => []TypeOK`, for any number of runs and any rotation. With
  it go that the files of the log follow one another (`LogInv`), that the segments
  of the bucket are numbered without a gap (`BucketInv`, also when two runs write
  the same number), and that what a run plans lies inside files it holds open
  (`RunInv`; the log may grow, be rotated and be pruned meanwhile, `Grown`, and any
  set of backups may have been opened, `FilesOf`).
* `OneChain`: with `OneRun`, `ChainLinked` always holds, `FastRotation` or not.
  `ChainInv` adds `HeadsAgree`: a run that is not idle has the head of the bucket
  for its own, so that what it ships is the next segment and links to that head.
* `BucketsAgree`: with `OneRun`, `OffsiteAgrees` always holds, by the same
  invariant: what is off-site is the locked original of its segment. That every
  segment gets there is what `audit_offsite` refutes.
* `ShipsInOrder` and `GapsReported`: with `OneRun` and without `FastRotation`,
  `InOrder` and `NoSilentGap` always hold. `OrderInv` adds four facts. `LastRead`:
  the chain ends in some file of the log, with that inode and at that offset, even
  if it is gone by now or its inode has another owner. Of a run about to plan:
  the log was rotated at most once since it was opened, and the chain does not end
  in a file after that one. Of a planned run: its files follow one another
  without a gap (`Straight`, from what `Files` sorts), so that going on to the next
  file goes on at the same record; and the next record it reads is not behind its
  head, and ahead of it only if that is in the run's own note or mistaken; what was
  shipped past a gap stays `Known` as the note is said or lost with the run. `PlanAhead` is the core:
  in each of the five cases of `planSources` (`PlanCases`) the plan begins at the
  head, or after it with a note, or after it because the live log has the
  inode of the chain's file. That last case is the only silent one.

**Only model-checked.** Liveness (`EchoesDie`, `EveryEventSettles`,
`SlotsComeBack`, `NothingStays`, `StopTakesEffect`, `Settles`, `ShipsAll`): the
proof system does not reach fairness. What a recursive definition computes for
every input, where the lemmas above do not need it. The two violation runs, whose
properties are false. Every invariant and every action property the passing runs
check is also proved.

## 7. Not modelled, and the plan

Done: clocks, replication, stream delivery, pool, both relays, the pool's
abstract specification, the SQS queue, the workflow controller, the LAN address
controller, the audit shipper. In order of importance, what comes next:

1. `Pump`: `runPump` and `transform` (main.go:667-756) over the delivery states
   of `ApplySink`: publish and acknowledge are two steps, the order of the tests
   in `transform`, an end-to-end statement about what a flow may lose or repeat.
2. `TableSync`: `reconcileOnce` (421-505) over cycles, with tables dropped and
   created between them and discovery that fails for one member.
3. The verifier of the audit chain: anchor, retention, disposal, and with it the
   refusals of `chainHeadKey`, which meet disposed originals only. Deadlines of
   Wait and TimeoutSeconds, and the branches of Parallel and Map, in
   `StateMachine`. Creation, deletion and attributes of queues in `Sqs`.
4. SQL Server members in `MultiMaster`; schema drift and the metadata cache by column.

Left out for good: byte-level TDS and TLS parsing, SQL text and type mapping
(tables without behaviour), the template and policy evaluators (pure functions,
tested for conformance), the request translators of console-api, cfn and
open-appsync and the user interface (no state of their own), manifests and
scripts. These make up by far the largest part of the repository's lines, so the
models cover a small share of the lines and most of the code in which order,
failure and concurrency decide the outcome. The sizes of the dead-letter stream
and of JetStream's retention are not modelled.
