# TLA+ models of Doltgres

Doltgres is a PostgreSQL-compatible server on top of Dolt, a versioned SQL
database. The repository holds the wire protocol, the parser, the Postgres
types, functions and catalogs, and the versioned "root objects" (sequences,
functions, triggers, types ...). The SQL engine (go-mysql-server) and the
storage (Dolt) are libraries outside the repository.

This directory holds TLA+ models of the stateful parts, TLC configurations
that check them on small instances, and TLAPS proofs for every value of the
constants. `PROJECT.json` lists the components, the runs, the lines every
definition models, the hazards and the theorems.

## The system and what is modelled

| Part | Source | Model |
|---|---|---|
| Client connection: messages, transaction blocks, COPY | `server/connection_handler.go`, `server/connection_data.go` | `ConnectionHandler` |
| OID cache shared by all sessions | `core/id/cache.go` | `OidCache` |
| Handler between connection and engine, result pipeline | `server/doltgres_handler.go` | `ResultPipeline`; session reset and close also in `ConnectionHandler` and `AdvisoryLocks` |
| Logical replication from a Postgres primary | `server/logrepl/replication.go` | `LogicalReplication`, implementing `OrderedDelivery` |
| Advisory locks | `server/functions/advisory_locks.go`, `core/context.go` | `AdvisoryLocks`, implementing `ScopedLocks` |
| Sequences, their merge, the session's cache of collections | `core/sequences`, `core/merge`, `core/context.go`, `server/functions/nextval.go`, `setval.go` | `SequenceTracking` |
| Other root objects and conflicts | `core/rootobject`, `core/functions` ..., `core/conflicts` | not modelled: sequential maps, the same cache as sequences |
| Roles and privileges | `server/auth` | not modelled: all under one lock |
| Table inheritance and hooks on table changes | `core/inheritance`, `server/hook` | not modelled: sequential |
| COPY data loaders | `core/dataloader` | not modelled: a chunk is loaded or fails |
| PL/pgSQL interpreter | `server/plpgsql` | not modelled: sequential |
| SCRAM authentication and start-up messages | `server/authentication_scram.go` | not modelled: nothing shared |
| Integrity check | `core/integrity`, `server/integrity_check.go` | not modelled: read-only |
| Parser, AST conversion | `postgres/parser`, `server/ast` | not modelled: generated grammar, no state |
| Analyzer rules and plan nodes | `server/analyzer`, `server/node` | not modelled: run inside the engine |
| Types, casts, functions, catalogs | `server/types`, `server/cast`, `server/functions`, `server/tables` | not modelled: per-value computation, read-only views |
| Configuration and commands | `servercfg`, `server/config`, `cmd` | not modelled: pure I/O |

A client's connection is served by one goroutine. It reads messages, keeps
the state of the transaction block the client believes it is in, and calls
the engine, which keeps its own transaction and an "ignore autocommit" flag in
the session. The rows of a query come back through the goroutines of the result
pipeline. Sessions share the OID cache, the advisory locks and the tracker of
sequences; replication is a client of the server like any other.

## ConnectionHandler

State. `conn` is the `ConnectionHandler` struct: `tx` is `transactionState`,
`waitForSync` and `copy` are the fields of those names (`copy.on` when
`copyFromStdinState` is set, `loader`, `err` and `started` its `dataLoader`,
`copyErr` and `startedTransaction`), `prepared` and `portals` the two maps. `conn.eng`
is the engine session: whether a transaction is open, `GetIgnoreAutoCommit`,
the uncommitted work, the work at the savepoint, and what the current step
commits. `pc` tells whether the goroutine waits for a message, runs the next
statement of a multi-statement Query, or is in `discardToSync`. `inbox` is
what the client sent and the server has not read; `client` is the client's
view of the protocol; `reply` says whether the last step sent ReadyForQuery,
with or without an ErrorResponse.

Work is abstract: `"live"`, or `"doomed"` once the client has been sent an
error for the block the work belongs to. That is all the properties need.

Actions. Each message has one action, `ReceiveQuery` ... `ReceiveTerminate`,
which runs the whole handler, including the `endOfMessages` at its end. A Query with
several statements takes `ReceiveScript` and then one `RunStatement` per
statement. `Discard` is one message of `discardToSync`. `Lose` is a broken
connection at any point. The client's `Send...` actions obey the protocol:
no second Query before ReadyForQuery, COPY data only in COPY mode. A client
may send ahead up to `MaxInbox` messages.

A statement is one of the kinds the handler tells apart: the transaction
control statements, `work` (a write passed to the engine), `call` and `do`,
`deallocate`, `discard`, the three COPY forms, a text without a
statement and a text that does not parse. Every operation that can fail in
the engine is nondeterministic when `Fails` contains it; `panic` is a panic
recovered in `receiveMessage`.

Engine assumptions (external code, from how the handler uses it): a statement
outside a transaction opens one and commits it unless the session ignores
autocommit; BEGIN sets that flag, COMMIT and ROLLBACK clear it; a failed
COMMIT or ROLLBACK leaves the transaction open; `CALL` commits on its own. What
BEGIN does with a transaction that is still open, which a failed COMMIT can leave,
is not decided by this repository (a comment of `handleQueryOutsideEngine` says that the
engine discards it): the model lets the engine commit it or discard it, here and
in `LogicalReplication`. DISCARD ALL (`discardAll`) may fail in `ComResetConnection`, before
or after the session was replaced.

### Runs

`connection` takes simple-protocol scripts with BEGIN, COMMIT, ROLLBACK,
savepoints and DO, pipelined Parse/Bind/Describe/Execute/Close/Flush/Sync, COPY
in all its forms and DISCARD, with statements, commits, COPY chunks and the
engine failing. It checks `ConnectionHistory` (instantiated in
`MCConnectionHistory`), which adds to the handler the history variable
`regular`, false from an event on that the handler does not recover from:

- a COMMIT, a ROLLBACK or a COPY FROM file that fails;
- CALL, COPY FROM or DISCARD ALL anywhere but alone outside every block;
- CopyFail after a chunk failed, which is answered twice;
- an error of the simple protocol that waits for a Sync.

`TypeOK` and `ErrorCommitsNothing` (an error answer hides no commit) hold
up to and including that event. After it `ErrorCommitsNothing` may fail in one way: a
Query whose last statement is a COMMIT that fails restores autocommit with the
transaction still open, `startTransactionIfNecessary` then leaves autocommit on, and a COPY
FROM file commits its rows before `dataLoader.Finish` can fail. The `Regular...` properties hold
until it: work of a block that failed is never committed by
anything later (`DoomedNeverCommits`); outside blocks the engine is in autocommit
with nothing pending (`IdleIsAutoCommit`); nothing of an open block is committed
(`OpenBlockCommitsNothing`); implicit blocks end at ReadyForQuery
(`ImplicitEndsAtReady`); a failed block does not change (`FailedBlockIsFrozen`);
no ReadyForQuery the client does not expect (`NoStrayReady`) or while in COPY
mode (`NotReadyInCopyMode`); a client that waits for ReadyForQuery has its script running,
or the message that ReadyForQuery answers still unread (`AnswerIsDue`: client and server
never wait for one another); every Query and Sync is answered (`Answered`). After
an irregular event `HistorySpec` follows only the loss of the connection and the
next one; `Spec` itself goes on, and so do the proofs about it.

What the irregular events lead to: after a failed COMMIT the handler is idle
while the engine's transaction stays open and autocommit off; after DISCARD ALL in
a block its statements commit one by one; COPY FROM file in a script
commits the statements before it, and COPY FROM STDIN in one is followed by
ReadyForQuery while the client is in COPY mode. Three of them contradict a
comment of the repository and have a run that expects the violation:

| Run | What happens |
|---|---|
| `conn_copy_file_error` | a failed COPY FROM file leaves autocommit off; later statements are not committed |
| `conn_copy_in_block` | CopyDone commits the block it runs in |
| `conn_stale_wait` | `waitForSync` survives `discardToSync`; a later COPY error waits for a Sync that does not come |

Bounds. One connection suffices: nothing in the handler is shared between
connections except the engine. The unnamed statement and portal show every
overwrite and missing-name case. Two messages in flight are
enough for an error to meet messages already sent, a Sync among them; the
messages after that only repeat what `Discard` does. Scripts have at
most three statements: first, middle and last are all the loop tells apart.

Fairness. Weak fairness of `Server` (of `HistoryServer` in the run): the
connection's goroutine keeps running while it has a message or a statement to process. Nothing is assumed of the client,
so `Answered` cannot rest on a Sync that may not come.

## OidCache

`toOID` and `toInternal` are the two Go maps. `ToOID` is two actions, `Lookup`
under the read lock and `Assign` under the write lock; any session may run
between them. The retry loops of `ToOID` recompute the same checksum, so they
add nothing to the first test, and the model says so. `oid_cache` uses two
sessions and IDs that are built in, raw, colliding, and hashed into the
built-in range; with two sessions both critical sections interleave in every
order. `oid_race` shows that a concurrent second request for the same new ID
panics, where a comment says that only exhaustion can cause it. `TypeOK` includes that
an ID that is an OID itself never reaches the second critical section or a map.

## LogicalReplication

State. The primary holds transactions 1 to `N`; a transaction's number is the
LSN of its commit record. `slot` is the slot's confirmed position, `stream` the
primary connection and the next message on it, `proc` the thread of
`StartReplication` with its `replicationState` and `connErrCnt`, `replica` the
transaction on the replica connection, `db` what the replica has committed,
`file` the WAL position file. `left` bounds the failures, and `trusted` records
whether the stream has lost or repeated a message.

Actions. `beginReplication`, `sendStandbyStatusUpdate`, `writeWALPosition` and
`StartReplication` are the functions of these names. `ReceiveBegin` to
`ReceiveStreamCommit` are the cases of `processMessage`; INSERT, UPDATE and
DELETE are one action, since they differ only in the query text. After each
message the thread is at `write` (a Commit was processed) or `status`, so that
it may crash between COMMIT, file and status update. Failures: either
connection lost at any point, a query or a COMMIT that fails, a COMMIT whose
answer is lost, a position file that is not or only half written, a status
update that fails, a primary that comes back with an older slot position, a
crash. `Timeout` is the deadline that wins over an arrived message.

The replica behaves as `ConnectionHandler` says: START TRANSACTION in an
open block continues it, in a failed block it is an error; COMMIT of a failed
block succeeds and commits nothing; after a failed COMMIT the next START
TRANSACTION commits or discards what the engine still holds (`BeginCommits`). Changes are a set: a
change applied twice is not told from one applied once, unless its table has a
key (`Keyed`), where the second insert fails.

`OrderedDelivery` is the promise: transactions are applied in commit order, none
left out, and only applied ones are confirmed. `AtLeastOnceInOrder` says that
`LogicalReplication` implements it. `FlushedIsApplied` adds the file,
`WholeTransactions` says that no transaction is ever half committed,
`CatchesUp` that a thread that keeps running makes progress.

The properties hold while `trusted` does. It becomes false when `Timeout` drops
a message, and when the primary resends what the replicator did not ask for. In
both cases the code may skip or tear a transaction; `replication_resend` shows
one such case, a stale Commit that sets the position file back to 0. Streamed
transactions are not in `Expected`: their rows arrive without a Begin and are
dropped.

Runs. `replication` has one plain, one streamed and one keyed transaction and any
three failures of all kinds. Three failures are enough for one to strike while
another is being handled, and a limit of three errors is reached. Two
rows make a torn transaction possible.

Fairness. The thread's loop and its pending status update keep running. Nothing is
assumed about restarts: the server starts replication once, so `CatchesUp`
allows the thread to be down. It does go down for good in cases the code
leaves open: a row that fails makes every later START TRANSACTION fail until the
error limit; a transaction replayed into a keyed table fails again after each
restart; a half-written position file stops every start.

## ResultPipeline

One query of `doQuery`. A result with a row schema goes through the four goroutines
of `resultForDefaultIter` (`Reader`, `Converter`, `Sender`, `CloseIter`), the
channels `rowChan` and `resChan`, an errgroup and a wait group; other results take
the `Shortcut` of `resultForOkIter`, `resultForEmptyIter` or
`resultForMax1RowIter`. A row is its position in the iterator. A goroutine first
ends (its deferred `close` and `wg.Done` run), and only in a later step,
`Returned`, does the errgroup learn what it returned and cancel the others:
the two are separate in the code and races live between them. `Wait` is what
follows `eg.Wait`, with the last batch. Every external call may fail: `Next`, the
conversion of a row, the callback, `Close`; the read timer may fire; the caller
may cancel. A panic in a goroutine is an error, as with `HandlePanics`.

`result_pipeline` shows that rows reach the client in order, once and
without gaps (`RowsInOrder`), all of them when the query succeeds
(`AllRowsDelivered`), that no failure is lost and none invented
(`FailureIsReported`), that the iterator is closed (`IteratorClosed`), that
after it nothing more is read, the sender writes nothing, and only the last batch,
with every row not delivered yet, is still to come (`CloseLeavesLastBatch`), that the goroutines
never all wait for one another (`NeverAllBlocked`), that each step leaves less to do, so
that a query of n items is over after at most 5n + 10 of them (`BoundedWork`), and that every
query ends (`Terminates`). Three limits of the code are visible in how these are stated.
Closing does not "wait until all rows have be sent over the wire", as its comment has it:
`doQuery` writes the last batch after `eg.Wait`, and so after `Close`.
A query whose caller cancels may return what it has as a complete result: the
reader gives up without an error, and the others may find their channels closed
before they look at the context. And the shortcuts do not close an iterator that
fails or, with at most one row, has none.

Bounds. Four rows with batches of two give no batch, a partial, a full, a full and a
partial, and two full ones; channels of one are full while a goroutine holds
another element (the code has 128, 512 and 4). OkResults report 0, 1 or 2 rows, so
that the count meets and passes the batch size. A finished query has no
step, so deadlock is not checked; `Terminates` takes its place.

Fairness. Weak fairness of each goroutine and of `Wait`: the Go scheduler runs them, and
every external call is assumed to return. The timer and cancellation need not happen:
the converter's fairness is that of its steps other than the timer's (`TimedOut`).

## AdvisoryLocks

`lock` is the owner and count the engine keeps for each lock, `counts` and
`callbacks` what a session's `contextValues` keeps of the two scopes, `ending` the
callbacks `DoltgresTransactionEnd` has taken and not yet run, which it runs one at
a time while other sessions go on. `TryLock`, `Lock` with `GetLock`, and `Unlock`
are the five SQL functions; `ComResetConnection` and `ConnectionClosed` end a
session through `maybeReleaseAllLocks`, which may fail and is then only logged: `lost`
records it, and the properties hold until then.

`advisory_locks` shows that two sessions never both hold a lock (`Exclusive`), that
the engine's count is what the owner will give back (`CountsAgree`), that a session without a transaction and without a
session-scoped acquisition owns nothing (`NothingLeftBehind`), and that a waiter gets its lock once
all other connections are closed (`WaiterOutlivesHolders`).

`ScopedLocks` is the promise as a specification of its own, without an engine: a lock is
acquired for a session or for its transaction when no other session has it in either
scope, an unlock gives back one of the session's own acquisitions, a transaction's are
given back after its end and before the next transaction begins. `LocksAreScoped` says
that `AdvisoryLocks` implements it, with `counts` as the session's acquisitions and
`callbacks` plus `ending` as the transaction's. The promise ends when a release
of all locks of a connection has failed. With `CountsAgree` it implies `TransactionKeepsLock`,
that the engine's lock stays with a transaction until its end whatever is unlocked; that one
is only proved.

Bounds. Two sessions and two locks allow every conflict including the deadlock of two
sessions that each wait for the other's lock, which the code does not detect: it
waits without a limit, and deadlock is not checked. `MaxCount = 3` bounds the
re-entrance; both scopes can be held at once with one of them twice.

Fairness. A waiting session keeps polling, and the callbacks of an ended transaction
are run. Nothing makes a session unlock, commit or close. A connection whose session
waits is closed only after the wait: its goroutine is in the call.

## SequenceTracking

One sequence is followed through the places its state is kept: the `tracker`
all sessions and branches share and nothing rolls back, the state stored in each
branch (`head`), and per session (`sess`) the working root, the root the
transaction began from and the cached collection with the root it was loaded from.
`pending`, `taken` and `stored` record the values given to a statement in progress, a
transaction and the committed rows of a branch. `rewound` is set when the sequence is
set back or starts over: it then issues values again, as it should, and no
value is followed any more.

Operators are the methods of `SequenceState` (`NextState`, `WithValue`, `GreaterThan`,
`Merge`), `HandleMerge` with `ResolveMergeValues`, and the cache functions
`collectionFromContext`, `IsStale` and `CloseContextRootFinalizer`. `Nextval` and
`Setval` are calls inside a statement; `Close` writes the cached collection to the root
at the end of the statement; `Fail` is a failing statement, closed or not as the result
functions do it. `Commit` merges three ways when the branch moved; `Restart` and
`ReadBranch` build a new tracker from the branches, one after another. Additions wrap
at `MinInt`/`MaxInt`.

`setval` by a bare name reads the sequence from the root; by a qualified name it
takes the one cached in the collection, and setting the tracker writes the new state into
it (`SetSequenceState`, which its caller's comment says "returns a new Sequence object"). A
value that `SetVal` then refuses stays in the cache, and a later statement stores it;
`refused` records that it happened.

`sequences` shows that every value nextval returned is within the bounds, and what
branches store too until a `setval` by a qualified name was refused
(`WithinBounds`); that while the server runs no two live transactions hold the same
value and the tracker has passed all of them (`IssuedOnce`); that no commit, merge or
stale cache takes progress from a branch (`BranchKeepsProgress`); and that a
restarted server does not issue a committed value again (`StoredNotReissued`). The
last two allow for the sequence's last value. `sequences_last_value` shows why:
`HandleMerge` keeps `IsAtEnd` of our side, so when the transaction that took the last
value is the second to commit, the branch forgets that the sequence has ended,
against the comment that the merge takes "the one that has progressed the furthest".

Bounds. Integers from -4 to 3 with ascending, descending, two-step and cycling
definitions put both ends of the range, of the sequence and of the machine
integer within a few calls. Two sessions and two branches give every merge of two
commits and a start from two branches. `setval` is called with 2, which two of the
definitions accept and two refuse, by both kinds of name, and no longer once the sequence was rewound (`MaySet`). Sessions and branches
are symmetric.

## Proofs

| Theorem | Statement |
|---|---|
| `ConnectionHandlerProofs!TypeCorrect` | `Spec => []TypeOK` |
| `ConnectionHandlerProofs!ErrorStepCommitsNothing` | `Spec => [][Server /\ ~Untidy /\ reply' = "error" => conn'.eng.committed = {}]_vars` |
| `ConnectionHistoryProofs!HistoryInvariance` | `HistorySpec => []HInv` (*) |
| `ConnectionHistoryProofs!ErrorsCommitNothing` | `HistorySpec => []ErrorCommitsNothing` (*) |
| `ConnectionHistoryProofs!DoomedWorkIsNeverCommitted` | `HistorySpec => []RegularDoomedNeverCommits` (*) |
| `ConnectionHistoryProofs!IdleSessionsAutoCommit` | `HistorySpec => []RegularIdleIsAutoCommit` (*) |
| `ConnectionHistoryProofs!ImplicitBlocksEndAtReady` | `HistorySpec => []RegularImplicitEndsAtReady` (*) |
| `ConnectionHistoryProofs!ReadyIsAwaited` | `HistorySpec => []RegularNoStrayReady` (*) |
| `ConnectionHistoryProofs!NeverReadyInCopy` | `HistorySpec => []RegularNotReadyInCopyMode` (*) |
| `ConnectionHistoryProofs!AnswerIsDue` | `HistorySpec => []RegularAnswerIsDue` (*) |
| `ConnectionHistoryProofs!OpenBlocksCommitNothing` | `HistorySpec => RegularOpenBlockCommitsNothing` (*) |
| `ConnectionHistoryProofs!FailedBlocksAreFrozen` | `HistorySpec => RegularFailedBlockIsFrozen` (*) |
| `ResultPipelineProofs!Invariance` | `Spec => []IInv` |
| `ResultPipelineProofs!TypeCorrect` | `Spec => []TypeOK` |
| `ResultPipelineProofs!RowsStayInOrder` | `Spec => []RowsInOrder` |
| `ResultPipelineProofs!SuccessDeliversAll` | `Spec => []AllRowsDelivered` |
| `ResultPipelineProofs!FailuresAreReported` | `Spec => []FailureIsReported` |
| `ResultPipelineProofs!IteratorIsClosed` | `Spec => []IteratorClosed` |
| `ResultPipelineProofs!LastBatchAfterClose` | `Spec => CloseLeavesLastBatch` |
| `ResultPipelineProofs!GoroutinesNeverAllBlocked` | `Spec => []NeverAllBlocked` |
| `ResultPipelineProofs!WorkIsBounded` | `Spec => BoundedWork` |
| `LogicalReplicationProofs!Invariance` | `Spec => []IInv` |
| `LogicalReplicationProofs!TypeCorrect` | `Spec => []TypeOK` |
| `LogicalReplicationProofs!FlushedIsAppliedHolds` | `Spec => []FlushedIsApplied` |
| `LogicalReplicationProofs!WholeTransactionsHolds` | `Spec => []WholeTransactions` |
| `LogicalReplicationProofs!Refinement` | `Spec => AtLeastOnceInOrder` |
| `AdvisoryLocksProofs!Invariance` | `Spec => []IInv` |
| `AdvisoryLocksProofs!TypeCorrect` | `Spec => []TypeOK` |
| `AdvisoryLocksProofs!CountsAgreeHolds` | `Spec => []CountsAgree` |
| `AdvisoryLocksProofs!ExclusiveHolds` | `Spec => []Exclusive` |
| `AdvisoryLocksProofs!NothingLeftBehindHolds` | `Spec => []NothingLeftBehind` |
| `AdvisoryLocksProofs!TransactionKeepsLockHolds` | `Spec => TransactionKeepsLock` |
| `AdvisoryLocksProofs!ScopesImplemented` | `Spec => LocksAreScoped` |
| `SequenceTrackingProofs!Invariance` | `Spec => []IInv` |
| `SequenceTrackingProofs!TypeCorrect` | `Spec => []TypeOK` |
| `SequenceTrackingProofs!WithinBoundsHolds` | `Spec => []WithinBounds` |
| `SequenceTrackingProofs!IssuedOnceHolds` | `Spec => []IssuedOnce` |
| `SequenceTrackingProofs!BranchKeepsProgressHolds` | `Spec => []BranchKeepsProgress` |
| `SequenceTrackingProofs!StoredNotReissuedHolds` | `Spec => []StoredNotReissued` |
| `OidCacheProofs!Invariance` | `Spec => []IInv` |
| `OidCacheProofs!TypeCorrect` | `Spec => []TypeOK` |
| `OidCacheProofs!RoundTripHolds` | `Spec => []RoundTrip` |
| `OidCacheProofs!OneOidPerObjectHolds` | `Spec => []OneOidPerObject` |
| `OidCacheProofs!MappingsAreStableHolds` | `Spec => MappingsAreStable` |

(*) under the hypothesis `"rollback" \notin Fails`, explained below.

ConnectionHandler. The constants are only assumed to be sets of inputs
(`InputAssumption`), so the theorems hold for every script, every subset of
failing operations and every pipelining depth, and follow the connection past irregular
events. The inductive invariant is `TypeOK` and one fact that links the program counter
to the script (a script being run is not empty). `ErrorStepCommitsNothing` is about a step
that runs several engine operations, where an error after a commit would break it. The
lemmas therefore prove of every outcome that it is `Sound`: an operation that starts with
nothing committed either commits nothing, or succeeds and leaves no implicit block to
commit. So a step that has committed has nothing left that can fail by committing again.
The exception is a session that a message finds with a transaction open under autocommit
(`Untidy`), where COPY FROM file commits before it can fail. `ErrorsCommitNothing` rests on
`OrderlyTidy`: until an irregular event no message finds such a session.

ConnectionHistory. The hypothesis is that the engine's ROLLBACK succeeds. It is what
the `connection` run assumes too, and the properties need it: when the rollback of a
failed implicit block is refused, `endOfMessages` goes on as if outside a block while the
engine keeps the failed work, and the next statement commits it. Everything else may
fail or panic, and statements, scripts, portals and pipelining are arbitrary.
None of the properties is inductive, because what a message does depends on what the
client was allowed to send before it. `Orderly` ties four things together:

- `InOrder`: nothing is on its way after a Query, Sync, FunctionCall or Terminate, and no
  COPY message after the end of a COPY or a message of a batch;
- `Protocol`: what the client waits for, given where the handler is and what is still in
  the inbox (for example, a client that is ready has at most leftovers of a failed COPY
  on their way);
- `InBatch`: messages are discarded, and an implicit block is open between messages, only
  in a batch whose Sync is still to come;
- `Session`: what the engine holds in each block state. `Steady` says it between
  messages (outside a block nothing at all; in an implicit or explicit one only live
  work, autocommit off; in a failed one only doomed work and savepoints taken before the
  error), `InCopy` while COPY data is loaded.

Between an error and its report the engine is only `Erring`; that `endOfMessages` or
the switch to discarding brings it back to `Steady` is shown once (`Proper` outcomes)
and used by every handler. Each handler then has one lemma, `QueryMove` ...
`CopyEndMove`, with the conclusion `Turn`: the order is kept, and an open block commits
nothing and a failed one does not change (`BlockStep`). The two action properties are
`BlockStep`, the six `Regular` invariants follow from `Orderly` (`AnswerIsDue` from `Protocol`). The argument is laid out in three
modules: `ConnectionHandlerProofs` has what the engine and each operation of the handler
do to a session (`Sound`, `Steady`, `Proper`), `ConnectionProtocol` the messages on their way,
`Orderly`, and the moves that belong to the simple protocol, `ConnectionHistoryProofs` the
moves of batches, COPY and the client, and the theorems.

ResultPipeline. For any result, any batch size and capacities, and any failures
(`PipelineAssumption`). The state properties speak of what has reached the callback, or
of the end of the query; the invariant says where the rest is. `Queued(lo)`: rowChan
holds the items after the first `lo`, which the converter has taken, up to what Next has
read. `Chain`: the rows that have arrived, those of each batch in resChan and those of
the batch being filled ascend, part after part. `Covers`: unless the sender has failed,
every row among the first `lo` is in one of them. That `lo` is not a variable of
the program; each step's lemma names the next one. `Endings` says that a goroutine that
ended without an error has left an empty channel and a finished predecessor, so
success makes `Covers` say that all rows arrived. `Errors` ties the errgroup's error to
the goroutines that returned one, and each of these to a failure that happened or
to the context's cancellation, which has a cause of its own.

`NeverAllBlocked` follows from the same invariant, by going back along the pipeline: a
sender that waits found resChan empty, so the converter does not wait for room in it; a
converter that waits found rowChan empty, so neither does the reader; and a goroutine that
has returned has closed its channel or had the context cancelled. For `BoundedWork` an item
counts 5 while it is unread, 3 in rowChan and 1 as a batch in resChan, a goroutine counts
what it has left to do with the item it holds, and the end of the query and the caller's
cancellation count 1 each; `LeftLess` and `OneMoves` reduce a step's effect on the sum to
what it does to one goroutine and its items.

OidCache. `RoundTrip` is not inductive: `Assign` could overwrite an entry that
another session stored since its lookup. `AnswersStayCached` adds that every entry
beyond the built-in ones is the checksum of its key and that a caller that
missed was not asking for a built-in ID; hence a free checksum implies an
absent key, and `Assign` only adds.

LogicalReplication. The theorems hold for any number of transactions and rows,
any set of streamed and keyed transactions, any failures and any error limit
(`ReplicationAssumption`). `FlushedIsApplied` is not inductive: the next
confirmation must be known to be applied too. The invariant adds `Position` (the
stream goes on where the file ends: no expected transaction lies between),
`InTransaction` (after a Begin the replica, unless lost, has a block open with
every row received so far) and `Pending` (what the replica has not committed
belongs to the next transaction, and after a failed COMMIT is the whole of it).
`Committing` shows once that a commit of such changes applies at most the next
transaction; Begin, row and Commit each supply its hypothesis. The refinement
then needs only that and `FlushedIsApplied`.

AdvisoryLocks. For any sets of sessions and locks and any `MaxCount`
(`LocksAssumption`). `Exclusive` follows from `CountsAgree`, which is the core of the
invariant: each acquisition adds one to the engine's count and to one of the
session's records, each release takes one from both. It needs in addition that a
lock has an owner exactly when its count is positive, and that callbacks exist only
while their transaction does. The refinement of `ScopedLocks` uses it for the
acquisitions (`AvailableIsOnly`: the engine's count of a lock it grants is the sum of one
session's holdings, so no other session has the lock in any scope) and needs one more
fact, that no transaction begins before the callbacks of the last one have run (`Over`).

SequenceTracking. For any sessions and branches, any definition CREATE SEQUENCE
accepts and any width of the integer (`SequenceAssumption`); the theorems include
the bound `MaySet`, so they cover executions in which `setval` is no longer called
after the sequence was set back or started over. None of the properties is
inductive: that a merge keeps progress depends on where all copies stand. The
invariant says of some definition `d` that every state is `Like(d)` (the same
sequence, somewhere else) and, until the sequence is rewound, `Ordered`: along the sequence's direction, a transaction's base precedes its root and its branch's
head, a collection's origin precedes its contents, and all precede the tracker.
`Behind` adds that each value is passed by the state kept beside it, where a state at
the last value counts as having passed it. Per operation one lemma shows what it
does to that order (`NextMoves`, `SetValLike`, `HandleMergeLike`, `MergeLike`) and one
that the action keeps the invariant (`NextvalGood`, `SetvalGood`, `CommitGood` ...).

Only model-checked: the liveness properties `RegularAnswered`, `CatchesUp`, `Terminates` and
`WaiterOutlivesHolders`, since the prover does not reason about fairness. Every other
property of a passing run is also a theorem. Of two of the liveness properties the part
that needs no fairness is proved: `NeverAllBlocked` and `BoundedWork` leave of `Terminates`
only that a goroutine that can move does, and `AnswerIsDue` leaves of `Answered` only that
the server reads the messages it was sent and reaches the last one.

## Not modelled

LogicalReplication: `Stop` is a halt like a crash. Its handshake over the `stop` channel,
where two callers may take each other's signal, is not followed, nor are `CaughtUp`, the
standby deadline as time, the goroutine of each receive, and slots and publications
being created; the text of the queries and column types; TRUNCATE, TYPE and ORIGIN
messages, which the code only logs. `connErrCnt` counts all failures since the start, as
the code does: no caller passes the nil error that would reset it.

ConnectionHandler: start-up, SSL and authentication; failures of `NewContext`; transactions the
engine may open while it analyses a Parse or a Bind; row formats and
result contents; errors of `handleCopyTo` when it writes to the client; ROLLBACK
failing, in the `connection` run.

ResultPipeline: what precedes the result functions in `doQuery`, except that it may
refuse the query; the encoding of rows.

AdvisoryLocks: table locks, which the same function releases; a record that cannot
be kept, after which the acquisition is undone in the same call; a `ComResetConnection` that
fails after the locks were released.

SequenceTracking: creating, altering and dropping sequences, so all copies have one
definition and the sides of a merge never disagree on it (the operators do cover that);
`Minimum > Maximum` without START, which CREATE SEQUENCE does not refuse;
`is_called`, CACHE and the data type; `CloseContextRootFinalizer` failing on its way, and
its keeping a changed collection off a detached head. That a `setval` refused for its
bounds leaves the tracker at the refused value is modelled, and no property forbids it.

The remaining parts of the table above have no steps that interleave: they are
sequential computations inside one engine call, or read-only, or, like the roles,
guarded as a whole by one lock.
