# dodb in TLA+

dodb is a transactional document store. Each tenant has one shard; a shard keeps
its documents in two files, a data file of 4 KiB pages that holds a B+Tree and a
redo-only write-ahead log (WAL) of full page images. A client reaches its tenant
over QUIC, with one stream for each request. This project models the store from
the file operations up to the client, and the oracles its own tests rely on.

Paths below are relative to `src/crates/`. `mod.rs` is
`dodb-storage/src/btree/mod.rs`; `wal.rs` is `dodb-storage/src/wal.rs`.

## The system

| Part | Code | State | Operations that change it |
| --- | --- | --- | --- |
| Write-ahead log | `wal.rs` | the WAL file, next LSN, next batch id, start of history, committed batches | open (create, repair a torn INIT, scan, cut a torn tail), append a group, reset, resume after a checkpoint |
| Durable page store | `mod.rs` | the data file, current superblock and its slot, dirty pages, dirty superblock, `broken` | open, initialize, recover, publish a group, flush, checkpoint |
| Superblock slots | `superblock.rs` | two copies with generation, checkpoint LSN and high-water page | choose, write the other slot |
| File contract | `durable_file.rs` | bytes that are volatile until a sync succeeds | write, extend, truncate, sync |
| Structural checker | `btree/checker.rs` | none | reads the whole file after recovery and at a checkpoint |
| B+Tree | `mod.rs`, `btree/format.rs` | pages as leaves, inner nodes, overflow chains, free list | put, delete, split, allocate, free |
| Transactions | `mod.rs`, `dodb-core` | the overlay of one group, provisional revisions | validate conditions, apply mutations, restamp |
| Commit coordinator | `btree/coordinator.rs` | bounded queue, held-back request, group | enqueue, collect, process a segment, answer, shut down |
| Committed read view | `btree/coordinator.rs` | published pages, broken mark | publish, read without queueing |
| Page cache | `btree/cache.rs` | decoded pages, a clock | insert, look up, evict |
| Tenant service, QUIC server | `dodb-server`, `dodb-service` | open shards, connection and request permits | open a shard, execute, shut down |
| Client | `dodb-client` | connection, generation, back-off | dial, invalidate, execute, close |
| Protocol, keys | `dodb-protocol`, `dodb-core/src/key.rs` | none | encode, decode, map errors to outcomes |
| Test oracles | `dodb-testkit`, `dodb-soak` | reference database, expected states and histories | apply, judge a read, judge what a crash left |

A request goes from the client through the server and the service to the
coordinator of its shard. The coordinator is the only writer: it hands a group
of transactions to the page store. The page store stages them on one overlay,
appends all of them to the WAL, syncs once, installs their pages in memory and
answers. The pages are also applied to the committed read view, which gets,
queries and scans use without queueing. Pages reach the data file later, by a
flush or a checkpoint. A checkpoint ends by emptying the WAL. At opening, the
WAL is replayed into the data file.

## Modules

| Module | Models | Checked by |
| --- | --- | --- |
| `ShardStore` | files, WAL, page store and crashes of one shard | `shard_power`, `shard_kill`, `lost_commit` |
| `ShardContract` | what `ShardStore` promises: an append-only log of whole groups | `shard_power` |
| `Transactions` | requests, conditions, their validation | with `TransactionGroup` |
| `ReferenceDb` | the serial reference database of the test kit | with `TransactionGroup` |
| `SerialStore` | what the engine promises: answers of a serial execution | `engine` |
| `PageTree` | the B+Tree as operators on pages, and the structural checker | `engine` |
| `TransactionGroup` | groups and batches on an overlay, publication, reopening, the read view | `engine`, `leaked_failure` |
| `PageCopies` | cache, dirty pages, overlay, file and view as copies of one page | `page_copies` |
| `Coordinator` | queue, group collection, segments, view, shutdown | `coordinator` |
| `KeyCodec` | the byte encoding of keys | `protocol` |
| `WireProtocol`, `Exchange` | frames and limits; one request and its answer across the wire | `protocol` |
| `TenantService` | the registry of shards and its shutdown | `tenant` |
| `QuicServer` | connections, permits and stream tasks over `TenantService` | `quic` |
| `ClientConnection` | the shared connection, dials, outcomes, close | `client` |
| `ReferenceTransactions` | interactive transactions of the test kit | `oracles` |
| `SoakOracle` | how the soak harness judges reads and crashes | `oracles` |
| `MC...` | the instances for TLC | |
| `ShardStoreFacts`, `...Types`, `...Writes`, `...Recovery`, `...Theorems` | proofs about `ShardStore` | |
| `CoordinatorTheorems`, `TenantServiceTheorems`, `ClientConnectionTheorems` | proofs about these three | |

Where two modules meet, one is an abstraction of the other. `ShardStore` knows
pages and not what is in them, `TransactionGroup` their contents and not the
files; `Coordinator` sees the engine as the list of mutations it published;
`TenantService` sees a coordinator as something that commits what it is sent
until it is told to close. `QuicServer` extends `TenantService`, and its steps
are those of both.

Operators whose names end in `_` and a word (`read_shard_opening`), and in
`ShardStore` those that begin with `M`, are faulty variants of the definition
after them. No specification uses them. Put in its place, each makes TLC report
the property that guards the definition.

### ShardStore: state

A page of the data file is absent (`NoPage`), unreadable (`Garbage`: zeros from
`set_len` or a torn write, both fail the checksum), a data page with the LSN in
its header and the transaction that wrote it, or a superblock with generation,
checkpoint LSN, high-water page and the transaction whose metadata it carries.
`dfile` is what reads return, `ddisk` what is on stable storage, `dpend` the
versions of each page written since the last sync. The WAL is a sequence of
frames, `wfile` as read and `wdisk` on stable storage.

`current_superblock`, `active_slot`, `dirty_pages`, `dirty_superblock` and
`broken` are the fields of `BTreeStore`; `next_lsn`, `next_batch_id`,
`history_start_lsn` and `last_commit` (the LSN of the last entry of `committed`,
0 if there is none) those of `WalLog`. The store's own copies of the next LSN and
batch id are not separate variables: they differ from the log's only after a
failed reset, when the shard is degraded and uses neither.

`pc` says where the running call stands; `goal`, `group`, `pos`, `left` and
`hint` are its locals. One call runs at a time, because the coordinator is the
only owner of the store.

`hist`, `doubt`, `acked` and `checkpointed` are history variables: the
transactions served in commit order, those of an interrupted group, those
reported as committed, and the highest checkpoint LSN that ever was in a
superblock on stable storage. `ckpts`, `crashes`, `faults` and `next_tx` bound
the model.

### ShardStore: actions

Every file operation is a step of its own, so that a crash can come between any
two.

| Actions | Code |
| --- | --- |
| `Stage` | one accepted mutation of `apply_transaction_group`, `finish_transaction` |
| `RejectGroup`, `publish_prepared_group` | the two outcomes of the `broken` check |
| `AppendPageFrame`, `AppendCommitFrame` | `append_group_commit` |
| `SyncAndPublish` | the sync of `append_group` and the publication after it |
| `flush`, `FlushPage`, `FlushSync` | `flush_dirty_pages`, also when called by `checkpoint` or `check_invariants` |
| `checkpoint`, `CheckpointWrite`, `CheckpointSync`, `CheckpointCheck` | `checkpoint` |
| `ResetTruncateSync`, `ResetInit`, `ResetSync` | `WalLog::reset`; the truncation itself is the end of `CheckpointCheck` |
| `ReadCheckpointHint` | `validate_existing_identity_before_wal` |
| `WalInitialize`, `WalInitSync`, `WalTornInit`, `WalTornInitSync`, `WalScan`, `WalTailSync` | opening of the log |
| `BeginInitialize`, `InitializeWrite`, `InitializeSync` | `initialize` |
| `BeginReplay`, `ReplayFrame`, `ReplaySync` | `recover_data_file` |
| `FinishOpen` | the checks at the end of `open_with_wal_internal` |
| `IoError` | any of these operations fails; a write may be cut short |
| `ProcessCrash`, `PowerLoss` | the two kinds of crash |

### ShardStore: failures

`CrashKinds` selects the crashes of a run.

* `"process"`: the process ends, or a degraded shard is dropped and opened
  again. The operating system keeps every completed write; the write under way
  may be torn.
* `"power"`: of every page written since its last sync any one version, the
  synced one or a torn one is left, each page on its own. Of the frames appended
  since the last sync a prefix is left, and the frame after it may be torn.
  A truncation that was not synced has happened or not.

A failed sync leaves everything since the last good sync volatile, as the
`DurableFile` contract says ("Writes are volatile until `sync_data` or
`sync_all` succeeds").

### ShardStore: what is abstracted

* Keys, values, revisions and the tree (they are in `PageTree` and
  `TransactionGroup`): a transaction is the set of pages it changes. The first
  transaction always changes the root leaf, page 2. New pages come from the
  high-water mark in order.
* Bytes: a frame is whole, torn or absent, a page readable or not. The identity
  and version checks of `scan_wal` hold for files the program wrote itself.
* The file length is a number of pages.
* A torn INIT frame is recognised only with the start LSN it was written with.
  The code also accepts a shorter prefix that happens not to contain the LSN;
  the model is the stricter one.
* The structural checker is reduced to: every page below the high-water mark is
  readable. `PageTree` has all of it.
* Errors that change no state (a failed read, a checkpoint whose LSN would move
  backwards) are left out. A failing `set_len` in a flush appears as a failure
  right after it.
* The fault-injection points exist for tests and coincide with `IoError` or a
  crash. The store without a WAL is a test form and is left out.


### The engine: PageTree, TransactionGroup, SerialStore

`PageTree` is the tree as pure operators on an *overlay*: the pages, the root,
the head of the free list, the high-water mark, the next revision, the dirty
pages and an error. A key is a number in the order of its encoding, a value a
name; `KeyLen` and `ValueLen` give their lengths in bytes, and the layout
constants are those of `btree/format.rs`, so a page is full exactly when the
encoder says so. `put`, `delete`, `get_state`, `query`, `scan`, the two splits,
the allocator and the overflow chains follow `mod.rs`; `check` is the structural
checker. Overflow bytes are positions of chunks in a value.

`TransactionGroup` keeps the committed shard (`store`), the overlay of the group
being staged, its accepted candidates and answers, a batch the caller holds
prepared (`held`), and the read view.

| Actions | Code |
| --- | --- |
| `BeginGroup`, `StageRequest`, `FinishGroup` | `apply_transaction_group`, one request at a time; a failed WAL append is an outcome of `FinishGroup` |
| `prepare_batch`, `publish_prepared` | a batch prepared and published by two calls, between which another commit may come |
| `apply_updates` | the read view takes over the published pages |
| `Reopen` | the shard is opened again; what was staged or held is gone |

The view is brought up to date in a step of its own, because readers on other
threads can meet it before. `documents` is derived from the committed pages; it
is what the refinement of `SerialStore` speaks about. A revision condition is
sent with the committed revision of its key, which an earlier request of the
same group may have overtaken.

### PageCopies

A page is in up to five places: the file, `dirty_pages`, the LRU cache, the
overlay of the group being prepared, and the read view with its pending updates.
A content is the number of the transaction that wrote it. The actions are the
lookups (`page`), changes, `finish_transaction`, `Discard`,
`publish_prepared_group` and its failure, `flush_dirty_pages` with any prefix of
the pages written, and `publish_read_updates`. The cache's clock counts modulo
`ClockSize`, which the code's 2^64 is here. Only stores with a WAL are modelled.

### Coordinator

`sent` records every operation with its answer. `queue`, `group`, `pending`,
`closeSeen`, `start` and `outcome` are the channel and the locals of the
coordinator task; `task` is where it stands. The engine is `store`, the sequence
of published mutations and whether it still serves; `view` shows a prefix of it.

| Actions | Code |
| --- | --- |
| `execute` (`try_read`, `try_enqueue`) | the handle: reads of the view, and a send that fails when the queue is full or closed |
| `Cancel` | the caller drops its future |
| `FirstOfGroup`, `TakeNext`, `collect_group`, `CollectDelayed` | collection with its limits and its delay; an operation that does not fit is held back |
| `process_segment` (`Commit`, `CommitFails`, `Inspect`) | one segment on the engine |
| `publish_read_updates`, `AnswerSegment` | publication, then the answers |
| `shutdown`, `CloseIdle`, `Stop`, `ShutdownReturn` | the close signal and the end of the task |

Sizes in bytes are those of `operation_size`. Which requests the engine refuses
is left open: it may answer a conflict or invalid input to any request of a
segment, and commits the others.

### WireProtocol, Exchange, KeyCodec

`KeyCodec` encodes and decodes keys byte by byte. `WireProtocol` has every
encoder and decoder as an operator on fields with their widths; a byte string is
an identity, a length and its number of zero bytes, which is all that limits and
the length of an encoded key depend on. `Exchange` takes one request across:
`ClientSends`, `ServerReads`, `ServiceRuns`, `ServerAnswers`, `ClientReads`. Each
direction may be cut anywhere, the sides may have different `ProtocolLimits`,
and the client may speak another version. The service is modelled by its
possible results; the refusals that come before anything is appended to the WAL
(`Refusals`) leave the shard unchanged, which is what `Coordinator` and
`TransactionGroup` are about, and behind any other error a mutation may have been
applied. `ResponseBudget` is counted as the server counts it.

### TenantService, QuicServer

`shards` is the registry, `lock` its mutex, `exist` and `content` the files of
each tenant; a shard is named by the request that opened it. A request looks
whether files exist (`read_shard`), takes the lock, finds the shard, is refused
or opens it (`open_shard`), reads the view or sends to the coordinator. A
shutdown takes the whole registry and closes its shards one after the other.

`QuicServer` adds connections, the `serve_connection` task of each, streams and
their tasks, and the shutdown of the server. Stream tasks are not joined by it,
as in the code. quinn is modelled as far as the server observes it. A client may
send its request, spoil it, cut it short or reset it, and may stall the task of
its stream while it reads the request or writes the answer (`ClientStalls`).

### ClientConnection

`state` is `ConnectionState`; each section under its mutex is one step, and the
awaits lie between steps. `at` says where a request is: `ensure_connection`,
`Park` and `Again` (waiting for another's dial or for the back-off), the dial,
`SendRequest`, `ReadResponse`, `invalidate`. A caller may drop its request
anywhere (`Cancel`); `close` and the loss of a connection may come at any time.
The server runs a request it received to the end, also when nobody waits.

### ReferenceTransactions, SoakOracle

`ReferenceTransactions` models the test kit's interactive transactions: reads
and buffered writes of several transactions, then `commit`. `SoakOracle` models
the harness during a crash phase: operations are sent, served, answered late or
never; `Judge` compares a read with what the answers allow; `Kill` and `Recover`
end a cycle, reconcile the operations with an unknown outcome and verify every
key. The server is a correct one, or with `TornTransactions` one that applies a
part of a transaction.


## Runs

Deadlock is checked in the three runs of `ShardStore`, where a shard can always
be flushed or opened again. In the others the behaviour ends when the bounded
callers have what they asked for.

| Run | Bounds | States |
| --- | --- | --- |
| `shard_power` | data pages 2..3, 2 transactions in groups of up to 2, 2 checkpoints, 2 power losses, 1 failed operation | 1,221,248 |
| `shard_kill` | the same with 1 checkpoint and 2 process kills | 242,880 |
| `engine` | 3 commits of 16 different writes, or 2 commits from 8 requests and 4 batches in groups of up to 2 with 1 failed append, or 3 commits of 5 requests and a batch on keys beyond half a page | 131,850 |
| `page_copies` | 3 pages, a cache of 2, a clock of 3, 2 transactions | 5,988,537 |
| `coordinator` | 3 operations of one of three mixes, queue of 2, groups of 3 and of 200 bytes, 1 engine failure, 1 shutdown | 574,988 |
| `protocol` | 15 requests, 5 client and 11 server limits; keys with components of up to 2 of the bytes 0, 1 and 255, inputs of up to 8 bytes | 82,924 |
| `tenant` | 4 requests, 2 tenants, 1 place in the registry, 2 shutdowns | 1,488,328 |
| `quic` | 2 connections for 1 place, 3 requests for 1 permit, a shutdown | 22,569 |
| `client` | 2 requests after 0, 5 or 40 failed dials | 739,914 |
| `oracles` | put, delete and up to 2 transactions, apart or on one key, over 2 kills, components of up to 3 explored; 2 interactive transactions of 3 calls and a direct write | 3,065,373 |

### shard_power, shard_kill

* `CommittedState`: an open shard shows exactly the served transactions, whole
  and in order; of an interrupted group a prefix.
* `Reopenable`: no failure makes a shard that served a transaction impossible
  to open.
* `WriteAhead`: no page image is in the data file before its COMMIT frame is on
  stable storage, unless a durable checkpoint covers it.
* `CheckpointSound`: an open shard never works from an older checkpoint than one
  that was durable, and the durable WAL never begins after the durable
  checkpoint.
* `FreshLsn`: no LSN is handed out twice, across resets and restarts.
* `Implements`: `ShardStore` implements `ShardContract`. The mapping takes
  `hist` for the log, `doubt` for the group in flight, an open shard for `up`,
  and the dirty pages laid over the data file for the view.

Two data pages are the least with which a transaction can change one page and
leave another; two transactions in a group the least with an order inside the
group. Two crashes let the second fall into the recovery from the first. Two
checkpoints write both superblock slots.

### engine

* `TreeSound`: after every commit the structural checker accepts the tree, and
  every page below the high-water mark is in the tree, in one overflow chain or
  in the free list.
* `ReadsAgree`: `query` and `scan`, from any cursor, also none or one that is
  too long, with any limit, return the rows or the error of the reference
  database, and so do the reads of the view once it has the published pages.
* `LegalWritesAccepted`: while the keys that are stored and written take at most
  half a page each, no key within the limit is refused as invalid, however the
  tree has to split.
* `Serializable`: groups and batches are answered as a serial execution would.

Keys of 1965 and 1966 bytes take half a page with a small value, the latter to
the byte, so that four of them already need three levels; values of 5000 bytes
take two overflow pages; a key of 4000 bytes is beyond the limit. The second
workload has conditions on what another request of the group changes, a request
that names a key twice, one that fails half-way, and batches that read what they
wrote. The third has keys of 2500 bytes, with which splits do fail.

### page_copies, coordinator

* `CopiesCurrent`, `ViewComplete`: no copy of a page is ever an old one, whatever
  was evicted, discarded, or failed, and the view has every page a reader can
  reach.
* `ViewIsCommitted`: an acknowledged write is in the view, and the view never
  shows what is not committed.
* `AppliedInOrder`: mutations take effect in the order they were sent, once.
* `RefusedNotApplied`: what was refused or dropped was not applied.
* `EveryCallReturns`: no caller and no shutdown waits forever.

The cache is smaller than the tree and its clock wraps within a behaviour. The
mixes cover all kinds of operations, one of them larger than a group may be.

### protocol

* `ServedAsAsked`: the server runs what the client asked, or nothing; with equal
  limits a request that arrives whole is accepted.
* `ToldAsServed`: the caller is told the result or the error of the service if
  it fits the server's limits; with equal limits the client accepts every answer.
* `DefiniteIsTrue`: any answer to a mutation but an unknown outcome is true.
* `BudgetSuffices`: a result the response budget admits, and that keeps to the
  server's limits, can be encoded.
* `OrderPreserved`, `Canonical`: the encoding of keys keeps their order, can be
  undone, is the only one, and has the length it is measured with.

Response limits lie one byte around the size of a state and of one to three
documents. Bytes other than 0 and 255 are alike to the codec; 1 stands for them.

### tenant, quic, client

* `OneCoordinatorPerFile`: first requests that race open a tenant once.
* `SeesAcknowledged`: a request sees what was acknowledged before it began.
* `ReadsCreateNothing`: requests without mutations create no files.
* `ShutdownReleases`: a shutdown waits for every shard it took.
* `EveryTaskEnds`: the tasks of a closed connection and of its streams end and
  give their permits back, whatever the clients do; on an open connection a
  stream is served to its end unless a client stalls a stream that has a permit.
  `ShutdownCompletes`: a shutdown completes, stalled clients or not.
* `OneDial`, `WaiterHasDialer`: requests share one dial, and no notification is
  lost between the lock and the await.
* `OutcomesTrue`: what a mutation's caller is told stays true, and nothing is
  applied twice. `ClosedForGood`: close is final.
* `NewerConnectionKept`: a late failure leaves a newer connection alone.
* `EveryCallReturns`: every request returns.

Forty earlier failures show that the shift of the back-off is bounded.

### oracles

* `NoFalseAlarm`: a correct server fails a soak run in no case but the two
  named below.
* `TornDetected`: a transaction applied in part fails the next verification.
* `MetAtCommit`: an interactive transaction commits only if everything it met
  still holds, and conflicts only with a reason.

## Fairness

No safety property uses fairness. The liveness properties assume:

* `coordinator`: weak fairness of the coordinator task and of the return of a
  `shutdown` whose task has ended. The task is a loop of its own that is woken
  when the channel or the close signal is ready; callers are not assumed to
  send, wait or cancel. `MaxSent` bounds the callers: while an operation is held
  back the loop does not look at the close signal (`coordinator.rs:390`), so
  callers that always have one ready that does not fit would delay a shutdown
  without end.
* `quic`: weak fairness of every spawned task, but none of the clients: a
  handshake, a read and a write may take as long as the connection lasts, which
  may be forever. Strong fairness of taking the
  registry's mutex, for requests and for the shutdown, because tokio's mutex is
  first come, first served.
* `client`: weak fairness of each request's own steps, of the server, of the
  back-off timer, and of the end of the endpoint after `close`. A dial and a
  read end by themselves or by the idle timeout of the transport. No fairness for
  callers, lost connections or `close`. `EveryCallReturns` is stated for
  behaviours in which no dialling request was dropped, see below.

## Findings

Two runs end in a counterexample, and show where the code departs from what its
documentation says.

* `lost_commit` violates `AckedSurvive`. A commit is appended but not synced
  when the process is killed. The next opening finds it in the operating
  system's copy of the WAL, replays its images into the data file and syncs only
  the data file. A power loss takes the WAL tail; the pages stay. The next LSN is
  taken from the shorter WAL, so a new transaction commits with the LSN the page
  already carries. If the machine stops again before a flush, redo finds
  `page_lsn < commit_lsn` false (`mod.rs:2356`) and skips the acknowledged image.
  `docs/architecture/01-invariants.md:5` promises that a restart exposes all
  committed effects.
* `leaked_failure` violates `RefusedNotApplied` of `TransactionGroup`. A
  transaction that fails with `InvalidInput` after its first mutations is
  answered, and the group goes on with the same overlay (`mod.rs:684`). The next
  accepted transaction commits what the failed one left. With keys beyond half a
  page an ordinary transaction can fail so. `01-invariants.md:14` says "A
  multi-key transaction is applied wholly or not at all".

## Where the properties stop

Some properties hold under a condition that the code needs as well. Each
condition is written in the property, in the configuration or in the theorem.

* `WriteAhead` and `FreshLsn` are checked for power losses only. After a process
  kill, opening replays COMMIT frames that were never synced, because `wal.rs:208`
  syncs the log only when it cuts a tail, and `mod.rs:2362` writes their images.
  `03-wal-recovery.md:29` says that no page is written before the WAL sync.
* `CheckpointSound` likewise: after a process kill the checkpoint LSN may come
  from a superblock that was written and not synced, and a flush with nothing
  dirty returns without a sync (`mod.rs:1109`), so that the log can be reset
  on its word. `01-invariants.md:8` calls the data file authoritative after a
  checkpoint.
* `LegalWritesAccepted`: entries of at most half a page always leave a split
  (the entries up to the first that passes the middle, or those before it, take
  at most a page, and so does the rest). Beyond half a page an inner page can be
  full with two entries, and `choose_internal_split` refuses fewer than three
  (`mod.rs:2263`), although `02-storage-format.md:79` allows 3992 bytes. The
  third workload of `engine` reaches such refusals.
* `OneCoordinatorPerFile` and `SeesAcknowledged` end with the shutdown of the
  service: `DodbServer::shutdown` (`dodb-server/src/lib.rs:264`) does not join
  stream tasks, and a request that is still served may open files while the
  coordinator that had them is closing. `phase-6-native-quic.md:189` says that
  shutdown does not race a reopening.
* `DefiniteIsTrue` and `ToldAsServed` ask that the error of the service fits the
  response frame. `serve_stream` replaces one that does not by a protocol error,
  which says `NotApplied` also when the outcome was unknown
  (`dodb-server/src/lib.rs:476`, `phase-6-native-quic.md:180`).
* `BudgetSuffices` and `ToldAsServed`: the answer keeps to the server's limits
  (`WithinLimits`). The encoder counts the rows of a query against
  `max_scan_limit` (`dodb-protocol/src/lib.rs:686`), and refuses keys and values
  stored under wider limits (`:719`), which `phase-6-native-quic.md:85` lets a
  caller lower. A good read is then answered by a protocol error; servers with
  such limits are in the instance.
* `EveryTaskEnds`: `serve_stream` reads and writes without a timeout
  (`dodb-server/src/lib.rs:377`, `487`). A client that keeps its connection and
  neither sends its request nor takes the answer keeps a permit that all
  connections share.
* `WaiterHasDialer` and `EveryCallReturns` of the client: a caller that drops
  its request while it dials leaves `reconnecting` set
  (`dodb-client/src/lib.rs:281`), and nothing but `close` ends the wait of the
  others.
* `NoFalseAlarm`: `reconcile_unknown_operations` (called at
  `dodb-soak/src/main.rs:1915`) may refuse a state that a correct server leaves
  when a put or delete with a known answer has overwritten a part of a
  transaction whose answer was lost (`Overwritten`), and when a component with a
  transaction is too large to be explored (`Unexplored`; 12 operations in the
  code, 3 in the instance). `dodb-soak/src/lib.rs:816` relies on unique keys of
  crash-phase transactions, but the generator draws them from the pool of all
  operations (`lib.rs:428`). Both cases occur in the instance.

## Proofs

### ShardStore

All theorems hold for every number of pages, transactions, group sizes,
checkpoints, crashes and faults; `BoundsAssumption` only says that these are
naturals, that there is a data page, and what the kinds of crash are.

`TypeCorrect`: `Spec => []TypeOK`. The range of the variables is not inductive
by itself: an append reads `group[pos]`, so the proof carries `Locals`, which
says that a group is there exactly while it is staged, appended or synced, that
`pos` is inside it, and that the frames still to be written belong to it.

`WriteAheadHolds`: with `"process" \notin CrashKinds`, `Spec => []WriteAhead`.
The assumption is needed: with process kills recovery replays frames that were
never synced, which is also the first half of `lost_commit`.
`WriteAhead` speaks of the data file only; the images come from memory, and they
come there from the log. The inductive invariant `WalRule` follows them:

* `LogInv`: frames are in LSN and batch order, every image of a batch carries
  the LSN of the batch's COMMIT frame, and carries no checkpoint beyond the
  durable one, in `wfile` and in `wdisk`;
* `EndInv`: while the shard accepts writes, `next_lsn` and `next_batch_id` are
  beyond every frame of the log;
* `GroupInv`: the batches of a group are numbered consecutively from there, and
  the frames written so far are those the group and `left` say;
* `CheckpointInv`: the checkpoint LSN in memory, and in the superblocks of a
  shard that is not open yet, is durable, and so is the new one before the log
  is reset;
* `CoverInv`: every image in memory, in the data file or waiting for a sync is
  *covered*, by a COMMIT frame in the durable log or by a durable checkpoint;
  every COMMIT frame of the durable log is covered in `wfile`; and while the
  shard is being opened, every COMMIT frame in `wfile` is covered too, which is
  what allows recovery to replay it. This is the conjunct a process crash breaks.

`ShardStoreFacts` proves the facts about logs (what appending a frame or keeping
a prefix preserves); each of the step modules has one lemma for each group of
actions, and `TypeStep` and `WalStep` in `ShardStoreTheorems` combine them. The step lemmas
assume `SetFacts` (a bounded set of naturals has a greatest element; how the size
of a set of pages changes with one page), which `SetFactsHold` proves from the
library of finite sets, so the theorems rest on `BoundsAssumption` alone.

### Coordinator

For any mix of operations, queue length, group limits and failures, the inductive
invariant is `IInv == TypeInv /\ StageInv /\ OrderInv /\ AnswerInv /\ OutcomeInv
/\ ViewInv`:

* `StageInv`: what the variables of the task hold at each step of its loop;
* `OrderInv`: what is published, the rest of the group, what is held back and
  what is queued follow each other in the order of sending;
* `AnswerInv`: nothing that is queued, held back or still to be run was answered
  by the task, and nothing published was refused;
* `OutcomeInv`: the results of a finished segment say what was published of it;
* `ViewInv`: the view and the updates not yet published into it are what the
  engine published, and a write answered ok is in the view.

`ViewCommitted`, `InOrder` and `RefusedIsFinal` follow from it. The mutations the
engine keeps of a segment are collected by a loop (`Kept`). What the proof needs
of it (a kept mutation is one of the segment's, in its order) is shown by taking
the first position at which it fails (`Least`, from the well-foundedness of the
naturals), as the induction theorems of the library cannot be instantiated.

### TenantService

For any tenants, requests, shutdowns and registry sizes (`TenantAssumption` only
says what the constants are), while no shutdown has taken the registry
(`Serving`), the inductive invariant is
`IInv == TypeOK /\ Ownership /\ Contents /\ Seen`:

* `Ownership`: a living coordinator is in the registry under its tenant or is
  being opened by the request that holds the lock, and a request that sends knows
  a registered one;
* `Contents`: a running coordinator shows exactly what its files hold, the files
  hold every acknowledged write, and files with contents exist;
* `Seen`: an answered request found what it had to see.

`OneCoordinator` and `Sees` follow from it. That `Serving` cannot come back
(`ServedBefore`) turns the induction under a condition into a temporal one.
`ReadsOnly` does not need `Serving`: `ReadersInv` says that a request without
mutations asks for the registry's lock only once the files exist. `Releases`
does not need it either: `ReleaseInv` follows the coordinators a shutdown has
taken out of the registry until they are closed.

### ClientConnection

For any number of requests (`ClientAssumption` only says what the constants
are):

* `TrueOutcomes`: `OutcomesInv` relates where a request is, what its stream
  carries and whether it was applied; it implies that a definite answer stays
  true and that nothing is applied twice;
* `SharedDial` and `CloseIsFinal`: `DialInv` says that at most one request dials,
  that `reconnecting` is set meanwhile unless the client is closed, and that a
  closed client has no connection;
* `NoLostNotification`: `WaitInv` says that `reconnecting` is set only
  while a request dials, and that one that waits and was not told has another
  that dials or is about to tell it. It is preserved as long as
  no dialling request was dropped, and once one was, that stays so
  (`DroppedStays`);
* `KeepsNewer`, an action property, follows from `DialInv`: nobody dials while
  there is a connection, so no dial replaces one.

### Only model-checked

* Liveness, and everything that speaks of `ENABLED`.
* `Implements` and `Serializable`, the two refinements; `CommittedState`,
  `Reopenable`, `CheckpointSound` and `FreshLsn`.
* The tree, the codecs and the oracles, which are recursive over data:
  `PageTree`, `KeyCodec`, `WireProtocol`, `SoakOracle`.
* `PageCopies`, `QuicServer`, `Exchange` and `ReferenceTransactions`.

## Not modelled

* The store without a WAL, a form for tests.
* `checkpoint_all` and `check_invariants_all` of the service: they send an
  ordinary operation to each coordinator.
* Metrics, logging, TLS set-up, command lines.
* Checksums and the byte layout of pages, frames and superblocks: a page or a
  frame is readable or not. The byte layout of keys is modelled.
* Response frames too small for the answer to a put or a delete (17 bytes of
  payload).
* `crash.rs` of the test kit drives recovery tests and keeps no state of its own.
* Workload generation, sampling and reports of the soak harness, and the
  benchmarks.
