# Verification of pg-llm-batch

pg-llm-batch prepares, submits, polls and retrieves LLM batch jobs around one
PostgreSQL database. It has no daemon: hosts call it from any number of
processes, schedulers repeat calls, and what the calls agree on is in the
database. This directory models the parts of the library where that is hard,
checks the models with TLC, and proves every safety
property that the passing runs check with TLAPS, for every value of the constants.

Source paths are relative to `src/pg_llm_batch/`.

## Inventory

| Component | State | Operations | Interacts with |
|---|---|---|---|
| Durable lifecycle (`durable_client.py`, `db.py`, `schema.sql`) | a sequence of observation orders; one `llm_remote_batch_jobs` row per tenant, endpoint and batch | create, poll, cancel; guarded upsert | provider over HTTP, readers of the table, reconciliation |
| Checkpoint store (`checkpoint_store.py`) | one `llm_result_stream_checkpoints` row per consumer and batch | load, save, in a transaction of its own or of the caller | result application, result stream |
| Result application (`result_application.py`) | none of its own | run an effect and advance the checkpoint in one transaction | checkpoint store, host tables |
| Result stream (`result_streaming_checkpoint_impl.py`) | per stream: buffer, line and record budgets, prefix hash | open, read lines, yield, resume | provider files, consumer |
| Batch preparation (`orchestrator.py`, `token_counter.py`) | requests, files, lines, totals of one batch | prepare_batches | hosts that enqueue and claim requests |
| Reconciliation (`reconciliation*.py`) | none; the order of `last_observed_at` and session advisory locks | load page, scan, poll, download, lock, unlock | durable lifecycle, provider |
| HTTP client (`batch_api_client.py`) | per call: attempts, deadline, credentials | retry loop, wait_for_batch, upload, create, delete, cancel, download; credentials lookup | provider, configuration and secrets |
| Configuration and secrets (`config.py`) | tables `com_config` and `com_secrets`; a per-process cache of the first | start, get, set, close; set and read a secret | client, preparation, `config set` and `set-secret` of the command line |
| Logical backup and restore (`postgres_logical_*.py`) | an archive file of the operator, reached by descriptor | dump, restore | pg_dump, pg_restore, other users of the file |
| Recovery evidence (`postgres_*_evidence.py`, `postgres_recovery_*.py`, `postgres_restore_target.py`) | registry of inspected evidence | inspect, bind a receipt, verify it, check isolation | backup and restore, operators |
| Evidence documents (`postgres_recovery_receipt.py`, `postgres_restore_acceptance.py`, `postgres_physical_recovery.py`, `release_evidence.py`) | none | validate | operators |
| Observability (`observability.py`) | a context variable per task | measure outer calls | HTTP client, meter |
| Health, CLI, models | none that others read | | all |

What is hard in each, and what makes it correct:

- **Lifecycle.** The order is reserved before the provider is asked, and the
  answer is stored later, so observations overtake one another; commits are
  acknowledged late or never; counters of different observations are merged.
  Correct means: a terminal row is final, nothing established is forgotten,
  merged counters satisfy the table's CHECK, a successful call is covered by
  what is stored, and the row never claims more than the provider.
- **Checkpoints and application.** Several hosts of one consumer, with crashes
  between effect, save and commit, and a provider whose files may change.
  Correct means: the checkpoint moves along one stream, one record at a time;
  each record takes effect exactly once.
- **Stream.** Chunk boundaries, budgets that span files, resume against changed
  bytes. Correct means: lines are those of the file however it is cut; what the
  consumer made durable is exactly the prefix its checkpoint names.
- **Preparation.** Requests are read in one transaction and assigned in
  another. Correct means: a batch is prepared once, whole, within limits, and
  overlapping callers see the same files.
- **Reconciliation.** Overlapping passes, lost sessions, batches that always
  fail, lock calls that end without an answer on a session that lives on. Correct
  means: one session per key, no lock left except by such a call, no repeated
  poll in a pass, no starvation.
- **HTTP client.** Retries, Retry-After, deadlines. Correct means: no side
  effect twice, bounded overrun, a time-out that is not stale.
- **Configuration, secrets and credentials.** Caches that nobody refreshes, and
  rows that operators rewrite with other Fernet keys while tasks hold ids of the
  gateway. Correct means: no default replaces a setting, a key is never misread,
  and ids go back to the gateway that issued them.
- **Backup, evidence and restore.** Files and descriptors that change between
  any two calls, children that fail half-way, interrupts. Correct means: a backup
  that reports success is one whole dump and one that reports an error is gone
  (one that is interrupted may be neither), a restore that reports success holds the inspected archive, and the
  receipt names it.
- **Observability.** Overlapping tasks and nested operations. Correct means:
  each call of a host is measured once, under its own name and outcome.

`PROJECT.json` lists every component with its status, and under `hazards` each
hazard at its line with the properties that would catch it.

## Modules

| Module | Models | Notes |
|---|---|---|
| `RemoteBatchLifecycle` | durable lifecycle | clients are processes; an operation is reserve, respond, persist |
| `BatchProjection` | abstract specification of the table | per batch, a version and counters that grow, and one final settlement |
| `ResultApplication` | checkpoint store and result application | one step per SQL statement |
| `ResultStream` | resumable stream | bytes, chunks, lines |
| `BatchPreparation` | preparation | read, assemble, lock, persist part by part, commit |
| `Reconciliation` | candidate page, worker, single flight | hosts loop over passes |
| `ProviderPolling` | `_request` and `wait_for_batch` | discrete time |
| `LogicalRecovery` | backup, evidence, receipt, isolation check and restore | one drill, with retries; other actors of the host tamper |
| `ConfigStore` | configuration and secret stores | processes share the tables; no specification of its own |
| `GatewayClient` | credentials lookup, public operations and their measurement | extends `ConfigStore`: tasks of one process and the stores together |
| `*_proofs` | theorems about the module of that name | `GatewayClient_proofs` covers `ConfigStore` too |
| `MC*` | instances for TLC | definitions of constants and symmetry sets only |

An operator whose comment begins with "Mutant of" is a deliberately wrong variant
of the operator that follows it. No specification uses it; replacing the operator
by it must break the property that `PROJECT.json` names, which shows that the
property depends on the code.

### RemoteBatchLifecycle

`seq` is the database sequence, `rows` the table, `provider` the provider's batch
objects (external) and `op[c]` the operation client `c` is in. `Reserve` is
`_reserve_observation_order`; `RespondCreate`, `RespondPoll` and `RespondCancel`
are the HTTP calls with the decoding each of them does; `Persist` is
`_persist_snapshot` with `_persist_remote_batch_state`; `Refuse` is every
validation that raises, the overflow of the INTEGER sum in the WHERE included;
`Fail` is any other error between two of these steps, and leaves a gap in the
orders. `Inserted`, `Merged` and `UpdateApplies` are the VALUES, SET and WHERE of
the upsert. The upsert takes the row lock, so it is one step. Columns merged by
COALESCE are a function from `Fields`, of which a run chooses a few;
`provider_metadata`, merged by CASE on `'{}'`, is one of them with `{}` as NULL.
`first_seen_at` and `updated_at` are left out: no property reads them.

`HonestProvider` switches between a provider that reports its own state, possibly
leaving out columns and counts, and one that answers anything.

### ResultApplication

`durable` is the committed row, `lock` the transaction that holds it or its
pending insert, `applied` how often each record's effect was committed. A worker
goes through `Load`, `RunEffect`, `SelectRow` or `SelectNone` and `Insert`, and
`Commit`; each is one statement. `deployment`, chosen at the start from
`Deployments`, is what the host decides: the isolation level, and whether its
hosts also call `save()` on its own (`BeginSave`) after records they handled
elsewhere (`ReadOn`, external). A prefix hash is modelled by what it identifies: the
version of the file once the prefix is longer than what versions share.
`batch_line_count` grows with `record_count` on one stream and is left out.

A host whose checkpoint is the last of the result file is refused the first record
of the error file: the helper takes no predecessor of another file, as
`tests/test_result_application_coverage_edges.py:174` wants it. A batch with both
files is therefore not applied to its end with one checkpoint, and
`EveryRecordAcknowledged` is about the result file.

### ResultStream

`s` is the open stream, with the buffer and the two budgets; `acked` and
`checkpoint` are what the consumer made durable. A file is a sequence of bytes
from a small alphabet; the SHA-256 of the framed prefix is the sequence of
frames. The lines and records that a prefix or a file stands for are stated by rank
(the k-th record is the frame with k record frames up to it), which a proof can
unroll. `Receive` takes a chunk of any size up to `MaxChunk`, so every chunking
of every file is explored. `Change` replaces the files by another of `Revisions`
at any time.

### BatchPreparation

`files` are the rows of `llm_batch_files` with their lines, `file` is
`batch_file_uuid` of each request, `lock` the advisory lock together with the
batch row (always taken together). The transaction's own writes are `pending`
until `Committed`. Hosts (external) insert requests, claim them, put them back
and delete the batch; a row that a transaction has updated is locked, and so is
the batch row against the foreign key of an insert. Token counts, sizes and
`created_at` are functions of the request. `AssembleRow` is one turn of the loop
of `_assemble_payloads`, and `Assembled` folds it over the rows; what the loop
promises is stated apart from it, as `GreedyPartition`.

### Reconciliation

`ages` is the table in the order of `last_observed_at`; a stored observation
moves its row to the end. A job in `Broken` fails on every poll, so its row is
never observed again. `holds[w][j]` counts the grants of the advisory lock of `j`
that the session of host `w` has: such a lock is re-entrant in its session and
exclusive between sessions. A lock call that raises on a session that lives on
(`FailToAcquire`, `FailToRelease`) ends the pass and may leave a grant behind;
`unproven` counts these calls, and is read by the property only. Such a lock
makes other hosts defer the batch, and is re-entered by its own, until the
session ends: `LoseSession` ends it under a worker, which goes on with the
provider call it is in, and `ReplaceSession` between two passes in single flight.
A lock call that fails because the session is gone is `FailOnSession`.
Single flight is offered to the host and not built into the worker, so each pass
takes locks or does not, as `SingleFlight` allows. `StartPass` runs over the page
as loaded, or over a list in which the host repeats a job of `Prepended`.

### ProviderPolling

Time is an integer. A request takes from 0 to `ReqTimeout`, a sleep may end up
to `Lateness` late, and the status a poll returns is that of some moment of the
request. `effects` counts side effects of a POST at the provider.

### LogicalRecovery

`file` is the file system: content in chunks, whether it is owner-only, links,
ctime, whether it was synced, and the offset of its open description. `path`,
`fd`, `cleanup` and `child` say which file the artifact's path, the caller's
descriptor number, the package's duplicate and the child process refer to.
`phase` goes through `create_postgres_logical_backup`,
`inspect_postgres_backup_artifact`, `bind_postgres_recovery_receipt`,
`verify_postgres_recovery_receipt`, `verify_postgres_restore_target_isolation`
and `restore_postgres_logical_backup`, in the order that
`docs/doctoring/postgres-logical-restore.md` gives the operator; both long calls
may fail or be interrupted at any step, and be repeated. `report` is "failed" when
the call raised an error of the package or was interrupted inside
`subprocess.run`, whose handlers clean up; it is "interrupted"
(`InterruptBackup`) when the interrupt came elsewhere, where nothing does. A digest is the sequence it was computed from. Every
change to a file moves its ctime, as POSIX says; a clock too coarse for that is
not modelled. `history` records what no single state shows, and is read by the
properties only.

Three limits of the code are preconditions of the properties. Truncation and
rewind are a best effort, and each may fail (`lost`). An interrupt while the dump
is finalized leaves it whole and not rewound, so an interrupted call promises
nothing; a later call that succeeds still leaves exactly one dump. And a
descriptor number that is replaced and put back (`swaps` above 1) cannot be seen
by comparing two `fstat`s.

### ConfigStore and GatewayClient

`config[k]` is the sequence of versions that row `k` has had; the last one is the
row, the others exist for the properties. `process[p]` is the configuration
store of a process, with its cache; every statement is a step, except that
`_ensure_table` is part of `StartStore` and the one declared key stands for the
loop of `_ensure_defaults`. A secret is its plaintext (a number that grows with
each rotation) and the Fernet key it was encrypted with; decoding with the wrong
key or flag fails or gives garbage (`Decoded`). A process uses its store from one
thread.

`task[t].frames` is the stack of public methods a task is inside. A credentials
lookup (`LookUpAlias`, `LookUpBaseUrl`, `LookUpSecret`) does not await, so no
other task runs between its statements, but other processes do. `depth` is the
context variable in the task's own context. `balance` counts, for each operation
and outcome, the host's calls that ended so, less the measurements.
`wait_for_batch` and `download_results` call `get_batch_status`, and each file of
a download looks its credentials up again. The provider's answer is any
(`Respond`); the retry loop is `ProviderPolling`'s.

## Runs

| Run | Checks | Bounds and why they are enough |
|---|---|---|
| `lifecycle_honest` | TypeOK, OrderUsedOnce, ProjectionIsBacked, SuccessIsCovered, PollAfterFinishSettles, NothingForgotten | 2 clients, 4 orders, 1 request: create, poll, cancel and a late poll overlap; more clients add only further late observations, which the theorems cover |
| `lifecycle_untrusted` | KnownProgress, TerminalStamped, TerminalIsFinal, ImplementsProjection | 3 orders; counts 0..1 with `IntMax` 1, so that the sum overflows; two terminal statuses and an open one |
| `apply_deployments` | TypeOK, ExactlyOnceOnSnapshots, EffectAtomicWithCheckpoint, CheckpointFollowsStream, EveryRecordAcknowledged | 2 hosts, 3 records of which 2 are in the result file, 2 versions that share 1 record, 2 faults; READ COMMITTED, REPEATABLE READ, and direct saves at the weaker level |
| `apply_double_effect` | EffectExactlyOnce (violated) | 2 hosts, 1 record, no fault, READ COMMITTED |
| `prepare_race` | PreparedAsRead, EachRequestOnce, CallersAgree, TotalsMatchFiles, PreparedOnce | 2 callers, a pool of 5 requests of 2 models of which 3 are queued at a time, each of the token, byte and record limits broken by some choice of them and by no other limit first, ties of `created_at`, one ready file so that files go over it, an override that makes a request oversize |
| `prepare_liveness` | CallReturns | 2 callers, 2 requests, files of one record |
| `reconcile_passes` | LocksAreOwned, PassAccountsForAll | 2 hosts, 3 jobs of which 1 always fails and 1 has no files, page, budget and scan limit 2, lists with a repeat so that saturation happens, and one fault: a session lost, a worker interrupted, a call of the provider or of the lock that fails. That a scan goes on behind a repeat takes a scan limit above the budget, and is left to the theorem `PassAccounting` |
| `reconcile_retrieval` | EveryResultRetrieved | the same hosts, jobs and faults, in single flight (the case in which a host may be kept from a batch) and over pages as loaded |
| `polling_calls` | NeverReplayed, RetryAfterIsHonored, OverrunIsBounded, TimeoutIsFresh, CallEnds | 3 attempts, Retry-After below, at and above the maximum, batches that finish before, at and after the deadline, or never |
| `stream_resume` | ChunkingIsInvisible, StreamIsBounded, AckedIsCheckpointed, CheckpointIsContinued | every file of up to 5 bytes over data and newline, and some with carriage returns, with a malformed line or too long; chunks of 1 to 3; each limit reached by some files; 12 revisions that follow one another at any time |
| `recovery_drill` | BackupAllOrNothing, RestoreIsTheArchive, ReceiptNamesTheTarget | 2 files, a dump of 2 chunks and a size limit of 3, so that a write may be inside, at or behind the end; 2 backup and 2 restore calls; 3 changes by others, enough to replace and put back and change once more |
| `gateway_rotation` | SettingsAgree, KeyIsTheSecret, OneGatewayPerTask, MeasuredOnce | a client and an operator process, 2 tasks with 3 calls between them, 2 starts, 2 writes, 2 Fernet keys, 2 acceptable URLs and a bad one, 2 polls per wait: a move of the gateway or a rotation by another key between any two statements of a lookup, and overlapping nested calls |

What they show. The table may be read at any moment: whatever overtakes what, a
row is what some answer of the provider said, with everything earlier answers
established (`lifecycle_*`). A consumer may be replaced at any moment, at
REPEATABLE READ without repeating an effect (`apply_deployments`). A preparation
may be delivered twice (`prepare_*`). A pass may overlap with another, and a
failing batch starves others only when such batches fill the page
(`reconcile_*`). A call ends within a bound that does not depend on the provider
(`polling_calls`), and neither chunking nor a change of the files shows in what
a consumer has acknowledged (`stream_resume`). A backup, a receipt and a restore
can be believed when they report success, although nothing locks the file
(`recovery_drill`). Gateways and keys may be changed under a running client, with
one exception: a task that started on the common `base_url` moves to its alias's
own URL as soon as an operator adds one, because a missing row is not cached
(`gateway_rotation`).

Every behaviour of the lifecycle runs ends when the orders are used up, that of
the drill with the restore or a refusal, and that of the gateway when calls,
starts and writes are used up, so those runs do not check for deadlock; all
others do.

Symmetry is used only in runs without liveness properties, over workers, clients, times, tasks,
Fernet keys and acceptable URLs, none of which a definition tells apart. The constants that
bound behaviours appear in guards: `MaxOrder`, `MaxFaults`, `MaxQueued`,
`MaxTampers`, `MaxBackups`, `MaxRestores`, `MaxSets`, `MaxStarts`, `MaxCalls` and
`MaxPolls`. In `GatewayClient` the returns of a task touch no store, and steps of
the stores are not placed between them.

A module's `TypeOK` is listed by the lifecycle and application runs; the others
prove it, as a part of their inductive invariant.

### Disagreements between documents and code

- `apply_double_effect`: committing effect and checkpoint in one transaction is
  documented as exactly-once, but the predecessor is loaded without a lock and
  an identical durable checkpoint counts as a repeat, so under READ COMMITTED
  (PostgreSQL's default) two hosts both commit the effect. Under REPEATABLE READ
  it is exactly-once: `ExactlyOnceOnSnapshots` of `apply_deployments`.

Two more were met while reading, and no run states them. A response without a
status is documented to map to `unknown`
(`docs/doctoring/durable-lifecycle-field-contract.md:14`), but
`durable_client.py:214` sends the text `unknown` to a recorder that refuses it,
after the provider has created the batch. And the docstring of
`create_postgres_logical_backup` (`postgres_logical_backup.py:244`) says that
descriptor substitution leaves the replacement file alone; a number replaced
before it is duplicated or before pg_dump starts sends the dump into the
replacement. `BackupAllOrNothing` therefore speaks of the inspected file only.

### Fairness

- `ResultApplication`: weak fairness of each host's next step; faults are owed
  nothing and are bounded. A running process executes, and PostgreSQL resolves
  lock waits.
- `BatchPreparation`: weak fairness of a call that has started, and strong
  fairness of taking the lock, because PostgreSQL queues lock waiters; hosts
  that enqueue and faults are not fair.
- `Reconciliation`: weak fairness of each host's pass and of the provider
  finishing a batch, and strong fairness of passes over the page as loaded: a
  host that repeats a job in every list it passes could fill its scan with it.
  The host owns scheduling, and retrieval is promised only while it keeps
  scheduling. That a session ends is not assumed: a host whose session kept a
  lock re-enters it.
- `ProviderPolling`: weak fairness of the event loop's steps.

## Proofs

Every theorem holds for every value of the constants that the assumptions admit:
any number of clients, hosts, tasks, jobs, files, bytes and records, and every
limit. The passing runs check 40 properties (two modules both list a `TypeOK`), of which 36
are safety properties; all of these are theorems.

| Module | Theorem | Property |
|---|---|---|
| `RemoteBatchLifecycle` | `TypeCorrect` | `TypeOK` |
| | `ProgressStaysConsistent` | `KnownProgress` |
| | `StampMatchesStatus` | `TerminalStamped` |
| | `OrdersAreUnique` | `OrderUsedOnce` |
| | `TerminalIsFinalHolds` | `TerminalIsFinal` |
| | `NothingForgottenHolds` | `NothingForgotten` |
| | `Refinement` | `ImplementsProjection` |
| | `ProjectionBacked` | `ProjectionIsBacked` |
| | `SuccessCovered` | `SuccessIsCovered` |
| | `FinishSettles` | `PollAfterFinishSettles` |
| `ResultApplication` | `TypeCorrect` | `TypeOK` |
| | `ExactlyOnce` | `ExactlyOnceOnSnapshots` |
| | `EffectAtomicity` | `EffectAtomicWithCheckpoint` |
| | `CheckpointMonotonic` | `CheckpointFollowsStream` |
| `ResultStream` | `DurableIsExact` | `AckedIsCheckpointed` |
| | `Bounded` | `StreamIsBounded` |
| | `CheckpointContinues` | `CheckpointIsContinued` |
| | `ChunksNeverShow` | `ChunkingIsInvisible` |
| `BatchPreparation` | `PreparedAsReadHolds` | `PreparedAsRead` |
| | `EachRequestOnceHolds` | `EachRequestOnce` |
| | `CallersAgreeHolds` | `CallersAgree` |
| | `TotalsMatchFilesHolds` | `TotalsMatchFiles` |
| | `PreparedOnceHolds` | `PreparedOnce` |
| `Reconciliation` | `LockOwnership` | `LocksAreOwned` |
| | `PassAccounting` | `PassAccountsForAll` |
| `ProviderPolling` | `Replays` | `NeverReplayed` |
| | `RetriesHonorGuidance` | `RetryAfterIsHonored` |
| | `Overrun` | `OverrunIsBounded` |
| | `FreshTimeouts` | `TimeoutIsFresh` |
| `LogicalRecovery` | `BackupIsAtomic` | `BackupAllOrNothing` |
| | `RestoreIsFaithful` | `RestoreIsTheArchive` |
| | `ReceiptIsBinding` | `ReceiptNamesTheTarget` |
| `GatewayClient`, `ConfigStore` | `SettingsAreShared` | `SettingsAgree` |
| | `RequestsCarryTheKey` | `KeyIsTheSecret` |
| | `GatewayIsStable` | `OneGatewayPerTask` |
| | `MeasurementsBalance` | `MeasuredOnce` |

In addition the modules prove their inductive invariants (`Invariance`,
`HonestInvariance`, `LinesInvariance`) and, where no run lists it, `TypeOK`
(`TypeCorrect`); `BatchPreparation_proofs` also proves that only a queued and
unassigned request is ever given to a file (`AssignedWhileQueuedHolds`). Each
inductive invariant was model-checked on the instance of its module before it
was proved. Each proof has one step or lemma per action, and the last step
combines them with the temporal prover.

### What the invariants add to the properties

**`RemoteBatchLifecycle`.** `IInv` adds two parts to the properties.
`RowsReserved` says that no row has an order above the sequence: without it a
fresh order could equal a stored one. `TargetExists` says that a poll or a
cancellation in flight has a batch at the provider: without it the answer need
not be typed. `Persist` is the only action that touches a row, and rests on
lemmas about `Upsert` (what it keeps, merges and refuses). The refinement shows
that a step either stutters or is `Discover`, `Observe` or `Enrich` of one key.

The last three theorems of the table have the hypothesis `HonestProvider`, the
constant that switches the provider: none of them is true of a provider that
answers anything. `HInv` says that the provider's objects count consistently
(`ProviderSound`), that answers in flight and rows are about the right batch and
not ahead of it (`AnswersBacked`, `RowsBacked`), and three facts about batches
that were terminal when an operation was reserved: they stay so
(`SettledStays`), later operations find them so too (`SettledInOrder`), and so
do rows with a later order (`NewerRowsSettled`). The last two are what makes
`PollAfterFinishSettles` inductive: a poll may be overtaken, but only by
operations that saw the terminal status as well.

**`ResultApplication`.** `Knows` says that a host's predecessor is in the durable
checkpoint's past and on the stream it reads, with the exception the code has: a
transaction may load a predecessor that has overtaken its record. `Applies`
says that a host that only applies never skips a record and, on a snapshot, that
the predecessor it knows is the snapshot's. `Saved` says which of the cases of
the compare-and-swap the lock holder went through; the one that counts an
identical checkpoint as a repeat is impossible on a snapshot, which is why
REPEATABLE READ is exactly-once and READ COMMITTED is not.

**`ResultStream`.** `Counted` ties the two budgets to the frames that were
hashed, and `Continues` says that a stream which has matched its checkpoint has
hashed a continuation of it and has read the records the consumer acknowledged,
and one more while it is being yielded. The lemmas about ranks (`PositionsGrow`,
`RankedExists`, `RecordsGrow`) say what one more frame does to the records of a
prefix.

`ChunkingIsInvisible` needs a second invariant, `LinesInv`, on top of the first.
With `Taken` the bytes received less the buffer, `Reads` says that the buffer is
the bytes behind `Taken`, that `Taken` is at the end of a line, and that the
lines hashed are the lines of the file that start before it; where the chunks
ended does not occur in it. `NextLineIs` shows that what lies between `Taken` and
the next newline (`CutLine`) or the end (`FinalLine`) is the line of the next
rank. `Framed` adds that the error file is hashed behind the whole output file,
and `Whole` that a file behind the reader was hashed to its last line, while
nobody has replaced the files. At the end of the stream that gives every record
of both files.

**`BatchPreparation`.** `LockInv` ties the lock to the one call that is
persisting. `Assembles` says that a call has read each request once and that its
parts are the greedy partition of what it read, `Writes` that what its
transaction has written are the first of these parts and that their requests are
still queued and unassigned, and `Answers` what a call that has returned knows of
the files. `NoneAssigned` says that no request is assigned in a batch without
files: without it a commit could find a request with the number of one of its
own parts. The proof has three layers: folds (`FoldExists`, `FoldRun`,
`RunContinues` and `SeqInduction` say what a fold does with one element more);
operators (`AssembledGreedy`: for every limit, and rows of which none is too large
on its own, the packing is a greedy partition of them; `CategorizedSplit`: a
split by part_index is one by position; `TotalsOfParts`, `PartsDisjoint`); and
the actions, of which only a commit (`CommitStep`) changes the files.

**`Reconciliation`.** `Bounded` is the first half of `LocksAreOwned`, stated of one
host, and the last conjunct of `IInv` the second; a step of one host can disturb the
second only by a grant, which PostgreSQL makes to no one while another session holds
the key. `Balanced` adds to the accounts of a pass that a candidate
in flight is at the head of its list. That the list a pass starts with is
duplicate-free, within the budget and fully accounted for is a property of
`Scanned`, for every list a host could pass.

**`ProviderPolling`.** `OnTime` bounds the clock in every phase, attempt by
attempt; `Waking` relates the sleep to the provider's wish, `Accounting` the
transmissions to the attempts, and `Fresh` says that a status which was not
complete is at most one request old.

**`LogicalRecovery`.** All arguments rest on one lemma, `FileSteps`: every step
that changes a file moves its ctime. `Hashing` and `Restoring` can therefore say
what was read "unless the ctime has moved", which is what the second `fstat`
compares. `Dumping` follows the three ways in which the descriptor number is used
and says where the dump can be with no, one or more replacements; `Quiet` carries
the receipt's digest from the verification to the restore; `Isolation` says that
the cluster restored into is the one that was found isolated.

**`GatewayClient` and `ConfigStore`.** `CachesOK` says that a cached value is
what the version a process knows stands for, `SecretOK` that the flag in the row
is true of its cell, `Located` which gateways the statements of a lookup can
still end at, and `Measured` that the depth in a task's context is set exactly
inside a method, whose outermost frame alone is measured.

### Assumptions

The assumptions are those named in the modules (`ConstantsAssumption`,
`ClientAssumption`, `NullAssumption`): constants have their types, limits that
the code validates to be positive are, a batch has finitely many requests, and NULL
is not a value of another kind. TLC evaluates them in every run of the module. No
other fact is assumed.

### How the definitions serve the proofs

The induction theorems of the library take an operator, which the provers cannot
instantiate. Lemmas that need induction over numbers are therefore proved by
minimal counterexample (`LeastElement`), and induction over a list is stated with
a set instead of an operator (`SeqInduction`: a set of sequences that contains the
empty one and is closed under appending contains all of them). Operators that walk
over a list are written in one of two ways that this serves. Where the code
accumulates, they are folds (`Packed`, `Categorized`, `Total` of
`BatchPreparation`), and a fold is shown to be the last of a run of intermediate
values. Where a property selects from a list (`RecordsIn`, `LinesOf` and `Lines` of
`ResultStream`, `Scanned` and `Observed` of `Reconciliation`, `FallbackDelays` of
`ProviderPolling`) they are stated declaratively, by positions and ranks.

### Only model-checked

- All liveness: `EveryRecordAcknowledged`, `CallReturns`, `EveryResultRetrieved`
  and `CallEnds`. The prover does not treat fairness.
- The property that the code violates, `EffectExactlyOnce`.

## Not modelled

Evidence documents (receipts as JSON, catalog acceptance, physical recovery,
release evidence) are validated by pure functions of their arguments; health
probes, data classes and argument parsing keep no state that an operation could
corrupt. Spans are left out, measurements are not. The schema migration and the
decommissioning of the retired pg_cron job are one-shot DDL under PostgreSQL's
catalog locks. Token counting is a parameter of preparation. Identifier and URL
syntax, row-level security and the redaction of error messages are checks of
single values, which tests reach. Two hazards have no property: an uploaded file
whose batch was never created, and a pg_dump that outlives its killed caller. The
code keeps nothing that it could recover from, so there is no promise to state.

## Plan

What could be added:

1. Compose, if instances allow: `ResultStream` with `ResultApplication`, where
   the consumer of the first is a host of the second, and `Reconciliation` with
   `RemoteBatchLifecycle`.
2. State `BatchPreparation` as a refinement of a one-step preparation, from the
   invariant that is proved.

## Running

    tlc -workers 2 -config RemoteBatchLifecycle_honest.cfg MCRemoteBatchLifecycle
    tlapm RemoteBatchLifecycle_proofs.tla

and so on for the other configurations (`<module>_<run>.cfg` with `MC<module>`) and the
other `*_proofs` modules.
