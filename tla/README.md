# TLA+ models of ElasticRelay

ElasticRelay copies tables and collections of MySQL, PostgreSQL and MongoDB into
Elasticsearch: an initial snapshot first, then the change stream of the source
(binlog, logical replication, change streams).  This directory holds models of
its concurrent parts, the TLC configurations that check them on small
instances, and theorems checked by TLAPS.

To check: `tlc -config Dlq.cfg MCDeadLetterQueue` (every run is listed in
`PROJECT.json` with its module and cfg), `tlapm DeadLetterQueueProofs.tla`.

## 1. Inventory

| Component (under `src/`) | State | Operations | Works with | Hard | Correct when |
|---|---|---|---|---|---|
| Dead letter queue, `internal/dlq/dlq.go` | map of items (status, retry count, time of last attempt), `dlq_items.json` | add, retry loop, discard, clean up, load, save | fed by jobs, retries through the sink, swept by the orchestrator | lock released during a retry; whole file rewritten; errors of the disk ignored; two managers on one file; crash in mid-retry | nothing accepted is lost, retries bounded, settled items stay settled, file follows memory |
| Job: CDC pipeline, `internal/orchestrator/multi_orchestrator.go` | channel, batch, checkpoint in memory and on disk | read, batch, transform, write, park, checkpoint, restart | connectors, transform service, sink, dead letter queue | three goroutines, a mutex that does not cover the event in hand, acknowledgement before the write | order kept, checkpoint only over handled events, nothing lost |
| Parallel snapshot, `internal/parallel` | task and chunk channels, chunk status, retry count | split, take, copy, retry, stop | started by the job, which waits for it | workers and retry goroutines, channel at its limit, uneven ranges | every row copied, no chunk lost or copied twice at a time, the job goes on |
| Job start, same file and `cmd/elasticrelay/main.go` | checkpoint file, configuration | decide on the initial sync, snapshot, hand over | connectors, sink | changes during the snapshot; a crash in a copy; the server of another source | no gap between snapshot and stream, or a known one |
| Elasticsearch sink, `internal/sink/es/es.go` | bulk indexer per call, known indices | BulkWrite, index creation | called by jobs and retries at the same time | two workers, early return with the indexer running, partial failure | success means written, failure means retryable |
| PostgreSQL connector, `internal/connectors/postgresql` | publication, slots, LSN file; parser's buffer and relations | start, clean up, parse WAL, acknowledge, save LSN | server, job | slots of other jobs, one file for all jobs, messages in pieces, what a message does not carry | slot kept while needed, position never ahead, every change decoded |
| MySQL connector, `internal/connectors/mysql` | stream position, table map, checkpoint file | start, decode, snapshot, commit | server, job | resume position | resumes where it stopped |
| MongoDB connector, `internal/connectors/mongodb` | resume token, checkpoint file | snapshot by cursor or chunks, change stream | server, job | documents that come and go between chunks, update lookup, `_id` types | a finished copy is complete, the stream converges |
| Connector manager, `internal/connectors/manager.go` | connectors, active jobs | register | orchestrator | none after start-up | not modelled, see section 7 |
| Transform service, `internal/transform` | rules | match, filter, map, convert, mask, compute | called by jobs | order of the stages, shared nested maps, errors in mid-stream | an event is changed as configured, a masked value does not leak |
| Configuration, `internal/config` | two files, copies in memory, watcher, event channel | load, save, add, remove, watch, synchronise | users, callers (main loads only) | synchronisation triggered by its own writes, stale copies, a channel its reader fills | no source is lost, both files converge |
| Legacy orchestrator, logger, version, generated gRPC code | | | | | not modelled, see section 7 |

Interactions: a job calls its connector's `Start`, which calls back `Send` for
every event; `Send` fills the channel `cdcEvents`; the batch processor calls the
transform service and the sink over gRPC, hands refused events to the shared
dead letter queue, and saves its checkpoint through the connector service.  The
dead letter queue calls the job's sink again from its own goroutine.

`PROJECT.json` lists the hazards of this code, line by line, with the properties
that cover each.

## 2. Modules

| Module | Models |
|---|---|
| `DeadLetterQueue` | `DLQManager`, and what `MultiOrchestrator` does with it |
| `LetterBox` | abstract: what a dead letter queue promises about the letters it has on disk |
| `CdcPipeline` | the change stream of one `MultiJob` |
| `AtLeastOnce` | abstract: what the checkpoint of a job promises |
| `IdChunks` | the arithmetic of `createIDBasedChunks` |
| `ParallelSnapshot` | `ParallelSnapshotManager`, its workers, and the job waiting for it |
| `JobStart` | a job from the start of the process to its change stream |
| `PgSlots` | publication, slots and checkpoint file of several PostgreSQL jobs |
| `EventData` | the values of an event's data, as the connectors, the engine and the sink tell them apart |
| `Expression`, `TransformRules` | the rule engine, as operators on the data of one event |
| `EventPath` | composes source log, WAL parser or binlog handler, transform engine (a parameter) and index |
| `TransformPath` | `EventPath` with `TransformRules` as its engine |
| `BulkSink` | `BulkWrite` called by a job and by the dead letter queue |
| `MongoConnector` | snapshot and change stream of the MongoDB connector |
| `ConfigSync` | the two configuration files, their copies, the watcher |
| `MC*` | instances for TLC |
| `DeadLetterQueueProofs`, `CdcPipelineProofs`, `ParallelSnapshotProofs`, `JobStartProofs`, `BulkSinkProofs`, `MongoConnectorProofs`, `ConfigSyncProofs` | theorems about the module they are named after |
| `SourceProofs` | theorems about `PgSlots` and `EventPath`: what lies between a source and its job |

What one module takes as a step of another is that module's subject: a retry of
`DeadLetterQueue` is a call of `BulkSink`; the write of `CdcPipeline` is one
batch of it, written in any order, in part, or late; channel, batch and hand of
`CdcPipeline` are one queue in `JobStart`, whose parallel copy is
`ParallelSnapshot`; a received change is the end of `PgSlots`.

**DeadLetterQueue.**  Items are numbered in the order they are added.  `items`
and `indexed` are the map of each manager, `file` is `dlq_items.json`, `queue`,
`inflight` and `result` are where the retry loop is, `listed` and `doomed` where
the orphan sweep is.  `AddFailedEvent`, `DiscardItem` and `CleanupResolved` are
one action each, as the code holds the lock throughout and saves before it
returns.  A retry is four actions, because `processRetryBatch` unlocks after
collecting and `retryItem` unlocks while it calls the sink: `ProcessRetryBatch`,
`BeginRetry`, `CallRetryFunc`, `FinishRetry`.  The orphan sweep is three for the
same reason.  A save may fail, which the code logs and ignores, and the file may
be unreadable at a start, which the code takes for no file (`DiskFails`,
counted by `diskErrors`).  An event has a `part` no code reads: the rows of one
MySQL RowsEvent share their position, and their key too when the table's
metadata names no primary key.  `Managers` is 2 when the configuration has a
`dlq_config` section: `LoadConfiguration` then starts a second manager on the
same file without stopping the first.

**CdcPipeline.**  The log is 1, 2, 3, ...; an event's checkpoint is its number.
`reader` is the goroutine in `startCDC`, `queue` the channel, `hand` the event the
processor has received and not yet appended, `batch` and `phase` the state of
`flushBatch`.  A flush is six actions, one per call that another goroutine or a
crash can come between: transform, write (accepted or refused), park each event,
set the checkpoint, save it.  `Source` selects what `startCDC` does for a
connector type.  `delivered`, `parked` and `skipped` record what became of events;
an event is *handled* when it is in one of them.  The sink writes an accepted
batch in any order, for its two workers share the items out; a refused one it
writes in part, and the rest may stay with an indexer that goes on (`late`) and
writes it after its events were parked (`LateWrite`).  `requests` and `rewritten`
are history: which events one call has written, which documents a retry or a left
indexer wrote last.  The dead letter queue, if there is one (`HasDLQ`; without it
a refused batch is only logged: `LoseFailedEvents`), appears by what the pipeline
sees of it: it refuses an event whose key (`KeyOf`) is that of one it has, retries
write an event and may or may not remove it, items are given up.

**ParallelSnapshot.**  One goroutine splits tables (`ProcessTableTask`,
`SendChunk`), workers take and copy chunks (`TakeChunk`, `CompleteChunk`,
`FailChunk`), a retry goroutine puts a chunk back (`RequeueChunk`).
`MonitorTick` is `monitorParallelProgress`, which the job waits for.

**JobStart.**  `pc` is where `run` is.  `Conf` has the job's options and, because
`main` registers the connector server of the first data source for all jobs, that
source's type and whether it is the job's own.  `doc` is the index, `entry` the
job's entry in `checkpoints.json`, which a crash may tear.  A copy of a table may
end early without an error (`SnapshotShort`: a table that cannot be read, or a
MySQL cursor that breaks, for `rows.Err()` is not asked), or copy a table of the
same name of another database (`SnapshotForeign`).  In the stream a change is
received, acknowledged to the server and written by three actions (`Receive`,
`Acknowledge`, `Handle`); `flight` has what is received and not written, which a
crash, or the end of a PostgreSQL stream with its reset of the buffers
(`StreamEnds`), drops.  What explains a document that is behind is recorded when
it happens and not when it shows: `unwatched` at the commit of a change while no
stream was up and no slot keeps it, `dropped` when memory is lost whose changes
nobody will send again, `unread` and `interrupted` when a copy ends early.

**PgSlots.**  Every SQL statement is an action, so that statements of two jobs
interleave: reading, creating and altering the publication, listing and dropping
old slots, checking and creating the job's own, copying, verifying, streaming.
`CommitCheckpoint` is two actions (load, write), as each call makes a manager
with a mutex of its own.

**EventData, Expression, TransformRules, EventPath, TransformPath.**  Data is the
decoded JSON object with its nested maps by reference, as in Go; values keep the
Go type that the converters and `toBool` tell apart; numbers are rationals.
Evaluation follows the code's search for the first operator.  `EventPath` puts an
engine behind the sources (`EngineTransform`, a parameter, so that what does not
depend on the rules can be proved for every engine; `TransformPath` and the run
give it `Transform`): transactions write rows, the server sends a RELATION message
and the changes in pieces, `XLogData` fills the buffer and parses what is
complete, `StatusUpdate` and `PrimaryKeepalive` acknowledge, streams break
(`ConnectionBreaks`) and are opened again.  `ident` is what the log tells of a
row's key: PostgreSQL's REPLICA IDENTITY, or for MySQL whether
`binlog_row_metadata` has names and keys; without them columns are numbered
(`Unnamed`), the key is empty, and Elasticsearch makes up an id for each event.
Masking may fail, on an algorithm or a pattern it does not know (`valid`).  The
field `after` of the log's changes is history: the table as each change left it.
A message cut behind the marker of its new tuple is taken for a whole one by
`parseUpdate`; `Remainder` has it.  `excuse` records why the documents of a key
may differ from its row; the property is that nothing else does.

**BulkSink.**  A call receives events one by one, creates missing indices, adds
to the indexer's queue, closes it and waits.  Workers of the indexer (external,
modelled from how `BulkWrite` uses it) collect and send requests.  A call that
returns early leaves its indexer running (`left`).  Close counts failures, and
the failure callback is told of them (`told`); where a library counts one
without the callback, `bulkFailures[0]` (`es.go:274`) is an index out of range,
which is the end of the process (`Panic`).  `dead` is what the dead letter queue
holds and `tries` its retry counts: an event is refused there when its key is
queued, and its retries stop at `MaxRetries`.

**MongoConnector.**  A snapshot is by one cursor or by chunks, between ranges of
`_id` or by skip and limit; the collection changes meanwhile.  The stream reads
an update's document when the event is read, not when it happened.  `_id`
values have a BSON type, and are printed as the code prints them.

**ConfigSync.**  `LoadConfig` and `LoadMultiConfig` read until they succeed and then
never again (`sync.Once`, reset after a failure); the copies (`cfg`, `multiCfg`)
are refreshed by saves, not by edits of users.  A file may not parse
(`Broken`, `ok`), may have no source or sink that `convertMultiToLegacy` wants.
A synchronisation holds the service's mutex over its steps; it stops at an error,
but for the one of `LoadMultiConfig` that `syncConfigToMultiInternal` drops: then
it writes the migrated default source alone (`blind`).  Watch loop, debounce
timers, handler goroutines and event loop are separate processes, and
`SetAutoSync` switches the synchronisation off.  `Touch` lets a write get the
modification time of the other file.  `stale`, `unseen`, `touched` and `skipped`
are history: who is about to save something older than the file, whether a
user's edit is not in the copy (until a save makes them equal again), whether
anything was written since the start, whether the last change came with the switch
off.

Data is abstracted throughout: a document is known by the event it was last
written from, a row by its key, an item by the event it holds.  Time appears as
what it permits: a back-off elapses, a ticker fires, a sleep ends.

## 3. Runs

| Run | Result | What it shows |
|---|---|---|
| `dlq` | passes | one manager, one crash and one error of the disk anywhere.  Until the disk fails: the file follows memory, nothing accepted is lost, each item is tried at most `MaxRetries` times plus once per crash, `LetterBox` is implemented.  Also after that: no two unresolved items with one key, settled is final, every pending item is settled |
| `dlq_dedupe` | violated | PostgreSQL and MongoDB events: a later change of a row is refused while an earlier one is queued |
| `cdc` | passes | MySQL, sink failures, a stream failure, a crash; two changes of a row meet in a batch: order is kept, nothing is lost and no saved checkpoint is ahead until the process dies, a document is behind only by the order within one call, a retry or a left indexer, `AtLeastOnce` is implemented, every event of a stream that goes on is handled |
| `cdc_pg_restart` | passes | a failed PostgreSQL stream comes up again, also without dead letter queue |
| `cdc_mysql_resume` | violated | after a crash MySQL and MongoDB start at the end of the log |
| `snapshot` | passes | no chunk in two places, no retry dropped at the channel's limit, completed tables have all their rows, every chunk and table is settled |
| `job_start` | passes | every configuration of a job, crashes, ends of the stream and errors: with MySQL and MongoDB a copied document is behind only by a change made while no stream was up, or one in memory when process or stream ended; with PostgreSQL only by the latter; a table is not copied only for a known cause; every start without the parallel snapshot ends in a stream or an error |
| `pg_slots` | passes | two jobs with a common table start, break and crash: changes the server has not sent are lost only for a job whose slot another one's clean-up dropped (those sent and then dropped from memory are in `job_start`); streams have their slot and tables; entries of the file are the last commits unless commits overlapped or a write was torn; every job gets past what others left |
| `event_path` | passes | two rows under eight rule sets, two sources and their identities: documents follow rows but for the causes in `Excuse`; a masked value is in no document and no id in the clear, but for an event that went on after a failed call, a binlog without names, and the id under REPLICA IDENTITY FULL; computed fields have the usual value unless differences or quotients follow each other; every change is decoded unless it has no event |
| `bulk_sink` | passes | two callers, three indexers, one fault: success means written; retries of inserts and updates fail only for a fault or an index both callers create; documents go back only for retries, left indexers and batches with two events of a row; every queued event is accepted or has used up its retries |
| `mongo` | passes | both ways of copying, changes during the copy, restarts: a finished copy is complete and the stream converges, but for known causes |
| `config_sync` | passes | edits, also into files that do not parse, calls and synchronisations: sources are lost only through a stale save or a synchronisation that could not load what it replaces; the files come to agree but for the causes `EventuallyAgree` names |

The violated runs state what the repository's documentation and comments say;
`PROJECT.json` quotes the lines under `findings`.  Where a property names
exceptions, each of them is something the code does, at the line its hazard in
`PROJECT.json` names.

More of what the models show, by changing a constant:

- `Managers = 2` with `MaxCrashes = 2` breaks `AcceptedSurvive` and
  `RetryBudget`: the first manager overwrites what the second accepted, and both
  retry (`multi_orchestrator.go:184`).
- An item saved as `retrying` by another item's save is not retried after a crash
  (`dlq.go:187`): `PendingSettles` is about pending items only; stated for
  retrying ones too it fails.
- What `dlq_dedupe` shows has a second way with MySQL: two values in `Part` (rows
  of one RowsEvent without primary key metadata, `mysql.go:278`) break
  `RefusedOnlyIfQueued` with `HasBinlogPos = TRUE` too.  In `CdcPipeline`, MongoDB
  with `SinkFaults` loses the event.
- `TornWrites = TRUE` breaks `AcceptedSurvive`: `os.WriteFile` truncates first.
- After an error of the disk, which the code only logs (`dlq.go:135`), what was
  to be saved is in memory alone: without `diskErrors = 0` in them
  `AcceptedSurvive`, `RetryBudget` and `FileTracksMemory` fail.
- `Source = "postgresql"`, `MaxFailures = 1` breaks `NothingLost` (events
  acknowledged on receipt, `wal_parser.go:222`, and dropped by the reset) and
  `PipelineInOrder` (the event in hand survives the reset,
  `multi_orchestrator.go:600`).  The run `cdc` is about MySQL and does not show
  either; the first is an exception of `job_start`.
- `README.md:596` of the repository promises to resume from the position that
  was saved; `cdc_mysql_resume` shows that MySQL and MongoDB jobs do not.
- `TransformFaults = TRUE` breaks `SavedCovers`: after an error in mid-stream the
  partial answer is taken for the whole (`multi_orchestrator.go:720`).  The run
  `cdc` has no such faults; `event_path` has the failed call.
- The stream of a MySQL or MongoDB job is not started again after an error:
  `EventuallyHandled` speaks of runs without one.
- `monitorParallelProgress` waits for counters that are never set
  (`parallel/manager.go:432`): the change stream of a MySQL job with the parallel
  snapshot is not started, which is why `ReachesStream` leaves it out
  and says nothing about that case.
- `MaxChanges = 3` in `mongo` shows why `CopiedUnlessKnown` speaks of a job's
  stream, or of the time before a stream starts: a gRPC client may pass a token
  older than the snapshot, and then versions the copy has replaced are shown
  again until the stream has caught up (`StreamConverges`).
- In `ParallelSnapshot`, `Stop` with a sleeping retry ends in a send on a closed
  channel (`panicked`); nothing in this program calls `Stop`.

### Bounds

- `dlq`: two items are enough for one to be saved by the other's change, for a
  duplicate, and for one cleaned up while one is retried; two retries separate
  "last attempt" from "attempt before the last"; one crash between any two
  steps, one error at any read or write.
- `cdc`: batches of two and a channel of two over four events give a full batch,
  a partial batch, a full channel and one more event waiting; two changes of a
  row are in one batch or in two, as the ticker falls; one filtered event gives
  a batch that is filtered in part and one that is filtered out; one failure
  and one crash hit every state.  The theorems of section 5 remove these bounds
  for the safety properties.
- `snapshot`: two workers, one retry, a table of five rows cut into two chunks
  with a remainder, one table that fails to split, one that takes the
  other path; the channel holds what `Start` computes.
- `job_start`: two tables, so that a copy can stop between them; two changes, one
  before and one after a table's copy, or both received and not written; two
  crashes, one to cut a copy short and one to start again from what it left.
- `pg_slots`: two jobs, one with a table of its own and one common table; one
  change, one broken stream and one crash at any statement.
- `event_path`: two keys, so that a key can be changed to the other; up to three
  changes where a row's history matters (filters), fewer elsewhere (`Changes`);
  rows with a number-like text and a NaN; one fault.  The pieces of a message end
  inside a field, behind the marker, and at its end, which are the cases the
  parser tells apart.
- `bulk_sink`: four events with an insert, delete and insert of one row; two
  workers as in the code; three indexers: one of each caller and one left over;
  three retries, one more than the one fault and the one race for an index can
  use up.
- `mongo`: one to two documents of every pair of `_id` types that matters, two
  changes, one fault, chunks of one document.
- `config_sync`: the event channel holds one event instead of 100 and one handler
  goroutine runs at a time, so that full and empty are both reached; two edits,
  calls, switches or ticks; one pair of equal modification times; one source at
  first, and edits that leave out a sink, break the file or bring a second source.

Deadlock checking is off: the models stop when their counters are used up.

### Fairness

Weak fairness of each goroutine: Go's scheduler runs every runnable goroutine,
`select` serves a ready case, and calls to the sink end because they have a
deadline or an answer.  Failures, crashes, new events, edits, ticks and the stop
of a manager are never forced.  `dlq` also assumes that back-offs elapse and that
a supervisor restarts the process.  `job_start` and `pg_slots` assume that the
server ends the session of a client that is gone.  Strong fairness is assumed in
one place, where a goroutine waits for something that comes and goes: senders
waiting for room in the event channel (`config_sync`; Go serves blocked senders
in order).  `event_path` states the weak fairness of receiving with
`CanReceive` and `Receives` in place of `ENABLED`, which would evaluate the rules
once more in every state.

## 4. Refinement

`AtLeastOnce` has a log, a set of handled events and a mark that moves forward
only, over handled events only, within one start.  `CdcPipeline` implements it
with the handled events and `lastCp`; checked in `cdc`, proved below.
It implies `CheckpointCovers`: whatever of the present start lies up to the
checkpoint is handled.

`LetterBox` has numbered letters with event, tries and outcome.  A letter is
accepted unless one with its key waits, tried a bounded number of times, ends
resolved or exhausted for good, may be withdrawn, and is removed only if it is
resolved or withdrawn.  `DeadLetterQueue` implements it with `dlq_items.json`
as the box: `nextId - 1` letters are accepted, `discards` are withdrawn, and the
status gives the outcome (`Outcome`).  Because the box is the file, a crash is no
step of it, and neither is anything the retry loop does before `FinishRetry`
saves, although an earlier save of another item may have written the status
`retrying`.  A withdrawn letter has no outcome: when `DiscardItem` comes while the
item is with the sink, `FinishRetry` overwrites its status (`dlq.go:245`).
Checked in `dlq` and proved below for one manager and whole-file writes, without
which it fails as `AcceptedSurvive` does, and up to the first error of the disk:
a step on which the disk fails is no step of the letter box.

## 5. Proofs

**`DeadLetterQueueProofs`.**  `TypeCorrect` for every number of managers.  For
one manager (with two, `AcceptedSurvive` and `RetryBudget` fail, see section 3)
and until the disk first fails: `RetryBudgetHolds`, `FileTracksMemoryHolds`, and
with whole-file writes also `AcceptedSurviveHolds`; if it never fails,
`UnresolvedUniqueHolds` and `SettledIsFinalHolds`.
The inductive invariant is `diskErrors = 0 => SingleInv`: a step on which the disk
fails makes the left side false for good.  `SingleInv` adds to the properties:
unused item numbers are in no map, batch or file entry (`FreshInv`); file and
memory agree but for the item in `retryItem` (`FileInv`); an item in hand is
retrying or was discarded meanwhile (`StatusInv`); attempts are paid for by the
retry count, by the call in progress or by a crash (`CountedInv`); what was
accepted is in the map or the file (`KeptInv`); and uniqueness in the file too,
for it is what a crash returns to (`UniqueInv`).
`LetterBoxRefinement` follows from `SingleInv` too: while the process runs, the
map shows the same letters as the file (`LettersInMemory`), so that what an
action decides from the map it decides from the box, and each action accepts,
tries, withdraws or removes letters (`AcceptLetter`, `TryLetter`,
`WithdrawLetter`, `RemoveLetters`) or changes none.

**`CdcPipelineProofs`.**
- `TypeCorrect`: every source, every fault.  It needs that nothing is transformed
  before the transformation and that no flush runs while an event is in hand;
  otherwise the reset of the batch could leave indices behind.
- `PipelineInOrderHolds`: MySQL and MongoDB, every fault.  (With PostgreSQL the
  order is broken, see section 3.)  The invariant `OrderInv` says which events
  are in flight by position, relative to `Low`, the first of them.
- `CheckpointCoversHolds`, `Refinement`: MySQL and MongoDB, under `Lossless` (the transform service
  answers, and if the sink may fail, there is a dead letter queue and it tells
  the events apart, so that it refuses only what it already has).  `CoverInv`
  says that whatever lies below `Low` is handled, and how much of the batch is,
  phase by phase; `MarkInv` that the checkpoint is below `Low` until it is set.
- `SavedCoversHolds`, `LostOnlyByCrashHolds`: under `Lossless`, any number of
  crashes allowed, until the first one happens (`cdc_mysql_resume` shows what it
  does).
- `DocumentsCurrentHolds`: MySQL and MongoDB, every fault, any assignment of
  events to rows.  `DocInv` says that no document and no delivered, parked or
  late event has reached `Top`, from which on the sink may still write: with it
  the property is inductive.

**`ParallelSnapshotProofs`.**  `ChunksCover`, `ChunksDisjoint`, `ChunksWithin`:
the key ranges of a table cover every key from minimum to maximum, do not overlap
and are not empty, for every range, chunk size and limit.  `OnePlaceHolds`,
`NoRetryDroppedHolds`, `CompletedIsCopiedHolds`: any tables and key ranges, any
number of workers, any chunk size and limit.  That no chunk is in two places needs
that none is sent twice (`SendInv`: tables that wait have no chunks, the one being
split none from the next on) and that the status of a chunk tells where it is
(`PlaceInv`).  A retry finds room because all chunks of all tables, counted
without the one that is put back, are fewer than the channel holds.  Completed
tables are copied by `CopiedInv` and `ChunksCover`.

**`JobStartProofs`.**  `StaleOnlyIfMissedHolds`, `PostgresLosesOnlyInFlightHolds`,
`UncopiedIsExplainedHolds`: every list of tables, every set of configurations, any
number of changes and crashes.  None is inductive: that a document shows a
change says nothing about how the change got there.  `StageInv` ties the stage
of the job to its configuration and to what it has in memory, `PositionInv` says
that positions lie in the log and documents show changes of their own row,
`CoveredInv` says of every change of a copied table that the document shows it
or a newer one, that it is in flight behind whatever older change is, or ahead of
the stream, the slot and the checkpoint, or that it is recorded as unwatched or
dropped (but for tables a forced sync will copy again), and
`ExplainedInv` carries the causes of a missing copy from the copy to the stream.

**`SourceProofs`.**  Of `PgSlots`: `NoGapUnlessRobbedHolds`,
`StreamsWhatItAskedForHolds`, `EntryIsLastCommitHolds`: any number of jobs,
tables, failures and crashes. `PublishedInv` says what a job that has read the
publication still has to add, and that what others add meanwhile stays; `SlotInv`
that a stream holds its slot and nobody lists its own for the cleanup; `CoverInv`
that slot and start position of a job nobody robbed are not ahead of what it has
copied or streamed. Of `EventPath`: `DocsFollowRowsHolds`, for any keys and rows,
both sources and replica identities, any transform engine (what it makes of an
event depends on nothing but the event), any number of changes, failed calls and
broken streams, and every way of cutting a message that the parser tells apart.
The inductive invariant `PathInv` has the types (`PathTypeInv`); that every change
in the log leads from the table before it to the table after it (`LogInv`); that
the pieces sent in a session are the messages read and the buffer, or a message
cut at its marker and taken for a whole one (`ParserInv`); that documents have ids
of rows or ids Elasticsearch made up (`Ids`); and `Fit`: what is shown of a key
without an excuse follows the table *as some change from the last decoded one on*
left it, or an update of the key with its old image is still to come.  The
property itself is not inductive: after a reconnect changes are decoded again, and
the update cut at its marker writes the old image, so that the index is at times
ahead of what was decoded last and at times behind it.

**`BulkSinkProofs`.**  `AcceptedIsWrittenHolds`, `GoesBackOnlyIfKnownHolds`: any
events, batch size, number of indexers and faults.  `OwnerInv` ties a call to the
indexer it opened and to no other, which is what keeps a left indexer from
answering for a new call; `ReceivedInv` says that what a call received is
written or still with its indexer, unless that knows of a failure; `HandedInv`
that the batch of the change stream being written ends with the newest event, so
that what overtakes in it is in it.

**`MongoConnectorProofs`.**  `StreamConvergesHolds`, `CopiedUnlessKnownHolds`: any
finite set of `_id` values, any chunk sizes, any number of changes and faults.
For the first, `RecordsInv` says that the stream is off during a snapshot and
what the snapshot is about to send is not older than the stream's position, and
`PassedInv` that a document whose last change the stream has passed is shown as
it is.  For the second, `CopyInv` says that every document a snapshot owes is
copied or pending: in the scope of a chunk that waits, ahead of the cursor
within the chunk's limit, or in the records collected.  It needs that the
collection is still as it was counted when the chunks are planned (`PlanInv`),
that a cursor without a limit does not end early (`CursorInv`), that a record
holds the version the document had when the snapshot began, unless it has
changed since (`VersionInv`), and that a job's stream begins no earlier than its
snapshot (`JobInv`).

**`ConfigSyncProofs`.**  `LostOnlyIfKnownHolds`: any sources, callers, edits,
synchronisations and files that do not parse.  `MergeKeeps` is the fact about
`mergeConfigs` it rests on: no id of the present file is left out.  `CopyInv`
says that nothing is made from the copy of `multi_config.json` before it is read
and that it equals the file until a user edits that; `KeptInv` that what a call or
a synchronisation is about to save has all sources of the file but those to be
removed, as long as nobody else saves in between and the synchronisation is not
one that could not load the file.

Assumptions are the one `ASSUME` of each module, which says what its constants
are, and the hypotheses named above.  Of those that are more than types: in
`JobStart` a first source that is the job's own has the job's type;
`ParallelSnapshot` gets each table once; in `MongoConnector` the `_id` values of a
collection are told apart by MongoDB's order (the unique index), and numbers count
halves, so that an integer is even; in `ConfigSync` no caller has the name of the
synchronisation service; in `EventPath` every row has the columns `s`, `d` and
`v`, and no key is the empty text.

Only model-checked:

- everything about liveness (`PendingSettles`, `EventuallyHandled`,
  `StreamRestarts`, `ChunksSettle`, `TablesProcessed`, `ReachesStream`,
  `StartsWhenOthersRun`, `EventuallyDecoded`, `QueuedSettle`,
  `EventuallyAgree`), which the prover does not do;
- `RetriesFailOnlyIfKnown` of `BulkSink`;
- `NoRawSecret` and `ComputedAsUsual` of `TransformPath`: `Expression` evaluates
  by a recursive operator, which the prover does not take, and what it computes
  for every expression, and a list of rules makes of an event, would need
  induction over data.

## 6. What is left

- The chunks of the PostgreSQL snapshot (`CreateTableChunks` in
  `parallel_integration.go`) next to those of `IdChunks`: another way to cut the
  same key range, of which the same three lemmas would be stated.
- An abstract specification of the parallel snapshot (each chunk copied, then
  completed), refined by `ParallelSnapshot`.

## 7. Not modelled

- Byte formats of WAL and binlog messages; the text formats of dates, arrays and
  the other types of the type mapper; functions of expressions on texts and
  dates.  `EventPath` has one column of each kind the stages treat differently.
- Code nothing calls: `ShardedConnector`, the MongoDB `CheckpointManager` and
  `FlattenDocument`, LSN comparisons, unregistering data sources, stopping a
  job or a snapshot manager.  The `StartCdc` of the connector servers is called
  by no job; `MongoConnector` has MongoDB's, as the client `rpc`.
- Tables whose key is composite or not an integer: the parallel snapshot takes the
  first key column (`parallel/manager.go:331`) as the key.  In `ParallelSnapshot`
  a key is the value of that one column, which several rows may share.  What the
  model does not show is that the document's id is that value
  (`parallel/worker.go:229`), so that such rows overwrite each other.
- Connection pool and adaptive batch size of the PostgreSQL connector: neither
  decides what is copied.
- Migration of a configuration file at start-up; backups; several watchers; a
  file read while another process is in the middle of writing it.  `main` does not
  start the watcher: `ConfigSync` is about the package as it is offered.
- Connector manager, logging, version, gRPC registration, generated code; the
  legacy orchestrator, whose batch logic is a shorter form of `MultiJob`'s and
  which `main` does not start with several sources.
