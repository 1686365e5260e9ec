------------------------------ MODULE JobStart ------------------------------
(***************************************************************************)
(* A job from the start of the process to its change stream                *)
(* (internal/orchestrator/multi_orchestrator.go: CreateJob, run,            *)
(* needsInitialSync, performInitialSync, startCDC; cmd/elasticrelay/main.go *)
(* and internal/connectors for what it is wired to): whether it copies the  *)
(* tables, how a copy ends, where the stream then begins, and what a        *)
(* restart makes of a copy that was cut short.                              *)
(*                                                                          *)
(* Every table has one row, which exists from the beginning; change i of    *)
(* the source log rewrites the row of table log[i], and doc[t] is the       *)
(* change document t was written from, 0 for the original row.  Channel,    *)
(* batch and hand of the batch processor are one queue here (CdcPipeline    *)
(* tells them apart), and the sink takes every batch.                       *)
(***************************************************************************)
EXTENDS Integers, Sequences, FiniteSets

CONSTANTS
    Confs,       \* configurations of the job: records as in Conf
    TableSeq,    \* table_filters, in order
    MaxChanges,  \* bound: changes at the source
    MaxCrashes   \* bound: crashes of the process

Type == {"mysql", "postgresql", "mongodb"}

\* type: of the job's source.  first: type of the first data source, whose
\* connector server main registers for all jobs; own: whether that is the job's
\* source.  initialSync, force, useParallel: the job's options.
Conf == [type : Type, first : Type, own : BOOLEAN, initialSync : BOOLEAN,
         force : BOOLEAN, useParallel : BOOLEAN]

Tables == {TableSeq[i] : i \in DOMAIN TableSeq}
Absent == -1
Foreign == -2       \* a row of another database
NotLSN == -2        \* a checkpoint whose PostgresLsn is a binlog file name

ASSUME JobAssumption ==
    /\ Confs \subseteq Conf
    /\ \A c \in Confs : c.own => c.first = c.type
    /\ TableSeq \in Seq(Tables)
    /\ MaxChanges \in Nat /\ MaxCrashes \in Nat

VARIABLES
    conf,       \* the job's configuration
    log,        \* the source log
    doc,        \* doc[t]: the change document t shows, Absent without document
    pc,         \* run, sync, table, parallel, cdc, streaming or dead
    todo,       \* tables still to be copied
    lastCp,     \* PostgresLsn of j.lastCp, -1 if empty, 0 for other sources
    entry,      \* the job's entry in checkpoints.json: none, valid, or a torn file
    slot,       \* position of the job's replication slot, -1 without one
    active,     \* whether the server still streams from it
    next,       \* the next change the stream delivers
    flight,     \* received changes that are not written, in order
    crashes     \* crashes so far

\* History.
VARIABLES
    readAt,      \* readAt[t]: length of the log when t was last copied, -1 never
    unwatched,   \* changes made while no stream was up that keeps no slot
    dropped,     \* received changes lost in memory, with no redelivery
    interrupted, \* whether a copy ended early
    unread       \* tables whose copy the connector ended early, silently

source  == <<conf, log>>
lost    == <<unwatched, dropped>>
history == <<readAt, unwatched, dropped, interrupted, unread>>
vars    == <<conf, log, doc, pc, todo, lastCp, entry, slot, active, next, flight,
             crashes, readAt, unwatched, dropped, interrupted, unread>>

Version(t) == LET is == {i \in DOMAIN log : log[i] = t}
              IN IF is = {} THEN 0 ELSE CHOOSE i \in is : \A j \in is : j <= i

Init ==
    /\ conf \in Confs
    /\ log = <<>> /\ doc = [t \in Tables |-> Absent]
    /\ pc = "run" /\ todo = <<>> /\ lastCp = -1 /\ entry = "none"
    /\ slot = -1 /\ active = FALSE /\ next = 1 /\ flight = <<>> /\ crashes = 0
    /\ readAt = [t \in Tables |-> -1] /\ unwatched = {} /\ dropped = {}
    /\ interrupted = FALSE /\ unread = {}

\* A transaction changes a row at the source; only a slot keeps it for a stream
\* that is not up.
SourceChange ==
    /\ Len(log) < MaxChanges
    /\ \E t \in Tables : log' = Append(log, t)
    /\ unwatched' = IF conf.type # "postgresql" /\ pc # "streaming"
                    THEN unwatched \cup {Len(log) + 1} ELSE unwatched
    /\ UNCHANGED <<conf, doc, pc, todo, lastCp, entry, slot, active, next, flight,
                   crashes, readAt, dropped, interrupted, unread>>

-----------------------------------------------------------------------------
(* run: is an initial sync needed?                                         *)

\* targetSystemHasData: documents of the job's tables; an index that cannot be
\* described counts as empty.
HasData == {\E t \in Tables : doc[t] # Absent, FALSE}

\* hasValidCheckpoint: a file that cannot be read counts as one without an entry.
HasValidCheckpoint == entry = "valid"

ShouldForceInitialSync == conf.force

\* needsInitialSync
NeedsInitialSync(hasData) ==
    conf.initialSync /\ (ShouldForceInitialSync \/ (~HasValidCheckpoint /\ ~hasData))

\* initializeParallelManager succeeds for MySQL only, and is undone for
\* PostgreSQL.
Parallel == conf.useParallel /\ conf.type = "mysql"

\* Mutant of Run: the stream is started only after a sync.
RunOnlySync ==
    /\ pc = "run"
    /\ \E hasData \in HasData :
          IF NeedsInitialSync(hasData)
          THEN pc' = "sync" /\ todo' = TableSeq
          ELSE pc' = "returned" /\ UNCHANGED todo
    /\ UNCHANGED <<source, doc, lastCp, entry, slot, active, next, flight, crashes, history>>

Run ==
    /\ pc = "run"
    /\ \E hasData \in HasData :
          IF NeedsInitialSync(hasData)
          THEN pc' = "sync" /\ todo' = TableSeq
          ELSE pc' = "cdc" /\ UNCHANGED todo
    /\ UNCHANGED <<source, doc, lastCp, entry, slot, active, next, flight, crashes, history>>

\* The job's run returns; nothing starts it again before the next process.
Dies == pc' = "dead" /\ interrupted' = TRUE

\* ResetReplicationSlot drops the job's slot, if there is one; the server must
\* not stream from it any more.
CanReset == slot < 0 \/ ~active

\* performInitialSync: a forced sync of a PostgreSQL job first resets the slot.
PerformInitialSync ==
    /\ pc = "sync"
    /\ LET reset == ShouldForceInitialSync /\ conf.type = "postgresql"
       IN  IF reset /\ ~CanReset
           THEN Dies /\ UNCHANGED slot
           ELSE /\ pc' = IF Parallel THEN "parallel" ELSE "table"
                /\ slot' = IF reset THEN -1 ELSE slot
                /\ UNCHANGED interrupted
    /\ UNCHANGED <<source, doc, todo, lastCp, entry, active, next, flight, crashes,
                   readAt, lost, unread>>

-----------------------------------------------------------------------------
(* performSerialInitialSync: one BeginSnapshot per table, answered by the   *)
(* connector server of the first data source.                              *)

Copied(t) ==
    /\ doc' = [doc EXCEPT ![t] = Version(t)]
    /\ readAt' = [readAt EXCEPT ![t] = Len(log)]

\* CommitCheckpoint of the connector server: a MySQL one keeps checkpoints.json
\* and gives up when it does not parse, the others keep a file of their own,
\* which needsInitialSync does not read.  commitCheckpoint leaves out a commit
\* that follows another too soon.  hasValidCheckpoint of a PostgreSQL job asks
\* for an LSN.
CommitCheckpoint(position) ==
    entry' \in IF conf.first # "mysql" \/ entry = "torn" THEN {entry}
               ELSE {entry, IF position = NotLSN THEN "none" ELSE "valid"}

\* The checkpoint of the chunk is kept in lastCp and committed; an error of the
\* commit is logged.
ChunkCheckpoint(position) == lastCp' = position /\ CommitCheckpoint(position)

\* The slot BeginSnapshot of the job's own PostgreSQL server ensures.
EnsuredSlot == IF conf.type # "postgresql" \/ ~conf.own \/ slot >= 0 THEN slot ELSE Len(log)

\* The positions processSnapshotChunk may put into the checkpoint of a chunk: a
\* PostgreSQL job takes what the server sent for an LSN, whatever its type.
ChunkPositions ==
    IF conf.type # "postgresql" THEN {0}
    ELSE IF conf.own THEN {EnsuredSlot}
    ELSE IF conf.first = "postgresql" THEN 0..MaxChanges
    ELSE IF conf.first = "mysql" THEN {NotLSN} ELSE {-1}

\* BeginSnapshot of the next table: its own server must not find the slot in use.
Begins ==
    /\ pc = "table" /\ todo # <<>>
    /\ ~(conf.type = "postgresql" /\ conf.own /\ active)
    /\ slot' = EnsuredSlot
    /\ todo' = Tail(todo)

\* BeginSnapshot at the job's own source.
SnapshotTable ==
    /\ conf.own /\ Begins
    /\ \E p \in ChunkPositions : ChunkCheckpoint(p)
    /\ Copied(Head(todo))
    /\ unread' = unread \ {Head(todo)}
    /\ UNCHANGED <<source, pc, active, next, flight, crashes, lost, interrupted>>

\* BeginSnapshot at another database, which has a table of that name.
SnapshotForeign ==
    /\ ~conf.own /\ Begins
    /\ \E p \in ChunkPositions : ChunkCheckpoint(p)
    /\ doc' = [doc EXCEPT ![Head(todo)] = Foreign]
    /\ readAt' = [readAt EXCEPT ![Head(todo)] = -1]
    /\ UNCHANGED <<source, pc, active, next, flight, crashes, lost, interrupted, unread>>

\* A copy ends before the row and counts as complete: the cursor breaks, which
\* no server asks after its last Next, or the PostgreSQL or MongoDB server logs
\* that it cannot read the table.  Other rows may have come before.
SnapshotShort ==
    /\ Begins
    /\ \/ UNCHANGED <<lastCp, entry>>
       \/ \E p \in ChunkPositions : ChunkCheckpoint(p)
    /\ unread' = unread \cup {Head(todo)}
    /\ UNCHANGED <<source, doc, pc, active, next, flight, crashes, readAt, lost,
                   interrupted>>

\* The call fails (no connection, a slot in use, a table a MySQL server does not
\* have), or the sink refuses a chunk: the sync and the job end.
SnapshotFails ==
    /\ pc = "table" /\ todo # <<>>
    /\ Dies
    /\ UNCHANGED <<source, doc, todo, lastCp, entry, slot, active, next, flight, crashes,
                   readAt, lost, unread>>

\* Mutant of SnapshotDone: the loop stops one table early.
SnapshotDoneEarly ==
    /\ pc = "table" /\ Len(todo) <= 1
    /\ pc' = "cdc"
    /\ UNCHANGED <<source, doc, todo, lastCp, entry, slot, active, next, flight, crashes, history>>

SnapshotDone ==
    /\ pc = "table" /\ todo = <<>>
    /\ pc' = "cdc"
    /\ UNCHANGED <<source, doc, todo, lastCp, entry, slot, active, next, flight, crashes, history>>

\* performParallelInitialSync: the workers (ParallelSnapshot) copy the tables
\* and commit no checkpoint, and monitorParallelProgress does not return.
ParallelCopy ==
    /\ pc = "parallel" /\ todo # <<>>
    /\ Copied(Head(todo))
    /\ todo' = Tail(todo)
    /\ UNCHANGED <<source, pc, lastCp, entry, slot, active, next, flight, crashes,
                   lost, interrupted, unread>>

-----------------------------------------------------------------------------
(* startCDC.                                                               *)

\* Mutant of StreamFrom: the position of the checkpoint is not passed on.
StreamFromEnd(s) == Len(log)

\* The last change the stream does not deliver: startCDC passes no checkpoint to
\* the MySQL and MongoDB connectors, which begin at the end of the log.
StreamFrom(s) ==
    IF conf.type # "postgresql" THEN Len(log)
    ELSE IF lastCp > s THEN lastCp ELSE s

\* The connector's Start: with PostgreSQL, after the slot is free, from a slot
\* that is made now if it is missing; the first keepalive acknowledges the start.
StartCDC ==
    /\ pc = "cdc"
    /\ ~active
    /\ conf.type = "postgresql" => lastCp # NotLSN
    /\ LET s == IF conf.type = "postgresql" /\ slot < 0 THEN Len(log) ELSE slot
       IN /\ next' = StreamFrom(s) + 1
          /\ slot' = IF conf.type = "postgresql" THEN StreamFrom(s) ELSE slot
    /\ active' = (conf.type = "postgresql")
    /\ pc' = "streaming"
    /\ UNCHANGED <<source, doc, todo, lastCp, entry, flight, crashes, history>>

\* Start returns an error: a PostgreSQL job tries again, the others end.
StartFails ==
    /\ pc = "cdc" /\ conf.type # "postgresql"
    /\ pc' = "dead"
    /\ UNCHANGED <<source, doc, todo, lastCp, entry, slot, active, next, flight, crashes,
                   history>>

\* The connector sends a change to the job.
Receive ==
    /\ pc = "streaming" /\ next <= Len(log)
    /\ flight' = Append(flight, next)
    /\ next' = next + 1
    /\ UNCHANGED <<source, doc, pc, todo, lastCp, entry, slot, active, crashes, history>>

\* Ten seconds later the server is told what was received.
Acknowledge ==
    /\ pc = "streaming" /\ conf.type = "postgresql"
    /\ slot' \in (slot + 1)..(next - 1)
    /\ UNCHANGED <<source, doc, pc, todo, lastCp, entry, active, next, flight, crashes,
                   history>>

\* Mutant of Write: an existing document is not replaced.
WriteNew(t, i) == doc' = IF doc[t] = Absent THEN [doc EXCEPT ![t] = i] ELSE doc

\* BulkWrite with the primary key as document id: the document is replaced.
Write(t, i) == doc' = [doc EXCEPT ![t] = i]

\* The batch processor writes a change and makes it the checkpoint; it goes on
\* when the stream has ended.
Handle ==
    /\ flight # <<>>
    /\ Write(log[Head(flight)], Head(flight))
    /\ ChunkCheckpoint(IF conf.type = "postgresql" THEN Head(flight) ELSE 0)
    /\ flight' = Tail(flight)
    /\ UNCHANGED <<source, pc, todo, slot, active, next, crashes, history>>

\* What the stream had received or was to deliver, without the changes in flight
\* at the places in kept, as far as the next stream, which starts from the slot
\* or the checkpoint, does not deliver it again.
ToCome == IF pc = "streaming" THEN next..Len(log) ELSE {}
Lost(kept, cp) ==
    {i \in {flight[n] : n \in (DOMAIN flight) \ kept} \cup ToCome :
        \/ conf.type # "postgresql"
        \/ i <= slot \/ i <= cp \/ \E n \in kept : i <= flight[n]}

\* The ways to keep some elements of a sequence of n, in order: the places of
\* those kept.
Subsequences(n) ==
    {place \in UNION {[1..k -> 1..n] : k \in 0..n} :
        \A j, k \in DOMAIN place : j < k => place[j] < place[k]}

\* The stream ends: a PostgreSQL job drops what is in flight, but for what the
\* batch processor takes from the channel meanwhile, and starts again; the
\* others stop, and the batch processor handles the rest.
StreamEnds ==
    /\ pc = "streaming"
    /\ crashes < MaxCrashes
    /\ crashes' = crashes + 1
    /\ pc' = IF conf.type = "postgresql" THEN "cdc" ELSE "dead"
    /\ \E place \in Subsequences(Len(flight)) :
          LET kept == {place[k] : k \in DOMAIN place} IN
          /\ conf.type # "postgresql" => kept = DOMAIN flight
          /\ flight' = [k \in DOMAIN place |-> flight[place[k]]]
          /\ dropped' = dropped \cup Lost(kept, lastCp)
    /\ UNCHANGED <<source, doc, todo, lastCp, entry, slot, active, next, readAt, unwatched,
                   interrupted, unread>>

\* The server notices that its client is gone.
ServerReleases ==
    /\ active /\ pc # "streaming"
    /\ active' = FALSE
    /\ UNCHANGED <<source, doc, pc, todo, lastCp, entry, slot, next, flight, crashes,
                   history>>

\* The process dies and main creates the job again.  A crash while
\* checkpoints.json is written leaves a file that does not parse.
Crash ==
    /\ crashes < MaxCrashes
    /\ crashes' = crashes + 1
    /\ pc' = "run" /\ todo' = <<>> /\ lastCp' = -1 /\ flight' = <<>>
    /\ dropped' = dropped \cup Lost({}, -1)
    /\ interrupted' = (interrupted \/ pc \in {"sync", "table", "parallel"})
    /\ entry' \in IF conf.first = "mysql" /\ pc \in {"table", "cdc", "streaming", "dead"}
                     /\ lastCp # -1
                  THEN {entry, "torn"} ELSE {entry}
    /\ UNCHANGED <<source, doc, slot, active, next, readAt, unwatched, unread>>

JobStep ==
    \/ Run \/ PerformInitialSync
    \/ SnapshotTable \/ SnapshotForeign \/ SnapshotShort \/ SnapshotFails
    \/ SnapshotDone \/ ParallelCopy \/ StartCDC \/ StartFails \/ Receive \/ Handle

Next == SourceChange \/ JobStep \/ Acknowledge \/ StreamEnds \/ ServerReleases \/ Crash

\* The job's goroutine runs, and the server ends idle connections.
Fairness == WF_vars(JobStep) /\ WF_vars(ServerReleases)

Spec == Init /\ [][Next]_vars /\ Fairness

-----------------------------------------------------------------------------
CaughtUp == pc = "streaming" /\ next > Len(log) /\ flight = <<>>

\* MySQL and MongoDB: once the stream has caught up, the document of a copied
\* table is current, unless its last change was made while no stream was up
\* (between copy and stream, or while the job was down: no position is kept)
\* or was in memory when the process or the stream ended.
StaleOnlyIfMissed ==
    CaughtUp /\ conf.type # "postgresql" => \A t \in Tables :
        readAt[t] >= 0 => doc[t] = Version(t) \/ Version(t) \in unwatched \cup dropped

\* PostgreSQL: the slot keeps what is changed between copy and stream and between
\* two streams, over restarts and forced copies.  Once the stream has caught up,
\* the document of a copied table is current, unless its last change was received,
\* acknowledged or overtaken by the checkpoint, and then dropped from memory (or
\* its copy was given up silently).
PostgresLosesOnlyInFlight ==
    CaughtUp /\ conf.type = "postgresql" => \A t \in Tables :
        readAt[t] >= 0 /\ t \notin unread => doc[t] = Version(t) \/ Version(t) \in dropped

\* A job streams without having copied a table only if the initial sync is
\* switched off, a copy was cut short by a crash or an error (which a restart
\* does not make good), a broken cursor or an unreadable table passed for a
\* complete copy, or another database was copied in its place.
UncopiedIsExplained ==
    pc = "streaming" => \A t \in Tables :
        \/ readAt[t] >= 0 \/ ~conf.initialSync \/ interrupted \/ t \in unread
        \/ ~conf.own

\* Every start of the process leads to a stream or to a job that has ended with
\* an error, except with the parallel snapshot, and with a PostgreSQL job whose
\* rows came from a MySQL server: it tries to start from a binlog file for ever.
ReachesStream == ~Parallel => []<>(pc \in {"streaming", "dead"} \/ lastCp = NotLSN)

=============================================================================
