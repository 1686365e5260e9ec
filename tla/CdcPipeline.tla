----------------------------- MODULE CdcPipeline -----------------------------
(***************************************************************************)
(* The change-data-capture pipeline of one MultiJob                        *)
(* (internal/orchestrator/multi_orchestrator.go): the reader goroutine     *)
(* (startCDC and the connector's Start), the channel cdcEvents, the        *)
(* processor goroutine (cdcBatchProcessor, flushBatch), the checkpoint,    *)
(* and the restart of a failed stream.                                     *)
(*                                                                         *)
(* The source log is the sequence of events 1, 2, 3, ...; event e changes  *)
(* row PkOf[e] and its checkpoint is its number.  The job starts after its *)
(* initial snapshot: nothing of the log has been read, and a PostgreSQL    *)
(* replication slot exists.  The transform service, Elasticsearch, the     *)
(* dead letter queue (module DeadLetterQueue) and the replication slot are *)
(* modelled by what this code sees of them.                                *)
(***************************************************************************)
EXTENDS Naturals, Sequences

CONSTANTS
    Source,          \* connector type: "mysql", "postgresql" or "mongodb"
    PK,              \* primary keys
    PkOf,            \* PkOf[e]: the row event e changes
    KeyOf,           \* KeyOf[e]: the dead letter queue's key of event e
    Filtered,        \* events the transform rules filter out
    BatchSize,       \* batchSize
    QueueCap,        \* capacity of cdcEvents (batchSize * 20)
    HasDLQ,          \* TRUE iff the dead letter queue is enabled
    SinkFaults,      \* TRUE iff BulkWrite may fail
    TransformFaults, \* TRUE iff ApplyRules may fail
    MaxEvents,       \* bound: length of the source log
    MaxFailures,     \* bound: failures of the replication stream
    MaxCrashes       \* bound: crashes of the process

Event == 1..MaxEvents

ASSUME ConstantsAssumption ==
    /\ Source \in {"mysql", "postgresql", "mongodb"}
    /\ MaxEvents \in Nat /\ MaxFailures \in Nat /\ MaxCrashes \in Nat
    /\ PkOf \in [Event -> PK]
    /\ DOMAIN KeyOf = Event
    /\ Source # "mysql" => \A e, f \in Event : KeyOf[e] = KeyOf[f] <=> PkOf[e] = PkOf[f]
    /\ Filtered \subseteq Event
    /\ BatchSize \in Nat \ {0} /\ QueueCap \in Nat \ {0}
    /\ HasDLQ \in BOOLEAN /\ SinkFaults \in BOOLEAN /\ TransformFaults \in BOOLEAN

VARIABLES
    head,          \* the last event of the source log
    reader,        \* the reader: idle, up, reset, drain or stopped
    next,          \* the next event the stream delivers
    base,          \* the first event of the current attempt
    queue,         \* cdcEvents
    hand,          \* the event received and not yet in j.batch, 0 for none
    batch,         \* j.batch
    phase,         \* where flushBatch is, "none" iff batchMutex is free
    out,           \* transformedEvents, as indices of batch
    lastCp,        \* j.lastCp, 0 for nil
    lastCommitted, \* j.lastCommittedCpPosition, 0 for none
    saved,         \* the checkpoint file, 0 for no entry
    slotAck,       \* confirmed_flush_lsn of the replication slot
    dlq,           \* events unresolved in the dead letter queue
    doc,           \* doc[k]: the event document k was last written from
    late,          \* events in bulk indexers that a failed BulkWrite left running
    failures,      \* stream failures so far
    crashes        \* crashes so far

\* History: what happened so far, read by no action but StartCDC's `since'.
VARIABLES
    since,         \* the first event of the first attempt, 0 before it
    delivered,     \* events of batches the sink accepted
    requests,      \* those batches, as sets of events
    rewritten,     \* documents last written by a retry or a left indexer
    parked,        \* events the dead letter queue accepted
    skipped        \* events the transform service filtered out

log     == <<head, slotAck>>
docs    == <<doc, rewritten, late>>
buffers == <<queue, hand, batch, phase, out>>
cps     == <<lastCp, lastCommitted, saved>>
counts  == <<failures, crashes>>
history == <<since, delivered, requests, parked, skipped>>
vars    == <<head, reader, next, base, queue, hand, batch, phase, out, lastCp,
             lastCommitted, saved, slotAck, dlq, doc, late, failures, crashes,
             since, delivered, requests, rewritten, parked, skipped>>

-----------------------------------------------------------------------------
(* Helpers.                                                                *)

\* Where the stream starts.  startCDC passes no checkpoint to the MySQL and
\* MongoDB connectors, which then begin at the current end of the log.  For
\* PostgreSQL it passes lastCp, or the slot's position without one, and the
\* server never goes back behind the confirmed position of the slot.
ResumeFrom ==
    IF Source # "postgresql" THEN head + 1
    ELSE IF lastCp > slotAck THEN lastCp ELSE slotAck + 1

\* The index of the last of the transformed events.
LastOut == CHOOSE n \in out : \A i \in out : i <= n

\* The index of the first of the transformed events.
FirstOut == CHOOSE n \in out : \A i \in out : n <= i

\* The events of a set of batch indices that write document k.
Writes(idx, k) == {batch[i] : i \in {n \in idx : PkOf[batch[n]] = k}}

\* getDedupeKey and AddFailedEvent: does the queue refuse event e?  The key is
\* the row and the binlog position; PostgreSQL and MongoDB events have no such
\* position, and MySQL events of one RowsEvent have the same.
Refuses(e) == \E f \in dlq : KeyOf[f] = KeyOf[e]

\* A write outside the batches, by a retry or by a left indexer.
Rewrite(e) ==
    /\ doc' = [doc EXCEPT ![PkOf[e]] = e]
    /\ rewritten' = rewritten \cup {PkOf[e]}

Handled(e) == e \in delivered \/ e \in parked \/ e \in skipped

InPipeline(e) ==
    \/ e = hand
    \/ \E i \in DOMAIN batch : batch[i] = e
    \/ \E i \in DOMAIN queue : queue[i] = e

-----------------------------------------------------------------------------
Init ==
    /\ head = 0 /\ reader = "idle" /\ next = 1 /\ base = 1
    /\ queue = <<>> /\ hand = 0 /\ batch = <<>> /\ phase = "none" /\ out = {}
    /\ lastCp = 0 /\ lastCommitted = 0 /\ saved = 0 /\ slotAck = 0
    /\ dlq = {} /\ doc = [k \in PK |-> 0] /\ late = {} /\ failures = 0 /\ crashes = 0
    /\ since = 0 /\ delivered = {} /\ requests = {} /\ rewritten = {}
    /\ parked = {} /\ skipped = {}

\* A transaction commits at the source.
SourceCommit ==
    /\ head < MaxEvents
    /\ head' = head + 1
    /\ UNCHANGED <<reader, next, base, buffers, cps, slotAck, dlq, docs, counts,
                   history>>

-----------------------------------------------------------------------------
(* The reader goroutine.                                                   *)

\* startCDC calls the connector's Start.
StartCDC ==
    /\ reader = "idle"
    /\ reader' = "up"
    /\ next' = ResumeFrom
    /\ base' = ResumeFrom
    /\ since' = IF since = 0 THEN ResumeFrom ELSE since
    /\ UNCHANGED <<log, buffers, cps, dlq, docs, counts, delivered, requests, parked,
                   skipped>>

\* Mutant of Send: with the channel full the event is dropped.
SendOrDrop ==
    /\ reader = "up"
    /\ next <= head
    /\ queue' = IF Len(queue) < QueueCap THEN Append(queue, next) ELSE queue
    /\ next' = next + 1
    /\ UNCHANGED <<log, reader, base, hand, batch, phase, out, cps, dlq, docs,
                   counts, history>>

\* The connector sends an event, and addToBatch puts it on the channel, waiting
\* while that is full.
Send ==
    /\ reader = "up"
    /\ next <= head
    /\ Len(queue) < QueueCap
    /\ queue' = Append(queue, next)
    /\ next' = next + 1
    /\ UNCHANGED <<log, reader, base, hand, batch, phase, out, cps, dlq, docs,
                   counts, history>>

\* processMessages and parsePrimaryKeepalive report what was received as
\* flushed and applied, whatever has become of it.
SendStandbyStatus ==
    /\ Source = "postgresql"
    /\ reader = "up"
    /\ slotAck < next - 1
    /\ slotAck' = next - 1
    /\ UNCHANGED <<head, reader, next, base, buffers, cps, dlq, docs, counts, history>>

\* Mutant of StreamEnds: started again at once, the buffers left as they are.
RestartWithBuffers ==
    /\ reader = "up"
    /\ failures < MaxFailures
    /\ failures' = failures + 1
    /\ reader' = "idle"
    /\ UNCHANGED <<log, next, base, buffers, cps, dlq, docs, crashes, history>>

\* Start returns.  Only PostgreSQL is started again.
StreamEnds ==
    /\ reader = "up"
    /\ failures < MaxFailures
    /\ failures' = failures + 1
    /\ reader' = IF Source = "postgresql" THEN "reset" ELSE "stopped"
    /\ UNCHANGED <<log, next, base, buffers, cps, dlq, docs, crashes, history>>

\* resetCDCBuffers, under batchMutex, drops the batch ...
ResetBatch ==
    /\ reader = "reset"
    /\ phase = "none"
    /\ batch' = <<>>
    /\ reader' = "drain"
    /\ UNCHANGED <<log, next, base, queue, hand, phase, out, cps, dlq, docs, counts,
                   history>>

\* Mutant of DrainQueue: the receive has no default branch.
DrainForever ==
    /\ reader = "drain"
    /\ queue # <<>>
    /\ queue' = Tail(queue)
    /\ UNCHANGED <<log, reader, next, base, hand, batch, phase, out, cps, dlq, docs,
                   counts, history>>

\* ... and then, without it, empties the channel.
DrainQueue ==
    /\ reader = "drain"
    /\ \/ /\ queue # <<>>
          /\ queue' = Tail(queue)
          /\ UNCHANGED reader
       \/ /\ queue = <<>>
          /\ reader' = "idle"
          /\ UNCHANGED queue
    /\ UNCHANGED <<log, next, base, hand, batch, phase, out, cps, dlq, docs, counts,
                   history>>

-----------------------------------------------------------------------------
(* The processor goroutine.                                                *)

\* Mutant of Receive: the newest event first.
ReceiveNewest ==
    /\ hand = 0 /\ phase = "none"
    /\ queue # <<>>
    /\ hand' = queue[Len(queue)]
    /\ queue' = SubSeq(queue, 1, Len(queue) - 1)
    /\ UNCHANGED <<log, reader, next, base, batch, phase, out, cps, dlq, docs,
                   counts, history>>

\* cdcBatchProcessor receives an event; it does not hold batchMutex yet.
Receive ==
    /\ hand = 0 /\ phase = "none"
    /\ queue # <<>>
    /\ hand' = Head(queue)
    /\ queue' = Tail(queue)
    /\ UNCHANGED <<log, reader, next, base, batch, phase, out, cps, dlq, docs,
                   counts, history>>

\* It locks, appends, and enters flushBatch when the batch is full.
AppendToBatch ==
    /\ hand # 0
    /\ batch' = Append(batch, hand)
    /\ hand' = 0
    /\ phase' = IF Len(batch') >= BatchSize THEN "transform" ELSE "none"
    /\ UNCHANGED <<log, reader, next, base, queue, out, cps, dlq, docs, counts,
                   history>>

\* Mutant of Tick: only full batches are flushed.
TickIfFull ==
    /\ hand = 0 /\ phase = "none"
    /\ Len(batch) >= BatchSize
    /\ phase' = "transform"
    /\ UNCHANGED <<log, reader, next, base, queue, hand, batch, out, cps, dlq, docs,
                   counts, history>>

\* The ticker flushes a batch that is not full; an empty one is left alone.
Tick ==
    /\ hand = 0 /\ phase = "none"
    /\ batch # <<>>
    /\ phase' = "transform"
    /\ UNCHANGED <<log, reader, next, base, queue, hand, batch, out, cps, dlq, docs,
                   counts, history>>

\* The indices of the events transformEvents may return: what the rules keep;
\* on an error before the first answer the whole batch, on one in mid-stream
\* the answers received so far.
TransformResults ==
    LET kept == {i \in DOMAIN batch : batch[i] \notin Filtered}
    IN  {kept} \cup (IF TransformFaults
                     THEN {DOMAIN batch} \cup {{i \in kept : i < n} : n \in kept}
                     ELSE {})

\* transformEvents; without a result the batch is cleared and no checkpoint
\* set.  `skipped' records the events the rules filtered out.
TransformEvents ==
    /\ phase = "transform"
    /\ \E result \in TransformResults :
         /\ out' = result
         /\ skipped' = skipped \cup
               {batch[i] : i \in {n \in DOMAIN batch \ result : batch[n] \in Filtered}}
         /\ \/ result = {} /\ phase' = "none" /\ batch' = <<>>
            \/ result # {} /\ phase' = "sink" /\ UNCHANGED batch
    /\ UNCHANGED <<log, reader, next, base, queue, hand, cps, dlq, docs, counts,
                   since, delivered, requests, parked>>

\* sendToSink succeeds: every event was written.  BulkWrite's indexer has two
\* workers, so two writes of one document happen in either order.
SinkAccepts ==
    /\ phase = "sink"
    /\ doc' \in [PK -> Event \cup {0}]
    /\ \A k \in PK : IF Writes(out, k) = {} THEN doc'[k] = doc[k]
                     ELSE doc'[k] \in Writes(out, k)
    /\ rewritten' = {k \in rewritten : Writes(out, k) = {}}
    /\ delivered' = delivered \cup {batch[i] : i \in out}
    /\ requests' = requests \cup {{batch[i] : i \in out}}
    /\ phase' = "checkpoint"
    /\ UNCHANGED <<log, reader, next, base, queue, hand, batch, out, cps, dlq, late,
                   counts, since, parked, skipped>>

\* Mutant of SinkFails: the error is ignored and the checkpoint advanced.
SinkFailureIgnored ==
    /\ SinkFaults
    /\ phase = "sink"
    /\ phase' = "checkpoint"
    /\ UNCHANGED <<log, reader, next, base, queue, hand, batch, out, cps, dlq, docs,
                   counts, history>>

\* sendToSink fails: any part of the batch may have been written, in any order,
\* and an indexer left behind by an early return may write any part later.
SinkFails ==
    /\ SinkFaults
    /\ phase = "sink"
    /\ doc' \in [PK -> Event \cup {0}]
    /\ \A k \in PK : doc'[k] \in Writes(out, k) \cup {doc[k]}
    /\ rewritten' = {k \in rewritten : doc'[k] = doc[k]}
    /\ \E left \in SUBSET out : late' = late \cup {batch[i] : i \in left}
    /\ phase' = "dlq"
    /\ UNCHANGED <<log, reader, next, base, queue, hand, batch, out, cps, dlq,
                   counts, history>>

\* flushBatch hands the events of a failed batch to the dead letter queue one
\* by one, a refusal being only logged, then clears the batch.
AddFailedEvent ==
    LET e == batch[FirstOut] IN
    /\ phase = "dlq" /\ HasDLQ
    /\ \/ Refuses(e) /\ UNCHANGED <<dlq, parked>>
       \/ ~Refuses(e) /\ dlq' = dlq \cup {e} /\ parked' = parked \cup {e}
    /\ out' = out \ {FirstOut}
    /\ phase' = IF out' = {} THEN "none" ELSE "dlq"
    /\ batch' = IF out' = {} THEN <<>> ELSE batch
    /\ UNCHANGED <<log, reader, next, base, queue, hand, cps, docs, counts, since,
                   delivered, requests, skipped>>

\* Without a dead letter queue the batch is cleared and its events are lost.
LoseFailedEvents ==
    /\ phase = "dlq" /\ ~HasDLQ
    /\ batch' = <<>> /\ out' = {} /\ phase' = "none"
    /\ UNCHANGED <<log, reader, next, base, queue, hand, cps, dlq, docs, counts,
                   history>>

\* updateCheckpoint: the position of the last event the sink accepted.
UpdateCheckpoint ==
    /\ phase = "checkpoint"
    /\ lastCp' = batch[LastOut]
    /\ phase' = "commit"
    /\ UNCHANGED <<log, reader, next, base, queue, hand, batch, out, lastCommitted,
                   saved, dlq, docs, counts, history>>

\* Mutant of CommitCheckpoint: the position of the reader is saved.
CommitAtReader ==
    /\ phase = "commit"
    /\ saved' = next - 1
    /\ lastCommitted' = lastCp
    /\ batch' = <<>>
    /\ out' = {}
    /\ phase' = "none"
    /\ UNCHANGED <<log, reader, next, base, queue, hand, lastCp, dlq, docs, counts,
                   history>>

\* commitCheckpoint does nothing for a position already committed or within
\* commitInterval of the last commit; the call may fail before or after the
\* file is written.  Then flushBatch clears the batch.
CommitCheckpoint ==
    /\ phase = "commit"
    /\ \/ UNCHANGED <<saved, lastCommitted>>
       \/ /\ lastCp # lastCommitted
          /\ saved' = lastCp
          /\ lastCommitted' \in {lastCommitted, lastCp}
    /\ batch' = <<>>
    /\ out' = {}
    /\ phase' = "none"
    /\ UNCHANGED <<log, reader, next, base, queue, hand, lastCp, dlq, docs, counts,
                   history>>

-----------------------------------------------------------------------------
(* The dead letter queue's retries, left indexers, and crashes.            *)

\* retryDLQItem calls BulkWrite for the event of an item.  It may be written
\* even though the call fails, at once or later by the indexer of that call.
RetryDLQItem(e) ==
    /\ e \in dlq
    /\ \/ Rewrite(e) /\ dlq' \in {dlq, dlq \ {e}} /\ UNCHANGED late
       \/ late' = late \cup {e} /\ UNCHANGED <<dlq, doc, rewritten>>
    /\ UNCHANGED <<log, reader, next, base, buffers, cps, counts, history>>

\* An indexer left behind by a failed BulkWrite writes an item at last.
LateWrite(e) ==
    /\ e \in late
    /\ Rewrite(e)
    /\ late' = late \ {e}
    /\ UNCHANGED <<log, reader, next, base, buffers, cps, dlq, counts, history>>

\* The item is exhausted or discarded.
GiveUpDLQItem(e) ==
    /\ e \in dlq
    /\ dlq' = dlq \ {e}
    /\ UNCHANGED <<log, reader, next, base, buffers, cps, docs, counts, history>>

\* The process dies and is started again; the checkpoint file, the dead letter
\* queue, the slot and the documents remain.
Crash ==
    /\ crashes < MaxCrashes
    /\ crashes' = crashes + 1
    /\ reader' = "idle"
    /\ queue' = <<>> /\ hand' = 0 /\ batch' = <<>> /\ phase' = "none" /\ out' = {}
    /\ lastCp' = 0 /\ lastCommitted' = 0 /\ late' = {}
    /\ UNCHANGED <<log, next, base, saved, dlq, doc, rewritten, failures, history>>

Reader == StartCDC \/ Send \/ ResetBatch \/ DrainQueue

Flush == \/ TransformEvents \/ SinkAccepts \/ SinkFails \/ AddFailedEvent
         \/ LoseFailedEvents \/ UpdateCheckpoint \/ CommitCheckpoint

Processor == Receive \/ AppendToBatch \/ Tick \/ Flush

Next ==
    \/ SourceCommit \/ Reader \/ SendStandbyStatus \/ StreamEnds \/ Processor
    \/ \E e \in Event : RetryDLQItem(e) \/ LateWrite(e) \/ GiveUpDLQItem(e)
    \/ Crash

Spec == Init /\ [][Next]_vars

\* Both goroutines keep running: Go schedules the reader, the processor's
\* select is served and the ticker fires, every call has a timeout or answers.
Fairness == WF_vars(Reader) /\ WF_vars(Processor)

FairSpec == Spec /\ Fairness

-----------------------------------------------------------------------------
(* Properties.                                                             *)

\* Every variable has its type; the transformed events are part of the batch,
\* and a flush beyond the transformation has some.
TypeOK ==
    /\ head \in Event \cup {0}
    /\ reader \in {"idle", "up", "reset", "drain", "stopped"}
    /\ next \in 1..(MaxEvents + 1)
    /\ base \in 1..(MaxEvents + 1)
    /\ queue \in Seq(Event)
    /\ hand \in Event \cup {0}
    /\ batch \in Seq(Event)
    /\ phase \in {"none", "transform", "sink", "dlq", "checkpoint", "commit"}
    /\ out \subseteq DOMAIN batch
    /\ phase \notin {"none", "transform"} => out # {}
    /\ lastCp \in Event \cup {0}
    /\ lastCommitted \in Event \cup {0}
    /\ saved \in Event \cup {0}
    /\ slotAck \in Event \cup {0}
    /\ dlq \subseteq Event
    /\ doc \in [PK -> Event \cup {0}]
    /\ late \subseteq Event
    /\ failures \in 0..MaxFailures
    /\ crashes \in 0..MaxCrashes
    /\ since \in 0..(MaxEvents + 1)
    /\ delivered \subseteq Event
    /\ requests \subseteq SUBSET Event
    /\ rewritten \subseteq PK
    /\ parked \subseteq Event
    /\ skipped \subseteq Event

\* What is between the reader and the sink is a gapless run of the log that
\* ends where the reader is: batch, event in hand and channel, in this order.
\* (The reader is the only sender, the processor the only receiver.)
InFlightLen == Len(batch) + (IF hand = 0 THEN 0 ELSE 1) + Len(queue)

PipelineInOrder ==
    LET low == next - InFlightLen IN
    /\ \A i \in DOMAIN batch : batch[i] = low + i - 1
    /\ hand # 0 => hand = low + Len(batch)
    /\ \A i \in DOMAIN queue : queue[i] = next - Len(queue) + i - 1

\* The checkpoint in memory covers only events that were delivered, filtered
\* out or parked: of the current attempt, whatever lies up to it is handled.
CheckpointCovers == \A e \in base..lastCp : Handled(e)

\* The same for the checkpoint file, until the process dies: whatever lies between
\* the job's first start and the saved position is handled.
SavedCovers == crashes = 0 /\ since # 0 => \A e \in since..saved : Handled(e)

\* Persistent position tracking with automatic recovery (README.md): whenever
\* the stream is up, every event since the job's first start is handled, on its
\* way, or still to be read.
NothingLost ==
    reader = "up" /\ since # 0 =>
        \A e \in since..(next - 1) : Handled(e) \/ InPipeline(e)

\* A full channel, a half-filled batch, a refused write or the end of a stream
\* lose nothing: only the death of the process does (addToBatch, flushBatch,
\* startCDC).
LostOnlyByCrash == crashes = 0 => NothingLost

\* Idempotent writes to ensure data integrity (README.md): a document shows an
\* older event than one delivered for it only if one call of BulkWrite, with its
\* two workers, wrote both, or if a retry or a left indexer wrote it last.  (Of a
\* source that delivers no event twice: PostgreSQL's slot does.)
DocumentsCurrent ==
    \A e \in delivered :
        LET k == PkOf[e]
        IN  e <= doc[k] \/ k \in rewritten \/ \E r \in requests : {e, doc[k]} \subseteq r

\* Every event of the log since the job's first start is handled in the end,
\* unless the stream ends or the process dies: the reader waits for room in the
\* channel, and the ticker flushes a batch that does not fill.
EventuallyHandled ==
    \A e \in Event :
        (since # 0 /\ since <= e /\ e <= head) ~> (Handled(e) \/ failures + crashes > 0)

\* The pipeline of a MySQL job implements AtLeastOnce: its checkpoint moves
\* forward only, and over handled events only, within one start of the process.
Promise == INSTANCE AtLeastOnce
    WITH first <- base, handled <- delivered \cup parked \cup skipped,
         mark <- lastCp

ImplementsAtLeastOnce == Promise!Spec

\* A PostgreSQL stream that failed is up again in the end: resetCDCBuffers gets
\* the lock and the channel runs empty.
StreamRestarts == (reader = "reset") ~> (reader = "up")

=============================================================================
