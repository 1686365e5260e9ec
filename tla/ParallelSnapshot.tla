--------------------------- MODULE ParallelSnapshot ---------------------------
(***************************************************************************)
(* The parallel initial snapshot of a MySQL job: internal/parallel         *)
(* (ParallelSnapshotManager, SnapshotWorker) and monitorParallelProgress   *)
(* of internal/orchestrator/multi_orchestrator.go.                         *)
(*                                                                         *)
(* A goroutine splits one table after the other into chunks and sends them *)
(* to a channel; workers take chunks from it, copy their rows, and on an   *)
(* error start a goroutine that sleeps and puts the chunk back.            *)
(*                                                                         *)
(* The program knows one key column of a table, the first of its primary   *)
(* key, and its value is the document id: a row is such a value here, and  *)
(* table t has MinID[t]..MaxID[t], or none if MaxID[t] < MinID[t].  Rows of *)
(* a composite key that share the first column are one here as they are one*)
(* document there.  The snapshot reads the rows as they are.               *)
(***************************************************************************)
EXTENDS IdChunks, Sequences

CONSTANTS
    Tables,                \* the tables to copy, a sequence without repetition
    MinID, MaxID,          \* MinID[t], MaxID[t]: the values of the key column
    AutoIncrement,         \* tables with an auto-increment primary key
    NoPrimaryKey,          \* tables without a primary key
    Worker,                \* WorkerPoolSize workers
    EstimatedRows,         \* EstimatedRows[t]: what estimateTableRows returns
    ChunkSize,             \* SnapshotConfig.ChunkSize
    MaxConcurrentChunks,   \* SnapshotConfig.MaxConcurrentChunks
    MaxRetries             \* the limit in handleChunkError: 3

Table == {Tables[n] : n \in DOMAIN Tables}

ASSUME ConstantsAssumption ==
    /\ Tables \in Seq(Table) /\ "none" \notin Table
    /\ \A m, n \in DOMAIN Tables : Tables[m] = Tables[n] => m = n
    /\ MinID \in [Table -> Int] /\ MaxID \in [Table -> Int]
    /\ AutoIncrement \subseteq Table
    /\ NoPrimaryKey \subseteq Table \ AutoIncrement
    /\ EstimatedRows \in [Table -> Nat]
    /\ ChunkSize \in Nat \ {0}
    /\ MaxConcurrentChunks \in Nat \ {0}
    /\ MaxRetries \in Nat

VARIABLES
    phase,       \* the manager: new, running or stopped
    tableQueue,  \* tables whose task waits in the channel tableQueue
    current,     \* the table being split, and the number of chunks sent
    tableStatus, \* TableTask.Status
    chunkQueue,  \* the channel chunkQueue
    closed,      \* chunkQueue was closed
    chunkStatus, \* ChunkTask.Status, "none" before the chunk exists
    retryCount,  \* ChunkTask.RetryCount
    worker,      \* worker[w]: its chunk, Idle or Exited
    sleeping,    \* chunks whose retry goroutine sleeps
    dropped,     \* chunks the retry goroutine could not put back
    written,     \* key values with a document in the index
    panicked,    \* the process died of a send on a closed channel
    monitor      \* monitorParallelProgress: waiting or returned

vars == <<phase, tableQueue, current, tableStatus, chunkQueue, closed, chunkStatus,
          retryCount, worker, sleeping, dropped, written, panicked, monitor>>

-----------------------------------------------------------------------------
(* Helpers.                                                                *)

Rows(t) == MinID[t]..MaxID[t]

\* getIDRange: an empty table has the range 0, 0.
Low(t)  == IF Rows(t) = {} THEN 0 ELSE MinID[t]
High(t) == IF Rows(t) = {} THEN 0 ELSE MaxID[t]

\* createTableTask: the chunk size of a table.
SizeOf(t) == OptimizeChunkSize(ChunkSize, EstimatedRows[t])

\* createTableChunks: the number of chunks of a table.
ChunksOf(t) ==
    IF t \in AutoIncrement
    THEN ChunkCount(Low(t), High(t), SizeOf(t), MaxConcurrentChunks)
    ELSE 1

Chunk == {<<t, i>> : t \in Table, i \in 0..(MaxConcurrentChunks - 1)}

\* buildChunkQuery: a range of key values, or the whole table; a key that is not
\* an integer with auto-increment is never compared.
RowsOf(c) ==
    {<<c[1], id>> : id \in {r \in Rows(c[1]) :
        \/ c[1] \notin AutoIncrement
        \/ InChunk(Low(c[1]), High(c[1]), SizeOf(c[1]), MaxConcurrentChunks,
                   c[2], r)}}

\* Mutant of Capacity: room for the chunks of one table.
CapacityOfOneTable == MaxConcurrentChunks

\* The capacity Start gives chunkQueue.
Capacity == MaxConcurrentChunks * Len(Tables)

\* What a worker without a chunk holds: it waits, or its goroutine has ended.
Idle   == <<"none", 0>>
Exited == <<"none", 1>>

Held == {worker[w] : w \in Worker} \ {Idle, Exited}

Settled(c) == chunkStatus[c] \in {"completed", "failed"}

\* GetStatistics: updateStatistics is empty, so the figures keep their zeros.
Statistics == [TablesTotal |-> 0, TablesCompleted |-> 0]

Alive == ~panicked

-----------------------------------------------------------------------------
Init ==
    /\ phase = "new"
    /\ tableQueue = <<>>
    /\ current = [table |-> "none", sent |-> 0]
    /\ tableStatus = [t \in Table |-> "pending"]
    /\ chunkQueue = <<>>
    /\ closed = FALSE
    /\ chunkStatus = [c \in Chunk |-> "none"]
    /\ retryCount = [c \in Chunk |-> 0]
    /\ worker = [w \in Worker |-> Idle]
    /\ sleeping = {}
    /\ dropped = {}
    /\ written = {}
    /\ panicked = FALSE
    /\ monitor = "waiting"

\* Start: channels, workers and table tasks, then the task processor.
Start ==
    /\ Alive /\ phase = "new"
    /\ phase' = "running"
    /\ tableQueue' = Tables
    /\ UNCHANGED <<current, tableStatus, chunkQueue, closed, chunkStatus, retryCount,
                   worker, sleeping, dropped, written, panicked, monitor>>

\* Stop cancels the context; nothing waits for the goroutines.
Stop ==
    /\ Alive /\ phase = "running"
    /\ phase' = "stopped"
    /\ UNCHANGED <<tableQueue, current, tableStatus, chunkQueue, closed, chunkStatus,
                   retryCount, worker, sleeping, dropped, written, panicked, monitor>>

\* Mutant of ProcessTableTask: the goroutine ends at the first failed table.
ReturnAtFailedTable ==
    LET t == Head(tableQueue) IN
    /\ Alive /\ phase # "new" /\ ~closed
    /\ current.table = "none"
    /\ tableQueue # <<>>
    /\ tableQueue' = Tail(tableQueue)
    /\ tableStatus' = [tableStatus EXCEPT ![t] = IF t \in NoPrimaryKey THEN "failed"
                                                ELSE "running"]
    /\ current' = IF t \in NoPrimaryKey THEN current ELSE [table |-> t, sent |-> 0]
    /\ closed' = (t \in NoPrimaryKey)
    /\ UNCHANGED <<phase, chunkQueue, chunkStatus, retryCount, worker, sleeping,
                   dropped, written, panicked, monitor>>

\* processTableTasks takes a task; one without a primary key fails.
ProcessTableTask ==
    LET t == Head(tableQueue) IN
    /\ Alive /\ phase # "new" /\ ~closed
    /\ current.table = "none"
    /\ tableQueue # <<>>
    /\ tableQueue' = Tail(tableQueue)
    /\ \/ /\ t \in NoPrimaryKey
          /\ tableStatus' = [tableStatus EXCEPT ![t] = "failed"]
          /\ UNCHANGED current
       \/ /\ t \notin NoPrimaryKey
          /\ tableStatus' = [tableStatus EXCEPT ![t] = "running"]
          /\ current' = [table |-> t, sent |-> 0]
    /\ UNCHANGED <<phase, chunkQueue, closed, chunkStatus, retryCount, worker, sleeping,
                   dropped, written, panicked, monitor>>

\* It sends the chunks of the table, waiting while the channel is full.
SendChunk ==
    LET c == <<current.table, current.sent>> IN
    /\ Alive /\ current.table # "none"
    /\ Len(chunkQueue) < Capacity
    /\ chunkQueue' = Append(chunkQueue, c)
    /\ chunkStatus' = [chunkStatus EXCEPT ![c] = "pending"]
    /\ current' = IF current.sent + 1 = ChunksOf(current.table)
                  THEN [table |-> "none", sent |-> 0]
                  ELSE [current EXCEPT !.sent = @ + 1]
    /\ UNCHANGED <<phase, tableQueue, tableStatus, closed, retryCount, worker, sleeping,
                   dropped, written, panicked, monitor>>

\* With the context cancelled it gives up the table, then closes the channel.
CancelTableTasks ==
    /\ Alive /\ phase = "stopped" /\ ~closed
    /\ \/ /\ current.table # "none"
          /\ tableStatus' = [tableStatus EXCEPT ![current.table] = "failed"]
          /\ current' = [table |-> "none", sent |-> 0]
          /\ UNCHANGED closed
       \/ /\ current.table = "none"
          /\ closed' = TRUE
          /\ UNCHANGED <<tableStatus, current>>
    /\ UNCHANGED <<phase, tableQueue, chunkQueue, chunkStatus, retryCount, worker,
                   sleeping, dropped, written, panicked, monitor>>

-----------------------------------------------------------------------------
(* The workers.                                                            *)

\* Run receives a chunk and marks it running, or ends: the channel is closed
\* and empty, or the context cancelled.
TakeChunk(w) ==
    /\ Alive /\ phase # "new"
    /\ worker[w] = Idle
    /\ \/ /\ chunkQueue # <<>>
          /\ worker' = [worker EXCEPT ![w] = Head(chunkQueue)]
          /\ chunkStatus' = [chunkStatus EXCEPT ![Head(chunkQueue)] = "running"]
          /\ chunkQueue' = Tail(chunkQueue)
       \/ /\ phase = "stopped"
          /\ worker' = [worker EXCEPT ![w] = Exited]
          /\ UNCHANGED <<chunkStatus, chunkQueue>>
    /\ UNCHANGED <<phase, tableQueue, current, tableStatus, closed, retryCount, sleeping,
                   dropped, written, panicked, monitor>>

\* doProcessChunk copies every row; UpdateChunkProgress ignores the chunk, for
\* nothing registers chunks with the progress manager.
CompleteChunk(w) ==
    LET c == worker[w] IN
    /\ Alive /\ c \in Chunk
    /\ written' = written \cup RowsOf(c)
    /\ chunkStatus' = [chunkStatus EXCEPT ![c] = "completed"]
    /\ worker' = [worker EXCEPT ![w] = Idle]
    /\ UNCHANGED <<phase, tableQueue, current, tableStatus, chunkQueue, closed,
                   retryCount, sleeping, dropped, panicked, monitor>>

\* Mutant of FailChunk: no goroutine puts the chunk back.
FailChunkForgotten(w) ==
    LET c == worker[w] IN
    /\ Alive /\ c \in Chunk
    /\ chunkStatus' = [chunkStatus EXCEPT ![c] = "retrying"]
    /\ worker' = [worker EXCEPT ![w] = Idle]
    /\ UNCHANGED <<phase, tableQueue, current, tableStatus, chunkQueue, closed,
                   retryCount, sleeping, dropped, written, panicked, monitor>>

\* doProcessChunk fails before the first or the last of the rows, which are
\* read in key order; handleChunkError starts a retry goroutine or gives the
\* chunk up.
FailChunk(w) ==
    LET c == worker[w] IN
    /\ Alive /\ c \in Chunk
    /\ \E n \in {MinID[c[1]], MaxID[c[1]]} :
         written' = written \cup {r \in RowsOf(c) : r[2] < n}
    /\ \/ /\ retryCount[c] < MaxRetries
          /\ retryCount' = [retryCount EXCEPT ![c] = @ + 1]
          /\ chunkStatus' = [chunkStatus EXCEPT ![c] = "retrying"]
          /\ sleeping' = sleeping \cup {c}
       \/ /\ retryCount[c] >= MaxRetries
          /\ chunkStatus' = [chunkStatus EXCEPT ![c] = "failed"]
          /\ UNCHANGED <<retryCount, sleeping>>
    /\ worker' = [worker EXCEPT ![w] = Idle]
    /\ UNCHANGED <<phase, tableQueue, current, tableStatus, chunkQueue, closed,
                   dropped, panicked, monitor>>

\* Mutant of RequeueChunk: the goroutine goes on putting the chunk back.
RequeueAgainAndAgain(c) ==
    /\ Alive /\ c \in sleeping
    /\ ~closed /\ Len(chunkQueue) < Capacity
    /\ chunkQueue' = Append(chunkQueue, c)
    /\ UNCHANGED <<phase, tableQueue, current, tableStatus, closed, chunkStatus,
                   retryCount, worker, sleeping, dropped, written, panicked, monitor>>

\* The retry goroutine wakes up: a send on a closed channel panics, one to a
\* full channel takes the default branch, which only logs.
RequeueChunk(c) ==
    /\ Alive /\ c \in sleeping
    /\ sleeping' = sleeping \ {c}
    /\ \/ /\ closed
          /\ panicked' = TRUE
          /\ UNCHANGED <<chunkQueue, dropped>>
       \/ /\ ~closed /\ Len(chunkQueue) < Capacity
          /\ chunkQueue' = Append(chunkQueue, c)
          /\ UNCHANGED <<panicked, dropped>>
       \/ /\ ~closed /\ Len(chunkQueue) >= Capacity
          /\ dropped' = dropped \cup {c}
          /\ UNCHANGED <<panicked, chunkQueue>>
    /\ UNCHANGED <<phase, tableQueue, current, tableStatus, closed, chunkStatus,
                   retryCount, worker, written, monitor>>

\* monitorParallelProgress looks at the statistics every 30 seconds.
MonitorTick ==
    /\ Alive /\ phase # "new" /\ monitor = "waiting"
    /\ monitor' = IF /\ Statistics.TablesCompleted = Statistics.TablesTotal
                     /\ Statistics.TablesTotal > 0
                  THEN "returned" ELSE "waiting"
    /\ UNCHANGED <<phase, tableQueue, current, tableStatus, chunkQueue, closed,
                   chunkStatus, retryCount, worker, sleeping, dropped, written, panicked>>

TaskProcessor == ProcessTableTask \/ SendChunk \/ CancelTableTasks

Next ==
    \/ Start \/ Stop \/ TaskProcessor \/ MonitorTick
    \/ \E w \in Worker : TakeChunk(w) \/ CompleteChunk(w) \/ FailChunk(w)
    \/ \E c \in Chunk : RequeueChunk(c)

Spec == Init /\ [][Next]_vars

\* Every goroutine runs, every query ends and every sleep is over some time.
Fairness ==
    /\ WF_vars(Start) /\ WF_vars(TaskProcessor) /\ WF_vars(MonitorTick)
    /\ \A w \in Worker : WF_vars(TakeChunk(w) \/ CompleteChunk(w) \/ FailChunk(w))
    /\ \A c \in Chunk : WF_vars(RequeueChunk(c))

FairSpec == Spec /\ Fairness

-----------------------------------------------------------------------------
(* Properties.                                                             *)

\* A chunk is in one place: once in the channel, or with one worker, or asleep,
\* or settled.  So no two workers ever copy the same chunk.
OnePlace ==
    /\ \A m, n \in DOMAIN chunkQueue : chunkQueue[m] = chunkQueue[n] => m = n
    /\ \A v, w \in Worker : worker[v] \in Chunk /\ worker[v] = worker[w] => v = w
    /\ \A n \in DOMAIN chunkQueue : /\ chunkQueue[n] \notin Held \cup sleeping
                                    /\ chunkStatus[chunkQueue[n]] \in {"pending", "retrying"}
    /\ \A c \in Held : c \notin sleeping /\ chunkStatus[c] = "running"
    /\ \A c \in sleeping : chunkStatus[c] = "retrying"

\* The channel always has room for a retry: handleChunkError's default branch,
\* which would lose the chunk, is never taken, for Start gives the channel the
\* capacity of all chunks of all tables.
NoRetryDropped == dropped = {}

\* Every value of the key column has its document once all chunks of the table
\* are completed: the chunks leave no gap, at their boundaries and after the last
\* one.  With a composite key that is not every row.
CompletedIsCopied ==
    \A t \in Table :
        (\A i \in 0..(ChunksOf(t) - 1) : chunkStatus[<<t, i>>] = "completed")
        => \A id \in Rows(t) : <<t, id>> \in written

\* A chunk that exists is completed or failed in the end, unless the manager is
\* stopped.
ChunksSettle ==
    \A c \in Chunk : (chunkStatus[c] = "pending") ~> (Settled(c) \/ phase = "stopped")

\* Every table is split, or has failed, in the end.
TablesProcessed ==
    \A t \in Table :
        (phase = "running") ~> (tableStatus[t] # "pending" \/ phase = "stopped")

=============================================================================
