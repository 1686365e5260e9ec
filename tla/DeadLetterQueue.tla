--------------------------- MODULE DeadLetterQueue ---------------------------
(***************************************************************************)
(* The dead letter queue of internal/dlq/dlq.go together with the parts    *)
(* of internal/orchestrator/multi_orchestrator.go that drive it: the       *)
(* start-up sequence that creates the managers, the retry function, the    *)
(* orphan sweep and the cleanup task.                                      *)
(*                                                                         *)
(* A manager keeps its items in memory and rewrites the whole file         *)
(* dlq_items.json on most changes.  NewMultiOrchestrator starts a manager  *)
(* on "./dlq"; LoadConfiguration starts a second one when the              *)
(* configuration has a dlq_config section, and nothing stops the first:    *)
(* Managers = 1 is a configuration without that section, Managers = 2 one  *)
(* with it, both managers then sharing one file.                           *)
(*                                                                         *)
(* Wall-clock time is abstracted to what it enables: an item's back-off    *)
(* elapses at some point after its last attempt, items become old in the   *)
(* order in which they were added.                                         *)
(***************************************************************************)
EXTENDS Naturals, FiniteSets

CONSTANTS
    Job,            \* job identifiers
    PK,             \* primary keys
    Pos,            \* source log positions
    Part,           \* tells apart the changes of one position and primary key
    HasBinlogPos,   \* TRUE iff the checkpoints carry a MySQL binlog position
    Managers,       \* DLQ managers one start of the process creates: 1 or 2
    MaxRetries,     \* DLQConfig.MaxRetries
    TornWrites,     \* TRUE iff a crash may hit os.WriteFile after truncation
    MaxItems,       \* bound: items ever added
    MaxCrashes,     \* bound: process crashes
    MaxDiskErrors   \* bound: failures to read or write dlq_items.json

ASSUME ConstantsAssumption ==
    /\ Job # {} /\ PK # {} /\ Pos # {} /\ Part # {}
    /\ HasBinlogPos \in BOOLEAN
    /\ TornWrites \in BOOLEAN
    /\ Managers \in Nat \ {0}
    /\ MaxRetries \in Nat \ {0}
    /\ MaxItems \in Nat
    /\ MaxCrashes \in Nat
    /\ MaxDiskErrors \in Nat

Manager == 1..Managers

\* Items are numbered in the order of their FirstFailed time.
ItemId == 1..MaxItems

\* A change event.  The rows of one MySQL RowsEvent have one position, and their
\* primary key is empty when the table's metadata names none: `part' tells such
\* events apart, and no code reads it.
Event == [job : Job, pk : PK, pos : Pos, part : Part]

Status == {"pending", "retrying", "exhausted", "resolved", "discarded"}

\* `waiting' says that LastRetried is set and its back-off has not elapsed;
\* status "absent" stands for no item at all.
Item == [ev : Event, status : Status \cup {"absent"},
         retries : 0..MaxRetries, waiting : BOOLEAN]

Blank == [ev |-> CHOOSE e \in Event : TRUE, status |-> "absent",
          retries |-> 0, waiting |-> FALSE]

VARIABLES
    items,      \* items[m][i]: the DLQItem object i of manager m
    indexed,    \* indexed[m]: the keys of the map d.items of manager m
    queue,      \* queue[m]: pendingItems collected and not yet retried
    inflight,   \* inflight[m]: the item in retryItem, 0 when there is none
    result,     \* result[m]: what retryFunc returned for inflight[m]
    listed,     \* listed[m]: items the orphan sweep of m has listed
    doomed,     \* doomed[m]: the item the sweep decided to discard, or 0
    running,    \* number of managers this process has started, 0 = not running
    jobs,       \* mo.jobs: absent, disabled or enabled
    file,       \* dlq_items.json, all Blank when missing or unreadable
    nextId,     \* the next item number
    crashes,    \* crashes so far
    diskErrors  \* failures to read or write the file so far

\* History: what happened so far, read by no action.
VARIABLES
    attempts,   \* attempts[i]: calls of retryFunc for item i
    discards,   \* items DiscardItem was called on
    cleaned     \* items CleanupResolved removed

memory  == <<items, indexed, queue, inflight, result, listed, doomed>>
history == <<attempts, discards, cleaned>>
vars    == <<items, indexed, queue, inflight, result, listed, doomed,
             running, jobs, file, nextId, crashes, diskErrors,
             attempts, discards, cleaned>>

-----------------------------------------------------------------------------
(* Helpers of the code.                                                    *)

\* getDedupeKey: the position takes part only if it is a MySQL one.
GetDedupeKey(e) ==
    IF HasBinlogPos THEN <<e.job, e.pk, e.pos>> ELSE <<e.job, e.pk>>

\* Mutant of Unresolved: an item being retried does not count.
UnresolvedOnlyPending(item) == item.status = "pending"

Unresolved(item) == item.status \in {"pending", "retrying"}

\* The test of AddFailedEvent against every item of the map.
IsDuplicate(m, e) ==
    \E i \in indexed[m] : /\ GetDedupeKey(items[m][i].ev) = GetDedupeKey(e)
                          /\ Unresolved(items[m][i])

NoItems == [i \in ItemId |-> Blank]

\* The items of a map, given as an object table.
Written(keys, objects) == [i \in ItemId |-> IF i \in keys THEN objects[i] ELSE Blank]

\* A call of the os package for the file returns an error.
DiskFails == diskErrors < MaxDiskErrors /\ diskErrors' = diskErrors + 1

\* Mutant of SaveToDisk: only pending items are written.
SaveOnlyPending(keys, objects) ==
    /\ file' = Written({i \in keys : objects[i].status = "pending"}, objects)
    /\ UNCHANGED diskErrors

\* saveToDisk.  Its callers log or ignore an error: the file was not opened, or
\* it was truncated and not written to its end.
SaveToDisk(keys, objects) ==
    \/ file' = Written(keys, objects) /\ UNCHANGED diskErrors
    \/ DiskFails /\ file' \in {file, NoItems}

\* The map of manager m with the given entries.
Load(m, entries) ==
    /\ items' = [items EXCEPT ![m] = entries]
    /\ indexed' = [indexed EXCEPT ![m] = {i \in ItemId : entries[i].status # "absent"}]

\* Mutants of LoadFromDisk: the file is ignored; every item is pending again.
LoadNothing(m) == Load(m, NoItems) /\ UNCHANGED diskErrors

LoadAsPending(m) ==
    /\ Load(m, [i \in ItemId |-> IF file[i].status = "absent" THEN Blank
                                  ELSE [file[i] EXCEPT !.status = "pending"]])
    /\ UNCHANGED diskErrors

\* loadFromDisk.  A file that is missing, does not parse or cannot be read
\* leaves the map empty: NewDLQManager logs the error and goes on.
LoadFromDisk(m) ==
    \/ Load(m, file) /\ UNCHANGED diskErrors
    \/ DiskFails /\ Load(m, NoItems)

\* Items processRetryBatch collects: pending, attempts left, back-off over.
ShouldRetry(m) ==
    {i \in indexed[m] : /\ items[m][i].status = "pending"
                        /\ items[m][i].retries < MaxRetries
                        /\ ~items[m][i].waiting}

\* retryDLQItem finds the item's job, or failing that any enabled job.
HasRoute(e) == jobs[e.job] # "absent" \/ \E j \in Job : jobs[j] = "enabled"

\* The manager held by mo.dlqManager: the one started last.
Current == running

\* An item with a new status, retry count and back-off flag.
Update(item, status, retries, waiting) ==
    [ev |-> item.ev, status |-> status, retries |-> retries, waiting |-> waiting]

\* Mutants of AfterRetry: no attempt counts; one attempt too many before
\* exhaustion.
CountNothing(item, err) ==
    Update(item, IF ~err THEN "resolved"
                 ELSE IF item.retries >= MaxRetries THEN "exhausted" ELSE "pending",
           item.retries, item.waiting)

ExhaustTooLate(item, err) ==
    LET n == item.retries + 1
    IN  Update(item, IF ~err THEN "resolved"
                     ELSE IF n > MaxRetries THEN "exhausted" ELSE "pending",
               n, item.waiting)

\* The item as retryItem leaves it: RetryCount counts the call.
AfterRetry(item, err) ==
    LET n == item.retries + 1
    IN  Update(item,
               IF ~err THEN "resolved"
               ELSE IF n >= MaxRetries THEN "exhausted" ELSE "pending",
               n, item.waiting)

NewItem(e) == [ev |-> e, status |-> "pending", retries |-> 0, waiting |-> FALSE]

-----------------------------------------------------------------------------
(* Start-up and crash.                                                     *)

EmptyHeap == [m \in Manager |-> [i \in ItemId |-> Blank]]
EmptySets == [m \in Manager |-> {}]
NoItem    == [m \in Manager |-> 0]
NoResult  == [m \in Manager |-> "none"]

Init ==
    /\ items = EmptyHeap
    /\ indexed = EmptySets
    /\ queue = EmptySets
    /\ inflight = NoItem
    /\ result = NoResult
    /\ listed = EmptySets
    /\ doomed = NoItem
    /\ running = 0
    /\ jobs = [j \in Job |-> "absent"]
    /\ file = NoItems
    /\ nextId = 1
    /\ crashes = 0
    /\ diskErrors = 0
    /\ attempts = [i \in ItemId |-> 0]
    /\ discards = {}
    /\ cleaned = {}

\* NewDLQManager, called first by NewMultiOrchestrator and, when there is a
\* dlq_config, again by updateDLQConfiguration.  Every manager reads the file
\* and gets a retry loop of its own; the earlier one keeps running.
NewDLQManager ==
    /\ running < Managers
    /\ running' = running + 1
    /\ LoadFromDisk(running + 1)
    /\ UNCHANGED <<queue, inflight, result, listed, doomed, jobs, file, nextId,
                   crashes, history>>

\* CreateJob: jobs exist only once the configuration is loaded.
CreateJob(j) ==
    /\ running = Managers
    /\ jobs[j] = "absent"
    /\ \E s \in {"enabled", "disabled"} : jobs' = [jobs EXCEPT ![j] = s]
    /\ UNCHANGED <<memory, running, file, diskErrors, nextId, crashes, history>>

\* The process dies and loses its memory.  saveToDisk truncates the file
\* before it writes: a crash inside the save that ends retryItem leaves a
\* file that does not parse.
Crash ==
    /\ running > 0
    /\ crashes < MaxCrashes
    /\ crashes' = crashes + 1
    /\ items' = EmptyHeap
    /\ indexed' = EmptySets
    /\ queue' = EmptySets
    /\ inflight' = NoItem
    /\ result' = NoResult
    /\ listed' = EmptySets
    /\ doomed' = NoItem
    /\ running' = 0
    /\ jobs' = [j \in Job |-> "absent"]
    /\ \/ UNCHANGED file
       \/ /\ TornWrites
          /\ \E m \in Manager : result[m] # "none"
          /\ file' = NoItems
    /\ UNCHANGED <<nextId, diskErrors, history>>

-----------------------------------------------------------------------------
(* The operations of a manager.  Each runs under d.mu up to the next       *)
(* unlock, so each is one step.                                            *)

\* AddFailedEvent adds an event of a failed batch and saves the map.  An event
\* it refuses as a duplicate changes nothing: flushBatch only logs the refusal.
AddFailedEvent(e) ==
    LET m == Current IN
    /\ running = Managers
    /\ jobs[e.job] = "enabled"
    /\ ~IsDuplicate(m, e)
    /\ nextId <= MaxItems
    /\ items' = [items EXCEPT ![m][nextId] = NewItem(e)]
    /\ indexed' = [indexed EXCEPT ![m] = @ \cup {nextId}]
    /\ SaveToDisk(indexed'[m], items'[m])
    /\ nextId' = nextId + 1
    /\ UNCHANGED <<queue, inflight, result, listed, doomed, running, jobs,
                   crashes, history>>

\* The first half of processRetryBatch, when the ticker fires and the loop is
\* not inside an earlier batch.
ProcessRetryBatch(m) ==
    /\ m <= running
    /\ queue[m] = {}
    /\ inflight[m] = 0
    /\ ShouldRetry(m) # {}
    /\ queue' = [queue EXCEPT ![m] = ShouldRetry(m)]
    /\ UNCHANGED <<items, indexed, inflight, result, listed, doomed, running,
                   jobs, file, diskErrors, nextId, crashes, history>>

\* retryItem up to its first unlock: neither the status nor the map is looked
\* at again, and the new status is not saved.
BeginRetry(m, i) ==
    /\ m <= running
    /\ i \in queue[m]
    /\ inflight[m] = 0
    /\ queue' = [queue EXCEPT ![m] = @ \ {i}]
    /\ inflight' = [inflight EXCEPT ![m] = i]
    /\ items' = [items EXCEPT ![m][i] = Update(@, "retrying", @.retries, TRUE)]
    /\ UNCHANGED <<indexed, result, listed, doomed, running, jobs, file,
                   diskErrors, nextId, crashes, history>>

\* retryDLQItem: without a route an error, otherwise the sink answers.
CallRetryFunc(m) ==
    LET i == inflight[m] IN
    /\ m <= running
    /\ i # 0
    /\ result[m] = "none"
    /\ attempts' = [attempts EXCEPT ![i] = @ + 1]
    /\ \/ result' = [result EXCEPT ![m] = "err"]
       \/ HasRoute(items[m][i].ev) /\ result' = [result EXCEPT ![m] = "nil"]
    /\ UNCHANGED <<items, indexed, queue, inflight, listed, doomed, running,
                   jobs, file, diskErrors, nextId, crashes, discards, cleaned>>

\* The rest of retryItem: count the attempt, set the status, save the map.
FinishRetry(m) ==
    LET i == inflight[m] IN
    /\ m <= running
    /\ result[m] # "none"
    /\ items' = [items EXCEPT ![m][i] = AfterRetry(@, result[m] = "err")]
    /\ inflight' = [inflight EXCEPT ![m] = 0]
    /\ result' = [result EXCEPT ![m] = "none"]
    /\ SaveToDisk(indexed[m], items'[m])
    /\ UNCHANGED <<indexed, queue, listed, doomed, running, jobs, nextId,
                   crashes, history>>

\* shouldRetry turns true: the exponential delay since LastRetried is over.
BackoffElapses(m, i) ==
    /\ m <= running
    /\ i \in indexed[m]
    /\ items[m][i].status = "pending"
    /\ items[m][i].waiting
    /\ items' = [items EXCEPT ![m][i] = Update(@, @.status, @.retries, FALSE)]
    /\ UNCHANGED <<indexed, queue, inflight, result, listed, doomed, running,
                   jobs, file, diskErrors, nextId, crashes, history>>

\* cleanupOrphanedDLQItems, started once per manager, lists the pending items
\* of the current manager ...
ListOrphans(l) ==
    LET pending == {i \in indexed[Current] : items[Current][i].status = "pending"}
    IN
    /\ l <= running
    /\ listed[l] = {}
    /\ doomed[l] = 0
    /\ pending # {}
    /\ listed' = [listed EXCEPT ![l] = pending]
    /\ UNCHANGED <<items, indexed, queue, inflight, result, doomed, running,
                   jobs, file, diskErrors, nextId, crashes, history>>

\* ... looks for the job of each, under jobsMux; an item with a job, or less
\* than an hour old, is left alone ...
CheckOrphan(l, i) ==
    /\ l <= running
    /\ i \in listed[l]
    /\ doomed[l] = 0
    /\ listed' = [listed EXCEPT ![l] = @ \ {i}]
    /\ \/ UNCHANGED doomed
       \/ /\ ~HasRoute(items[Current][i].ev)
          /\ doomed' = [doomed EXCEPT ![l] = i]
    /\ UNCHANGED <<items, indexed, queue, inflight, result, running, jobs, file,
                   diskErrors, nextId, crashes, history>>

\* ... and calls DiscardItem, which overwrites whatever status the item has by
\* then and saves the map; an item no longer in the map is an error.
DiscardItem(l) ==
    LET m == Current  i == doomed[l] IN
    /\ l <= running
    /\ i # 0
    /\ doomed' = [doomed EXCEPT ![l] = 0]
    /\ \/ /\ i \in indexed[m]
          /\ items' = [items EXCEPT ![m][i] = Update(@, "discarded", @.retries, @.waiting)]
          /\ SaveToDisk(indexed[m], items'[m])
          /\ discards' = discards \cup {i}
       \/ /\ i \notin indexed[m]
          /\ UNCHANGED <<items, file, diskErrors, discards>>
    /\ UNCHANGED <<indexed, queue, inflight, result, listed, running, jobs,
                   nextId, crashes, attempts, cleaned>>

\* Mutant of CleanupResolved: whatever is not to be retried is removed.
CleanupFinished(oldest) ==
    LET m == Current
        done == {i \in indexed[m] : i <= oldest /\ ~Unresolved(items[m][i])}
    IN
    /\ running > 0
    /\ done # {}
    /\ indexed' = [indexed EXCEPT ![m] = @ \ done]
    /\ SaveToDisk(indexed'[m], items[m])
    /\ cleaned' = cleaned \cup done
    /\ UNCHANGED <<items, queue, inflight, result, listed, doomed, running, jobs,
                   nextId, crashes, attempts, discards>>

\* CleanupResolved removes the resolved and discarded items that are old
\* enough, the first ones up to some number, and saves the map.
CleanupResolved(oldest) ==
    LET m == Current
        done == {i \in indexed[m] : /\ i <= oldest
                                    /\ items[m][i].status \in {"resolved", "discarded"}}
    IN
    /\ running > 0
    /\ done # {}
    /\ indexed' = [indexed EXCEPT ![m] = @ \ done]
    /\ SaveToDisk(indexed'[m], items[m])
    /\ cleaned' = cleaned \cup done
    /\ UNCHANGED <<items, queue, inflight, result, listed, doomed, running, jobs,
                   nextId, crashes, attempts, discards>>

RetryLoop(m) ==
    \/ ProcessRetryBatch(m)
    \/ \E i \in ItemId : BeginRetry(m, i)
    \/ CallRetryFunc(m)
    \/ FinishRetry(m)

OrphanSweep(l) ==
    \/ ListOrphans(l)
    \/ \E i \in ItemId : CheckOrphan(l, i)
    \/ DiscardItem(l)

Next ==
    \/ NewDLQManager
    \/ \E j \in Job : CreateJob(j)
    \/ Crash
    \/ \E e \in Event : AddFailedEvent(e)
    \/ \E m \in Manager : RetryLoop(m) \/ OrphanSweep(m)
    \/ \E m \in Manager, i \in ItemId : BackoffElapses(m, i)
    \/ \E oldest \in ItemId : CleanupResolved(oldest)

Spec == Init /\ [][Next]_vars

\* The goroutines of ProcessRetries run for as long as the process does, time
\* passes, and a supervisor restarts the process.
Fairness ==
    /\ WF_vars(NewDLQManager)
    /\ \A m \in Manager : /\ WF_vars(RetryLoop(m))
                          /\ \A i \in ItemId : WF_vars(BackoffElapses(m, i))

FairSpec == Spec /\ Fairness

-----------------------------------------------------------------------------
(* Properties.                                                             *)

\* Every variable has its type, and RetryCount never exceeds MaxRetries: a
\* collected item always has an attempt left when retryItem counts it.
TypeOK ==
    /\ items \in [Manager -> [ItemId -> Item]]
    /\ indexed \in [Manager -> SUBSET ItemId]
    /\ queue \in [Manager -> SUBSET ItemId]
    /\ inflight \in [Manager -> ItemId \cup {0}]
    /\ result \in [Manager -> {"none", "nil", "err"}]
    /\ listed \in [Manager -> SUBSET ItemId]
    /\ doomed \in [Manager -> ItemId \cup {0}]
    /\ running \in 0..Managers
    /\ jobs \in [Job -> {"absent", "disabled", "enabled"}]
    /\ file \in [ItemId -> Item]
    /\ nextId \in 1..(MaxItems + 1)
    /\ crashes \in 0..MaxCrashes
    /\ diskErrors \in 0..MaxDiskErrors
    /\ attempts \in [ItemId -> Nat]
    /\ discards \in SUBSET ItemId
    /\ cleaned \in SUBSET ItemId

\* While the process is up and the disk works, the file agrees with the current
\* manager's map on everything but the item being retried: a crash loses at most
\* the outcome of the attempt in flight.  (dlq.go calls saveToDisk after every
\* change but the first half of retryItem.)
FileTracksMemory ==
    diskErrors = 0 /\ running = Managers =>
        \A i \in ItemId :
            IF i \in indexed[Current]
            THEN /\ file[i].ev = items[Current][i].ev
                 /\ file[i].retries = items[Current][i].retries
                 /\ \/ file[i].status = items[Current][i].status
                    \/ i = inflight[Current]
            ELSE file[i].status = "absent"

\* The sink is asked to write an item at most MaxRetries times, plus once for
\* every crash that hits an attempt before retryItem counts it, over any number
\* of restarts, until the disk first fails.
RetryBudget == diskErrors = 0 => \A i \in ItemId : attempts[i] <= MaxRetries + crashes

\* Whatever AddFailedEvent accepted is in the queue of every later process
\* until CleanupResolved removes it or the disk first fails.
AcceptedSurvive ==
    diskErrors = 0 /\ running = Managers =>
        \A i \in 1..(nextId - 1) : i \in indexed[Current] \/ i \in cleaned

\* The map never holds two unresolved items with the same deduplication key,
\* unless one of them was discarded while retryItem was working on it, whether
\* the disk works or not.
UnresolvedUnique ==
    running = Managers =>
        \A i, k \in indexed[Current] :
            ( /\ i # k
              /\ Unresolved(items[Current][i])
              /\ Unresolved(items[Current][k])
              /\ GetDedupeKey(items[Current][i].ev) = GetDedupeKey(items[Current][k].ev) )
            => {i, k} \cap discards # {}

\* An item recorded as resolved or exhausted is never recorded as unresolved
\* again, across retries, sweeps, crashes, failed saves and restarts.
SettledIsFinal ==
    [][\A i \in ItemId :
         file[i].status \in {"resolved", "exhausted"}
         => ~Unresolved(file'[i])]_vars

\* AddFailedEvent would refuse an event only if that very event is in the queue:
\* its key serves to "uniquely identify an event" (getDedupeKey, dlq.go).
RefusedOnlyIfQueued ==
    running = Managers =>
        \A e \in Event : IsDuplicate(Current, e) =>
            \E i \in indexed[Current] : items[Current][i].ev = e /\ Unresolved(items[Current][i])

\* The retry loop of a running manager settles every pending item: it is
\* resolved, exhausted or discarded, unless the process dies first.
PendingSettles ==
    \A m \in Manager, i \in ItemId :
        (m <= running /\ i \in indexed[m] /\ items[m][i].status = "pending")
        ~> (~Unresolved(items[m][i]) \/ running = 0)

\* The file as a box of letters.  The orphan sweep withdraws a letter: what
\* becomes of it depends on whether retryItem has it in hand, so a discarded
\* letter has no outcome.
Outcome(i) ==
    IF i \notin discards /\ file[i].status \in {"resolved", "exhausted"} THEN file[i].status ELSE "none"

Letters ==
    [i \in {k \in ItemId : file[k].status # "absent"} |->
        [ev |-> file[i].ev, tries |-> file[i].retries, outcome |-> Outcome(i)]]

Promise == INSTANCE LetterBox
    WITH Events <- Event, Key <- GetDedupeKey, MaxTries <- MaxRetries,
         box <- Letters, accepted <- nextId - 1, withdrawn <- discards

\* dlq_items.json implements LetterBox, through retries, sweeps, cleanups and
\* restarts, until the disk first fails: letters are accepted in order, keep their
\* event, are tried at most MaxRetries times, and leave only when resolved or
\* discarded (saveToDisk, retryItem, CleanupResolved).
ImplementsLetterBox ==
    Promise!Init /\ [][Promise!Next \/ diskErrors' # 0]_(Promise!vars)

=============================================================================
