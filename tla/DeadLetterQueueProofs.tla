------------------------ MODULE DeadLetterQueueProofs ------------------------
(***************************************************************************)
(* Proofs about DeadLetterQueue for every number of items, jobs, keys and  *)
(* crashes.                                                                *)
(***************************************************************************)
EXTENDS DeadLetterQueue, TLAPS

-----------------------------------------------------------------------------
(* Type correctness, for any number of managers.                           *)

\* What keeps RetryCount within MaxRetries: the items a manager has collected
\* or is retrying have an attempt left, none is both, and a manager that is
\* not running has neither.
RetryInv ==
    \A m \in Manager :
        /\ m > running => queue[m] = {} /\ inflight[m] = 0 /\ result[m] = "none"
        /\ inflight[m] \notin queue[m]
        /\ \A i \in queue[m] : items[m][i].retries < MaxRetries
        /\ inflight[m] # 0 => items[m][inflight[m]].retries < MaxRetries
        /\ result[m] # "none" => inflight[m] # 0

TypeInv == TypeOK /\ RetryInv

\* The blank item is an item: there is an event to put in it.
LEMMA BlankType == Blank \in Item
<1>1. PICK j \in Job, k \in PK, p \in Pos, r \in Part : TRUE
  BY ConstantsAssumption
<1>2. [job |-> j, pk |-> k, pos |-> p, part |-> r] \in Event
  BY DEF Event
<1>3. (CHOOSE e \in Event : TRUE) \in Event
  BY <1>2
<1> QED
  BY <1>3, ConstantsAssumption DEF Blank, Item

\* What saveToDisk writes is a table of items.
LEMMA WrittenType ==
    ASSUME NEW keys, NEW objects \in [ItemId -> Item]
    PROVE  Written(keys, objects) \in [ItemId -> Item]
BY BlankType DEF Written

\* A save that fails or not keeps the types of the file and of the count of errors.
LEMMA SaveType ==
    ASSUME TypeOK, NEW keys, NEW objects, Written(keys, objects) \in [ItemId -> Item],
           \/ file' = Written(keys, objects) /\ UNCHANGED diskErrors
           \/ DiskFails /\ file' \in {file, NoItems}
    PROVE  file' \in [ItemId -> Item] /\ diskErrors' \in 0..MaxDiskErrors
<1>1. diskErrors' \in 0..MaxDiskErrors
  BY ConstantsAssumption DEF DiskFails, TypeOK
<1>2. file \in [ItemId -> Item] /\ NoItems \in [ItemId -> Item]
  BY BlankType DEF TypeOK, NoItems
<1> QED
  BY <1>1, <1>2

\* An attempt that is left can be counted without leaving the type.
LEMMA AfterRetryType ==
    ASSUME NEW item \in Item, item.retries < MaxRetries, NEW err
    PROVE  /\ AfterRetry(item, err) \in Item
           /\ AfterRetry(item, err).retries = item.retries + 1
           /\ AfterRetry(item, err).ev = item.ev
           /\ AfterRetry(item, err).status \in {"resolved", "exhausted", "pending"}
           /\ AfterRetry(item, err).status = "resolved" => ~err
BY ConstantsAssumption DEF AfterRetry, Update, Item, Status

\* The initial state satisfies the type invariant.
LEMMA InitTypeInv == Init => TypeInv
<1> SUFFICES ASSUME Init PROVE TypeInv
  OBVIOUS
<1>1. TypeOK
  BY BlankType, ConstantsAssumption
  DEF Init, NoItems, TypeOK, EmptyHeap, EmptySets, NoItem, NoResult, Manager
<1>2. RetryInv
  BY DEF Init, RetryInv, EmptyHeap, EmptySets, NoItem, NoResult
<1> QED
  BY <1>1, <1>2 DEF TypeInv

\* Starting a manager keeps it.
LEMMA NewDLQManagerTypeInv == TypeInv /\ NewDLQManager => TypeInv'
<1> SUFFICES ASSUME TypeInv, NewDLQManager PROVE TypeInv'
  OBVIOUS
<1> DEFINE n == running + 1
<1>0. n \in Manager
  BY ConstantsAssumption DEF TypeInv, TypeOK, NewDLQManager, Manager
<1>1. PICK loaded \in {file, NoItems} :
        /\ items' = [items EXCEPT ![n] = loaded]
        /\ indexed' = [indexed EXCEPT ![n] = {i \in ItemId : loaded[i].status # "absent"}]
  BY DEF NewDLQManager, LoadFromDisk, Load
<1>2. /\ loaded \in [ItemId -> Item] /\ running' = n /\ running < Managers
      /\ diskErrors' \in 0..MaxDiskErrors
  <2>1. NoItems \in [ItemId -> Item]
    BY BlankType DEF NoItems
  <2>2. UNCHANGED diskErrors \/ DiskFails
    BY DEF NewDLQManager, LoadFromDisk
  <2>3. diskErrors' \in 0..MaxDiskErrors
    BY <2>2, ConstantsAssumption DEF DiskFails, TypeInv, TypeOK
  <2> QED
    BY <1>1, <2>1, <2>3 DEF TypeInv, TypeOK, NewDLQManager
<1>3. TypeOK'
  BY <1>0, <1>1, <1>2, ConstantsAssumption DEF TypeInv, TypeOK, NewDLQManager, Manager, history
<1>4. RetryInv'
  BY <1>0, <1>1, <1>2, ConstantsAssumption DEF TypeInv, TypeOK, RetryInv, NewDLQManager, Manager, history
<1> QED
  BY <1>3, <1>4 DEF TypeInv

\* Creating a job keeps it.
LEMMA CreateJobTypeInv == ASSUME NEW j \in Job PROVE TypeInv /\ CreateJob(j) => TypeInv'
BY DEF TypeInv, TypeOK, RetryInv, CreateJob, memory, history

\* A crash keeps it.
LEMMA CrashTypeInv == TypeInv /\ Crash => TypeInv'
<1> SUFFICES ASSUME TypeInv, Crash PROVE TypeInv'
  OBVIOUS
<1>1. TypeOK'
  BY BlankType, ConstantsAssumption
  DEF TypeInv, TypeOK, Crash, NoItems, EmptyHeap, EmptySets, NoItem, NoResult, Manager, history
<1>2. RetryInv'
  BY DEF RetryInv, Crash, EmptyHeap, EmptySets, NoItem, NoResult
<1> QED
  BY <1>1, <1>2 DEF TypeInv

\* A step that leaves the retry loops alone and raises no retry count keeps
\* RetryInv.
LEMMA RetryInvStable ==
    ASSUME TypeOK, RetryInv,
           UNCHANGED <<queue, inflight, result, running>>,
           \A m \in Manager, i \in ItemId :
               \/ items'[m][i].retries = items[m][i].retries
               \/ items'[m][i].retries = 0
    PROVE  RetryInv'
<1> SUFFICES ASSUME NEW m \in Manager PROVE RetryInv!(m)'
  BY DEF RetryInv
<1>1. RetryInv!(m)
  BY DEF RetryInv
<1>2. queue[m] \subseteq ItemId /\ inflight[m] \in ItemId \cup {0}
  BY DEF TypeOK
<1> QED
  BY <1>1, <1>2, ConstantsAssumption

\* Adding an event keeps it.
LEMMA AddFailedEventTypeInv ==
    ASSUME NEW e \in Event, TypeInv, AddFailedEvent(e)
    PROVE  TypeInv'
<1> USE DEF TypeInv
<1>0. Current \in Manager
  BY ConstantsAssumption DEF AddFailedEvent, Current, Manager, TypeOK
<1>1. nextId \in ItemId /\ NewItem(e) \in Item
  BY ConstantsAssumption DEF AddFailedEvent, NewItem, Item, Status, ItemId, TypeOK
<1>2. items' = [items EXCEPT ![Current][nextId] = NewItem(e)]
  BY DEF AddFailedEvent
<1>3. items' \in [Manager -> [ItemId -> Item]]
  BY <1>0, <1>1, <1>2 DEF TypeOK
<1>4. file' \in [ItemId -> Item] /\ diskErrors' \in 0..MaxDiskErrors
  <2>1. Written(indexed'[Current], items'[Current]) \in [ItemId -> Item]
    BY <1>0, <1>3, WrittenType DEF AddFailedEvent, TypeOK
  <2> QED
    BY <1>0, <1>3, <2>1, SaveType DEF AddFailedEvent, SaveToDisk, TypeOK
<1>5. TypeOK'
  <2>0. indexed' = [indexed EXCEPT ![Current] = @ \cup {nextId}]
    BY DEF AddFailedEvent, history
  <2>1. indexed' \in [Manager -> SUBSET ItemId]
    BY <1>0, <1>1, <2>0 DEF TypeOK
  <2>2. nextId' \in 1..(MaxItems + 1)
    BY ConstantsAssumption DEF AddFailedEvent, TypeOK
  <2>3. UNCHANGED <<queue, inflight, result, listed, doomed, running, jobs,
                    crashes, attempts, discards, cleaned>>
    BY DEF AddFailedEvent, history
  <2> QED
    BY <1>3, <1>4, <2>1, <2>2, <2>3 DEF TypeOK
<1>6. \A m \in Manager, i \in ItemId :
          items'[m][i].retries = items[m][i].retries \/ items'[m][i].retries = 0
  BY <1>0, <1>1, <1>2 DEF TypeOK, NewItem
<1>7. RetryInv'
  BY <1>6, RetryInvStable DEF AddFailedEvent
<1> QED
  BY <1>5, <1>7

\* Collecting the items to retry keeps it.
LEMMA ProcessRetryBatchTypeInv ==
    ASSUME NEW m \in Manager, TypeInv, ProcessRetryBatch(m)
    PROVE  TypeInv'
<1> USE DEF TypeInv
<1>1. /\ ShouldRetry(m) \subseteq ItemId
      /\ \A i \in ShouldRetry(m) : items[m][i].retries < MaxRetries
  BY DEF ShouldRetry, TypeOK
<1>2. TypeOK'
  BY <1>1 DEF ProcessRetryBatch, TypeOK, history
<1>3. 0 \notin ItemId
  BY DEF ItemId
<1>4. RetryInv'
  BY <1>1, <1>3, ConstantsAssumption DEF ProcessRetryBatch, RetryInv, TypeOK, Manager
<1> QED
  BY <1>2, <1>4

\* The first half of retryItem keeps it.
LEMMA BeginRetryTypeInv ==
    ASSUME NEW m \in Manager, NEW i \in ItemId, TypeInv, BeginRetry(m, i)
    PROVE  TypeInv'
<1> USE DEF TypeInv
<1> DEFINE new == Update(items[m][i], "retrying", items[m][i].retries, TRUE)
<1>1. new \in Item /\ new.retries = items[m][i].retries
  BY DEF Update, Item, Status, TypeOK
<1>2. items' = [items EXCEPT ![m][i] = new]
  BY DEF BeginRetry
<1>3. TypeOK'
  <2>1. items' \in [Manager -> [ItemId -> Item]]
    BY <1>1, <1>2 DEF TypeOK
  <2>2. queue' \in [Manager -> SUBSET ItemId] /\ inflight' \in [Manager -> ItemId \cup {0}]
    BY DEF BeginRetry, TypeOK
  <2>3. UNCHANGED <<indexed, result, listed, doomed, running, jobs, file,
                    diskErrors, nextId, crashes, history>>
    BY DEF BeginRetry
  <2> QED
    BY <2>1, <2>2, <2>3 DEF TypeOK, history
<1>4. \A k \in Manager, j \in ItemId : items'[k][j].retries = items[k][j].retries
  BY <1>1, <1>2 DEF TypeOK
<1>5. /\ queue' = [queue EXCEPT ![m] = @ \ {i}]
      /\ inflight' = [inflight EXCEPT ![m] = i]
      /\ i \in queue[m] /\ inflight[m] = 0 /\ m <= running
      /\ UNCHANGED <<result, running>>
  BY DEF BeginRetry
<1>6. ASSUME NEW k \in Manager PROVE RetryInv!(k)'
  <2>1. RetryInv!(k) /\ RetryInv!(m)
    BY DEF RetryInv
  <2>2. queue[k] \subseteq ItemId /\ inflight[k] \in ItemId \cup {0}
    BY DEF TypeOK
  <2>3. k # m => queue'[k] = queue[k] /\ inflight'[k] = inflight[k]
    BY <1>5 DEF TypeOK
  <2>4. queue'[m] = queue[m] \ {i} /\ inflight'[m] = i
    BY <1>5 DEF TypeOK
  <2>5. ~(m > running)
    BY <1>5, ConstantsAssumption DEF Manager, TypeOK
  <2>6. CASE k # m
    BY <1>4, <1>5, <2>1, <2>2, <2>3, <2>6
  <2>7. CASE k = m
    BY <1>4, <1>5, <2>1, <2>2, <2>4, <2>5, <2>7
  <2> QED
    BY <2>6, <2>7
<1>7. RetryInv'
  BY <1>6 DEF RetryInv
<1> QED
  BY <1>3, <1>7

\* The call of retryFunc keeps it.
LEMMA CallRetryFuncTypeInv ==
    ASSUME NEW m \in Manager, TypeInv, CallRetryFunc(m)
    PROVE  TypeInv'
<1> USE DEF TypeInv
<1>1. inflight[m] \in ItemId
  BY DEF CallRetryFunc, TypeOK
<1>2. attempts' \in [ItemId -> Nat]
  BY <1>1 DEF CallRetryFunc, TypeOK
<1>3. result' \in [Manager -> {"none", "nil", "err"}]
  BY <1>1 DEF CallRetryFunc, TypeOK
<1>4. TypeOK'
  BY <1>2, <1>3 DEF CallRetryFunc, TypeOK
<1>5. \A k \in Manager : k # m => result'[k] = result[k]
  BY DEF CallRetryFunc, TypeOK
<1>6. RetryInv'
  BY <1>1, <1>5, ConstantsAssumption DEF CallRetryFunc, RetryInv, TypeOK, Manager, ItemId
<1> QED
  BY <1>4, <1>6

\* The second half of retryItem keeps it: the item had an attempt left.
LEMMA FinishRetryTypeInv ==
    ASSUME NEW m \in Manager, TypeInv, FinishRetry(m)
    PROVE  TypeInv'
<1> USE DEF TypeInv
<1> DEFINE i == inflight[m]
           new == AfterRetry(items[m][i], result[m] = "err")
<1>1. i \in ItemId /\ items[m][i].retries < MaxRetries /\ i \notin queue[m]
  BY DEF FinishRetry, TypeOK, RetryInv
<1>2. new \in Item
  <2>1. items[m][i] \in Item
    BY <1>1 DEF TypeOK
  <2> QED
    BY <1>1, <2>1, AfterRetryType
<1>3. items' = [items EXCEPT ![m][i] = new]
  BY DEF FinishRetry
<1>4. items' \in [Manager -> [ItemId -> Item]]
  BY <1>1, <1>2, <1>3 DEF TypeOK
<1>5. file' \in [ItemId -> Item] /\ diskErrors' \in 0..MaxDiskErrors
  <2>1. Written(indexed[m], items'[m]) \in [ItemId -> Item]
    BY <1>1, <1>4, WrittenType DEF FinishRetry, TypeOK
  <2> QED
    BY <1>1, <1>4, <2>1, SaveType DEF FinishRetry, SaveToDisk, TypeOK
<1>6. TypeOK'
  BY <1>4, <1>5 DEF FinishRetry, TypeOK, history
<1>7. \A k \in Manager, j \in ItemId : (k # m \/ j # i) => items'[k][j] = items[k][j]
  BY <1>1, <1>3 DEF TypeOK
<1>8. RetryInv'
  BY <1>1, <1>7, ConstantsAssumption DEF FinishRetry, RetryInv, TypeOK, Manager, ItemId
<1> QED
  BY <1>6, <1>8

\* The end of a back-off keeps it.
LEMMA BackoffTypeInv ==
    ASSUME NEW m \in Manager, NEW i \in ItemId, TypeInv, BackoffElapses(m, i)
    PROVE  TypeInv'
<1> USE DEF TypeInv
<1> DEFINE new == Update(items[m][i], items[m][i].status, items[m][i].retries, FALSE)
<1>1. new \in Item /\ new.retries = items[m][i].retries
  BY DEF Update, Item, Status, TypeOK
<1>2. items' = [items EXCEPT ![m][i] = new]
  BY DEF BackoffElapses
<1>3. TypeOK'
  <2>1. items' \in [Manager -> [ItemId -> Item]]
    BY <1>1, <1>2 DEF TypeOK
  <2>2. UNCHANGED <<indexed, queue, inflight, result, listed, doomed, running,
                    jobs, file, diskErrors, nextId, crashes, history>>
    BY DEF BackoffElapses
  <2> QED
    BY <2>1, <2>2 DEF TypeOK, history
<1>4. \A k \in Manager, j \in ItemId : items'[k][j].retries = items[k][j].retries
  BY <1>1, <1>2 DEF TypeOK
<1>5. RetryInv'
  BY <1>4, RetryInvStable DEF BackoffElapses
<1> QED
  BY <1>3, <1>5

\* The orphan sweep keeps it.
LEMMA OrphanSweepTypeInv ==
    ASSUME NEW l \in Manager, TypeInv, OrphanSweep(l)
    PROVE  TypeInv'
<1> USE DEF TypeInv
<1>0. running >= l => Current \in Manager
  BY ConstantsAssumption DEF Current, Manager, TypeOK
<1>1. CASE ListOrphans(l)
  BY <1>0, <1>1 DEF ListOrphans, TypeOK, RetryInv, history
<1>2. CASE \E i \in ItemId : CheckOrphan(l, i)
  BY <1>2, SMTT(60) DEF CheckOrphan, TypeOK, RetryInv, history
<1>3. CASE DiscardItem(l)
  <2>1. CASE doomed[l] \notin indexed[Current]
    BY <1>3, <2>1 DEF DiscardItem, TypeOK, RetryInv
  <2>2. CASE doomed[l] \in indexed[Current]
    <3> DEFINE i == doomed[l]
               new == Update(items[Current][i], "discarded", items[Current][i].retries,
                             items[Current][i].waiting)
    <3>0. Current \in Manager /\ i \in ItemId
      BY <1>0, <1>3, ConstantsAssumption DEF DiscardItem, TypeOK, Manager
    <3>1. new \in Item /\ new.retries = items[Current][i].retries
      BY <3>0 DEF Update, Item, Status, TypeOK
    <3>2. items' = [items EXCEPT ![Current][i] = new]
      BY <1>3, <2>2 DEF DiscardItem
    <3>3. items' \in [Manager -> [ItemId -> Item]]
      BY <3>0, <3>1, <3>2 DEF TypeOK
    <3>4. file' \in [ItemId -> Item] /\ diskErrors' \in 0..MaxDiskErrors
      <4>1. Written(indexed[Current], items'[Current]) \in [ItemId -> Item]
        BY <1>3, <2>2, <3>0, <3>3, WrittenType DEF DiscardItem, TypeOK
      <4> QED
        BY <1>3, <2>2, <3>0, <3>3, <4>1, SaveType DEF DiscardItem, SaveToDisk, TypeOK
    <3>5. TypeOK'
      BY <1>3, <2>2, <3>0, <3>3, <3>4 DEF DiscardItem, TypeOK
    <3>6. \A k \in Manager, j \in ItemId : items'[k][j].retries = items[k][j].retries
      BY <3>0, <3>1, <3>2 DEF TypeOK
    <3>7. RetryInv'
      BY <1>3, <3>6, RetryInvStable DEF DiscardItem
    <3> QED
      BY <3>5, <3>7
  <2> QED
    BY <2>1, <2>2
<1> QED
  BY <1>1, <1>2, <1>3 DEF OrphanSweep

\* The cleanup task keeps it.
LEMMA CleanupTypeInv ==
    ASSUME NEW oldest \in ItemId, TypeInv, CleanupResolved(oldest)
    PROVE  TypeInv'
<1> USE DEF TypeInv
<1>0. Current \in Manager
  BY ConstantsAssumption DEF CleanupResolved, Current, Manager, TypeOK
<1>1. file' \in [ItemId -> Item] /\ diskErrors' \in 0..MaxDiskErrors
  <2>1. Written(indexed'[Current], items[Current]) \in [ItemId -> Item]
    BY <1>0, WrittenType DEF CleanupResolved, TypeOK
  <2> QED
    BY <1>0, <2>1, SaveType DEF CleanupResolved, SaveToDisk, TypeOK
<1>2. TypeOK'
  BY <1>0, <1>1 DEF CleanupResolved, TypeOK
<1>3. RetryInv'
  BY DEF CleanupResolved, RetryInv
<1> QED
  BY <1>2, <1>3

\* Every step keeps the type invariant.
LEMMA NextTypeInv == TypeInv /\ [Next]_vars => TypeInv'
<1> SUFFICES ASSUME TypeInv, [Next]_vars PROVE TypeInv'
  OBVIOUS
<1>1. CASE UNCHANGED vars
  BY <1>1 DEF vars, TypeInv, TypeOK, RetryInv
<1>2. ASSUME NEW m \in Manager, RetryLoop(m) PROVE TypeInv'
  BY <1>2, ProcessRetryBatchTypeInv, BeginRetryTypeInv, CallRetryFuncTypeInv,
     FinishRetryTypeInv DEF RetryLoop
<1> QED
  BY <1>1, <1>2, NewDLQManagerTypeInv, CreateJobTypeInv, CrashTypeInv,
     AddFailedEventTypeInv, OrphanSweepTypeInv, BackoffTypeInv, CleanupTypeInv
  DEF Next

\* Every reachable state is well typed; in particular no item is ever retried
\* past MaxRetries by the manager that counts its attempts.
THEOREM TypeCorrect == Spec => []TypeOK
<1>1. Spec => []TypeInv
  BY InitTypeInv, NextTypeInv, PTL DEF Spec
<1> QED
  BY <1>1, PTL DEF TypeInv

-----------------------------------------------------------------------------
(* One manager, because the configuration has no dlq_config section, and a *)
(* disk that has not failed yet.  Mem, Keys, Batch, Busy and Answer are the *)
(* fields of that manager.                                                 *)

Mem    == items[1]
Keys   == indexed[1]
Batch  == queue[1]
Busy   == inflight[1]
Answer == result[1]

\* Item numbers not handed out yet are used nowhere.
FreshInv ==
    \A i \in ItemId : i >= nextId =>
        /\ i \notin Keys /\ i \notin Batch /\ i # Busy
        /\ file[i].status = "absent"
        /\ attempts[i] = 0

\* The file agrees with the map but for the item in flight, whose entry in the
\* file is not a settled one, and every item of the map has a status.
FileInv ==
    running = 1 =>
        \A i \in ItemId :
            /\ i \in Keys =>
                 /\ Mem[i].status # "absent"
                 /\ file[i].status # "absent"
                 /\ file[i].ev = Mem[i].ev
                 /\ file[i].retries = Mem[i].retries
                 /\ i # Busy => file[i].status = Mem[i].status
                 /\ i = Busy => file[i].status \in {"pending", "retrying", "discarded"}
            /\ i \notin Keys => file[i].status = "absent"

\* Collected items are pending unless discarded since, the item in flight is
\* retrying unless discarded since, and discards remembers both.
StatusInv ==
    /\ \A i \in Batch : Mem[i].status \in {"pending", "discarded"}
    /\ Busy # 0 => Mem[Busy].status \in {"retrying", "discarded"}
    /\ \A i \in ItemId : /\ Mem[i].status = "discarded" => i \in discards
                         /\ file[i].status = "discarded" => i \in discards
    /\ Busy # 0 => (Unresolved(file[Busy]) => Unresolved(Mem[Busy]))

\* The attempts made so far are counted, in memory or, when the process is
\* down, in the file, but for one attempt per crash and the call in flight.
\* An item that was removed used at most its budget.
CountedInv ==
    \A i \in ItemId :
        attempts[i] <= crashes +
            ( IF running = 0
              THEN IF file[i].status = "absent" THEN MaxRetries ELSE file[i].retries
              ELSE IF i \in Keys \/ i \in Batch \/ i = Busy
                   THEN Mem[i].retries + (IF i = Busy /\ Answer # "none" THEN 1 ELSE 0)
                   ELSE MaxRetries )

\* Every item added and not cleaned up is in the map or, when the process is
\* down, in the file.
KeptInv ==
    ~TornWrites =>
        \A i \in ItemId : i < nextId =>
            \/ i \in cleaned
            \/ running = 0 /\ file[i].status # "absent"
            \/ running = 1 /\ i \in Keys

\* No two unresolved entries of a table share a deduplication key unless one
\* of them was discarded.
UniqueIn(table, keys) ==
    \A i, k \in keys :
        (/\ i # k /\ Unresolved(table[i]) /\ Unresolved(table[k])
         /\ GetDedupeKey(table[i].ev) = GetDedupeKey(table[k].ev))
        => {i, k} \cap discards # {}

UniqueInv == IF running = 0 THEN UniqueIn(file, ItemId) ELSE UniqueIn(Mem, Keys)

SingleInv == /\ TypeInv /\ FreshInv /\ FileInv /\ StatusInv
             /\ CountedInv /\ KeptInv /\ UniqueInv

\* With one manager its fields have these types.
LEMMA SingleTypes ==
    ASSUME Managers = 1, TypeInv
    PROVE  /\ Manager = {1} /\ running \in {0, 1}
           /\ Mem \in [ItemId -> Item] /\ Keys \subseteq ItemId /\ Batch \subseteq ItemId
           /\ Busy \in ItemId \cup {0} /\ 0 \notin ItemId /\ Busy \notin Batch
           /\ file \in [ItemId -> Item]
           /\ \A i \in ItemId : /\ Mem[i].retries \in 0..MaxRetries
                                /\ file[i].retries \in 0..MaxRetries
                                /\ attempts[i] \in Nat
           /\ \A i \in Batch : Mem[i].retries < MaxRetries
           /\ Busy # 0 => Mem[Busy].retries < MaxRetries
           /\ Answer # "none" => Busy # 0
           /\ running = 0 => Batch = {} /\ Busy = 0 /\ Answer = "none"
           /\ crashes \in Nat /\ MaxRetries \in Nat /\ nextId \in Nat
           /\ ItemId \subseteq Nat
<1>1. Manager = {1} /\ running \in {0, 1} /\ 0 \notin ItemId
  BY ConstantsAssumption DEF Manager, TypeInv, TypeOK, ItemId
<1>2. /\ Mem \in [ItemId -> Item] /\ file \in [ItemId -> Item]
      /\ Keys \subseteq ItemId /\ Batch \subseteq ItemId /\ Busy \in ItemId \cup {0}
  BY <1>1 DEF TypeInv, TypeOK, Mem, Keys, Batch, Busy
<1>3. \A i \in ItemId : /\ Mem[i].retries \in 0..MaxRetries
                        /\ file[i].retries \in 0..MaxRetries
                        /\ attempts[i] \in Nat
  BY <1>2 DEF TypeInv, TypeOK, Item
<1>4. crashes \in Nat /\ MaxRetries \in Nat /\ nextId \in Nat /\ ItemId \subseteq Nat
  BY ConstantsAssumption DEF TypeInv, TypeOK, ItemId
<1> QED
  BY <1>1, <1>2, <1>3, <1>4 DEF TypeInv, RetryInv, Mem, Batch, Busy, Answer

\* The initial state satisfies the invariant.
LEMMA InitSingleInv == ASSUME Managers = 1, Init PROVE SingleInv
<1>1. TypeInv
  BY InitTypeInv
<1>2. /\ \A i \in ItemId : Mem[i] = Blank /\ file[i] = Blank /\ attempts[i] = 0
      /\ Keys = {} /\ Batch = {} /\ Busy = 0 /\ Answer = "none"
      /\ nextId = 1 /\ running = 0 /\ crashes = 0
  BY ConstantsAssumption
  DEF Init, NoItems, Mem, Keys, Batch, Busy, Answer, Manager, EmptyHeap, EmptySets, NoItem, NoResult
<1>3. Blank.status = "absent" /\ Blank.retries = 0 /\ 0 \notin ItemId
  BY DEF Blank, ItemId
<1>4. FreshInv /\ FileInv
  BY <1>2, <1>3 DEF FreshInv, FileInv
<1>5. StatusInv
  BY <1>2, <1>3 DEF StatusInv
<1>6. CountedInv
  BY <1>2, <1>3, ConstantsAssumption DEF CountedInv
<1>7. KeptInv
  BY <1>2 DEF KeptInv, ItemId
<1>8. UniqueInv
  BY <1>2, <1>3 DEF UniqueInv, UniqueIn, Unresolved
<1> QED
  BY <1>1, <1>4, <1>5, <1>6, <1>7, <1>8 DEF SingleInv

\* Loading the file at start-up keeps the invariant.
LEMMA NewDLQManagerSingle ==
    ASSUME Managers = 1, SingleInv, ~DiskFails, NewDLQManager
    PROVE  SingleInv'
<1>0. TypeInv'
  BY NewDLQManagerTypeInv DEF SingleInv
<1>1. TypeInv /\ FreshInv /\ StatusInv /\ CountedInv /\ KeptInv /\ UniqueInv
  BY DEF SingleInv
<1>2. /\ running = 0 /\ running' = 1
      /\ Mem' = file /\ Keys' = {i \in ItemId : file[i].status # "absent"}
      /\ Batch' = {} /\ Busy' = 0 /\ Answer' = "none"
      /\ UNCHANGED <<file, nextId, crashes, attempts, discards, cleaned>>
  <2>1. running = 0 /\ running' = 1
    BY <1>1, SingleTypes DEF NewDLQManager
  <2>2. Batch = {} /\ Busy = 0 /\ Answer = "none"
    BY <1>1, <2>1, SingleTypes
  <2>3. Mem' = file /\ Keys' = {i \in ItemId : file[i].status # "absent"}
    BY <1>1, <2>1, SingleTypes DEF LoadFromDisk, Load, NewDLQManager, Mem, Keys, TypeInv, TypeOK
  <2> QED
    BY <2>1, <2>2, <2>3 DEF NewDLQManager, Batch, Busy, Answer, history
<1>3. 0 \notin ItemId
  BY DEF ItemId
<1>4. FreshInv'
  BY <1>1, <1>2, <1>3 DEF FreshInv
<1>5. FileInv'
  BY <1>2, <1>3 DEF FileInv
<1>6. StatusInv'
  BY <1>1, <1>2, <1>3 DEF StatusInv
<1>7. CountedInv'
  BY <1>1, <1>2, <1>3, SingleTypes DEF CountedInv
<1>8. KeptInv'
  BY <1>1, <1>2 DEF KeptInv
<1>9. UniqueInv'
  BY <1>1, <1>2 DEF UniqueInv, UniqueIn
<1> QED
  BY <1>0, <1>4, <1>5, <1>6, <1>7, <1>8, <1>9 DEF SingleInv

\* A crash keeps it: the file holds what memory held, but for the attempt in
\* flight, which the crash pays for.
LEMMA CrashSingle ==
    ASSUME Managers = 1, SingleInv, Crash
    PROVE  SingleInv'
<1>0. TypeInv'
  BY CrashTypeInv DEF SingleInv
<1>1. TypeInv /\ FreshInv /\ FileInv /\ StatusInv /\ CountedInv /\ KeptInv /\ UniqueInv
  BY DEF SingleInv
<1>2. /\ running = 1 /\ running' = 0 /\ crashes' = crashes + 1
      /\ \A i \in ItemId : Mem'[i] = Blank
      /\ Keys' = {} /\ Batch' = {} /\ Busy' = 0 /\ Answer' = "none"
      /\ \/ file' = file
         \/ TornWrites /\ file' = NoItems
      /\ UNCHANGED <<nextId, attempts, discards, cleaned>>
  BY <1>1, SingleTypes
  DEF Crash, Mem, Keys, Batch, Busy, Answer, EmptyHeap, EmptySets, NoItem, NoResult, history
<1>3. 0 \notin ItemId /\ Blank.status = "absent" /\ \A i \in ItemId : NoItems[i] = Blank
  BY DEF ItemId, Blank, NoItems
<1>4. FreshInv'
  BY <1>1, <1>2, <1>3 DEF FreshInv
<1>5. FileInv'
  BY <1>2 DEF FileInv
<1>6. StatusInv'
  BY <1>1, <1>2, <1>3 DEF StatusInv
<1>7. CountedInv'
  <2> SUFFICES ASSUME NEW i \in ItemId
               PROVE  attempts[i] <= crashes + 1 +
                        (IF file'[i].status = "absent" THEN MaxRetries ELSE file'[i].retries)
    BY <1>2 DEF CountedInv
  <2>1. attempts[i] <= crashes + (IF i \in Keys \/ i \in Batch \/ i = Busy
                   THEN Mem[i].retries + (IF i = Busy /\ Answer # "none" THEN 1 ELSE 0)
                   ELSE MaxRetries )
    BY <1>1, <1>2 DEF CountedInv
  <2>2. attempts[i] <= crashes + 1 + MaxRetries
    BY <1>1, <2>1, SingleTypes
  <2>3. file[i].status # "absent" => attempts[i] <= crashes + 1 + file[i].retries
    BY <1>1, <1>2, <2>1, SingleTypes DEF FileInv
  <2> QED
    BY <1>2, <1>3, <2>2, <2>3
<1>8. KeptInv'
  BY <1>1, <1>2 DEF KeptInv, FileInv
<1>9. UniqueInv'
  <2>1. CASE file' = file
    <3>1. \A i \in ItemId : Unresolved(file[i]) =>
              i \in Keys /\ Unresolved(Mem[i]) /\ file[i].ev = Mem[i].ev
      BY <1>1, <1>2, <1>3 DEF FileInv, StatusInv, Unresolved
    <3>2. UniqueIn(Mem, Keys)
      BY <1>1, <1>2 DEF UniqueInv
    <3>3. UniqueIn(file, ItemId)
      BY <3>1, <3>2 DEF UniqueIn
    <3> QED
      BY <1>2, <2>1, <3>3 DEF UniqueInv, UniqueIn
  <2>2. CASE file' = NoItems
    BY <1>2, <1>3, <2>2 DEF UniqueInv, UniqueIn, Unresolved
  <2> QED
    BY <1>2, <2>1, <2>2
<1> QED
  BY <1>0, <1>4, <1>5, <1>6, <1>7, <1>8, <1>9 DEF SingleInv

\* A step that touches neither the item objects nor the file nor the retry
\* loop keeps the invariant.
LEMMA IdleSingle ==
    ASSUME Managers = 1, SingleInv, TypeInv',
           UNCHANGED <<items, indexed, queue, inflight, result, running, file,
                       nextId, crashes, attempts, discards, cleaned>>
    PROVE  SingleInv'
<1>1. UNCHANGED <<Mem, Keys, Batch, Busy, Answer>>
  BY DEF Mem, Keys, Batch, Busy, Answer
<1>2. FreshInv' /\ FileInv' /\ StatusInv' /\ CountedInv' /\ KeptInv'
  BY <1>1 DEF SingleInv, FreshInv, FileInv, StatusInv, CountedInv, KeptInv
<1>3. UniqueInv'
  BY <1>1 DEF SingleInv, UniqueInv, UniqueIn
<1> QED
  BY <1>2, <1>3 DEF SingleInv

\* Adding an event keeps it: the new item is the only one with its key that
\* is unresolved.
LEMMA AddFailedEventSingle ==
    ASSUME Managers = 1, SingleInv, ~DiskFails, NEW e \in Event, AddFailedEvent(e)
    PROVE  SingleInv'
<1>0. TypeInv'
  BY AddFailedEventTypeInv DEF SingleInv
<1>1. TypeInv /\ FreshInv /\ FileInv /\ StatusInv /\ CountedInv /\ KeptInv /\ UniqueInv
  BY DEF SingleInv
<1>2. running = 1 /\ Current = 1
  BY DEF AddFailedEvent, Current
<1> DEFINE n == nextId
<1>3. n \in ItemId
  BY <1>1, ConstantsAssumption DEF AddFailedEvent, TypeInv, TypeOK, ItemId
<1>4. /\ Mem' = [Mem EXCEPT ![n] = NewItem(e)] /\ Keys' = Keys \cup {n}
      /\ file' = Written(Keys', Mem') /\ nextId' = n + 1
      /\ UNCHANGED <<Batch, Busy, Answer, running, crashes, attempts, discards, cleaned>>
  BY <1>1, <1>2, SingleTypes
  DEF SaveToDisk, AddFailedEvent, history, Mem, Keys, Batch, Busy, Answer, TypeInv, TypeOK
<1>5. /\ Mem'[n] = NewItem(e)
      /\ \A i \in ItemId : i # n => Mem'[i] = Mem[i]
      /\ \A i \in Keys' : file'[i] = Mem'[i]
      /\ \A i \in ItemId : i \notin Keys' => file'[i] = Blank
  BY <1>1, <1>3, <1>4, SingleTypes DEF Written
<1>6. /\ n \notin Keys /\ n \notin Batch /\ n # Busy /\ attempts[n] = 0
      /\ Blank.status = "absent" /\ 0 \notin ItemId
      /\ NewItem(e).status = "pending" /\ NewItem(e).retries = 0 /\ NewItem(e).ev = e
  BY <1>1, <1>3, SingleTypes DEF FreshInv, Blank, NewItem
<1>7. FreshInv'
  <2> SUFFICES ASSUME NEW i \in ItemId, i >= n + 1 PROVE FreshInv!(i)!2'
    BY <1>4 DEF FreshInv
  <2>1. i >= n /\ i # n
    BY <1>1, SingleTypes
  <2>2. FreshInv!(i)!2
    BY <1>1, <2>1 DEF FreshInv
  <2> QED
    BY <1>4, <1>5, <1>6, <2>1, <2>2
<1>8. FileInv'
  <2> SUFFICES ASSUME NEW i \in ItemId PROVE FileInv!2!(i)'
    BY DEF FileInv
  <2>1. i \in Keys => Mem[i].status # "absent" /\ Mem'[i] = Mem[i]
    BY <1>1, <1>2, <1>5, <1>6 DEF FileInv
  <2>2. i \in Keys' => Mem'[i].status # "absent" /\ file'[i] = Mem'[i]
    BY <1>4, <1>5, <1>6, <2>1
  <2>3. i \in Keys' /\ i = Busy => Mem'[i].status \in {"retrying", "discarded"}
    BY <1>1, <1>5, <1>6 DEF StatusInv
  <2> QED
    BY <1>4, <1>5, <1>6, <2>2, <2>3
<1>9. StatusInv'
  <2>1. \A i \in Batch : i # n /\ i \in ItemId
    BY <1>1, <1>6, SingleTypes
  <2>2. Busy # 0 => Busy \in ItemId /\ Mem'[Busy] = Mem[Busy]
    BY <1>1, <1>5, <1>6, SingleTypes
  <2>3. \A i \in ItemId : Mem'[i].status = "discarded" => i \in discards
    BY <1>1, <1>5, <1>6 DEF StatusInv
  <2>4. \A i \in ItemId : file'[i] = Mem'[i] \/ file'[i] = Blank
    BY <1>5
  <2>5. \A i \in Batch : Mem'[i].status \in {"pending", "discarded"}
    BY <1>1, <1>5, <2>1 DEF StatusInv
  <2>6. Busy # 0 => Mem'[Busy].status \in {"retrying", "discarded"}
    BY <1>1, <2>2 DEF StatusInv
  <2>7. Busy # 0 => (Unresolved(file'[Busy]) => Unresolved(Mem'[Busy]))
    BY <1>6, <2>2, <2>4 DEF Unresolved
  <2> QED
    BY <1>4, <1>6, <2>3, <2>4, <2>5, <2>6, <2>7 DEF StatusInv, Unresolved
<1>10. CountedInv'
  BY <1>1, <1>2, <1>3, <1>4, <1>5, <1>6, SingleTypes DEF CountedInv
<1>11. KeptInv'
  BY <1>1, <1>2, <1>3, <1>4, SingleTypes DEF KeptInv
<1>12. UniqueInv'
  <2>1. UniqueIn(Mem, Keys)
    BY <1>1, <1>2 DEF UniqueInv
  <2>2. \A i \in Keys : ~(Unresolved(Mem[i]) /\ GetDedupeKey(Mem[i].ev) = GetDedupeKey(e))
    BY <1>2 DEF AddFailedEvent, IsDuplicate, Mem, Keys
  <2>3. \A i \in Keys : i \in ItemId /\ i # n /\ Mem'[i] = Mem[i]
    BY <1>1, <1>5, <1>6, SingleTypes
  <2>4. UniqueIn(Mem, Keys)'
    BY <1>4, <1>5, <1>6, <2>1, <2>2, <2>3 DEF UniqueIn
  <2> QED
    BY <1>2, <1>4, <2>4 DEF UniqueInv
<1> QED
  BY <1>0, <1>7, <1>8, <1>9, <1>10, <1>11, <1>12 DEF SingleInv

\* Collecting the pending items keeps it.
LEMMA ProcessRetryBatchSingle ==
    ASSUME Managers = 1, SingleInv, ProcessRetryBatch(1)
    PROVE  SingleInv'
<1>1. TypeInv /\ FreshInv /\ FileInv /\ StatusInv /\ CountedInv /\ KeptInv /\ UniqueInv
  BY DEF SingleInv
<1>0. TypeInv'
  BY <1>1, SingleTypes, ProcessRetryBatchTypeInv
<1>2. /\ Batch' \subseteq Keys /\ \A i \in Batch' : Mem[i].status = "pending"
      /\ Batch = {} /\ running = 1
      /\ UNCHANGED <<Mem, Keys, Busy, Answer, running, file, nextId, crashes, attempts,
                     discards, cleaned>>
  BY <1>1, SingleTypes
  DEF ProcessRetryBatch, ShouldRetry, Mem, Keys, Batch, Busy, Answer, TypeInv, TypeOK, history
<1>3. FreshInv' /\ FileInv' /\ KeptInv'
  BY <1>1, <1>2, SingleTypes DEF FreshInv, FileInv, KeptInv
<1>4. StatusInv'
  BY <1>1, <1>2 DEF StatusInv
<1>5. CountedInv'
  BY <1>1, <1>2 DEF CountedInv
<1>6. UniqueInv'
  BY <1>1, <1>2 DEF UniqueInv, UniqueIn
<1> QED
  BY <1>0, <1>3, <1>4, <1>5, <1>6 DEF SingleInv

\* Entering retryItem keeps it: an item that is not pending any more was
\* discarded.
LEMMA BeginRetrySingle ==
    ASSUME Managers = 1, SingleInv, NEW i \in ItemId, BeginRetry(1, i)
    PROVE  SingleInv'
<1>1. TypeInv /\ FreshInv /\ FileInv /\ StatusInv /\ CountedInv /\ KeptInv /\ UniqueInv
  BY DEF SingleInv
<1>0. TypeInv'
  BY <1>1, SingleTypes, BeginRetryTypeInv
<1> DEFINE new == Update(Mem[i], "retrying", Mem[i].retries, TRUE)
<1>2. /\ i \in Batch /\ Busy = 0 /\ running = 1 /\ Busy' = i /\ Batch' = Batch \ {i}
      /\ Mem' = [Mem EXCEPT ![i] = new] /\ Answer = "none"
      /\ UNCHANGED <<Keys, Answer, running, file, nextId, crashes, attempts,
                     discards, cleaned>>
  BY <1>1, SingleTypes
  DEF BeginRetry, Mem, Keys, Batch, Busy, Answer, TypeInv, TypeOK, history
<1>3. /\ Mem'[i] = new /\ \A k \in ItemId : k # i => Mem'[k] = Mem[k]
      /\ new.status = "retrying" /\ new.retries = Mem[i].retries /\ new.ev = Mem[i].ev
      /\ 0 \notin ItemId
  BY <1>1, <1>2, SingleTypes DEF Update
<1>4. FreshInv'
  BY <1>1, <1>2, <1>3 DEF FreshInv
<1>5. FileInv'
  <2> SUFFICES ASSUME NEW k \in ItemId PROVE FileInv!2!(k)'
    BY DEF FileInv
  <2>1. FileInv!2!(k) /\ k # Busy
    BY <1>1, <1>2, <1>3 DEF FileInv
  <2>2. k # i => Mem'[k] = Mem[k]
    BY <1>3
  <2>3. CASE k # i
    BY <1>2, <2>1, <2>2, <2>3
  <2>4. CASE k = i
    <3>1. Mem[i].status \in {"pending", "discarded"}
      BY <1>1, <1>2 DEF StatusInv
    <3> QED
      BY <1>2, <1>3, <2>1, <2>4, <3>1
  <2> QED
    BY <2>3, <2>4
<1>6. StatusInv'
  <2>1. i \in Batch' \/ Unresolved(Mem'[i])
    BY <1>3 DEF Unresolved
  <2> QED
    BY <1>1, <1>2, <1>3, <2>1, SingleTypes DEF StatusInv
<1>7. CountedInv'
  BY <1>1, <1>2, <1>3, SingleTypes DEF CountedInv
<1>8. KeptInv'
  BY <1>1, <1>2 DEF KeptInv
<1>9. UniqueInv'
  <2>1. UniqueIn(Mem, Keys)
    BY <1>1, <1>2 DEF UniqueInv
  <2>2. i \in discards \/ Unresolved(Mem[i])
    BY <1>1, <1>2 DEF StatusInv, Unresolved
  <2>3. \A k \in Keys : Mem'[k].ev = Mem[k].ev /\ (k # i => Mem'[k] = Mem[k])
    BY <1>1, <1>3, SingleTypes
  <2>4. UniqueIn(Mem, Keys)'
    BY <1>2, <2>1, <2>2, <2>3 DEF UniqueIn
  <2> QED
    BY <1>2, <2>4 DEF UniqueInv
<1> QED
  BY <1>0, <1>4, <1>5, <1>6, <1>7, <1>8, <1>9 DEF SingleInv

\* The call of retryFunc keeps it: the attempt is accounted to the call in
\* flight.
LEMMA CallRetryFuncSingle ==
    ASSUME Managers = 1, SingleInv, CallRetryFunc(1)
    PROVE  SingleInv'
<1>1. TypeInv /\ FreshInv /\ FileInv /\ StatusInv /\ CountedInv /\ KeptInv /\ UniqueInv
  BY DEF SingleInv
<1>0. TypeInv'
  BY <1>1, SingleTypes, CallRetryFuncTypeInv
<1>2. /\ Busy # 0 /\ running = 1 /\ Answer = "none" /\ Answer' # "none"
      /\ attempts' = [attempts EXCEPT ![Busy] = @ + 1]
      /\ UNCHANGED <<Mem, Keys, Batch, Busy, running, file, nextId, crashes,
                     discards, cleaned>>
  BY <1>1, SingleTypes
  DEF CallRetryFunc, Mem, Keys, Batch, Busy, Answer, TypeInv, TypeOK
<1>3. /\ Busy \in ItemId /\ attempts'[Busy] = attempts[Busy] + 1
      /\ \A k \in ItemId : k # Busy => attempts'[k] = attempts[k]
  BY <1>1, <1>2, SingleTypes DEF TypeInv, TypeOK
<1>4. FreshInv'
  BY <1>1, <1>2, <1>3 DEF FreshInv
<1>5. FileInv' /\ KeptInv' /\ StatusInv'
  BY <1>1, <1>2 DEF FileInv, KeptInv, StatusInv
<1>6. CountedInv'
  BY <1>1, <1>2, <1>3, SingleTypes DEF CountedInv
<1>7. UniqueInv'
  BY <1>1, <1>2 DEF UniqueInv, UniqueIn
<1> QED
  BY <1>0, <1>4, <1>5, <1>6, <1>7 DEF SingleInv

\* The end of retryItem keeps it: the attempt moves from the call in flight to
\* RetryCount, in memory and in the file.
LEMMA FinishRetrySingle ==
    ASSUME Managers = 1, SingleInv, ~DiskFails, FinishRetry(1)
    PROVE  SingleInv'
<1>1. TypeInv /\ FreshInv /\ FileInv /\ StatusInv /\ CountedInv /\ KeptInv /\ UniqueInv
  BY DEF SingleInv
<1>0. TypeInv'
  BY <1>1, SingleTypes, FinishRetryTypeInv
<1> DEFINE b == Busy
           new == AfterRetry(Mem[b], Answer = "err")
<1>2. /\ Answer # "none" /\ running = 1 /\ Busy' = 0 /\ Answer' = "none"
      /\ Mem' = [Mem EXCEPT ![b] = new] /\ file' = Written(Keys, Mem')
      /\ UNCHANGED <<Keys, Batch, running, nextId, crashes, attempts, discards, cleaned>>
  BY <1>1, SingleTypes
  DEF SaveToDisk, FinishRetry, Mem, Keys, Batch, Busy, Answer, TypeInv, TypeOK, history
<1>3. b \in ItemId /\ b \notin Batch /\ Mem[b] \in Item /\ Mem[b].retries < MaxRetries
  BY <1>1, <1>2, SingleTypes
<1>4. /\ new.retries = Mem[b].retries + 1 /\ new.ev = Mem[b].ev
      /\ new.status \in {"resolved", "exhausted", "pending"}
  BY <1>3, AfterRetryType
<1>5. /\ Mem'[b] = new /\ \A k \in ItemId : k # b => Mem'[k] = Mem[k]
      /\ \A k \in ItemId : IF k \in Keys THEN file'[k] = Mem'[k] ELSE file'[k] = Blank
      /\ 0 \notin ItemId /\ Blank.status = "absent"
  BY <1>1, <1>2, <1>3, SingleTypes DEF Written, Blank
<1>6. FreshInv'
  BY <1>1, <1>2, <1>5 DEF FreshInv
<1>7. FileInv'
  <2> SUFFICES ASSUME NEW k \in ItemId PROVE FileInv!2!(k)'
    BY DEF FileInv
  <2>1. k \in Keys => Mem[k].status # "absent"
    BY <1>1, <1>2 DEF FileInv
  <2>2. k \in Keys => Mem'[k].status # "absent" /\ file'[k] = Mem'[k]
    BY <1>4, <1>5, <2>1
  <2> QED
    BY <1>2, <1>5, <2>2
<1>8. StatusInv'
  <2>1. \A k \in Batch : k # b /\ k \in ItemId
    BY <1>1, <1>3, SingleTypes
  <2>2. \A k \in ItemId : Mem'[k].status = "discarded" => k \in discards
    BY <1>1, <1>4, <1>5 DEF StatusInv
  <2>3. \A k \in Batch : Mem'[k].status \in {"pending", "discarded"}
    BY <1>1, <1>5, <2>1 DEF StatusInv
  <2>4. \A k \in ItemId : file'[k].status = "discarded" => k \in discards
    BY <1>5, <2>2
  <2> QED
    BY <1>2, <2>2, <2>3, <2>4 DEF StatusInv
<1>9. CountedInv'
  BY <1>1, <1>2, <1>3, <1>4, <1>5, SingleTypes DEF CountedInv
<1>10. KeptInv'
  BY <1>1, <1>2 DEF KeptInv
<1>11. UniqueInv'
  <2>1. UniqueIn(Mem, Keys)
    BY <1>1, <1>2 DEF UniqueInv
  <2>2. b \in discards \/ Unresolved(Mem[b])
    BY <1>1, <1>2, <1>3, <1>5 DEF StatusInv, Unresolved
  <2>3. \A k \in Keys : Mem'[k].ev = Mem[k].ev /\ (k # b => Mem'[k] = Mem[k])
    BY <1>1, <1>4, <1>5, SingleTypes
  <2>4. UniqueIn(Mem, Keys)'
    BY <1>2, <2>1, <2>2, <2>3 DEF UniqueIn
  <2> QED
    BY <1>2, <2>4 DEF UniqueInv
<1> QED
  BY <1>0, <1>6, <1>7, <1>8, <1>9, <1>10, <1>11 DEF SingleInv

\* The end of a back-off keeps it.
LEMMA BackoffSingle ==
    ASSUME Managers = 1, SingleInv, NEW i \in ItemId, BackoffElapses(1, i)
    PROVE  SingleInv'
<1>1. TypeInv /\ FreshInv /\ FileInv /\ StatusInv /\ CountedInv /\ KeptInv /\ UniqueInv
  BY DEF SingleInv
<1>0. TypeInv'
  BY <1>1, SingleTypes, BackoffTypeInv
<1> DEFINE new == Update(Mem[i], Mem[i].status, Mem[i].retries, FALSE)
<1>2. /\ Mem' = [Mem EXCEPT ![i] = new]
      /\ UNCHANGED <<Keys, Batch, Busy, Answer, running, file, nextId, crashes, attempts,
                     discards, cleaned>>
  BY <1>1, SingleTypes
  DEF BackoffElapses, Mem, Keys, Batch, Busy, Answer, TypeInv, TypeOK, history
<1>3. \A k \in ItemId : /\ Mem'[k].status = Mem[k].status /\ Mem'[k].ev = Mem[k].ev
                        /\ Mem'[k].retries = Mem[k].retries
  BY <1>1, <1>2, SingleTypes DEF Update
<1>4. FreshInv' /\ KeptInv'
  BY <1>1, <1>2 DEF FreshInv, KeptInv
<1>5. FileInv'
  BY <1>1, <1>2, <1>3, ZenonT(30) DEF FileInv
<1>6. StatusInv'
  BY <1>1, <1>2, <1>3, SingleTypes DEF StatusInv, Unresolved
<1>7. CountedInv'
  BY <1>1, <1>2, <1>3 DEF CountedInv
<1>8. UniqueInv'
  <2>1. UniqueIn(Mem, Keys) => UniqueIn(Mem, Keys)'
    <3>1. \A k \in Keys : /\ Unresolved(Mem'[k]) = Unresolved(Mem[k])
                           /\ Mem'[k].ev = Mem[k].ev
      BY <1>1, <1>3, SingleTypes DEF Unresolved
    <3> QED
      BY <1>2, <3>1 DEF UniqueIn
  <2> QED
    BY <1>1, <1>2, <2>1 DEF UniqueInv, UniqueIn
<1> QED
  BY <1>0, <1>4, <1>5, <1>6, <1>7, <1>8 DEF SingleInv

\* The orphan sweep keeps it: whatever it discards is saved as discarded.
LEMMA OrphanSweepSingle ==
    ASSUME Managers = 1, SingleInv, ~DiskFails, OrphanSweep(1)
    PROVE  SingleInv'
<1>1. TypeInv /\ FreshInv /\ FileInv /\ StatusInv /\ CountedInv /\ KeptInv /\ UniqueInv
  BY DEF SingleInv
<1>0. TypeInv'
  BY <1>1, SingleTypes, OrphanSweepTypeInv
<1>2. CASE ListOrphans(1) \/ \E i \in ItemId : CheckOrphan(1, i)
  BY <1>0, <1>2, IdleSingle DEF ListOrphans, CheckOrphan, history
<1>3. CASE DiscardItem(1) /\ doomed[1] \notin indexed[Current]
  BY <1>0, <1>3, IdleSingle DEF DiscardItem
<1>4. CASE DiscardItem(1) /\ doomed[1] \in indexed[Current]
  <2> DEFINE d == doomed[1]
             new == Update(Mem[d], "discarded", Mem[d].retries, Mem[d].waiting)
  <2>0. running = 1 /\ Current = 1
    BY <1>1, <1>4, SingleTypes DEF DiscardItem, Current
  <2>2. /\ d \in Keys /\ d \in ItemId
        /\ Mem' = [Mem EXCEPT ![d] = new] /\ file' = Written(Keys, Mem')
        /\ discards' = discards \cup {d}
        /\ UNCHANGED <<Keys, Batch, Busy, Answer, running, nextId, crashes, attempts, cleaned>>
    BY <1>1, <1>4, <2>0, SingleTypes
    DEF SaveToDisk, DiscardItem, Mem, Keys, Batch, Busy, Answer, TypeInv, TypeOK
  <2>3. /\ Mem'[d] = new /\ \A k \in ItemId : k # d => Mem'[k] = Mem[k]
        /\ \A k \in ItemId : IF k \in Keys THEN file'[k] = Mem'[k] ELSE file'[k] = Blank
        /\ 0 \notin ItemId /\ Blank.status = "absent"
        /\ new.status = "discarded" /\ new.retries = Mem[d].retries /\ new.ev = Mem[d].ev
    BY <1>1, <2>2, SingleTypes DEF Written, Blank, Update
  <2>4. FreshInv'
    BY <1>1, <2>2, <2>3 DEF FreshInv
  <2>5. FileInv'
    <3> SUFFICES ASSUME NEW k \in ItemId PROVE FileInv!2!(k)'
      BY DEF FileInv
    <3>1. k \in Keys => Mem[k].status # "absent"
      BY <1>1, <2>0 DEF FileInv
    <3>2. k \in Keys => Mem'[k].status # "absent" /\ file'[k] = Mem'[k]
      BY <2>3, <3>1
    <3>3. k = Busy => Mem'[k].status \in {"retrying", "discarded"}
      BY <1>1, <2>3 DEF StatusInv
    <3> QED
      BY <2>2, <2>3, <3>2, <3>3
  <2>6. StatusInv'
    <3>1. \A k \in ItemId : Mem'[k].status = "discarded" => k \in discards'
      BY <1>1, <2>2, <2>3 DEF StatusInv
    <3>2. \A k \in ItemId : file'[k].status = "discarded" => k \in discards'
      BY <2>3, <3>1
    <3>3. \A k \in ItemId : Unresolved(file'[k]) => Unresolved(Mem'[k])
      BY <2>3 DEF Unresolved
    <3>4. \A k \in Batch : Mem'[k].status \in {"pending", "discarded"}
      BY <1>1, <2>3, SingleTypes DEF StatusInv
    <3>5. Busy # 0 => Busy \in ItemId /\ Mem'[Busy].status \in {"retrying", "discarded"}
      BY <1>1, <2>3, SingleTypes DEF StatusInv
    <3> QED
      BY <2>2, <3>1, <3>2, <3>3, <3>4, <3>5 DEF StatusInv
  <2>7. CountedInv'
    BY <1>1, <2>0, <2>2, <2>3, SingleTypes DEF CountedInv
  <2>8. KeptInv'
    BY <1>1, <2>0, <2>2 DEF KeptInv
  <2>9. UniqueInv'
    <3>1. UniqueIn(Mem, Keys)
      BY <1>1, <2>0 DEF UniqueInv
    <3>2. \A k \in Keys : k # d => Mem'[k] = Mem[k]
      BY <1>1, <2>3, SingleTypes
    <3>3. UniqueIn(Mem, Keys)'
      BY <2>2, <3>1, <3>2 DEF UniqueIn
    <3> QED
      BY <2>0, <2>2, <3>3 DEF UniqueInv
  <2> QED
    BY <1>0, <2>4, <2>5, <2>6, <2>7, <2>8, <2>9 DEF SingleInv
<1> QED
  BY <1>2, <1>3, <1>4 DEF OrphanSweep

\* The cleanup task keeps it: what it removes is remembered as cleaned.
LEMMA CleanupSingle ==
    ASSUME Managers = 1, SingleInv, ~DiskFails, NEW oldest \in ItemId, CleanupResolved(oldest)
    PROVE  SingleInv'
<1>1. TypeInv /\ FreshInv /\ FileInv /\ StatusInv /\ CountedInv /\ KeptInv /\ UniqueInv
  BY DEF SingleInv
<1>0. TypeInv'
  BY <1>1, CleanupTypeInv
<1>2. running = 1 /\ Current = 1
  BY <1>1, SingleTypes DEF CleanupResolved, Current
<1>3. PICK done \in SUBSET Keys :
        /\ Keys' = Keys \ done /\ cleaned' = cleaned \cup done
        /\ file' = Written(Keys', Mem)
        /\ UNCHANGED <<Mem, Batch, Busy, Answer, running, nextId, crashes, attempts, discards>>
  <2> DEFINE done == {i \in indexed[Current] : /\ i <= oldest
                         /\ items[Current][i].status \in {"resolved", "discarded"}}
  <2>1. done \subseteq Keys
    BY <1>2 DEF Keys
  <2>2. /\ Keys' = Keys \ done /\ cleaned' = cleaned \cup done
        /\ file' = Written(Keys', Mem)
        /\ UNCHANGED <<Mem, Batch, Busy, Answer, running, nextId, crashes, attempts, discards>>
    BY <1>1, <1>2, SingleTypes
    DEF SaveToDisk, CleanupResolved, Mem, Keys, Batch, Busy, Answer, TypeInv, TypeOK
  <2> QED
    BY <2>1, <2>2
<1>4. /\ \A k \in ItemId : IF k \in Keys' THEN file'[k] = Mem[k] ELSE file'[k] = Blank
      /\ 0 \notin ItemId /\ Blank.status = "absent"
  BY <1>3 DEF Written, Blank, ItemId
<1>5. FreshInv'
  BY <1>1, <1>3, <1>4 DEF FreshInv
<1>6. FileInv'
  <2>1. \A k \in Keys' : k \in Keys /\ Mem'[k] = Mem[k] /\ file'[k] = Mem[k]
    BY <1>1, <1>3, <1>4, SingleTypes
  <2>2. \A k \in ItemId : k \in Keys =>
          /\ Mem[k].status # "absent"
          /\ k = Busy => Mem[k].status \in {"retrying", "discarded"}
    BY <1>1, <1>2, <1>4 DEF FileInv, StatusInv
  <2>3. Busy' = Busy
    BY <1>3
  <2>4. ASSUME NEW k \in ItemId
        PROVE  /\ k \in Keys' =>
                    /\ Mem'[k].status # "absent"
                    /\ file'[k].status # "absent"
                    /\ file'[k].ev = Mem'[k].ev
                    /\ file'[k].retries = Mem'[k].retries
                    /\ k # Busy' => file'[k].status = Mem'[k].status
                    /\ k = Busy' => file'[k].status \in {"pending", "retrying", "discarded"}
               /\ k \notin Keys' => file'[k].status = "absent"
    BY <1>4, <2>1, <2>2, <2>3, <2>4
  <2> QED
    BY <2>4 DEF FileInv
<1>7. StatusInv'
  BY <1>1, <1>3, <1>4, SingleTypes DEF StatusInv, Unresolved
<1>8. CountedInv'
  BY <1>1, <1>2, <1>3, SingleTypes DEF CountedInv
<1>9. KeptInv'
  BY <1>1, <1>2, <1>3 DEF KeptInv
<1>10. UniqueInv'
  BY <1>1, <1>2, <1>3 DEF UniqueInv, UniqueIn
<1> QED
  BY <1>0, <1>5, <1>6, <1>7, <1>8, <1>9, <1>10 DEF SingleInv

\* Every step of a process with one manager keeps the invariant.
LEMMA NextSingleInv ==
    ASSUME Managers = 1, SingleInv, ~DiskFails, [Next]_vars
    PROVE  SingleInv'
<1>0. TypeInv'
  BY NextTypeInv DEF SingleInv
<1>1. Manager = {1}
  BY ConstantsAssumption DEF Manager
<1>2. CASE UNCHANGED vars
  BY <1>0, <1>2, IdleSingle DEF vars
<1>3. ASSUME NEW j \in Job, CreateJob(j) PROVE SingleInv'
  BY <1>0, <1>3, IdleSingle DEF CreateJob, memory, history
<1>4. ASSUME RetryLoop(1) PROVE SingleInv'
  BY <1>4, ProcessRetryBatchSingle, BeginRetrySingle, CallRetryFuncSingle,
     FinishRetrySingle DEF RetryLoop
<1> QED
  BY <1>1, <1>2, <1>3, <1>4, NewDLQManagerSingle, CrashSingle, AddFailedEventSingle,
     OrphanSweepSingle, BackoffSingle, CleanupSingle DEF Next

\* Errors of the disk are never forgotten, and with MaxDiskErrors = 0 there are none.
LEMMA DiskErrorsGrow ==
    ASSUME TypeInv, [Next]_vars
    PROVE  diskErrors' = 0 => diskErrors = 0 /\ ~DiskFails
<1>1. diskErrors \in Nat
  BY ConstantsAssumption DEF TypeInv, TypeOK
<1>2. UNCHANGED diskErrors \/ DiskFails
  BY DEF Next, RetryLoop, OrphanSweep, NewDLQManager, CreateJob, Crash, AddFailedEvent,
     ProcessRetryBatch, BeginRetry, CallRetryFunc, FinishRetry, BackoffElapses,
     ListOrphans, CheckOrphan, DiscardItem, CleanupResolved, SaveToDisk, LoadFromDisk, vars
<1> QED
  BY <1>1, <1>2 DEF DiskFails

\* With one manager the invariant holds until the disk first fails.
LEMMA SingleInvariant ==
    ASSUME Managers = 1
    PROVE  Spec => []( TypeInv /\ (diskErrors = 0 => SingleInv))
<1>1. Init => TypeInv /\ SingleInv
  BY InitTypeInv, InitSingleInv
<1>2. TypeInv /\ (diskErrors = 0 => SingleInv) /\ [Next]_vars
         => TypeInv' /\ (diskErrors = 0 => SingleInv)'
  BY NextTypeInv, DiskErrorsGrow, NextSingleInv
<1> QED
  BY <1>1, <1>2, PTL DEF Spec

\* On a disk that never fails it holds throughout.
LEMMA SoundDisk ==
    ASSUME Managers = 1, MaxDiskErrors = 0
    PROVE  Spec => []SingleInv
<1>1. TypeInv /\ (diskErrors = 0 => SingleInv) => SingleInv
  BY DEF TypeInv, TypeOK
<1> QED
  BY <1>1, SingleInvariant, PTL

\* A crash costs at most one uncounted attempt, so the sink sees an item at most
\* MaxRetries + crashes times.  Unlike the runs this covers torn files as well.
THEOREM RetryBudgetHolds == ASSUME Managers = 1 PROVE Spec => []RetryBudget
<1>1. (diskErrors = 0 => SingleInv) => RetryBudget
  <2> SUFFICES ASSUME SingleInv, NEW i \in ItemId
               PROVE  attempts[i] <= MaxRetries + crashes
    BY DEF RetryBudget
  <2>1. TypeInv /\ CountedInv
    BY DEF SingleInv
  <2> QED
    BY <2>1, SingleTypes DEF CountedInv
<1> QED
  BY <1>1, SingleInvariant, PTL

\* Nothing AddFailedEvent accepted is lost, over any number of crashes, if a
\* crash never tears the file.
THEOREM AcceptedSurviveHolds ==
    ASSUME Managers = 1, TornWrites = FALSE
    PROVE  Spec => []AcceptedSurvive
<1>1. (diskErrors = 0 => SingleInv) => AcceptedSurvive
  <2> SUFFICES ASSUME SingleInv, running = Managers, NEW i \in 1..(nextId - 1)
               PROVE  i \in indexed[Current] \/ i \in cleaned
    BY DEF AcceptedSurvive
  <2>1. i \in ItemId /\ i < nextId /\ running = 1 /\ Current = 1
    BY ConstantsAssumption DEF SingleInv, TypeInv, TypeOK, ItemId, Current
  <2> QED
    BY <2>1 DEF SingleInv, KeptInv, Keys
<1> QED
  BY <1>1, SingleInvariant, PTL

\* The file never disagrees with the map about more than the item in flight.
THEOREM FileTracksMemoryHolds == ASSUME Managers = 1 PROVE Spec => []FileTracksMemory
<1>1. (diskErrors = 0 => SingleInv) => FileTracksMemory
  BY DEF SingleInv, FileInv, FileTracksMemory, Current, Mem, Keys, Busy
<1> QED
  BY <1>1, SingleInvariant, PTL

\* Deduplication works up to the race with the orphan sweep.
THEOREM UnresolvedUniqueHolds ==
    ASSUME Managers = 1, MaxDiskErrors = 0
    PROVE  Spec => []UnresolvedUnique
<1>1. SingleInv => UnresolvedUnique
  BY DEF SingleInv, UniqueInv, UniqueIn, UnresolvedUnique, Current, Mem, Keys
<1> QED
  BY <1>1, SoundDisk, PTL

\* An entry of the file that is settled stays so: retryItem only ever works on
\* items that were pending when collected, and what it finds instead by then is
\* a discarded item.
THEOREM SettledIsFinalHolds ==
    ASSUME Managers = 1, MaxDiskErrors = 0
    PROVE  Spec => SettledIsFinal
<1> DEFINE Final == \A i \in ItemId : file[i].status \in {"resolved", "exhausted"}
                                      => ~Unresolved(file'[i])
<1>1. SingleInv /\ [Next]_vars => [Final]_vars
  <2> SUFFICES ASSUME SingleInv, Next PROVE Final
    OBVIOUS
  <2>0. ~DiskFails
    BY DEF DiskFails, SingleInv, TypeInv, TypeOK
  <2>1. TypeInv /\ FreshInv /\ FileInv /\ StatusInv /\ Manager = {1}
    BY ConstantsAssumption DEF SingleInv, Manager
  <2>2. CASE UNCHANGED file
    BY <2>2 DEF Unresolved
  <2>3. Blank.status = "absent" /\ ~Unresolved(Blank)
    BY DEF Blank, Unresolved
  <2>4. running = 1 => \A i \in ItemId : file[i].status \in {"resolved", "exhausted"} =>
            /\ i \in Keys /\ i # Busy /\ i < nextId
            /\ Mem[i].status \in {"resolved", "exhausted"}
    BY <2>1, SingleTypes DEF FileInv, FreshInv
  <2>5. ASSUME running = 1, NEW keys,
               \A i \in ItemId : \/ items'[1][i] = items[1][i]
                                 \/ i = Busy \/ i = nextId
                                 \/ items'[1][i].status = "discarded",
               file' = Written(keys, items'[1])
        PROVE  Final
    <3> SUFFICES ASSUME NEW i \in ItemId, file[i].status \in {"resolved", "exhausted"}
                 PROVE  ~Unresolved(file'[i])
      OBVIOUS
    <3>1. file'[i] = items'[1][i] \/ file'[i] = Blank
      BY <2>5 DEF Written
    <3>2. i # Busy /\ i # nextId /\ Mem[i].status \in {"resolved", "exhausted"}
      BY <2>1, <2>4, <2>5, SingleTypes
    <3>3. items'[1][i].status \in {"resolved", "exhausted", "discarded"}
      BY <2>5, <3>2 DEF Mem
    <3> QED
      BY <2>3, <3>1, <3>3 DEF Unresolved
  <2>6. CASE Crash
    BY <2>2, <2>3, <2>6 DEF Crash, NoItems
  <2>7. ASSUME NEW e \in Event, AddFailedEvent(e) PROVE Final
    <3>1. running = 1 /\ Current = 1
      BY <2>7 DEF AddFailedEvent, Current
    <3>2. \A i \in ItemId : i # nextId => items'[1][i] = items[1][i]
      BY <2>1, <2>7, <3>1 DEF AddFailedEvent, TypeInv, TypeOK
    <3> QED
      BY <2>0, <2>5, <2>7, <3>1, <3>2 DEF SaveToDisk, AddFailedEvent
  <2>8. CASE FinishRetry(1)
    <3>1. running = 1
      BY <2>1, <2>8, SingleTypes DEF FinishRetry
    <3>2. \A i \in ItemId : i # Busy => items'[1][i] = items[1][i]
      BY <2>1, <2>8 DEF FinishRetry, Busy, TypeInv, TypeOK
    <3> QED
      BY <2>0, <2>5, <2>8, <3>1, <3>2 DEF SaveToDisk, FinishRetry
  <2>9. CASE DiscardItem(1)
    <3>1. running = 1 /\ Current = 1
      BY <2>1, <2>9, SingleTypes DEF DiscardItem, Current
    <3>2. CASE doomed[1] \notin indexed[1]
      BY <2>2, <2>9, <3>1, <3>2 DEF DiscardItem
    <3>3. CASE doomed[1] \in indexed[1]
      <4>1. \A i \in ItemId : items'[1][i] = items[1][i] \/ items'[1][i].status = "discarded"
        BY <2>1, <2>9, <3>1, <3>3 DEF DiscardItem, Update, TypeInv, TypeOK
      <4> QED
        BY <2>0, <2>5, <2>9, <3>1, <3>3, <4>1 DEF SaveToDisk, DiscardItem
    <3> QED
      BY <3>2, <3>3
  <2>10. ASSUME NEW oldest \in ItemId, CleanupResolved(oldest) PROVE Final
    <3>1. running = 1 /\ Current = 1
      BY <2>1, <2>10, SingleTypes DEF CleanupResolved, Current
    <3> QED
      BY <2>0, <2>5, <2>10, <3>1 DEF SaveToDisk, CleanupResolved
  <2>11. ASSUME \/ NewDLQManager
                \/ \E j \in Job : CreateJob(j)
                \/ ProcessRetryBatch(1)
                \/ \E i \in ItemId : BeginRetry(1, i)
                \/ CallRetryFunc(1)
                \/ ListOrphans(1)
                \/ \E i \in ItemId : CheckOrphan(1, i)
                \/ \E i \in ItemId : BackoffElapses(1, i)
         PROVE  Final
    BY <2>2, <2>11 DEF NewDLQManager, CreateJob, ProcessRetryBatch, BeginRetry,
       CallRetryFunc, ListOrphans, CheckOrphan, BackoffElapses
  <2> QED
    BY <2>1, <2>6, <2>7, <2>8, <2>9, <2>10, <2>11 DEF Next, RetryLoop, OrphanSweep
<1>2. SettledIsFinal <=> [][Final]_vars
  BY DEF SettledIsFinal
<1> QED
  BY <1>1, <1>2, SoundDisk, PTL DEF Spec

-----------------------------------------------------------------------------
(* The refinement of LetterBox.  While the manager runs, its map shows the *)
(* same letters as the file: the item in flight has no outcome in either.  *)

MemLetter(i) ==
    [ev |-> Mem[i].ev, tries |-> Mem[i].retries,
     outcome |-> IF i \notin discards /\ Mem[i].status \in {"resolved", "exhausted"}
                 THEN Mem[i].status ELSE "none"]

\* The letters of the file are those of the map.
LEMMA LettersInMemory ==
    ASSUME Managers = 1, SingleInv, running = 1
    PROVE  Letters = [i \in Keys |-> MemLetter(i)]
<1>1. TypeInv /\ FileInv /\ StatusInv
  BY DEF SingleInv
<1>2. Keys \subseteq ItemId /\ 0 \notin ItemId
  BY <1>1, SingleTypes
<1>3. {k \in ItemId : file[k].status # "absent"} = Keys
  BY <1>1, <1>2 DEF FileInv
<1>4. ASSUME NEW i \in Keys
      PROVE  [ev |-> file[i].ev, tries |-> file[i].retries, outcome |-> Outcome(i)] = MemLetter(i)
  <2>1. i \in ItemId /\ file[i].ev = Mem[i].ev /\ file[i].retries = Mem[i].retries
    BY <1>1, <1>2 DEF FileInv
  <2>2. CASE i # Busy
    <3>1. file[i].status = Mem[i].status
      BY <1>1, <2>1, <2>2 DEF FileInv
    <3> QED
      BY <2>1, <3>1 DEF MemLetter, Outcome
  <2>3. CASE i = Busy
    <3>1. file[i].status \notin {"resolved", "exhausted"}
      BY <1>1, <2>1, <2>3 DEF FileInv
    <3>2. Mem[i].status \notin {"resolved", "exhausted"}
      BY <1>1, <1>2, <2>1, <2>3 DEF StatusInv
    <3> QED
      BY <2>1, <3>1, <3>2 DEF MemLetter, Outcome
  <2> QED
    BY <2>2, <2>3
<1> QED
  BY <1>3, <1>4 DEF Letters

\* The same after a step.
Matching == Letters = [i \in Keys |-> MemLetter(i)]

LEMMA MatchingBefore == ASSUME Managers = 1 PROVE SingleInv /\ running = 1 => Matching
BY LettersInMemory DEF Matching

LEMMA MatchingAfter == ASSUME Managers = 1 PROVE SingleInv' /\ (running = 1)' => Matching'
BY MatchingBefore, PTL

\* A step that neither saves nor discards shows the same letters.
LEMMA SameLetters ==
    ASSUME UNCHANGED <<file, discards, nextId>> PROVE UNCHANGED Promise!vars
<1>1. \A i : Outcome(i)' = Outcome(i)
  BY DEF Outcome
<1>2. Letters' = Letters
  BY <1>1 DEF Letters
<1> QED
  BY <1>2 DEF Promise!vars

\* AddFailedEvent accepts a letter.
LEMMA AcceptLetter ==
    ASSUME Managers = 1, SingleInv, ~DiskFails, SingleInv', NEW e \in Event, AddFailedEvent(e)
    PROVE  Promise!Next
<1>1. TypeInv /\ FreshInv /\ running = 1 /\ running' = 1 /\ Current = 1
  BY DEF SingleInv, AddFailedEvent, Current
<1>2. PICK n : n = nextId
  OBVIOUS
<1>3. n \in ItemId
  BY <1>1, <1>2, ConstantsAssumption DEF AddFailedEvent, TypeInv, TypeOK, ItemId
<1>4. /\ Mem' = [Mem EXCEPT ![n] = NewItem(e)] /\ Keys' = Keys \cup {n}
      /\ nextId' = n + 1 /\ discards' = discards
  BY <1>1, <1>2, SingleTypes DEF AddFailedEvent, Mem, Keys, TypeInv, TypeOK, history
<1>5. Mem \in [ItemId -> Item] /\ Keys \subseteq ItemId /\ n \notin Keys /\ n \in Nat
  BY <1>1, <1>2, <1>3, SingleTypes DEF FreshInv
<1>6. (nextId - 1) + 1 = n /\ nextId' - 1 = (nextId - 1) + 1
  BY <1>2, <1>4, <1>5
<1>7. Letters = [i \in Keys |-> MemLetter(i)]
  BY <1>1, LettersInMemory
<1>8. Letters' = [i \in Keys' |-> MemLetter(i)']
  BY <1>1, MatchingAfter DEF Matching
<1>9. \A i \in Keys : MemLetter(i)' = MemLetter(i) /\ i # n
  BY <1>4, <1>5 DEF MemLetter
<1>10. MemLetter(n)' = [ev |-> e, tries |-> 0, outcome |-> "none"]
  BY <1>3, <1>4, <1>5 DEF MemLetter, NewItem
<1>11. Letters' = [i \in DOMAIN Letters \cup {n} |->
                     IF i = n THEN [ev |-> e, tries |-> 0, outcome |-> "none"] ELSE Letters[i]]
  <2>1. DOMAIN Letters = Keys /\ \A i \in Keys : Letters[i] = MemLetter(i)
    BY <1>7
  <2>2. \A i \in Keys' : MemLetter(i)' =
           IF i = n THEN [ev |-> e, tries |-> 0, outcome |-> "none"] ELSE Letters[i]
    BY <1>4, <1>9, <1>10, <2>1
  <2>3. DOMAIN Letters \cup {n} = Keys'
    BY <1>4, <2>1
  <2> QED
    BY <1>8, <2>2, <2>3
<1>12. \A i \in DOMAIN Letters : Promise!Waits(i) => GetDedupeKey(Letters[i].ev) # GetDedupeKey(e)
  <2> SUFFICES ASSUME NEW i \in Keys, i \notin discards, MemLetter(i).outcome = "none"
               PROVE  GetDedupeKey(MemLetter(i).ev) # GetDedupeKey(e)
    BY <1>7 DEF Promise!Waits
  <2>1. Mem[i].status # "absent" /\ Mem[i].status # "discarded" /\ Mem[i] \in Item
    BY <1>1, <1>5 DEF SingleInv, FileInv, StatusInv
  <2>2. Mem[i].status \in Status /\ Mem[i].status \notin {"resolved", "exhausted"}
    BY <2>1 DEF MemLetter, Item
  <2>3. Unresolved(Mem[i])
    BY <2>1, <2>2 DEF Unresolved, Status
  <2>4. GetDedupeKey(Mem[i].ev) # GetDedupeKey(e)
    BY <1>1, <2>3 DEF AddFailedEvent, IsDuplicate, Mem, Keys
  <2> QED
    BY <2>4 DEF MemLetter
<1>13. Promise!Accept(e)
  BY <1>4, <1>6, <1>11, <1>12 DEF Promise!Accept
<1> QED
  BY <1>13 DEF Promise!Next

\* The end of retryItem is a try of the letter, if it is still there.
LEMMA TryLetter ==
    ASSUME Managers = 1, SingleInv, ~DiskFails, SingleInv', FinishRetry(1)
    PROVE  Promise!Next \/ UNCHANGED Promise!vars
<1>0. PICK b : b = Busy
  OBVIOUS
<1> DEFINE new == AfterRetry(Mem[b], Answer = "err")
<1>1. TypeInv /\ StatusInv
  BY DEF SingleInv
<1>2. /\ Answer # "none" /\ running = 1 /\ running' = 1
      /\ Mem' = [Mem EXCEPT ![b] = new]
      /\ Keys' = Keys /\ discards' = discards /\ nextId' = nextId
  BY <1>0, <1>1, SingleTypes DEF FinishRetry, Mem, Keys, Busy, Answer, TypeInv, TypeOK, history
<1>3. /\ Mem \in [ItemId -> Item] /\ Keys \subseteq ItemId
      /\ b \in ItemId /\ Mem[b].retries < MaxRetries /\ Mem[b].retries \in Nat
      /\ Mem[b].status \in {"retrying", "discarded"} /\ MaxRetries \in Nat
  BY <1>0, <1>1, <1>2, SingleTypes DEF StatusInv
<1>4. /\ new.retries = Mem[b].retries + 1 /\ new.ev = Mem[b].ev
      /\ new.status \in {"resolved", IF Mem[b].retries + 1 = MaxRetries THEN "exhausted" ELSE "pending"}
  BY <1>3 DEF AfterRetry, Update
<1> HIDE DEF new
<1>5. Letters = [i \in Keys |-> MemLetter(i)] /\ Letters' = [i \in Keys |-> MemLetter(i)']
  BY <1>2, MatchingBefore, MatchingAfter DEF Matching
<1>6. \A i \in Keys : i # b => MemLetter(i)' = MemLetter(i)
  BY <1>2, <1>3 DEF MemLetter
<1>7. CASE b \notin Keys
  <2>1. Letters' = Letters
    BY <1>5, <1>6, <1>7
  <2> QED
    BY <1>2, <2>1 DEF Promise!vars
<1>8. CASE b \in Keys
  <2> DEFINE o == IF new.status = "pending" THEN "none" ELSE new.status
  <2>1. Letters[b] = [ev |-> Mem[b].ev, tries |-> Mem[b].retries, outcome |-> "none"]
    BY <1>3, <1>5, <1>8 DEF MemLetter
  <2>2. MemLetter(b)' = [ev |-> Mem[b].ev, tries |-> Mem[b].retries + 1,
                         outcome |-> IF b \in discards THEN "none" ELSE o]
    BY <1>2, <1>3, <1>4 DEF MemLetter
  <2>3. o \in {"resolved", IF Letters[b].tries + 1 = MaxRetries THEN "exhausted" ELSE "none"}
    BY <1>4, <2>1
  <2> HIDE DEF o
  <2>4. MemLetter(b)' = Promise!Tried(b, o)
    BY <2>1, <2>2 DEF Promise!Tried
  <2>5. Letters' = [Letters EXCEPT ![b] = Promise!Tried(b, o)]
    <3>1. DOMAIN Letters = Keys /\ \A i \in Keys : Letters[i] = MemLetter(i)
      BY <1>5
    <3>2. \A i \in Keys : MemLetter(i)' = IF i = b THEN Promise!Tried(b, o) ELSE Letters[i]
      BY <1>6, <2>4, <3>1
    <3> QED
      BY <1>5, <3>1, <3>2
  <2>6. Promise!Try(b)
    <3>1. Letters[b].outcome = "none" /\ Letters[b].tries < MaxRetries
      BY <1>3, <2>1
    <3>2. nextId' - 1 = nextId - 1 /\ discards' = discards
      BY <1>2
    <3> QED
      BY <2>3, <2>5, <3>1, <3>2 DEF Promise!Try
  <2>7. b \in DOMAIN Letters
    BY <1>5, <1>8
  <2> QED
    BY <2>6, <2>7 DEF Promise!Next
<1> QED
  BY <1>7, <1>8

\* DiscardItem withdraws a letter.
LEMMA WithdrawLetter ==
    ASSUME Managers = 1, SingleInv, ~DiskFails, SingleInv', DiscardItem(1)
    PROVE  Promise!Next \/ UNCHANGED Promise!vars
<1>0. PICK d : d = doomed[1]
  OBVIOUS
<1> DEFINE new == Update(Mem[d], "discarded", Mem[d].retries, Mem[d].waiting)
<1>1. TypeInv /\ running = 1 /\ running' = 1 /\ Current = 1
  BY SingleTypes DEF SingleInv, DiscardItem, Current
<1>2. CASE d \notin indexed[Current]
  BY <1>0, <1>2, SameLetters DEF DiscardItem
<1>3. CASE d \in indexed[Current]
  <2>1. /\ d \in Keys /\ Mem' = [Mem EXCEPT ![d] = new] /\ Keys' = Keys
        /\ discards' = discards \cup {d} /\ nextId' = nextId
    BY <1>0, <1>1, <1>3, SingleTypes DEF DiscardItem, Mem, Keys, TypeInv, TypeOK
  <2>2. Mem \in [ItemId -> Item] /\ Keys \subseteq ItemId
    BY <1>1, SingleTypes
  <2>3. Letters = [i \in Keys |-> MemLetter(i)] /\ Letters' = [i \in Keys |-> MemLetter(i)']
    BY <1>1, <2>1, MatchingBefore, MatchingAfter DEF Matching
  <2>4. \A i \in Keys : i # d => MemLetter(i)' = MemLetter(i)
    BY <2>1, <2>2 DEF MemLetter
  <2>5. MemLetter(d)' = [ev |-> Mem[d].ev, tries |-> Mem[d].retries, outcome |-> "none"]
    BY <2>1, <2>2 DEF MemLetter, Update
  <2>6. DOMAIN Letters = Keys /\ \A i \in Keys : Letters[i] = MemLetter(i)
    BY <2>3
  <2>7. Letters[d].ev = Mem[d].ev /\ Letters[d].tries = Mem[d].retries
    BY <2>1, <2>6 DEF MemLetter
  <2>8. Letters' = [Letters EXCEPT ![d] = [ev |-> Letters[d].ev, tries |-> Letters[d].tries, outcome |-> "none"]]
    BY <2>3, <2>4, <2>5, <2>6, <2>7
  <2>9. Promise!Withdraw(d) /\ d \in DOMAIN Letters
    BY <2>1, <2>6, <2>8 DEF Promise!Withdraw
  <2> QED
    BY <2>9 DEF Promise!Next
<1> QED
  BY <1>2, <1>3

\* CleanupResolved removes resolved and withdrawn letters.
LEMMA RemoveLetters ==
    ASSUME Managers = 1, SingleInv, ~DiskFails, SingleInv', NEW oldest \in ItemId, CleanupResolved(oldest)
    PROVE  Promise!Next
<1> DEFINE gone == {i \in Keys : i <= oldest /\ Mem[i].status \in {"resolved", "discarded"}}
<1>1. TypeInv /\ StatusInv /\ running = 1 /\ running' = 1 /\ Current = 1
  BY SingleTypes DEF SingleInv, CleanupResolved, Current
<1>2. Keys' = Keys \ gone /\ Mem' = Mem /\ discards' = discards /\ nextId' = nextId
  BY <1>1, SingleTypes DEF CleanupResolved, Mem, Keys, TypeInv, TypeOK
<1>3. Letters = [i \in Keys |-> MemLetter(i)] /\ Letters' = [i \in Keys' |-> MemLetter(i)']
  BY <1>1, MatchingBefore, MatchingAfter DEF Matching
<1>4. \A i : MemLetter(i)' = MemLetter(i)
  BY <1>2 DEF MemLetter
<1>5. DOMAIN Letters = Keys /\ \A i \in Keys : Letters[i] = MemLetter(i)
  BY <1>3
<1>6. Letters' = [i \in DOMAIN Letters \ gone |-> Letters[i]]
  BY <1>2, <1>3, <1>4, <1>5
<1>7. \A i \in gone : i \in discards \/ Letters[i].outcome = "resolved"
  <2> SUFFICES ASSUME NEW i \in Keys, Mem[i].status \in {"resolved", "discarded"}
               PROVE  i \in discards \/ Letters[i].outcome = "resolved"
    OBVIOUS
  <2>1. i \in ItemId
    BY <1>1, SingleTypes
  <2> QED
    BY <1>1, <1>5, <2>1 DEF StatusInv, MemLetter
<1>8. gone \in SUBSET DOMAIN Letters
  BY <1>5
<1> HIDE DEF gone
<1>9. Promise!Remove(gone)
  BY <1>2, <1>6, <1>7 DEF Promise!Remove
<1> QED
  BY <1>8, <1>9 DEF Promise!Next

\* Every step is a step of LetterBox or leaves its variables alone.
LEMMA LetterBoxStep ==
    ASSUME Managers = 1, TornWrites = FALSE, SingleInv, ~DiskFails, SingleInv', [Next]_vars
    PROVE  [Promise!Next]_(Promise!vars)
<1>1. Manager = {1}
  BY ConstantsAssumption DEF Manager
<1>2. CASE \/ UNCHANGED vars
           \/ NewDLQManager \/ Crash
           \/ \E j \in Job : CreateJob(j)
           \/ ProcessRetryBatch(1)
           \/ \E i \in ItemId : BeginRetry(1, i)
           \/ CallRetryFunc(1)
           \/ ListOrphans(1)
           \/ \E i \in ItemId : CheckOrphan(1, i)
           \/ \E i \in ItemId : BackoffElapses(1, i)
  <2>1. UNCHANGED <<file, discards, nextId>>
    BY <1>2 DEF vars, NewDLQManager, Crash, CreateJob, ProcessRetryBatch, BeginRetry,
       CallRetryFunc, ListOrphans, CheckOrphan, BackoffElapses, history
  <2> QED
    BY <2>1, SameLetters
<1>3. ASSUME NEW e \in Event, AddFailedEvent(e) PROVE [Promise!Next]_(Promise!vars)
  BY <1>3, AcceptLetter
<1>4. CASE FinishRetry(1)
  BY <1>4, TryLetter
<1>5. CASE DiscardItem(1)
  BY <1>5, WithdrawLetter
<1>6. ASSUME NEW oldest \in ItemId, CleanupResolved(oldest) PROVE [Promise!Next]_(Promise!vars)
  BY <1>6, RemoveLetters
<1> QED
  BY <1>1, <1>2, <1>3, <1>4, <1>5, <1>6 DEF Next, RetryLoop, OrphanSweep

\* The file of one manager implements LetterBox, for any number of items, retries
\* and crashes, if no crash tears it: no letter changes its event, is tried too
\* often, or leaves the box before it is resolved or discarded.
THEOREM LetterBoxRefinement ==
    ASSUME Managers = 1, TornWrites = FALSE
    PROVE  Spec => ImplementsLetterBox
<1>1. Init => Promise!Init
  <2> SUFFICES ASSUME Init PROVE Promise!Init
    OBVIOUS
  <2>1. {k \in ItemId : file[k].status # "absent"} = {}
    BY DEF Init, NoItems, Blank
  <2>2. Letters = << >>
    BY <2>1 DEF Letters
  <2> QED
    BY <2>2 DEF Init, Promise!Init
<1> DEFINE Step == Promise!Next \/ diskErrors' # 0
<1>2. /\ TypeInv /\ (diskErrors = 0 => SingleInv)
      /\ (diskErrors = 0 => SingleInv)' /\ [Next]_vars
      => [Step]_(Promise!vars)
  BY DiskErrorsGrow, LetterBoxStep
<1>3. ImplementsLetterBox <=> Promise!Init /\ [][Step]_(Promise!vars)
  BY DEF ImplementsLetterBox
<1> HIDE DEF Step
<1> QED
  BY <1>1, <1>2, <1>3, SingleInvariant, PTL DEF Spec
=============================================================================
