------------------------------ MODULE BulkSink ------------------------------
(***************************************************************************)
(* The Elasticsearch sink: BulkWrite, as the batch writer of a job and the *)
(* retry of the dead letter queue call it at the same time.  Every call    *)
(* makes a bulk indexer of its own (esutil, external), whose workers take  *)
(* items from one queue and send what they have collected as one request.  *)
(* A call that returns early leaves its indexer behind, running.           *)
(***************************************************************************)
EXTENDS Integers, Sequences, FiniteSets, SequencesExt

CONSTANTS
    Events,      \* the job's events, oldest first: [table, pk, op]
    IndexName,   \* generateIndexName: table -> index
    Workers,     \* the bulk indexer's workers
    HasBinlogPos,\* TRUE iff the events carry a MySQL binlog position
    MaxRetries,  \* DLQConfig.MaxRetries
    MaxBatch,    \* bound: events in a batch
    MaxIndexers, \* bound: bulk indexers at a time
    MaxFaults    \* bound: calls and requests that go wrong

ASSUME BulkSinkAssumption ==
    /\ Events \in Seq(Range(Events))
    /\ \A e \in DOMAIN Events : Events[e].table \in DOMAIN IndexName /\ Events[e].op \in {"index", "delete"}
    /\ HasBinlogPos \in BOOLEAN /\ MaxRetries \in Nat \ {0}
    /\ MaxBatch \in Nat \ {0} /\ MaxIndexers \in Nat \ {0, 1} /\ MaxFaults \in Nat

Callers == {"cdc", "dlq"}
Slots == 1..MaxIndexers

VARIABLES
    next,     \* events the job has handed to the sink
    calls,    \* BulkWrite as called by each caller
    indexers, \* the bulk indexers, by slot
    exists,   \* indices that exist
    ver,      \* document -> the event it shows or was deleted by, 0: none
    written,  \* history: events applied at least once
    accepted, \* events of calls that returned no error
    dead,     \* events in the dead letter queue, not resolved
    tries,    \* event -> RetryCount of its item: exhausted at MaxRetries
    faults    \* counts what MaxFaults bounds

vars == <<next, calls, indexers, exists, ver, written, accepted, dead, tries, faults>>

Doc(e) == <<IndexName[Events[e].table], Events[e].pk>>
Docs == {Doc(e) : e \in DOMAIN Events}
Index(e) == Doc(e)[1]

Idle == [st |-> "idle"]
Gone == [st |-> "gone"]    \* the process has died
Ended == {Idle, Gone}
Free == [owner |-> "none"]
Drained(x) == x.queue = << >> /\ \A w \in Workers : x.buf[w] = << >>

-----------------------------------------------------------------------------
(* Opening a call. *)

Open(c, batch) ==
    /\ calls[c] = Idle
    /\ \E s \in Slots :
        /\ indexers[s] = Free
        /\ \A r \in 1..(s - 1) : indexers[r] # Free
        /\ calls' = [calls EXCEPT ![c] = [st |-> "recv", batch |-> batch, pos |-> 0, created |-> {}, slot |-> s]]
        /\ indexers' = [indexers EXCEPT ![s] =
               [owner |-> c, batch |-> batch, queue |-> << >>, buf |-> [w \in Workers |-> << >>],
                failed |-> FALSE, told |-> FALSE, left |-> FALSE]]
    /\ UNCHANGED <<exists, ver, written, accepted, tries, faults>>

\* sendToSink: the next batch of the change stream.
OpenBatch(n) ==
    /\ next + n <= Len(Events)
    /\ Open("cdc", [i \in 1..n |-> next + i])
    /\ next' = next + n
    /\ UNCHANGED dead

\* An item that is pending, or being retried.
Waits(e) == e \in dead /\ tries[e] < MaxRetries

\* retryItem: one event again, unless its retries are used up.
OpenRetry(e) ==
    /\ Waits(e)
    /\ Open("dlq", <<e>>)
    /\ UNCHANGED <<next, dead>>

\* getDedupeKey, within a job: primary keys of different tables may be equal.
Key(e) == IF HasBinlogPos THEN <<Events[e].pk, e>> ELSE <<Events[e].pk>>

\* AddFailedEvent, for the events of a batch in turn: one whose key an unresolved
\* item has is refused.
Queued(batch) ==
    {batch[i] : i \in {j \in DOMAIN batch :
        /\ \A f \in dead : Waits(f) => Key(f) # Key(batch[j])
        /\ \A k \in 1..(j - 1) : Key(batch[k]) # Key(batch[j])}}

\* Mutant of Return: a retry that succeeds does not resolve its event.
ReturnUnresolved(c, ok) ==
    LET batch == calls[c].batch
    IN  /\ calls' = [calls EXCEPT ![c] = Idle]
        /\ accepted' = IF ok THEN accepted \cup Range(batch) ELSE accepted
        /\ dead' = IF ok THEN dead ELSE dead \cup Queued(batch)
        /\ tries' = IF c = "dlq" /\ ~ok THEN [tries EXCEPT ![batch[1]] = @ + 1] ELSE tries

\* What the caller does with the outcome: flushBatch adds the events of a failed
\* batch to the dead letter queue; a retry that fails is counted, one that
\* succeeds resolves its event.
Return(c, ok) ==
    LET batch == calls[c].batch
    IN  /\ calls' = [calls EXCEPT ![c] = Idle]
        /\ accepted' = IF ok THEN accepted \cup Range(batch) ELSE accepted
        /\ dead' = IF ok THEN dead \ Range(batch) ELSE dead \cup Queued(batch)
        /\ tries' = IF c = "dlq" /\ ~ok THEN [tries EXCEPT ![batch[1]] = @ + 1] ELSE tries

-----------------------------------------------------------------------------
(* Receiving events. *)

Fault == faults < MaxFaults /\ faults' = faults + 1

\* An early return: the bulk indexer is not closed.
Leave(c) ==
    /\ indexers' = [indexers EXCEPT ![calls[c].slot].left = TRUE]
    /\ Return(c, FALSE)

\* The next event whose index this call has ensured, or finds to exist, goes to
\* the indexer's queue.
Receive(c) ==
    LET call == calls[c]
        e == call.batch[call.pos + 1]
    IN  /\ call.st = "recv" /\ call.pos < Len(call.batch)
        /\ Index(e) \in call.created \cup exists
        /\ calls' = [calls EXCEPT ![c].pos = @ + 1, ![c].created = @ \cup {Index(e)}]
        /\ indexers' = [indexers EXCEPT ![call.slot].queue = Append(@, e)]
        /\ UNCHANGED <<next, exists, ver, written, accepted, dead, tries, faults>>

\* Mutant of IndexMissing: the index is not looked for before it is created.
IndexUnchecked(c) ==
    LET call == calls[c]
    IN  /\ call.st = "recv" /\ call.pos < Len(call.batch)
        /\ Index(call.batch[call.pos + 1]) \notin call.created
        /\ calls' = [calls EXCEPT ![c].st = "create"]
        /\ UNCHANGED <<next, indexers, exists, ver, written, accepted, dead, tries, faults>>

\* ensureIndexExists finds no index; createDefaultIndex is a second request.
IndexMissing(c) ==
    LET call == calls[c]
    IN  /\ call.st = "recv" /\ call.pos < Len(call.batch)
        /\ Index(call.batch[call.pos + 1]) \notin exists
        /\ calls' = [calls EXCEPT ![c].st = "create"]
        /\ UNCHANGED <<next, indexers, exists, ver, written, accepted, dead, tries, faults>>

\* It is an error when the other caller has created the index meanwhile.
CreateDefaultIndex(c) ==
    LET call == calls[c]
        i == Index(call.batch[call.pos + 1])
    IN  /\ call.st = "create"
        /\ \/ /\ i \notin exists
              /\ exists' = exists \cup {i}
              /\ calls' = [calls EXCEPT ![c].st = "recv", ![c].created = @ \cup {i}]
              /\ UNCHANGED <<indexers, accepted, dead, tries>>
           \/ /\ i \in exists
              /\ Leave(c)
              /\ UNCHANGED exists
        /\ UNCHANGED <<next, ver, written, faults>>

\* The stream or a request about an index fails, or the caller's time is up, also
\* when all it waits for is Close.
ReceiveFails(c) ==
    /\ calls[c].st \in {"recv", "create"}
    /\ Fault
    /\ Leave(c)
    /\ UNCHANGED <<next, exists, ver, written>>

-----------------------------------------------------------------------------
(* The bulk indexer. *)

Take(s, w) ==
    /\ indexers[s] # Free /\ indexers[s].queue # << >>
    /\ indexers' = [indexers EXCEPT ![s].queue = Tail(@), ![s].buf[w] = Append(@, Head(indexers[s].queue))]
    /\ UNCHANGED <<next, calls, exists, ver, written, accepted, dead, tries, faults>>

\* A document is there when the last item about it before item i, or else the
\* last event applied to it, was no delete.
Present(items, i) ==
    LET d == Doc(items[i])
        before == {j \in 1..(i - 1) : Doc(items[j]) = d}
    IN  IF before = {} THEN ver[d] # 0 /\ Events[ver[d]].op = "index"
        ELSE Events[items[Max(before)]].op = "index"

\* What one request does to the documents, item by item: a delete of a document
\* that is not there fails.
Apply(items) ==
    LET done == {i \in DOMAIN items : Events[items[i]].op = "index" \/ Present(items, i)}
        Of(d) == {i \in done : Doc(items[i]) = d}
    IN  [ver |-> [d \in Docs |-> IF Of(d) = {} THEN ver[d] ELSE items[Max(Of(d))]],
         written |-> written \cup {items[i] : i \in done},
         failed |-> done # DOMAIN items]

\* flush of a worker, after FlushInterval, FlushBytes or on Close.  The request
\* may fail as a whole, and may have been carried out when its answer is lost.
\* NumFailed counts the items of such a request; whether OnFailure is called for
\* them (`told') is up to the library.
Flush(s, w) ==
    /\ indexers[s] # Free /\ indexers[s].buf[w] # << >>
    /\ LET r == Apply(indexers[s].buf[w])
           Sent(bad, told) == indexers' = [indexers EXCEPT ![s].buf[w] = << >>,
                                           ![s].failed = @ \/ bad, ![s].told = @ \/ told]
       IN  \/ ver' = r.ver /\ written' = r.written /\ Sent(r.failed, r.failed) /\ UNCHANGED faults
           \/ \E told \in BOOLEAN :
                /\ Sent(TRUE, told) /\ Fault
                /\ \/ ver' = r.ver /\ written' = r.written
                   \/ UNCHANGED <<ver, written>>
    /\ UNCHANGED <<next, calls, exists, accepted, dead, tries>>

\* An indexer nobody closes, with nothing left to write.
Forgotten(s) ==
    /\ indexers[s] # Free /\ indexers[s].left /\ Drained(indexers[s])
    /\ indexers' = [indexers EXCEPT ![s] = Free]
    /\ UNCHANGED <<next, calls, exists, ver, written, accepted, dead, tries, faults>>

\* Mutant of Close: the indexer's workers are not waited for.
CloseAtOnce(c) ==
    LET call == calls[c]
        x == indexers[call.slot]
    IN  /\ call.st = "recv" /\ call.pos = Len(call.batch)
        /\ indexers' = IF Drained(x) THEN [indexers EXCEPT ![call.slot] = Free] ELSE indexers
        /\ Return(c, ~x.failed)
        /\ UNCHANGED <<next, exists, ver, written, faults>>

\* Mutant of Close: the failures OnFailure has recorded are not looked at.
CloseWithoutCheck(c) ==
    LET call == calls[c]
        x == indexers[call.slot]
    IN  /\ call.st = "recv" /\ call.pos = Len(call.batch)
        /\ Drained(x)
        /\ indexers' = [indexers EXCEPT ![call.slot] = Free]
        /\ Return(c, TRUE)
        /\ UNCHANGED <<next, exists, ver, written, faults>>

\* The end of BulkWrite: Close waits for the workers; any failure is an error.
Close(c) ==
    LET call == calls[c]
        x == indexers[call.slot]
    IN  /\ call.st = "recv" /\ call.pos = Len(call.batch)
        /\ Drained(x)
        /\ x.failed => x.told
        /\ indexers' = [indexers EXCEPT ![call.slot] = Free]
        /\ Return(c, ~x.failed)
        /\ UNCHANGED <<next, exists, ver, written, faults>>

\* ... but the error quotes bulkFailures[0], and nothing recovers from the panic
\* when the list is empty.
Panic(c) ==
    LET call == calls[c]
        x == indexers[call.slot]
    IN  /\ call.st = "recv" /\ call.pos = Len(call.batch)
        /\ Drained(x)
        /\ x.failed /\ ~x.told
        /\ calls' = [d \in Callers |-> Gone]
        /\ indexers' = [s \in Slots |-> Free]
        /\ UNCHANGED <<next, exists, ver, written, accepted, dead, tries, faults>>

-----------------------------------------------------------------------------
Init ==
    /\ next = 0
    /\ calls = [c \in Callers |-> Idle]
    /\ indexers = [s \in Slots |-> Free]
    /\ exists = {}
    /\ ver = [d \in Docs |-> 0]
    /\ written = {} /\ accepted = {} /\ dead = {}
    /\ tries = [e \in DOMAIN Events |-> 0]
    /\ faults = 0

InCall(c) == calls[c] \notin Ended

Call(c) == InCall(c) /\ (Receive(c) \/ IndexMissing(c) \/ CreateDefaultIndex(c) \/ Close(c) \/ Panic(c))

Work(s) == (\E w \in Workers : Take(s, w) \/ Flush(s, w)) \/ Forgotten(s)

Next ==
    \/ \E n \in 1..MaxBatch : OpenBatch(n)
    \/ \E e \in dead : OpenRetry(e)
    \/ \E c \in Callers : Call(c)
    \/ \E c \in Callers : InCall(c) /\ ReceiveFails(c)
    \/ \E s \in Slots : Work(s)

\* Calls and workers run on, and the retry loop comes to every item that waits.
Spec ==
    /\ Init /\ [][Next]_vars
    /\ \A c \in Callers : WF_vars(Call(c))
    /\ \A s \in Slots : WF_vars(Work(s))
    /\ \A e \in DOMAIN Events : WF_vars(OpenRetry(e))

-----------------------------------------------------------------------------
(* Properties. *)

\* BulkWrite returns without an error only when every event of its batch has
\* been applied, by this call or an earlier one, however the workers split it.
AcceptedIsWritten == accepted \subseteq written

TwiceIn(batch, d) == \E i, j \in DOMAIN batch : i # j /\ Doc(batch[i]) = d /\ Doc(batch[j]) = d

\* A document is never put back to an older event, except by a retry of the
\* dead letter queue, by an indexer an earlier call left running, or within a
\* batch that holds two events of the document (the two workers of BulkWrite).
BackOnlyFor(d) ==
    ver'[d] < ver[d] =>
        \E s \in Slots :
            /\ indexers[s] # Free /\ indexers[s] # indexers'[s]
            /\ indexers[s].owner = "dlq" \/ indexers[s].left \/ TwiceIn(indexers[s].batch, d)
GoesBackOnlyIfKnown == [][\A d \in Docs : BackOnlyFor(d)]_vars

\* Every event in the dead letter queue is accepted by a retry in the end, or its
\* retries are used up, unless the process dies: no call waits for a worker, an
\* index or another call for ever (BulkWrite, retryItem).
QueuedSettle == <>[]((\A e \in DOMAIN Events : ~Waits(e)) \/ calls["dlq"] = Gone)

\* A retry of an event that is no delete fails only because of a fault, or once
\* because the other caller creates its index at the same time: nothing a call
\* leaves behind makes later ones fail (ensureIndexExists, BulkWrite).
RetriesFailOnlyIfKnown ==
    \A e \in DOMAIN Events :
        Events[e].op = "index" => tries[e] <= faults + (IF Index(e) \in exists THEN 1 ELSE 0)
=============================================================================
