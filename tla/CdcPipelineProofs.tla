-------------------------- MODULE CdcPipelineProofs --------------------------
(***************************************************************************)
(* Proofs about CdcPipeline, for every value of its constants unless a     *)
(* theorem says otherwise.                                                 *)
(***************************************************************************)
EXTENDS CdcPipeline, WellFoundedInduction, TLAPS

-----------------------------------------------------------------------------
(* The inductive invariant.                                                *)

\* The first event still in the pipeline.
Low == next - InFlightLen

\* What a job that is not started again has read and not handled is a gapless
\* run of the log, within the attempt; while nothing runs there is none.
OrderInv ==
    /\ reader \in {"idle", "up", "stopped"}
    /\ base <= Low /\ base <= head + 1 /\ next <= head + 1
    /\ reader = "idle" =>
         /\ queue = <<>> /\ hand = 0 /\ batch = <<>> /\ phase = "none" /\ lastCp = 0
    /\ \A i \in DOMAIN batch : batch[i] = Low + i - 1
    /\ hand # 0 => hand = Low + Len(batch)
    /\ \A i \in DOMAIN queue : queue[i] = next - Len(queue) + i - 1

\* Whatever has left the pipeline is handled; in a flush, so is what is not to
\* be written, and after the write everything in the batch.
CoverInv ==
    /\ dlq \subseteq parked
    /\ phase = "dlq" => SinkFaults
    /\ reader # "idle" => \A e \in base..(Low - 1) : Handled(e)
    /\ phase \in {"sink", "dlq"} => \A i \in DOMAIN batch \ out : Handled(batch[i])
    /\ phase \in {"checkpoint", "commit"} => \A i \in DOMAIN batch : Handled(batch[i])

\* The checkpoint lies before what is in the pipeline, until it is set to the
\* batch that was written.
MarkInv ==
    /\ phase # "commit" => lastCp < Low
    /\ phase = "commit" => lastCp < Low + Len(batch)

\* Before a crash there is one attempt, and the file is not ahead of memory.
OneStartInv ==
    /\ crashes = 0
    /\ since = 0 <=> reader = "idle"
    /\ since # 0 => since = base
    /\ saved <= lastCp

-----------------------------------------------------------------------------
(* The first and the last of the transformed events.                       *)

\* A non-empty set of natural numbers has a least element.
LEMMA Least ==
    ASSUME NEW S \in SUBSET Nat, S # {}
    PROVE  \E n \in S : \A i \in S : n <= i
<1>1. PICK x \in S : \A y \in S : ~ (<<y, x>> \in OpToRel(<, Nat))
  BY NatLessThanWellFounded, WFMin
<1>2. \A y \in S : ~ (y < x)
  BY <1>1 DEF OpToRel
<1> QED
  BY <1>2

\* One that is bounded has a greatest element.
LEMMA Greatest ==
    ASSUME NEW S \in SUBSET Nat, S # {}, NEW b \in Nat, \A i \in S : i <= b
    PROVE  \E n \in S : \A i \in S : i <= n
<1> DEFINE B == {n \in Nat : \A i \in S : i <= n}
<1>1. B \in SUBSET Nat /\ b \in B
  OBVIOUS
<1> HIDE DEF B
<1>2. PICK n \in B : \A m \in B : n <= m
  BY <1>1, Least
<1>3. n \in Nat /\ \A i \in S : i <= n
  BY DEF B
<1>4. CASE n \in S
  BY <1>3, <1>4
<1>5. CASE n \notin S
  <2>0. \A i \in S : i \in Nat /\ i < n
    BY <1>3, <1>5
  <2>1. PICK k \in S : TRUE
    OBVIOUS
  <2>2. n - 1 \in Nat
    BY <1>3, <2>0, <2>1
  <2>3. n - 1 \in B
    BY <1>3, <2>0, <2>2 DEF B
  <2> QED
    BY <1>2, <1>3, <2>3
<1> QED
  BY <1>4, <1>5

\* LastOut and FirstOut are members of a non-empty set of transformed events.
LEMMA OutBounds ==
    ASSUME TypeOK, out # {}
    PROVE  /\ LastOut \in out /\ \A i \in out : i <= LastOut
           /\ FirstOut \in out /\ \A i \in out : FirstOut <= i
           /\ LastOut \in DOMAIN batch /\ FirstOut \in DOMAIN batch
<1>1. /\ out \in SUBSET Nat /\ Len(batch) \in Nat /\ out \subseteq DOMAIN batch
      /\ \A i \in out : i <= Len(batch)
  BY DEF TypeOK
<1>2. \E n \in out : \A i \in out : i <= n
  BY <1>1, Greatest
<1>3. \E n \in out : \A i \in out : n <= i
  BY <1>1, Least
<1>4. LastOut \in out /\ \A i \in out : i <= LastOut
  BY <1>2 DEF LastOut
<1>5. FirstOut \in out /\ \A i \in out : FirstOut <= i
  BY <1>3 DEF FirstOut
<1> QED
  BY <1>1, <1>4, <1>5

-----------------------------------------------------------------------------
(* Types.                                                                  *)

\* Before the transformation nothing is transformed, and no flush runs while
\* the processor holds an event: TypeOK alone would not survive a reset of the
\* batch.
TypeInv ==
    /\ TypeOK
    /\ phase \in {"none", "transform"} => out = {}
    /\ hand # 0 => phase = "none"

\* The job starts with well-typed, empty buffers.
LEMMA TypeInit == Init => TypeInv
  BY ConstantsAssumption DEF Init, TypeInv, TypeOK, Event

\* Every step of the job, under every fault, keeps the types.
LEMMA TypeStep == TypeInv /\ [Next]_vars => TypeInv'
<1> SUFFICES ASSUME TypeInv, [Next]_vars PROVE TypeInv'
  OBVIOUS
<1> USE ConstantsAssumption DEF TypeInv
<1>0. /\ MaxEvents \in Nat /\ Event \subseteq Nat /\ 0 \notin Event
      /\ <<>> \in Seq(Event)
  BY DEF Event
<1>1. CASE SourceCommit
  BY <1>1, SMTT(20) DEF SourceCommit, TypeOK, Event, buffers, cps, docs, counts, history
<1>2. CASE StartCDC
  <2>1. ResumeFrom \in 1..(MaxEvents + 1)
    BY DEF ResumeFrom, TypeOK, Event
  <2>2. since' \in 0..(MaxEvents + 1)
    BY <1>2, <2>1 DEF StartCDC, TypeOK
  <2> QED
    BY <1>2, <2>1, <2>2 DEF StartCDC, TypeOK, log, buffers, cps, docs, counts
<1>3. CASE Send
  <2>1. next \in Event /\ next + 1 \in 1..(MaxEvents + 1)
    BY <1>3 DEF Send, TypeOK, Event
  <2>2. Append(queue, next) \in Seq(Event)
    BY <2>1 DEF TypeOK
  <2> QED
    BY <1>3, <2>1, <2>2 DEF Send, TypeOK, log, cps, docs, counts, history
<1>4. CASE SendStandbyStatus
  <2>1. next - 1 \in Event \cup {0}
    BY DEF TypeOK, Event
  <2> QED
    BY <1>4, <2>1 DEF SendStandbyStatus, TypeOK, buffers, cps, docs, counts, history
<1>5. CASE StreamEnds
  <2>1. failures + 1 \in 0..MaxFailures
    BY <1>5 DEF StreamEnds, TypeOK
  <2> QED
    BY <1>5, <2>1 DEF StreamEnds, TypeOK, log, buffers, cps, docs, history
<1>6. CASE ResetBatch
  BY <1>0, <1>6 DEF ResetBatch, TypeOK, log, cps, docs, counts, history
<1>7. CASE DrainQueue
  <2>1. queue' \in Seq(Event) /\ reader' \in {"idle", "drain"}
    <3>1. queue # <<>> => Tail(queue) \in Seq(Event)
      BY DEF TypeOK
    <3> QED
      BY <1>7, <3>1 DEF DrainQueue, TypeOK
  <2> QED
    BY <1>7, <2>1 DEF DrainQueue, TypeOK, log, cps, docs, counts, history
<1>8. CASE Receive
  <2>1. Head(queue) \in Event /\ Tail(queue) \in Seq(Event)
    BY <1>8 DEF Receive, TypeOK
  <2> QED
    BY <1>8, <2>1 DEF Receive, TypeOK, log, cps, docs, counts, history
<1>9. CASE AppendToBatch
  <2>1. Append(batch, hand) \in Seq(Event) /\ DOMAIN batch \subseteq DOMAIN Append(batch, hand)
    BY <1>9 DEF AppendToBatch, TypeOK
  <2> QED
    BY <1>9, <2>1 DEF AppendToBatch, TypeOK, log, cps, docs, counts, history
<1>10. CASE Tick
  BY <1>10 DEF Tick, TypeOK, log, cps, docs, counts, history
<1>11. CASE TransformEvents
  <2>1. PICK result \in TransformResults :
          /\ out' = result
          /\ skipped' = skipped \cup
               {batch[i] : i \in {n \in DOMAIN batch \ result : batch[n] \in Filtered}}
          /\ \/ result = {} /\ phase' = "none" /\ batch' = <<>>
             \/ result # {} /\ phase' = "sink" /\ UNCHANGED batch
    BY <1>11 DEF TransformEvents
  <2>2. result \subseteq DOMAIN batch
    BY DEF TransformResults
  <2>3. skipped' \subseteq Event
    BY <2>1 DEF TypeOK
  <2> QED
    <3>1. CASE result = {}
      BY <1>0, <1>11, <2>1, <2>3, <3>1, SMTT(20) DEF TransformEvents, TypeOK, log, cps, docs, counts
    <3>2. CASE result # {}
      BY <1>11, <2>1, <2>2, <2>3, <3>2, SMTT(20) DEF TransformEvents, TypeOK, log, cps, docs, counts
    <3> QED
      BY <3>1, <3>2
<1>12. CASE SinkAccepts
  <2>1. {batch[i] : i \in out} \subseteq Event
    BY DEF TypeOK
  <2>2. delivered' \subseteq Event /\ requests' \subseteq SUBSET Event /\ rewritten' \subseteq PK
    BY <1>12, <2>1 DEF SinkAccepts, TypeOK
  <2> QED
    BY <1>12, <2>2 DEF SinkAccepts, TypeOK, log, cps, counts
<1>13. CASE SinkFails
  <2>1. late' \subseteq Event /\ rewritten' \subseteq PK
    BY <1>13 DEF SinkFails, TypeOK
  <2> QED
    BY <1>13, <2>1 DEF SinkFails, TypeOK, log, cps, counts, history
<1>14. CASE AddFailedEvent
  <2>1. batch[FirstOut] \in Event
    BY <1>14, OutBounds DEF AddFailedEvent, TypeOK
  <2>2. dlq' \subseteq Event /\ parked' \subseteq Event
    BY <1>14, <2>1 DEF AddFailedEvent, TypeOK
  <2> QED
    BY <1>0, <1>14, <2>2 DEF AddFailedEvent, TypeOK, log, cps, docs, counts
<1>15. CASE UpdateCheckpoint
  <2>1. batch[LastOut] \in Event
    BY <1>15, OutBounds DEF UpdateCheckpoint, TypeOK
  <2> QED
    BY <1>15, <2>1 DEF UpdateCheckpoint, TypeOK, log, docs, counts, history
<1>16. CASE CommitCheckpoint
  BY <1>0, <1>16 DEF CommitCheckpoint, TypeOK, log, docs, counts, history
<1>17. ASSUME NEW e \in Event, RetryDLQItem(e) \/ LateWrite(e) PROVE TypeInv'
  <2>1. PkOf[e] \in PK
    OBVIOUS
  <2>2. doc' \in [PK -> Event \cup {0}] /\ rewritten' \subseteq PK /\ late' \subseteq Event
    BY <1>17, <2>1 DEF RetryDLQItem, LateWrite, Rewrite, TypeOK
  <2> QED
    BY <1>17, <2>2, SMTT(20) DEF RetryDLQItem, LateWrite, TypeOK, log, buffers, cps, counts, history
<1>18. ASSUME NEW e \in Event, GiveUpDLQItem(e) PROVE TypeInv'
  BY <1>18 DEF GiveUpDLQItem, TypeOK, log, buffers, cps, docs, counts, history
<1>19. CASE Crash
  <2>1. crashes + 1 \in 0..MaxCrashes
    BY <1>19 DEF Crash, TypeOK
  <2> QED
    BY <1>0, <1>19, <2>1 DEF Crash, TypeOK, log, history
<1>20. CASE LoseFailedEvents
  BY <1>0, <1>20 DEF LoseFailedEvents, TypeOK, log, cps, docs, counts, history
<1>21. CASE UNCHANGED vars
  BY <1>21 DEF vars, TypeOK
<1> QED
  BY <1>1, <1>2, <1>3, <1>4, <1>5, <1>6, <1>7, <1>8, <1>9, <1>10, <1>11, <1>12,
     <1>13, <1>14, <1>15, <1>16, <1>17, <1>18, <1>19, <1>20, <1>21
     DEF Next, Reader, Processor, Flush

\* TypeOK holds for every source and every set of faults: the flush keeps its
\* indices within the batch whatever the reset of the buffers does to it.
THEOREM TypeCorrect == Spec => []TypeOK
<1>1. TypeInv => TypeOK
  BY DEF TypeInv
<1> QED
  BY <1>1, TypeInit, TypeStep, PTL DEF Spec

-----------------------------------------------------------------------------
(* Order, for a source that is not started again.                          *)

\* The job starts with nothing read.
LEMMA OrderInit == Init => OrderInv
<1> SUFFICES ASSUME Init PROVE OrderInv
  OBVIOUS
<1>1. InFlightLen = 0
  BY DEF Init, InFlightLen
<1> QED
  BY <1>1 DEF Init, OrderInv, Low

\* The lengths and positions the order is about.
LEMMA LowFacts ==
    ASSUME TypeInv
    PROVE  /\ Len(batch) \in Nat /\ Len(queue) \in Nat /\ Low \in Int
           /\ next \in Nat /\ base \in Nat /\ head \in Nat /\ lastCp \in Nat
           /\ DOMAIN batch = 1..Len(batch) /\ DOMAIN queue = 1..Len(queue)
           /\ InFlightLen = Len(batch) + (IF hand = 0 THEN 0 ELSE 1) + Len(queue)
           /\ Low = next - InFlightLen
  BY ConstantsAssumption DEF TypeInv, TypeOK, Event, Low, InFlightLen

\* A step that leaves the pipeline alone keeps the order.
LEMMA OrderKept ==
    ASSUME TypeInv, OrderInv, TypeInv',
           UNCHANGED <<next, base, queue, hand, batch>>,
           head' = head \/ head' = head + 1,
           reader' = reader \/ (reader # "idle" /\ reader' = "stopped"),
           reader = "idle" => phase' = "none" /\ lastCp' = 0
    PROVE  OrderInv'
<1>1. Low' = Low /\ InFlightLen' = InFlightLen
  BY DEF Low, InFlightLen
<1>2. head \in Nat /\ base \in Nat /\ next \in Nat
  BY LowFacts
<1>3. base <= head' + 1 /\ next <= head' + 1
  BY <1>2 DEF OrderInv
<1> QED
  BY <1>1, <1>3 DEF OrderInv

\* A step that clears the batch while no event is in hand keeps it.
LEMMA OrderCleared ==
    ASSUME TypeInv, OrderInv, TypeInv', phase # "none", batch' = <<>>,
           UNCHANGED <<head, reader, next, base, queue, hand>>
    PROVE  OrderInv' /\ Low' = Low + Len(batch)
<1>1. hand = 0 /\ hand' = 0 /\ reader # "idle"
  BY DEF TypeInv, OrderInv
<1>2. Len(batch') = 0 /\ DOMAIN batch' = {}
  OBVIOUS
<1>3. Low' = Low + Len(batch)
  BY <1>1, <1>2, LowFacts DEF Low, InFlightLen
<1> QED
  BY <1>1, <1>2, <1>3, LowFacts DEF OrderInv

\* Receiving moves the head of the channel into the hand.
LEMMA OrderReceive ==
    ASSUME TypeInv, OrderInv, TypeInv', Receive
    PROVE  OrderInv' /\ Low' = Low
<1>1. /\ hand = 0 /\ phase = "none" /\ queue # <<>> /\ hand' = Head(queue)
      /\ queue' = Tail(queue)
      /\ UNCHANGED <<head, reader, next, base, batch, phase, lastCp>>
  BY DEF Receive, log, cps
<1>2. queue \in Seq(Event) /\ 0 \notin Event
  BY ConstantsAssumption DEF TypeInv, TypeOK, Event
<1>3. /\ Len(queue) \in Nat /\ Len(queue) > 0 /\ Len(queue') = Len(queue) - 1
      /\ hand' = queue[1] /\ hand' \in Event /\ hand' # 0
      /\ DOMAIN queue' = 1..(Len(queue) - 1)
      /\ \A i \in DOMAIN queue' : queue'[i] = queue[i + 1] /\ i + 1 \in DOMAIN queue
  BY <1>1, <1>2
<1>4. Low' = Low
  BY <1>1, <1>3, LowFacts DEF Low, InFlightLen
<1>5. hand' = Low' + Len(batch')
  <2>1. queue[1] = next - Len(queue)
    <3>1. 1 \in DOMAIN queue
      BY <1>3, LowFacts
    <3>2. queue[1] = next - Len(queue) + 1 - 1
      BY <3>1 DEF OrderInv
    <3> QED
      BY <3>2, LowFacts
  <2>2. Low = next - (Len(batch) + Len(queue))
    BY <1>1, LowFacts
  <2> QED
    BY <1>1, <1>3, <1>4, <2>1, <2>2, LowFacts
<1>6. \A i \in DOMAIN queue' : queue'[i] = next' - Len(queue') + i - 1
  BY <1>1, <1>3, LowFacts, SMTT(20) DEF OrderInv
<1> QED
  BY <1>1, <1>3, <1>4, <1>5, <1>6 DEF OrderInv

\* Appending moves it to the end of the batch.
LEMMA OrderAppend ==
    ASSUME TypeInv, OrderInv, TypeInv', AppendToBatch
    PROVE  OrderInv' /\ Low' = Low
<1>1. /\ hand # 0 /\ batch' = Append(batch, hand) /\ hand' = 0
      /\ UNCHANGED <<head, reader, next, base, queue, lastCp>>
  BY DEF AppendToBatch, log, cps
<1>2. batch \in Seq(Event) /\ hand \in Event
  BY <1>1 DEF TypeInv, TypeOK
<1>3. /\ Len(batch) \in Nat /\ Len(batch') = Len(batch) + 1
      /\ DOMAIN batch' = 1..(Len(batch) + 1) /\ DOMAIN batch = 1..Len(batch)
      /\ batch'[Len(batch) + 1] = hand
      /\ \A i \in DOMAIN batch : batch'[i] = batch[i]
  BY <1>1, <1>2
<1>4. Low' = Low
  BY <1>1, <1>3, LowFacts DEF Low, InFlightLen
<1>5. \A i \in DOMAIN batch' : batch'[i] = Low' + i - 1
  BY <1>1, <1>3, <1>4, LowFacts, SMTT(20) DEF OrderInv
<1> QED
  BY <1>1, <1>4, <1>5 DEF OrderInv

\* Sending extends the channel.
LEMMA OrderSend ==
    ASSUME TypeInv, OrderInv, TypeInv', Send
    PROVE  OrderInv' /\ Low' = Low
<1>1. /\ reader = "up" /\ next <= head /\ queue' = Append(queue, next) /\ next' = next + 1
      /\ UNCHANGED <<head, reader, base, hand, batch, phase, lastCp>>
  BY DEF Send, log, cps
<1>2. queue \in Seq(Event) /\ next \in Event
  BY <1>1, ConstantsAssumption DEF TypeInv, TypeOK, Event
<1>3. /\ Len(queue) \in Nat /\ Len(queue') = Len(queue) + 1
      /\ DOMAIN queue' = 1..(Len(queue) + 1) /\ DOMAIN queue = 1..Len(queue)
      /\ queue'[Len(queue) + 1] = next
      /\ \A i \in DOMAIN queue : queue'[i] = queue[i]
  BY <1>1, <1>2
<1>4. Low' = Low
  <2>1. InFlightLen' = InFlightLen + 1
    <3>1. Len(batch) \in Nat
      BY LowFacts
    <3>2. Len(batch') = Len(batch) /\ hand' = hand
      BY <1>1
    <3>3. Len(queue) \in Nat /\ Len(queue') = Len(queue) + 1
      BY <1>3
    <3>4. CASE hand = 0
      BY <3>1, <3>2, <3>3, <3>4 DEF InFlightLen
    <3>5. CASE hand # 0
      BY <3>1, <3>2, <3>3, <3>5 DEF InFlightLen
    <3> QED
      BY <3>4, <3>5
  <2>2. InFlightLen \in Nat /\ next \in Nat
    BY LowFacts
  <2> QED
    BY <1>1, <2>1, <2>2 DEF Low
<1>5. \A i \in DOMAIN queue' : queue'[i] = next' - Len(queue') + i - 1
  <2>1. \A i \in DOMAIN queue : queue[i] = next - Len(queue) + i - 1
    BY DEF OrderInv
  <2>2. next \in Nat
    BY LowFacts
  <2>3. next' - Len(queue') = next - Len(queue)
    BY <1>1, <1>3, <2>2
  <2>4. next = next - Len(queue) + (Len(queue) + 1) - 1
    BY <1>3, <2>2
  <2> QED
    BY <1>3, <2>1, <2>3, <2>4
<1>6. next' <= head' + 1
  BY <1>1, LowFacts
<1> QED
  BY <1>1, <1>4, <1>5, <1>6 DEF OrderInv

\* Every step of a job whose stream is not started again keeps the order: the
\* pipeline is only touched at its two ends.
LEMMA OrderStep ==
    ASSUME Source # "postgresql", TypeInv, OrderInv, TypeInv', [Next]_vars
    PROVE  OrderInv'
<1>1. CASE SourceCommit
  BY <1>1, OrderKept DEF SourceCommit, buffers, cps, OrderInv
<1>2. CASE StartCDC
  <2>1. /\ next' = head + 1 /\ base' = head + 1 /\ reader' = "up" /\ head' = head
        /\ batch' = <<>> /\ hand' = 0 /\ queue' = <<>>
    BY <1>2 DEF StartCDC, ResumeFrom, OrderInv, log, buffers
  <2>2. InFlightLen' = 0 /\ DOMAIN batch' = {} /\ DOMAIN queue' = {}
    BY <2>1 DEF InFlightLen
  <2>3. Low' = head + 1 /\ head \in Nat
    BY <2>1, <2>2, LowFacts DEF Low
  <2> QED
    BY <2>1, <2>2, <2>3 DEF OrderInv
<1>3. CASE Send
  BY <1>3, OrderSend
<1>4. CASE StreamEnds
  BY <1>4, OrderKept DEF StreamEnds, log, buffers, cps, OrderInv
<1>5. CASE Receive
  BY <1>5, OrderReceive
<1>6. CASE AppendToBatch
  BY <1>6, OrderAppend
<1>7. CASE Tick \/ SinkAccepts \/ SinkFails \/ UpdateCheckpoint
  <2>1. reader # "idle"
    BY <1>7 DEF OrderInv, Tick, SinkAccepts, SinkFails, UpdateCheckpoint
  <2>2. UNCHANGED <<head, reader, next, base, queue, hand, batch>>
    BY <1>7 DEF Tick, SinkAccepts, SinkFails, UpdateCheckpoint, log
  <2> QED
    BY <2>1, <2>2, OrderKept
<1>8. CASE TransformEvents \/ AddFailedEvent \/ LoseFailedEvents \/ CommitCheckpoint
  <2>1. phase # "none" /\ reader # "idle"
    BY <1>8 DEF OrderInv, TransformEvents, AddFailedEvent, LoseFailedEvents, CommitCheckpoint
  <2>2. UNCHANGED <<head, reader, next, base, queue, hand>> /\ batch' \in {batch, <<>>}
    BY <1>8 DEF TransformEvents, AddFailedEvent, LoseFailedEvents, CommitCheckpoint, log
  <2> QED
    BY <2>1, <2>2, OrderKept, OrderCleared
<1>9. ASSUME NEW e \in Event, RetryDLQItem(e) \/ LateWrite(e) \/ GiveUpDLQItem(e)
      PROVE  OrderInv'
  BY <1>9, OrderKept DEF RetryDLQItem, GiveUpDLQItem, LateWrite, log, buffers, cps, OrderInv
<1>10. CASE Crash
  <2>1. /\ UNCHANGED <<head, next, base>> /\ reader' = "idle" /\ phase' = "none" /\ lastCp' = 0
        /\ batch' = <<>> /\ hand' = 0 /\ queue' = <<>>
    BY <1>10 DEF Crash, log
  <2>2. InFlightLen' = 0 /\ DOMAIN batch' = {} /\ DOMAIN queue' = {}
    BY <2>1 DEF InFlightLen
  <2>3. Low' = next /\ base <= next
    BY <2>1, <2>2, LowFacts DEF Low, OrderInv
  <2> QED
    BY <2>1, <2>2, <2>3 DEF OrderInv
<1>11. CASE UNCHANGED vars
  BY <1>11, OrderKept DEF vars, OrderInv
<1>12. ~SendStandbyStatus /\ ~ResetBatch /\ ~DrainQueue
  BY DEF SendStandbyStatus, ResetBatch, DrainQueue, OrderInv
<1> QED
  BY <1>1, <1>2, <1>3, <1>4, <1>5, <1>6, <1>7, <1>8, <1>9, <1>10, <1>11, <1>12
     DEF Next, Reader, Processor, Flush

\* PipelineInOrder: for MySQL and MongoDB jobs, under every fault, batch, hand
\* and channel hold a gapless run of the log that ends where the reader is.
THEOREM PipelineInOrderHolds ==
    ASSUME Source # "postgresql"
    PROVE  Spec => []PipelineInOrder
<1>1. Init => TypeInv /\ OrderInv
  BY TypeInit, OrderInit
<1>2. TypeInv /\ OrderInv /\ [Next]_vars => (TypeInv /\ OrderInv)'
  BY TypeStep, OrderStep
<1>3. OrderInv => PipelineInOrder
  BY DEF OrderInv, PipelineInOrder, Low
<1> QED
  BY <1>1, <1>2, <1>3, PTL DEF Spec

-----------------------------------------------------------------------------
(* What the checkpoint covers, for a job whose events the transformation   *)
(* and the dead letter queue do not lose.                                  *)

\* The transform service answers, and if the sink may fail there is a dead
\* letter queue and it tells the events apart.
Lossless ==
    /\ Source # "postgresql"
    /\ ~TransformFaults
    /\ SinkFaults => HasDLQ /\ \A e, f \in Event : KeyOf[e] = KeyOf[f] => e = f

Inv == TypeInv /\ OrderInv /\ CoverInv /\ MarkInv

\* The job starts with no checkpoint.
LEMMA CoverInit == Init => CoverInv /\ MarkInv
<1> SUFFICES ASSUME Init PROVE CoverInv /\ MarkInv
  OBVIOUS
<1>1. Low = 1
  BY DEF Init, InFlightLen, Low
<1> QED
  BY <1>1 DEF Init, CoverInv, MarkInv

\* The events handled after a step; handled events stay handled.
HandledNext == delivered' \cup parked' \cup skipped'

HandledKept == \A e : Handled(e) => e \in HandledNext

\* A step that leaves the pipeline, the phase and the checkpoint alone.
LEMMA CoverKept ==
    ASSUME Inv, HandledKept, dlq' \subseteq parked',
           UNCHANGED <<base, batch, phase, out, lastCp>>, Low' = Low,
           reader = "idle" => reader' = "idle"
    PROVE  CoverInv' /\ MarkInv'
<1>1. \A e : Handled(e) => e \in delivered' \/ e \in parked' \/ e \in skipped'
  BY DEF HandledKept, HandledNext
<1>2. CoverInv'
  <2>1. reader' # "idle" => \A e \in base..(Low - 1) : Handled(e)
    BY DEF Inv, CoverInv
  <2>2. reader' # "idle" => (\A e \in base..(Low - 1) : Handled(e))'
    BY <1>1, <2>1 DEF Handled
  <2> QED
    BY <1>1, <2>2 DEF Inv, CoverInv, Handled
<1>3. MarkInv'
  BY DEF Inv, MarkInv
<1> QED
  BY <1>2, <1>3

\* A step that clears a batch of which every event is handled.
LEMMA CoverCleared ==
    ASSUME Inv, HandledKept, dlq' \subseteq parked', phase # "none", batch' = <<>>,
           phase' = "none", Low' = Low + Len(batch), UNCHANGED <<reader, base, lastCp>>,
           \A i \in DOMAIN batch : batch[i] \in HandledNext
    PROVE  CoverInv' /\ MarkInv'
<1>2. reader # "idle" /\ \A i \in DOMAIN batch : batch[i] = Low + i - 1
  BY DEF Inv, OrderInv
<1>3. Low \in Int /\ Len(batch) \in Nat /\ base \in Nat /\ lastCp \in Nat /\ DOMAIN batch = 1..Len(batch)
  BY LowFacts DEF Inv
<1>4. ASSUME NEW e \in base..(Low + Len(batch) - 1) PROVE e \in HandledNext
  <2>1. CASE e < Low
    BY <1>2, <1>3, <2>1 DEF Inv, CoverInv, HandledKept
  <2>2. CASE e >= Low
    <3>1. e - Low + 1 \in DOMAIN batch /\ batch[e - Low + 1] = e
      BY <1>2, <1>3, <2>2
    <3> QED
      BY <3>1
  <2> QED
    BY <1>3, <2>1, <2>2
<1>5. lastCp < Low + Len(batch)
  BY <1>3 DEF Inv, MarkInv
<1>6. \A e \in base'..(Low' - 1) : Handled(e)'
  BY <1>3, <1>4 DEF Handled, HandledNext
<1> QED
  BY <1>3, <1>5, <1>6 DEF CoverInv, MarkInv

\* Every step keeps the coverage: a batch is cleared only once its events are
\* delivered, filtered out or parked, and the checkpoint set only in between.
LEMMA CoverStep ==
    ASSUME Lossless, Inv, TypeInv', OrderInv', [Next]_vars
    PROVE  CoverInv' /\ MarkInv'
<1> USE DEF Inv
<1>0. /\ \A e : (e \in delivered \/ e \in parked \/ e \in skipped) <=> Handled(e)
      /\ dlq \subseteq parked
      /\ Low \in Int /\ Len(batch) \in Nat /\ base \in Nat /\ lastCp \in Nat
      /\ DOMAIN batch = 1..Len(batch)
  BY LowFacts DEF Handled, CoverInv
<1>1. CASE SourceCommit \/ StreamEnds \/ UNCHANGED vars
            \/ \E e \in Event : RetryDLQItem(e) \/ LateWrite(e) \/ GiveUpDLQItem(e)
  <2>1. /\ UNCHANGED <<next, base, batch, hand, queue, phase, out, lastCp>>
        /\ UNCHANGED <<delivered, parked, skipped>> /\ dlq' \subseteq dlq
        /\ reader = "idle" => reader' = "idle"
    BY <1>1 DEF SourceCommit, StreamEnds, vars, RetryDLQItem, LateWrite, GiveUpDLQItem, log,
       buffers, cps, history
  <2>2. Low' = Low
    BY <2>1 DEF Low, InFlightLen
  <2>3. HandledKept
    BY <1>0, <2>1 DEF HandledKept, HandledNext
  <2> QED
    BY <1>0, <2>1, <2>2, <2>3, CoverKept
<1>2. CASE StartCDC
  <2>1. /\ next' = head + 1 /\ base' = head + 1 /\ reader' = "up"
        /\ batch' = <<>> /\ hand' = 0 /\ queue' = <<>> /\ phase' = "none" /\ lastCp' = 0
        /\ dlq' = dlq /\ parked' = parked
    BY <1>2 DEF StartCDC, ResumeFrom, OrderInv, Lossless, log, buffers, cps
  <2>2. Low' = head + 1 /\ head \in Nat
    BY <2>1, LowFacts DEF Low, InFlightLen
  <2> QED
    BY <1>0, <2>1, <2>2 DEF CoverInv, MarkInv
<1>3. CASE Send \/ Receive
  <2>1. Low' = Low
    BY <1>3, OrderSend, OrderReceive
  <2>2. /\ UNCHANGED <<base, batch, phase, out, lastCp, reader, dlq>>
        /\ UNCHANGED <<delivered, parked, skipped>>
    BY <1>3 DEF Send, Receive, log, cps, history
  <2>3. HandledKept
    BY <1>0, <2>2 DEF HandledKept, HandledNext
  <2> QED
    BY <1>0, <2>1, <2>2, <2>3, CoverKept
<1>4. CASE AppendToBatch
  <2>1. Low' = Low
    BY <1>4, OrderAppend
  <2>2. /\ UNCHANGED <<base, lastCp, reader, dlq, delivered, parked, skipped>>
        /\ phase = "none" /\ phase' \in {"none", "transform"}
    BY <1>4 DEF AppendToBatch, log, cps, history, TypeInv
  <2> QED
    BY <2>1, <2>2 DEF CoverInv, MarkInv, Handled
<1>5. CASE Tick
  <2>1. /\ UNCHANGED <<base, lastCp, reader, dlq, delivered, parked, skipped>>
        /\ UNCHANGED <<next, batch, hand, queue>>
        /\ phase = "none" /\ phase' = "transform"
    BY <1>5 DEF Tick, log, cps, history
  <2>2. Low' = Low
    BY <2>1 DEF Low, InFlightLen
  <2> QED
    BY <2>1, <2>2 DEF CoverInv, MarkInv, Handled
<1>6. CASE TransformEvents
  <2> DEFINE kept == {i \in DOMAIN batch : batch[i] \notin Filtered}
  <2>1. TransformResults = {kept}
    BY DEF TransformResults, Lossless
  <2>2. /\ out' = kept /\ phase = "transform"
        /\ skipped' = skipped \cup
             {batch[i] : i \in {n \in DOMAIN batch \ kept : batch[n] \in Filtered}}
        /\ \/ kept = {} /\ phase' = "none" /\ batch' = <<>>
           \/ kept # {} /\ phase' = "sink" /\ UNCHANGED batch
        /\ UNCHANGED <<head, reader, next, base, queue, hand, lastCp, dlq, delivered, parked>>
    BY <1>6, <2>1 DEF TransformEvents, log, cps
  <2>3. HandledKept
    BY <1>0, <2>2 DEF HandledKept, HandledNext
  <2>4. \A i \in DOMAIN batch \ kept : batch[i] \in skipped'
    BY <2>2
  <2> HIDE DEF kept
  <2>5. CASE kept = {}
    <3>1. Low' = Low + Len(batch)
      BY <2>2, <2>5, OrderCleared
    <3>2. \A i \in DOMAIN batch : batch[i] \in HandledNext
      BY <2>4, <2>5 DEF HandledNext
    <3> QED
      BY <1>0, <2>2, <2>3, <2>5, <3>1, <3>2, CoverCleared
  <2>6. CASE kept # {}
    <3>1. Low' = Low /\ phase' = "sink" /\ batch' = batch
      BY <2>2, <2>6 DEF Low, InFlightLen
    <3>2. \A e : Handled(e) => e \in delivered' \/ e \in parked' \/ e \in skipped'
      BY <2>3 DEF HandledKept, HandledNext
    <3>3. \A i \in (DOMAIN batch \ out)' : batch'[i] \in skipped'
      BY <2>2, <2>4, <3>1
    <3>4. reader' # "idle" => \A e \in base'..(Low' - 1) : Handled(e)'
      BY <2>2, <3>1, <3>2 DEF CoverInv, Handled
    <3> QED
      BY <1>0, <2>2, <3>1, <3>3, <3>4 DEF CoverInv, MarkInv, Handled
  <2> QED
    BY <2>5, <2>6
<1>7. CASE SinkAccepts
  <2>1. /\ UNCHANGED <<reader, next, base, queue, hand, batch, lastCp, dlq, parked, skipped>>
        /\ phase = "sink" /\ phase' = "checkpoint"
        /\ delivered' = delivered \cup {batch[i] : i \in out}
    BY <1>7 DEF SinkAccepts, cps
  <2>2. Low' = Low
    BY <2>1 DEF Low, InFlightLen
  <2>3. \A e : Handled(e) => e \in delivered' \/ e \in parked' \/ e \in skipped'
    BY <2>1 DEF Handled
  <2>4. \A i \in DOMAIN batch : batch[i] \in delivered' \/ batch[i] \in parked' \/ batch[i] \in skipped'
    BY <2>1, <2>3 DEF CoverInv
  <2>5. reader' # "idle" => \A e \in base'..(Low' - 1) : Handled(e)'
    BY <2>1, <2>2, <2>3 DEF CoverInv, Handled
  <2> QED
    BY <1>0, <2>1, <2>2, <2>4, <2>5 DEF CoverInv, MarkInv, Handled
<1>8. CASE SinkFails
  <2>1. /\ UNCHANGED <<reader, next, base, queue, hand, batch, out, lastCp, dlq, delivered, parked, skipped>>
        /\ phase = "sink" /\ phase' = "dlq" /\ SinkFaults
    BY <1>8 DEF SinkFails, cps, history
  <2>2. Low' = Low
    BY <2>1 DEF Low, InFlightLen
  <2> QED
    BY <2>1, <2>2 DEF CoverInv, MarkInv, Handled
<1>9. CASE AddFailedEvent
  <2> DEFINE e == batch[FirstOut]
  <2>1. /\ phase = "dlq" /\ out' = out \ {FirstOut}
        /\ UNCHANGED <<head, reader, next, base, queue, hand, lastCp, delivered, skipped>>
        /\ \/ out' = {} /\ phase' = "none" /\ batch' = <<>>
           \/ out' # {} /\ phase' = "dlq" /\ batch' = batch
    BY <1>9 DEF AddFailedEvent, log, cps
  <2>2. /\ parked \subseteq parked' /\ e \in parked' /\ dlq' \subseteq parked'
    <3>0. e \in Event /\ dlq \subseteq Event
      BY <2>1, OutBounds, SMTT(20) DEF TypeInv, TypeOK
    <3>1. Refuses(e) => e \in dlq
      BY <2>1, <3>0 DEF Refuses, CoverInv, Lossless
    <3>2. \/ Refuses(e) /\ dlq' = dlq /\ parked' = parked
          \/ dlq' = dlq \cup {e} /\ parked' = parked \cup {e}
      BY <1>9 DEF AddFailedEvent
    <3> QED
      BY <1>0, <3>1, <3>2
  <2>3. \A f : Handled(f) => f \in delivered' \/ f \in parked' \/ f \in skipped'
    BY <2>1, <2>2 DEF Handled
  <2>4. HandledKept
    BY <2>3 DEF HandledKept, HandledNext
  <2>5. \A i \in DOMAIN batch \ out' :
            batch[i] \in delivered' \/ batch[i] \in parked' \/ batch[i] \in skipped'
    <3> TAKE i \in DOMAIN batch \ out'
    <3>1. CASE i = FirstOut
      BY <2>2, <3>1
    <3>2. CASE i # FirstOut
      BY <2>1, <2>3, <3>2 DEF CoverInv
    <3> QED
      BY <3>1, <3>2
  <2>6. CASE out' = {}
    <3>1. phase' = "none" /\ batch' = <<>>
      BY <2>1, <2>6
    <3>2. Low' = Low + Len(batch)
      BY <2>1, <3>1, OrderCleared
    <3>3. \A i \in DOMAIN batch : batch[i] \in HandledNext
      BY <2>5, <2>6 DEF HandledNext
    <3> QED
      BY <2>1, <2>2, <2>4, <3>1, <3>2, <3>3, CoverCleared
  <2>7. CASE out' # {}
    <3>1. phase' = "dlq" /\ batch' = batch
      BY <2>1, <2>7
    <3>2. Low' = Low
      BY <2>1, <3>1 DEF Low, InFlightLen
    <3>3. reader' # "idle" => \A f \in base'..(Low' - 1) : Handled(f)'
      BY <2>1, <2>3, <3>2 DEF CoverInv, Handled
    <3> QED
      BY <2>1, <2>2, <2>5, <3>1, <3>2, <3>3 DEF CoverInv, MarkInv, Handled
  <2> QED
    BY <2>6, <2>7
<1>10. CASE UpdateCheckpoint
  <2>1. /\ UNCHANGED <<reader, next, base, queue, hand, batch, out, dlq, delivered, parked, skipped>>
        /\ phase = "checkpoint" /\ phase' = "commit" /\ lastCp' = batch[LastOut]
    BY <1>10 DEF UpdateCheckpoint, history
  <2>2. Low' = Low
    BY <2>1 DEF Low, InFlightLen
  <2>3. LastOut \in DOMAIN batch
    BY <2>1, OutBounds DEF TypeInv, TypeOK
  <2>4. lastCp' = Low + LastOut - 1
    BY <2>1, <2>3 DEF OrderInv
  <2>5. lastCp' < Low' + Len(batch')
    BY <1>0, <2>1, <2>2, <2>3, <2>4
  <2> QED
    BY <2>1, <2>2, <2>5 DEF CoverInv, MarkInv, Handled
<1>11. CASE CommitCheckpoint
  <2>1. /\ UNCHANGED <<head, reader, next, base, queue, hand, lastCp, dlq, delivered, parked, skipped>>
        /\ phase = "commit" /\ phase' = "none" /\ batch' = <<>>
    BY <1>11 DEF CommitCheckpoint, log, history
  <2>2. Low' = Low + Len(batch)
    BY <2>1, OrderCleared
  <2>3. HandledKept
    BY <2>1 DEF Handled, HandledKept, HandledNext
  <2>4. \A i \in DOMAIN batch : batch[i] \in HandledNext
    BY <2>1, <2>3 DEF CoverInv, HandledKept
  <2> QED
    BY <1>0, <2>1, <2>2, <2>3, <2>4, CoverCleared
<1>12. CASE Crash
  <2>1. /\ reader' = "idle" /\ phase' = "none" /\ lastCp' = 0 /\ UNCHANGED <<dlq, parked>>
        /\ next' = next /\ batch' = <<>> /\ hand' = 0 /\ queue' = <<>>
    BY <1>12 DEF Crash, history
  <2>2. next > 0 /\ next \in Nat
    BY DEF TypeInv, TypeOK
  <2>3. Low' = next
    BY <2>1, <2>2 DEF Low, InFlightLen
  <2> QED
    BY <1>0, <2>1, <2>2, <2>3 DEF CoverInv, MarkInv
<1>13. ~SendStandbyStatus /\ ~ResetBatch /\ ~DrainQueue /\ ~LoseFailedEvents
  BY DEF SendStandbyStatus, ResetBatch, DrainQueue, LoseFailedEvents, OrderInv, CoverInv, Lossless
<1> QED
  BY <1>1, <1>2, <1>3, <1>4, <1>5, <1>6, <1>7, <1>8, <1>9, <1>10, <1>11, <1>12, <1>13
     DEF Next, Reader, Processor, Flush

\* The inductive invariant holds in every reachable state.
LEMMA Invariant == ASSUME Lossless PROVE Spec => []Inv
<1>1. Init => Inv
  BY TypeInit, OrderInit, CoverInit DEF Inv
<1>2. Inv /\ [Next]_vars => Inv'
  BY TypeStep, OrderStep, CoverStep DEF Inv, Lossless
<1> QED
  BY <1>1, <1>2, PTL DEF Spec

\* The inductive invariant implies CheckpointCovers.
LEMMA Covered == Inv => CheckpointCovers
<1> SUFFICES ASSUME Inv, NEW e \in base..lastCp PROVE Handled(e)
  BY DEF CheckpointCovers
<1>1. /\ Low \in Int /\ Len(batch) \in Nat /\ base \in Nat /\ lastCp \in Nat
      /\ DOMAIN batch = 1..Len(batch) /\ base > 0
  BY LowFacts DEF Inv, TypeInv, TypeOK
<1>2. reader # "idle"
  BY <1>1 DEF Inv, OrderInv
<1>3. CASE e < Low
  BY <1>1, <1>2, <1>3 DEF Inv, CoverInv
<1>4. CASE e >= Low
  <2>1. phase = "commit" /\ e < Low + Len(batch)
    BY <1>1, <1>4 DEF Inv, MarkInv
  <2>2. e - Low + 1 \in DOMAIN batch
    BY <1>1, <1>4, <2>1
  <2>3. batch[e - Low + 1] = Low + (e - Low + 1) - 1
    BY <2>2 DEF Inv, OrderInv
  <2>4. batch[e - Low + 1] = e
    BY <1>1, <2>3
  <2> QED
    BY <2>1, <2>2, <2>4 DEF Inv, CoverInv
<1> QED
  BY <1>1, <1>3, <1>4

\* CheckpointCovers: whatever the sink refuses and however the stream fails or
\* the process dies, the checkpoint of a MySQL job (and of a MongoDB job whose
\* sink does not fail) never passes an event that was not handled.
THEOREM CheckpointCoversHolds == ASSUME Lossless PROVE Spec => []CheckpointCovers
  BY Invariant, Covered, PTL

-----------------------------------------------------------------------------
(* Refinement.                                                             *)

\* Every step of the pipeline is a step of AtLeastOnce or leaves its variables
\* alone.
LEMMA RefinementStep ==
    ASSUME Lossless, Inv, Inv', [Next]_vars
    PROVE  [Promise!Next]_(Promise!vars)
<1> DEFINE handled == delivered \cup parked \cup skipped
<1>0. /\ head \in Nat /\ base \in Nat /\ base > 0 /\ base <= head + 1
      /\ Low \in Int /\ Len(batch) \in Nat /\ DOMAIN batch = 1..Len(batch)
  <2>1. TypeInv /\ OrderInv
    BY DEF Inv
  <2>2. base \in 1..(MaxEvents + 1)
    BY <2>1 DEF TypeInv, TypeOK
  <2> QED
    BY <2>1, <2>2, LowFacts, ConstantsAssumption DEF OrderInv
<1>1. \A i \in DOMAIN batch : batch[i] \in 1..head
  <2> TAKE i \in DOMAIN batch
  <2>1. batch[i] \in Nat /\ batch[i] > 0
    <3>1. batch \in Seq(Event)
      BY DEF Inv, TypeInv, TypeOK
    <3>2. batch[i] \in Event
      BY <3>1
    <3> QED
      BY <3>2, ConstantsAssumption DEF Event
  <2>2. batch[i] = Low + i - 1 /\ next <= head + 1
    BY DEF Inv, OrderInv
  <2>3. Low + Len(batch) <= next
    BY LowFacts DEF Inv
  <2>4. next \in Nat
    BY LowFacts DEF Inv
  <2> QED
    BY <1>0, <2>1, <2>2, <2>3, <2>4
<1>2. ASSUME UNCHANGED <<head, base, delivered, parked, skipped, lastCp>>
      PROVE  UNCHANGED Promise!vars
  BY <1>2 DEF Promise!vars
<1>3. ASSUME handled \subseteq handled', \A e \in handled' \ handled : e \in 1..head,
             UNCHANGED <<head, base, lastCp>>
      PROVE  Promise!Next
  BY <1>3 DEF Promise!Next, Promise!Handle
<1>4. CASE SourceCommit
  BY <1>4 DEF SourceCommit, cps, history, Promise!Next, Promise!Produce
<1>5. CASE StartCDC
  <2>1. base' = head + 1 /\ lastCp' = 0 /\ UNCHANGED <<head, delivered, parked, skipped>>
    BY <1>5 DEF StartCDC, ResumeFrom, Lossless, Inv, OrderInv, log, cps
  <2> QED
    BY <1>0, <2>1 DEF Promise!Next, Promise!Restart
<1>6. CASE Crash
  <2>1. base' = base /\ lastCp' = 0 /\ UNCHANGED <<head, delivered, parked, skipped>>
    BY <1>6 DEF Crash, log, history
  <2> QED
    BY <1>0, <2>1 DEF Promise!Next, Promise!Restart
<1>7. CASE TransformEvents
  <2>1. /\ UNCHANGED <<head, base, lastCp, delivered, parked>> /\ skipped \subseteq skipped'
        /\ \A e \in skipped' \ skipped : \E i \in DOMAIN batch : e = batch[i]
    BY <1>7 DEF TransformEvents, log, cps
  <2> QED
    BY <1>1, <1>3, <2>1
<1>8. CASE SinkAccepts
  <2>1. /\ UNCHANGED <<head, base, lastCp, skipped, parked>> /\ delivered \subseteq delivered'
        /\ \A e \in delivered' \ delivered : \E i \in DOMAIN batch : e = batch[i]
    BY <1>8 DEF SinkAccepts, log, cps, Inv, TypeInv, TypeOK
  <2> QED
    BY <1>1, <1>3, <2>1
<1>9. CASE AddFailedEvent
  <2>1. FirstOut \in DOMAIN batch
    BY <1>9, OutBounds DEF AddFailedEvent, Inv, TypeInv, TypeOK
  <2>2. /\ UNCHANGED <<head, base, lastCp, skipped, delivered>>
        /\ parked' = parked \/ parked' = parked \cup {batch[FirstOut]}
    BY <1>9 DEF AddFailedEvent, log, cps
  <2> QED
    BY <1>1, <1>3, <2>1, <2>2
<1>10. CASE UpdateCheckpoint
  <2>1. UNCHANGED <<head, base, delivered, parked, skipped>>
    BY <1>10 DEF UpdateCheckpoint, log, history
  <2>2. \A e \in base..lastCp' : e \in handled
    <3>1. CheckpointCovers'
      BY Covered, PTL
    <3> QED
      BY <2>1, <3>1 DEF CheckpointCovers, Handled
  <2>3. LastOut \in DOMAIN batch
    BY <1>10, OutBounds DEF UpdateCheckpoint, Inv, TypeInv, TypeOK
  <2>4. lastCp' = Low + LastOut - 1 /\ lastCp < Low /\ lastCp \in Nat
    BY <1>10, <2>3, LowFacts DEF UpdateCheckpoint, Inv, OrderInv, MarkInv
  <2>5. lastCp' > lastCp
    BY <1>0, <2>3, <2>4
  <2> QED
    BY <2>1, <2>2, <2>5 DEF Promise!Next, Promise!Confirm
<1>11. CASE \/ Send \/ SendStandbyStatus \/ StreamEnds \/ ResetBatch \/ DrainQueue
            \/ Receive \/ AppendToBatch \/ Tick \/ SinkFails \/ LoseFailedEvents
            \/ CommitCheckpoint
            \/ (\E e \in Event : RetryDLQItem(e) \/ LateWrite(e) \/ GiveUpDLQItem(e))
            \/ UNCHANGED vars
  <2>1. UNCHANGED <<head, base, delivered, parked, skipped, lastCp>>
    BY <1>11 DEF Send, SendStandbyStatus, StreamEnds, ResetBatch, DrainQueue, Receive,
       AppendToBatch, Tick, SinkFails, LoseFailedEvents, CommitCheckpoint, RetryDLQItem,
       LateWrite, GiveUpDLQItem, vars, log, cps, history
  <2> QED
    BY <1>2, <2>1
<1> QED
  BY <1>4, <1>5, <1>6, <1>7, <1>8, <1>9, <1>10, <1>11 DEF Next, Reader, Processor, Flush

\* The pipeline implements AtLeastOnce: within one start of the process the
\* checkpoint moves forward only, and over handled events only.
THEOREM Refinement == ASSUME Lossless PROVE Spec => ImplementsAtLeastOnce
<1>1. Init => Promise!Init
  BY DEF Init, Promise!Init
<1>2. Inv /\ Inv' /\ [Next]_vars => [Promise!Next]_(Promise!vars)
  BY RefinementStep
<1> QED
  BY <1>1, <1>2, Invariant, PTL DEF Spec, ImplementsAtLeastOnce, Promise!Spec

-----------------------------------------------------------------------------
(* One start: what holds as long as the process does not die.              *)

\* Before the first start nothing is saved.
LEMMA OneStartInit == Init => OneStartInv
  BY DEF Init, OneStartInv

\* Without crashes, the first start stays the only one, and the checkpoint in
\* memory, which never goes back, stays ahead of the file.
LEMMA OneStartStep ==
    ASSUME Lossless, Inv, Inv', OneStartInv, [Next]_vars, crashes' = 0
    PROVE  OneStartInv'
<1>0. saved \in Nat /\ lastCp \in Nat /\ head \in Nat /\ Low \in Int
  <2>1. TypeInv
    BY DEF Inv
  <2> QED
    BY <2>1, ConstantsAssumption, LowFacts DEF TypeInv, TypeOK, Event
<1>1. CASE StartCDC
  BY <1>0, <1>1 DEF StartCDC, ResumeFrom, Lossless, OneStartInv, cps, counts
<1>2. CASE UpdateCheckpoint
  <2>1. LastOut \in DOMAIN batch /\ DOMAIN batch \subseteq Nat \ {0}
    BY <1>2, OutBounds DEF UpdateCheckpoint, Inv, TypeInv, TypeOK
  <2>2. lastCp' = Low + LastOut - 1 /\ lastCp < Low
    BY <1>2, <2>1 DEF UpdateCheckpoint, Inv, OrderInv, MarkInv
  <2>3. lastCp' >= lastCp
    BY <1>0, <2>1, <2>2
  <2>4. UNCHANGED <<reader, base, saved, crashes, since>>
    BY <1>2 DEF UpdateCheckpoint, counts, history
  <2> QED
    BY <1>0, <2>2, <2>3, <2>4 DEF OneStartInv
<1>3. CASE CommitCheckpoint
  BY <1>0, <1>3 DEF CommitCheckpoint, OneStartInv, counts, history
<1>4. CASE StreamEnds
  BY <1>4 DEF StreamEnds, OneStartInv, Lossless, cps, history
<1>5. CASE \/ SourceCommit \/ Send \/ Receive \/ AppendToBatch \/ Tick \/ TransformEvents
           \/ SinkAccepts \/ SinkFails \/ AddFailedEvent \/ LoseFailedEvents
           \/ (\E e \in Event : RetryDLQItem(e) \/ LateWrite(e) \/ GiveUpDLQItem(e))
           \/ UNCHANGED vars
  <2>1. UNCHANGED <<reader, base, saved, lastCp, crashes, since>>
    BY <1>5 DEF SourceCommit, Send, Receive, AppendToBatch, Tick, TransformEvents,
       SinkAccepts, SinkFails, AddFailedEvent, LoseFailedEvents, RetryDLQItem, LateWrite,
       GiveUpDLQItem, vars,
       cps, counts, history
  <2> QED
    BY <2>1 DEF OneStartInv
<1>6. ~SendStandbyStatus /\ ~ResetBatch /\ ~DrainQueue /\ ~Crash
  BY DEF SendStandbyStatus, ResetBatch, DrainQueue, Crash, Inv, OrderInv, OneStartInv, Lossless
<1> QED
  BY <1>1, <1>2, <1>3, <1>4, <1>5, <1>6 DEF Next, Reader, Processor, Flush

\* A step after which no crash has happened is no crash and follows none.
LEMMA NoCrashBefore ==
    ASSUME Inv, [Next]_vars, crashes' = 0
    PROVE  crashes = 0
<1>1. crashes \in Nat
  BY ConstantsAssumption DEF Inv, TypeInv, TypeOK
<1>2. CASE Crash
  BY <1>1, <1>2 DEF Crash
<1>3. CASE UNCHANGED crashes
  BY <1>3
<1>4. Crash \/ UNCHANGED crashes
  BY DEF Next, Reader, Processor, Flush, SourceCommit, StartCDC, Send, SendStandbyStatus,
     StreamEnds, ResetBatch, DrainQueue, Receive, AppendToBatch, Tick, TransformEvents,
     SinkAccepts, SinkFails, AddFailedEvent, LoseFailedEvents, UpdateCheckpoint,
     CommitCheckpoint, RetryDLQItem, LateWrite, GiveUpDLQItem, vars, counts
<1> QED
  BY <1>2, <1>3, <1>4

\* Both invariants, the second until the process dies.
LEMMA OneStartInvariant ==
    ASSUME Lossless
    PROVE  Spec => [](Inv /\ (crashes = 0 => OneStartInv))
<1>1. Inv /\ Inv' /\ (crashes = 0 => OneStartInv) /\ [Next]_vars
         => (crashes = 0 => OneStartInv)'
  BY OneStartStep, NoCrashBefore
<1> QED
  BY <1>1, OneStartInit, Invariant, PTL DEF Spec

\* SavedCovers: as long as the process does not die, the checkpoint file never
\* passes an event that was not handled, since the job's first start.
THEOREM SavedCoversHolds == ASSUME Lossless PROVE Spec => []SavedCovers
<1>1. Inv /\ (crashes = 0 => OneStartInv) => SavedCovers
  <2> SUFFICES ASSUME Inv, OneStartInv, since # 0, NEW e \in since..saved PROVE Handled(e)
    BY DEF SavedCovers
  <2>1. since = base /\ saved <= lastCp
    BY DEF OneStartInv
  <2>2. saved \in Nat /\ lastCp \in Nat /\ base \in Nat
    BY ConstantsAssumption DEF Inv, TypeInv, TypeOK, Event
  <2>3. e \in base..lastCp
    BY <2>1, <2>2
  <2> QED
    BY <2>3, Covered DEF CheckpointCovers
<1> QED
  BY <1>1, OneStartInvariant, PTL

\* LostOnlyByCrash: as long as the process does not die, every event the reader
\* has passed since the job's first start is handled or in the pipeline.
THEOREM LostOnlyByCrashHolds == ASSUME Lossless PROVE Spec => []LostOnlyByCrash
<1>1. Inv /\ (crashes = 0 => OneStartInv) => LostOnlyByCrash
  <2> SUFFICES ASSUME Inv, OneStartInv, reader = "up", since # 0, NEW e \in since..(next - 1)
               PROVE  Handled(e) \/ InPipeline(e)
    BY DEF LostOnlyByCrash, NothingLost
  <2>0. /\ Low \in Int /\ Len(batch) \in Nat /\ Len(queue) \in Nat
        /\ base \in Nat /\ next \in Nat /\ since = base /\ e \in Int
        /\ DOMAIN batch = 1..Len(batch) /\ DOMAIN queue = 1..Len(queue)
        /\ Low = next - (Len(batch) + (IF hand = 0 THEN 0 ELSE 1) + Len(queue))
    <3>1. since = base
      BY DEF OneStartInv
    <3>2. TypeInv
      BY DEF Inv
    <3>3. base \in Nat /\ next \in Nat /\ Low = next - InFlightLen
      BY <3>2, LowFacts
    <3>4. e \in Int
      BY <3>1, <3>3
    <3> QED
      BY <3>1, <3>2, <3>3, <3>4, LowFacts
  <2>1. CASE e < Low
    BY <2>0, <2>1 DEF Inv, CoverInv
  <2>2. CASE Low <= e /\ e < Low + Len(batch)
    <3>1. e - Low + 1 \in DOMAIN batch
      BY <2>0, <2>2
    <3>2. batch[e - Low + 1] = Low + (e - Low + 1) - 1
      BY <3>1 DEF Inv, OrderInv
    <3>3. batch[e - Low + 1] = e
      BY <2>0, <3>2
    <3> QED
      BY <3>1, <3>3 DEF InPipeline
  <2>3. CASE Low + Len(batch) <= e /\ e < next - Len(queue)
    <3>1. hand # 0 /\ e = Low + Len(batch)
      BY <2>0, <2>3
    <3> QED
      BY <3>1 DEF Inv, OrderInv, InPipeline
  <2>4. CASE next - Len(queue) <= e
    <3> DEFINE n == e - (next - Len(queue)) + 1
    <3>1. n \in DOMAIN queue
      BY <2>0, <2>4
    <3>2. queue[n] = next - Len(queue) + n - 1
      BY <3>1 DEF Inv, OrderInv
    <3>3. queue[n] = e
      BY <2>0, <3>2
    <3> QED
      BY <3>1, <3>3 DEF InPipeline
  <2> QED
    BY <2>0, <2>1, <2>2, <2>3, <2>4
<1> QED
  BY <1>1, OneStartInvariant, PTL

-----------------------------------------------------------------------------
(* Documents are current.                                                  *)

\* The first event that no document can have been written from yet.
Top == IF phase \in {"none", "transform", "sink"} THEN Low ELSE Low + Len(batch)

\* Whatever a document, the dead letter queue, a left indexer or an accepted
\* batch holds lies before it: a flush always writes documents forward.
DocInv ==
    /\ \A k \in PK : doc[k] < Top
    /\ \A e \in dlq \cup late \cup delivered : e < Top

\* No step makes an event writable again that a document may already hold.
LEMMA TopGrows ==
    ASSUME Source # "postgresql", TypeInv, OrderInv, TypeInv', OrderInv', [Next]_vars
    PROVE  Top <= Top'
<1>0. /\ Low \in Int /\ Len(batch) \in Nat /\ Low + Len(batch) <= next
      /\ next \in Nat /\ head \in Nat /\ next <= head + 1
  BY LowFacts DEF OrderInv
<1>1. Top \in {Low, Low + Len(batch)} /\ (phase = "none" => Top = Low)
  BY DEF Top
<1>2. CASE StartCDC
  <2>1. next' = head + 1 /\ batch' = <<>> /\ hand' = 0 /\ queue' = <<>> /\ phase' = "none"
    BY <1>2 DEF StartCDC, ResumeFrom, OrderInv, log, buffers
  <2>2. Top' = head + 1
    BY <1>0, <2>1 DEF Top, Low, InFlightLen
  <2> QED
    BY <1>0, <1>1, <2>2
<1>3. CASE Crash
  <2>1. next' = next /\ batch' = <<>> /\ hand' = 0 /\ queue' = <<>> /\ phase' = "none"
    BY <1>3 DEF Crash
  <2>2. Top' = next
    BY <1>0, <2>1 DEF Top, Low, InFlightLen
  <2> QED
    BY <1>0, <1>1, <2>2
<1>4. CASE Send \/ Receive \/ AppendToBatch
  <2>1. Low' = Low
    BY <1>4, OrderSend, OrderReceive, OrderAppend
  <2>2. CASE AppendToBatch
    <3>1. phase = "none" /\ phase' \in {"none", "transform"}
      BY <2>2 DEF AppendToBatch, TypeInv
    <3> QED
      BY <1>0, <2>1, <3>1 DEF Top
  <2>3. CASE Send \/ Receive
    <3>1. phase' = phase /\ batch' = batch
      BY <2>3 DEF Send, Receive
    <3> QED
      BY <1>0, <1>1, <2>1, <3>1 DEF Top
  <2> QED
    BY <1>4, <2>2, <2>3
<1>5. ASSUME phase # "none", phase' = "none", batch' = <<>>,
             UNCHANGED <<head, reader, next, base, queue, hand>>
      PROVE  Top <= Top'
  <2>1. Low' = Low + Len(batch)
    BY <1>5, OrderCleared
  <2> QED
    BY <1>0, <1>1, <1>5, <2>1 DEF Top
<1>6. ASSUME UNCHANGED <<next, queue, hand, batch>>,
             \/ phase' = phase
             \/ phase = "none" /\ phase' = "transform"
             \/ phase = "transform" /\ phase' = "sink"
             \/ phase = "sink"
             \/ phase = "checkpoint" /\ phase' = "commit"
      PROVE  Top <= Top'
  <2>1. Low' = Low /\ Len(batch') = Len(batch)
    BY <1>6 DEF Low, InFlightLen
  <2>2. CASE phase' = phase
    BY <1>0, <1>1, <2>1, <2>2 DEF Top
  <2>3. CASE phase \in {"none", "transform", "sink"}
    <3>1. Top = Low /\ Top' \in {Low, Low + Len(batch)}
      BY <2>1, <2>3 DEF Top
    <3> QED
      BY <1>0, <3>1
  <2>4. CASE phase = "checkpoint" /\ phase' = "commit"
    <3>1. Top = Low + Len(batch) /\ Top' = Low + Len(batch)
      BY <2>1, <2>4 DEF Top
    <3> QED
      BY <1>0, <3>1
  <2> QED
    BY <1>6, <2>2, <2>3, <2>4
<1>7. CASE \/ SourceCommit \/ StreamEnds \/ Tick \/ SinkAccepts \/ SinkFails
           \/ UpdateCheckpoint \/ UNCHANGED vars
           \/ \E e \in Event : RetryDLQItem(e) \/ LateWrite(e) \/ GiveUpDLQItem(e)
  BY <1>6, <1>7 DEF SourceCommit, StreamEnds, Tick, SinkAccepts, SinkFails, UpdateCheckpoint,
     vars, RetryDLQItem, LateWrite, GiveUpDLQItem, LateWrite, log, buffers
<1>8. CASE TransformEvents \/ AddFailedEvent \/ LoseFailedEvents \/ CommitCheckpoint
  BY <1>5, <1>6, <1>8 DEF TransformEvents, AddFailedEvent, LoseFailedEvents, CommitCheckpoint, log
<1>9. ~SendStandbyStatus /\ ~ResetBatch /\ ~DrainQueue
  BY DEF SendStandbyStatus, ResetBatch, DrainQueue, OrderInv
<1> QED
  BY <1>2, <1>3, <1>4, <1>7, <1>8, <1>9 DEF Next, Reader, Processor, Flush

\* The events a step adds to those the documents are compared with are of the
\* batch, and a flush that adds some puts Top behind its batch.
LEMMA EventSteps ==
    ASSUME TypeInv, [Next]_vars
    PROVE  LET old == dlq \cup late \cup delivered
               new == dlq' \cup late' \cup delivered'
           IN  \/ new \subseteq old
               \/ /\ phase = "sink" /\ phase' \in {"checkpoint", "dlq"}
                  /\ UNCHANGED <<next, queue, hand, batch>>
                  /\ new \subseteq old \cup {batch[i] : i \in out}
               \/ /\ phase = "dlq" /\ FirstOut \in out
                  /\ new \subseteq old \cup {batch[FirstOut]}
<1>1. CASE SinkAccepts \/ SinkFails
  BY <1>1 DEF SinkAccepts, SinkFails, history
<1>2. CASE AddFailedEvent
  <2>1. phase = "dlq" /\ FirstOut \in out
    BY <1>2, OutBounds DEF AddFailedEvent, TypeInv, TypeOK
  <2>2. dlq' \subseteq dlq \cup {batch[FirstOut]} /\ UNCHANGED <<late, delivered>>
    BY <1>2 DEF AddFailedEvent, docs
  <2> QED
    BY <2>1, <2>2
<1>3. CASE ~(SinkAccepts \/ SinkFails \/ AddFailedEvent)
  <2>1. /\ dlq' \subseteq dlq /\ delivered' = delivered
        /\ late' \subseteq late \cup dlq
    BY <1>3 DEF Next, Reader, Processor, Flush, vars, SourceCommit, StartCDC, Send,
       SendStandbyStatus, StreamEnds, ResetBatch, DrainQueue, Receive, AppendToBatch, Tick,
       TransformEvents, LoseFailedEvents, UpdateCheckpoint, CommitCheckpoint, RetryDLQItem,
       LateWrite, GiveUpDLQItem, Crash, docs, history
  <2> QED
    BY <2>1
<1> QED
  BY <1>1, <1>2, <1>3

\* A step leaves the documents alone, or writes events of the batch, or one
\* that waits in the dead letter queue or in a left indexer.
LEMMA DocSteps ==
    ASSUME TypeInv, [Next]_vars
    PROVE  \/ UNCHANGED <<doc, rewritten, delivered, requests>>
           \/ SinkAccepts \/ SinkFails
           \/ \E e \in Event : /\ e \in dlq \cup late /\ Rewrite(e)
                               /\ UNCHANGED <<delivered, requests>>
<1>1. CASE SinkAccepts \/ SinkFails
  BY <1>1
<1>2. CASE \E e \in Event : RetryDLQItem(e) \/ LateWrite(e)
  BY <1>2 DEF RetryDLQItem, LateWrite, history
<1>3. CASE ~(SinkAccepts \/ SinkFails \/ \E e \in Event : RetryDLQItem(e) \/ LateWrite(e))
  BY <1>3 DEF Next, Reader, Processor, Flush, vars, SourceCommit, StartCDC, Send,
     SendStandbyStatus, StreamEnds, ResetBatch, DrainQueue, Receive, AppendToBatch, Tick,
     TransformEvents, AddFailedEvent, LoseFailedEvents, UpdateCheckpoint, CommitCheckpoint,
     GiveUpDLQItem, Crash, docs, history
<1> QED
  BY <1>1, <1>2, <1>3

\* The event at an index of the batch lies between Low and its end.
LEMMA BatchAbove ==
    ASSUME TypeInv, OrderInv, NEW i \in out
    PROVE  batch[i] \in Int /\ Low <= batch[i] /\ batch[i] < Low + Len(batch)
<1>1. i \in 1..Len(batch) /\ Len(batch) \in Nat /\ Low \in Int /\ DOMAIN batch = 1..Len(batch)
  BY LowFacts DEF TypeInv, TypeOK
<1>2. batch[i] = Low + i - 1
  BY <1>1 DEF OrderInv
<1> QED
  BY <1>1, <1>2

\* Top is a number, before and after a step.
LEMMA TopTyped == ASSUME TypeInv, TypeInv' PROVE Top \in Int /\ Top' \in Int
<1>1. Low \in Int /\ Len(batch) \in Nat
  BY LowFacts
<1>2. /\ next' \in Nat /\ batch' \in Seq(Event) /\ queue' \in Seq(Event)
      /\ Len(batch') \in Nat /\ Len(queue') \in Nat
  BY SMTT(20) DEF TypeInv, TypeOK
<1>3. Low' \in Int
  BY <1>2 DEF Low, InFlightLen
<1> QED
  BY <1>1, <1>2, <1>3 DEF Top

\* A step that moves from the sink to the next phase puts Top behind the batch.
LEMMA TopPassed ==
    ASSUME TypeInv, phase = "sink", phase' \in {"checkpoint", "dlq"},
           UNCHANGED <<next, queue, hand, batch>>
    PROVE  Top = Low /\ Top' = Low + Len(batch)
  BY DEF Top, Low, InFlightLen

\* Every step keeps DocInv.
LEMMA DocStep ==
    ASSUME Source # "postgresql", TypeInv, OrderInv, TypeInv', OrderInv', DocInv, [Next]_vars
    PROVE  DocInv'
<1>0. Low \in Int /\ Len(batch) \in Nat /\ Top \in Int /\ Top' \in Int /\ Top <= Top'
  BY LowFacts, TopGrows, TopTyped
<1> DEFINE old == dlq \cup late \cup delivered
           new == dlq' \cup late' \cup delivered'
<1>1. /\ \A k \in PK : doc[k] \in Int /\ doc[k] < Top
      /\ \A e \in old : e \in Int /\ e < Top
      /\ \A e \in new : e \in Int
  BY ConstantsAssumption DEF DocInv, TypeInv, TypeOK, Event
<1>2. \A e \in new : e < Top'
  <2>1. CASE new \subseteq old
    BY <1>0, <1>1, <2>1
  <2>2. CASE /\ phase = "sink" /\ phase' \in {"checkpoint", "dlq"}
             /\ UNCHANGED <<next, queue, hand, batch>>
             /\ new \subseteq old \cup {batch[i] : i \in out}
    <3>1. Top' = Low + Len(batch)
      BY <2>2, TopPassed
    <3>2. \A i \in out : batch[i] < Top'
      BY <3>1, BatchAbove
    <3> HIDE DEF old, new
    <3> QED
      BY <1>0, <1>1, <2>2, <3>2
  <2>3. CASE phase = "dlq" /\ FirstOut \in out /\ new \subseteq old \cup {batch[FirstOut]}
    <3>1. Top = Low + Len(batch)
      BY <2>3 DEF Top
    <3>2. batch[FirstOut] \in Int /\ batch[FirstOut] < Top
      BY <2>3, <3>1, BatchAbove
    <3> HIDE DEF old, new
    <3> QED
      BY <1>0, <1>1, <2>3, <3>2
  <2> QED
    BY <2>1, <2>2, <2>3, EventSteps
<1>3. ASSUME NEW k \in PK PROVE doc'[k] < Top'
  <2>1. CASE doc'[k] = doc[k]
    BY <1>0, <1>1, <2>1
  <2>2. CASE SinkAccepts \/ SinkFails
    <3>1. Top' = Low + Len(batch)
      BY <2>2, TopPassed DEF SinkAccepts, SinkFails
    <3>2. doc'[k] = doc[k] \/ \E i \in out : doc'[k] = batch[i]
      BY <2>2 DEF SinkAccepts, SinkFails, Writes
    <3>3. CASE \E i \in out : doc'[k] = batch[i]
      BY <3>1, <3>3, BatchAbove
    <3> QED
      BY <2>1, <3>2, <3>3
  <2>3. CASE \E e \in Event : e \in dlq \cup late /\ Rewrite(e)
    <3>1. PICK e \in Event : e \in old /\ Rewrite(e)
      BY <2>3
    <3>2. doc'[k] = doc[k] \/ doc'[k] = e
      BY <3>1 DEF Rewrite, TypeInv, TypeOK
    <3> QED
      BY <1>0, <1>1, <2>1, <3>1, <3>2
  <2> QED
    BY <2>1, <2>2, <2>3, DocSteps
<1> HIDE DEF new
<1>4. \A e \in dlq' \cup late' \cup delivered' : e < Top'
  BY <1>2 DEF new
<1> QED
  BY <1>3, <1>4 DEF DocInv

\* Every step keeps DocumentsCurrent: a flush writes events newer than all that
\* were delivered before, and what it delivers it writes in one request.
LEMMA CurrentStep ==
    ASSUME TypeInv, OrderInv, TypeInv', DocInv, DocumentsCurrent, [Next]_vars
    PROVE  DocumentsCurrent'
<1>0. /\ delivered \subseteq Event /\ doc \in [PK -> Event \cup {0}] /\ Event \subseteq Nat
      /\ PkOf \in [Event -> PK] /\ \A i \in out : batch[i] \in Event
  <2>1. batch \in Seq(Event) /\ out \subseteq DOMAIN batch
    BY DEF TypeInv, TypeOK
  <2>2. \A i \in out : batch[i] \in Event
    BY <2>1
  <2>3. Event \subseteq Nat
    BY ConstantsAssumption DEF Event
  <2> QED
    BY <2>2, <2>3, ConstantsAssumption DEF TypeInv, TypeOK
<1>1. CASE UNCHANGED <<doc, rewritten, delivered, requests>>
  BY <1>1 DEF DocumentsCurrent
<1>2. ASSUME SinkAccepts \/ SinkFails, NEW e \in delivered
      PROVE  LET k == PkOf[e]
             IN  \/ e <= doc'[k] \/ k \in rewritten'
                 \/ \E r \in requests' : {e, doc'[k]} \subseteq r
  <2> DEFINE k == PkOf[e]
  <2>1. k \in PK /\ e \in Int /\ e < Low /\ requests \subseteq requests'
    <3>1. phase = "sink"
      BY <1>2 DEF SinkAccepts, SinkFails
    <3>2. Top = Low
      BY <3>1 DEF Top
    <3>3. requests \subseteq requests'
      BY <1>2 DEF SinkAccepts, SinkFails, history
    <3> QED
      BY <1>0, <3>2, <3>3 DEF DocInv
  <2>2. \/ doc'[k] = doc[k] /\ (k \in rewritten => k \in rewritten')
        \/ \E i \in out : doc'[k] = batch[i]
    BY <1>2, <2>1 DEF SinkAccepts, SinkFails, Writes
  <2>3. e <= doc[k] \/ k \in rewritten \/ \E r \in requests : {e, doc[k]} \subseteq r
    BY DEF DocumentsCurrent
  <2>4. CASE doc'[k] = doc[k] /\ (k \in rewritten => k \in rewritten')
    <3> HIDE DEF k
    <3>1. e <= doc'[k] \/ k \in rewritten' \/ \E r \in requests' : {e, doc'[k]} \subseteq r
      BY <2>1, <2>3, <2>4
    <3> QED
      BY <3>1 DEF k
  <2>5. CASE \E i \in out : doc'[k] = batch[i]
    <3>1. PICK i \in out : doc'[k] = batch[i]
      BY <2>5
    <3>2. Low <= doc'[k] /\ doc'[k] \in Int
      BY <3>1, BatchAbove
    <3>3. e <= doc'[k]
      <4> HIDE DEF k
      <4> QED
        BY <2>1, <3>2, LowFacts
    <3> QED
      BY <3>3
  <2> QED
    BY <2>2, <2>4, <2>5
<1>3. CASE SinkFails
  <2>1. delivered' = delivered
    BY <1>3 DEF SinkFails, history
  <2> QED
    BY <1>2, <1>3, <2>1 DEF DocumentsCurrent
<1>4. CASE SinkAccepts
  <2>1. ASSUME NEW i \in out
        PROVE  {batch[i], doc'[PkOf[batch[i]]]} \subseteq {batch[j] : j \in out}
    <3>1. PkOf[batch[i]] \in PK
      BY <1>0
    <3>2. Writes(out, PkOf[batch[i]]) # {}
      BY DEF Writes
    <3>3. doc'[PkOf[batch[i]]] \in Writes(out, PkOf[batch[i]])
      BY <1>4, <3>1, <3>2 DEF SinkAccepts
    <3> QED
      BY <3>3 DEF Writes
  <2>2. {batch[j] : j \in out} \in requests'
    BY <1>4 DEF SinkAccepts
  <2>3. delivered' = delivered \cup {batch[j] : j \in out}
    BY <1>4 DEF SinkAccepts
  <2>4. ASSUME NEW e \in delivered'
        PROVE  LET k == PkOf[e]
               IN  \/ e <= doc'[k] \/ k \in rewritten'
                   \/ \E r \in requests' : {e, doc'[k]} \subseteq r
    <3>1. CASE e \in delivered
      BY <1>2, <1>4, <3>1
    <3>2. CASE \E i \in out : e = batch[i]
      BY <2>1, <2>2, <3>2
    <3> QED
      BY <2>3, <3>1, <3>2
  <2> QED
    BY <2>4 DEF DocumentsCurrent
<1>5. CASE \E e \in Event : Rewrite(e) /\ UNCHANGED <<delivered, requests>>
  <2>1. PICK f \in Event : Rewrite(f) /\ UNCHANGED <<delivered, requests>>
    BY <1>5
  <2>2. ASSUME NEW e \in delivered
        PROVE  LET k == PkOf[e]
               IN  \/ e <= doc'[k] \/ k \in rewritten'
                   \/ \E r \in requests' : {e, doc'[k]} \subseteq r
    <3> DEFINE k == PkOf[e]
    <3>1. e <= doc[k] \/ k \in rewritten \/ \E r \in requests : {e, doc[k]} \subseteq r
      BY DEF DocumentsCurrent
    <3>2. k \in rewritten' \/ (doc'[k] = doc[k] /\ rewritten \subseteq rewritten')
      BY <1>0, <2>1 DEF Rewrite
    <3> HIDE DEF k
    <3>3. e <= doc'[k] \/ k \in rewritten' \/ \E r \in requests' : {e, doc'[k]} \subseteq r
      BY <2>1, <3>1, <3>2
    <3> QED
      BY <3>3 DEF k
  <2> QED
    BY <2>1, <2>2 DEF DocumentsCurrent
<1> QED
  BY <1>1, <1>3, <1>4, <1>5, DocSteps

\* DocumentsCurrent: with a MySQL or MongoDB source and under every fault, a
\* document is behind an event delivered for it only if one call of BulkWrite
\* wrote both, or if a retry or a left indexer wrote it last.
THEOREM DocumentsCurrentHolds ==
    ASSUME Source # "postgresql"
    PROVE  Spec => []DocumentsCurrent
<1> DEFINE I == TypeInv /\ OrderInv /\ DocInv /\ DocumentsCurrent
<1>1. Init => I
  <2>1. Init => DocInv /\ DocumentsCurrent
    BY DEF Init, DocInv, Top, Low, InFlightLen, DocumentsCurrent
  <2> QED
    BY <2>1, TypeInit, OrderInit
<1>2. I /\ [Next]_vars => I'
  BY TypeStep, OrderStep, DocStep, CurrentStep
<1> QED
  BY <1>1, <1>2, PTL DEF Spec

=============================================================================
