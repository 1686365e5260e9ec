----------------------- MODULE ParallelSnapshotProofs -----------------------
(***************************************************************************)
(* Proofs about ParallelSnapshot: for any tables with any key ranges, any  *)
(* number of workers and any chunk size and limits.                        *)
(***************************************************************************)
EXTENDS ParallelSnapshot, FiniteSetTheorems, TLAPS

-----------------------------------------------------------------------------
(* The chunks of createIDBasedChunks partition the key range of a table.   *)

\* Integer division, the only fact about it the proofs need.
LEMMA DivFact ==
    ASSUME NEW a \in Int, NEW d \in Int, d > 0
    PROVE  /\ a \div d \in Int
           /\ (a \div d) * d <= a
           /\ a < (a \div d) * d + d
  BY Z3

\* The number of chunks is between one and the limit, and no larger than the
\* number of keys.
LEMMA CountFact ==
    ASSUME NEW lo \in Int, NEW hi \in Int, lo <= hi,
           NEW size \in Int, size > 0, NEW limit \in Int, limit > 0
    PROVE  LET n == ChunkCount(lo, hi, size, limit)
           IN  n \in Int /\ 1 <= n /\ n <= limit /\ n <= hi - lo + 1
<1> DEFINE q == (hi - lo + 1) \div size
<1>1. q \in Int /\ q * size <= hi - lo + 1 /\ hi - lo + 1 < q * size + size
  BY DivFact
<1>2. q <= hi - lo + 1
  <2>1. CASE q <= 0
    BY <1>1, <2>1
  <2>2. CASE q > 0
    <3>1. q <= q * size
      BY <1>1, <2>2, Z3
    <3> QED BY <1>1, <3>1
  <2> QED BY <1>1, <2>1, <2>2
<1>3. q >= 0
  <2>1. SUFFICES ASSUME q < 0 PROVE FALSE
    BY <1>1
  <2>2. q * size + size <= 0
    BY <1>1, <2>1, Z3
  <2> QED BY <1>1, <2>2
<1> QED BY <1>1, <1>2, <1>3 DEF ChunkCount, Smaller

\* The step is at least one, and all chunks but the last fit into the range.
LEMMA StepFact ==
    ASSUME NEW lo \in Int, NEW hi \in Int, lo <= hi,
           NEW size \in Int, size > 0, NEW limit \in Int, limit > 0
    PROVE  LET n == ChunkCount(lo, hi, size, limit)
               s == Step(lo, hi, size, limit)
           IN  s \in Int /\ s >= 1 /\ n * s <= hi - lo + 1
<1> DEFINE n == ChunkCount(lo, hi, size, limit)
           s == Step(lo, hi, size, limit)
           r == hi - lo + 1
<1>1. n \in Int /\ 1 <= n /\ n <= r
  BY CountFact
<1>2. s = r \div n
  BY DEF Step
<1>3. r \in Int
  OBVIOUS
<1> HIDE DEF n, s, r
<1>4. s \in Int /\ s * n <= r /\ r < s * n + n
  BY <1>1, <1>2, <1>3, DivFact
<1>5. s >= 1
  <2>1. SUFFICES ASSUME s <= 0 PROVE FALSE
    BY <1>4
  <2>2. s * n <= 0
    BY <1>1, <1>4, <2>1, Z3
  <2> QED BY <1>1, <1>3, <1>4, <2>2
<1>6. n * s <= r
  BY <1>1, <1>4, Z3
<1> QED BY <1>4, <1>5, <1>6 DEF n, s, r

\* A product is monotone in its first factor.
LEMMA TimesMonotone ==
    ASSUME NEW a \in Int, NEW b \in Int, a <= b, NEW s \in Int, s >= 1
    PROVE  a * s <= b * s
  BY Z3

\* Every key of the table is in some chunk: the WHERE clauses of
\* buildChunkQuery together select the whole table.
THEOREM ChunksCover ==
    ASSUME NEW lo \in Int, NEW hi \in Int, lo <= hi,
           NEW size \in Int, size > 0, NEW limit \in Int, limit > 0,
           NEW id \in lo..hi
    PROVE  \E i \in 0..(ChunkCount(lo, hi, size, limit) - 1) :
               InChunk(lo, hi, size, limit, i, id)
<1> DEFINE n == ChunkCount(lo, hi, size, limit)
           s == Step(lo, hi, size, limit)
           q == (id - lo) \div s
<1>1. n \in Int /\ 1 <= n
  BY CountFact
<1>2. s \in Int /\ s >= 1
  BY StepFact
<1>3. \A i : InChunk(lo, hi, size, limit, i, id)
               <=> /\ lo + i * s <= id
                   /\ id < IF i = n - 1 THEN hi + 1 ELSE lo + (i + 1) * s
  BY DEF InChunk, StartID, EndID
<1> HIDE DEF n, s
<1>4. q \in Int /\ q * s <= id - lo /\ id - lo < q * s + s
  BY <1>2, DivFact
<1> HIDE DEF q
<1>5. q >= 0
  <2>1. SUFFICES ASSUME q < 0 PROVE FALSE
    BY <1>4
  <2>2. (q + 1) * s <= 0
    BY <1>2, <1>4, <2>1, Z3
  <2>3. q * s + s = (q + 1) * s
    BY <1>2, <1>4, Z3
  <2> QED BY <1>2, <1>4, <2>2, <2>3
<1>6. CASE q < n - 1
  <2>1. q * s + s = (q + 1) * s
    BY <1>2, <1>4, Z3
  <2>2. q * s \in Int /\ (q + 1) * s \in Int
    BY <1>2, <1>4, Z3
  <2>3. lo + q * s <= id /\ id < lo + (q + 1) * s
    BY <1>4, <2>1, <2>2
  <2>4. q \in 0..(n - 1) /\ q # n - 1
    BY <1>1, <1>4, <1>5, <1>6
  <2>5. InChunk(lo, hi, size, limit, q, id)
    BY <1>3, <2>3, <2>4
  <2> QED BY <2>4, <2>5 DEF n
<1>7. CASE q >= n - 1
  <2>1. (n - 1) * s <= q * s
    BY <1>1, <1>2, <1>4, <1>7, TimesMonotone
  <2>2. (n - 1) * s \in Int /\ q * s \in Int
    BY <1>1, <1>2, <1>4, Z3
  <2>3. lo + (n - 1) * s <= id
    BY <1>4, <2>1, <2>2
  <2>4. InChunk(lo, hi, size, limit, n - 1, id)
    BY <1>3, <2>3
  <2>5. n - 1 \in 0..(n - 1)
    BY <1>1
  <2> QED BY <2>4, <2>5 DEF n
<1> QED BY <1>1, <1>4, <1>6, <1>7

\* No key is in two chunks: no row is read by two chunk queries.
THEOREM ChunksDisjoint ==
    ASSUME NEW lo \in Int, NEW hi \in Int, lo <= hi,
           NEW size \in Int, size > 0, NEW limit \in Int, limit > 0,
           NEW id \in Int,
           NEW i \in 0..(ChunkCount(lo, hi, size, limit) - 1),
           NEW j \in 0..(ChunkCount(lo, hi, size, limit) - 1),
           InChunk(lo, hi, size, limit, i, id),
           InChunk(lo, hi, size, limit, j, id)
    PROVE  i = j
<1> DEFINE n == ChunkCount(lo, hi, size, limit)
           s == Step(lo, hi, size, limit)
<1>1. n \in Int /\ 1 <= n /\ i \in 0..(n - 1) /\ j \in 0..(n - 1)
  BY CountFact
<1>2. s \in Int /\ s >= 1
  BY StepFact
<1>3. /\ lo + i * s <= id /\ lo + j * s <= id
      /\ i # n - 1 => id < lo + (i + 1) * s
      /\ j # n - 1 => id < lo + (j + 1) * s
  BY DEF InChunk, StartID, EndID
<1> HIDE DEF n, s
<1>4. ASSUME NEW a \in 0..(n - 1), NEW b \in 0..(n - 1), a < b,
             lo + b * s <= id, a # n - 1 => id < lo + (a + 1) * s
      PROVE  FALSE
  <2>1. a # n - 1 /\ a + 1 <= b /\ a \in Int /\ b \in Int
    BY <1>1, <1>4
  <2>2. (a + 1) * s <= b * s
    BY <1>2, <2>1, TimesMonotone
  <2>3. (a + 1) * s \in Int /\ b * s \in Int
    BY <1>2, <2>1, Z3
  <2> QED BY <1>4, <2>1, <2>2, <2>3
<1>5. ~(i < j) /\ ~(j < i)
  BY <1>1, <1>3, <1>4
<1> QED BY <1>1, <1>5

\* Every chunk is a non-empty range within the key range of the table.
THEOREM ChunksWithin ==
    ASSUME NEW lo \in Int, NEW hi \in Int, lo <= hi,
           NEW size \in Int, size > 0, NEW limit \in Int, limit > 0,
           NEW i \in 0..(ChunkCount(lo, hi, size, limit) - 1)
    PROVE  /\ lo <= StartID(lo, hi, size, limit, i)
           /\ StartID(lo, hi, size, limit, i) < EndID(lo, hi, size, limit, i)
           /\ EndID(lo, hi, size, limit, i) <= hi + 1
<1> DEFINE n == ChunkCount(lo, hi, size, limit)
           s == Step(lo, hi, size, limit)
<1>1. n \in Int /\ 1 <= n /\ i \in 0..(n - 1)
  BY CountFact
<1>2. s \in Int /\ s >= 1 /\ n * s <= hi - lo + 1
  BY StepFact
<1>3. /\ StartID(lo, hi, size, limit, i) = lo + i * s
      /\ EndID(lo, hi, size, limit, i)
            = IF i = n - 1 THEN hi + 1 ELSE lo + (i + 1) * s
  BY DEF StartID, EndID
<1> HIDE DEF n, s
<1>4. i * s \in Int /\ (i + 1) * s \in Int /\ n * s \in Int
  BY <1>1, <1>2, Z3
<1>5. 0 <= i * s
  BY <1>1, <1>2, Z3
<1>6. (i + 1) * s = i * s + s
  BY <1>1, <1>2, Z3
<1>7. (i + 1) * s <= n * s
  BY <1>1, <1>2, TimesMonotone
<1> QED BY <1>1, <1>2, <1>3, <1>4, <1>5, <1>6, <1>7

-----------------------------------------------------------------------------
(* The inductive invariant.                                                *)

Status == {"none", "pending", "running", "retrying", "completed", "failed"}

TypeInv ==
    /\ phase \in {"new", "running", "stopped"}
    /\ tableQueue \in Seq(Table)
    /\ current \in [table : Table \cup {"none"}, sent : Nat]
    /\ chunkQueue \in Seq(Chunk)
    /\ chunkStatus \in [Chunk -> Status]
    /\ worker \in [Worker -> Chunk \cup {Idle, Exited}]
    /\ sleeping \subseteq Chunk

Distinct(q) == \A m, n \in DOMAIN q : q[m] = q[n] => m = n

\* No chunk is sent twice: the tables that wait are different ones, without
\* chunks; the one being split has no chunk from the next on.
SendInv ==
    /\ phase = "new" => /\ tableQueue = <<>> /\ current.table = "none"
                        /\ \A c \in Chunk : chunkStatus[c] = "none"
    /\ Distinct(tableQueue)
    /\ \A n \in DOMAIN tableQueue :
        /\ tableQueue[n] # current.table
        /\ \A c \in Chunk : c[1] = tableQueue[n] => chunkStatus[c] = "none"
    /\ current.table # "none" =>
        /\ current.sent < ChunksOf(current.table)
        /\ \A c \in Chunk : c[1] = current.table /\ c[2] >= current.sent => chunkStatus[c] = "none"

\* The status of a chunk tells where it is.
PlaceInv ==
    /\ Distinct(chunkQueue)
    /\ \A n \in DOMAIN chunkQueue : /\ chunkStatus[chunkQueue[n]] \in {"pending", "retrying"}
                                    /\ chunkQueue[n] \notin sleeping
    /\ \A v, w \in Worker : worker[v] \in Chunk /\ worker[v] = worker[w] => v = w
    /\ \A w \in Worker : worker[w] \in Chunk => chunkStatus[worker[w]] = "running"
    /\ \A c \in sleeping : chunkStatus[c] = "retrying"

\* The rows of a completed chunk are in the index.
CopiedInv == \A c \in Chunk : chunkStatus[c] = "completed" => RowsOf(c) \subseteq written

Inv == TypeInv /\ SendInv /\ PlaceInv /\ CopiedInv /\ NoRetryDropped

-----------------------------------------------------------------------------
(* Lemmas about channels, chunks and their number.                         *)

\* A send puts the new element last.
LEMMA AppendFacts ==
    ASSUME NEW S, NEW q \in Seq(S), NEW x \in S
    PROVE  /\ Append(q, x) \in Seq(S)
           /\ \A n \in DOMAIN Append(q, x) :
                \/ n \in DOMAIN q /\ Append(q, x)[n] = q[n]
                \/ n = Len(q) + 1 /\ Append(q, x)[n] = x
  OBVIOUS

\* A receive takes the first element.
LEMMA TailFacts ==
    ASSUME NEW S, NEW q \in Seq(S), q # <<>>
    PROVE  /\ Head(q) \in S /\ Tail(q) \in Seq(S)
           /\ 1 \in DOMAIN q /\ Head(q) = q[1]
           /\ \A n \in DOMAIN Tail(q) : n + 1 \in DOMAIN q /\ n + 1 # 1 /\ Tail(q)[n] = q[n + 1]
  OBVIOUS

LEMMA AppendDistinct ==
    ASSUME NEW S, NEW q \in Seq(S), NEW x \in S, Distinct(q), \A n \in DOMAIN q : q[n] # x
    PROVE  Distinct(Append(q, x))
<1> SUFFICES ASSUME NEW m \in DOMAIN Append(q, x), NEW n \in DOMAIN Append(q, x),
                    Append(q, x)[m] = Append(q, x)[n]
             PROVE  m = n
  BY DEF Distinct
<1>1. \/ m \in DOMAIN q /\ Append(q, x)[m] = q[m]
      \/ m = Len(q) + 1 /\ Append(q, x)[m] = x
  BY AppendFacts
<1>2. \/ n \in DOMAIN q /\ Append(q, x)[n] = q[n]
      \/ n = Len(q) + 1 /\ Append(q, x)[n] = x
  BY AppendFacts
<1> QED
  BY <1>1, <1>2 DEF Distinct

LEMMA TailDistinct ==
    ASSUME NEW S, NEW q \in Seq(S), q # <<>>, Distinct(q)
    PROVE  /\ Distinct(Tail(q))
           /\ \A n \in DOMAIN Tail(q) : Tail(q)[n] # Head(q)
<1>1. /\ 1 \in DOMAIN q /\ Head(q) = q[1]
      /\ \A n \in DOMAIN Tail(q) : n \in Nat /\ n + 1 \in DOMAIN q /\ n + 1 # 1 /\ Tail(q)[n] = q[n + 1]
  BY TailFacts
<1>2. ASSUME NEW m \in DOMAIN Tail(q), NEW n \in DOMAIN Tail(q), Tail(q)[m] = Tail(q)[n]
      PROVE  m = n
  <2>1. m + 1 = n + 1
    BY <1>1, <1>2 DEF Distinct
  <2> QED
    BY <1>1, <2>1
<1>3. ASSUME NEW n \in DOMAIN Tail(q) PROVE Tail(q)[n] # Head(q)
  BY <1>1 DEF Distinct
<1> QED
  BY <1>2, <1>3 DEF Distinct

\* What the model takes for a chunk, and what a worker without one holds.
LEMMA ChunkFacts ==
    /\ \A t \in Table, i \in 0..(MaxConcurrentChunks - 1) :
         <<t, i>> \in Chunk /\ <<t, i>>[1] = t /\ <<t, i>>[2] = i
    /\ \A c \in Chunk : /\ c[1] \in Table /\ c[2] \in 0..(MaxConcurrentChunks - 1)
                        /\ c = <<c[1], c[2]>>
    /\ Idle \notin Chunk /\ Exited \notin Chunk
  BY ConstantsAssumption DEF Chunk, Idle, Exited

\* The range of keys getIDRange returns, and the chunk size, are as
\* createIDBasedChunks needs them.
LEMMA RangeFacts ==
    ASSUME NEW t \in Table
    PROVE  /\ Low(t) \in Int /\ High(t) \in Int /\ Low(t) <= High(t)
           /\ SizeOf(t) \in Int /\ SizeOf(t) > 0
<1>1. MinID[t] \in Int /\ MaxID[t] \in Int /\ EstimatedRows[t] \in Nat
  BY ConstantsAssumption
<1>2. Rows(t) # {} => MinID[t] <= MaxID[t]
  BY <1>1 DEF Rows
<1> QED
  BY <1>1, <1>2, ConstantsAssumption DEF Low, High, SizeOf, OptimizeChunkSize, Smaller

\* A table has at least one chunk and at most MaxConcurrentChunks.
LEMMA ChunksOfFacts ==
    ASSUME NEW t \in Table
    PROVE  ChunksOf(t) \in Nat /\ 1 <= ChunksOf(t) /\ ChunksOf(t) <= MaxConcurrentChunks
<1>1. CASE t \in AutoIncrement
  <2> DEFINE n == ChunkCount(Low(t), High(t), SizeOf(t), MaxConcurrentChunks)
  <2>0. /\ Low(t) \in Int /\ High(t) \in Int /\ Low(t) <= High(t)
        /\ SizeOf(t) \in Int /\ SizeOf(t) > 0
        /\ MaxConcurrentChunks \in Int /\ MaxConcurrentChunks > 0
    BY RangeFacts, ConstantsAssumption
  <2>1. n \in Int /\ 1 <= n /\ n <= MaxConcurrentChunks
    BY <2>0, CountFact
  <2>2. ChunksOf(t) = n
    BY <1>1 DEF ChunksOf
  <2> HIDE DEF n
  <2> QED
    BY <2>1, <2>2
<1>2. CASE t \notin AutoIncrement
  BY <1>2, ConstantsAssumption DEF ChunksOf
<1> QED
  BY <1>1, <1>2

\* The number of positions of a sequence.
LEMMA IndexCount ==
    ASSUME NEW n \in Nat
    PROVE  IsFiniteSet(1..n) /\ Cardinality(1..n) = n
<1>1. IsFiniteSet(1..n) /\ Cardinality(1..n) = IF 1 > n THEN 0 ELSE n - 1 + 1
  BY FS_Interval
<1> QED
  BY <1>1

\* The channel has room for all chunks.
LEMMA ChunkCardinality == IsFiniteSet(Chunk) /\ Cardinality(Chunk) <= Capacity
<1> DEFINE I == 0..(MaxConcurrentChunks - 1)
<1>1. Len(Tables) \in Nat /\ DOMAIN Tables = 1..Len(Tables)
  BY ConstantsAssumption
<1>2. IsFiniteSet(1..Len(Tables)) /\ Cardinality(1..Len(Tables)) = Len(Tables)
  BY <1>1, IndexCount
<1>3. Tables \in Surjection(1..Len(Tables), Table)
  BY <1>1, ConstantsAssumption DEF Surjection, Table
<1>4. IsFiniteSet(Table) /\ Cardinality(Table) <= Len(Tables)
  BY <1>2, <1>3, FS_Surjection
<1>5. IsFiniteSet(I) /\ Cardinality(I) = MaxConcurrentChunks
  BY FS_Interval, ConstantsAssumption
<1>6. Chunk = Table \X I
  BY DEF Chunk
<1> HIDE DEF I
<1>7. IsFiniteSet(Chunk) /\ Cardinality(Chunk) = Cardinality(Table) * Cardinality(I)
  BY <1>4, <1>5, <1>6, FS_Product
<1>8. Cardinality(Table) \in Nat
  BY <1>4, FS_CardinalityType
<1>9. Cardinality(Table) * MaxConcurrentChunks <= Len(Tables) * MaxConcurrentChunks
  BY <1>1, <1>4, <1>8, ConstantsAssumption, TimesMonotone
<1>10. Capacity = Len(Tables) * MaxConcurrentChunks
  BY <1>1, ConstantsAssumption DEF Capacity
<1> QED
  BY <1>5, <1>7, <1>9, <1>10

\* A channel of different chunks that lacks one is not full.
LEMMA RoomForOne ==
    ASSUME NEW q \in Seq(Chunk), Distinct(q), NEW c \in Chunk, \A n \in DOMAIN q : q[n] # c
    PROVE  Len(q) < Capacity
<1>1. IsFiniteSet(Chunk \ {c}) /\ Cardinality(Chunk \ {c}) = Cardinality(Chunk) - 1
  BY ChunkCardinality, FS_RemoveElement
<1>2. Len(q) \in Nat /\ q \in [1..Len(q) -> Chunk \ {c}]
  OBVIOUS
<1>3. q \in Injection(1..Len(q), Chunk \ {c})
  BY <1>2 DEF Injection, IsInjective, Distinct
<1>4. Cardinality(1..Len(q)) <= Cardinality(Chunk \ {c})
  BY <1>1, <1>3, FS_Injection
<1>5. Cardinality(1..Len(q)) = Len(q)
  BY <1>2, IndexCount
<1>6. Cardinality(Chunk) \in Nat /\ Capacity \in Int
  BY ChunkCardinality, FS_CardinalityType, ConstantsAssumption DEF Capacity
<1> QED
  BY <1>1, <1>2, <1>4, <1>5, <1>6, ChunkCardinality

-----------------------------------------------------------------------------
(* The steps.                                                              *)

\* Every step keeps the types.
LEMMA TypeStep ==
    ASSUME TypeInv, SendInv, [Next]_vars
    PROVE  TypeInv'
<1> USE ConstantsAssumption DEF TypeInv, Status
<1>1. CASE UNCHANGED vars
  BY <1>1 DEF vars
<1>2. CASE Start
  BY <1>2 DEF Start
<1>3. CASE Stop
  BY <1>3 DEF Stop
<1>4. CASE ProcessTableTask
  BY <1>4 DEF ProcessTableTask
<1>5. CASE SendChunk
  <2> DEFINE c == <<current.table, current.sent>>
  <2>1. c \in Chunk
    BY <1>5, ChunkFacts, ChunksOfFacts DEF SendChunk, SendInv
  <2>2. chunkQueue' \in Seq(Chunk) /\ chunkStatus' \in [Chunk -> Status]
    BY <1>5, <2>1, AppendFacts DEF SendChunk
  <2>3. current' \in [table : Table \cup {"none"}, sent : Nat]
    <3>1. \/ current' = [table |-> "none", sent |-> 0]
          \/ current' = [current EXCEPT !.sent = current.sent + 1]
      BY <1>5 DEF SendChunk
    <3>2. current.sent + 1 \in Nat /\ current.table \in Table \cup {"none"}
      OBVIOUS
    <3>3. CASE current' = [current EXCEPT !.sent = current.sent + 1]
      BY <3>2, <3>3
    <3> QED
      BY <3>1, <3>3
  <2> QED
    BY <1>5, <2>2, <2>3 DEF SendChunk
<1>6. CASE CancelTableTasks
  BY <1>6 DEF CancelTableTasks
<1>7. CASE MonitorTick
  BY <1>7 DEF MonitorTick
<1>8. ASSUME NEW w \in Worker, TakeChunk(w) PROVE TypeInv'
  <2>1. CASE chunkQueue # <<>> /\ worker' = [worker EXCEPT ![w] = Head(chunkQueue)]
             /\ chunkStatus' = [chunkStatus EXCEPT ![Head(chunkQueue)] = "running"]
             /\ chunkQueue' = Tail(chunkQueue)
    <3>1. Head(chunkQueue) \in Chunk /\ Tail(chunkQueue) \in Seq(Chunk)
      BY <2>1, TailFacts
    <3> QED
      BY <1>8, <2>1, <3>1 DEF TakeChunk
  <2>2. CASE worker' = [worker EXCEPT ![w] = Exited] /\ UNCHANGED <<chunkStatus, chunkQueue>>
    BY <1>8, <2>2 DEF TakeChunk
  <2> QED
    BY <1>8, <2>1, <2>2 DEF TakeChunk
<1>9. ASSUME NEW w \in Worker, CompleteChunk(w) PROVE TypeInv'
  BY <1>9 DEF CompleteChunk
<1>10. ASSUME NEW w \in Worker, FailChunk(w) PROVE TypeInv'
  BY <1>10 DEF FailChunk
<1>11. ASSUME NEW c \in Chunk, RequeueChunk(c) PROVE TypeInv'
  <2>1. chunkQueue' = chunkQueue \/ chunkQueue' = Append(chunkQueue, c)
    BY <1>11 DEF RequeueChunk
  <2>2. chunkQueue' \in Seq(Chunk)
    <3>1. Append(chunkQueue, c) \in Seq(Chunk)
      BY AppendFacts
    <3> QED
      BY <2>1, <3>1
  <2> QED
    BY <1>11, <2>2 DEF RequeueChunk
<1> QED
  BY <1>1, <1>2, <1>3, <1>4, <1>5, <1>6, <1>7, <1>8, <1>9, <1>10, <1>11 DEF Next, TaskProcessor

\* The task processor sends every chunk of every table at most once.
LEMMA SendStep ==
    ASSUME TypeInv, PlaceInv, SendInv, [Next]_vars
    PROVE  SendInv'
<1> USE ConstantsAssumption DEF TypeInv, Status, SendInv
<1>1. CASE UNCHANGED vars
  BY <1>1 DEF vars
<1>2. CASE Start
  <2>1. Tables \in Seq(Table) /\ Distinct(Tables) /\ \A n \in DOMAIN Tables : Tables[n] # "none"
    BY DEF Distinct, Table
  <2> QED
    BY <1>2, <2>1 DEF Start
<1>3. CASE Stop
  BY <1>3 DEF Stop
<1>4. CASE ProcessTableTask
  <2> DEFINE t == Head(tableQueue)
  <2>1. /\ t \in Table /\ t # "none" /\ tableQueue' = Tail(tableQueue) /\ Distinct(Tail(tableQueue))
        /\ 1 \in DOMAIN tableQueue /\ t = tableQueue[1]
        /\ \A n \in DOMAIN Tail(tableQueue) : /\ Tail(tableQueue)[n] # t
                                              /\ n + 1 \in DOMAIN tableQueue
                                              /\ Tail(tableQueue)[n] = tableQueue[n + 1]
    BY <1>4, TailFacts, TailDistinct DEF ProcessTableTask
  <2>2. /\ phase # "new" /\ UNCHANGED <<phase, chunkStatus>> /\ current.table = "none"
        /\ current' = current \/ current' = [table |-> t, sent |-> 0]
    BY <1>4 DEF ProcessTableTask
  <2> HIDE DEF t
  <2>3. \A n \in DOMAIN tableQueue' :
            /\ tableQueue'[n] # current'.table
            /\ \A c \in Chunk : c[1] = tableQueue'[n] => chunkStatus'[c] = "none"
    <3> SUFFICES ASSUME NEW n \in DOMAIN tableQueue'
                 PROVE  /\ tableQueue'[n] # current'.table
                        /\ \A c \in Chunk : c[1] = tableQueue'[n] => chunkStatus'[c] = "none"
      OBVIOUS
    <3>1. /\ tableQueue'[n] # t /\ n + 1 \in DOMAIN tableQueue
          /\ tableQueue'[n] = tableQueue[n + 1]
      BY <2>1
    <3>2. /\ tableQueue[n + 1] # "none"
          /\ \A c \in Chunk : c[1] = tableQueue[n + 1] => chunkStatus[c] = "none"
      BY <2>2, <3>1
    <3>3. current'.table \in {"none", t}
      BY <2>2
    <3> QED
      BY <2>2, <3>1, <3>2, <3>3
  <2>4. current'.table # "none" =>
            /\ current'.sent < ChunksOf(current'.table)
            /\ \A c \in Chunk : c[1] = current'.table => chunkStatus'[c] = "none"
    BY <2>1, <2>2, ChunksOfFacts
  <2> QED
    BY <2>1, <2>2, <2>3, <2>4
<1>5. CASE SendChunk
  <2> DEFINE c == <<current.table, current.sent>>
  <2>1. current.table \in Table /\ ChunksOf(current.table) \in Nat
        /\ ChunksOf(current.table) <= MaxConcurrentChunks
    BY <1>5, ChunksOfFacts DEF SendChunk
  <2>2. c \in Chunk /\ c[1] = current.table /\ c[2] = current.sent
    BY <1>5, <2>1, ChunkFacts DEF SendChunk
  <2>3. /\ chunkStatus' = [chunkStatus EXCEPT ![c] = "pending"]
        /\ UNCHANGED <<phase, tableQueue>> /\ phase # "new"
    BY <1>5 DEF SendChunk
  <2> HIDE DEF c
  <2>4. \A n \in DOMAIN tableQueue : \A d \in Chunk : d[1] = tableQueue[n] => chunkStatus'[d] = "none"
    BY <2>2, <2>3
  <2>5. CASE current' = [table |-> "none", sent |-> 0]
    <3>1. \A n \in DOMAIN tableQueue : tableQueue[n] # "none"
      OBVIOUS
    <3> QED
      BY <2>3, <2>4, <2>5, <3>1
  <2>6. CASE /\ current.sent + 1 # ChunksOf(current.table)
             /\ current' = [current EXCEPT !.sent = current.sent + 1]
    <3>1. current'.table = current.table /\ current'.sent = current.sent + 1
      BY <2>6
    <3>2. current'.sent < ChunksOf(current'.table)
      BY <1>5, <2>1, <2>6, <3>1 DEF SendChunk
    <3>3. \A d \in Chunk : d[1] = current'.table /\ d[2] >= current'.sent => chunkStatus'[d] = "none"
      BY <1>5, <2>2, <2>3, <3>1, ChunkFacts, SMTT(20) DEF SendChunk
    <3> QED
      BY <2>3, <2>4, <3>1, <3>2, <3>3
  <2> QED
    BY <1>5, <2>5, <2>6 DEF SendChunk
<1>6. CASE CancelTableTasks
  BY <1>6 DEF CancelTableTasks
<1>7. CASE MonitorTick
  BY <1>7 DEF MonitorTick
<1>8. ASSUME NEW w \in Worker, TakeChunk(w) PROVE SendInv'
  <2>1. UNCHANGED <<phase, tableQueue, current>> /\ phase # "new"
    BY <1>8 DEF TakeChunk
  <2>2. \A d \in Chunk : chunkStatus[d] = "none" => chunkStatus'[d] = "none"
    <3>1. CASE chunkQueue # <<>> /\ chunkStatus' = [chunkStatus EXCEPT ![Head(chunkQueue)] = "running"]
      <4>1. Head(chunkQueue) = chunkQueue[1] /\ 1 \in DOMAIN chunkQueue
        BY <3>1, TailFacts
      <4>2. chunkStatus[Head(chunkQueue)] # "none"
        BY <4>1 DEF PlaceInv
      <4> QED
        BY <3>1, <4>2
    <3> QED
      BY <1>8, <3>1 DEF TakeChunk
  <2> QED
    BY <2>1, <2>2
<1>9. ASSUME NEW w \in Worker, CompleteChunk(w) PROVE SendInv'
  <2>1. UNCHANGED <<phase, tableQueue, current>> /\ phase # "new"
    BY <1>9 DEF CompleteChunk, PlaceInv
  <2>2. \A d \in Chunk : chunkStatus[d] = "none" => chunkStatus'[d] = "none"
    BY <1>9 DEF CompleteChunk, PlaceInv
  <2> QED
    BY <2>1, <2>2
<1>10. ASSUME NEW w \in Worker, FailChunk(w) PROVE SendInv'
  <2>1. UNCHANGED <<phase, tableQueue, current>> /\ phase # "new"
    BY <1>10 DEF FailChunk, PlaceInv
  <2>2. \A d \in Chunk : chunkStatus[d] = "none" => chunkStatus'[d] = "none"
    BY <1>10 DEF FailChunk, PlaceInv
  <2> QED
    BY <2>1, <2>2
<1>11. ASSUME NEW c \in Chunk, RequeueChunk(c) PROVE SendInv'
  BY <1>11 DEF RequeueChunk
<1> QED
  BY <1>1, <1>2, <1>3, <1>4, <1>5, <1>6, <1>7, <1>8, <1>9, <1>10, <1>11 DEF Next, TaskProcessor

\* A chunk leaves its place for one other.
LEMMA PlaceStep ==
    ASSUME TypeInv, SendInv, PlaceInv, [Next]_vars
    PROVE  PlaceInv'
<1> USE ConstantsAssumption DEF TypeInv, PlaceInv
<1>1. CASE UNCHANGED vars
  BY <1>1 DEF vars
<1>2. CASE Start
  BY <1>2 DEF Start
<1>3. CASE Stop
  BY <1>3 DEF Stop
<1>4. CASE ProcessTableTask
  BY <1>4 DEF ProcessTableTask
<1>5. CASE SendChunk
  <2> DEFINE c == <<current.table, current.sent>>
  <2>1. current.table \in Table /\ ChunksOf(current.table) <= MaxConcurrentChunks
        /\ ChunksOf(current.table) \in Nat
    BY <1>5, ChunksOfFacts DEF SendChunk
  <2>2. c \in Chunk /\ c[1] = current.table /\ c[2] = current.sent
    BY <1>5, <2>1, ChunkFacts DEF SendChunk, SendInv
  <2>3. chunkStatus[c] = "none"
    <3>1. c[2] >= current.sent
      BY <2>2
    <3> QED
      BY <1>5, <2>2, <3>1 DEF SendChunk, SendInv
  <2>4. /\ chunkQueue' = Append(chunkQueue, c)
        /\ chunkStatus' = [chunkStatus EXCEPT ![c] = "pending"]
        /\ UNCHANGED <<worker, sleeping>>
    BY <1>5 DEF SendChunk
  <2> HIDE DEF c
  <2>5. Distinct(chunkQueue') /\ \A n \in DOMAIN chunkQueue' :
            (\E m \in DOMAIN chunkQueue : chunkQueue'[n] = chunkQueue[m]) \/ chunkQueue'[n] = c
    <3>1. \A n \in DOMAIN chunkQueue : chunkQueue[n] # c
      BY <2>3
    <3>2. Distinct(Append(chunkQueue, c))
      BY <2>2, <3>1, AppendDistinct
    <3>3. \A n \in DOMAIN Append(chunkQueue, c) :
              \/ n \in DOMAIN chunkQueue /\ Append(chunkQueue, c)[n] = chunkQueue[n]
              \/ Append(chunkQueue, c)[n] = c
      BY <2>2, AppendFacts
    <3> QED
      BY <2>4, <3>2, <3>3
  <2> QED
    <3>1. \A n \in DOMAIN chunkQueue' : /\ chunkStatus'[chunkQueue'[n]] \in {"pending", "retrying"}
                                        /\ chunkQueue'[n] \notin sleeping
      BY <2>2, <2>3, <2>4, <2>5
    <3>2. \A v \in Worker : worker[v] \in Chunk => chunkStatus'[worker[v]] = "running"
      BY <2>2, <2>3, <2>4
    <3>3. \A d \in sleeping : chunkStatus'[d] = "retrying"
      BY <2>2, <2>3, <2>4
    <3> QED
      BY <2>4, <2>5, <3>1, <3>2, <3>3
<1>6. CASE CancelTableTasks
  BY <1>6 DEF CancelTableTasks
<1>7. CASE MonitorTick
  BY <1>7 DEF MonitorTick
<1>8. ASSUME NEW w \in Worker, TakeChunk(w) PROVE PlaceInv'
  <2>1. CASE worker' = [worker EXCEPT ![w] = Exited] /\ UNCHANGED <<chunkStatus, chunkQueue>>
    <3>1. UNCHANGED sleeping /\ Exited \notin Chunk
      BY <1>8, ChunkFacts DEF TakeChunk
    <3> QED
      BY <2>1, <3>1
  <2>2. CASE /\ chunkQueue # <<>> /\ chunkQueue' = Tail(chunkQueue)
             /\ worker' = [worker EXCEPT ![w] = Head(chunkQueue)]
             /\ chunkStatus' = [chunkStatus EXCEPT ![Head(chunkQueue)] = "running"]
    <3> DEFINE c == Head(chunkQueue)
    <3>1. /\ c \in Chunk /\ 1 \in DOMAIN chunkQueue /\ c = chunkQueue[1]
          /\ Distinct(chunkQueue')
          /\ \A n \in DOMAIN chunkQueue' : /\ chunkQueue'[n] # c
                                           /\ \E m \in DOMAIN chunkQueue : chunkQueue'[n] = chunkQueue[m]
      BY <2>2, TailFacts, TailDistinct
    <3>2. UNCHANGED sleeping /\ c \notin sleeping
      BY <1>8, <3>1 DEF TakeChunk
    <3>3. \A v \in Worker : worker[v] # c
      <4>1. chunkStatus[c] \in {"pending", "retrying"}
        BY <3>1
      <4>2. chunkStatus[c] # "running"
        BY <4>1
      <4> QED
        BY <3>1, <4>2
    <3>4. worker' = [worker EXCEPT ![w] = c] /\ chunkStatus' = [chunkStatus EXCEPT ![c] = "running"]
      BY <2>2
    <3> HIDE DEF c
    <3>5. \A n \in DOMAIN chunkQueue' : /\ chunkStatus'[chunkQueue'[n]] \in {"pending", "retrying"}
                                        /\ chunkQueue'[n] \notin sleeping
      BY <3>1, <3>4
    <3>6. \A u, v \in Worker : worker'[u] \in Chunk /\ worker'[u] = worker'[v] => u = v
      BY <3>3, <3>4
    <3>7. \A v \in Worker : worker'[v] \in Chunk => chunkStatus'[worker'[v]] = "running"
      BY <3>1, <3>3, <3>4
    <3>8. \A d \in sleeping : chunkStatus'[d] = "retrying"
      BY <3>2, <3>4
    <3> QED
      BY <3>1, <3>2, <3>5, <3>6, <3>7, <3>8
  <2> QED
    BY <1>8, <2>1, <2>2 DEF TakeChunk
<1>9. ASSUME NEW w \in Worker, CompleteChunk(w) PROVE PlaceInv'
  <2> DEFINE c == worker[w]
  <2>1. /\ c \in Chunk /\ chunkStatus[c] = "running" /\ c \notin sleeping
        /\ \A n \in DOMAIN chunkQueue : chunkQueue[n] # c
    BY <1>9 DEF CompleteChunk
  <2>2. /\ worker' = [worker EXCEPT ![w] = Idle] /\ UNCHANGED chunkQueue
        /\ chunkStatus' = [chunkStatus EXCEPT ![c] = "completed"] /\ UNCHANGED sleeping
    BY <1>9 DEF CompleteChunk
  <2> HIDE DEF c
  <2>3. \A v \in Worker \ {w} : worker[v] # c
    BY <2>1 DEF c
  <2> QED
    BY <2>1, <2>2, <2>3, ChunkFacts, SMTT(20)
<1>10. ASSUME NEW w \in Worker, FailChunk(w) PROVE PlaceInv'
  <2> DEFINE c == worker[w]
  <2>1. /\ c \in Chunk /\ chunkStatus[c] = "running" /\ c \notin sleeping
        /\ \A n \in DOMAIN chunkQueue : chunkQueue[n] # c
    BY <1>10 DEF FailChunk
  <2>2. /\ worker' = [worker EXCEPT ![w] = Idle] /\ UNCHANGED chunkQueue
        /\ \/ chunkStatus' = [chunkStatus EXCEPT ![c] = "retrying"] /\ sleeping' = sleeping \cup {c}
           \/ chunkStatus' = [chunkStatus EXCEPT ![c] = "failed"] /\ UNCHANGED sleeping
    BY <1>10 DEF FailChunk
  <2> HIDE DEF c
  <2>3. \A v \in Worker \ {w} : worker[v] # c
    BY <2>1 DEF c
  <2>4. /\ \A v \in Worker \ {w} : worker'[v] = worker[v]
        /\ worker'[w] \notin Chunk
    BY <2>2, ChunkFacts
  <2>5. /\ \A d \in Chunk \ {c} : chunkStatus'[d] = chunkStatus[d]
        /\ c \in sleeping' => chunkStatus'[c] = "retrying"
        /\ sleeping' \subseteq sleeping \cup {c}
    BY <2>1, <2>2
  <2> QED
    BY <2>1, <2>2, <2>3, <2>4, <2>5
<1>11. ASSUME NEW c \in Chunk, RequeueChunk(c) PROVE PlaceInv'
  <2>1. c \in sleeping /\ chunkStatus[c] = "retrying" /\ \A n \in DOMAIN chunkQueue : chunkQueue[n] # c
    BY <1>11 DEF RequeueChunk
  <2>2. UNCHANGED <<chunkStatus, worker>> /\ sleeping' = sleeping \ {c}
    BY <1>11 DEF RequeueChunk
  <2>3. CASE chunkQueue' = Append(chunkQueue, c)
    <3>1. Distinct(chunkQueue') /\ \A n \in DOMAIN chunkQueue' :
              (\E m \in DOMAIN chunkQueue : chunkQueue'[n] = chunkQueue[m]) \/ chunkQueue'[n] = c
      BY <2>1, <2>3, AppendFacts, AppendDistinct
    <3> QED
      BY <2>1, <2>2, <3>1
  <2>4. CASE UNCHANGED chunkQueue
    BY <2>2, <2>4
  <2> QED
    BY <1>11, <2>3, <2>4 DEF RequeueChunk
<1> QED
  BY <1>1, <1>2, <1>3, <1>4, <1>5, <1>6, <1>7, <1>8, <1>9, <1>10, <1>11 DEF Next, TaskProcessor

\* A chunk is completed when its rows are written, and nothing takes it back.
LEMMA CopiedStep ==
    ASSUME TypeInv, SendInv, PlaceInv, CopiedInv, [Next]_vars
    PROVE  CopiedInv'
<1> USE DEF TypeInv, PlaceInv, CopiedInv
<1>1. CASE UNCHANGED vars
  BY <1>1 DEF vars
<1>2. CASE Start
  BY <1>2 DEF Start
<1>3. CASE Stop
  BY <1>3 DEF Stop
<1>4. CASE ProcessTableTask
  BY <1>4 DEF ProcessTableTask
<1>5. CASE SendChunk
  BY <1>5 DEF SendChunk
<1>6. CASE CancelTableTasks
  BY <1>6 DEF CancelTableTasks
<1>7. CASE MonitorTick
  BY <1>7 DEF MonitorTick
<1>8. ASSUME NEW w \in Worker, TakeChunk(w) PROVE CopiedInv'
  BY <1>8 DEF TakeChunk
<1>9. ASSUME NEW w \in Worker, CompleteChunk(w) PROVE CopiedInv'
  BY <1>9 DEF CompleteChunk
<1>10. ASSUME NEW w \in Worker, FailChunk(w) PROVE CopiedInv'
  BY <1>10 DEF FailChunk
<1>11. ASSUME NEW c \in Chunk, RequeueChunk(c) PROVE CopiedInv'
  BY <1>11 DEF RequeueChunk
<1> QED
  BY <1>1, <1>2, <1>3, <1>4, <1>5, <1>6, <1>7, <1>8, <1>9, <1>10, <1>11 DEF Next, TaskProcessor

\* A retry finds room in the channel.
LEMMA DroppedStep ==
    ASSUME TypeInv, PlaceInv, NoRetryDropped, [Next]_vars
    PROVE  NoRetryDropped'
<1> USE DEF NoRetryDropped
<1>1. CASE UNCHANGED vars
  BY <1>1 DEF vars
<1>2. CASE Start
  BY <1>2 DEF Start
<1>3. CASE Stop
  BY <1>3 DEF Stop
<1>4. CASE ProcessTableTask
  BY <1>4 DEF ProcessTableTask
<1>5. CASE SendChunk
  BY <1>5 DEF SendChunk
<1>6. CASE CancelTableTasks
  BY <1>6 DEF CancelTableTasks
<1>7. CASE MonitorTick
  BY <1>7 DEF MonitorTick
<1>8. ASSUME NEW w \in Worker, TakeChunk(w) PROVE NoRetryDropped'
  BY <1>8 DEF TakeChunk
<1>9. ASSUME NEW w \in Worker, CompleteChunk(w) PROVE NoRetryDropped'
  BY <1>9 DEF CompleteChunk
<1>10. ASSUME NEW w \in Worker, FailChunk(w) PROVE NoRetryDropped'
  BY <1>10 DEF FailChunk
<1>11. ASSUME NEW c \in Chunk, RequeueChunk(c) PROVE NoRetryDropped'
  <2>1. \A n \in DOMAIN chunkQueue : chunkQueue[n] # c
    BY <1>11 DEF RequeueChunk, PlaceInv
  <2>2. Len(chunkQueue) < Capacity
    BY <2>1, RoomForOne DEF TypeInv, PlaceInv
  <2>3. Len(chunkQueue) \in Int /\ Capacity \in Int
    BY ConstantsAssumption DEF TypeInv, Capacity
  <2> QED
    BY <1>11, <2>2, <2>3 DEF RequeueChunk
<1> QED
  BY <1>1, <1>2, <1>3, <1>4, <1>5, <1>6, <1>7, <1>8, <1>9, <1>10, <1>11 DEF Next, TaskProcessor

\* The invariant holds initially and every step keeps it.
LEMMA Invariant == Spec => []Inv
<1>1. Init => Inv
  <2> SUFFICES ASSUME Init PROVE Inv
    OBVIOUS
  <2>1. TypeInv
    BY DEF Init, TypeInv, Status, Idle
  <2>2. SendInv /\ PlaceInv /\ CopiedInv /\ NoRetryDropped
    BY ChunkFacts DEF Init, SendInv, PlaceInv, CopiedInv, NoRetryDropped, Distinct
  <2> QED
    BY <2>1, <2>2 DEF Inv
<1>2. Inv /\ [Next]_vars => Inv'
  BY TypeStep, SendStep, PlaceStep, CopiedStep, DroppedStep DEF Inv
<1> QED
  BY <1>1, <1>2, PTL DEF Spec

-----------------------------------------------------------------------------
\* No chunk is ever in two places, so no two workers copy the same one, and none
\* is copied again after it is settled.
THEOREM OnePlaceHolds == Spec => []OnePlace
<1>1. Inv => OnePlace
  BY ChunkFacts DEF Inv, TypeInv, PlaceInv, Distinct, OnePlace, Held
<1> QED
  BY <1>1, Invariant, PTL

\* The default branch of handleChunkError, which would lose a chunk, is never
\* taken: the chunks that exist, without the one that is put back, are fewer
\* than the channel holds.
THEOREM NoRetryDroppedHolds == Spec => []NoRetryDropped
<1>1. Inv => NoRetryDropped
  BY DEF Inv
<1> QED
  BY <1>1, Invariant, PTL

\* A table whose chunks are all completed is in the index with every row.
THEOREM CompletedIsCopiedHolds == Spec => []CompletedIsCopied
<1>1. Inv => CompletedIsCopied
  <2> SUFFICES ASSUME Inv, NEW t \in Table,
                      \A i \in 0..(ChunksOf(t) - 1) : chunkStatus[<<t, i>>] = "completed",
                      NEW id \in Rows(t)
               PROVE  <<t, id>> \in written
    BY DEF CompletedIsCopied
  <2>1. PICK i \in 0..(ChunksOf(t) - 1) :
            \/ t \notin AutoIncrement
            \/ InChunk(Low(t), High(t), SizeOf(t), MaxConcurrentChunks, i, id)
    <3>1. CASE t \in AutoIncrement
      <4>1. id \in Low(t)..High(t)
        BY DEF Low, High, Rows
      <4>2. \E i \in 0..(ChunkCount(Low(t), High(t), SizeOf(t), MaxConcurrentChunks) - 1) :
                InChunk(Low(t), High(t), SizeOf(t), MaxConcurrentChunks, i, id)
        <5>1. /\ Low(t) \in Int /\ High(t) \in Int /\ Low(t) <= High(t)
              /\ SizeOf(t) \in Int /\ SizeOf(t) > 0
              /\ MaxConcurrentChunks \in Int /\ MaxConcurrentChunks > 0
          BY RangeFacts, ConstantsAssumption
        <5> QED
          BY <4>1, <5>1, ChunksCover
      <4> QED
        BY <3>1, <4>2 DEF ChunksOf
    <3>2. CASE t \notin AutoIncrement
      BY <3>2, ChunksOfFacts
    <3> QED
      BY <3>1, <3>2
  <2>2. <<t, i>> \in Chunk /\ <<t, i>>[1] = t /\ <<t, i>>[2] = i
    BY ChunkFacts, ChunksOfFacts, ConstantsAssumption
  <2>3. <<t, id>> \in RowsOf(<<t, i>>)
    BY <2>1, <2>2 DEF RowsOf
  <2> QED
    BY <2>2, <2>3 DEF Inv, CopiedInv
<1> QED
  BY <1>1, Invariant, PTL

=============================================================================
