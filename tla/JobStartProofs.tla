--------------------------- MODULE JobStartProofs ---------------------------
(***************************************************************************)
(* Proofs about JobStart: for any tables, any set of configurations and    *)
(* any number of changes and crashes.                                      *)
(***************************************************************************)
EXTENDS JobStart, WellFoundedInduction, TLAPS

-----------------------------------------------------------------------------
(* The inductive invariant.                                                *)

Stages == {"run", "sync", "table", "parallel", "cdc", "streaming", "dead"}

TypeInv ==
    /\ conf \in Confs
    /\ log \in Seq(Tables)
    /\ doc \in [Tables -> Int]
    /\ pc \in Stages
    /\ todo \in Seq(Tables)
    /\ lastCp \in Int /\ slot \in Int /\ next \in Int
    /\ entry \in {"none", "valid", "torn"}
    /\ flight \in Seq(Int)
    /\ readAt \in [Tables -> Int]
    /\ interrupted \in BOOLEAN
    /\ unread \subseteq Tables

\* The configuration a stage of the job goes with, and the tables it begins with;
\* nothing is in memory before the stream, and no change to a PostgreSQL job's source
\* is made unwatched.
StageInv ==
    /\ pc = "sync" => todo = TableSeq
    /\ pc \in {"sync", "table", "parallel"} => conf.initialSync
    /\ pc = "parallel" => conf.type = "mysql"
    /\ conf.type = "postgresql" => unwatched = {}
    /\ flight # <<>> => pc \in {"cdc", "streaming", "dead"}

\* Positions lie in the log, unless a PostgreSQL job took them from another
\* database, and a document shows a change of its own row.
OwnLog == conf.type = "postgresql" => conf.own

PositionInv ==
    /\ OwnLog => lastCp <= Len(log) /\ slot <= Len(log) /\ next <= Len(log) + 1
    /\ 1 <= next
    /\ \A n \in DOMAIN flight : flight[n] \in 1..Len(log)
    /\ \A t \in Tables :
        /\ readAt[t] >= 0 => doc[t] >= 0 /\ OwnLog
        /\ doc[t] > 0 => doc[t] \in 1..Len(log) /\ log[doc[t]] = t

\* Tables a forced sync copies again before the stream starts.
Renewed(t) ==
    /\ conf.force /\ conf.initialSync
    /\ \/ pc \in {"run", "sync", "dead"}
       \/ pc = "table" /\ \E n \in DOMAIN todo : todo[n] = t

\* Copied tables the slot of a PostgreSQL job answers for, and those of the others.
Watched(t) ==
    /\ readAt[t] >= 0
    /\ conf.type = "postgresql" => t \notin unread /\ ~Renewed(t)

\* A change the stream delivers, now or when it is started from the slot or from
\* any checkpoint it may find, or one that is recorded as missed.
Awaited(i) ==
    \/ i \in unwatched \cup dropped
    \/ pc = "streaming" /\ i >= next
    \/ /\ pc # "streaming" /\ conf.type = "postgresql"
       /\ i > slot /\ i > lastCp
       /\ \A n \in DOMAIN flight : i > flight[n]

\* A change that is in flight behind place m.
Follows(i, m) == \E n \in DOMAIN flight : n > m /\ flight[n] = i

\* Wherever a document shows an older change than i, or will when the change at a
\* place of the flight is written, change i comes later.
Covered(t, i) ==
    /\ doc[t] < i => Awaited(i) \/ Follows(i, 0)
    /\ \A m \in DOMAIN flight :
        log[flight[m]] = t /\ flight[m] < i => Awaited(i) \/ Follows(i, m)

CoveredInv ==
    \A t \in Tables : Watched(t) =>
        /\ conf.type = "postgresql" => slot >= 0
        /\ \A i \in 1..Len(log) : log[i] = t => Covered(t, i)

Explained(t) == readAt[t] >= 0 \/ ~conf.initialSync \/ interrupted \/ t \in unread \/ ~conf.own

\* A table not copied yet has its turn before the sync ends; a job that finds
\* documents or a checkpoint has had a sync.
ExplainedInv ==
    \A t \in Tables :
        /\ pc \in {"cdc", "streaming", "dead"} => Explained(t)
        /\ pc = "run" /\ (entry # "none" \/ \E u \in Tables : doc[u] # Absent) => Explained(t)
        /\ pc \in {"sync", "table", "parallel"} =>
             Explained(t) \/ \E n \in DOMAIN todo : todo[n] = t

Inv == TypeInv /\ StageInv /\ PositionInv /\ CoveredInv /\ ExplainedInv

-----------------------------------------------------------------------------
(* The last change of a table.                                             *)

\* A non-empty set of natural numbers has a least element.
LEMMA Least ==
    ASSUME NEW S \in SUBSET Nat, S # {}
    PROVE  \E n \in S : \A i \in S : n <= i
<1>1. PICK x \in S : \A y \in S : ~ (<<y, x>> \in OpToRel(<, Nat))
  BY NatLessThanWellFounded, WFMin
<1>2. \A y \in S : ~ (y < x)
  BY <1>1 DEF OpToRel
<1> QED
  BY <1>2

\* Version is 0 or the last change of the table.
LEMMA VersionFacts ==
    ASSUME log \in Seq(Tables), NEW t
    PROVE  /\ Version(t) \in 0..Len(log)
           /\ Version(t) > 0 => log[Version(t)] = t
           /\ \A i \in 1..Len(log) : log[i] = t => i <= Version(t)
<1> DEFINE is == {i \in DOMAIN log : log[i] = t}
           B == {n \in Nat : \A i \in is : i <= n}
<1>1. DOMAIN log = 1..Len(log) /\ Len(log) \in Nat
  OBVIOUS
<1>2. CASE is = {}
  BY <1>1, <1>2 DEF Version
<1>3. CASE is # {}
  <2>1. B \in SUBSET Nat /\ Len(log) \in B
    BY <1>1
  <2>2. PICK n \in B : \A m \in B : n <= m
    BY <2>1, Least
  <2>3. PICK k \in is : k \in 1..n
    BY <1>1, <1>3, <2>2
  <2>4. n \in is
    <3> SUFFICES ASSUME n \notin is PROVE FALSE
      OBVIOUS
    <3>1. n - 1 \in Nat /\ \A i \in is : i <= n - 1
      BY <1>1, <2>3
    <3> QED
      BY <2>2, <3>1
  <2>5. \A j \in is : j <= n
    BY <2>2
  <2>6. Version(t) \in is /\ \A j \in is : j <= Version(t)
    BY <1>3, <2>4, <2>5 DEF Version
  <2> QED
    BY <1>1, <2>6
<1> QED
  BY <1>2, <1>3
\* The first of a list of tables, and what is left of the list.
LEMMA HeadTail ==
    ASSUME NEW s \in Seq(Tables), s # <<>>
    PROVE  Head(s) \in Tables /\ Tail(s) \in Seq(Tables)
  OBVIOUS

LEMMA Rest ==
    ASSUME NEW s \in Seq(Tables), s # <<>>, NEW t, t # Head(s), \E n \in DOMAIN s : s[n] = t
    PROVE  \E m \in DOMAIN Tail(s) : Tail(s)[m] = t
<1>1. PICK n \in DOMAIN s : s[n] = t
  OBVIOUS
<1>2. n # 1 /\ n - 1 \in DOMAIN Tail(s) /\ Tail(s)[n - 1] = t
  BY <1>1
<1> QED
  BY <1>2

-----------------------------------------------------------------------------
\* The elements of a list with one more, and without the first.
LEMMA AppendFacts ==
    ASSUME NEW S, NEW s \in Seq(S), NEW e \in S
    PROVE  /\ Len(s) \in Nat /\ Len(Append(s, e)) = Len(s) + 1
           /\ DOMAIN s = 1..Len(s) /\ DOMAIN Append(s, e) = 1..(Len(s) + 1)
           /\ \A n \in 1..Len(s) : Append(s, e)[n] = s[n]
           /\ Append(s, e)[Len(s) + 1] = e
  OBVIOUS

LEMMA TailFacts ==
    ASSUME NEW S, NEW s \in Seq(S), s # <<>>
    PROVE  /\ Len(s) \in Nat /\ 1 \in DOMAIN s /\ Head(s) = s[1]
           /\ DOMAIN s = 1..Len(s) /\ DOMAIN Tail(s) = 1..(Len(s) - 1)
           /\ \A n \in DOMAIN Tail(s) : n + 1 \in DOMAIN s /\ Tail(s)[n] = s[n + 1]
  OBVIOUS

\* What a chunk leaves as checkpoint, in memory and in the file.
LEMMA ChunkTypes ==
    ASSUME TypeInv
    PROVE  /\ EnsuredSlot \in Int
           /\ \A p \in ChunkPositions : p \in Int
           /\ \A p \in ChunkPositions : ChunkCheckpoint(p) =>
                lastCp' \in Int /\ entry' \in {"none", "valid", "torn"}
<1> USE JobAssumption DEF TypeInv
<1>1. EnsuredSlot \in Int
  BY DEF EnsuredSlot
<1>2. \A p \in ChunkPositions : p \in Int
  BY <1>1 DEF ChunkPositions, NotLSN
<1>3. ASSUME NEW p \in ChunkPositions, ChunkCheckpoint(p)
      PROVE  lastCp' \in Int /\ entry' \in {"none", "valid", "torn"}
  BY <1>2, <1>3 DEF ChunkCheckpoint, CommitCheckpoint
<1> QED
  BY <1>1, <1>2, <1>3

\* What is kept of a flight is a sequence, with its elements in their order.
LEMMA KeptSeq ==
    ASSUME NEW S, NEW s \in Seq(S), NEW place \in Subsequences(Len(s))
    PROVE  /\ DOMAIN place = 1..Len([k \in DOMAIN place |-> s[place[k]]])
           /\ \A k \in DOMAIN place : place[k] \in DOMAIN s
           /\ \A j, k \in DOMAIN place : j < k => place[j] < place[k]
           /\ [k \in DOMAIN place |-> s[place[k]]] \in Seq(S)
<1>1. PICK n \in 0..Len(s) : place \in [1..n -> 1..Len(s)]
  BY DEF Subsequences
<1>2. DOMAIN place = 1..n /\ n \in Nat /\ DOMAIN s = 1..Len(s)
  BY <1>1
<1>3. \A k \in 1..n : place[k] \in DOMAIN s /\ s[place[k]] \in S
  BY <1>1, <1>2
<1> DEFINE q == [k \in 1..n |-> s[place[k]]]
<1>4. q \in Seq(S)
  BY <1>2, <1>3
<1>5. Len(q) = n
  BY <1>2, <1>4
<1>6. \A j, k \in DOMAIN place : j < k => place[j] < place[k]
  BY DEF Subsequences
<1> QED
  BY <1>2, <1>3, <1>4, <1>5, <1>6

-----------------------------------------------------------------------------
\* Every step keeps the types.
LEMMA TypeStep ==
    ASSUME TypeInv, PositionInv, [Next]_vars
    PROVE  TypeInv'
<1> USE JobAssumption DEF TypeInv, Stages
<1>1. CASE UNCHANGED vars
  BY <1>1 DEF vars
<1>2. CASE SourceChange
  BY <1>2 DEF SourceChange, lost, history
<1>3. CASE Run
  BY <1>3 DEF Run, source, lost, history, NeedsInitialSync, HasData, Tables
<1>4. CASE PerformInitialSync
  <2>1. /\ slot' = slot \/ slot' = -1
        /\ pc' \in {"dead", "parallel", "table"}
        /\ interrupted' = TRUE \/ interrupted' = interrupted
    BY <1>4 DEF PerformInitialSync, Dies
  <2>2. slot' \in Int /\ pc' \in Stages
    BY <2>1
  <2>3. interrupted' \in BOOLEAN
    BY <2>1, Zenon
  <2> QED
    BY <1>4, <2>2, <2>3 DEF PerformInitialSync, source, lost
<1>5. CASE SnapshotTable
  <2>1. Head(todo) \in Tables /\ Tail(todo) \in Seq(Tables) /\ Len(log) \in Int
    BY <1>5, HeadTail DEF SnapshotTable, Begins
  <2>2. Version(Head(todo)) \in Int
    BY VersionFacts
  <2>3. doc' \in [Tables -> Int] /\ readAt' \in [Tables -> Int]
    BY <1>5, <2>1, <2>2 DEF SnapshotTable, Copied
  <2>4. lastCp' \in Int /\ slot' \in Int /\ entry' \in {"none", "valid", "torn"}
    BY <1>5, <2>1, ChunkTypes DEF SnapshotTable, Begins
  <2> QED
    BY <1>5, <2>1, <2>3, <2>4 DEF SnapshotTable, Begins, source
<1>6. CASE SnapshotForeign
  <2>1. Head(todo) \in Tables /\ Tail(todo) \in Seq(Tables) /\ Len(log) \in Int
    BY <1>6, HeadTail DEF SnapshotForeign, Begins
  <2>2. doc' \in [Tables -> Int] /\ readAt' \in [Tables -> Int]
    BY <1>6, <2>1 DEF SnapshotForeign, Foreign
  <2>3. lastCp' \in Int /\ slot' \in Int /\ entry' \in {"none", "valid", "torn"}
    BY <1>6, <2>1, ChunkTypes DEF SnapshotForeign, Begins
  <2> QED
    BY <1>6, <2>1, <2>2, <2>3 DEF SnapshotForeign, Begins, source
<1>7. CASE SnapshotShort
  <2>1. Head(todo) \in Tables /\ Tail(todo) \in Seq(Tables)
    BY <1>7, HeadTail DEF SnapshotShort, Begins
  <2>2. lastCp' \in Int /\ slot' \in Int /\ entry' \in {"none", "valid", "torn"}
    BY <1>7, <2>1, ChunkTypes DEF SnapshotShort, Begins
  <2> QED
    BY <1>7, <2>1, <2>2 DEF SnapshotShort, Begins, source
<1>8. CASE SnapshotFails
  BY <1>8 DEF SnapshotFails, Dies, source, lost
<1>9. CASE SnapshotDone
  BY <1>9 DEF SnapshotDone, source, lost, history
<1>10. CASE ParallelCopy
  <2>1. Head(todo) \in Tables /\ Tail(todo) \in Seq(Tables) /\ Len(log) \in Int
    BY <1>10, HeadTail DEF ParallelCopy
  <2>2. Version(Head(todo)) \in Int
    BY VersionFacts
  <2>3. doc' \in [Tables -> Int] /\ readAt' \in [Tables -> Int]
    BY <1>10, <2>1, <2>2 DEF ParallelCopy, Copied
  <2> QED
    BY <1>10, <2>1, <2>3 DEF ParallelCopy, source
<1>11. CASE StartCDC
  <2>1. next' \in Int /\ slot' \in Int
    BY <1>11 DEF StartCDC, StreamFrom
  <2> QED
    BY <1>11, <2>1 DEF StartCDC, source, history
<1>12. CASE StartFails
  BY <1>12 DEF StartFails, source, lost, history
<1>13. CASE Receive
  BY <1>13 DEF Receive, source, lost, history
<1>14. CASE Handle
  <2>1. Head(flight) \in 1..Len(log) /\ log[Head(flight)] \in Tables /\ Tail(flight) \in Seq(Int)
    BY <1>14 DEF Handle, PositionInv
  <2>2. doc' \in [Tables -> Int] /\ lastCp' \in Int
    BY <1>14, <2>1 DEF Handle, Write, ChunkCheckpoint
  <2>3. entry' \in {"none", "valid", "torn"}
    BY <1>14 DEF Handle, ChunkCheckpoint, CommitCheckpoint
  <2> QED
    BY <1>14, <2>1, <2>2, <2>3 DEF Handle, source, history
<1>15. CASE Acknowledge
  BY <1>15 DEF Acknowledge, source, lost, history
<1>16. CASE StreamEnds
  <2>1. flight' \in Seq(Int)
    BY <1>16, KeptSeq DEF StreamEnds
  <2> QED
    BY <1>16, <2>1 DEF StreamEnds, source
<1>17. CASE ServerReleases
  BY <1>17 DEF ServerReleases, source, lost, history
<1>18. CASE Crash
  BY <1>18 DEF Crash, source
<1> QED
  BY <1>1, <1>2, <1>3, <1>4, <1>5, <1>6, <1>7, <1>8, <1>9, <1>10,
     <1>11, <1>12, <1>13, <1>14, <1>15, <1>16, <1>17, <1>18 DEF Next, JobStep

\* A sync begins with all tables; only MySQL jobs copy in parallel; a slot leaves
\* nothing unwatched.
LEMMA StageStep ==
    ASSUME TypeInv, StageInv, [Next]_vars
    PROVE  StageInv'
<1> USE DEF TypeInv, StageInv, Stages
<1>1. CASE UNCHANGED vars
  BY <1>1 DEF vars
<1>2. CASE SourceChange
  BY <1>2 DEF SourceChange, lost, history
<1>3. CASE Run
  BY <1>3 DEF Run, source, lost, history, NeedsInitialSync, HasData, Tables
<1>4. CASE PerformInitialSync
  BY <1>4 DEF PerformInitialSync, source, lost, Dies, Parallel
<1>5. CASE SnapshotTable
  BY <1>5 DEF SnapshotTable, Begins, Copied, ChunkCheckpoint, CommitCheckpoint, source, lost
<1>6. CASE SnapshotForeign
  BY <1>6 DEF SnapshotForeign, Begins, ChunkCheckpoint, CommitCheckpoint, source, lost
<1>7. CASE SnapshotShort
  BY <1>7 DEF SnapshotShort, Begins, ChunkCheckpoint, CommitCheckpoint, source, lost
<1>8. CASE SnapshotFails
  BY <1>8 DEF SnapshotFails, Dies, source, lost
<1>9. CASE SnapshotDone
  BY <1>9 DEF SnapshotDone, source, lost, history
<1>10. CASE ParallelCopy
  BY <1>10 DEF ParallelCopy, Copied, source, lost
<1>11. CASE StartCDC
  BY <1>11 DEF StartCDC, source, lost, history
<1>12. CASE StartFails
  BY <1>12 DEF StartFails, source, lost, history
<1>13. CASE Receive
  BY <1>13 DEF Receive, source, lost, history
<1>14. CASE Handle
  BY <1>14 DEF Handle, Write, ChunkCheckpoint, CommitCheckpoint, source, lost, history
<1>15. CASE Acknowledge
  BY <1>15 DEF Acknowledge, source, lost, history
<1>16. CASE StreamEnds
  BY <1>16 DEF StreamEnds, source, lost
<1>17. CASE ServerReleases
  BY <1>17 DEF ServerReleases, source, lost, history
<1>18. CASE Crash
  BY <1>18 DEF Crash, source, lost
<1> QED
  BY <1>1, <1>2, <1>3, <1>4, <1>5, <1>6, <1>7, <1>8, <1>9, <1>10,
     <1>11, <1>12, <1>13, <1>14, <1>15, <1>16, <1>17, <1>18 DEF Next, JobStep

\* Documents and positions come from the log.
LEMMA PositionStep ==
    ASSUME TypeInv, StageInv, PositionInv, [Next]_vars
    PROVE  PositionInv'
<1> USE JobAssumption, VersionFacts DEF TypeInv, PositionInv, OwnLog
<1>1. CASE UNCHANGED vars
  BY <1>1 DEF vars
<1>2. CASE SourceChange
  <2>1. PICK u \in Tables : log' = Append(log, u)
    BY <1>2 DEF SourceChange
  <2>2. /\ Len(log) \in Nat /\ Len(log') = Len(log) + 1
        /\ \A i \in 1..Len(log) : log'[i] = log[i]
    BY <2>1, AppendFacts
  <2>3. UNCHANGED <<conf, doc, lastCp, slot, next, flight, readAt>>
    BY <1>2 DEF SourceChange
  <2>4. \A n \in DOMAIN flight : flight[n] \in 1..Len(log')
    BY <2>2
  <2>5. \A t \in Tables : doc[t] > 0 => doc[t] \in 1..Len(log') /\ log'[doc[t]] = t
    <3> SUFFICES ASSUME NEW t \in Tables, doc[t] > 0
                 PROVE  doc[t] \in 1..Len(log') /\ log'[doc[t]] = t
      OBVIOUS
    <3>1. doc[t] \in 1..Len(log) /\ log[doc[t]] = t
      OBVIOUS
    <3> HIDE DEF TypeInv, PositionInv
    <3> QED
      BY <2>2, <3>1
  <2>6. OwnLog' => lastCp' <= Len(log') /\ slot' <= Len(log') /\ next' <= Len(log') + 1
    BY <2>2, <2>3
  <2>7. \A t \in Tables : readAt[t] >= 0 => doc[t] >= 0 /\ OwnLog
    OBVIOUS
  <2> QED
    <3>1. 1 <= next /\ OwnLog' = OwnLog
      BY <2>3
    <3> HIDE DEF TypeInv, OwnLog
    <3> QED
      BY <2>2, <2>3, <2>4, <2>5, <2>6, <2>7, <3>1
<1>3. CASE Run
  BY <1>3 DEF Run, source, lost, history, NeedsInitialSync, HasData, Tables
<1>4. CASE PerformInitialSync
  BY <1>4 DEF PerformInitialSync, source, lost, Dies, Parallel
<1>5. CASE SnapshotTable
  <2> DEFINE t == Head(todo)
  <2>1. t \in Tables /\ Len(log) \in Nat
    BY <1>5, HeadTail DEF SnapshotTable, Begins
  <2>2. /\ doc' = [doc EXCEPT ![t] = Version(t)] /\ readAt' = [readAt EXCEPT ![t] = Len(log)]
        /\ UNCHANGED <<log, pc, conf, next, flight>>
    BY <1>5 DEF SnapshotTable, Begins, Copied, source
  <2> HIDE DEF t
  <2>3. Version(t) \in 0..Len(log) /\ (Version(t) > 0 => log[Version(t)] = t)
    BY VersionFacts
  <2>4. OwnLog
    BY <1>5 DEF SnapshotTable, OwnLog, StageInv
  <2>5. ASSUME NEW u \in Tables
        PROVE  /\ readAt'[u] >= 0 => doc'[u] >= 0
               /\ doc'[u] > 0 => doc'[u] \in 1..Len(log) /\ log[doc'[u]] = u
    <3>1. CASE u = t
      <4>1. doc'[u] = Version(t)
        BY <2>2, <3>1
      <4> HIDE DEF TypeInv, PositionInv
      <4> QED
        BY <2>1, <2>3, <3>1, <4>1
    <3>2. CASE u # t
      <4>1. doc'[u] = doc[u] /\ readAt'[u] = readAt[u]
        BY <2>2, <3>2
      <4> QED
        BY <4>1
    <3> QED
      BY <3>1, <3>2
  <2>6. lastCp' <= Len(log) /\ slot' <= Len(log)
    BY <1>5, <2>1, <2>4, SMTT(20) DEF SnapshotTable, Begins, ChunkCheckpoint, ChunkPositions, EnsuredSlot
  <2> QED
    BY <2>2, <2>4, <2>5, <2>6
<1>6. CASE SnapshotForeign
  <2>1. Head(todo) \in Tables /\ Len(log) \in Nat
    BY <1>6, HeadTail DEF SnapshotForeign, Begins
  <2>2. OwnLog => lastCp' <= Len(log) /\ slot' <= Len(log)
    BY <1>6, <2>1, SMTT(20) DEF SnapshotForeign, Begins, ChunkCheckpoint, ChunkPositions, EnsuredSlot
  <2> QED
    BY <1>6, <2>1, <2>2 DEF SnapshotForeign, Begins, source, Foreign
<1>7. CASE SnapshotShort
  <2>1. OwnLog => lastCp' <= Len(log) /\ slot' <= Len(log)
    BY <1>7 DEF SnapshotShort, Begins, ChunkCheckpoint, ChunkPositions, EnsuredSlot
  <2> QED
    BY <1>7, <2>1 DEF SnapshotShort, Begins, source, lost
<1>8. CASE SnapshotFails
  BY <1>8 DEF SnapshotFails, Dies, source, lost
<1>9. CASE SnapshotDone
  BY <1>9 DEF SnapshotDone, source, lost, history
<1>10. CASE ParallelCopy
  <2> DEFINE t == Head(todo)
  <2>1. t \in Tables /\ Len(log) \in Nat
    BY <1>10, HeadTail DEF ParallelCopy
  <2>2. /\ doc' = [doc EXCEPT ![t] = Version(t)] /\ readAt' = [readAt EXCEPT ![t] = Len(log)]
        /\ UNCHANGED <<log, pc, conf, next, flight, lastCp, slot>>
    BY <1>10 DEF ParallelCopy, Copied, source
  <2> HIDE DEF t
  <2>3. Version(t) \in 0..Len(log) /\ (Version(t) > 0 => log[Version(t)] = t)
    BY VersionFacts
  <2>4. OwnLog
    BY <1>10 DEF ParallelCopy, OwnLog, StageInv
  <2>5. ASSUME NEW u \in Tables
        PROVE  /\ readAt'[u] >= 0 => doc'[u] >= 0
               /\ doc'[u] > 0 => doc'[u] \in 1..Len(log) /\ log[doc'[u]] = u
    <3>1. CASE u = t
      <4>1. doc'[u] = Version(t)
        BY <2>2, <3>1
      <4> HIDE DEF TypeInv, PositionInv
      <4> QED
        BY <2>1, <2>3, <3>1, <4>1
    <3>2. CASE u # t
      <4>1. doc'[u] = doc[u] /\ readAt'[u] = readAt[u]
        BY <2>2, <3>2
      <4> QED
        BY <4>1
    <3> QED
      BY <3>1, <3>2
  <2> QED
    BY <2>2, <2>4, <2>5
<1>11. CASE StartCDC
  BY <1>11 DEF StartCDC, StreamFrom, source, history, lost
<1>12. CASE StartFails
  BY <1>12 DEF StartFails, source, lost, history
<1>13. CASE Receive
  <2>1. next \in 1..Len(log) /\ flight' = Append(flight, next)
    BY <1>13 DEF Receive
  <2>2. \A n \in DOMAIN flight' : flight'[n] \in 1..Len(log)
    <3> HIDE DEF PositionInv
    <3>1. \A n \in DOMAIN flight : flight[n] \in 1..Len(log)
      BY DEF PositionInv
    <3>2. ASSUME NEW n \in DOMAIN flight' PROVE flight'[n] \in 1..Len(log)
      <4>1. /\ Len(flight) \in Nat
            /\ DOMAIN flight = 1..Len(flight) /\ DOMAIN flight' = 1..(Len(flight) + 1)
            /\ \A k \in 1..Len(flight) : flight'[k] = flight[k]
            /\ flight'[Len(flight) + 1] = next
        BY <2>1, AppendFacts
      <4> HIDE DEF TypeInv
      <4> QED
        BY <2>1, <3>1, <3>2, <4>1
    <3> QED
      BY <3>2
  <2>3. /\ UNCHANGED <<conf, log, doc, lastCp, slot, readAt>>
        /\ next' = next + 1 /\ next <= Len(log)
    BY <1>13 DEF Receive, source, history, lost
  <2> QED
    BY <2>2, <2>3, SMTT(20)
<1>14. CASE Handle
  <2>1. Head(flight) \in 1..Len(log) /\ log[Head(flight)] \in Tables
    BY <1>14 DEF Handle
  <2>2. \A n \in DOMAIN Tail(flight) : Tail(flight)[n] \in 1..Len(log)
    BY <1>14, TailFacts DEF Handle
  <2>3. OwnLog => lastCp' <= Len(log)
    BY <1>14, <2>1 DEF Handle, ChunkCheckpoint
  <2> QED
    BY <1>14, <2>1, <2>2, <2>3, SMTT(20) DEF Handle, Write, source, history, lost
<1>15. CASE Acknowledge
  BY <1>15 DEF Acknowledge, source, lost, history
<1>16. CASE StreamEnds
  <2>1. PICK place \in Subsequences(Len(flight)) : flight' = [k \in DOMAIN place |-> flight[place[k]]]
    BY <1>16 DEF StreamEnds
  <2>2. \A n \in DOMAIN flight' : flight'[n] \in 1..Len(log)
    BY <2>1, KeptSeq
  <2> QED
    BY <1>16, <2>2 DEF StreamEnds, source
<1>17. CASE ServerReleases
  BY <1>17 DEF ServerReleases, source, lost, history
<1>18. CASE Crash
  BY <1>18 DEF Crash, source, lost
<1> QED
  BY <1>1, <1>2, <1>3, <1>4, <1>5, <1>6, <1>7, <1>8, <1>9, <1>10,
     <1>11, <1>12, <1>13, <1>14, <1>15, <1>16, <1>17, <1>18 DEF Next, JobStep

\* A step that changes neither log nor what is in flight, nor the document of a
\* table it leaves watched, keeps what is covered, if it keeps what is awaited.
LEMMA CoveredFrame ==
    ASSUME CoveredInv, UNCHANGED <<conf, log, flight>>,
           \A t \in Tables : Watched(t)' =>
               /\ Watched(t) /\ doc'[t] = doc[t]
               /\ conf.type = "postgresql" /\ slot >= 0 => slot' >= 0,
           \A t \in Tables : Watched(t)' => \A i \in 1..Len(log) : Awaited(i) => Awaited(i)'
    PROVE  CoveredInv'
<1> SUFFICES ASSUME NEW t \in Tables, Watched(t)'
             PROVE  /\ conf.type = "postgresql" => slot' >= 0
                    /\ \A i \in 1..Len(log) : log[i] = t => Covered(t, i)'
  BY DEF CoveredInv
<1>1. Watched(t) /\ doc'[t] = doc[t] /\ \A i \in 1..Len(log) : Awaited(i) => Awaited(i)'
  OBVIOUS
<1>2. conf.type = "postgresql" => slot' >= 0
  BY <1>1 DEF CoveredInv
<1>3. ASSUME NEW i \in 1..Len(log), log[i] = t PROVE Covered(t, i)'
  <2>1. Covered(t, i) /\ (Awaited(i) => Awaited(i)')
    BY <1>1, <1>3 DEF CoveredInv
  <2>2. \A m : Follows(i, m) => Follows(i, m)'
    BY DEF Follows
  <2> QED
    BY <1>1, <2>1, <2>2, Zenon DEF Covered
<1> QED
  BY <1>2, <1>3

\* Before a stream nothing is in flight, so a document that shows the last change
\* of its table is covered.
LEMMA CoveredCopy ==
    ASSUME log \in Seq(Tables), NEW t, doc[t] = Version(t), flight = <<>>,
           NEW i \in 1..Len(log), log[i] = t
    PROVE  Covered(t, i)
<1>1. i <= Version(t) /\ Version(t) \in Int
  BY VersionFacts
<1>2. ~(doc[t] < i)
  BY <1>1
<1> QED
  BY <1>2 DEF Covered

\* No step passes over a change that a copied table lacks.
LEMMA CoveredStep ==
    ASSUME TypeInv, StageInv, PositionInv, CoveredInv, [Next]_vars
    PROVE  CoveredInv'
<1> USE DEF TypeInv
<1>1. CASE UNCHANGED vars
  BY <1>1, CoveredFrame DEF vars, Watched, Renewed, Awaited
<1>2. CASE SourceChange
  <2>1. PICK u \in Tables : log' = Append(log, u)
    BY <1>2 DEF SourceChange
  <2>2. /\ Len(log) \in Nat /\ Len(log') = Len(log) + 1
        /\ \A i \in 1..Len(log) : log'[i] = log[i]
    BY <2>1, AppendFacts
  <2>3. /\ UNCHANGED <<conf, doc, pc, todo, lastCp, slot, next, flight, readAt, dropped, unread>>
        /\ unwatched \subseteq unwatched'
        /\ conf.type # "postgresql" /\ pc # "streaming" => Len(log) + 1 \in unwatched'
    BY <1>2 DEF SourceChange
  <2> SUFFICES ASSUME NEW t \in Tables, Watched(t)'
               PROVE  /\ conf.type = "postgresql" => slot' >= 0
                      /\ \A i \in 1..Len(log') : log'[i] = t => Covered(t, i)'
    BY <2>3 DEF CoveredInv
  <2>4. Watched(t) /\ OwnLog
    BY <2>3 DEF Watched, Renewed, PositionInv
  <2>5. ASSUME NEW i \in 1..Len(log), log[i] = t PROVE Covered(t, i)'
    <3>1. Covered(t, i)
      BY <2>4, <2>5 DEF CoveredInv
    <3>2. Awaited(i) => Awaited(i)'
      BY <2>3 DEF Awaited
    <3>3. \A m : Follows(i, m) => Follows(i, m)'
      BY <2>3 DEF Follows
    <3>4. \A m \in DOMAIN flight : log'[flight[m]] = log[flight[m]]
      BY <2>2 DEF PositionInv
    <3> HIDE DEF TypeInv
    <3> QED
      BY <2>3, <3>1, <3>2, <3>3, <3>4 DEF Covered
  <2>6. ASSUME NEW i \in 1..Len(log'), i = Len(log) + 1 PROVE Awaited(i)'
    <3>1. /\ lastCp <= Len(log) /\ slot <= Len(log) /\ next <= Len(log) + 1
          /\ \A n \in DOMAIN flight : flight[n] \in 1..Len(log)
      BY <2>4 DEF PositionInv
    <3>2. CASE pc = "streaming"
      BY <2>3, <2>6, <3>1, <3>2 DEF Awaited
    <3>3. CASE pc # "streaming" /\ conf.type = "postgresql"
      BY <2>2, <2>3, <2>6, <3>1, <3>3 DEF Awaited
    <3>4. CASE pc # "streaming" /\ conf.type # "postgresql"
      BY <2>3, <2>6, <3>4 DEF Awaited
    <3> QED
      BY <3>2, <3>3, <3>4
  <2>7. ASSUME NEW i \in 1..Len(log'), i = Len(log) + 1 PROVE Covered(t, i)'
    BY <2>6, <2>7 DEF Covered
  <2>8. \A i \in 1..Len(log') : i \in 1..Len(log) \/ i = Len(log) + 1
    <3> HIDE DEF TypeInv
    <3>1. ASSUME NEW n \in Nat, NEW i \in 1..(n + 1) PROVE i \in 1..n \/ i = n + 1
      OBVIOUS
    <3> QED
      BY <2>2, <3>1
  <2>9. ASSUME NEW i \in 1..Len(log'), log'[i] = t PROVE Covered(t, i)'
    <3>1. CASE i \in 1..Len(log)
      BY <2>2, <2>5, <2>9, <3>1
    <3>2. CASE i = Len(log) + 1
      BY <2>7, <3>2
    <3> QED
      BY <2>8, <3>1, <3>2
  <2> QED
    BY <2>3, <2>4, <2>9 DEF CoveredInv
<1>3. CASE Run
  <2>1. /\ UNCHANGED <<conf, log, flight, doc, lastCp, slot, readAt, dropped, unwatched, unread>>
        /\ pc = "run" /\ pc' \in {"sync", "cdc"} /\ (conf.force /\ conf.initialSync => pc' = "sync")
    BY <1>3 DEF Run, source, lost, history, NeedsInitialSync, HasData, ShouldForceInitialSync, Tables
  <2>2. \A t \in Tables : Watched(t)' =>
          /\ Watched(t) /\ doc'[t] = doc[t]
          /\ conf.type = "postgresql" /\ slot >= 0 => slot' >= 0
    BY <2>1 DEF Watched, Renewed
  <2>3. \A t \in Tables : Watched(t)' => \A i \in 1..Len(log) : Awaited(i) => Awaited(i)'
    BY <2>1, <2>2 DEF Awaited
  <2> QED
    BY <2>1, <2>2, <2>3, CoveredFrame
<1>4. CASE PerformInitialSync
  <2>1. /\ UNCHANGED <<conf, log, flight, doc, todo, lastCp, readAt, dropped, unwatched, unread>>
        /\ pc = "sync" /\ pc' \in {"dead", "parallel", "table"}
        /\ pc' = "parallel" => conf.type # "postgresql"
        /\ slot' = slot \/ conf.force
    BY <1>4 DEF PerformInitialSync, source, lost, Dies, Parallel, ShouldForceInitialSync
  <2>2. \A t \in Tables : Watched(t)' =>
          /\ Watched(t) /\ doc'[t] = doc[t]
          /\ conf.type = "postgresql" => slot' = slot
    BY <2>1 DEF Watched, Renewed, StageInv, Tables
  <2>3. \A t \in Tables : Watched(t)' => \A i \in 1..Len(log) : Awaited(i) => Awaited(i)'
    BY <2>1, <2>2 DEF Awaited
  <2> QED
    BY <2>1, <2>2, <2>3, CoveredFrame
<1>5. CASE SnapshotTable
  <2> DEFINE u == Head(todo)
  <2>1. u \in Tables /\ Len(log) \in Nat
    BY <1>5, HeadTail DEF SnapshotTable, Begins
  <2>2. /\ UNCHANGED <<conf, log, pc, next, flight, dropped, unwatched>>
        /\ flight = <<>> /\ pc # "streaming" /\ todo # <<>> /\ todo' = Tail(todo)
        /\ doc' = [doc EXCEPT ![u] = Version(u)] /\ readAt' = [readAt EXCEPT ![u] = Len(log)]
    BY <1>5 DEF SnapshotTable, Begins, Copied, source, lost, StageInv
  <2>3. /\ slot' = EnsuredSlot /\ unread' = unread \ {u}
        /\ pc = "table" /\ conf.own
        /\ conf.type = "postgresql" => lastCp' = EnsuredSlot
    BY <1>5 DEF SnapshotTable, Begins, ChunkCheckpoint, ChunkPositions
  <2> HIDE DEF u
  <2>4. conf.type = "postgresql" => slot' >= 0 /\ (slot >= 0 => slot' = slot /\ lastCp' = slot)
    BY <2>1, <2>3 DEF EnsuredSlot
  <2> SUFFICES ASSUME NEW t \in Tables, Watched(t)', NEW i \in 1..Len(log), log[i] = t
               PROVE  Covered(t, i)'
    BY <2>2, <2>4 DEF CoveredInv
  <2>5. CASE t = u
    <3>1. Version(t)' = Version(t)
      BY <2>2 DEF Version
    <3>2. doc'[t] = Version(t)'
      BY <2>1, <2>2, <2>5, <3>1
    <3>3. i <= Version(t)' /\ Version(t)' \in Int
      BY <3>1, VersionFacts
    <3> HIDE DEF TypeInv
    <3> QED
      BY <2>2, <3>2, <3>3 DEF Covered
  <2>6. CASE t # u
    <3>1. Watched(t)
      <4>1. t \notin unread \/ conf.type # "postgresql"
        BY <2>2, <2>3, <2>6 DEF Watched
      <4>2. readAt[t] >= 0
        BY <2>2, <2>6 DEF Watched
      <4>3. Renewed(t) => Renewed(t)'
        <5>1. (\E n \in DOMAIN todo : todo[n] = t) => \E n \in DOMAIN Tail(todo) : Tail(todo)[n] = t
          BY <2>2, <2>6, Rest DEF u
        <5> HIDE DEF TypeInv
        <5> QED
          BY <2>2, <2>3, <5>1 DEF Renewed
      <4> QED
        BY <2>2, <4>1, <4>2, <4>3 DEF Watched
    <3>2. Covered(t, i) /\ (conf.type = "postgresql" => slot >= 0)
      BY <3>1 DEF CoveredInv
    <3>3. Awaited(i) => Awaited(i)'
      BY <2>2, <2>4, <3>2 DEF Awaited
    <3>4. doc'[t] = doc[t]
      BY <2>2, <2>6
    <3> HIDE DEF TypeInv
    <3> QED
      BY <2>2, <3>2, <3>3, <3>4 DEF Covered, Follows
  <2> QED
    BY <2>5, <2>6
<1>6. CASE SnapshotForeign
  <2>1. /\ UNCHANGED <<conf, log, pc, next, flight, dropped, unwatched>>
        /\ todo # <<>> /\ todo' = Tail(todo) /\ pc = "table"
        /\ ~conf.own /\ unread' = unread
        /\ doc' = [doc EXCEPT ![Head(todo)] = Foreign] /\ readAt' = [readAt EXCEPT ![Head(todo)] = -1]
    BY <1>6 DEF SnapshotForeign, Begins, ChunkCheckpoint, source, lost
  <2>2. Head(todo) \in Tables
    BY <2>1, HeadTail
  <2>3. \A t \in Tables : Watched(t)' => t # Head(todo) /\ readAt[t] >= 0 /\ doc'[t] = doc[t]
    BY <2>1, <2>2 DEF Watched
  <2>4. \A t \in Tables : Watched(t)' => conf.type # "postgresql"
    BY <2>1, <2>3 DEF PositionInv, OwnLog
  <2>5. \A t \in Tables : Watched(t)' =>
          /\ Watched(t) /\ doc'[t] = doc[t]
          /\ conf.type = "postgresql" /\ slot >= 0 => slot' >= 0
    BY <2>1, <2>3, <2>4 DEF Watched
  <2>6. \A t \in Tables : Watched(t)' => \A i \in 1..Len(log) : Awaited(i) => Awaited(i)'
    BY <2>1, <2>4 DEF Awaited
  <2> QED
    BY <2>1, <2>5, <2>6, CoveredFrame
<1>7. CASE SnapshotShort
  <2>1. /\ UNCHANGED <<conf, log, pc, next, flight, dropped, unwatched>>
        /\ todo # <<>> /\ todo' = Tail(todo) /\ pc = "table"
        /\ UNCHANGED <<doc, readAt>> /\ unread' = unread \cup {Head(todo)}
        /\ slot' = EnsuredSlot
        /\ lastCp' = lastCp \/ lastCp' \in ChunkPositions
    BY <1>7 DEF SnapshotShort, Begins, ChunkCheckpoint, source, lost
  <2>2. ASSUME NEW t \in Tables, Watched(t)'
        PROVE  /\ Watched(t)
               /\ conf.type = "postgresql" =>
                    slot >= 0 /\ slot' = slot /\ (lastCp' = lastCp \/ lastCp' = slot)
    <3>1. readAt[t] >= 0 /\ (conf.type = "postgresql" => conf.own /\ t # Head(todo) /\ t \notin unread)
      BY <2>1, <2>2 DEF Watched, PositionInv, OwnLog
    <3>2. conf.type = "postgresql" => (Renewed(t) => Renewed(t)')
      <4>1. conf.type = "postgresql" /\ (\E n \in DOMAIN todo : todo[n] = t) =>
              \E n \in DOMAIN Tail(todo) : Tail(todo)[n] = t
        BY <2>1, <3>1, Rest
      <4> HIDE DEF TypeInv
      <4> QED
        BY <2>1, <4>1 DEF Renewed
    <3>3. Watched(t)
      BY <2>1, <2>2, <3>1, <3>2 DEF Watched
    <3>4. conf.type = "postgresql" => slot >= 0
      BY <3>3 DEF CoveredInv
    <3> QED
      BY <2>1, <3>1, <3>3, <3>4 DEF EnsuredSlot, ChunkPositions
  <2>3. \A t \in Tables : Watched(t)' =>
          /\ Watched(t) /\ doc'[t] = doc[t]
          /\ conf.type = "postgresql" /\ slot >= 0 => slot' >= 0
    BY <2>1, <2>2
  <2>4. \A t \in Tables : Watched(t)' => \A i \in 1..Len(log) : Awaited(i) => Awaited(i)'
    BY <2>1, <2>2 DEF Awaited
  <2> QED
    BY <2>1, <2>3, <2>4, CoveredFrame
<1>8. CASE SnapshotFails
  <2>1. /\ UNCHANGED <<conf, log, flight, doc, lastCp, slot, readAt, dropped, unwatched, unread>>
        /\ pc = "table" /\ pc' = "dead"
    BY <1>8 DEF SnapshotFails, Dies, source, lost
  <2>2. \A t \in Tables : Watched(t)' =>
          /\ Watched(t) /\ doc'[t] = doc[t]
          /\ conf.type = "postgresql" /\ slot >= 0 => slot' >= 0
    BY <2>1 DEF Watched, Renewed
  <2>3. \A t \in Tables : Watched(t)' => \A i \in 1..Len(log) : Awaited(i) => Awaited(i)'
    BY <2>1, <2>2 DEF Awaited
  <2> QED
    BY <2>1, <2>2, <2>3, CoveredFrame
<1>9. CASE SnapshotDone
  <2>1. /\ UNCHANGED <<conf, log, flight, doc, lastCp, slot, readAt, dropped, unwatched, unread>>
        /\ pc = "table" /\ pc' = "cdc" /\ todo = <<>>
    BY <1>9 DEF SnapshotDone, source, lost, history
  <2>2. \A t \in Tables : Watched(t)' =>
          /\ Watched(t) /\ doc'[t] = doc[t]
          /\ conf.type = "postgresql" /\ slot >= 0 => slot' >= 0
    BY <2>1 DEF Watched, Renewed
  <2>3. \A t \in Tables : Watched(t)' => \A i \in 1..Len(log) : Awaited(i) => Awaited(i)'
    BY <2>1, <2>2 DEF Awaited
  <2> QED
    BY <2>1, <2>2, <2>3, CoveredFrame
<1>10. CASE ParallelCopy
  <2> DEFINE u == Head(todo)
  <2>1. u \in Tables /\ Len(log) \in Nat
    BY <1>10, HeadTail DEF ParallelCopy
  <2>2. /\ UNCHANGED <<conf, log, pc, next, flight, slot, lastCp, unread, dropped, unwatched>>
        /\ flight = <<>> /\ pc # "streaming" /\ todo # <<>> /\ todo' = Tail(todo)
        /\ doc' = [doc EXCEPT ![u] = Version(u)] /\ readAt' = [readAt EXCEPT ![u] = Len(log)]
    BY <1>10 DEF ParallelCopy, Copied, source, lost, StageInv
  <2>3. conf.type # "postgresql"
    BY <1>10 DEF ParallelCopy, StageInv
  <2> HIDE DEF u
  <2> SUFFICES ASSUME NEW t \in Tables, Watched(t)', NEW i \in 1..Len(log), log[i] = t
               PROVE  Covered(t, i)'
    BY <2>2, <2>3 DEF CoveredInv
  <2>5. CASE t = u
    <3>1. Version(t)' = Version(t)
      BY <2>2 DEF Version
    <3>2. doc'[t] = Version(t)'
      BY <2>1, <2>2, <2>5, <3>1
    <3>3. i <= Version(t)' /\ Version(t)' \in Int
      BY <3>1, VersionFacts
    <3> HIDE DEF TypeInv
    <3> QED
      BY <2>2, <3>2, <3>3 DEF Covered
  <2>6. CASE t # u
    <3>1. Watched(t)
      BY <2>2, <2>3, <2>6 DEF Watched
    <3>2. Covered(t, i)
      BY <3>1 DEF CoveredInv
    <3>3. Awaited(i) => Awaited(i)'
      BY <2>2, <2>3 DEF Awaited
    <3>4. doc'[t] = doc[t]
      BY <2>2, <2>6
    <3> HIDE DEF TypeInv
    <3> QED
      BY <2>2, <3>2, <3>3, <3>4 DEF Covered, Follows
  <2> QED
    BY <2>5, <2>6
<1>11. CASE StartCDC
  <2>1. /\ UNCHANGED <<conf, log, flight, doc, lastCp, readAt, dropped, unwatched, unread>>
        /\ pc = "cdc" /\ pc' = "streaming"
    BY <1>11 DEF StartCDC, source, history
  <2>2. conf.type = "postgresql" /\ slot >= 0 =>
          /\ slot' >= 0 /\ \A i \in 1..Len(log) : i > slot /\ i > lastCp => i >= next'
    BY <1>11 DEF StartCDC, StreamFrom
  <2>3. \A t \in Tables : Watched(t)' =>
          /\ Watched(t) /\ doc'[t] = doc[t]
          /\ conf.type = "postgresql" /\ slot >= 0 => slot' >= 0
    BY <2>1, <2>2 DEF Watched, Renewed
  <2>4. \A t \in Tables : Watched(t)' => \A i \in 1..Len(log) : Awaited(i) => Awaited(i)'
    <3> SUFFICES ASSUME NEW t \in Tables, Watched(t)', NEW i \in 1..Len(log), Awaited(i)
                 PROVE  Awaited(i)'
      OBVIOUS
    <3>1. conf.type = "postgresql" => slot >= 0
      BY <2>3 DEF CoveredInv
    <3> QED
      BY <2>1, <2>2, <3>1 DEF Awaited
  <2> QED
    BY <2>1, <2>3, <2>4, CoveredFrame
<1>12. CASE StartFails
  <2>1. /\ UNCHANGED <<conf, log, flight, doc, lastCp, slot, readAt, dropped, unwatched, unread>>
        /\ pc = "cdc" /\ pc' = "dead" /\ conf.type # "postgresql"
    BY <1>12 DEF StartFails, source, lost, history
  <2>2. \A t \in Tables : Watched(t)' =>
          /\ Watched(t) /\ doc'[t] = doc[t]
          /\ conf.type = "postgresql" /\ slot >= 0 => slot' >= 0
    BY <2>1 DEF Watched, Renewed
  <2>3. \A t \in Tables : Watched(t)' => \A i \in 1..Len(log) : Awaited(i) => Awaited(i)'
    BY <2>1, <2>2 DEF Awaited
  <2> QED
    BY <2>1, <2>2, <2>3, CoveredFrame
<1>13. CASE Receive
  <2>1. /\ UNCHANGED <<conf, log, pc, todo, lastCp, slot, doc, readAt, dropped, unwatched, unread>>
        /\ pc = "streaming" /\ next \in 1..Len(log)
        /\ next' = next + 1 /\ flight' = Append(flight, next)
    BY <1>13 DEF Receive, source, history, PositionInv
  <2>2. /\ Len(flight) \in Nat
        /\ DOMAIN flight = 1..Len(flight) /\ DOMAIN flight' = 1..(Len(flight) + 1)
        /\ \A n \in 1..Len(flight) : flight'[n] = flight[n]
        /\ flight'[Len(flight) + 1] = next
    BY <2>1, AppendFacts
  <2>0. \A t \in Tables : Watched(t)' => Watched(t) /\ (conf.type = "postgresql" => slot >= 0)
    BY <2>1 DEF Watched, Renewed, CoveredInv
  <2> SUFFICES ASSUME NEW t \in Tables, Watched(t)', NEW i \in 1..Len(log), log[i] = t
               PROVE  Covered(t, i)'
    BY <2>1, <2>0 DEF CoveredInv
  <2>3. Covered(t, i)
    BY <2>0 DEF CoveredInv
  <2>4. i # next => (Awaited(i) => Awaited(i)')
    BY <2>1 DEF Awaited
  <2>5. i > next => Awaited(i)'
    BY <2>1 DEF Awaited
  <2> HIDE DEF TypeInv
  <2>6. \A m : Follows(i, m) => Follows(i, m)'
    BY <2>2 DEF Follows
  <2>7. \A m \in 0..Len(flight) : i = next => Follows(i, m)'
    BY <2>2 DEF Follows
  <2>8. doc'[t] < i => Awaited(i)' \/ Follows(i, 0)'
    BY <2>1, <2>2, <2>3, <2>4, <2>6, <2>7 DEF Covered
  <2>9. ASSUME NEW m \in DOMAIN flight', log'[flight'[m]] = t, flight'[m] < i
        PROVE  Awaited(i)' \/ Follows(i, m)'
    <3>1. CASE m \in DOMAIN flight
      <4>1. flight'[m] = flight[m] /\ m \in 0..Len(flight)
        BY <2>2, <3>1
      <4>2. Awaited(i) \/ Follows(i, m)
        BY <2>1, <2>3, <2>9, <3>1, <4>1 DEF Covered
      <4> QED
        BY <2>4, <2>6, <2>7, <4>1, <4>2
    <3>2. CASE m = Len(flight) + 1
      BY <2>2, <2>5, <2>9, <3>2
    <3> QED
      BY <2>2, <3>1, <3>2
  <2> QED
    BY <2>3, <2>8, <2>9 DEF Covered
<1>14. CASE Handle
  <2> DEFINE x == Head(flight)
  <2>1. /\ UNCHANGED <<conf, log, pc, todo, slot, next, readAt, dropped, unwatched, unread>>
        /\ flight' = Tail(flight) /\ doc' = [doc EXCEPT ![log[x]] = x]
        /\ conf.type = "postgresql" => lastCp' = x
    BY <1>14 DEF Handle, Write, ChunkCheckpoint, source, history
  <2>2. /\ Len(flight) \in Nat /\ 1 \in DOMAIN flight /\ x = flight[1]
        /\ DOMAIN flight = 1..Len(flight) /\ DOMAIN flight' = 1..(Len(flight) - 1)
        /\ \A n \in DOMAIN flight' : n + 1 \in DOMAIN flight /\ flight'[n] = flight[n + 1]
    BY <1>14, <2>1, TailFacts DEF Handle
  <2>3. x \in 1..Len(log) /\ log[x] \in Tables
    <3>1. flight[1] \in 1..Len(log)
      <4> HIDE DEF TypeInv
      <4> QED
        BY <2>2 DEF PositionInv
    <3> QED
      BY <2>2, <3>1
  <2> HIDE DEF x
  <2>0. \A t \in Tables : Watched(t)' => Watched(t) /\ (conf.type = "postgresql" => slot >= 0)
    BY <2>1 DEF Watched, Renewed, CoveredInv
  <2> SUFFICES ASSUME NEW t \in Tables, Watched(t)', NEW i \in 1..Len(log), log[i] = t
               PROVE  Covered(t, i)'
    BY <2>1, <2>0 DEF CoveredInv
  <2>4. Covered(t, i)
    BY <2>0 DEF CoveredInv
  <2>5. Awaited(i) => Awaited(i)'
    BY <2>1, <2>2, <2>3 DEF Awaited
  <2>6. \A m \in Nat : Follows(i, m + 1) => Follows(i, m)'
    <3> SUFFICES ASSUME NEW m \in Nat, NEW n \in DOMAIN flight, n > m + 1, flight[n] = i
                 PROVE  Follows(i, m)'
      BY DEF Follows
    <3>1. n - 1 \in DOMAIN flight' /\ n - 1 > m
      <4>1. n \in 1..Len(flight) /\ n > m + 1
        BY <2>2
      <4> HIDE DEF TypeInv
      <4> QED
        BY <2>2, <4>1
    <3>2. flight'[n - 1] = i
      BY <2>2, <3>1
    <3> QED
      BY <3>1, <3>2 DEF Follows
  <2>7. ASSUME doc'[t] < i PROVE Awaited(i)' \/ Follows(i, 0)'
    <3>1. CASE t = log[x]
      <4>1. doc'[t] = x
        BY <2>1, <3>1
      <4>2. Awaited(i) \/ Follows(i, 1)
        BY <2>2, <2>4, <2>7, <3>1, <4>1 DEF Covered
      <4>3. Follows(i, 0 + 1) => Follows(i, 0)'
        BY <2>6
      <4> QED
        BY <2>5, <4>2, <4>3
    <3>2. CASE t # log[x]
      <4>1. doc'[t] = doc[t]
        BY <2>1, <3>2
      <4>2. Awaited(i) \/ Follows(i, 0)
        BY <2>4, <2>7, <4>1 DEF Covered
      <4>3. Follows(i, 0) => Follows(i, 0 + 1)
        BY <2>2, <3>2 DEF Follows
      <4>4. Follows(i, 0 + 1) => Follows(i, 0)'
        BY <2>6
      <4> QED
        BY <2>5, <4>2, <4>3, <4>4
    <3> QED
      BY <3>1, <3>2
  <2>8. ASSUME NEW m \in DOMAIN flight', log'[flight'[m]] = t, flight'[m] < i
        PROVE  Awaited(i)' \/ Follows(i, m)'
    <3>1. m + 1 \in DOMAIN flight /\ flight[m + 1] = flight'[m] /\ m \in Nat
      BY <2>2
    <3>2. Awaited(i) \/ Follows(i, m + 1)
      BY <2>1, <2>4, <2>8, <3>1 DEF Covered
    <3> QED
      BY <2>5, <2>6, <3>1, <3>2
  <2> HIDE DEF TypeInv
  <2> QED
    BY <2>4, <2>7, <2>8 DEF Covered
<1>15. CASE Acknowledge
  <2>1. /\ UNCHANGED <<conf, log, flight, doc, pc, todo, lastCp, next, readAt, dropped, unwatched, unread>>
        /\ pc = "streaming" /\ slot' \in Int /\ slot' >= slot
    BY <1>15 DEF Acknowledge, source, lost, history
  <2>2. \A t \in Tables : Watched(t)' =>
          /\ Watched(t) /\ doc'[t] = doc[t]
          /\ conf.type = "postgresql" /\ slot >= 0 => slot' >= 0
    BY <2>1 DEF Watched, Renewed
  <2>3. \A t \in Tables : Watched(t)' => \A i \in 1..Len(log) : Awaited(i) => Awaited(i)'
    BY <2>1, <2>2 DEF Awaited
  <2> QED
    BY <2>1, <2>2, <2>3, CoveredFrame
<1>16. CASE StreamEnds
  <2>1. PICK place \in Subsequences(Len(flight)) :
          /\ conf.type # "postgresql" => {place[k] : k \in DOMAIN place} = DOMAIN flight
          /\ flight' = [k \in DOMAIN place |-> flight[place[k]]]
          /\ dropped' = dropped \cup Lost({place[k] : k \in DOMAIN place}, lastCp)
    BY <1>16 DEF StreamEnds
  <2> DEFINE kept == {place[k] : k \in DOMAIN place}
  <2>2. /\ UNCHANGED <<conf, log, lastCp, slot, doc, readAt, unwatched, unread>>
        /\ pc = "streaming" /\ pc' \in {"cdc", "dead"}
        /\ conf.type = "postgresql" => pc' = "cdc"
    BY <1>16 DEF StreamEnds, source
  <2>3. /\ DOMAIN flight' = DOMAIN place
        /\ \A k \in DOMAIN place : place[k] \in DOMAIN flight /\ flight'[k] = flight[place[k]]
        /\ \A j, k \in DOMAIN place : j < k => place[j] < place[k]
        /\ DOMAIN place = 1..Len(flight') /\ DOMAIN flight = 1..Len(flight)
        /\ Len(flight) \in Nat /\ Len(flight') \in Nat
    <3>1. flight \in Seq(Int) /\ DOMAIN flight = 1..Len(flight) /\ Len(flight) \in Nat
      OBVIOUS
    <3> HIDE DEF TypeInv
    <3>2. /\ DOMAIN place = 1..Len(flight') /\ flight' \in Seq(Int)
          /\ \A k \in DOMAIN place : place[k] \in DOMAIN flight
          /\ \A j, k \in DOMAIN place : j < k => place[j] < place[k]
      BY <2>1, <3>1, KeptSeq
    <3>3. Len(flight') \in Nat /\ DOMAIN flight' = DOMAIN place
      BY <2>1, <3>2
    <3>4. \A k \in DOMAIN place : flight'[k] = flight[place[k]]
      BY <2>1
    <3> QED
      BY <3>1, <3>2, <3>3, <3>4
  <2>0. \A t \in Tables : Watched(t)' => Watched(t) /\ (conf.type = "postgresql" => slot >= 0)
    BY <2>2 DEF Watched, Renewed, CoveredInv
  <2> SUFFICES ASSUME NEW t \in Tables, Watched(t)', NEW i \in 1..Len(log), log[i] = t
               PROVE  Covered(t, i)'
    BY <2>2, <2>0 DEF CoveredInv
  <2>4. Covered(t, i)
    BY <2>0 DEF CoveredInv
  \* A change the stream had still to deliver is delivered by the next, or lost.
  <2>5. ASSUME i \in ToCome \/ \E n \in (DOMAIN flight) \ kept : flight[n] = i
        PROVE  Awaited(i)'
    <3>1. CASE i \in Lost(kept, lastCp)
      BY <2>1, <3>1 DEF Awaited
    <3>2. CASE i \notin Lost(kept, lastCp)
      <4>1. /\ conf.type = "postgresql" /\ ~(i <= slot) /\ ~(i <= lastCp)
            /\ \A n \in kept : ~(i <= flight[n])
        BY <2>5, <3>2 DEF Lost
      <4>2. \A k \in DOMAIN flight' : flight'[k] \in Int /\ ~(i <= flight'[k])
        BY <2>3, <4>1
      <4> QED
        BY <2>2, <4>1, <4>2 DEF Awaited
    <3> QED
      BY <3>1, <3>2
  <2>6. Awaited(i) => Awaited(i)'
    <3>1. CASE i \in unwatched \cup dropped
      BY <2>1, <2>2, <3>1 DEF Awaited
    <3>2. CASE i >= next
      BY <2>2, <2>5, <3>2 DEF ToCome
    <3> QED
      BY <2>2, <3>1, <3>2 DEF Awaited
  <2>7. ASSUME NEW m \in Nat, NEW j \in DOMAIN place, place[j] = m, Follows(i, m)
        PROVE  Awaited(i)' \/ Follows(i, j)'
    <3>1. PICK n \in DOMAIN flight : n > m /\ flight[n] = i
      BY <2>7 DEF Follows
    <3>2. CASE n \in kept
      <4>1. PICK k \in DOMAIN place : place[k] = n
        BY <3>2
      <4>2. place[k] > place[j]
        <5> HIDE DEF TypeInv, kept
        <5> QED
          BY <2>7, <3>1, <4>1
      <4>3. j \in Nat /\ k \in Nat
        <5> HIDE DEF TypeInv, kept
        <5> QED
          BY <2>3, <4>1
      <4>4. k > j
        <5> HIDE DEF TypeInv, kept
        <5>1. place[j] \in Nat /\ place[k] \in Nat
          BY <2>3, <4>1
        <5>2. k < j => place[k] < place[j]
          BY <2>3, <4>1
        <5>3. k = j => place[k] = place[j]
          OBVIOUS
        <5> QED
          BY <4>2, <4>3, <5>1, <5>2, <5>3
      <4> QED
        BY <2>3, <3>1, <4>1, <4>4 DEF Follows
    <3>3. CASE n \notin kept
      BY <2>5, <3>1, <3>3
    <3> QED
      BY <3>2, <3>3
  <2> HIDE DEF TypeInv, kept
  <2>8. doc'[t] < i => Awaited(i)' \/ Follows(i, 0)'
    <3>1. Follows(i, 0) => Awaited(i)' \/ Follows(i, 0)'
      <4> SUFFICES ASSUME NEW n \in DOMAIN flight, flight[n] = i
                   PROVE  Awaited(i)' \/ Follows(i, 0)'
        BY DEF Follows
      <4>1. CASE n \in kept
        <5>1. PICK k \in DOMAIN place : place[k] = n
          BY <4>1 DEF kept
        <5>2. k > 0 /\ flight'[k] = i
          BY <2>3, <5>1
        <5> QED
          BY <2>3, <5>1, <5>2 DEF Follows
      <4>2. CASE n \notin kept
        BY <2>5, <4>2
      <4> QED
        BY <4>1, <4>2
    <3>2. doc[t] < i => Awaited(i) \/ Follows(i, 0)
      BY <2>4 DEF Covered
    <3> QED
      BY <2>2, <2>6, <3>1, <3>2
  <2>9. ASSUME NEW k \in DOMAIN flight', log'[flight'[k]] = t, flight'[k] < i
        PROVE  Awaited(i)' \/ Follows(i, k)'
    <3>1. k \in DOMAIN place /\ place[k] \in DOMAIN flight /\ flight'[k] = flight[place[k]]
          /\ k \in Nat /\ place[k] \in Nat
      BY <2>3
    <3>2. Awaited(i) \/ Follows(i, place[k])
      BY <2>2, <2>4, <2>9, <3>1 DEF Covered
    <3> QED
      BY <2>6, <2>7, <3>1, <3>2
  <2> QED
    BY <2>4, <2>8, <2>9 DEF Covered
<1>17. CASE ServerReleases
  <2>1. /\ UNCHANGED <<conf, log, flight, doc, pc, todo, lastCp, slot, next, readAt, dropped, unwatched, unread>>
        /\ pc # "streaming"
    BY <1>17 DEF ServerReleases, source, lost, history
  <2>2. \A t \in Tables : Watched(t)' =>
          /\ Watched(t) /\ doc'[t] = doc[t]
          /\ conf.type = "postgresql" /\ slot >= 0 => slot' >= 0
    BY <2>1 DEF Watched, Renewed
  <2>3. \A t \in Tables : Watched(t)' => \A i \in 1..Len(log) : Awaited(i) => Awaited(i)'
    BY <2>1, <2>2 DEF Awaited
  <2> QED
    BY <2>1, <2>2, <2>3, CoveredFrame
<1>18. CASE Crash
  <2>1. /\ UNCHANGED <<conf, log, slot, doc, readAt, unwatched, unread>>
        /\ pc' = "run" /\ lastCp' = -1 /\ flight' = <<>>
        /\ dropped' = dropped \cup Lost({}, -1)
    BY <1>18 DEF Crash, source
  <2>0. \A t \in Tables : Watched(t)' => Watched(t) /\ (conf.type = "postgresql" => slot >= 0)
    BY <2>1 DEF Watched, Renewed, CoveredInv
  <2> SUFFICES ASSUME NEW t \in Tables, Watched(t)', NEW i \in 1..Len(log), log[i] = t
               PROVE  Covered(t, i)'
    BY <2>1, <2>0 DEF CoveredInv
  <2>2. Covered(t, i)
    BY <2>0 DEF CoveredInv
  \* A change in memory, or to come, is delivered from the slot again, or lost.
  <2>3. ASSUME i \in ToCome \/ \E n \in DOMAIN flight : flight[n] = i
        PROVE  Awaited(i)'
    <3>1. CASE i \in Lost({}, -1)
      BY <2>1, <3>1 DEF Awaited
    <3>2. CASE i \notin Lost({}, -1)
      <4>1. conf.type = "postgresql" /\ ~(i <= slot)
        BY <2>3, <3>2 DEF Lost
      <4> QED
        BY <2>1, <4>1 DEF Awaited
    <3> QED
      BY <3>1, <3>2
  <2>4. Awaited(i) => Awaited(i)'
    <3>1. CASE i \in unwatched \cup dropped
      BY <2>1, <3>1 DEF Awaited
    <3>2. CASE pc = "streaming" /\ i >= next
      BY <2>3, <3>2 DEF ToCome
    <3>3. CASE conf.type = "postgresql" /\ i > slot
      BY <2>1, <3>3 DEF Awaited
    <3> QED
      BY <3>1, <3>2, <3>3 DEF Awaited
  <2>5. doc[t] < i => Awaited(i)'
    BY <2>2, <2>3, <2>4 DEF Covered, Follows
  <2> HIDE DEF TypeInv
  <2> QED
    BY <2>1, <2>2, <2>5 DEF Covered
<1> QED
  BY <1>1, <1>2, <1>3, <1>4, <1>5, <1>6, <1>7, <1>8, <1>9, <1>10,
     <1>11, <1>12, <1>13, <1>14, <1>15, <1>16, <1>17, <1>18 DEF Next, JobStep

\* A sync that ends has seen every table.
LEMMA ExplainedStep ==
    ASSUME TypeInv, StageInv, ExplainedInv, [Next]_vars
    PROVE  ExplainedInv'
<1>0. todo \in Seq(Tables)
  BY DEF TypeInv
<1> USE JobAssumption DEF TypeInv, StageInv, ExplainedInv, Explained, ShouldForceInitialSync, HasValidCheckpoint
<1>1. CASE UNCHANGED vars
  BY <1>1 DEF vars
<1>2. CASE SourceChange
  BY <1>2 DEF SourceChange, lost, history
<1>3. CASE Run
  BY <1>3 DEF Run, source, lost, history, NeedsInitialSync, HasData, Tables
<1>4. CASE PerformInitialSync
  BY <1>4 DEF PerformInitialSync, source, lost, Dies, Parallel
<1>5. CASE SnapshotTable
  <2> SUFFICES ASSUME NEW t \in Tables
               PROVE  Explained(t)' \/ \E n \in DOMAIN todo' : todo'[n] = t
    BY <1>5 DEF SnapshotTable, Begins
  <2>1. /\ todo # <<>> /\ todo' = Tail(todo) /\ Head(todo) \in Tables /\ Len(log) \in Nat
        /\ UNCHANGED <<conf, interrupted>>
    BY <1>5, HeadTail DEF SnapshotTable, Begins, source
  <2>2. CASE t = Head(todo)
    BY <1>5, <2>1, <2>2 DEF SnapshotTable, Begins, Copied
  <2>3. CASE t # Head(todo) /\ Explained(t)
    BY <1>5, <2>1, <2>3 DEF SnapshotTable, Begins, Copied
  <2>4. CASE t # Head(todo) /\ \E n \in DOMAIN todo : todo[n] = t
    <3> HIDE DEF TypeInv, StageInv, ExplainedInv, Explained
    <3>1. \E m \in DOMAIN Tail(todo) : Tail(todo)[m] = t
      BY <1>0, <2>1, <2>4, Rest
    <3> QED
      BY <2>1, <3>1
  <2> QED
    BY <1>5, <2>2, <2>3, <2>4 DEF SnapshotTable, Begins
<1>6. CASE SnapshotForeign
  <2> SUFFICES ASSUME NEW t \in Tables
               PROVE  Explained(t)' \/ \E n \in DOMAIN todo' : todo'[n] = t
    BY <1>6 DEF SnapshotForeign, Begins
  <2>1. /\ todo # <<>> /\ todo' = Tail(todo) /\ Head(todo) \in Tables /\ Len(log) \in Nat
        /\ UNCHANGED <<conf, interrupted>>
    BY <1>6, HeadTail DEF SnapshotForeign, Begins, source
  <2>2. CASE t = Head(todo)
    BY <1>6, <2>1, <2>2 DEF SnapshotForeign, Begins
  <2>3. CASE t # Head(todo) /\ Explained(t)
    BY <1>6, <2>1, <2>3 DEF SnapshotForeign, Begins
  <2>4. CASE t # Head(todo) /\ \E n \in DOMAIN todo : todo[n] = t
    <3> HIDE DEF TypeInv, StageInv, ExplainedInv, Explained
    <3>1. \E m \in DOMAIN Tail(todo) : Tail(todo)[m] = t
      BY <1>0, <2>1, <2>4, Rest
    <3> QED
      BY <2>1, <3>1
  <2> QED
    BY <1>6, <2>2, <2>3, <2>4 DEF SnapshotForeign, Begins
<1>7. CASE SnapshotShort
  <2> SUFFICES ASSUME NEW t \in Tables
               PROVE  Explained(t)' \/ \E n \in DOMAIN todo' : todo'[n] = t
    BY <1>7 DEF SnapshotShort, Begins
  <2>1. /\ todo # <<>> /\ todo' = Tail(todo) /\ Head(todo) \in Tables /\ Len(log) \in Nat
        /\ UNCHANGED <<conf, interrupted>>
    BY <1>7, HeadTail DEF SnapshotShort, Begins, source
  <2>2. CASE t = Head(todo)
    BY <1>7, <2>1, <2>2 DEF SnapshotShort, Begins
  <2>3. CASE t # Head(todo) /\ Explained(t)
    BY <1>7, <2>1, <2>3 DEF SnapshotShort, Begins
  <2>4. CASE t # Head(todo) /\ \E n \in DOMAIN todo : todo[n] = t
    <3> HIDE DEF TypeInv, StageInv, ExplainedInv, Explained
    <3>1. \E m \in DOMAIN Tail(todo) : Tail(todo)[m] = t
      BY <1>0, <2>1, <2>4, Rest
    <3> QED
      BY <2>1, <3>1
  <2> QED
    BY <1>7, <2>2, <2>3, <2>4 DEF SnapshotShort, Begins
<1>8. CASE SnapshotFails
  BY <1>8 DEF SnapshotFails, Dies, source, lost
<1>9. CASE SnapshotDone
  BY <1>9 DEF SnapshotDone, source, lost, history
<1>10. CASE ParallelCopy
  <2> SUFFICES ASSUME NEW t \in Tables
               PROVE  Explained(t)' \/ \E n \in DOMAIN todo' : todo'[n] = t
    BY <1>10 DEF ParallelCopy
  <2>1. /\ todo # <<>> /\ todo' = Tail(todo) /\ Head(todo) \in Tables /\ Len(log) \in Nat
        /\ UNCHANGED <<conf, interrupted>>
    BY <1>10, HeadTail DEF ParallelCopy, source
  <2>2. CASE t = Head(todo)
    BY <1>10, <2>1, <2>2 DEF ParallelCopy, Copied
  <2>3. CASE t # Head(todo) /\ Explained(t)
    BY <1>10, <2>1, <2>3 DEF ParallelCopy, Copied
  <2>4. CASE t # Head(todo) /\ \E n \in DOMAIN todo : todo[n] = t
    <3> HIDE DEF TypeInv, StageInv, ExplainedInv, Explained
    <3>1. \E m \in DOMAIN Tail(todo) : Tail(todo)[m] = t
      BY <1>0, <2>1, <2>4, Rest
    <3> QED
      BY <2>1, <3>1
  <2> QED
    BY <1>10, <2>2, <2>3, <2>4 DEF ParallelCopy
<1>11. CASE StartCDC
  BY <1>11 DEF StartCDC, source, lost, history
<1>12. CASE StartFails
  BY <1>12 DEF StartFails, source, lost, history
<1>13. CASE Receive
  BY <1>13 DEF Receive, source, lost, history
<1>14. CASE Handle
  BY <1>14 DEF Handle, Write, ChunkCheckpoint, CommitCheckpoint, source, lost, history
<1>15. CASE Acknowledge
  BY <1>15 DEF Acknowledge, source, lost, history
<1>16. CASE StreamEnds
  BY <1>16 DEF StreamEnds, source, lost
<1>17. CASE ServerReleases
  BY <1>17 DEF ServerReleases, source, lost, history
<1>18. CASE Crash
  <2> SUFFICES ASSUME NEW t \in Tables, entry' # "none" \/ \E u \in Tables : doc[u] # Absent
               PROVE  Explained(t)'
    BY <1>18 DEF Crash
  <2>1. CASE pc \in {"sync", "table", "parallel"}
    BY <1>18, <2>1 DEF Crash
  <2>2. CASE pc \in {"cdc", "streaming", "dead"}
    BY <1>18, <2>2 DEF Crash, source
  <2>3. CASE pc = "run"
    BY <1>18, <2>3 DEF Crash, source
  <2> QED
    BY <2>1, <2>2, <2>3 DEF Stages
<1> QED
  BY <1>1, <1>2, <1>3, <1>4, <1>5, <1>6, <1>7, <1>8, <1>9, <1>10,
     <1>11, <1>12, <1>13, <1>14, <1>15, <1>16, <1>17, <1>18 DEF Next, JobStep

\* The invariant holds initially and every step keeps it.
LEMMA Invariant == Spec => []Inv
<1>1. Init => Inv
  <2> SUFFICES ASSUME Init PROVE Inv
    OBVIOUS
  <2>1. TypeInv
    <3>1. /\ conf \in Confs /\ pc \in Stages /\ entry \in {"none", "valid", "torn"}
          /\ interrupted \in BOOLEAN /\ unread \subseteq Tables
      BY Zenon DEF Init, Stages
    <3>2. /\ log \in Seq(Tables) /\ todo \in Seq(Tables) /\ flight \in Seq(Int)
          /\ doc \in [Tables -> Int] /\ readAt \in [Tables -> Int]
          /\ lastCp \in Int /\ slot \in Int /\ next \in Int
      BY DEF Init, Absent
    <3> QED
      BY <3>1, <3>2 DEF TypeInv
  <2>2. StageInv /\ PositionInv
    BY DEF Init, StageInv, PositionInv, Absent
  <2>3. CoveredInv /\ ExplainedInv
    BY DEF Init, CoveredInv, Watched, ExplainedInv, Absent
  <2> QED
    BY <2>1, <2>2, <2>3 DEF Inv
<1>2. Inv /\ [Next]_vars => Inv'
  BY TypeStep, StageStep, PositionStep, CoveredStep, ExplainedStep DEF Inv
<1> QED
  BY <1>1, <1>2, PTL DEF Spec

-----------------------------------------------------------------------------
\* With nothing in flight, a watched document is current or its last change is
\* awaited.
LEMMA CurrentOrAwaited ==
    ASSUME Inv, flight = <<>>, NEW t \in Tables, Watched(t)
    PROVE  /\ Version(t) \in 0..Len(log) /\ Len(log) \in Nat
           /\ doc[t] = Version(t) \/ Awaited(Version(t))
<1>1. /\ log \in Seq(Tables) /\ Len(log) \in Nat /\ doc[t] \in Int /\ doc[t] >= 0
      /\ doc[t] > 0 => doc[t] \in 1..Len(log) /\ log[doc[t]] = t
  BY DEF Inv, TypeInv, PositionInv, Watched
<1>2. /\ Version(t) \in 0..Len(log)
      /\ Version(t) > 0 => log[Version(t)] = t
      /\ \A i \in 1..Len(log) : log[i] = t => i <= Version(t)
  BY <1>1, VersionFacts
<1>3. doc[t] <= Version(t)
  BY <1>1, <1>2
<1>4. CASE doc[t] < Version(t)
  <2>1. Version(t) \in 1..Len(log) /\ log[Version(t)] = t
    BY <1>1, <1>2, <1>4
  <2>2. Covered(t, Version(t))
    BY <2>1 DEF Inv, CoveredInv
  <2>3. ~Follows(Version(t), 0)
    BY DEF Follows
  <2> QED
    BY <1>1, <1>2, <1>4, <2>2, <2>3 DEF Covered
<1> QED
  BY <1>1, <1>2, <1>3, <1>4

\* MySQL and MongoDB: a stream that has caught up leaves a copied table behind
\* only by a change made while no stream was up, or one that was in memory when
\* a process or a stream ended.
THEOREM StaleOnlyIfMissedHolds == Spec => []StaleOnlyIfMissed
<1>1. Inv => StaleOnlyIfMissed
  <2> SUFFICES ASSUME Inv, CaughtUp, conf.type # "postgresql", NEW t \in Tables, readAt[t] >= 0
               PROVE  doc[t] = Version(t) \/ Version(t) \in unwatched \cup dropped
    BY DEF StaleOnlyIfMissed
  <2>1. flight = <<>> /\ Watched(t)
    BY DEF CaughtUp, Watched
  <2>2. /\ Version(t) \in 0..Len(log) /\ Len(log) \in Nat
        /\ doc[t] = Version(t) \/ Awaited(Version(t))
    BY <2>1, CurrentOrAwaited
  <2>3. ~(Version(t) >= next)
    BY <2>2 DEF CaughtUp, Inv, TypeInv
  <2> QED
    BY <2>2, <2>3 DEF Awaited, CaughtUp
<1> QED
  BY <1>1, Invariant, PTL

\* PostgreSQL: between copy and stream, over any number of restarts, forced copies
\* and ends of the stream, a change is lost only if it was in flight when what is
\* in memory was dropped, and the slot or the checkpoint had passed it.
THEOREM PostgresLosesOnlyInFlightHolds == Spec => []PostgresLosesOnlyInFlight
<1>1. Inv => PostgresLosesOnlyInFlight
  <2> SUFFICES ASSUME Inv, CaughtUp, conf.type = "postgresql", NEW t \in Tables, readAt[t] >= 0,
                      t \notin unread
               PROVE  doc[t] = Version(t) \/ Version(t) \in dropped
    BY DEF PostgresLosesOnlyInFlight
  <2>1. flight = <<>> /\ Watched(t)
    BY DEF CaughtUp, Watched, Renewed
  <2>2. /\ Version(t) \in 0..Len(log) /\ Len(log) \in Nat
        /\ doc[t] = Version(t) \/ Awaited(Version(t))
    BY <2>1, CurrentOrAwaited
  <2>3. ~(Version(t) >= next)
    BY <2>2 DEF CaughtUp, Inv, TypeInv
  <2>4. unwatched = {}
    BY DEF Inv, StageInv
  <2> QED
    BY <2>2, <2>3, <2>4 DEF Awaited, CaughtUp
<1> QED
  BY <1>1, Invariant, PTL

\* Streaming an uncopied table has one of the known reasons.
THEOREM UncopiedIsExplainedHolds == Spec => []UncopiedIsExplained
<1>1. Inv => UncopiedIsExplained
  BY DEF Inv, ExplainedInv, Explained, UncopiedIsExplained
<1> QED
  BY <1>1, Invariant, PTL

=============================================================================
