---------------------------- MODULE SourceProofs -----------------------------
(***************************************************************************)
(* Proofs about the source side.                                           *)
(*                                                                         *)
(* PgSlots: for any number of jobs and tables, any filters and any number  *)
(* of failures and crashes.                                                *)
(*                                                                         *)
(* EventPath: for any keys, rows and transform engine, and any number of   *)
(* changes, broken streams and failed calls.                               *)
(***************************************************************************)
EXTENDS PgSlots, EventPath, FiniteSetTheorems, SequenceTheorems, TLAPS

-----------------------------------------------------------------------------
(* PgSlots: the inductive invariant.                                       *)

TypeInv ==
    /\ wal \in Nat /\ wal <= MaxWal
    /\ slot \in [Jobs -> Nat]
    /\ active \in [Jobs -> BOOLEAN]
    /\ pc \in [Jobs -> Step]
    /\ todo \in [Jobs -> SUBSET (Tables \cup Jobs)]
    /\ left \in [Jobs -> SUBSET Tables]
    /\ lsn \in [Jobs -> Nat]
    /\ cp \in [Jobs -> Nat]
    /\ covered \in [Jobs -> Nat]
    /\ file \in [Jobs -> Nat]
    /\ view \in [Jobs -> [Jobs -> Nat]]
    /\ committed \in [Jobs -> Nat]

\* Past createPublication, all tables of the job are published; before, what
\* it read to be missing and what is published by now make up its filters.
PublishedInv ==
    /\ ~pubExists => pub = {}
    /\ \A j \in Jobs :
        /\ pc[j] \in Step \ {"publication", "create_pub", "publish", "dead"} =>
             pubExists /\ Filters[j] \subseteq pub
        /\ pc[j] = "publish" => pubExists /\ Filters[j] \subseteq pub \cup todo[j]
        /\ pc[j] = "create_pub" => Filters[j] \subseteq todo[j]

\* Positions lie in the log; a stream holds its slot; nobody lists its own slot
\* for the cleanup, nor makes a slot it has.
SlotInv ==
    \A j \in Jobs :
        /\ slot[j] <= wal \/ slot[j] = Gone
        /\ covered[j] <= wal \/ covered[j] = Gone
        /\ lsn[j] <= wal /\ cp[j] <= wal
        /\ pc[j] = "streaming" => slot[j] # Gone /\ active[j] /\ covered[j] <= wal
        /\ pc[j] = "drop" => todo[j] \subseteq Jobs \ {j}
        /\ pc[j] = "create" => slot[j] = Gone
        /\ covered[j] = Gone => cp[j] = 0

\* As long as nobody drops the slot of a job, it exists from the first copy on,
\* and neither the slot nor a position the job would start from is ahead of
\* what is copied or streamed.
CoverInv ==
    \A j \in Jobs \ robbed :
        /\ pc[j] = "copy" => slot[j] # Gone
        /\ covered[j] # Gone =>
             slot[j] <= covered[j] /\ cp[j] <= covered[j] /\ lsn[j] <= covered[j]

Inv == TypeInv /\ PublishedInv /\ SlotInv /\ CoverInv
       /\ NoGapUnlessRobbed /\ EntryIsLastCommit

-----------------------------------------------------------------------------
\* Every step keeps the types.
LEMMA TypeStep ==
    ASSUME TypeInv, [Next]_vars
    PROVE  TypeInv'
<1> USE PgAssumption DEF TypeInv, Gone, Empty, Unread, Step, OnError, AfterSlot, Larger
<1>1. CASE UNCHANGED vars
  BY <1>1 DEF vars, cpFile, server
<1>2. CASE SourceCommit
  BY <1>2 DEF SourceCommit, cpFile
<1>3. CASE Crash
  BY <1>3 DEF Crash, server
<1>4. ASSUME NEW j \in Jobs, ReadPublication(j) PROVE TypeInv'
  BY <1>4 DEF ReadPublication, Goto, server, cpFile, Wanted
<1>5. ASSUME NEW j \in Jobs, CreatePublication(j) PROVE TypeInv'
  BY <1>5 DEF CreatePublication, Goto, cpFile
<1>6. ASSUME NEW j \in Jobs, AlterPublication(j) PROVE TypeInv'
  BY <1>6 DEF AlterPublication, Goto, cpFile
<1>7. ASSUME NEW j \in Jobs, ListSlots(j) PROVE TypeInv'
  BY <1>7 DEF ListSlots, Goto, server, cpFile, StaleSlots
<1>8. ASSUME NEW j \in Jobs, DropSlot(j) PROVE TypeInv'
  <2> PICK k \in todo[j] :
          /\ todo' = [todo EXCEPT ![j] = @ \ {k}]
          /\ slot' = slot \/ slot' = [slot EXCEPT ![k] = Gone]
    BY <1>8 DEF DropSlot
  <2>1. todo' \in [Jobs -> SUBSET (Tables \cup Jobs)]
    OBVIOUS
  <2>2. slot' \in [Jobs -> Nat]
    OBVIOUS
  <2> QED
    BY <1>8, <2>1, <2>2 DEF DropSlot, cpFile
<1>9. ASSUME NEW j \in Jobs, CheckSlot(j) PROVE TypeInv'
  BY <1>9 DEF CheckSlot, Goto, server, cpFile
<1>10. ASSUME NEW j \in Jobs, ResumeSlot(j) PROVE TypeInv'
  BY <1>10 DEF ResumeSlot, Goto, server, cpFile
<1>11. ASSUME NEW j \in Jobs, CreateSlot(j) PROVE TypeInv'
  BY <1>11 DEF CreateSlot, Goto, cpFile
<1>12. ASSUME NEW j \in Jobs, CopyTable(j) PROVE TypeInv'
  BY <1>12 DEF CopyTable, Goto, server, cpFile
<1>13. ASSUME NEW j \in Jobs, VerifySlot(j) PROVE TypeInv'
  BY <1>13 DEF VerifySlot, Goto, server, cpFile
<1>14. ASSUME NEW j \in Jobs, StartReplication(j) PROVE TypeInv'
  <2> DEFINE from == Larger(IF cp[j] > 0 THEN cp[j] ELSE lsn[j], slot[j])
  <2>1. from \in Nat
    OBVIOUS
  <2> HIDE DEF from
  <2>2. slot' \in [Jobs -> Nat] /\ covered' \in [Jobs -> Nat]
    BY <1>14, <2>1 DEF StartReplication, from
  <2>3. active' \in [Jobs -> BOOLEAN] /\ pc' \in [Jobs -> Step]
    BY <1>14 DEF StartReplication, Goto
  <2> QED
    BY <1>14, <2>2, <2>3 DEF StartReplication, cpFile
<1>15. ASSUME NEW j \in Jobs, Receive(j) PROVE TypeInv'
  BY <1>15 DEF Receive, server, cpFile
<1>16. ASSUME NEW j \in Jobs, Confirm(j) PROVE TypeInv'
  BY <1>16 DEF Confirm, cpFile
<1>17. ASSUME NEW j \in Jobs, StreamBreaks(j) PROVE TypeInv'
  BY <1>17 DEF StreamBreaks, Goto, server, cpFile
<1>18. ASSUME NEW j \in Jobs, ServerReleases(j) PROVE TypeInv'
  BY <1>18 DEF ServerReleases, cpFile
<1>19. ASSUME NEW j \in Jobs, LoadCheckpoints(j) PROVE TypeInv'
  BY <1>19 DEF LoadCheckpoints, server
<1>20. ASSUME NEW j \in Jobs, WriteCheckpoints(j) PROVE TypeInv'
  BY <1>20 DEF WriteCheckpoints, server
<1> QED
  BY <1>1, <1>2, <1>3, <1>4, <1>5, <1>6, <1>7, <1>8, <1>9, <1>10, <1>11, <1>12, <1>13, <1>14, <1>15, <1>16, <1>17, <1>18, <1>19, <1>20 DEF Next, JobStep

\* The publication only grows, and every job adds what it lacks.
LEMMA PublishedStep ==
    ASSUME TypeInv, PublishedInv, [Next]_vars
    PROVE  PublishedInv'
<1> USE PgAssumption DEF TypeInv, Step, PublishedInv, OnError, AfterSlot
<1>1. CASE UNCHANGED vars
  BY <1>1 DEF vars, cpFile, server
<1>2. CASE SourceCommit
  BY <1>2 DEF SourceCommit, cpFile
<1>3. CASE Crash
  BY <1>3 DEF Crash, server
<1>4. ASSUME NEW j \in Jobs, ReadPublication(j) PROVE PublishedInv'
  BY <1>4 DEF ReadPublication, Goto, server, cpFile, Wanted
<1>5. ASSUME NEW j \in Jobs, CreatePublication(j) PROVE PublishedInv'
  BY <1>5 DEF CreatePublication, Goto, cpFile
<1>6. ASSUME NEW j \in Jobs, AlterPublication(j) PROVE PublishedInv'
  BY <1>6 DEF AlterPublication, Goto, cpFile
<1>7. ASSUME NEW j \in Jobs, ListSlots(j) PROVE PublishedInv'
  BY <1>7 DEF ListSlots, Goto, server, cpFile
<1>8. ASSUME NEW j \in Jobs, DropSlot(j) PROVE PublishedInv'
  BY <1>8 DEF DropSlot, cpFile
<1>9. ASSUME NEW j \in Jobs, CheckSlot(j) PROVE PublishedInv'
  BY <1>9 DEF CheckSlot, Goto, server, cpFile
<1>10. ASSUME NEW j \in Jobs, ResumeSlot(j) PROVE PublishedInv'
  BY <1>10 DEF ResumeSlot, Goto, server, cpFile
<1>11. ASSUME NEW j \in Jobs, CreateSlot(j) PROVE PublishedInv'
  BY <1>11 DEF CreateSlot, Goto, cpFile
<1>12. ASSUME NEW j \in Jobs, CopyTable(j) PROVE PublishedInv'
  BY <1>12 DEF CopyTable, Goto, server, cpFile
<1>13. ASSUME NEW j \in Jobs, VerifySlot(j) PROVE PublishedInv'
  BY <1>13 DEF VerifySlot, Goto, server, cpFile
<1>14. ASSUME NEW j \in Jobs, StartReplication(j) PROVE PublishedInv'
  BY <1>14 DEF StartReplication, Goto, cpFile
<1>15. ASSUME NEW j \in Jobs, Receive(j) PROVE PublishedInv'
  BY <1>15 DEF Receive, server, cpFile
<1>16. ASSUME NEW j \in Jobs, Confirm(j) PROVE PublishedInv'
  BY <1>16 DEF Confirm, cpFile
<1>17. ASSUME NEW j \in Jobs, StreamBreaks(j) PROVE PublishedInv'
  BY <1>17 DEF StreamBreaks, Goto, server, cpFile
<1>18. ASSUME NEW j \in Jobs, ServerReleases(j) PROVE PublishedInv'
  BY <1>18 DEF ServerReleases, cpFile
<1>19. ASSUME NEW j \in Jobs, LoadCheckpoints(j) PROVE PublishedInv'
  BY <1>19 DEF LoadCheckpoints, server
<1>20. ASSUME NEW j \in Jobs, WriteCheckpoints(j) PROVE PublishedInv'
  BY <1>20 DEF WriteCheckpoints, server
<1> QED
  BY <1>1, <1>2, <1>3, <1>4, <1>5, <1>6, <1>7, <1>8, <1>9, <1>10, <1>11, <1>12, <1>13, <1>14, <1>15, <1>16, <1>17, <1>18, <1>19, <1>20 DEF Next, JobStep

\* The server refuses to drop an active slot; positions only come from the log.
LEMMA SlotStep ==
    ASSUME TypeInv, SlotInv, [Next]_vars
    PROVE  SlotInv'
<1> USE PgAssumption DEF TypeInv, Gone, Empty, Step, SlotInv, OnError, AfterSlot, Larger
<1>1. CASE UNCHANGED vars
  BY <1>1 DEF vars, cpFile, server
<1>2. CASE SourceCommit
  BY <1>2 DEF SourceCommit, cpFile
<1>3. CASE Crash
  BY <1>3 DEF Crash, server
<1>4. ASSUME NEW j \in Jobs, ReadPublication(j) PROVE SlotInv'
  BY <1>4 DEF ReadPublication, Goto, server, cpFile
<1>5. ASSUME NEW j \in Jobs, CreatePublication(j) PROVE SlotInv'
  BY <1>5 DEF CreatePublication, Goto, cpFile
<1>6. ASSUME NEW j \in Jobs, AlterPublication(j) PROVE SlotInv'
  BY <1>6 DEF AlterPublication, Goto, cpFile
<1>7. ASSUME NEW j \in Jobs, ListSlots(j) PROVE SlotInv'
  BY <1>7 DEF ListSlots, Goto, server, cpFile, StaleSlots
<1>8. ASSUME NEW j \in Jobs, DropSlot(j) PROVE SlotInv'
  BY <1>8 DEF DropSlot, cpFile
<1>9. ASSUME NEW j \in Jobs, CheckSlot(j) PROVE SlotInv'
  BY <1>9 DEF CheckSlot, Goto, server, cpFile
<1>10. ASSUME NEW j \in Jobs, ResumeSlot(j) PROVE SlotInv'
  BY <1>10 DEF ResumeSlot, Goto, server, cpFile
<1>11. ASSUME NEW j \in Jobs, CreateSlot(j) PROVE SlotInv'
  BY <1>11 DEF CreateSlot, Goto, cpFile
<1>12. ASSUME NEW j \in Jobs, CopyTable(j) PROVE SlotInv'
  BY <1>12 DEF CopyTable, Goto, server, cpFile
<1>13. ASSUME NEW j \in Jobs, VerifySlot(j) PROVE SlotInv'
  BY <1>13 DEF VerifySlot, Goto, server, cpFile
<1>14. ASSUME NEW j \in Jobs, StartReplication(j) PROVE SlotInv'
  BY <1>14 DEF StartReplication, Goto, cpFile
<1>15. ASSUME NEW j \in Jobs, Receive(j) PROVE SlotInv'
  BY <1>15 DEF Receive, server, cpFile
<1>16. ASSUME NEW j \in Jobs, Confirm(j) PROVE SlotInv'
  BY <1>16 DEF Confirm, cpFile
<1>17. ASSUME NEW j \in Jobs, StreamBreaks(j) PROVE SlotInv'
  BY <1>17 DEF StreamBreaks, Goto, server, cpFile
<1>18. ASSUME NEW j \in Jobs, ServerReleases(j) PROVE SlotInv'
  BY <1>18 DEF ServerReleases, cpFile
<1>19. ASSUME NEW j \in Jobs, LoadCheckpoints(j) PROVE SlotInv'
  BY <1>19 DEF LoadCheckpoints, server
<1>20. ASSUME NEW j \in Jobs, WriteCheckpoints(j) PROVE SlotInv'
  BY <1>20 DEF WriteCheckpoints, server
<1> QED
  BY <1>1, <1>2, <1>3, <1>4, <1>5, <1>6, <1>7, <1>8, <1>9, <1>10, <1>11, <1>12, <1>13, <1>14, <1>15, <1>16, <1>17, <1>18, <1>19, <1>20 DEF Next, JobStep

\* No step of the job itself takes slot or start position beyond what is covered.
LEMMA CoverStep ==
    ASSUME TypeInv, SlotInv, CoverInv, [Next]_vars
    PROVE  CoverInv'
<1> USE PgAssumption DEF TypeInv, Gone, Empty, Step, SlotInv, CoverInv, OnError, AfterSlot, Larger
<1>1. CASE UNCHANGED vars
  BY <1>1 DEF vars, cpFile, server
<1>2. CASE SourceCommit
  BY <1>2 DEF SourceCommit, cpFile
<1>3. CASE Crash
  BY <1>3 DEF Crash, server
<1>4. ASSUME NEW j \in Jobs, ReadPublication(j) PROVE CoverInv'
  BY <1>4 DEF ReadPublication, Goto, server, cpFile
<1>5. ASSUME NEW j \in Jobs, CreatePublication(j) PROVE CoverInv'
  BY <1>5 DEF CreatePublication, Goto, cpFile
<1>6. ASSUME NEW j \in Jobs, AlterPublication(j) PROVE CoverInv'
  BY <1>6 DEF AlterPublication, Goto, cpFile
<1>7. ASSUME NEW j \in Jobs, ListSlots(j) PROVE CoverInv'
  BY <1>7 DEF ListSlots, Goto, server, cpFile
<1>8. ASSUME NEW j \in Jobs, DropSlot(j) PROVE CoverInv'
  BY <1>8 DEF DropSlot, cpFile
<1>9. ASSUME NEW j \in Jobs, CheckSlot(j) PROVE CoverInv'
  BY <1>9 DEF CheckSlot, Goto, server, cpFile
<1>10. ASSUME NEW j \in Jobs, ResumeSlot(j) PROVE CoverInv'
  BY <1>10, SMTT(20) DEF ResumeSlot, Goto, server, cpFile
<1>11. ASSUME NEW j \in Jobs, CreateSlot(j) PROVE CoverInv'
  BY <1>11 DEF CreateSlot, Goto, cpFile
<1>12. ASSUME NEW j \in Jobs, CopyTable(j) PROVE CoverInv'
  BY <1>12 DEF CopyTable, Goto, server, cpFile
<1>13. ASSUME NEW j \in Jobs, VerifySlot(j) PROVE CoverInv'
  BY <1>13 DEF VerifySlot, Goto, server, cpFile
<1>14. ASSUME NEW j \in Jobs, StartReplication(j) PROVE CoverInv'
  BY <1>14 DEF StartReplication, Goto, cpFile
<1>15. ASSUME NEW j \in Jobs, Receive(j) PROVE CoverInv'
  BY <1>15 DEF Receive, server, cpFile
<1>16. ASSUME NEW j \in Jobs, Confirm(j) PROVE CoverInv'
  BY <1>16 DEF Confirm, cpFile
<1>17. ASSUME NEW j \in Jobs, StreamBreaks(j) PROVE CoverInv'
  BY <1>17 DEF StreamBreaks, Goto, server, cpFile
<1>18. ASSUME NEW j \in Jobs, ServerReleases(j) PROVE CoverInv'
  BY <1>18 DEF ServerReleases, cpFile
<1>19. ASSUME NEW j \in Jobs, LoadCheckpoints(j) PROVE CoverInv'
  BY <1>19 DEF LoadCheckpoints, server
<1>20. ASSUME NEW j \in Jobs, WriteCheckpoints(j) PROVE CoverInv'
  BY <1>20 DEF WriteCheckpoints, server
<1> QED
  BY <1>1, <1>2, <1>3, <1>4, <1>5, <1>6, <1>7, <1>8, <1>9, <1>10, <1>11, <1>12, <1>13, <1>14, <1>15, <1>16, <1>17, <1>18, <1>19, <1>20 DEF Next, JobStep

\* A stream that starts ahead of what is covered is that of a robbed job.
LEMMA GapStep ==
    ASSUME TypeInv, SlotInv, CoverInv, NoGapUnlessRobbed, [Next]_vars
    PROVE  NoGapUnlessRobbed'
<1> USE PgAssumption DEF TypeInv, Gone, SlotInv, CoverInv, NoGapUnlessRobbed, Larger
<1>1. CASE UNCHANGED vars
  BY <1>1 DEF vars, cpFile, server
<1>2. CASE SourceCommit
  BY <1>2 DEF SourceCommit, cpFile
<1>3. CASE Crash
  BY <1>3 DEF Crash, server
<1>4. ASSUME NEW j \in Jobs, ReadPublication(j) PROVE NoGapUnlessRobbed'
  BY <1>4 DEF ReadPublication, Goto, server, cpFile
<1>5. ASSUME NEW j \in Jobs, CreatePublication(j) PROVE NoGapUnlessRobbed'
  BY <1>5 DEF CreatePublication, Goto, cpFile
<1>6. ASSUME NEW j \in Jobs, AlterPublication(j) PROVE NoGapUnlessRobbed'
  BY <1>6 DEF AlterPublication, Goto, cpFile
<1>7. ASSUME NEW j \in Jobs, ListSlots(j) PROVE NoGapUnlessRobbed'
  BY <1>7 DEF ListSlots, Goto, server, cpFile
<1>8. ASSUME NEW j \in Jobs, DropSlot(j) PROVE NoGapUnlessRobbed'
  BY <1>8 DEF DropSlot, cpFile
<1>9. ASSUME NEW j \in Jobs, CheckSlot(j) PROVE NoGapUnlessRobbed'
  BY <1>9 DEF CheckSlot, Goto, server, cpFile
<1>10. ASSUME NEW j \in Jobs, ResumeSlot(j) PROVE NoGapUnlessRobbed'
  BY <1>10 DEF ResumeSlot, Goto, server, cpFile
<1>11. ASSUME NEW j \in Jobs, CreateSlot(j) PROVE NoGapUnlessRobbed'
  BY <1>11 DEF CreateSlot, Goto, cpFile
<1>12. ASSUME NEW j \in Jobs, CopyTable(j) PROVE NoGapUnlessRobbed'
  BY <1>12 DEF CopyTable, Goto, server, cpFile
<1>13. ASSUME NEW j \in Jobs, VerifySlot(j) PROVE NoGapUnlessRobbed'
  BY <1>13 DEF VerifySlot, Goto, server, cpFile
<1>14. ASSUME NEW j \in Jobs, StartReplication(j) PROVE NoGapUnlessRobbed'
  BY <1>14 DEF StartReplication, Goto, cpFile
<1>15. ASSUME NEW j \in Jobs, Receive(j) PROVE NoGapUnlessRobbed'
  BY <1>15 DEF Receive, server, cpFile
<1>16. ASSUME NEW j \in Jobs, Confirm(j) PROVE NoGapUnlessRobbed'
  BY <1>16 DEF Confirm, cpFile
<1>17. ASSUME NEW j \in Jobs, StreamBreaks(j) PROVE NoGapUnlessRobbed'
  BY <1>17 DEF StreamBreaks, Goto, server, cpFile
<1>18. ASSUME NEW j \in Jobs, ServerReleases(j) PROVE NoGapUnlessRobbed'
  BY <1>18 DEF ServerReleases, cpFile
<1>19. ASSUME NEW j \in Jobs, LoadCheckpoints(j) PROVE NoGapUnlessRobbed'
  BY <1>19 DEF LoadCheckpoints, server
<1>20. ASSUME NEW j \in Jobs, WriteCheckpoints(j) PROVE NoGapUnlessRobbed'
  BY <1>20 DEF WriteCheckpoints, server
<1> QED
  BY <1>1, <1>2, <1>3, <1>4, <1>5, <1>6, <1>7, <1>8, <1>9, <1>10, <1>11, <1>12, <1>13, <1>14, <1>15, <1>16, <1>17, <1>18, <1>19, <1>20 DEF Next, JobStep

\* A write puts back no entry but those it is recorded for.
LEMMA EntryStep ==
    ASSUME TypeInv, EntryIsLastCommit, [Next]_vars
    PROVE  EntryIsLastCommit'
<1> USE PgAssumption DEF TypeInv, Unread, Gone, EntryIsLastCommit
<1>1. CASE UNCHANGED vars
  BY <1>1 DEF vars, cpFile, server
<1>2. CASE SourceCommit
  BY <1>2 DEF SourceCommit, cpFile
<1>3. CASE Crash
  BY <1>3 DEF Crash, server
<1>4. ASSUME NEW j \in Jobs, ReadPublication(j) PROVE EntryIsLastCommit'
  BY <1>4 DEF ReadPublication, Goto, server, cpFile
<1>5. ASSUME NEW j \in Jobs, CreatePublication(j) PROVE EntryIsLastCommit'
  BY <1>5 DEF CreatePublication, Goto, cpFile
<1>6. ASSUME NEW j \in Jobs, AlterPublication(j) PROVE EntryIsLastCommit'
  BY <1>6 DEF AlterPublication, Goto, cpFile
<1>7. ASSUME NEW j \in Jobs, ListSlots(j) PROVE EntryIsLastCommit'
  BY <1>7 DEF ListSlots, Goto, server, cpFile
<1>8. ASSUME NEW j \in Jobs, DropSlot(j) PROVE EntryIsLastCommit'
  BY <1>8 DEF DropSlot, cpFile
<1>9. ASSUME NEW j \in Jobs, CheckSlot(j) PROVE EntryIsLastCommit'
  BY <1>9 DEF CheckSlot, Goto, server, cpFile
<1>10. ASSUME NEW j \in Jobs, ResumeSlot(j) PROVE EntryIsLastCommit'
  BY <1>10 DEF ResumeSlot, Goto, server, cpFile
<1>11. ASSUME NEW j \in Jobs, CreateSlot(j) PROVE EntryIsLastCommit'
  BY <1>11 DEF CreateSlot, Goto, cpFile
<1>12. ASSUME NEW j \in Jobs, CopyTable(j) PROVE EntryIsLastCommit'
  BY <1>12 DEF CopyTable, Goto, server, cpFile
<1>13. ASSUME NEW j \in Jobs, VerifySlot(j) PROVE EntryIsLastCommit'
  BY <1>13 DEF VerifySlot, Goto, server, cpFile
<1>14. ASSUME NEW j \in Jobs, StartReplication(j) PROVE EntryIsLastCommit'
  BY <1>14 DEF StartReplication, Goto, cpFile
<1>15. ASSUME NEW j \in Jobs, Receive(j) PROVE EntryIsLastCommit'
  BY <1>15 DEF Receive, server, cpFile
<1>16. ASSUME NEW j \in Jobs, Confirm(j) PROVE EntryIsLastCommit'
  BY <1>16 DEF Confirm, cpFile
<1>17. ASSUME NEW j \in Jobs, StreamBreaks(j) PROVE EntryIsLastCommit'
  BY <1>17 DEF StreamBreaks, Goto, server, cpFile
<1>18. ASSUME NEW j \in Jobs, ServerReleases(j) PROVE EntryIsLastCommit'
  BY <1>18 DEF ServerReleases, cpFile
<1>19. ASSUME NEW j \in Jobs, LoadCheckpoints(j) PROVE EntryIsLastCommit'
  BY <1>19 DEF LoadCheckpoints, server
<1>20. ASSUME NEW j \in Jobs, WriteCheckpoints(j) PROVE EntryIsLastCommit'
  BY <1>20 DEF WriteCheckpoints, server
<1> QED
  BY <1>1, <1>2, <1>3, <1>4, <1>5, <1>6, <1>7, <1>8, <1>9, <1>10, <1>11, <1>12, <1>13, <1>14, <1>15, <1>16, <1>17, <1>18, <1>19, <1>20 DEF Next, JobStep

\* The invariant holds initially and every step keeps it.
LEMMA Invariant == Spec => []Inv
<1>1. Init => Inv
  BY PgAssumption DEF Init, Inv, TypeInv, PublishedInv, SlotInv, CoverInv,
     NoGapUnlessRobbed, EntryIsLastCommit, Gone, Empty, Unread, Step
<1>2. Inv /\ [Next]_vars => Inv'
  BY TypeStep, PublishedStep, SlotStep, CoverStep, GapStep, EntryStep DEF Inv
<1> QED
  BY <1>1, <1>2, PTL DEF Spec

-----------------------------------------------------------------------------
\* However the statements of the jobs interleave, and whenever streams break and
\* the process dies: changes fall between copy and stream, or between two
\* streams, only for a job whose slot another job's cleanup has dropped.
THEOREM NoGapUnlessRobbedHolds == Spec => []NoGapUnlessRobbed
<1>1. Inv => NoGapUnlessRobbed
  BY DEF Inv
<1> QED
  BY <1>1, Invariant, PTL

\* A job that streams holds its slot, and all its tables are published, although
\* jobs look for what the publication lacks before they add it.
THEOREM StreamsWhatItAskedForHolds == Spec => []StreamsWhatItAskedFor
<1>1. Inv => StreamsWhatItAskedFor
  BY DEF Inv, StreamsWhatItAskedFor, PublishedInv, SlotInv, Step
<1> QED
  BY <1>1, Invariant, PTL

\* The checkpoint file holds every job's last commit, up to the two ways in
\* which SaveCheckpoint is known to lose one.
THEOREM EntryIsLastCommitHolds == Spec => []EntryIsLastCommit
<1>1. Inv => EntryIsLastCommit
  BY DEF Inv
<1> QED
  BY <1>1, Invariant, PTL

-----------------------------------------------------------------------------
(* EventPath: the inductive invariant.  The messages after the last        *)
(* confirmed position are read again when the stream is opened again, so   *)
(* the index may be ahead of the changes decoded: a document follows the   *)
(* table as some change at or after the decoded ones left it.              *)

\* The table after the q-th change.
TableAt(q) == IF q = 0 THEN [k \in Keys |-> None] ELSE log[q].after

\* Outside S a change leaves the table alone.
Elsewhere(pre, post, S) == \A k \in Keys \ S : post[k] = pre[k]

\* What a committed change says of the table before and after it.
InsertLogged(m, pre, post) ==
    /\ m.op = "INSERT"
    /\ m.key \in Keys /\ m.from = m.key
    /\ pre[m.key] = None /\ post[m.key] \in Rows
    /\ m.old = None /\ m.new = FullTuple(m.key, post[m.key])
    /\ Elsewhere(pre, post, {m.key})

UpdateLogged(m, pre, post) ==
    /\ m.op = "UPDATE"
    /\ m.key \in Keys /\ m.from \in Keys
    /\ pre[m.from] \in Rows /\ post[m.key] \in Rows
    /\ m.old # None => m.old = OldTuple(m.from, pre[m.from])
    /\ (m.key # m.from \/ ident = "full") => m.old # None
    /\ m.new = NewTuple(m.key, pre[m.from], post[m.key])
    /\ Elsewhere(pre, post, {m.key, m.from})

DeleteLogged(m, pre, post) ==
    /\ m.op = "DELETE"
    /\ m.key \in Keys /\ m.from = m.key
    /\ pre[m.key] \in Rows /\ post[m.key] = None
    /\ m.new = None /\ m.old = OldTuple(m.key, pre[m.key])
    /\ Elsewhere(pre, post, {m.key})

TruncateLogged(m, pre, post) ==
    /\ m.op = "TRUNCATE"
    /\ m.new = None /\ m.old = None
    /\ post = [k \in Keys |-> None]

Logged(m, pre, post) ==
    \/ InsertLogged(m, pre, post) \/ UpdateLogged(m, pre, post)
    \/ DeleteLogged(m, pre, post) \/ TruncateLogged(m, pre, post)

\* A sequence of some kind.
IsSeq(s) == s \in Seq({s[i] : i \in DOMAIN s})

\* The types, and how far the session is.
PathTypeInv ==
    /\ source \in {"postgresql", "mysql"}
    /\ ident \in IF source = "mysql" THEN {"default", "none"} ELSE {"default", "full"}
    /\ IsSeq(log) /\ Len(log) \in Nat
    /\ acked \in Nat /\ base \in Nat /\ sent \in Nat /\ done \in Nat
    /\ acked <= done /\ base <= done /\ done <= Len(log)
    /\ up \in BOOLEAN

\* Every change of the log leads from the table before it to the one after it.
LogInv ==
    /\ \A q \in 0..Len(log) : TableAt(q) \in [Keys -> Rows \cup {None}]
    /\ \A q \in 1..Len(log) : Logged(log[q], TableAt(q - 1), TableAt(q))
    /\ rows = TableAt(Len(log))

\* w messages of the session are read; the rest of the pieces sent is in the
\* buffer, or, cut at its marker, was taken for a message.
ReadUpTo(w, n) ==
    /\ sent = Pieces * w + n
    /\ w > 0 => parser.relation = KeyColumns
    /\ done = base + (IF w = 0 THEN 0 ELSE w - 1)
    /\ \/ parser.logicalBuf = [j \in 1..n |-> Piece(Pieces * w + j)]
       \/ parser.logicalBuf = << >> /\ n = 2

\* What the parser has made of the pieces sent.
ParserInv ==
    /\ DOMAIN parser = {"logicalBuf", "relation"}
    /\ source = "postgresql" /\ up =>
        /\ sent <= Available
        /\ \E w \in 0..(1 + Len(log)), n \in 0..2 : ReadUpTo(w, n)

\* The id of the document of a row, as the key columns give it.
IdOf(k, r) ==
    IF source = "mysql" THEN <<k>>
    ELSE [i \in DOMAIN KeyColumns |-> PrintedKey(FullTuple(k, r)[KeyColumns[i]])]

\* The data an event with the whole row r would carry.
RowDataOf(k, r) ==
    [c \in Columns |-> IF source = "mysql" THEN MySQLValue(c, FullTuple(k, r)[c]) ELSE PgValue(c, FullTuple(k, r)[c])]

\* The document of an id in the index dd, if there is one.
ShownIn(dd, id) == IF id \in DOMAIN dd THEN {dd[id].doc} ELSE {}

\* The document expected under the id of (k, r) after the q-th change.
ExpectedAt(k, r, q) ==
    IF TableAt(q)[k] = None \/ IdOf(k, TableAt(q)[k]) # IdOf(k, r) THEN {}
    ELSE DocumentOf(ApplyRules(RowDataOf(k, TableAt(q)[k])))

\* An update of key k that is still to come may have left its old image.
Pending(k, dn) ==
    \E i \in (dn + 1)..Len(log) : log[i].op = "UPDATE" /\ log[i].from = k /\ log[i].old # None

\* Messages are read again after a reconnect: the document is that of some table from the
\* change dn on, not always of the one at dn.
Follows(dd, k, r, dn) == \E q \in dn..Len(log) : ShownIn(dd, IdOf(k, r)) = ExpectedAt(k, r, q)

FollowsAll(dd, k, dn) == \A r \in Rows : Follows(dd, k, r, dn)

\* Every key without an excuse is in step, or an update of it is still to come.
Fit(dd, ex, dn) == \A k \in Keys : ex[k] = "none" => Pending(k, dn) \/ FollowsAll(dd, k, dn)

\* Every id in the index is that of a row, or made up.
Ids(dd) == \A id \in DOMAIN dd : id[1] = "" \/ \E k \in Keys, r \in Rows : id = IdOf(k, r)

\* The inductive invariant.
PathInv == PathTypeInv /\ LogInv /\ ParserInv /\ Ids(docs) /\ Fit(docs, excuse, done)

-----------------------------------------------------------------------------
\* No image of a row and no row is None.
LEMMA NotNone ==
    ASSUME NEW k, NEW o, NEW r
    PROVE  /\ FullTuple(k, r) # None /\ KeyTuple(k) # None
           /\ NewTuple(k, o, r) # None /\ OldTuple(k, r) # None
           /\ r \in Rows => r # None
<1>1. "id" \notin DOMAIN None BY DEF None
<1>2. "s" \notin DOMAIN None BY DEF None
<1>3. "id" \in DOMAIN FullTuple(k, r) BY DEF FullTuple, Columns
<1>4. "id" \in DOMAIN KeyTuple(k) BY DEF KeyTuple, Columns
<1>5. "id" \in DOMAIN NewTuple(k, o, r) BY DEF NewTuple, Columns
<1>6. r \in Rows => "s" \in DOMAIN r BY EventPathAssumption
<1> QED BY <1>1, <1>2, <1>3, <1>4, <1>5, <1>6 DEF OldTuple

\* Part j of message w of the session, message 0 being the RELATION message.
LEMMA PieceAt ==
    ASSUME base \in Nat, NEW w \in Nat, NEW j \in 1..3
    PROVE  /\ Piece(3 * w + j).part = j
           /\ Piece(3 * w + j).msg = IF w = 0 THEN 0 ELSE base + w
<1>1. (3 * w + j - 1) \div 3 = w /\ (3 * w + j - 1) % 3 = j - 1 OBVIOUS
<1>2. 3 * w + j <= 3 <=> w = 0 OBVIOUS
<1> QED BY <1>1, <1>2 DEF Piece, Pieces

-----------------------------------------------------------------------------
(* Ids and events.                                                         *)

\* An id starts with the key.
LEMMA IdFirst ==
    ASSUME NEW k, NEW r PROVE IdOf(k, r)[1] = k
<1>1. CASE source = "mysql" BY <1>1 DEF IdOf
<1>2. CASE source # "mysql"
  <2>1. 1 \in DOMAIN KeyColumns /\ KeyColumns[1] = "id" BY DEF KeyColumns
  <2>2. FullTuple(k, r)["id"] = Text(k) BY DEF FullTuple, Columns
  <2>3. PrintedKey(Text(k)) = k BY DEF PrintedKey, Text
  <2> QED BY <1>2, <2>1, <2>2, <2>3 DEF IdOf
<1> QED BY <1>1, <1>2

\* Without REPLICA IDENTITY FULL a key has one id.
LEMMA IdNarrow ==
    ASSUME source = "mysql" \/ ident = "default", NEW k, NEW r, NEW s
    PROVE  IdOf(k, r) = IdOf(k, s)
<1>1. CASE source = "mysql" BY <1>1 DEF IdOf
<1>2. CASE source # "mysql"
  <2>1. KeyColumns = <<"id">> BY <1>2 DEF KeyColumns
  <2>2. \A i \in DOMAIN KeyColumns : FullTuple(k, r)[KeyColumns[i]] = FullTuple(k, s)[KeyColumns[i]]
    BY <2>1 DEF FullTuple, Columns
  <2> QED BY <1>2, <2>2 DEF IdOf
<1> QED BY <1>1, <1>2

\* The RELATION message names columns of the table.
LEMMA KeyColumnsIn == \A i \in DOMAIN KeyColumns : KeyColumns[i] \in Columns
BY DEF KeyColumns, Columns

\* Where an image has the cells of the whole row in its key columns, the event's id
\* is the row's, and where it has all of them, the event carries the row.
LEMMA EventOfRow ==
    ASSUME source = "postgresql", NEW op, NEW tuple, NEW k, NEW r,
           \A c \in Columns : tuple[c].t = "u" \/ tuple[c] = FullTuple(k, r)[c],
           EventOf(op, tuple, KeyColumns).ok
    PROVE  /\ EventOf(op, tuple, KeyColumns).op = op
           /\ EventOf(op, tuple, KeyColumns).pk = IdOf(k, r)
           /\ (\A c \in Columns : tuple[c].t # "u") => EventOf(op, tuple, KeyColumns).top = RowDataOf(k, r)
<1> DEFINE present == ParseTuple(tuple)
           top == [c \in present |-> PgValue(c, tuple[c])]
           pk == [i \in DOMAIN KeyColumns |-> PrintedKey(tuple[KeyColumns[i]])]
           e == EventOf(op, tuple, KeyColumns)
<1>1. e = [ok |-> TRUE, op |-> op, top |-> top, pk |-> pk] /\ ~\E i \in DOMAIN KeyColumns : KeyColumns[i] \notin present
  BY DEF EventOf
<1>2. \A i \in DOMAIN KeyColumns : tuple[KeyColumns[i]] = FullTuple(k, r)[KeyColumns[i]]
  BY <1>1 DEF ParseTuple
<1>3. pk = IdOf(k, r)
  BY <1>2 DEF IdOf
<1>4. ASSUME \A c \in Columns : tuple[c].t # "u" PROVE top = RowDataOf(k, r)
  <2>1. present = Columns BY <1>4 DEF ParseTuple
  <2>2. \A c \in Columns : tuple[c] = FullTuple(k, r)[c] BY <1>4
  <2>3. \A c \in Columns : PgValue(c, tuple[c]) = PgValue(c, FullTuple(k, r)[c]) BY <2>2
  <2> QED BY <2>1, <2>3 DEF RowDataOf
<1> QED BY <1>1, <1>3, <1>4

\* The same for the images a log entry has.
LEMMA EventOfOld ==
    ASSUME source = "postgresql", ident \in {"default", "full"}, NEW op, NEW k, NEW r,
           EventOf(op, OldTuple(k, r), KeyColumns).ok
    PROVE  EventOf(op, OldTuple(k, r), KeyColumns).op = op /\ EventOf(op, OldTuple(k, r), KeyColumns).pk = IdOf(k, r)
<1>1. CASE ident = "full"
  <2>1. OldTuple(k, r) = FullTuple(k, r) BY <1>1 DEF OldTuple
  <2> HIDE DEF OldTuple
  <2>2. \A c \in Columns : OldTuple(k, r)[c].t = "u" \/ OldTuple(k, r)[c] = FullTuple(k, r)[c] BY <2>1
  <2> QED BY <2>2, EventOfRow
<1>2. CASE ident = "default"
  <2> DEFINE e == EventOf(op, OldTuple(k, r), KeyColumns)
             pk == [i \in DOMAIN KeyColumns |-> PrintedKey(OldTuple(k, r)[KeyColumns[i]])]
  <2>1. OldTuple(k, r) = KeyTuple(k) BY <1>2 DEF OldTuple
  <2>2. KeyColumns = <<"id">> BY <1>2 DEF KeyColumns
  <2>3. OldTuple(k, r)["id"] = FullTuple(k, r)["id"] BY <2>1 DEF KeyTuple, FullTuple, Columns
  <2>4. \A i \in DOMAIN KeyColumns : OldTuple(k, r)[KeyColumns[i]] = FullTuple(k, r)[KeyColumns[i]]
    BY <2>2, <2>3
  <2>5. pk = IdOf(k, r) BY <2>4 DEF IdOf
  <2>6. e.op = op /\ e.pk = pk BY DEF EventOf
  <2> QED BY <2>5, <2>6
<1> QED BY <1>1, <1>2

\* The same for the new image of an update, which may lack a column.
LEMMA EventOfNew ==
    ASSUME source = "postgresql", NEW op, NEW k, NEW o, NEW r, EventOf(op, NewTuple(k, o, r), KeyColumns).ok
    PROVE  /\ EventOf(op, NewTuple(k, o, r), KeyColumns).op = op
           /\ EventOf(op, NewTuple(k, o, r), KeyColumns).pk = IdOf(k, r)
           /\ (\A c \in Columns : NewTuple(k, o, r)[c].t # "u")
                => EventOf(op, NewTuple(k, o, r), KeyColumns).top = RowDataOf(k, r)
<1>1. \A c \in Columns : NewTuple(k, o, r)[c].t = "u" \/ NewTuple(k, o, r)[c] = FullTuple(k, r)[c]
  BY DEF NewTuple
<1> QED BY <1>1, EventOfRow

\* A column is missing from the new image.
Missing(m) == m.new # None /\ \E c \in Columns : m.new[c].t = "u"

\* What e, the event of change m, has to be.
RightEvent(m, pre, post, e) ==
    /\ m.op # "TRUNCATE" /\ e.op = m.op
    /\ m.op = "DELETE" => e.pk = IdOf(m.key, pre[m.key])
    /\ m.op # "DELETE" => /\ e.pk = IdOf(m.key, post[m.key])
                          /\ ~Missing(m) => e.top = RowDataOf(m.key, post[m.key])

\* The event, if there is one, is the right one.
Decoded(m, pre, post, e) == e.ok => RightEvent(m, pre, post, e)

\* The event the parser makes of a whole message is the change's.
LEMMA DecodedByParser ==
    ASSUME source = "postgresql", ident \in {"default", "full"}, NEW m, NEW pre, NEW post, Logged(m, pre, post)
    PROVE  Decoded(m, pre, post, Parse(m, KeyColumns))
<1> DEFINE e == Parse(m, KeyColumns)
<1> SUFFICES ASSUME e.ok PROVE RightEvent(m, pre, post, e) BY DEF Decoded
<1>1. CASE InsertLogged(m, pre, post)
  <2>1. m.op = "INSERT" /\ m.new = FullTuple(m.key, post[m.key]) /\ m.new # None
    BY <1>1, NotNone DEF InsertLogged
  <2>2. e = EventOf(m.op, FullTuple(m.key, post[m.key]), KeyColumns)
    BY <2>1 DEF Parse, ParseInsert, CreateChangeEvent
  <2>3. \A c \in Columns : FullTuple(m.key, post[m.key])[c].t # "u"
    BY DEF FullTuple, Text
  <2> QED BY <2>1, <2>2, <2>3, EventOfRow DEF RightEvent
<1>2. CASE UpdateLogged(m, pre, post)
  <2>1. m.op = "UPDATE" /\ m.new = NewTuple(m.key, pre[m.from], post[m.key]) /\ m.new # None
    BY <1>2, NotNone DEF UpdateLogged
  <2>2. e = EventOf(m.op, NewTuple(m.key, pre[m.from], post[m.key]), KeyColumns)
    BY <2>1 DEF Parse, ParseUpdate, CreateChangeEvent
  <2>3. ~Missing(m) => \A c \in Columns : NewTuple(m.key, pre[m.from], post[m.key])[c].t # "u"
    BY <2>1 DEF Missing
  <2> QED BY <2>1, <2>2, <2>3, EventOfNew DEF RightEvent
<1>3. CASE DeleteLogged(m, pre, post)
  <2>1. m.op = "DELETE" /\ m.old = OldTuple(m.key, pre[m.key])
    BY <1>3 DEF DeleteLogged
  <2>2. e = EventOf(m.op, OldTuple(m.key, pre[m.key]), KeyColumns)
    BY <2>1 DEF Parse, ParseDelete, CreateChangeEvent
  <2> QED BY <2>1, <2>2, EventOfOld DEF RightEvent
<1>4. CASE TruncateLogged(m, pre, post)
  <2>1. e = EventOf(m.op, None, KeyColumns)
    BY <1>4 DEF TruncateLogged, Parse, ParseTruncate, CreateChangeEvent
  <2>2. EventOf(m.op, None, KeyColumns) = [ok |-> FALSE] BY DEF EventOf
  <2> QED BY <2>1, <2>2
<1> QED BY <1>1, <1>2, <1>3, <1>4 DEF Logged

\* The event the MySQL handler makes of a rows event is the change's.
LEMMA DecodedByHandler ==
    ASSUME source = "mysql", ident = "default", NEW m, NEW pre, NEW post, Logged(m, pre, post)
    PROVE  Decoded(m, pre, post, HandleRow(m))
<1> DEFINE e == HandleRow(m)
           tuple == IF m.new # None THEN m.new ELSE m.old
           top == [c \in Columns |-> MySQLValue(c, tuple[c])]
<1> SUFFICES ASSUME e.ok PROVE RightEvent(m, pre, post, e) BY DEF Decoded
<1>1. m.op # "TRUNCATE" /\ e = [ok |-> TRUE, op |-> m.op, top |-> top, pk |-> <<tuple["id"].x>>]
  BY DEF HandleRow
<1>2. \A k, r : FullTuple(k, r)["id"].x = k BY DEF FullTuple, Columns, Text
<1>3. \A k, o, r : NewTuple(k, o, r) = FullTuple(k, r) BY DEF NewTuple, FullTuple
<1>4. \A k, r : OldTuple(k, r) = FullTuple(k, r) BY DEF OldTuple
<1>5. \A k, r : IdOf(k, r) = <<k>> BY DEF IdOf
<1>6. ASSUME tuple = FullTuple(m.key, post[m.key]) PROVE top = RowDataOf(m.key, post[m.key])
  BY <1>6 DEF RowDataOf
<1>7. CASE InsertLogged(m, pre, post)
  <2>1. m.op = "INSERT" /\ tuple = FullTuple(m.key, post[m.key])
    BY <1>7, NotNone DEF InsertLogged
  <2> QED BY <2>1, <1>1, <1>2, <1>5, <1>6 DEF RightEvent
<1>8. CASE UpdateLogged(m, pre, post)
  <2>1. m.op = "UPDATE" /\ tuple = FullTuple(m.key, post[m.key])
    BY <1>8, <1>3, NotNone DEF UpdateLogged
  <2> QED BY <2>1, <1>1, <1>2, <1>5, <1>6 DEF RightEvent
<1>9. CASE DeleteLogged(m, pre, post)
  <2>1. m.op = "DELETE" /\ tuple = FullTuple(m.key, pre[m.key])
    BY <1>9, <1>4 DEF DeleteLogged
  <2> QED BY <2>1, <1>1, <1>2, <1>5 DEF RightEvent
<1>10. CASE TruncateLogged(m, pre, post) BY <1>1, <1>10 DEF TruncateLogged
<1> QED BY <1>7, <1>8, <1>9, <1>10 DEF Logged

-----------------------------------------------------------------------------
(* One event on its way to the index.                                      *)

\* What transformEvents sends on: the event as it is, or what the rules make of it.
LEMMA TransformedAs ==
    ASSUME NEW e, NEW call
    PROVE  LET t == TransformEvents(e, call)
           IN  /\ t.res = "filtered" => e.ok /\ t = ApplyRules(e.top)
               /\ t.res = "sent" => e.ok
               /\ t.res = "sent" /\ call # "passed" => t = ApplyRules(e.top)
<1>1. CASE ~e.ok BY <1>1 DEF TransformEvents
<1>2. CASE e.ok /\ call = "passed" BY <1>2 DEF TransformEvents
<1>3. CASE e.ok /\ call = "cut" BY <1>3 DEF TransformEvents
<1>4. CASE e.ok /\ call \notin {"passed", "cut"} BY <1>4 DEF TransformEvents
<1> QED BY <1>1, <1>2, <1>3, <1>4

\* What the documents w show once e, transformed to t, is written to d.
Shows(w, d, e, t) ==
    /\ t.res # "sent" => w = d
    /\ \A id : id # e.pk => ShownIn(w, id) = ShownIn(d, id)
    /\ t.res = "sent" /\ e.op = "DELETE" => ShownIn(w, e.pk) = {}
    /\ t.res = "sent" /\ e.op # "DELETE" => ShownIn(w, e.pk) = {Document(t.data)}
    /\ \A id \in DOMAIN w : id \in DOMAIN d \/ (t.res = "sent" /\ id = e.pk)

\* A write changes what is shown at the event's id and nowhere else.
LEMMA WriteDocShows ==
    ASSUME NEW d, NEW e, NEW t, NEW call, t.res = "sent" => e.pk # <<"">>
    PROVE  Shows(WriteDoc(d, e, t, call), d, e, t)
<1> DEFINE w == WriteDoc(d, e, t, call)
<1>1. CASE t.res # "sent" BY <1>1 DEF WriteDoc, Shows
<1>2. CASE t.res = "sent" /\ e.op = "DELETE"
  <2>1. w = [y \in DOMAIN d \ {e.pk} |-> d[y]] BY <1>2 DEF WriteDoc, Drop
  <2> QED BY <1>2, <2>1 DEF Shows, ShownIn
<1>3. CASE t.res = "sent" /\ e.op # "DELETE"
  <2> DEFINE v == [doc |-> Document(t.data), passed |-> call = "passed"]
  <2>1. w = [y \in DOMAIN d \cup {e.pk} |-> IF y = e.pk THEN v ELSE d[y]] BY <1>3 DEF WriteDoc, Put, DocId
  <2>2. v.doc = Document(t.data) OBVIOUS
  <2> HIDE DEF v
  <2> QED BY <1>3, <2>1, <2>2 DEF Shows, ShownIn
<1> QED BY <1>1, <1>2, <1>3

\* How a key goes on following its row when one more change is decoded.
LEMMA FollowsOn ==
    ASSUME Len(log) \in Nat, NEW dn \in Nat, dn + 1 <= Len(log), NEW k, NEW r, NEW d, NEW d2
    PROVE  /\ ShownIn(d2, IdOf(k, r)) = ExpectedAt(k, r, dn + 1) => Follows(d2, k, r, dn + 1)
           /\ ( /\ Follows(d, k, r, dn)
                /\ ShownIn(d2, IdOf(k, r)) = ShownIn(d, IdOf(k, r))
                /\ ExpectedAt(k, r, dn) = ExpectedAt(k, r, dn + 1) )
              => Follows(d2, k, r, dn + 1)
           /\ ( /\ Pending(k, dn)
                /\ ~(log[dn + 1].op = "UPDATE" /\ log[dn + 1].from = k) )
              => Pending(k, dn + 1)
<1>1. ShownIn(d2, IdOf(k, r)) = ExpectedAt(k, r, dn + 1) => Follows(d2, k, r, dn + 1)
  BY DEF Follows
<1>2. ASSUME Follows(d, k, r, dn), ShownIn(d2, IdOf(k, r)) = ShownIn(d, IdOf(k, r)),
             ExpectedAt(k, r, dn) = ExpectedAt(k, r, dn + 1)
      PROVE  Follows(d2, k, r, dn + 1)
  <2>1. PICK q \in dn..Len(log) : ShownIn(d, IdOf(k, r)) = ExpectedAt(k, r, q) BY <1>2 DEF Follows
  <2>2. CASE q = dn BY <1>1, <1>2, <2>1, <2>2
  <2>3. CASE q # dn
    <3>1. q \in (dn + 1)..Len(log) BY <2>3
    <3> QED BY <3>1, <2>1, <1>2 DEF Follows
  <2> QED BY <2>2, <2>3
<1>3. ASSUME Pending(k, dn), ~(log[dn + 1].op = "UPDATE" /\ log[dn + 1].from = k)
      PROVE  Pending(k, dn + 1)
  <2>1. PICK i \in (dn + 1)..Len(log) : log[i].op = "UPDATE" /\ log[i].from = k /\ log[i].old # None
    BY <1>3 DEF Pending
  <2>2. i # dn + 1 BY <2>1, <1>3
  <2>3. i \in ((dn + 1) + 1)..Len(log) BY <2>2
  <2> QED BY <2>1, <2>3 DEF Pending
<1> QED BY <1>1, <1>2, <1>3

\* What is expected of a key depends on its row alone.
LEMMA ExpectedOfTable ==
    ASSUME NEW k, NEW r, NEW q
    PROVE  /\ TableAt(q)[k] = None => ExpectedAt(k, r, q) = {}
           /\ IdOf(k, TableAt(q)[k]) # IdOf(k, r) => ExpectedAt(k, r, q) = {}
           /\ TableAt(q)[k] # None /\ IdOf(k, TableAt(q)[k]) = IdOf(k, r)
                => ExpectedAt(k, r, q) = DocumentOf(ApplyRules(RowDataOf(k, TableAt(q)[k])))
           /\ \A p : TableAt(p)[k] = TableAt(q)[k] => ExpectedAt(k, r, p) = ExpectedAt(k, r, q)
BY DEF ExpectedAt

\* What Excuse gives a key, case by case.
LEMMA ExcuseNone ==
    ASSUME NEW st, NEW m, NEW k, NEW res, NEW call, Excuse(st, m, k, res, call) = "none"
    PROVE  LET narrow == source = "mysql" \/ ident = "default" IN
           \/ m.op = "TRUNCATE" /\ st.excuse[k] = "none" /\ \A id \in DOMAIN st.docs : id[1] # k
           \/ m.op # "TRUNCATE" /\ k # m.key /\ k # m.from /\ st.excuse[k] = "none"
           \/ k = m.key /\ ident # "none" /\ m.op = "INSERT" /\ res = "filtered" /\ st.excuse[k] = "none"
           \/ k = m.key /\ ident # "none" /\ res = "sent" /\ m.op = "DELETE" /\ (narrow \/ st.excuse[k] = "none")
           \/ /\ k = m.key /\ ident # "none" /\ res = "sent" /\ m.op \notin {"TRUNCATE", "DELETE"}
              /\ call # "passed" /\ ~Missing(m)
              /\ narrow \/ (m.op # "UPDATE" /\ st.excuse[k] = "none")
BY DEF Excuse, Missing

\* The id of a row is not empty.
LEMMA IdNotEmpty == ASSUME NEW k \in Keys, NEW r PROVE IdOf(k, r) # <<"">>
<1>1. k # "" BY EventPathAssumption
<1>2. IdOf(k, r)[1] = k BY IdFirst
<1>3. <<"">>[1] = "" OBVIOUS
<1> QED BY <1>1, <1>2, <1>3

\* The documents w show of all rows what d shows.
ShowsRows(w, d) ==
    /\ \A id : id[1] # "" => ShownIn(w, id) = ShownIn(d, id)
    /\ \A id \in DOMAIN w : id \in DOMAIN d \/ id[1] = ""

\* An event without a key leaves the documents of all rows alone.
LEMMA UnnamedShows ==
    ASSUME NEW d, NEW e, NEW t, NEW call, t.res = "sent" => e.pk = <<"">>
    PROVE  ShowsRows(WriteDoc(d, e, t, call), d)
<1> DEFINE w == WriteDoc(d, e, t, call)
<1>1. CASE t.res # "sent" BY <1>1 DEF WriteDoc, ShowsRows
<1>2. CASE t.res = "sent" /\ e.op = "DELETE"
  <2>1. w = [y \in DOMAIN d \ {<<"">>} |-> d[y]] BY <1>2 DEF WriteDoc, Drop
  <2>2. <<"">>[1] = "" OBVIOUS
  <2> QED BY <2>1, <2>2 DEF ShownIn, ShowsRows
<1>3. CASE t.res = "sent" /\ e.op # "DELETE"
  <2> DEFINE v == [doc |-> Document(t.data), passed |-> call = "passed"]
             new == <<"", Cardinality(DOMAIN d)>>
  <2>1. w = [y \in DOMAIN d \cup {new} |-> IF y = new THEN v ELSE d[y]] BY <1>3 DEF WriteDoc, Put, DocId
  <2>2. new[1] = "" OBVIOUS
  <2> HIDE DEF v, new, w
  <2>3. ShowsRows(w, d) BY <2>1, <2>2 DEF ShownIn, ShowsRows
  <2> QED BY <2>3 DEF w
<1> QED BY <1>1, <1>2, <1>3

\* A change of a table whose key the binlog does not give leaves its keys excused, and the
\* others in step.
LEMMA DeliverUnnamed ==
    ASSUME Len(log) \in Nat, NEW dn \in Nat, dn + 1 <= Len(log), ident = "none",
           Logged(log[dn + 1], TableAt(dn), TableAt(dn + 1)),
           NEW st, Fit(st.docs, st.excuse, dn), Ids(st.docs),
           NEW e, e.ok => e.pk = <<"">>, NEW call
    PROVE  LET t == TransformEvents(e, call)
               d2 == WriteDoc(st.docs, e, t, call)
           IN  Ids(d2) /\ Fit(d2, [k \in Keys |-> Excuse(st, log[dn + 1], k, t.res, call)], dn + 1)
<1> DEFINE t == TransformEvents(e, call)
           m == log[dn + 1]
           d == st.docs
           d2 == WriteDoc(d, e, t, call)
           pre == TableAt(dn)
           post == TableAt(dn + 1)
           x2 == [k \in Keys |-> Excuse(st, m, k, t.res, call)]
<1>1. t.res = "sent" => e.pk = <<"">> BY TransformedAs
<1> HIDE DEF t
<1>2. /\ \A id : id[1] # "" => ShownIn(d2, id) = ShownIn(d, id)
      /\ \A id \in DOMAIN d2 : id \in DOMAIN d \/ id[1] = ""
  <2>1. ShowsRows(d2, d) BY <1>1, UnnamedShows
  <2> HIDE DEF d2
  <2> QED BY <2>1 DEF ShowsRows
<1> HIDE DEF d2, m, pre, post
<1>3. Ids(d2) BY <1>2 DEF Ids
<1>4. ASSUME NEW k \in Keys, Excuse(st, m, k, t.res, call) = "none"
      PROVE  Pending(k, dn + 1) \/ FollowsAll(d2, k, dn + 1)
  <2>1. Logged(m, pre, post) BY DEF m, pre, post
  <2>2. \/ m.op = "TRUNCATE" /\ st.excuse[k] = "none" /\ \A id \in DOMAIN d : id[1] # k
        \/ m.op # "TRUNCATE" /\ k # m.key /\ k # m.from /\ st.excuse[k] = "none"
    BY <1>4, ExcuseNone
  <2>3. \A r \in Rows : ShownIn(d2, IdOf(k, r)) = ShownIn(d, IdOf(k, r))
    <3>1. \A r \in Rows : IdOf(k, r)[1] # "" BY IdFirst, EventPathAssumption
    <3> QED BY <3>1, <1>2
  <2>4. CASE m.op = "TRUNCATE"
    <3>1. post[k] = None
      BY <2>1, <2>4 DEF Logged, InsertLogged, UpdateLogged, DeleteLogged, TruncateLogged
    <3>2. ASSUME NEW r \in Rows PROVE Follows(d2, k, r, dn + 1)
      <4>1. ShownIn(d, IdOf(k, r)) = {} BY <2>2, <2>4, IdFirst DEF ShownIn
      <4>2. ExpectedAt(k, r, dn + 1) = {} BY <3>1, ExpectedOfTable DEF post
      <4> QED BY <4>1, <4>2, <2>3, FollowsOn
    <3> QED BY <3>2 DEF FollowsAll
  <2>5. CASE m.op # "TRUNCATE"
    <3>1. pre[k] = post[k]
      BY <2>1, <2>2, <2>5 DEF Logged, InsertLogged, UpdateLogged, DeleteLogged, TruncateLogged, Elsewhere
    <3>2. Pending(k, dn) \/ FollowsAll(d, k, dn) BY <2>2, <2>5 DEF Fit
    <3>3. Pending(k, dn) => Pending(k, dn + 1) BY <2>2, <2>5, FollowsOn DEF m
    <3>4. ASSUME NEW r \in Rows, FollowsAll(d, k, dn) PROVE Follows(d2, k, r, dn + 1)
      <4>1. ExpectedAt(k, r, dn) = ExpectedAt(k, r, dn + 1) BY <3>1, ExpectedOfTable DEF pre, post
      <4>2. Follows(d, k, r, dn) BY <3>4 DEF FollowsAll
      <4> QED BY <4>1, <4>2, <2>3, FollowsOn
    <3> QED BY <3>2, <3>3, <3>4 DEF FollowsAll
  <2> QED BY <2>4, <2>5
<1>5. Fit(d2, x2, dn + 1) BY <1>4 DEF Fit
<1> QED BY <1>3, <1>5 DEF d2, m, t

\* The event of a change has the id of a row.
LEMMA DecodedId ==
    ASSUME NEW m, NEW pre, NEW post, Logged(m, pre, post), NEW e, RightEvent(m, pre, post, e)
    PROVE  \E k \in Keys, r \in Rows : e.pk = IdOf(k, r)
<1>1. CASE m.op = "DELETE"
  <2>1. m.key \in Keys /\ pre[m.key] \in Rows
    BY <1>1 DEF Logged, InsertLogged, UpdateLogged, DeleteLogged, TruncateLogged
  <2> QED BY <1>1, <2>1 DEF RightEvent
<1>2. CASE m.op # "DELETE"
  <2>1. m.key \in Keys /\ post[m.key] \in Rows
    BY <1>2 DEF RightEvent, Logged, InsertLogged, UpdateLogged, DeleteLogged, TruncateLogged
  <2> QED BY <1>2, <2>1 DEF RightEvent
<1> QED BY <1>1, <1>2

\* A decoded change leaves every key in step with its row, or excused.
LEMMA DeliverFits ==
    ASSUME Len(log) \in Nat, NEW dn \in Nat, dn + 1 <= Len(log),
           ident \in {"default", "full"},
           Logged(log[dn + 1], TableAt(dn), TableAt(dn + 1)),
           NEW st, Fit(st.docs, st.excuse, dn), Ids(st.docs),
           NEW e, Decoded(log[dn + 1], TableAt(dn), TableAt(dn + 1), e), NEW call
    PROVE  LET t == TransformEvents(e, call)
           IN  Fit(WriteDoc(st.docs, e, t, call), [k \in Keys |-> Excuse(st, log[dn + 1], k, t.res, call)], dn + 1)
<1> DEFINE t == TransformEvents(e, call)
           m == log[dn + 1]
           d == st.docs
           d2 == WriteDoc(d, e, t, call)
           pre == TableAt(dn)
           post == TableAt(dn + 1)
           x2 == [k \in Keys |-> Excuse(st, m, k, t.res, call)]
<1> SUFFICES ASSUME NEW k \in Keys, Excuse(st, m, k, t.res, call) = "none"
             PROVE  Pending(k, dn + 1) \/ FollowsAll(d2, k, dn + 1)
  BY DEF Fit
<1> HIDE DEF t, m, d2, pre, post
<1>a. Logged(m, pre, post) BY DEF m, pre, post
<1>b. t.res = "sent" \/ t.res = "filtered" => RightEvent(m, pre, post, e)
  BY TransformedAs DEF Decoded, t, m, pre, post
<1>c. t.res = "filtered" => t = ApplyRules(e.top) BY TransformedAs DEF t
<1>d. t.res = "sent" /\ call # "passed" => t = ApplyRules(e.top) BY TransformedAs DEF t
<1>0. Shows(d2, d, e, t)
  <2>1. t.res = "sent" => \E k2 \in Keys, r \in Rows : e.pk = IdOf(k2, r) BY <1>a, <1>b, DecodedId
  <2> QED BY <2>1, IdNotEmpty, WriteDocShows DEF d2
<1>e. /\ t.res # "sent" => d2 = d
      /\ \A id : id # e.pk => ShownIn(d2, id) = ShownIn(d, id)
      /\ t.res = "sent" /\ e.op = "DELETE" => ShownIn(d2, e.pk) = {}
      /\ t.res = "sent" /\ e.op # "DELETE" => ShownIn(d2, e.pk) = {Document(t.data)}
  BY <1>0 DEF Shows
<1>f. st.excuse[k] = "none" => Pending(k, dn) \/ FollowsAll(d, k, dn) BY DEF Fit
<1>g. ~(m.op = "UPDATE" /\ m.from = k) => (Pending(k, dn) => Pending(k, dn + 1))
  BY FollowsOn DEF m
<1>h. ASSUME NEW r \in Rows PROVE
      /\ ShownIn(d2, IdOf(k, r)) = ExpectedAt(k, r, dn + 1) => Follows(d2, k, r, dn + 1)
      /\ ( /\ FollowsAll(d, k, dn)
           /\ ShownIn(d2, IdOf(k, r)) = ShownIn(d, IdOf(k, r))
           /\ ExpectedAt(k, r, dn) = ExpectedAt(k, r, dn + 1) )
         => Follows(d2, k, r, dn + 1)
  BY FollowsOn DEF FollowsAll
<1>i. ASSUME NEW r \in Rows PROVE
      /\ pre[k] = None \/ IdOf(k, pre[k]) # IdOf(k, r) => ExpectedAt(k, r, dn) = {}
      /\ post[k] = None \/ IdOf(k, post[k]) # IdOf(k, r) => ExpectedAt(k, r, dn + 1) = {}
      /\ post[k] # None /\ IdOf(k, post[k]) = IdOf(k, r)
            => ExpectedAt(k, r, dn + 1) = DocumentOf(ApplyRules(RowDataOf(k, post[k])))
      /\ pre[k] = post[k] => ExpectedAt(k, r, dn) = ExpectedAt(k, r, dn + 1)
  BY ExpectedOfTable DEF pre, post
<1>j. \A k2, r : k2 # k => IdOf(k2, r) # IdOf(k, r) BY IdFirst
<1>1. CASE m.op = "TRUNCATE" /\ st.excuse[k] = "none" /\ \A id \in DOMAIN d : id[1] # k
  <2>1. t.res # "sent" BY <1>1, <1>b DEF RightEvent
  <2>2. post[k] = None
    BY <1>1, <1>a DEF Logged, InsertLogged, UpdateLogged, DeleteLogged, TruncateLogged
  <2>3. ASSUME NEW r \in Rows PROVE Follows(d2, k, r, dn + 1)
    <3>1. ShownIn(d2, IdOf(k, r)) = {} BY <1>1, <2>1, <1>e, IdFirst DEF ShownIn
    <3> QED BY <3>1, <2>2, <1>h, <1>i
  <2> QED BY <2>3 DEF FollowsAll
<1>2. CASE m.op # "TRUNCATE" /\ k # m.key /\ k # m.from /\ st.excuse[k] = "none"
  <2>1. pre[k] = post[k]
    BY <1>2, <1>a DEF Logged, InsertLogged, UpdateLogged, DeleteLogged, TruncateLogged, Elsewhere
  <2>2. ASSUME NEW r \in Rows, FollowsAll(d, k, dn) PROVE Follows(d2, k, r, dn + 1)
    <3>1. t.res = "sent" => e.pk # IdOf(k, r) BY <1>2, <1>b, IdFirst DEF RightEvent
    <3>2. ShownIn(d2, IdOf(k, r)) = ShownIn(d, IdOf(k, r)) BY <3>1, <1>e
    <3> QED BY <3>2, <2>1, <2>2, <1>h, <1>i
  <2> QED BY <1>2, <1>f, <1>g, <2>2 DEF FollowsAll
<1>3. CASE k = m.key /\ m.op = "INSERT" /\ t.res = "filtered" /\ st.excuse[k] = "none"
  <2>1. pre[k] = None /\ post[k] \in Rows /\ m.new = FullTuple(m.key, post[m.key])
    BY <1>3, <1>a DEF Logged, InsertLogged, UpdateLogged, DeleteLogged, TruncateLogged
  <2>a. \A c \in Columns : FullTuple(m.key, post[m.key])[c].t # "u" BY DEF FullTuple, Text
  <2>2. ~Missing(m) BY <2>1, <2>a DEF Missing
  <2>3. t = ApplyRules(RowDataOf(k, post[k])) BY <1>3, <1>b, <1>c, <2>2 DEF RightEvent
  <2>4. DocumentOf(t) = {} BY <1>3 DEF DocumentOf
  <2>5. d2 = d BY <1>3, <1>e
  <2>6. ASSUME NEW r \in Rows, FollowsAll(d, k, dn) PROVE Follows(d2, k, r, dn + 1)
    <3>1. ExpectedAt(k, r, dn) = {} BY <2>1, <1>i
    <3>2. ExpectedAt(k, r, dn + 1) = {} BY <2>3, <2>4, <1>i
    <3> QED BY <3>1, <3>2, <2>5, <2>6, <1>h
  <2> QED BY <1>3, <1>f, <1>g, <2>6 DEF FollowsAll
<1>4. CASE k = m.key /\ t.res = "sent" /\ m.op = "DELETE" /\ (source = "mysql" \/ ident = "default" \/ st.excuse[k] = "none")
  <2>1. post[k] = None
    BY <1>4, <1>a DEF Logged, InsertLogged, UpdateLogged, DeleteLogged, TruncateLogged
  <2>2. e.op = "DELETE" /\ e.pk = IdOf(k, pre[k]) BY <1>4, <1>b DEF RightEvent
  <2>3. ASSUME NEW r \in Rows, IdOf(k, r) = e.pk PROVE Follows(d2, k, r, dn + 1)
    BY <1>4, <2>1, <2>2, <2>3, <1>e, <1>h, <1>i
  <2>4. ASSUME NEW r \in Rows, IdOf(k, r) # e.pk, FollowsAll(d, k, dn) PROVE Follows(d2, k, r, dn + 1)
    <3>1. ExpectedAt(k, r, dn) = {} BY <2>2, <2>4, <1>i
    <3>2. ExpectedAt(k, r, dn + 1) = {} BY <2>1, <1>i
    <3> QED BY <3>1, <3>2, <2>4, <1>e, <1>h
  <2>5. source = "mysql" \/ ident = "default" => FollowsAll(d2, k, dn + 1)
    BY <2>2, <2>3, IdNarrow DEF FollowsAll
  <2> QED BY <1>4, <2>3, <2>4, <2>5, <1>f, <1>g DEF FollowsAll
<1>5. CASE /\ k = m.key /\ t.res = "sent" /\ m.op \notin {"TRUNCATE", "DELETE"}
           /\ call # "passed" /\ ~Missing(m)
           /\ (source = "mysql" \/ ident = "default" \/ (m.op # "UPDATE" /\ st.excuse[k] = "none"))
  <2>1. e.op # "DELETE" /\ e.pk = IdOf(k, post[k]) /\ e.top = RowDataOf(k, post[k])
    BY <1>5, <1>b DEF RightEvent
  <2>2. post[k] \in Rows /\ post[k] # None
    BY <1>5, <1>a, NotNone DEF Logged, InsertLogged, UpdateLogged, DeleteLogged, TruncateLogged
  <2>3. t = ApplyRules(RowDataOf(k, post[k])) /\ DocumentOf(t) = {Document(t.data)}
    BY <1>5, <2>1, <1>d DEF DocumentOf
  <2>4. ASSUME NEW r \in Rows, IdOf(k, r) = e.pk PROVE Follows(d2, k, r, dn + 1)
    <3>1. ShownIn(d2, IdOf(k, r)) = {Document(t.data)} BY <1>5, <2>1, <2>4, <1>e
    <3>2. ExpectedAt(k, r, dn + 1) = DocumentOf(t) BY <2>1, <2>2, <2>3, <2>4, <1>i
    <3> QED BY <3>1, <3>2, <2>3, <1>h
  <2>5. ASSUME NEW r \in Rows, IdOf(k, r) # e.pk, m.op = "INSERT", FollowsAll(d, k, dn) PROVE Follows(d2, k, r, dn + 1)
    <3>1. pre[k] = None
      BY <1>5, <2>5, <1>a DEF Logged, InsertLogged, UpdateLogged, DeleteLogged, TruncateLogged
    <3>2. ExpectedAt(k, r, dn) = {} BY <3>1, <1>i
    <3>3. ExpectedAt(k, r, dn + 1) = {} BY <2>1, <2>5, <1>i
    <3> QED BY <3>2, <3>3, <2>5, <1>e, <1>h
  <2>6. source = "mysql" \/ ident = "default" => FollowsAll(d2, k, dn + 1)
    BY <2>1, <2>4, IdNarrow DEF FollowsAll
  <2>7. m.op # "UPDATE" => m.op = "INSERT"
    BY <1>5, <1>a DEF Logged, InsertLogged, UpdateLogged, DeleteLogged, TruncateLogged
  <2> QED BY <1>5, <2>4, <2>5, <2>6, <2>7, <1>f, <1>g DEF FollowsAll
<1> QED BY <1>1, <1>2, <1>3, <1>4, <1>5, ExcuseNone

\* Whatever is written has the id of a row.
LEMMA WriteIds ==
    ASSUME NEW d, Ids(d), NEW e, NEW t, NEW call,
           t.res = "sent" => \E k \in Keys, r \in Rows : e.pk = IdOf(k, r)
    PROVE  Ids(WriteDoc(d, e, t, call))
<1> DEFINE w == WriteDoc(d, e, t, call)
<1>1. Shows(w, d, e, t) BY IdNotEmpty, WriteDocShows
<1> HIDE DEF w
<1>2. ASSUME NEW id \in DOMAIN w PROVE id[1] = "" \/ \E k \in Keys, r \in Rows : id = IdOf(k, r)
  <2>1. id \in DOMAIN d \/ (t.res = "sent" /\ id = e.pk) BY <1>1, <1>2 DEF Shows
  <2> QED BY <2>1 DEF Ids
<1>3. Ids(w) BY <1>2 DEF Ids
<1> QED BY <1>3 DEF w

\* An update cut at its marker writes its old image; the update is still to come.
LEMMA CutFits ==
    ASSUME Len(log) \in Nat, NEW dn \in Nat, dn + 1 <= Len(log),
           source = "postgresql", ident \in {"default", "full"},
           Logged(log[dn + 1], TableAt(dn), TableAt(dn + 1)),
           log[dn + 1].op = "UPDATE", log[dn + 1].old # None,
           NEW d, NEW ex, Fit(d, ex, dn), Ids(d), NEW call
    PROVE  LET e == CreateChangeEvent(log[dn + 1].op, None, log[dn + 1].old, KeyColumns)
               d2 == WriteDoc(d, e, TransformEvents(e, call), call)
           IN  Fit(d2, ex, dn) /\ Ids(d2)
<1> DEFINE m == log[dn + 1]
           e == CreateChangeEvent(m.op, None, m.old, KeyColumns)
           t == TransformEvents(e, call)
           d2 == WriteDoc(d, e, t, call)
           row == TableAt(dn)[m.from]
<1>1. m.from \in Keys /\ row \in Rows /\ m.old = OldTuple(m.from, row)
  BY DEF Logged, InsertLogged, UpdateLogged, DeleteLogged, TruncateLogged
<1>2. e = EventOf(m.op, m.old, KeyColumns) BY DEF CreateChangeEvent
<1>3. t.res = "sent" => e.ok BY TransformedAs
<1>5. Pending(m.from, dn) BY DEF Pending
<1> HIDE DEF m, e, t, d2, row
<1>6. t.res = "sent" => e.pk = IdOf(m.from, row) BY <1>1, <1>2, <1>3, EventOfOld
<1>4. Shows(d2, d, e, t) BY <1>1, <1>6, IdNotEmpty, WriteDocShows DEF d2
<1>7. Ids(d2) BY <1>1, <1>6, WriteIds DEF d2
<1>8. ASSUME NEW k \in Keys, ex[k] = "none" PROVE Pending(k, dn) \/ FollowsAll(d2, k, dn)
  <2>1. CASE k = m.from BY <2>1, <1>5
  <2>2. CASE k # m.from
    <3>1. ASSUME NEW r \in Rows PROVE ShownIn(d2, IdOf(k, r)) = ShownIn(d, IdOf(k, r))
      <4>1. t.res = "sent" => e.pk # IdOf(k, r) BY <1>6, <2>2, IdFirst
      <4> QED BY <4>1, <1>4 DEF Shows
    <3>2. FollowsAll(d, k, dn) => FollowsAll(d2, k, dn) BY <3>1 DEF FollowsAll, Follows
    <3> QED BY <3>2, <1>8 DEF Fit
  <2> QED BY <2>1, <2>2
<1>9. Fit(d2, ex, dn) BY <1>8 DEF Fit
<1> QED BY <1>7, <1>9 DEF m, e, t, d2

-----------------------------------------------------------------------------
(* The parser's state while it reads what has arrived.                     *)

\* st, once w messages of the session are read.
StateInv(st, w) ==
    /\ DOMAIN st = {"up", "parser", "docs", "excuse", "done"}
    /\ DOMAIN st.parser = {"logicalBuf", "relation"}
    /\ st.up \in BOOLEAN
    /\ st.done \in Nat /\ done <= st.done /\ st.done <= Len(log)
    /\ Ids(st.docs) /\ Fit(st.docs, st.excuse, st.done)
    /\ st.up => /\ w > 0 => st.parser.relation = KeyColumns
                /\ st.done = base + (IF w = 0 THEN 0 ELSE w - 1)

\* The next change of the log.
LEMMA LogAt ==
    ASSUME PathTypeInv, LogInv, NEW dn \in Nat, dn + 1 <= Len(log)
    PROVE  Len(log) \in Nat /\ Logged(log[dn + 1], TableAt(dn), TableAt(dn + 1))
<1>1. Len(log) \in Nat BY DEF PathTypeInv
<1>2. dn + 1 \in 1..Len(log) /\ (dn + 1) - 1 = dn BY <1>1
<1>3. Logged(log[dn + 1], TableAt((dn + 1) - 1), TableAt(dn + 1)) BY <1>2 DEF LogInv
<1> QED BY <1>1, <1>2, <1>3

\* The next change is delivered.
LEMMA DeliverState ==
    ASSUME PathTypeInv, LogInv, source = "postgresql",
           NEW st, NEW w \in Nat, StateInv(st, w), w > 0, st.done + 1 <= Len(log),
           NEW e, Decoded(log[st.done + 1], TableAt(st.done), TableAt(st.done + 1), e), NEW call
    PROVE  StateInv(Deliver(st, log[st.done + 1], e, call), w + 1)
<1> DEFINE dn == st.done
           m == log[dn + 1]
           t == TransformEvents(e, call)
           d2 == WriteDoc(st.docs, e, t, call)
           x2 == [k \in Keys |-> Excuse(st, m, k, t.res, call)]
           out == Deliver(st, m, e, call)
<1>1. dn \in Nat /\ Len(log) \in Nat /\ Logged(m, TableAt(dn), TableAt(dn + 1))
  BY LogAt DEF StateInv
<1>2. ident \in {"default", "full"} /\ base \in Nat /\ done \in Nat BY DEF PathTypeInv
<1>3. Fit(st.docs, st.excuse, dn) /\ Ids(st.docs) BY DEF StateInv
<1>4. Fit(d2, x2, dn + 1) BY <1>1, <1>2, <1>3, DeliverFits
<1>5. t.res = "sent" => \E k \in Keys, r \in Rows : e.pk = IdOf(k, r)
  BY <1>1, TransformedAs, DecodedId DEF Decoded
<1>6. Ids(d2) BY <1>3, <1>5, WriteIds
<1>7. /\ DOMAIN out = DOMAIN st /\ out.up = st.up /\ out.parser = st.parser
      /\ out.docs = d2 /\ out.excuse = x2 /\ out.done = dn + 1
  BY DEF StateInv, Deliver, Written
<1> HIDE DEF out, d2, x2, t, m, dn
<1>8. StateInv(out, w + 1)
  <2>1. st.up => st.done = base + (w - 1) /\ st.parser.relation = KeyColumns BY DEF StateInv
  <2>2. st.up => out.done = base + ((w + 1) - 1) BY <2>1, <1>7, <1>2 DEF dn
  <2>3. out.done \in Nat /\ done <= out.done /\ out.done <= Len(log) BY <1>1, <1>2, <1>7 DEF StateInv, dn
  <2>4. w + 1 > 0 /\ w + 1 # 0 OBVIOUS
  <2> QED BY <1>4, <1>6, <1>7, <2>1, <2>2, <2>3, <2>4 DEF StateInv
<1> QED BY <1>8 DEF out, m, dn

\* A stream that ends changes nothing else.
LEMMA EndState ==
    ASSUME NEW st, NEW w, NEW v, StateInv(st, w) PROVE StateInv([st EXCEPT !.up = FALSE], v)
BY DEF StateInv

\* parseSingleLogicalMessage on message w of the session.
LEMMA ReadState ==
    ASSUME PathTypeInv, LogInv, source = "postgresql", NEW st, NEW w \in Nat, StateInv(st, w), st.up,
           w > 0 => base + w <= Len(log), NEW call
    PROVE  StateInv(ParseMessage(st, IF w = 0 THEN 0 ELSE base + w, call), w + 1)
<1> USE DEF PathTypeInv
<1>1. CASE w = 0
  <2>1. ParseMessage(st, 0, call) = [st EXCEPT !.parser.relation = KeyColumns] BY DEF ParseMessage
  <2> DEFINE out == [st EXCEPT !.parser.relation = KeyColumns]
  <2>2. /\ DOMAIN out = DOMAIN st /\ out.up = st.up /\ DOMAIN out.parser = DOMAIN st.parser
        /\ out.parser.relation = KeyColumns
        /\ out.docs = st.docs /\ out.excuse = st.excuse /\ out.done = st.done
    BY DEF StateInv
  <2> HIDE DEF out
  <2>3. st.done = base /\ w + 1 = 1 /\ base + (1 - 1) = base BY <1>1 DEF StateInv
  <2>4. StateInv(out, 1) BY <1>1, <2>2, <2>3 DEF StateInv
  <2> QED BY <1>1, <2>1, <2>3, <2>4 DEF out
<1>2. CASE w > 0
  <2> DEFINE m == log[base + w]
             e == Parse(m, KeyColumns)
  <2>1. base + w = st.done + 1 /\ st.done \in Nat /\ st.parser.relation = KeyColumns /\ base + w # 0
    BY <1>2 DEF StateInv
  <2>2. ParseMessage(st, base + w, call) = DeliverOrEnd(st, m, e, m.op = "TRUNCATE", call)
    BY <2>1 DEF ParseMessage
  <2>3. Logged(m, TableAt(st.done), TableAt(st.done + 1)) BY <1>2, <2>1, LogAt
  <2>4. Decoded(m, TableAt(st.done), TableAt(st.done + 1), e) BY <2>3, DecodedByParser
  <2> HIDE DEF e
  <2>5. StateInv(Deliver(st, m, e, call), w + 1) BY <1>2, <2>1, <2>4, DeliverState
  <2>6. StateInv([st EXCEPT !.up = FALSE], w + 1) BY EndState
  <2> QED BY <1>2, <2>2, <2>5, <2>6 DEF DeliverOrEnd
<1> QED BY <1>1, <1>2

\* st, once s pieces of the session have arrived: what is not read is in the
\* buffer, unless it was a message cut at its marker.
Received(st, w, n) ==
    /\ StateInv(st, w)
    /\ st.up => \/ st.parser.logicalBuf = [j \in 1..n |-> Piece(3 * w + j)]
                \/ st.parser.logicalBuf = << >> /\ n = 2

\* The same after s pieces.
SessionInv(st, s) == \E w \in Nat, n \in 0..2 : Received(st, w, n) /\ (st.up => s = 3 * w + n)

\* Arithmetic and sequences.
LEMMA ThirdsOf ==
    ASSUME NEW p \in Nat, NEW n \in 0..2 PROVE (3 * p + n) \div 3 = p /\ (3 * p + n) % 3 = n
OBVIOUS

\* The end of a buffer, piece by piece.
LEMMA TailOf ==
    ASSUME NEW S, NEW buf \in Seq(S), NEW p \in Nat, NEW n \in Nat, Len(buf) = 3 * p + n
    PROVE  SubSeq(buf, 3 * p + 1, 3 * p + n) = [j \in 1..n |-> buf[3 * p + j]]
<1> DEFINE b == SubSeq(buf, 3 * p + 1, 3 * p + n)
<1>1. Len(b) = n /\ b \in Seq(S)
  BY SubSeqProperties
<1>2. \A j \in 1..n : b[j] = buf[3 * p + j]
  BY SubSeqProperties
<1> HIDE DEF b
<1>3. DOMAIN b = 1..n /\ b = [j \in 1..n |-> b[j]]
  BY <1>1
<1>4. b = [j \in 1..n |-> buf[3 * p + j]] BY <1>2, <1>3
<1> QED BY <1>4 DEF b

\* What is left of the buffer.
LEMMA RemainderState ==
    ASSUME PathTypeInv, LogInv, source = "postgresql", NEW w \in Nat, NEW n \in 0..2, NEW p \in 0..2,
           NEW u \in Nat, u + p = w,
           NEW S, NEW buf \in Seq(S), Len(buf) = 3 * p + n, Len(buf) > 0,
           \A j \in 1..Len(buf) : buf[j] = Piece(3 * u + j),
           3 * w + n <= Available, NEW st, StateInv(st, w), NEW call
    PROVE  Received(Remainder(st, buf, call), w, n)
<1>0. Len(log) \in Nat /\ base \in Nat /\ ident \in {"default", "full"} BY DEF PathTypeInv
<1> DEFINE len == 3 * p + n
           i == buf[Len(buf)].msg
           last == log[i]
           out == Remainder(st, buf, call)
<1>1. len \div 3 = p /\ len % 3 = n
  <2>1. p \in Nat OBVIOUS
  <2> QED BY <2>1, ThirdsOf
<1>2. CASE st.up /\ EndsAtMarker(buf)
  <2>1. n = 2 BY <1>1, <1>2 DEF EndsAtMarker, Pieces
  <2>2. i = IF w = 0 THEN 0 ELSE base + w
    <3>1. buf[len] = Piece(3 * u + len) /\ 3 * u + len = 3 * w + 2 BY <2>1
    <3>2. Piece(3 * w + 2).msg = IF w = 0 THEN 0 ELSE base + w BY <1>0, PieceAt
    <3> QED BY <3>1, <3>2
  <2>3. i > 0 /\ last.op = "UPDATE" /\ last.old # None BY <1>2 DEF EndsAtMarker
  <2>4. w > 0 /\ i = base + w BY <1>0, <2>2, <2>3
  <2>5. i = st.done + 1 /\ st.done \in Nat /\ st.parser.relation = KeyColumns BY <1>0, <1>2, <2>4 DEF StateInv
  <2>6. i <= Len(log)
    <3>1. 3 * w + 2 <= 3 * (1 + Len(log) - base) BY <2>1 DEF Available, Pieces
    <3>2. base + w <= Len(log) BY <1>0, <3>1
    <3> QED BY <2>4, <3>2
  <2> DEFINE st1 == [st EXCEPT !.parser.logicalBuf = << >>]
             e == CreateChangeEvent(last.op, None, last.old, KeyColumns)
             t == TransformEvents(e, call)
             d2 == WriteDoc(st.docs, e, t, call)
  <2>7. /\ DOMAIN st1 = DOMAIN st /\ DOMAIN st1.parser = DOMAIN st.parser /\ st1.up = st.up
        /\ st1.parser.logicalBuf = << >> /\ st1.parser.relation = st.parser.relation
        /\ st1.docs = st.docs /\ st1.excuse = st.excuse /\ st1.done = st.done
    BY DEF StateInv
  <2>8. out = [DeliverOrEnd(st1, last, e, FALSE, call) EXCEPT !.excuse = st.excuse, !.done = st.done]
    BY <1>2, <2>5 DEF Remainder
  <2>9. Fit(d2, st.excuse, st.done) /\ Ids(d2)
    <3>1. Logged(log[st.done + 1], TableAt(st.done), TableAt(st.done + 1)) /\ Len(log) \in Nat
      BY <2>5, <2>6, LogAt
    <3>2. Fit(st.docs, st.excuse, st.done) /\ Ids(st.docs) BY DEF StateInv
    <3> QED BY <2>3, <2>5, <2>6, <3>1, <3>2, <1>0, CutFits
  <2> HIDE DEF st1, e, d2, t, i, last, out
  <2>10. CASE e.ok
    <3> DEFINE st2 == Deliver(st1, last, e, call)
    <3>1. /\ DOMAIN st2 = DOMAIN st /\ st2.parser = st1.parser /\ st2.up = st.up /\ st2.docs = d2
      BY <2>7 DEF StateInv, Deliver, Written, t, d2
    <3> HIDE DEF st2
    <3>2. out = [st2 EXCEPT !.excuse = st.excuse, !.done = st.done]
      BY <2>8, <2>10 DEF DeliverOrEnd, st2
    <3>3. /\ DOMAIN out = DOMAIN st /\ out.parser = st1.parser /\ out.up = st.up /\ out.docs = d2
          /\ out.excuse = st.excuse /\ out.done = st.done
      BY <3>1, <3>2 DEF StateInv
    <3>4. StateInv(out, w) BY <3>3, <2>7, <2>9 DEF StateInv
    <3> QED BY <3>3, <3>4, <2>7, <2>1 DEF Received, out
  <2>11. CASE ~e.ok
    <3>1. out = [[st1 EXCEPT !.up = FALSE] EXCEPT !.excuse = st.excuse, !.done = st.done]
      BY <2>8, <2>11 DEF DeliverOrEnd
    <3>2. /\ DOMAIN out = DOMAIN st /\ out.parser = st1.parser /\ out.up = FALSE /\ out.docs = st.docs
          /\ out.excuse = st.excuse /\ out.done = st.done
      BY <3>1, <2>7 DEF StateInv
    <3>3. StateInv(out, w) BY <3>2, <2>7 DEF StateInv
    <3> QED BY <3>2, <3>3 DEF Received, out
  <2> QED BY <2>10, <2>11
<1>3. CASE ~(st.up /\ EndsAtMarker(buf))
  <2> DEFINE b == SubSeq(buf, 3 * p + 1, len)
  <2>1. out = [st EXCEPT !.parser.logicalBuf = b]
    BY <1>1, <1>3 DEF Remainder, Pieces
  <2> HIDE DEF b, out
  <2>2. /\ DOMAIN out = DOMAIN st /\ DOMAIN out.parser = DOMAIN st.parser /\ out.up = st.up
        /\ out.parser.logicalBuf = b /\ out.parser.relation = st.parser.relation
        /\ out.docs = st.docs /\ out.excuse = st.excuse /\ out.done = st.done
    BY <2>1 DEF StateInv
  <2>3. StateInv(out, w) BY <2>2 DEF StateInv
  <2>4. b = [j \in 1..n |-> buf[3 * p + j]]
    BY TailOf DEF b
  <2>5. \A j \in 1..n : buf[3 * p + j] = Piece(3 * w + j)
    <3>1. ASSUME NEW j \in 1..n PROVE buf[3 * p + j] = Piece(3 * w + j)
      <4>1. 3 * p + j \in 1..Len(buf) /\ 3 * u + (3 * p + j) = 3 * w + j OBVIOUS
      <4> QED BY <4>1
    <3> QED BY <3>1
  <2>6. b = [j \in 1..n |-> Piece(3 * w + j)] BY <2>4, <2>5
  <2> QED BY <2>2, <2>3, <2>6 DEF Received, out
<1> QED BY <1>2, <1>3

\* The pieces of buf follow the first w messages.
PiecesFrom(buf, w, len) == Len(buf) = len /\ \A j \in 1..len : buf[j] = Piece(3 * w + j)

\* The i-th complete message in the buffer is message w + i - 1 of the session.
LEMMA ReadMessageState ==
    ASSUME PathTypeInv, LogInv, source = "postgresql", NEW u \in Nat, NEW len \in 1..6,
           NEW buf, PiecesFrom(buf, u, len), 3 * u + len <= Available,
           NEW i \in 1..2, 3 * i <= len, NEW st, StateInv(st, u + i - 1), NEW call
    PROVE  StateInv(ReadMessage(st, buf, i, call), u + i)
<1>0. Len(log) \in Nat /\ base \in Nat BY DEF PathTypeInv
<1> DEFINE w == u + i - 1
<1>1. w \in Nat /\ w + 1 = u + i /\ 3 * u + 3 * i = 3 * w + 3 /\ 3 * i \in 1..len OBVIOUS
<1>2. buf[3 * i] = Piece(3 * w + 3) /\ 3 * i <= Len(buf) BY <1>1 DEF PiecesFrom
<1> HIDE DEF w
<1>3. Piece(3 * w + 3).msg = IF w = 0 THEN 0 ELSE base + w BY <1>0, <1>1, PieceAt
<1>4. base + w <= Len(log)
  <2>1. 3 * w + 3 <= 3 * (1 + Len(log) - base) BY <1>0, <1>1 DEF Available, Pieces
  <2> QED BY <1>0, <1>1, <2>1
<1>5. StateInv(st, w) BY DEF w
<1>6. CASE st.up
  <2>1. ReadMessage(st, buf, i, call) = ParseMessage(st, IF w = 0 THEN 0 ELSE base + w, call)
    BY <1>2, <1>3, <1>6 DEF ReadMessage, Pieces
  <2> QED BY <2>1, <1>1, <1>4, <1>5, <1>6, ReadState
<1>7. CASE ~st.up
  <2>1. ReadMessage(st, buf, i, call) = st BY <1>7 DEF ReadMessage
  <2> QED BY <2>1, <1>5, <1>7 DEF StateInv
<1> QED BY <1>6, <1>7

\* processBufferedLogicalMessages on a buffer that begins with a message.
LEMMA ProcessBufferedState ==
    ASSUME PathTypeInv, LogInv, source = "postgresql", NEW w \in Nat, NEW len \in 1..6, NEW S, NEW buf \in Seq(S),
           PiecesFrom(buf, w, len), 3 * w + len <= Available,
           NEW st, StateInv(st, w), st.parser.logicalBuf = buf, NEW call
    PROVE  SessionInv(ProcessBuffered(st, call), 3 * w + len)
<1>0. base \in Nat BY DEF PathTypeInv
<1> DEFINE st1 == ReadMessage(st, buf, 1, call)
           st2 == ReadMessage(st1, buf, 2, call)
           out == ProcessBuffered(st, call)
<1>1. out = Remainder(st2, buf, call)
  <2>1. buf[1] = Piece(3 * w + 1) BY DEF PiecesFrom
  <2>2. Piece(3 * w + 1).part = 1 BY <1>0, PieceAt
  <2> QED BY <2>1, <2>2 DEF ProcessBuffered, Pieces
<1> SUFFICES SessionInv(out, 3 * w + len) OBVIOUS
<1> HIDE DEF out
<1>2. ASSUME NEW p \in 0..2, NEW n \in 0..2, len = 3 * p + n, StateInv(st2, w + p)
      PROVE  SessionInv(out, 3 * w + len)
  <2> DEFINE v == w + p
  <2>1. v \in Nat /\ 3 * v + n = 3 * w + len BY <1>2
  <2>2. Len(buf) = 3 * p + n /\ Len(buf) > 0 BY <1>2 DEF PiecesFrom
  <2>3. \A j \in 1..Len(buf) : buf[j] = Piece(3 * w + j) BY DEF PiecesFrom
  <2>4. 3 * v + n <= Available BY <2>1
  <2>5. StateInv(st2, v) BY <1>2
  <2>6. w + p = v OBVIOUS
  <2> HIDE DEF v, st2
  <2>7. Received(Remainder(st2, buf, call), v, n) BY <2>1, <2>2, <2>3, <2>4, <2>5, <2>6, RemainderState
  <2> QED BY <1>1, <2>1, <2>7 DEF SessionInv
<1>3. CASE len \in 1..2
  <2>1. st1 = st /\ st2 = st BY <1>3 DEF ReadMessage, Pieces, PiecesFrom
  <2>2. StateInv(st2, w + 0) BY <2>1
  <2>3. len = 3 * 0 + len /\ len \in 0..2 BY <1>3
  <2> HIDE DEF st2
  <2> QED BY <1>2, <2>2, <2>3
<1>4. CASE len \in 3..5
  <2>0. StateInv(st, w + 1 - 1) /\ 3 * 1 <= len BY <1>4
  <2>1. StateInv(st1, w + 1) BY <2>0, ReadMessageState
  <2>2. st2 = st1 BY <1>4 DEF ReadMessage, Pieces, PiecesFrom
  <2>3. len = 3 * 1 + (len - 3) /\ len - 3 \in 0..2 BY <1>4
  <2>4. StateInv(st2, w + 1) BY <2>1, <2>2
  <2> HIDE DEF st2
  <2> QED BY <1>2, <2>3, <2>4
<1>5. CASE len = 6
  <2>0. StateInv(st, w + 1 - 1) /\ 3 * 1 <= len /\ 3 * 2 <= len BY <1>5
  <2>1. StateInv(st1, w + 1) BY <2>0, ReadMessageState
  <2>2. StateInv(st1, w + 2 - 1) BY <2>1
  <2>3. StateInv(st2, w + 2) BY <2>0, <2>2, ReadMessageState
  <2>4. len = 3 * 2 + 0 BY <1>5
  <2> HIDE DEF st2
  <2> QED BY <1>2, <2>3, <2>4
<1> QED BY <1>3, <1>4, <1>5

-----------------------------------------------------------------------------
(* Steps.  The source's settings never change and the log only grows.      *)

\* The settings are kept; the log is kept or extended.
Settled == UNCHANGED <<source, ident, rules>>
LogKept == Len(log') \in Nat /\ Len(log) <= Len(log') /\ \A i \in 1..Len(log) : log'[i] = log[i]

\* What depends on the source's settings alone does not change.
LEMMA SettledTuples ==
    ASSUME Settled
    PROVE  /\ KeyColumns' = KeyColumns
           /\ \A k, r : IdOf(k, r)' = IdOf(k, r)
           /\ \A k, r : RowDataOf(k, r)' = RowDataOf(k, r)
           /\ \A top : ApplyRules(top)' = ApplyRules(top)
           /\ \A k, r : OldTuple(k, r)' = OldTuple(k, r)
           /\ \A k, o, r : NewTuple(k, o, r)' = NewTuple(k, o, r)
<1> USE DEF Settled
<1>1. KeyColumns' = KeyColumns BY DEF KeyColumns
<1>2. \A k, r : IdOf(k, r)' = IdOf(k, r) BY <1>1 DEF IdOf
<1>3. \A k, r : RowDataOf(k, r)' = RowDataOf(k, r) BY DEF RowDataOf
<1>4. \A top : ApplyRules(top)' = ApplyRules(top) BY DEF ApplyRules
<1>5. \A k, r : OldTuple(k, r)' = OldTuple(k, r) BY DEF OldTuple
<1>6. \A k, o, r : NewTuple(k, o, r)' = NewTuple(k, o, r) BY DEF NewTuple
<1> QED BY <1>1, <1>2, <1>3, <1>4, <1>5, <1>6

\* The tables of the past do not change.
LEMMA KeptTables ==
    ASSUME LogKept, Len(log) \in Nat, NEW q \in 0..Len(log) PROVE TableAt(q)' = TableAt(q)
BY DEF LogKept, TableAt

\* Neither does what they make one expect.
LEMMA KeptExpected ==
    ASSUME Settled, LogKept, Len(log) \in Nat, NEW q \in 0..Len(log), NEW k, NEW r
    PROVE  ExpectedAt(k, r, q)' = ExpectedAt(k, r, q)
<1>1. TableAt(q)' = TableAt(q) BY KeptTables
<1>2. \A a, b : IdOf(a, b)' = IdOf(a, b) BY SettledTuples
<1>3. \A a, b : RowDataOf(a, b)' = RowDataOf(a, b) BY SettledTuples
<1>4. \A top : ApplyRules(top)' = ApplyRules(top) BY SettledTuples
<1> QED BY <1>1, <1>2, <1>3, <1>4 DEF ExpectedAt, DocumentOf

\* A range of changes in a longer log.
LEMMA RangeOn ==
    ASSUME NEW d \in Nat, NEW n \in Nat, NEW n2 \in Nat, n <= n2, NEW i \in (d + 1)..n
    PROVE  i \in 1..n /\ i \in (d + 1)..n2
OBVIOUS

\* What fits the log fits a longer one.
LEMMA FitPrime ==
    ASSUME Settled, LogKept, Len(log) \in Nat, done' \in Nat, Fit(docs', excuse', done')
    PROVE  Fit(docs, excuse, done)'
<1>1. ASSUME NEW k \in Keys, Pending(k, done') PROVE Pending(k, done)'
  <2>1. PICK i \in (done' + 1)..Len(log) : log[i].op = "UPDATE" /\ log[i].from = k /\ log[i].old # None
    BY <1>1 DEF Pending
  <2>a. Len(log') \in Nat /\ Len(log) <= Len(log') BY DEF LogKept
  <2>2. i \in 1..Len(log) /\ i \in (done' + 1)..Len(log') BY <2>a, RangeOn
  <2>3. log'[i] = log[i] BY <2>2 DEF LogKept
  <2> QED BY <2>1, <2>2, <2>3 DEF Pending
<1>2. ASSUME NEW k \in Keys, NEW r \in Rows, Follows(docs', k, r, done') PROVE Follows(docs, k, r, done)'
  <2>1. PICK q \in done'..Len(log) : ShownIn(docs', IdOf(k, r)) = ExpectedAt(k, r, q) BY <1>2 DEF Follows
  <2>2. q \in done'..Len(log') /\ q \in 0..Len(log) BY DEF LogKept
  <2>3. ExpectedAt(k, r, q)' = ExpectedAt(k, r, q) BY <2>2, KeptExpected
  <2>4. IdOf(k, r)' = IdOf(k, r) BY SettledTuples
  <2>5. ShownIn(docs, IdOf(k, r))' = ShownIn(docs', IdOf(k, r)) BY <2>4 DEF ShownIn
  <2> QED BY <2>1, <2>2, <2>3, <2>5 DEF Follows
<1>3. ASSUME NEW k \in Keys, FollowsAll(docs', k, done') PROVE FollowsAll(docs, k, done)'
  BY <1>2, <1>3 DEF FollowsAll
<1> QED BY <1>1, <1>3 DEF Fit

\* Ids keep their form.
LEMMA IdsPrime ==
    ASSUME Settled, Ids(docs') PROVE Ids(docs)'
<1>1. \A k, r : IdOf(k, r)' = IdOf(k, r) BY SettledTuples
<1> QED BY <1>1 DEF Ids

\* A table that is behind stays followed when decoding starts again earlier.
LEMMA FitEarlier ==
    ASSUME Len(log) \in Nat, NEW d, NEW ex, NEW dn \in Nat, NEW dm \in Nat, dm <= dn, Fit(d, ex, dn)
    PROVE  Fit(d, ex, dm)
<1>1. ASSUME NEW k \in Keys, Pending(k, dn) PROVE Pending(k, dm) BY <1>1 DEF Pending
<1>2. ASSUME NEW k \in Keys, NEW r \in Rows, Follows(d, k, r, dn) PROVE Follows(d, k, r, dm)
  BY <1>2 DEF Follows
<1>3. ASSUME NEW k \in Keys, FollowsAll(d, k, dn) PROVE FollowsAll(d, k, dm)
  BY <1>2, <1>3 DEF FollowsAll
<1> QED BY <1>1, <1>3 DEF Fit

\* What the log says of a change, in the next state.
LEMMA LoggedPrime ==
    ASSUME Settled, NEW q, NEW m, NEW pre, NEW post, Logged(m, pre, post),
           log'[q] = m, TableAt(q - 1)' = pre, TableAt(q)' = post
    PROVE  Logged(log[q], TableAt(q - 1), TableAt(q))'
<1>1. CASE InsertLogged(m, pre, post) BY <1>1 DEF Logged, InsertLogged, Elsewhere
<1>2. CASE UpdateLogged(m, pre, post) BY <1>2 DEF Settled, Logged, UpdateLogged, Elsewhere, OldTuple, NewTuple
<1>3. CASE DeleteLogged(m, pre, post) BY <1>3 DEF Settled, Logged, DeleteLogged, Elsewhere, OldTuple
<1>4. CASE TruncateLogged(m, pre, post) BY <1>4 DEF Logged, TruncateLogged
<1> QED BY <1>1, <1>2, <1>3, <1>4 DEF Logged

\* A step that leaves log and table alone.
LEMMA LogInvKept ==
    ASSUME Settled, UNCHANGED <<log, rows>>, Len(log) \in Nat, LogInv PROVE LogInv'
<1>1. LogKept BY DEF LogKept
<1>2. \A q \in 0..Len(log) : TableAt(q)' = TableAt(q) BY <1>1, KeptTables
<1>3. ASSUME NEW q \in 1..Len(log) PROVE Logged(log[q], TableAt(q - 1), TableAt(q))'
  <2>1. Logged(log[q], TableAt(q - 1), TableAt(q)) BY DEF LogInv
  <2>2. log'[q] = log[q] /\ TableAt(q - 1)' = TableAt(q - 1) /\ TableAt(q)' = TableAt(q) BY <1>2
  <2> QED BY <2>1, <2>2, LoggedPrime
<1> QED BY <1>2, <1>3 DEF LogInv

\* s2 is s with m behind it.
Extended(s, s2, m) ==
    /\ Len(s) \in Nat /\ Len(s2) = Len(s) + 1
    /\ \A i \in 1..Len(s) : s2[i] = s[i]
    /\ s2[Len(s) + 1] = m
    /\ IsSeq(s2)

\* What Append does.
LEMMA AppendOwn ==
    ASSUME NEW s, IsSeq(s), NEW m PROVE Extended(s, Append(s, m), m)
<1> DEFINE s2 == Append(s, m)
<1>0. PICK S : s \in Seq(S) BY DEF IsSeq
<1> DEFINE T == S \cup {m}
<1>1. s \in Seq(T)
  <2>1. Seq(S) \subseteq Seq(T) OBVIOUS
  <2> QED BY <1>0, <2>1
<1>2. Append(s, m) \in Seq(T) /\ Len(Append(s, m)) = Len(s) + 1 BY <1>1
<1>3. Len(s) \in Nat /\ Len(s2) = Len(s) + 1 /\ s2 \in Seq(T) BY <1>1, <1>2
<1>4. (\A i \in 1..Len(s) : s2[i] = s[i]) /\ s2[Len(s) + 1] = m BY <1>1
<1> HIDE DEF T, s2
<1>5. IsSeq(s2)
  <2> DEFINE U == {s2[i] : i \in DOMAIN s2}
             n == Len(s2)
  <2>1. n \in Nat /\ DOMAIN s2 = 1..n /\ s2 \in [1..n -> T] BY <1>3, LenProperties
  <2>2. \A i \in 1..n : s2[i] \in U BY <2>1
  <2> HIDE DEF U, n
  <2>3. s2 \in [1..n -> U] BY <2>1, <2>2
  <2>4. s2 \in Seq(U) BY <2>1, <2>3, SeqDef
  <2> QED BY <2>4 DEF IsSeq, U
<1>6. Extended(s, s2, m) BY <1>3, <1>4, <1>5 DEF Extended
<1> QED BY <1>6 DEF s2

\* A committed change.
LEMMA CommitStep ==
    ASSUME PathInv, NEW op, NEW key, NEW from, NEW old, NEW new, NEW newRows,
           Commit(op, key, from, old, new, newRows),
           newRows \in [Keys -> Rows \cup {None}],
           Logged([op |-> op, key |-> key, from |-> from, old |-> old, new |-> new, after |-> newRows], rows, newRows)
    PROVE  PathInv'
<1> DEFINE m == [op |-> op, key |-> key, from |-> from, old |-> old, new |-> new, after |-> newRows]
<1>0. PICK q0 : q0 = Len(log) + 1 OBVIOUS
<1>1. log' = Append(log, m) /\ rows' = newRows /\ UNCHANGED <<source, ident, rules, acked, up, base, sent, parser, done, docs, excuse>>
  BY DEF Commit, session
<1>a. m.after = newRows OBVIOUS
<1>b. Logged(m, rows, newRows) OBVIOUS
<1> HIDE DEF m
<1>2. PathTypeInv /\ LogInv /\ ParserInv /\ Ids(docs) /\ Fit(docs, excuse, done) BY DEF PathInv
<1>c. IsSeq(log) BY <1>2 DEF PathTypeInv
<1>3. /\ Len(log) \in Nat /\ Len(log') = Len(log) + 1
      /\ \A i \in 1..Len(log) : log'[i] = log[i]
      /\ log'[q0] = m
      /\ IsSeq(log')
  <2>1. Extended(log, log', m) BY <1>1, <1>c, AppendOwn
  <2> QED BY <1>0, <2>1 DEF Extended
<1>4. Settled /\ LogKept BY <1>1, <1>3 DEF Settled, LogKept
<1>5. PathTypeInv' BY <1>1, <1>2, <1>3 DEF PathTypeInv
<1>6. LogInv'
  <2>1. \A q \in 0..Len(log) : TableAt(q)' = TableAt(q) BY <1>3, <1>4, KeptTables
  <2>2. TableAt(q0)' = newRows BY <1>0, <1>3, <1>a DEF TableAt
  <2>3. \A q \in 0..Len(log') : TableAt(q)' \in [Keys -> Rows \cup {None}]
    <3>1. \A q \in 0..Len(log') : q \in 0..Len(log) \/ q = q0 BY <1>0, <1>3
    <3>2. \A q \in 0..Len(log) : TableAt(q) \in [Keys -> Rows \cup {None}] BY <1>2 DEF LogInv
    <3> QED BY <2>1, <2>2, <3>1, <3>2
  <2>4. ASSUME NEW q \in 1..Len(log') PROVE Logged(log[q], TableAt(q - 1), TableAt(q))'
    <3>1. CASE q \in 1..Len(log)
      <4>1. Logged(log[q], TableAt(q - 1), TableAt(q)) BY <1>2, <3>1 DEF LogInv
      <4>2. log'[q] = log[q] /\ TableAt(q - 1)' = TableAt(q - 1) /\ TableAt(q)' = TableAt(q) BY <1>3, <2>1, <3>1
      <4> QED BY <1>4, <4>1, <4>2, LoggedPrime
    <3>2. CASE q = q0
      <4>1. TableAt(q - 1)' = rows
        <5>1. q - 1 = Len(log) /\ q - 1 \in 0..Len(log) BY <1>0, <1>3, <3>2
        <5>2. TableAt(q - 1)' = TableAt(q - 1) BY <2>1, <5>1
        <5>3. rows = TableAt(Len(log)) BY <1>2 DEF LogInv
        <5> QED BY <5>1, <5>2, <5>3
      <4>2. log'[q] = m /\ TableAt(q)' = newRows BY <1>3, <2>2, <3>2
      <4> QED BY <1>4, <1>b, <4>1, <4>2, LoggedPrime
    <3> QED BY <1>0, <1>3, <3>1, <3>2
  <2>5. rows' = TableAt(Len(log))' BY <1>0, <1>1, <1>3, <1>a DEF TableAt
  <2> QED BY <2>3, <2>4, <2>5 DEF LogInv
<1>7. ParserInv'
  <2>0. base \in Nat BY <1>2 DEF PathTypeInv
  <2>1. \A p : Piece(p)' = Piece(p) BY <1>1 DEF Piece
  <2>2. KeyColumns' = KeyColumns BY <1>4, SettledTuples
  <2>3. Available <= Available' BY <1>1, <1>3, <2>0 DEF Available, Pieces
  <2>4. ASSUME NEW w \in 0..(1 + Len(log)), NEW n \in 0..2, ReadUpTo(w, n) PROVE ReadUpTo(w, n)' /\ w \in 0..(1 + Len(log'))
    <3>1. ReadUpTo(w, n)' BY <1>1, <2>1, <2>2, <2>4 DEF ReadUpTo
    <3> QED BY <3>1, <1>3
  <2>5. Available \in Int /\ Available' \in Int BY <1>1, <1>3, <2>0 DEF Available, Pieces
  <2>6. sent \in Nat BY <1>2 DEF PathTypeInv
  <2> QED BY <1>1, <1>2, <2>3, <2>4, <2>5, <2>6 DEF ParserInv
<1>8. Ids(docs)' BY <1>1, <1>2, <1>4, IdsPrime
<1>9. Fit(docs, excuse, done)'
  <2>1. done' \in Nat /\ Fit(docs', excuse', done') BY <1>1, <1>2 DEF PathTypeInv
  <2> QED BY <1>3, <1>4, <2>1, FitPrime
<1> QED BY <1>5, <1>6, <1>7, <1>8, <1>9 DEF PathInv

\* The table and the settings have their types.
LEMMA RowsTyped ==
    ASSUME PathInv
    PROVE  /\ rows \in [Keys -> Rows \cup {None}]
           /\ source \in {"postgresql", "mysql"} /\ ident \in {"default", "full", "none"}
           /\ source = "mysql" => ident # "full"
<1>1. PathTypeInv /\ LogInv BY DEF PathInv
<1>2. Len(log) \in Nat BY <1>1 DEF PathTypeInv
<1>3. Len(log) \in 0..Len(log) BY <1>2
<1>4. rows \in [Keys -> Rows \cup {None}] BY <1>1, <1>3 DEF LogInv
<1> QED BY <1>1, <1>4 DEF PathTypeInv

\* The four changes of the source.
LEMMA InsertStep ==
    ASSUME PathInv, NEW k \in Keys, Insert(k) PROVE PathInv'
<1>1. PICK r \in Rows : Commit("INSERT", k, k, None, FullTuple(k, r), [rows EXCEPT ![k] = r])
  BY DEF Insert, PossibleRows
<1> DEFINE post == [rows EXCEPT ![k] = r]
           m == [op |-> "INSERT", key |-> k, from |-> k, old |-> None, new |-> FullTuple(k, r), after |-> post]
<1>2. rows \in [Keys -> Rows \cup {None}] /\ rows[k] = None BY RowsTyped DEF Insert
<1>3. post \in [Keys -> Rows \cup {None}] /\ post[k] = r BY <1>2
<1>4. Elsewhere(rows, post, {k}) BY <1>2 DEF Elsewhere
<1> HIDE DEF post
<1>5. Logged(m, rows, post)
  <2>1. m.op = "INSERT" /\ m.key = k /\ m.from = k /\ m.old = None /\ m.new = FullTuple(k, r) OBVIOUS
  <2> HIDE DEF m
  <2> QED BY <1>2, <1>3, <1>4, <2>1 DEF Logged, InsertLogged
<1>6. Commit("INSERT", k, k, None, FullTuple(k, r), post) BY <1>1 DEF post
<1> QED BY <1>3, <1>5, <1>6, CommitStep

\* An update, of the key too, carries the images the invariant asks for.
LEMMA UpdateStep ==
    ASSUME PathInv, NEW k \in Keys, NEW k2 \in Keys, Update(k, k2) PROVE PathInv'
<1> DEFINE old == IF source = "postgresql" /\ ident = "default" /\ k2 = k THEN None ELSE OldTuple(k, rows[k])
<1>1. PICK r \in Rows : Commit("UPDATE", k2, k, old, NewTuple(k2, rows[k], r), [rows EXCEPT ![k] = None, ![k2] = r])
  BY DEF Update, PossibleRows
<1> DEFINE post == [rows EXCEPT ![k] = None, ![k2] = r]
           new == NewTuple(k2, rows[k], r)
           m == [op |-> "UPDATE", key |-> k2, from |-> k, old |-> old, new |-> new, after |-> post]
<1>2. rows \in [Keys -> Rows \cup {None}] /\ rows[k] # None BY RowsTyped DEF Update
<1>3. rows[k] \in Rows BY <1>2
<1>4. post \in [Keys -> Rows \cup {None}] /\ post[k2] = r BY <1>2
<1>5. Elsewhere(rows, post, {k2, k}) BY <1>2 DEF Elsewhere
<1> HIDE DEF post
<1>6. old # None => old = OldTuple(k, rows[k]) OBVIOUS
<1>7. (k2 # k \/ ident = "full") => old # None
  BY NotNone
<1> HIDE DEF old
<1>8. Logged(m, rows, post)
  <2>1. m.op = "UPDATE" /\ m.key = k2 /\ m.from = k /\ m.old = old /\ m.new = NewTuple(k2, rows[k], r) OBVIOUS
  <2> HIDE DEF m
  <2> QED BY <1>3, <1>4, <1>5, <1>6, <1>7, <2>1 DEF Logged, UpdateLogged
<1>9. Commit("UPDATE", k2, k, old, new, post) BY <1>1 DEF post
<1> QED BY <1>4, <1>8, <1>9, CommitStep

\* A delete carries the old image.
LEMMA DeleteStep ==
    ASSUME PathInv, NEW k \in Keys, DeleteRow(k) PROVE PathInv'
<1> DEFINE post == [rows EXCEPT ![k] = None]
           old == OldTuple(k, rows[k])
           m == [op |-> "DELETE", key |-> k, from |-> k, old |-> old, new |-> None, after |-> post]
<1>1. rows \in [Keys -> Rows \cup {None}] /\ rows[k] # None BY RowsTyped DEF DeleteRow
<1>2. rows[k] \in Rows BY <1>1
<1>3. post \in [Keys -> Rows \cup {None}] /\ post[k] = None BY <1>1
<1>4. Elsewhere(rows, post, {k}) BY <1>1 DEF Elsewhere
<1>5. Commit("DELETE", k, k, old, None, post) BY DEF DeleteRow
<1> HIDE DEF post
<1>6. Logged(m, rows, post)
  <2>1. m.op = "DELETE" /\ m.key = k /\ m.from = k /\ m.old = OldTuple(k, rows[k]) /\ m.new = None OBVIOUS
  <2> HIDE DEF m
  <2> QED BY <1>2, <1>3, <1>4, <2>1 DEF Logged, DeleteLogged
<1> QED BY <1>3, <1>5, <1>6, CommitStep

\* A TRUNCATE carries none.
LEMMA TruncateStep ==
    ASSUME PathInv, Truncate PROVE PathInv'
<1> DEFINE post == [k \in Keys |-> None]
           m == [op |-> "TRUNCATE", key |-> "", from |-> "", old |-> None, new |-> None, after |-> post]
<1>1. Commit("TRUNCATE", "", "", None, None, post) BY DEF Truncate
<1>2. post \in [Keys -> Rows \cup {None}] OBVIOUS
<1>3. Logged(m, rows, post)
  <2>1. m.op = "TRUNCATE" /\ m.new = None /\ m.old = None OBVIOUS
  <2> HIDE DEF m
  <2> QED BY <2>1 DEF Logged, TruncateLogged
<1> HIDE DEF post
<1> QED BY <1>1, <1>2, <1>3, CommitStep

\* PathInv holds at the start.
LEMMA PathInitInv == ASSUME PathInit PROVE PathInv
<1> USE DEF PathInit
<1>1. PathTypeInv
  <2>1. IsSeq(log) /\ Len(log) = 0 BY DEF IsSeq
  <2>2. source \in {"postgresql", "mysql"} OBVIOUS
  <2>3. ident \in IF source = "mysql" THEN {"default", "none"} ELSE {"default", "full"}
    <3>1. CASE source = "mysql" BY <3>1
    <3>2. CASE source # "mysql" BY <3>2
    <3> QED BY <3>1, <3>2
  <2> QED BY <2>1, <2>2, <2>3 DEF PathTypeInv
<1>2. Len(log) = 0 OBVIOUS
<1>3. LogInv
  <2>1. TableAt(0) = [k \in Keys |-> None] BY DEF TableAt
  <2>2. TableAt(0) \in [Keys -> Rows \cup {None}] BY <2>1
  <2>3. rows = TableAt(0) BY <2>1
  <2>4. \A q \in 0..Len(log) : q = 0 BY <1>2
  <2>5. ~\E q \in 1..Len(log) : TRUE BY <1>2
  <2> QED BY <1>2, <2>2, <2>3, <2>4, <2>5 DEF LogInv
<1>4. ParserInv
  <2>1. DOMAIN parser = {"logicalBuf", "relation"} /\ parser.logicalBuf = << >> BY DEF NewWALParser
  <2>2. sent <= Available BY <1>2 DEF Available, Pieces
  <2>3. << >> = [j \in 1..0 |-> Piece(Pieces * 0 + j)]
    <3>1. 1..0 = {} OBVIOUS
    <3> QED BY <3>1
  <2>4. ReadUpTo(0, 0) BY <2>1, <2>3 DEF ReadUpTo, Pieces
  <2>5. 0 \in 0..(1 + Len(log)) /\ 0 \in 0..2 BY <1>2
  <2> QED BY <2>1, <2>2, <2>4, <2>5 DEF ParserInv
<1>5. Ids(docs)
  <2>1. DOMAIN docs = {} OBVIOUS
  <2> QED BY <2>1 DEF Ids
<1>6. Fit(docs, excuse, done)
  <2>1. ASSUME NEW k \in Keys, NEW r \in Rows PROVE Follows(docs, k, r, done)
    <3>1. TableAt(0)[k] = None BY DEF TableAt
    <3>2. ExpectedAt(k, r, 0) = {} BY <3>1 DEF ExpectedAt
    <3>3. ShownIn(docs, IdOf(k, r)) = {} BY DEF ShownIn
    <3>4. 0 \in done..Len(log) BY <1>2
    <3> QED BY <3>2, <3>3, <3>4 DEF Follows
  <2> QED BY <2>1 DEF Fit, FollowsAll
<1> QED BY <1>1, <1>3, <1>4, <1>5, <1>6 DEF PathInv

\* What the parser has made of the pieces becomes the session's state.
LEMMA SessionStep ==
    ASSUME PathInv, Settled, UNCHANGED <<rows, log, acked, base>>,
           NEW st, NEW s \in Nat, SessionInv(st, s), s <= Available,
           sent' = s, up' = st.up, parser' = st.parser, done' = st.done, docs' = st.docs, excuse' = st.excuse
    PROVE  PathInv'
<1>1. PathTypeInv /\ LogInv BY DEF PathInv
<1>2. Len(log) \in Nat /\ base \in Nat /\ acked \in Nat /\ done \in Nat /\ acked <= done /\ base <= done
  BY <1>1 DEF PathTypeInv
<1>3. PICK w \in Nat, n \in 0..2 : Received(st, w, n) /\ (st.up => s = 3 * w + n) BY DEF SessionInv
<1>4. /\ DOMAIN st.parser = {"logicalBuf", "relation"} /\ st.up \in BOOLEAN
      /\ st.done \in Nat /\ done <= st.done /\ st.done <= Len(log)
      /\ Ids(st.docs) /\ Fit(st.docs, st.excuse, st.done)
      /\ st.up => /\ w > 0 => st.parser.relation = KeyColumns
                  /\ st.done = base + (IF w = 0 THEN 0 ELSE w - 1)
  BY <1>3 DEF Received, StateInv
<1>5. LogKept BY <1>2 DEF LogKept
<1>6. PathTypeInv'
  <2>1. up' \in BOOLEAN BY <1>4, Zenon
  <2>2. /\ done' \in Nat /\ sent' \in Nat /\ acked' \in Nat /\ base' \in Nat
        /\ acked' <= done' /\ base' <= done' /\ done' <= Len(log')
    BY <1>2, <1>4
  <2> QED BY <1>1, <2>1, <2>2 DEF PathTypeInv, Settled
<1>7. LogInv' BY <1>1, <1>2, LogInvKept
<1>8. ParserInv'
  <2>1. KeyColumns' = KeyColumns BY SettledTuples
  <2>2. \A p : Piece(p)' = Piece(p) BY DEF Piece
  <2>3. Available' = Available BY DEF Available
  <2>4. ASSUME st.up PROVE w \in 0..(1 + Len(log')) /\ ReadUpTo(w, n)'
    <3>1. s = 3 * w + n BY <1>3, <2>4
    <3>2. 3 * w + n <= 3 * (1 + Len(log) - base) BY <3>1 DEF Available, Pieces
    <3>3. w \in 0..(1 + Len(log')) BY <1>2, <3>2
    <3>4. \/ st.parser.logicalBuf = [j \in 1..n |-> Piece(3 * w + j)]
          \/ st.parser.logicalBuf = << >> /\ n = 2
      BY <1>3, <2>4 DEF Received
    <3>5. [j \in 1..n |-> Piece(3 * w + j)]' = [j \in 1..n |-> Piece(3 * w + j)] BY <2>2
    <3> QED BY <1>4, <2>1, <2>4, <3>1, <3>3, <3>4, <3>5 DEF ReadUpTo, Pieces
  <2>5. DOMAIN parser' = {"logicalBuf", "relation"} BY <1>4
  <2>6. CASE ~st.up BY <2>5, <2>6 DEF ParserInv
  <2>7. CASE st.up
    <3>1. sent' <= Available' BY <2>3
    <3> QED BY <2>4, <2>5, <2>7, <3>1 DEF ParserInv
  <2> QED BY <2>6, <2>7
<1>9. Ids(docs)' BY <1>4, IdsPrime
<1>10. Fit(docs, excuse, done)' BY <1>2, <1>4, <1>5, FitPrime
<1> QED BY <1>6, <1>7, <1>8, <1>9, <1>10 DEF PathInv

\* A function on 1..n is a sequence.
LEMMA FunctionIsSeq ==
    ASSUME NEW S, NEW n \in Nat, NEW f \in [1..n -> S] PROVE f \in Seq(S) /\ Len(f) = n
<1>1. f \in Seq(S) BY SeqDef
<1> QED BY <1>1, LenProperties

\* The buffer and the pieces that arrive.
LEMMA Joined ==
    ASSUME NEW w \in Nat, NEW n \in 0..2, NEW b, b = [j \in 1..n |-> Piece(3 * w + j)],
           NEW more \in 1..4, NEW in, in = [i \in 1..more |-> Piece(3 * w + n + i)]
    PROVE  /\ PiecesFrom(b \o in, w, n + more)
           /\ \E S : b \o in \in Seq(S)
<1> DEFINE S == {Piece(p) : p \in Nat}
<1>1. b \in [1..n -> S] /\ in \in [1..more -> S]
  <2>1. \A j \in 1..n : 3 * w + j \in Nat OBVIOUS
  <2>2. \A i \in 1..more : 3 * w + n + i \in Nat OBVIOUS
  <2> QED BY <2>1, <2>2
<1> HIDE DEF S
<1>a. n \in Nat /\ more \in Nat OBVIOUS
<1>2. b \in Seq(S) /\ Len(b) = n BY <1>1, <1>a, FunctionIsSeq
<1>3. in \in Seq(S) /\ Len(in) = more BY <1>1, <1>a, FunctionIsSeq
<1>4. /\ b \o in \in Seq(S)
      /\ Len(b \o in) = n + more
      /\ \A i \in 1..(n + more) : (b \o in)[i] = IF i <= n THEN b[i] ELSE in[i - n]
  BY <1>2, <1>3, ConcatProperties
<1>5. ASSUME NEW j \in 1..(n + more) PROVE (b \o in)[j] = Piece(3 * w + j)
  <2>1. CASE j <= n
    <3>1. j \in 1..n BY <2>1
    <3> QED BY <1>4, <2>1, <3>1
  <2>2. CASE ~(j <= n)
    <3>1. j - n \in 1..more /\ 3 * w + n + (j - n) = 3 * w + j BY <2>2
    <3>2. in[j - n] = Piece(3 * w + n + (j - n)) BY <3>1
    <3>3. (b \o in)[j] = in[j - n] BY <1>4, <2>2
    <3> QED BY <3>1, <3>2, <3>3
  <2> QED BY <2>1, <2>2
<1> QED BY <1>4, <1>5 DEF PiecesFrom

\* parseXLogData: the buffer begins with a message, or it goes on behind a message cut
\* at its marker, which ends the stream.
LEMMA XLogDataStep ==
    ASSUME PathInv, NEW more \in 1..MaxReceived, NEW call, XLogData(more, call) PROVE PathInv'
<1> DEFINE in == [i \in 1..more |-> Piece(sent + i)]
           st0 == [St EXCEPT !.parser.logicalBuf = @ \o in]
           st == ProcessBuffered(st0, call)
<1>1. PathTypeInv /\ LogInv /\ ParserInv /\ Ids(docs) /\ Fit(docs, excuse, done) BY DEF PathInv
<1>2. /\ source = "postgresql" /\ up /\ sent + more <= Available
      /\ up' = st.up /\ parser' = st.parser /\ done' = st.done /\ docs' = st.docs /\ excuse' = st.excuse
      /\ sent' = sent + more
      /\ UNCHANGED <<source, ident, rules, rows, log, acked, base>>
  BY DEF XLogData
<1>3. more \in 1..4 BY DEF MaxReceived, Pieces
<1>4. Len(log) \in Nat /\ base \in Nat /\ sent \in Nat /\ done \in Nat /\ done <= Len(log) BY <1>1 DEF PathTypeInv
<1>5. PICK w \in Nat, n \in 0..2 : ReadUpTo(w, n) BY <1>1, <1>2, <1>4 DEF ParserInv
<1>6. /\ sent = 3 * w + n
      /\ w > 0 => parser.relation = KeyColumns
      /\ done = base + (IF w = 0 THEN 0 ELSE w - 1)
      /\ \/ parser.logicalBuf = [j \in 1..n |-> Piece(3 * w + j)]
         \/ parser.logicalBuf = << >> /\ n = 2
  BY <1>5 DEF ReadUpTo, Pieces
<1> DEFINE buf == parser.logicalBuf \o in
<1>7. DOMAIN parser = {"logicalBuf", "relation"} BY <1>1 DEF ParserInv
<1>8. /\ DOMAIN st0 = {"up", "parser", "docs", "excuse", "done"}
      /\ DOMAIN st0.parser = {"logicalBuf", "relation"}
      /\ st0.up = TRUE /\ st0.parser.logicalBuf = buf /\ st0.parser.relation = parser.relation
      /\ st0.docs = docs /\ st0.excuse = excuse /\ st0.done = done
  BY <1>7 DEF St
<1> HIDE DEF st0, buf
<1>9. StateInv(st0, w)
  <2>1. st0.up \in BOOLEAN BY <1>8
  <2> QED BY <1>1, <1>4, <1>6, <1>8, <2>1 DEF StateInv
<1>10. SessionInv(st, sent + more)
  <2>1. in = [i \in 1..more |-> Piece(3 * w + n + i)] BY <1>6
  <2> HIDE DEF in
  <2>2. CASE parser.logicalBuf = [j \in 1..n |-> Piece(3 * w + j)]
    <3>1. PiecesFrom(buf, w, n + more) /\ \E S : buf \in Seq(S)
      BY <1>3, <2>1, <2>2, Joined DEF buf
    <3>2. PICK S : buf \in Seq(S) BY <3>1
    <3> DEFINE len == n + more
    <3>3. len \in 1..6 /\ 3 * w + len = sent + more
      <4>1. sent = 3 * w + n BY <1>6
      <4> QED BY <1>3, <4>1
    <3>4. PiecesFrom(buf, w, len) /\ 3 * w + len <= Available BY <1>2, <3>1, <3>3
    <3> HIDE DEF len
    <3>5. SessionInv(st, 3 * w + len)
      BY <1>1, <1>2, <1>8, <1>9, <3>2, <3>3, <3>4, ProcessBufferedState
    <3> QED BY <3>3, <3>5
  <2>3. CASE parser.logicalBuf = << >> /\ n = 2
    <3>1. buf = in
      <4>1. in \in Seq({in[i] : i \in 1..more})
        <5> DEFINE T == {in[i] : i \in 1..more}
        <5>1. in \in [1..more -> T] BY <2>1
        <5>2. more \in Nat BY <1>3
        <5> HIDE DEF T
        <5>3. in \in Seq(T) BY <5>1, <5>2, SeqDef
        <5> QED BY <5>3 DEF T
      <4> QED BY <2>3, <4>1, ConcatEmptySeq DEF buf
    <3>2. buf[1] = Piece(3 * w + 3)
      <4>1. 1 \in 1..more /\ 3 * w + 2 + 1 = 3 * w + 3 BY <1>3
      <4> QED BY <2>1, <2>3, <3>1, <4>1
    <3>3. Piece(3 * w + 3).part = 3 BY <1>4, PieceAt
    <3>4. st = [st0 EXCEPT !.up = FALSE] BY <1>8, <3>2, <3>3 DEF ProcessBuffered, Pieces
    <3>5. StateInv(st, w) BY <1>9, <3>4, EndState
    <3>6. ~st.up BY <1>8, <3>4
    <3>7. Received(st, w, 0) BY <3>5, <3>6 DEF Received
    <3> QED BY <3>6, <3>7 DEF SessionInv
  <2> QED BY <1>6, <2>2, <2>3
<1> HIDE DEF st
<1>11. sent + more \in Nat BY <1>3, <1>4
<1>12. Settled BY <1>2 DEF Settled
<1> QED BY <1>2, <1>10, <1>11, <1>12, SessionStep

\* A MySQL rows event.
LEMMA OnEventStep ==
    ASSUME PathInv, NEW call, OnEvent(call) PROVE PathInv'
<1>1. PathTypeInv /\ LogInv /\ ParserInv /\ Ids(docs) /\ Fit(docs, excuse, done) BY DEF PathInv
<1> DEFINE m == log[done + 1]
           e == HandleRow(m)
           t == TransformEvents(e, call)
           d2 == WriteDoc(docs, e, t, call)
           x2 == [k \in Keys |-> Excuse(St, m, k, t.res, call)]
<1>2. /\ source = "mysql" /\ done < Len(log)
      /\ UNCHANGED <<source, ident, rules, rows, log, acked, up, base, sent, parser>>
  BY DEF OnEvent
<1>3. docs' = d2 /\ excuse' = x2 /\ done' = done + 1
  BY DEF OnEvent, Deliver, Written, St
<1>4. /\ Len(log) \in Nat /\ base \in Nat /\ acked \in Nat /\ done \in Nat /\ acked <= done /\ base <= done
      /\ done + 1 <= Len(log)
  BY <1>1, <1>2 DEF PathTypeInv
<1>5. Logged(m, TableAt(done), TableAt(done + 1)) BY <1>1, <1>4, LogAt
<1>a. St.docs = docs /\ St.excuse = excuse /\ St.done = done BY DEF St
<1>7. Fit(d2, x2, done + 1) /\ Ids(d2)
  <2>1. CASE ident = "none"
    <3>1. e.ok => e.pk = <<"">> BY <2>1 DEF HandleRow
    <3> HIDE DEF e
    <3> QED BY <2>1, <3>1, <1>1, <1>4, <1>5, <1>a, DeliverUnnamed
  <2>2. CASE ident = "default"
    <3>1. Decoded(m, TableAt(done), TableAt(done + 1), e) BY <1>2, <1>5, <2>2, DecodedByHandler
    <3> HIDE DEF e
    <3>2. Fit(d2, x2, done + 1)
      BY <1>1, <1>4, <1>5, <2>2, <3>1, <1>a, DeliverFits
    <3>3. t.res = "sent" => \E k \in Keys, r \in Rows : e.pk = IdOf(k, r)
      BY <1>5, <3>1, TransformedAs, DecodedId DEF Decoded
    <3>4. Ids(d2) BY <1>1, <3>3, WriteIds
    <3> QED BY <3>2, <3>4
  <2> QED BY <1>1, <1>2, <2>1, <2>2 DEF PathTypeInv
<1> HIDE DEF e
<1> HIDE DEF d2, x2, t, m
<1>10. Settled /\ LogKept BY <1>2, <1>4 DEF Settled, LogKept
<1>11. PathTypeInv' BY <1>1, <1>2, <1>3, <1>4 DEF PathTypeInv
<1>12. LogInv' BY <1>1, <1>2, <1>4, <1>10, LogInvKept
<1>13. ParserInv' BY <1>1, <1>2 DEF ParserInv
<1>14. Ids(docs)' BY <1>3, <1>7, <1>10, IdsPrime
<1>15. Fit(docs, excuse, done)'
  <2>1. done' \in Nat /\ Fit(docs', excuse', done') BY <1>3, <1>4, <1>7
  <2> QED BY <1>4, <1>10, <2>1, FitPrime
<1> QED BY <1>11, <1>12, <1>13, <1>14, <1>15 DEF PathInv

\* Everything else leaves the log, the index and the excuses alone, and decodes no change.
LEMMA QuietStep ==
    ASSUME PathInv, Settled, UNCHANGED <<rows, log, docs, excuse>>,
           up' \in BOOLEAN, base' \in Nat, sent' \in Nat, done' \in Nat, acked' \in Nat,
           acked' <= done', base' <= done', done' <= done, ParserInv'
    PROVE  PathInv'
<1>1. PathTypeInv /\ LogInv /\ Ids(docs) /\ Fit(docs, excuse, done) BY DEF PathInv
<1>2. Len(log) \in Nat /\ done \in Nat /\ done <= Len(log) BY <1>1 DEF PathTypeInv
<1>3. LogKept BY <1>2 DEF LogKept
<1>4. PathTypeInv'
  <2>1. up' \in BOOLEAN OBVIOUS
  <2>2. done' <= Len(log') BY <1>2
  <2> QED BY <1>1, <2>1, <2>2 DEF PathTypeInv, Settled
<1>5. LogInv' BY <1>1, <1>2, LogInvKept
<1>6. Ids(docs)' BY <1>1, IdsPrime
<1>7. Fit(docs, excuse, done)'
  <2>1. Fit(docs, excuse, done') BY <1>1, <1>2, FitEarlier
  <2>2. Fit(docs', excuse', done') BY <2>1
  <2> QED BY <1>2, <1>3, <2>2, FitPrime
<1> QED BY <1>4, <1>5, <1>6, <1>7 DEF PathInv

\* A session that goes on as it was.
LEMMA ParserKept ==
    ASSUME ParserInv, Settled, UNCHANGED <<log, base, sent, parser, done>>, up' = up \/ ~up' PROVE ParserInv'
<1>1. \A p : Piece(p)' = Piece(p) BY DEF Piece
<1>2. KeyColumns' = KeyColumns BY SettledTuples
<1>3. Available' = Available BY DEF Available
<1>4. ASSUME NEW w, NEW n, ReadUpTo(w, n) PROVE ReadUpTo(w, n)'
  BY <1>1, <1>2, <1>4 DEF ReadUpTo
<1>5. DOMAIN parser' = {"logicalBuf", "relation"} BY DEF ParserInv
<1>6. ASSUME source' = "postgresql", up'
      PROVE  sent' <= Available' /\ \E w \in 0..(1 + Len(log')), n \in 0..2 : ReadUpTo(w, n)'
  <2>1. source = "postgresql" /\ up BY <1>6 DEF Settled
  <2>2. sent <= Available /\ \E w \in 0..(1 + Len(log)), n \in 0..2 : ReadUpTo(w, n) BY <2>1 DEF ParserInv
  <2> QED BY <1>3, <1>4, <2>2
<1> QED BY <1>5, <1>6 DEF ParserInv

\* Confirmations, a broken stream, and stuttering.
LEMMA QuietSteps ==
    ASSUME PathInv,
           \/ \E p \in 0..Len(log) : StatusUpdate(p)
           \/ PrimaryKeepalive
           \/ ConnectionBreaks
           \/ UNCHANGED pathVars
    PROVE  PathInv'
<1>1. PathTypeInv /\ ParserInv BY DEF PathInv
<1>2. /\ Len(log) \in Nat /\ base \in Nat /\ acked \in Nat /\ done \in Nat /\ acked <= done /\ base <= done
      /\ sent \in Nat /\ up \in BOOLEAN
  BY <1>1 DEF PathTypeInv
<1>3. Settled /\ UNCHANGED <<rows, log, docs, excuse, base, sent, parser, done>>
  BY DEF StatusUpdate, PrimaryKeepalive, ConnectionBreaks, pathVars, session, Settled
<1>4. acked' \in Nat /\ acked' <= done
  <2>1. ASSUME NEW p \in 0..Len(log), StatusUpdate(p) PROVE acked' \in Nat /\ acked' <= done
    <3>1. acked' = p /\ p \in {done - 1, done} /\ p \in Nat BY <2>1, <1>2 DEF StatusUpdate
    <3> QED BY <1>2, <3>1
  <2>2. CASE PrimaryKeepalive BY <1>2, <2>2 DEF PrimaryKeepalive
  <2>3. CASE ConnectionBreaks BY <1>2, <2>3 DEF ConnectionBreaks
  <2>4. CASE UNCHANGED pathVars BY <1>2, <2>4 DEF pathVars
  <2> QED BY <2>1, <2>2, <2>3, <2>4
<1>5. up' = up \/ up' = FALSE
  BY DEF StatusUpdate, PrimaryKeepalive, ConnectionBreaks, pathVars, session
<1>6. up' \in BOOLEAN BY <1>2, <1>5
<1>7. ParserInv' BY <1>1, <1>3, <1>5, ParserKept
<1> QED BY <1>2, <1>3, <1>4, <1>6, <1>7, QuietStep

\* Decoding starts again behind what was confirmed.
LEMMA ReconnectStep == ASSUME PathInv, Reconnect PROVE PathInv'
<1>1. PathTypeInv BY DEF PathInv
<1>2. Len(log) \in Nat /\ acked \in Nat /\ done \in Nat /\ acked <= done /\ done <= Len(log) BY <1>1 DEF PathTypeInv
<1>3. /\ up' = TRUE /\ base' = acked /\ sent' = 0 /\ parser' = NewWALParser /\ done' = acked
      /\ UNCHANGED <<rows, log, acked, docs, excuse>> /\ Settled
  BY DEF Reconnect, Settled
<1>4. ParserInv'
  <2>1. DOMAIN parser' = {"logicalBuf", "relation"} /\ parser'.logicalBuf = << >> BY <1>3 DEF NewWALParser
  <2>2. sent' <= Available' BY <1>2, <1>3 DEF Available, Pieces
  <2>3. << >> = [j \in 1..0 |-> Piece(Pieces * 0 + j)]'
    <3>1. 1..0 = {} OBVIOUS
    <3> QED BY <3>1
  <2>4. ReadUpTo(0, 0)' BY <1>2, <1>3, <2>1, <2>3 DEF ReadUpTo, Pieces
  <2>5. 0 \in 0..(1 + Len(log')) /\ 0 \in 0..2 BY <1>2, <1>3
  <2> QED BY <2>1, <2>2, <2>4, <2>5 DEF ParserInv
<1>5. up' \in BOOLEAN BY <1>3
<1> QED BY <1>2, <1>3, <1>4, <1>5, QuietStep

\* Every step preserves PathInv.
LEMMA PathNextInv == ASSUME PathInv, [PathNext]_pathVars PROVE PathInv'
<1>1. ASSUME NEW k \in Keys, Insert(k) PROVE PathInv' BY <1>1, InsertStep
<1>2. ASSUME NEW k \in Keys, NEW k2 \in Keys, Update(k, k2) PROVE PathInv' BY <1>2, UpdateStep
<1>3. ASSUME NEW k \in Keys, DeleteRow(k) PROVE PathInv' BY <1>3, DeleteStep
<1>4. CASE Truncate BY <1>4, TruncateStep
<1>5. ASSUME NEW n \in 1..MaxReceived, NEW call \in Calls, XLogData(n, call) PROVE PathInv' BY <1>5, XLogDataStep
<1>6. ASSUME NEW call \in Calls, OnEvent(call) PROVE PathInv' BY <1>6, OnEventStep
<1>7. CASE Reconnect BY <1>7, ReconnectStep
<1>8. CASE \/ \E p \in 0..Len(log) : StatusUpdate(p)
           \/ PrimaryKeepalive
           \/ ConnectionBreaks
           \/ UNCHANGED pathVars
  BY <1>8, QuietSteps
<1> QED BY <1>1, <1>2, <1>3, <1>4, <1>5, <1>6, <1>7, <1>8 DEF PathNext, ReceiveData

\* Once every change is decoded nothing is pending, and the table to follow is rows.
LEMMA FollowedRows == ASSUME PathInv PROVE DocsFollowRows
<1>1. PathTypeInv /\ LogInv /\ Ids(docs) /\ Fit(docs, excuse, done) BY DEF PathInv
<1>2. Len(log) \in Nat BY <1>1 DEF PathTypeInv
<1>3. rows = TableAt(Len(log)) /\ rows \in [Keys -> Rows \cup {None}] BY <1>1, RowsTyped DEF LogInv
<1> SUFFICES ASSUME CaughtUp, NEW k \in Keys, excuse[k] = "none"
             PROVE  LET ids == {id \in DOMAIN docs : id[1] = k}
                    IN  /\ {docs[id].doc : id \in ids} = Expected(k)
                        /\ Cardinality(ids) <= 1
  BY DEF DocsFollowRows
<1> DEFINE ids == {id \in DOMAIN docs : id[1] = k}
<1>4. done = Len(log) BY DEF CaughtUp
<1>5. ~Pending(k, done) BY <1>2, <1>4 DEF Pending
<1>6. FollowsAll(docs, k, done) BY <1>1, <1>5 DEF Fit
<1>7. ASSUME NEW r \in Rows
      PROVE  ShownIn(docs, IdOf(k, r)) =
               IF rows[k] = None \/ IdOf(k, rows[k]) # IdOf(k, r) THEN {} ELSE Expected(k)
  <2>1. PICK q \in done..Len(log) : ShownIn(docs, IdOf(k, r)) = ExpectedAt(k, r, q) BY <1>6 DEF FollowsAll, Follows
  <2>2. q = Len(log) BY <1>2, <1>4, <2>1
  <2>3. TableAt(q) = rows BY <1>3, <2>2
  <2>4. RowData(k) = RowDataOf(k, rows[k]) BY DEF RowData, RowDataOf
  <2> QED BY <2>1, <2>3, <2>4 DEF ExpectedAt, Expected
<1>8. \A id \in ids : \E r \in Rows : id = IdOf(k, r)
  <2>1. ASSUME NEW id \in DOMAIN docs, id[1] = k PROVE \E r \in Rows : id = IdOf(k, r)
    <3>1. PICK j \in Keys, r \in Rows : id = IdOf(j, r) BY <1>1, <2>1, EventPathAssumption DEF Ids
    <3>2. id[1] = j BY <3>1, IdFirst
    <3> QED BY <2>1, <3>1, <3>2
  <2> QED BY <2>1
<1>9. CASE rows[k] = None
  <2>1. ids = {}
    <3>1. ASSUME NEW id \in ids PROVE FALSE
      <4>1. PICK r \in Rows : id = IdOf(k, r) BY <1>8
      <4>2. ShownIn(docs, IdOf(k, r)) = {} BY <1>7, <1>9
      <4> QED BY <4>1, <4>2 DEF ShownIn
    <3> QED BY <3>1
  <2> HIDE DEF ids
  <2>2. {docs[id].doc : id \in ids} = {} BY <2>1
  <2>3. Cardinality(ids) = 0 BY <2>1, FS_EmptySet
  <2>4. Expected(k) = {} BY <1>9 DEF Expected
  <2> QED BY <2>2, <2>3, <2>4 DEF ids
<1>10. CASE rows[k] # None
  <2> DEFINE r0 == rows[k]
             id0 == IdOf(k, r0)
  <2>1. r0 \in Rows BY <1>3, <1>10
  <2>2. ids \subseteq {id0}
    <3>1. ASSUME NEW id \in ids PROVE id = id0
      <4>1. PICK r \in Rows : id = IdOf(k, r) BY <1>8
      <4>2. IdOf(k, r) # id0 => ShownIn(docs, IdOf(k, r)) = {} BY <1>7
      <4> QED BY <4>1, <4>2 DEF ShownIn
    <3> QED BY <3>1
  <2>3. ShownIn(docs, id0) = Expected(k) BY <1>7, <1>10, <2>1
  <2>4. id0[1] = k BY IdFirst
  <2>5. CASE id0 \in DOMAIN docs
    <3>1. ids = {id0} BY <2>2, <2>4, <2>5
    <3>2. {docs[id].doc : id \in ids} = {docs[id0].doc} BY <3>1
    <3>3. Cardinality({id0}) = 1 BY FS_Singleton
    <3>4. Expected(k) = {docs[id0].doc} BY <2>3, <2>5 DEF ShownIn
    <3> HIDE DEF ids, id0
    <3> QED BY <3>1, <3>2, <3>3, <3>4 DEF ids
  <2>6. CASE id0 \notin DOMAIN docs
    <3>1. ids = {} BY <2>2, <2>6
    <3> HIDE DEF ids, id0
    <3>2. {docs[id].doc : id \in ids} = {} BY <3>1
    <3>3. Cardinality(ids) = 0 BY <3>1, FS_EmptySet
    <3>4. Expected(k) = {} BY <2>3, <2>6 DEF ShownIn
    <3> QED BY <3>2, <3>3, <3>4 DEF ids
  <2> QED BY <2>5, <2>6
<1> QED BY <1>9, <1>10

\* Once every change is decoded, the index holds for every key without an excuse exactly the
\* document the rules make of its row: for any table, any keys, any transform engine and any
\* number of changes, cut messages, repeated deliveries and failed calls.
THEOREM DocsFollowRowsHolds == PathSpec => []DocsFollowRows
<1>1. PathInit => PathInv BY PathInitInv
<1>2. PathInv /\ [PathNext]_pathVars => PathInv' BY PathNextInv
<1>3. PathInv => DocsFollowRows BY FollowedRows
<1> QED BY <1>1, <1>2, <1>3, PTL DEF PathSpec
=============================================================================
