------------------------------- MODULE PgSlots -------------------------------
(***************************************************************************)
(* What the PostgreSQL connectors of several jobs do to the one server they *)
(* share (internal/connectors/postgresql/postgresql.go, lsn_manager.go):    *)
(* the publication all jobs use, the replication slot of each job, and the  *)
(* checkpoint file.  A job copies its tables (one BeginSnapshot per table,  *)
(* each of which ensures publication and slot first) and then streams       *)
(* (Start, again and again after failures).  Every SQL statement is a step  *)
(* of its own: statements of two jobs interleave.                           *)
(*                                                                          *)
(* The server's log is the sequence of changes 1, 2, ..., wal; a slot at    *)
(* position p still has all changes after p.  The server itself is external *)
(* and does what the connector relies on: it refuses to create what exists, *)
(* to drop an active slot and to stream from a missing or active one.       *)
(***************************************************************************)
EXTENDS Naturals, FiniteSets

CONSTANTS
    Jobs,        \* the PostgreSQL jobs of the process
    Tables,      \* the tables of the database
    Filters,     \* Filters[j]: the table_filters of job j, {} for all tables
    MaxWal,      \* bound: changes committed at the source
    MaxFailures, \* bound: streams the network breaks
    MaxCrashes   \* bound: crashes of the process

ASSUME PgAssumption ==
    /\ Filters \in [Jobs -> SUBSET Tables]
    /\ MaxWal \in Nat /\ MaxFailures \in Nat /\ MaxCrashes \in Nat

VARIABLES
    wal,        \* the last change of the server's log
    pub,        \* tables of elasticrelay_publication
    pubExists,  \* whether it exists
    slot,       \* slot[j]: confirmed position of j's slot, Gone without one
    active,     \* active[j]: whether a server process streams from that slot
    pc,         \* pc[j]: the next statement of job j
    todo,       \* todo[j]: tables to add, or slots to drop, as last read
    left,       \* left[j]: tables still to be copied
    lsn,        \* lsn[j]: the position createReplicationSlot returned
    cp,         \* cp[j]: j.lastCp, 0 for nil
    faults,     \* broken streams and crashes so far
    file,       \* postgresql_checkpoints.json: position of each job, 0 for no entry
    view        \* view[j]: the map SaveCheckpoint of job j has loaded

\* History.
VARIABLES
    covered,    \* covered[j]: all changes up to here are copied or streamed,
                \* MaxWal + 1 while the job has promised nothing
    gap,        \* jobs whose stream started behind a change nobody handled
    robbed,     \* jobs whose slot the cleanup of another job dropped
    committed,  \* committed[j]: the position of j's last successful commit
    overlapped, \* jobs whose entry a write of another job put back
    torn        \* whether a crash cut a write of the file short

server  == <<wal, pub, pubExists, slot, active>>
cpFile  == <<file, view, committed, overlapped, torn>>
vars    == <<wal, pub, pubExists, slot, active, pc, todo, left, lsn, cp, faults,
             file, view, covered, gap, robbed, committed, overlapped, torn>>

Gone == MaxWal + 1
Empty == [j \in Jobs |-> 0]
Unread == [j \in Jobs |-> MaxWal + 1]

Step == {"publication", "create_pub", "publish", "list", "drop", "check", "resume", "create",
         "copy", "verify", "connect", "streaming", "dead"}

Larger(a, b) == IF a < b THEN b ELSE a

\* The tables a job wants: without filters, all.
Wanted(j) == IF Filters[j] = {} THEN Tables ELSE Filters[j]

\* The statement after slot and publication are there.
AfterSlot(j) == IF left[j] # {} THEN "copy" ELSE "verify"

\* An error of BeginSnapshot ends the job's run; one of Start is logged and
\* startCDC tries again from lastCp.
OnError(j) == IF left[j] # {} THEN "dead" ELSE "publication"

Init ==
    /\ wal = 0 /\ pub = {} /\ pubExists = FALSE
    /\ slot = [j \in Jobs |-> Gone] /\ active = [j \in Jobs |-> FALSE]
    /\ pc = [j \in Jobs |-> "publication"] /\ todo = [j \in Jobs |-> {}]
    /\ left = Filters /\ lsn = Empty /\ cp = Empty
    /\ faults = [failures |-> 0, crashes |-> 0]
    /\ file = Empty /\ view = [j \in Jobs |-> Unread]
    /\ covered = Unread
    /\ gap = {} /\ robbed = {} /\ committed = Empty /\ overlapped = {}
    /\ torn = FALSE

Goto(j, s) == pc' = [pc EXCEPT ![j] = s]

-----------------------------------------------------------------------------
\* A change is committed at the source.
SourceCommit ==
    /\ wal < MaxWal
    /\ wal' = wal + 1
    /\ UNCHANGED <<pub, pubExists, slot, active, pc, todo, left, lsn, cp, faults,
                   cpFile, covered, gap, robbed>>

\* Mutant of ReadPublication: an existing publication is taken as it is.
ReadPublicationAsIs(j) ==
    /\ pc[j] = "publication"
    /\ todo' = [todo EXCEPT ![j] = IF pubExists THEN {} ELSE Wanted(j)]
    /\ Goto(j, IF pubExists THEN "list" ELSE "create_pub")
    /\ UNCHANGED <<server, left, lsn, cp, faults, cpFile, covered, gap, robbed>>

\* createPublication looks for the publication and, with filters, for the
\* tables it lacks.
ReadPublication(j) ==
    /\ pc[j] = "publication"
    /\ LET missing == IF pubExists THEN Filters[j] \ pub ELSE Wanted(j)
       IN /\ todo' = [todo EXCEPT ![j] = missing]
          /\ Goto(j, IF pubExists /\ missing = {} THEN "list"
                     ELSE IF pubExists THEN "publish" ELSE "create_pub")
    /\ UNCHANGED <<server, left, lsn, cp, faults, cpFile, covered, gap, robbed>>

\* CREATE PUBLICATION: refused if another job was faster.
CreatePublication(j) ==
    /\ pc[j] = "create_pub"
    /\ IF pubExists
       THEN Goto(j, OnError(j)) /\ UNCHANGED <<pub, pubExists>>
       ELSE /\ Goto(j, "list")
            /\ pub' = todo[j]
            /\ pubExists' = TRUE
    /\ todo' = [todo EXCEPT ![j] = {}]
    /\ UNCHANGED <<wal, slot, active, left, lsn, cp, faults, cpFile, covered, gap,
                   robbed>>

\* ALTER PUBLICATION ADD TABLE: refused if a table is in it by now.
AlterPublication(j) ==
    /\ pc[j] = "publish"
    /\ IF todo[j] \cap pub # {}
       THEN Goto(j, OnError(j)) /\ UNCHANGED pub
       ELSE Goto(j, "list") /\ pub' = pub \cup todo[j]
    /\ todo' = [todo EXCEPT ![j] = {}]
    /\ UNCHANGED <<wal, pubExists, slot, active, left, lsn, cp, faults, cpFile,
                   covered, gap, robbed>>

-----------------------------------------------------------------------------
(* createReplicationSlot.                                                  *)

\* Mutant of StaleSlots: the job's own slot is not left out.
AllInactiveSlots(j) == {k \in Jobs : slot[k] # Gone /\ ~active[k]}

\* The slots cleanupOldReplicationSlots selects: with the common prefix,
\* inactive, not the job's own.
StaleSlots(j) == {k \in Jobs \ {j} : slot[k] # Gone /\ ~active[k]}

ListSlots(j) ==
    /\ pc[j] = "list"
    /\ todo' = [todo EXCEPT ![j] = StaleSlots(j)]
    /\ Goto(j, "drop")
    /\ UNCHANGED <<server, left, lsn, cp, faults, cpFile, covered, gap, robbed>>

\* Drop the listed slots one by one; the server refuses an active or missing
\* one, which is logged.
DropSlot(j) ==
    /\ pc[j] = "drop"
    /\ \E k \in todo[j] :
          /\ todo' = [todo EXCEPT ![j] = @ \ {k}]
          /\ IF slot[k] = Gone \/ active[k]
             THEN UNCHANGED <<slot, robbed>>
             ELSE /\ slot' = [slot EXCEPT ![k] = Gone]
                  /\ robbed' = IF k = j THEN robbed ELSE robbed \cup {k}
    /\ UNCHANGED <<wal, pub, pubExists, active, pc, left, lsn, cp, faults, cpFile,
                   covered, gap>>

\* Mutant of CheckSlot: a slot that exists is an error, in use or not.
CheckSlotMustBeNew(j) ==
    /\ pc[j] = "drop"
    /\ todo[j] = {}
    /\ Goto(j, IF slot[j] = Gone THEN "create" ELSE OnError(j))
    /\ UNCHANGED <<server, todo, left, lsn, cp, faults, cpFile, covered, gap, robbed>>

\* All dropped: does the job's slot exist, and is it in use?
CheckSlot(j) ==
    /\ pc[j] = "drop"
    /\ todo[j] = {}
    /\ Goto(j, IF slot[j] = Gone THEN "create"
               ELSE IF active[j] THEN OnError(j) ELSE "resume")
    /\ UNCHANGED <<server, todo, left, lsn, cp, faults, cpFile, covered, gap, robbed>>

\* getReplicationSlotResumeLSN: the confirmed position.
ResumeSlot(j) ==
    /\ pc[j] = "resume"
    /\ IF slot[j] = Gone
       THEN Goto(j, OnError(j)) /\ UNCHANGED lsn
       ELSE Goto(j, AfterSlot(j)) /\ lsn' = [lsn EXCEPT ![j] = slot[j]]
    /\ UNCHANGED <<server, todo, left, cp, faults, cpFile, covered, gap, robbed>>

\* pg_create_logical_replication_slot: at the end of the log.
CreateSlot(j) ==
    /\ pc[j] = "create"
    /\ slot' = [slot EXCEPT ![j] = wal]
    /\ lsn' = [lsn EXCEPT ![j] = wal]
    /\ Goto(j, AfterSlot(j))
    /\ UNCHANGED <<wal, pub, pubExists, active, todo, left, cp, faults, cpFile,
                   covered, gap, robbed>>

-----------------------------------------------------------------------------
(* BeginSnapshot and startLogicalReplication.                              *)

\* The rows of one table, as they are now.  Its chunks carry the position of
\* the slot; an empty table has none.
CopyTable(j) ==
    /\ pc[j] = "copy"
    /\ \E t \in left[j] : left' = [left EXCEPT ![j] = @ \ {t}]
    /\ \E c \in {cp[j], lsn[j]} : cp' = [cp EXCEPT ![j] = c]
    /\ covered' = IF covered[j] > MaxWal THEN [covered EXCEPT ![j] = wal] ELSE covered
    /\ Goto(j, "publication")
    /\ UNCHANGED <<server, todo, lsn, faults, cpFile, gap, robbed>>

\* verifyReplicationSlotReady
VerifySlot(j) ==
    /\ pc[j] = "verify"
    /\ Goto(j, IF slot[j] = Gone THEN OnError(j) ELSE "connect")
    /\ UNCHANGED <<server, todo, left, lsn, cp, faults, cpFile, covered, gap, robbed>>

\* START_REPLICATION at the checkpoint, without one at the slot's position; the
\* server never starts behind the slot.  The first status message confirms it.
StartReplication(j) ==
    /\ pc[j] = "connect"
    /\ LET from == Larger(IF cp[j] > 0 THEN cp[j] ELSE lsn[j], slot[j])
       IN IF slot[j] = Gone \/ active[j]
          THEN Goto(j, OnError(j)) /\ UNCHANGED <<slot, active, covered, gap>>
          ELSE /\ Goto(j, "streaming")
               /\ active' = [active EXCEPT ![j] = TRUE]
               /\ slot' = [slot EXCEPT ![j] = from]
               /\ covered' = IF covered[j] > MaxWal \/ covered[j] < from
                             THEN [covered EXCEPT ![j] = from] ELSE covered
               /\ gap' = IF covered[j] < from THEN gap \cup {j} ELSE gap
    /\ UNCHANGED <<wal, pub, pubExists, todo, left, lsn, cp, faults, cpFile, robbed>>

\* A change arrives, is flushed and becomes the checkpoint (CdcPipeline has
\* the steps between).
Receive(j) ==
    /\ pc[j] = "streaming"
    /\ covered[j] < wal
    /\ covered' = [covered EXCEPT ![j] = @ + 1]
    /\ cp' = [cp EXCEPT ![j] = covered[j] + 1]
    /\ UNCHANGED <<server, pc, todo, left, lsn, faults, cpFile, gap, robbed>>

\* A status message confirms what was received.
Confirm(j) ==
    /\ pc[j] = "streaming"
    /\ slot[j] < covered[j]
    /\ slot' = [slot EXCEPT ![j] = covered[j]]
    /\ UNCHANGED <<wal, pub, pubExists, active, pc, todo, left, lsn, cp, faults, cpFile,
                   covered, gap, robbed>>

\* The stream breaks; startCDC will start again.
StreamBreaks(j) ==
    /\ pc[j] = "streaming"
    /\ faults.failures < MaxFailures
    /\ faults' = [faults EXCEPT !.failures = @ + 1]
    /\ Goto(j, "publication")
    /\ UNCHANGED <<server, todo, left, lsn, cp, cpFile, covered, gap, robbed>>

\* The server notices that the client is gone.
ServerReleases(j) ==
    /\ active[j]
    /\ pc[j] # "streaming"
    /\ active' = [active EXCEPT ![j] = FALSE]
    /\ UNCHANGED <<wal, pub, pubExists, slot, pc, todo, left, lsn, cp, faults, cpFile,
                   covered, gap, robbed>>

-----------------------------------------------------------------------------
(* CommitCheckpoint.  Each call makes an LSNManager with a mutex of its own, *)
(* so load and write of two jobs interleave.                               *)

LoadCheckpoints(j) ==
    /\ cp[j] # committed[j]
    /\ cp[j] > 0
    /\ view[j] = Unread
    /\ view' = [view EXCEPT ![j] = file]
    /\ UNCHANGED <<server, pc, todo, left, lsn, cp, faults, file, covered, gap, robbed,
                   committed, overlapped, torn>>

\* Mutant of WriteCheckpoints: the loaded map is not used.
WriteOwnCheckpoint(j) ==
    /\ view[j] # Unread
    /\ file' = [Empty EXCEPT ![j] = cp[j]]
    /\ view' = [view EXCEPT ![j] = Unread]
    /\ committed' = [committed EXCEPT ![j] = cp[j]]
    /\ overlapped' = (overlapped \cup {k \in Jobs : file[k] # view[j][k]}) \ {j}
    /\ UNCHANGED <<server, pc, todo, left, lsn, cp, faults, covered, gap, robbed, torn>>

WriteCheckpoints(j) ==
    /\ view[j] # Unread
    /\ file' = [view[j] EXCEPT ![j] = cp[j]]
    /\ view' = [view EXCEPT ![j] = Unread]
    /\ committed' = [committed EXCEPT ![j] = cp[j]]
    /\ overlapped' = (overlapped \cup {k \in Jobs : file[k] # view[j][k]}) \ {j}
    /\ UNCHANGED <<server, pc, todo, left, lsn, cp, faults, covered, gap, robbed, torn>>

\* The process dies and starts again.  A write that had begun may leave a file
\* that does not parse, which SaveCheckpoint takes for an empty one.  A job with
\* documents in the target does not copy again (needsInitialSync).
Crash ==
    /\ faults.crashes < MaxCrashes
    /\ faults' = [faults EXCEPT !.crashes = @ + 1]
    /\ file' \in IF \E j \in Jobs : view[j] # Unread THEN {file, Empty} ELSE {file}
    /\ torn' = (torn \/ file' # file)
    /\ view' = [j \in Jobs |-> Unread]
    /\ pc' = [j \in Jobs |-> "publication"]
    /\ todo' = [j \in Jobs |-> {}]
    /\ left' = [j \in Jobs |-> IF left[j] = Filters[j] THEN left[j] ELSE {}]
    /\ lsn' = Empty /\ cp' = Empty
    /\ UNCHANGED <<server, covered, gap, robbed, committed, overlapped>>

JobStep(j) ==
    \/ ReadPublication(j) \/ CreatePublication(j) \/ AlterPublication(j)
    \/ ListSlots(j) \/ DropSlot(j) \/ CheckSlot(j) \/ ResumeSlot(j) \/ CreateSlot(j)
    \/ CopyTable(j) \/ VerifySlot(j) \/ StartReplication(j) \/ Receive(j)

Next ==
    \/ SourceCommit \/ Crash
    \/ \E j \in Jobs : \/ JobStep(j) \/ Confirm(j) \/ StreamBreaks(j) \/ ServerReleases(j)
                       \/ LoadCheckpoints(j) \/ WriteCheckpoints(j)

\* Every job's goroutine is scheduled, and the server ends the process of a
\* client that is gone (wal_sender_timeout).
Fairness == \A j \in Jobs : WF_vars(JobStep(j)) /\ WF_vars(ServerReleases(j))

Spec == Init /\ [][Next]_vars /\ Fairness

-----------------------------------------------------------------------------
\* The slot is made before the snapshot so that the stream can take over where
\* the copy left off: changes fall between the two, or between two streams,
\* only for a job whose slot the cleanup of another job has dropped.  A change
\* counts as had on receipt: what is then lost in memory is JobStart's subject.
NoGapUnlessRobbed == gap \subseteq robbed

\* A job streams from its own slot, which nobody drops meanwhile, and the
\* publication it shares with other jobs has the tables it asked for.
StreamsWhatItAskedFor ==
    \A j \in Jobs : pc[j] = "streaming" =>
        slot[j] # Gone /\ active[j] /\ Filters[j] \subseteq pub

\* The entry of a job in the checkpoint file is the position of its last
\* commit, unless two commits overlapped or a crash cut a write short.
EntryIsLastCommit ==
    \A j \in Jobs : file[j] = committed[j] \/ j \in overlapped \/ torn

\* A job that does not fail for good streams in the end, once the others are
\* streaming or have failed: no order of statements of starting jobs leaves a
\* publication or a slot it cannot get past.
StartsWhenOthersRun ==
    \A j \in Jobs :
        <>[](\A k \in Jobs \ {j} : pc[k] \in {"streaming", "dead"})
            => <>[](pc[j] \in {"streaming", "dead"})

=============================================================================
