--------------------------- MODULE MongoConnector ---------------------------
(***************************************************************************)
(* The MongoDB connector: the snapshot of a collection, by one cursor or   *)
(* in chunks, the change stream, and the checkpoint file of the connector  *)
(* server.  The client is a job of the multi orchestrator, which starts    *)
(* the stream once and without a token, or a caller of the gRPC service,   *)
(* which may start it again.  What the client receives goes to the index.  *)
(* A version of a document is the position of the change that made it.     *)
(***************************************************************************)
EXTENDS Integers, Sequences, SequencesExt, FiniteSets, FiniteSetsExt

CONSTANTS
    Ids,       \* _id values: [coll, kind, n]; numbers count halves, so 3 is 1.5
    Initial,   \* sets of documents a database may hold at first
    Filters,   \* the collection filters a configuration may have
    Clients,   \* a subset of {"job", "rpc"}
    ChunkSize, \* documents per chunk of a parallel snapshot
    SnapshotChunkSize, \* records per message
    MaxChanges, \* bound: changes of the source, after the initial ones
    MaxFaults  \* bound: failures and crashes

Rank == [int |-> 1, float |-> 1, string |-> 2, oid |-> 3, date |-> 4]

\* The unique index on _id tells any two _id values of a collection apart.
ASSUME MongoAssumption ==
    /\ IsFiniteSet(Ids)
    /\ \A id \in Ids : id.kind \in DOMAIN Rank /\ id.n \in Int /\ (id.kind = "int" => id.n % 2 = 0)
    /\ \A a, b \in Ids : a.coll = b.coll /\ a # b => Rank[a.kind] # Rank[b.kind] \/ a.n # b.n
    /\ \A docs \in Initial : docs \subseteq Ids
    /\ Clients \subseteq {"job", "rpc"}
    /\ {ChunkSize, SnapshotChunkSize} \subseteq Nat \ {0} /\ MaxChanges \in Nat /\ MaxFaults \in Nat

VARIABLES
    server,  \* how the connector is configured: [filter, parallel, client]
    log,     \* the oplog: [op, id, ok]; ok: JSON can hold the new document
    es,      \* document key -> version shown, 0: none
    snap,    \* the snapshot
    stream,  \* the change stream: [st, pos]
    file,    \* the checkpoint file: [readable, token], token 0: empty
    lastCp,  \* the token of the last event the client has
    missed,  \* history: changes that no start of the stream will deliver
    faults,  \* counts what MaxFaults bounds
    changes  \* counts what MaxChanges bounds

vars == <<server, log, es, snap, stream, file, lastCp, missed, faults, changes>>

-----------------------------------------------------------------------------
(* The collection and its documents. *)

\* The version of id after the first k changes, 0 when it does not exist.
VersionAt(id, k) ==
    LET at == {i \in 1..k : log[i].id = id}
    IN  IF at = {} \/ log[Max(at)].op = "delete" THEN 0 ELSE Max(at)

Version(id) == VersionAt(id, Len(log))
LastChange(id) == Max({0} \cup {i \in DOMAIN log : log[i].id = id})
Docs(c) == {id \in Ids : id.coll = c /\ Version(id) # 0}

\* The order of _id values: first by type, then by value.
Less(a, b) == Rank[a.kind] < Rank[b.kind] \/ (Rank[a.kind] = Rank[b.kind] /\ a.n < b.n)
Lowest(S) == CHOOSE a \in S : \A b \in S \ {a} : Less(a, b)
Highest(S) == CHOOSE b \in S : \A a \in S \ {b} : Less(a, b)

\* What an _id looks like in JSON: an ObjectID and a date become strings.
ConvertBSONValue(id) == [as |-> IF id.kind \in {"int", "float"} THEN "number" ELSE "string",
                         text |-> IF id.kind = "int" THEN <<"digits", id.n \div 2>>
                                  ELSE IF id.kind = "string" THEN <<"digits", id.n>>
                                  ELSE <<id.kind, id.n>>]

\* The snapshot prints the converted _id, so a number and a string may meet.
SnapshotKey(id) == <<id.coll, ConvertBSONValue(id).text>>

\* The stream prints integers, strings and ObjectIDs likewise, and takes the JSON
\* of all others, which puts a date in quotes.
GetPrimaryKey(id) ==
    IF id.kind = "date" THEN <<id.coll, <<"quoted", id.n>>>> ELSE <<id.coll, ConvertBSONValue(id).text>>

Keys == {SnapshotKey(id) : id \in Ids} \cup {GetPrimaryKey(id) : id \in Ids}

\* One filter watches that collection, none the whole database.
Watched(id) == server.filter = {} \/ id.coll \in server.filter

-----------------------------------------------------------------------------
(* The source. *)

\* A document JSON cannot hold, with a NaN say, comes about by an update.
SourceChange(op, id, ok) ==
    /\ changes < MaxChanges
    /\ changes' = changes + 1
    /\ (op = "insert") = (Version(id) = 0)
    /\ op # "update" => ok
    /\ log' = Append(log, [op |-> op, id |-> id, ok |-> ok])
    /\ UNCHANGED <<server, es, snap, stream, file, lastCp, missed, faults>>

-----------------------------------------------------------------------------
(* The snapshot. *)

NoSnapshot == [st |-> "idle"]
InSnapshot == snap.st \notin {"idle", "done", "failed"}

\* BeginSnapshot, of one collection after the other before the stream starts.
BeginSnapshot(c) ==
    /\ snap.st = "idle" \/ (snap.st = "done" /\ snap.coll # c)
    /\ stream.st = "off"
    /\ server.filter = {} \/ c \in server.filter
    /\ snap' = [st |-> IF server.parallel THEN "info" ELSE "open", coll |-> c, since |-> Len(log), count |-> 0,
                chunks |-> IF server.parallel THEN << >> ELSE <<[by |-> "all"]>>,
                after |-> {}, left |-> 0, records |-> << >>, broken |-> FALSE]
    /\ UNCHANGED <<server, log, es, stream, file, lastCp, missed, faults, changes>>

GetCollectionInfo ==
    /\ snap.st = "info"
    /\ snap' = [snap EXCEPT !.st = "chunk", !.count = Cardinality(Docs(snap.coll))]
    /\ UNCHANGED <<server, log, es, stream, file, lastCp, missed, faults, changes>>

CeilDiv(a, b) == (a + b - 1) \div b

\* createSkipLimitChunks; createObjectIDChunks makes the same ones.
SkipLimitChunks(count) ==
    [i \in 1..CeilDiv(count, ChunkSize) |-> [by |-> "skip", skip |-> (i - 1) * ChunkSize, limit |-> ChunkSize]]

\* Integers are themselves, other numbers are cut, everything else is 0.
ToInt64(id) ==
    IF id.kind \notin {"int", "float"} THEN 0 ELSE IF id.n >= 0 THEN id.n \div 2 ELSE -((-id.n) \div 2)

\* Mutant of NumericIDChunks: the end of a chunk is taken as exclusive.
NumericIDChunksOpenEnd(lo, hi) ==
    [i \in 1..CeilDiv(IF hi < lo THEN 0 ELSE hi - lo + 1, ChunkSize) |->
        [by |-> "range", lo |-> lo + (i - 1) * ChunkSize, hi |-> Min({lo + i * ChunkSize - 2, hi})]]

\* Chunks of integers, from the smallest to the largest.
NumericIDChunks(lo, hi) ==
    [i \in 1..CeilDiv(IF hi < lo THEN 0 ELSE hi - lo + 1, ChunkSize) |->
        [by |-> "range", lo |-> lo + (i - 1) * ChunkSize, hi |-> Min({lo + i * ChunkSize - 1, hi})]]

\* The type of the smallest _id decides; a largest _id that is no ObjectID
\* does not convert to one, which takes the process down (see Panic).
CreateCollectionChunks ==
    LET docs == Docs(snap.coll)
        kind == Lowest(docs).kind
        As(st, chunks) == snap' = [snap EXCEPT !.st = st, !.chunks = chunks]
    IN  /\ snap.st = "chunk"
        /\ \/ docs = {} /\ As("open", << >>)
           \/ docs # {} /\ kind = "int" /\ As("range", << >>)
           \/ docs # {} /\ kind = "oid" /\ Highest(docs).kind = "oid" /\ As("open", SkipLimitChunks(snap.count))
           \/ docs # {} /\ kind \notin {"int", "oid"} /\ As("open", SkipLimitChunks(snap.count))
        /\ UNCHANGED <<server, log, es, stream, file, lastCp, missed, faults, changes>>

\* createNumericIDChunks asks for the smallest and the largest _id once more.
CreateNumericIDChunks ==
    LET docs == Docs(snap.coll)
    IN  /\ snap.st = "range" /\ docs # {}
        /\ snap' = [snap EXCEPT !.st = "open",
                                !.chunks = NumericIDChunks(ToInt64(Lowest(docs)), ToInt64(Highest(docs)))]
        /\ UNCHANGED <<server, log, es, stream, file, lastCp, missed, faults, changes>>

\* What a chunk's filter lets through; a range holds numbers only.
InChunk(id, chunk) ==
    chunk.by = "range" => id.kind \in {"int", "float"} /\ 2 * chunk.lo <= id.n /\ id.n <= 2 * chunk.hi

\* ProcessChunk, or the standard snapshot, opens a cursor sorted by _id: the
\* documents it skips are counted now.
OpenCursor ==
    LET chunk == Head(snap.chunks)
        docs == Docs(snap.coll)
        skipped == {id \in docs : Cardinality({d \in docs : Less(d, id)}) < chunk.skip}
    IN  /\ snap.st = "open" /\ snap.chunks # << >>
        /\ snap' = [snap EXCEPT !.st = "read", !.after = IF chunk.by = "skip" THEN skipped ELSE {},
                                !.left = IF chunk.by = "skip" THEN chunk.limit ELSE Cardinality(Ids)]
        /\ UNCHANGED <<server, log, es, stream, file, lastCp, missed, faults, changes>>

Ahead == {id \in Docs(snap.coll) : InChunk(id, Head(snap.chunks)) /\ \A d \in snap.after : Less(d, id)}

\* The index after a message: of two records with one key the later one is shown.
Shown(records) ==
    LET Of(k) == {i \in DOMAIN records : records[i].key = k}
    IN  [k \in Keys |-> IF Of(k) = {} THEN es[k] ELSE records[Max(Of(k))].version]

\* A message of records, each written under its printed _id.  The job commits a
\* checkpoint without a token after it, at most once per interval.
SendRecords(records, rest) ==
    /\ es' = Shown(records)
    /\ snap' = rest
    /\ \/ UNCHANGED file
       \/ /\ server.client = "job" /\ file.readable /\ records # << >>
          /\ file' = [file EXCEPT !.token = 0]

\* A document JSON cannot hold is left out.
ReadDocument ==
    LET id == Lowest(Ahead)
        v == Version(id)
        read == [snap EXCEPT !.after = @ \cup {id}, !.left = @ - 1]
        records == IF log[v].ok THEN Append(snap.records, [key |-> SnapshotKey(id), version |-> v]) ELSE snap.records
    IN  /\ snap.st = "read" /\ snap.left > 0 /\ Ahead # {}
        /\ IF Len(records) >= SnapshotChunkSize
           THEN SendRecords(records, [read EXCEPT !.records = << >>])
           ELSE snap' = [read EXCEPT !.records = records] /\ UNCHANGED <<es, file>>
        /\ UNCHANGED <<server, log, stream, lastCp, missed, faults, changes>>

\* The cursor has no more, or fails: nothing asks it which, and the snapshot goes on.
CursorEnds(fails) ==
    /\ snap.st = "read"
    /\ fails \/ snap.left = 0 \/ Ahead = {}
    /\ SendRecords(snap.records, [snap EXCEPT !.st = "open", !.chunks = Tail(@), !.records = << >>, !.broken = @ \/ fails])
    /\ UNCHANGED <<server, log, stream, lastCp, missed, changes>>

FinishSnapshot ==
    /\ snap.st = "open" /\ snap.chunks = << >>
    /\ snap' = [snap EXCEPT !.st = "done"]
    /\ UNCHANGED <<server, log, es, stream, file, lastCp, missed, faults, changes>>

Fault == faults < MaxFaults /\ faults' = faults + 1

\* An error that is returned: StartSnapshot logs it and reports success.
SnapshotFails ==
    /\ InSnapshot
    /\ Fault
    /\ snap' = [snap EXCEPT !.st = IF server.parallel THEN "done" ELSE "failed", !.broken = TRUE]
    /\ UNCHANGED <<server, log, es, stream, file, lastCp, missed, changes>>

\* All documents are gone when createNumericIDChunks asks: an error as well.
RangeGone ==
    /\ snap.st = "range" /\ Docs(snap.coll) = {}
    /\ snap' = [snap EXCEPT !.st = "done", !.broken = TRUE]
    /\ UNCHANGED <<server, log, es, stream, file, lastCp, missed, faults, changes>>

-----------------------------------------------------------------------------
(* The change stream. *)

MayStart ==
    /\ ~InSnapshot /\ snap.st # "failed"
    /\ stream.st = "off" \/ (stream.st = "ended" /\ server.client = "rpc")

\* startCDC passes no checkpoint; StartCdc reads its file.  Without a token
\* the stream begins at the end of the log.
StartToken == IF server.client = "rpc" /\ file.readable THEN file.token ELSE 0

Start ==
    LET from == IF StartToken = 0 THEN Len(log) ELSE StartToken
    IN  /\ MayStart
        /\ stream' = [st |-> "on", pos |-> from]
        /\ missed' = {i \in missed : i <= from} \cup (stream.pos + 1)..from
        /\ UNCHANGED <<server, log, es, snap, file, lastCp, faults, changes>>

\* Connecting, the ping or Watch fails, as it does on a standalone server.
StartFails ==
    /\ MayStart
    /\ Fault
    /\ stream' = [stream EXCEPT !.st = "ended"]
    /\ UNCHANGED <<server, log, es, snap, file, lastCp, missed, changes>>

\* Mutant of FullDocument: the stream is opened without UpdateLookup.
NoUpdateLookup(i) == {IF log[i].op = "insert" THEN i ELSE 0}

\* The document an event carries: its own, or for an update the one found when
\* the server looked, which was at any time since.  A replacement carries its own,
\* which is one of the outcomes for an update.
FullDocument(i) ==
    IF log[i].op = "update" THEN {VersionAt(log[i].id, k) : k \in i..Len(log)}
    ELSE {IF log[i].op = "delete" THEN 0 ELSE i}

\* HandleChange: an event without a document, or with one JSON cannot hold, is
\* passed over; buildPipeline has the server pass over other collections.
HandleChange ==
    LET i == stream.pos + 1
        id == log[i].id
    IN  /\ stream.st = "on" /\ i <= Len(log)
        /\ stream' = [stream EXCEPT !.pos = i]
        /\ \E full \in FullDocument(i) :
              IF Watched(id) /\ (log[i].op = "delete" \/ (full # 0 /\ log[full].ok))
              THEN es' = [es EXCEPT ![GetPrimaryKey(id)] = full] /\ lastCp' = i
              ELSE UNCHANGED <<es, lastCp>>
        /\ UNCHANGED <<server, log, snap, file, missed, faults, changes>>

StreamFails ==
    /\ stream.st = "on"
    /\ Fault
    /\ stream' = [stream EXCEPT !.st = "ended"]
    /\ UNCHANGED <<server, log, es, snap, file, lastCp, missed, changes>>

\* The client saves the token of its last event; a file that cannot be read is
\* not replaced.
CommitCheckpoint ==
    /\ lastCp # 0 /\ stream.st = "on" /\ file.readable
    /\ file' = [file EXCEPT !.token = lastCp]
    /\ UNCHANGED <<server, log, es, snap, stream, lastCp, missed, faults, changes>>

\* The process dies, perhaps within WriteFile, and is started again; the job
\* may find that it has to copy its tables again.
Restart ==
    /\ snap' = NoSnapshot
    /\ stream' = [stream EXCEPT !.st = "off"]
    /\ lastCp' = 0
    /\ \/ UNCHANGED file
       \/ lastCp # 0 /\ stream.st = "on" /\ file' = [file EXCEPT !.readable = FALSE]
    /\ UNCHANGED <<server, log, es, missed, changes>>

Crash == Fault /\ Restart

\* The type assertion of CreateCollectionChunks.
Panic ==
    /\ snap.st = "chunk"
    /\ Docs(snap.coll) # {} /\ Lowest(Docs(snap.coll)).kind = "oid" /\ Highest(Docs(snap.coll)).kind # "oid"
    /\ Restart
    /\ UNCHANGED faults

-----------------------------------------------------------------------------
Init ==
    /\ server \in [filter : Filters, parallel : BOOLEAN, client : Clients]
    /\ \E docs \in Initial :
        log = LET s == SetToSeq(docs) IN [i \in 1..Cardinality(docs) |-> [op |-> "insert", id |-> s[i], ok |-> TRUE]]
    /\ es = [k \in Keys |-> 0]
    /\ snap = NoSnapshot
    /\ stream = [st |-> "off", pos |-> 0]
    /\ file = [readable |-> TRUE, token |-> 0]
    /\ lastCp = 0 /\ missed = {} /\ faults = 0 /\ changes = 0

Next ==
    \/ \E id \in Ids, ok \in BOOLEAN, op \in {"insert", "update", "delete"} : SourceChange(op, id, ok)
    \/ \E c \in {id.coll : id \in Ids} : BeginSnapshot(c)
    \/ GetCollectionInfo \/ CreateCollectionChunks \/ CreateNumericIDChunks \/ RangeGone
    \/ OpenCursor \/ ReadDocument \/ FinishSnapshot \/ SnapshotFails
    \/ CursorEnds(FALSE) /\ UNCHANGED faults
    \/ CursorEnds(TRUE) /\ Fault
    \/ Start \/ StartFails \/ HandleChange \/ StreamFails \/ CommitCheckpoint
    \/ Crash \/ Panic

Spec == Init /\ [][Next]_vars

-----------------------------------------------------------------------------
(* Properties. *)

\* Two _id values of a collection with the same printed form.
Ambiguous(id) == \E d \in Ids \ {id} : GetPrimaryKey(d) = GetPrimaryKey(id) \/ SnapshotKey(d) = SnapshotKey(id)

ShownFor(id) == {es[k] : k \in {SnapshotKey(id), GetPrimaryKey(id)}} \ {0}

\* The documents a snapshot in chunks may leave out although none came or went:
\* ranges hold integers, and end at 0 when the largest _id is no number.
OutOfRange(id) ==
    /\ server.parallel /\ Lowest(Docs(snap.coll)).kind = "int"
    /\ id.kind # "int" \/ Rank[Highest(Docs(snap.coll)).kind] # Rank["int"]

\* A snapshot that reports success has copied every document that it found and
\* that did not change meanwhile, unless an error was passed over, JSON cannot
\* hold the document, its key is ambiguous, its _id is out of the ranges, or
\* documents came or went while chunks were counted.  A job's stream leaves that
\* copy alone; a gRPC client's may start at an older token and show old versions
\* again until it has caught up.
CopiedUnlessKnown ==
    snap.st = "done" /\ ~snap.broken /\ (server.client = "job" \/ stream.st = "off") =>
        \A id \in Docs(snap.coll) :
            \/ LastChange(id) > snap.since
            \/ ~log[LastChange(id)].ok \/ Ambiguous(id) \/ OutOfRange(id)
            \/ server.parallel /\ \E i \in (snap.since + 1)..Len(log) : log[i].op \in {"insert", "delete"}
            \/ es[SnapshotKey(id)] = LastChange(id)

\* A stream that has caught up shows every document as it is, by one document
\* of the index, whatever the lookups of updates returned, unless a start of
\* the stream passed over its last change, JSON cannot hold the document, its
\* key is ambiguous or printed in two ways.
StreamConverges ==
    stream.st = "on" /\ stream.pos = Len(log) =>
        \A id \in Ids :
            \/ ~Watched(id) \/ LastChange(id) \in missed \cup {0}
            \/ ~log[LastChange(id)].ok \/ Ambiguous(id) \/ id.kind = "date"
            \/ ShownFor(id) = {Version(id)} \ {0}
=============================================================================
