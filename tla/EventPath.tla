------------------------------ MODULE EventPath ------------------------------
(***************************************************************************)
(* From a change in a source table to the document in the sink: the WAL    *)
(* parser of the PostgreSQL connector and the row handler of the MySQL     *)
(* one, the transform call, the write.  What lies between them, batching   *)
(* and retries, is the subject of CdcPipeline: here an event that has been *)
(* decoded is written at once.  What the transform engine makes of an      *)
(* event is a parameter; TransformPath puts TransformRules in its place.   *)
(*                                                                         *)
(* One table with the columns id (primary key), s (text), d (double) and v *)
(* (a text that PostgreSQL stores out of line).  The server's log holds    *)
(* the committed changes; a PostgreSQL session receives a RELATION message *)
(* and then the changes, cut into pieces the parser has to put together.   *)
(***************************************************************************)
EXTENDS EventData, FiniteSets

CONSTANTS
    Keys,        \* values of the primary key, as texts
    Rows,        \* the rows' other columns: functions from {"s", "d", "v"} to texts
    RuleSets,    \* the transform configurations to start from, by name
    EngineTransform(_, _, _, _), \* Engine.Transform on the rules, the source, the table and the data
    MaxChanges,  \* bound: changes in the source, by the name of the configuration
    MaxFaults    \* bound: broken streams and transform calls that fail

ASSUME EventPathAssumption ==
    /\ "" \notin Keys
    /\ \A r \in Rows : DOMAIN r = {"s", "d", "v"}
    /\ MaxChanges \in [DOMAIN RuleSets -> Nat] /\ MaxFaults \in Nat

VARIABLES
    source,   \* "postgresql" or "mysql"
    ident,    \* what the log tells of the key: REPLICA IDENTITY "default" or "full"; for
              \* MySQL "default", or "none": a binlog_row_metadata without names and keys
    rules,    \* the name of Engine.configs in RuleSets
    rows,     \* the table: key -> the texts of the other columns, or None
    log,      \* committed changes, oldest first; after, the table as each left it, is history
    acked,    \* changes the server will not send again
    up,       \* the session runs
    base,     \* changes that came before the session's first one
    sent,     \* pieces of the session's messages already sent
    parser,   \* WALParser: logicalBuf, pieces not parsed yet; relation, the key columns
    done,     \* changes decoded
    docs,     \* the index: id -> document, and whether it was passed untransformed
    excuse,   \* history: why the documents of a key need not follow its row
    failed    \* counts what MaxFaults bounds

session == <<up, base, sent, parser, done>>
pathVars == <<source, ident, rules, rows, log, acked, session, docs, excuse, failed>>

None == [none |-> TRUE]
Columns == {"id", "s", "d", "v"}
\* A MySQL double is never NaN.
PossibleRows == {r \in Rows : source = "mysql" => r.d \in DOMAIN TextNumber}

-----------------------------------------------------------------------------
(* The server: what each change puts into the log.  A tuple gives every    *)
(* column as text, as null, or as an unchanged value stored out of line.   *)

Text(x) == [t |-> "t", x |-> x]
FullTuple(k, r) == [c \in Columns |-> Text(IF c = "id" THEN k ELSE r[c])]
KeyTuple(k) == [c \in Columns |-> IF c = "id" THEN Text(k) ELSE [t |-> "n"]]
NewTuple(k, old, new) ==
    [c \in Columns |->
        IF source = "postgresql" /\ c = "v" /\ old.v = new.v THEN [t |-> "u"] ELSE FullTuple(k, new)[c]]

\* The image of the row before the change that the log carries.
OldTuple(k, r) ==
    IF source = "mysql" \/ ident = "full" THEN FullTuple(k, r) ELSE KeyTuple(k)

Commit(op, key, from, old, new, newRows) ==
    /\ Len(log) < MaxChanges[rules]
    /\ log' = Append(log, [op |-> op, key |-> key, from |-> from, old |-> old, new |-> new, after |-> newRows])
    /\ rows' = newRows
    /\ UNCHANGED <<source, ident, rules, acked, session, docs, excuse, failed>>

Insert(k) ==
    /\ rows[k] = None
    /\ \E r \in PossibleRows :
        Commit("INSERT", k, k, None, FullTuple(k, r), [rows EXCEPT ![k] = r])

\* Also an update that changes the primary key, from k to k2.
Update(k, k2) ==
    /\ rows[k] # None
    /\ k2 # k => rows[k2] = None
    /\ \E r \in PossibleRows :
        Commit("UPDATE", k2, k,
               IF source = "postgresql" /\ ident = "default" /\ k2 = k THEN None ELSE OldTuple(k, rows[k]),
               NewTuple(k2, rows[k], r), [rows EXCEPT ![k] = None, ![k2] = r])

DeleteRow(k) ==
    /\ rows[k] # None
    /\ Commit("DELETE", k, k, OldTuple(k, rows[k]), None, [rows EXCEPT ![k] = None])

\* In MySQL's binlog a TRUNCATE is a statement, which the handler ignores.
Truncate ==
    /\ \E k \in Keys : rows[k] # None
    /\ Commit("TRUNCATE", "", "", None, None, [k \in Keys |-> None])

-----------------------------------------------------------------------------
(* Decoding one change. *)

\* ConvertValue of the type mapper, by the column's type, and what the JSON
\* encoding makes of the result: id is an integer, d a double (NaN has no
\* JSON form), s and v are texts.  A text an integer column cannot have been
\* converted from is kept as it is.
PgValue(c, cell) ==
    CASE cell.t = "n" -> Nil
      [] c = "id" -> IF cell.x \in DOMAIN TextNumber THEN JNum(<<TextNumber[cell.x], 1>>, "int") ELSE Str(cell.x)
      [] c = "d" -> IF cell.x \in DOMAIN TextNumber THEN JNum(<<TextNumber[cell.x], 1>>, "int") ELSE [k |-> "nan"]
      [] OTHER -> Str(cell.x)

\* handleRowsEvent guesses the type of a short value that arrives as bytes (v)
\* from its text: what ParseFloat accepts becomes a json.Number, NaN included.
MySQLValue(c, cell) ==
    CASE c = "v" /\ cell.x \in DOMAIN TextNumber -> JNum(<<TextNumber[cell.x], 1>>, "int")
      [] c = "v" /\ cell.x = "NaN" -> [k |-> "nan"]
      [] c \in {"id", "d"} -> JNum(<<TextNumber[cell.x], 1>>, "int")
      [] OTHER -> Str(cell.x)

\* parseTupleData: unchanged out-of-line values are skipped.
ParseTuple(tuple) == {c \in Columns : tuple[c].t # "u"}

PrintedKey(cell) == IF cell.t = "n" THEN "<nil>" ELSE cell.x

\* The event of one image of the row: no image, no JSON form, or a key column
\* that is not in the image (extractPrimaryKey), is an error.
EventOf(op, tuple, keyColumns) ==
    LET present == ParseTuple(tuple)
        top == [c \in present |-> PgValue(c, tuple[c])]
    IN  IF \/ tuple = None
           \/ \E c \in present : top[c].k = "nan"
           \/ \E i \in DOMAIN keyColumns : keyColumns[i] \notin present
        THEN [ok |-> FALSE]
        ELSE [ok |-> TRUE, op |-> op, top |-> top,
              pk |-> [i \in DOMAIN keyColumns |-> PrintedKey(tuple[keyColumns[i]])]]

\* Mutant of CreateChangeEvent: the old image, where there is one, is preferred.
PreferOldImage(op, new, old, keyColumns) == EventOf(op, IF old # None THEN old ELSE new, keyColumns)

\* createChangeEvent: the new image if there is one, otherwise the old one.
CreateChangeEvent(op, new, old, keyColumns) == EventOf(op, IF new # None THEN new ELSE old, keyColumns)

\* The images parseInsert, parseUpdate, parseDelete and parseTruncate read from
\* a whole message; a TRUNCATE has none.
ParseInsert(m) == [new |-> m.new, old |-> None]
ParseUpdate(m) == [new |-> m.new, old |-> m.old]
ParseDelete(m) == [new |-> None, old |-> m.old]
ParseTruncate(m) == [new |-> None, old |-> None]

Parse(m, keyColumns) ==
    LET images == CASE m.op = "INSERT" -> ParseInsert(m)
                    [] m.op = "UPDATE" -> ParseUpdate(m)
                    [] m.op = "DELETE" -> ParseDelete(m)
                    [] m.op = "TRUNCATE" -> ParseTruncate(m)
    IN  CreateChangeEvent(m.op, images.new, images.old, keyColumns)

\* The names of columns the binlog does not name.
Unnamed(top) == [col_0 |-> top["id"], col_1 |-> top["s"], col_2 |-> top["d"], col_3 |-> top["v"]]

\* handleRowsEvent and getPrimaryKey for one row: the new row of an update; a
\* row without a JSON form is skipped.  Without names and keys in the binlog
\* the columns are numbered and the key is empty.
HandleRow(m) ==
    LET tuple == IF m.new # None THEN m.new ELSE m.old
        top == [c \in Columns |-> MySQLValue(c, tuple[c])]
    IN  IF m.op = "TRUNCATE" \/ \E c \in Columns : top[c].k = "nan" THEN [ok |-> FALSE]
        ELSE IF ident = "none" THEN [ok |-> TRUE, op |-> m.op, top |-> Unnamed(top), pk |-> <<"">>]
        ELSE [ok |-> TRUE, op |-> m.op, top |-> top, pk |-> <<tuple["id"].x>>]

\* What the RELATION message flags as key: the primary key, or every column.
KeyColumns == IF ident = "full" THEN <<"id", "s", "d", "v">> ELSE <<"id">>

-----------------------------------------------------------------------------
(* From the event to the document. *)

\* ApplyRules skips an event that is filtered or whose transformation fails.
ApplyRules(top) == EngineTransform(RuleSets[rules], source, "t", top)

\* transformEvents for one event and what the transform call comes to: "ok";
\* "passed", the service cannot be reached and the event goes on as it is;
\* "cut", the answer breaks off and the event is lost.
TransformEvents(e, call) ==
    IF ~e.ok THEN [res |-> "not encodable"]
    ELSE IF call = "passed" THEN [res |-> "sent", data |-> Data(e.top)]
    ELSE IF call = "cut" THEN [res |-> "lost"]
    ELSE ApplyRules(e.top)

\* Elasticsearch makes up an id for a document without one.
DocId(d, e) == IF e.pk = <<"">> THEN <<"", Cardinality(DOMAIN d)>> ELSE e.pk

\* The sink's write: a whole document for INSERT and UPDATE, or a delete.
WriteDoc(d, e, t, call) ==
    IF t.res # "sent" THEN d
    ELSE IF e.op = "DELETE" THEN Drop(d, e.pk)
    ELSE Put(d, DocId(d, e), [doc |-> Document(t.data), passed |-> call = "passed"])

\* Why, after message m, the documents of key k need not follow its row.
Excuse(st, m, k, res, call) ==
    LET was == st.excuse[k]
        narrow == source = "mysql" \/ ident = "default"
        shown == \E id \in DOMAIN st.docs : id[1] = k
        missing == m.new # None /\ \E c \in Columns : m.new[c].t = "u"
    IN  IF m.op = "TRUNCATE" THEN IF shown THEN "truncated" ELSE was
        ELSE IF k \notin {m.from, m.key} THEN was
        ELSE IF ident = "none" THEN "no key"
        ELSE IF k # m.key THEN "key changed"
        ELSE IF m.op = "INSERT" /\ res = "filtered" THEN was
        ELSE IF res # "sent" THEN "not sent"
        ELSE IF m.op = "DELETE" THEN IF narrow THEN "none" ELSE was
        ELSE IF call = "passed" THEN "not transformed"
        ELSE IF missing THEN "column missing"
        ELSE IF narrow THEN "none"
        ELSE IF m.op = "UPDATE" THEN "whole row is key" ELSE was

\* One decoded change on its way to the index; t is what the rules made of it.
Written(st, m, e, t, call) ==
    [st EXCEPT !.docs = WriteDoc(@, e, t, call),
               !.excuse = [k \in Keys |-> Excuse(st, m, k, t.res, call)],
               !.done = @ + 1]
Deliver(st, m, e, call) == Written(st, m, e, TransformEvents(e, call), call)

-----------------------------------------------------------------------------
(* The WAL parser.  The session sends a RELATION message and then every    *)
(* change after base.  A message comes in three pieces: a part that ends   *)
(* inside a field, the rest up to the marker of the new tuple, the new     *)
(* tuple.                                                                  *)

Pieces == 3
MaxReceived == Pieces + 1  \* bound: pieces received at once
Piece(p) == [msg |-> IF p <= Pieces THEN 0 ELSE base + (p - 1) \div Pieces, part |-> ((p - 1) % Pieces) + 1]
Available == Pieces * (1 + Len(log) - base)

\* preloadTableSchemas: until its RELATION message comes, a table is known by
\* the primary key the catalog gives.
PreloadTableSchemas == <<"id">>

NewWALParser == [logicalBuf |-> << >>, relation |-> PreloadTableSchemas]
St == [up |-> TRUE, parser |-> parser, docs |-> docs, excuse |-> excuse, done |-> done]

\* An error ends the stream.
DeliverOrEnd(st, m, e, logged, call) ==
    IF e.ok \/ logged THEN Deliver(st, m, e, call) ELSE [st EXCEPT !.up = FALSE]

\* Mutant of ParseMessage: the error of a TRUNCATE ends the stream like any other.
TruncateEndsStream(st, i, call) ==
    IF i = 0 THEN [st EXCEPT !.parser.relation = KeyColumns]
    ELSE DeliverOrEnd(st, log[i], Parse(log[i], st.parser.relation), FALSE, call)

\* parseSingleLogicalMessage on a complete message.  The error of a TRUNCATE,
\* which has no data, is only logged.
ParseMessage(st, i, call) ==
    IF i = 0 THEN [st EXCEPT !.parser.relation = KeyColumns]
    ELSE DeliverOrEnd(st, log[i], Parse(log[i], st.parser.relation), log[i].op = "TRUNCATE", call)

\* parseUpdate when the data ends behind the marker of the new tuple: the
\* message counts as complete and the old image is taken for the new one.
EndsAtMarker(buf) ==
    /\ Len(buf) % Pieces = 2
    /\ LET i == buf[Len(buf)].msg IN i > 0 /\ log[i].op = "UPDATE" /\ log[i].old # None

\* The buffer's end after its complete messages are read: what is left stays in
\* the buffer; an update cut behind its marker is delivered with its old image
\* (and is not the change: done and excuse stay).
Remainder(read, buf, call) ==
    LET last == log[buf[Len(buf)].msg]
        e == CreateChangeEvent(last.op, None, last.old, read.parser.relation)
    IN  IF read.up /\ EndsAtMarker(buf)
        THEN [DeliverOrEnd([read EXCEPT !.parser.logicalBuf = << >>], last, e, FALSE, call)
                 EXCEPT !.excuse = read.excuse, !.done = read.done]
        ELSE [read EXCEPT !.parser.logicalBuf = SubSeq(buf, Pieces * (Len(buf) \div Pieces) + 1, Len(buf))]

\* processBufferedLogicalMessages: every complete message is parsed, at most two
\* with MaxReceived pieces after an incomplete message.  The new tuple that
\* follows a message cut behind its marker is no message at all.
ReadMessage(st, buf, i, call) ==
    IF st.up /\ Pieces * i <= Len(buf) THEN ParseMessage(st, buf[Pieces * i].msg, call) ELSE st
ProcessBuffered(st, call) ==
    LET buf == st.parser.logicalBuf
    IN  IF buf[1].part = Pieces THEN [st EXCEPT !.up = FALSE]
        ELSE Remainder(ReadMessage(ReadMessage(st, buf, 1, call), buf, 2, call), buf, call)

\* parseXLogData for n more pieces.  The transform call may fail, and a
\* message may end at its marker, within the budget of faults.
XLogData(n, call) ==
    LET in == [i \in 1..n |-> Piece(sent + i)]
        fault == call # "ok" \/ EndsAtMarker(parser.logicalBuf \o in)
    IN  /\ source = "postgresql" /\ up
        /\ sent + n <= Available
        /\ fault => failed < MaxFaults
        /\ \E st \in {ProcessBuffered([St EXCEPT !.parser.logicalBuf = @ \o in], call)} :
              /\ call # "ok" => st.done > done
              /\ up' = st.up /\ parser' = st.parser /\ done' = st.done
              /\ docs' = st.docs /\ excuse' = st.excuse
        /\ sent' = sent + n
        /\ failed' = IF fault THEN failed + 1 ELSE failed
        /\ UNCHANGED <<source, ident, rules, rows, log, acked, base>>

\* processMessages, every ten seconds: the LSN of the last message received,
\* which covers the change it belongs to or ends before it.
StatusUpdate(p) ==
    /\ source = "postgresql" /\ up
    /\ p \in {done - 1, done} /\ p > acked
    /\ acked' = p
    /\ UNCHANGED <<source, ident, rules, rows, log, session, docs, excuse, failed>>

\* parsePrimaryKeepalive: asked to reply, the parser confirms the server's own
\* position, the end of what it has sent.
PrimaryKeepalive ==
    /\ source = "postgresql" /\ up
    /\ parser.logicalBuf = << >> /\ done > acked
    /\ acked' = done
    /\ UNCHANGED <<source, ident, rules, rows, log, session, docs, excuse, failed>>

ConnectionBreaks ==
    /\ source = "postgresql" /\ up
    /\ failed < MaxFaults
    /\ up' = FALSE /\ failed' = failed + 1
    /\ UNCHANGED <<source, ident, rules, rows, log, acked, base, sent, parser, done, docs, excuse>>

\* startCDC opens the stream again, with a new parser.
Reconnect ==
    /\ ~up
    /\ up' = TRUE /\ base' = acked /\ sent' = 0 /\ parser' = NewWALParser /\ done' = acked
    /\ UNCHANGED <<source, ident, rules, rows, log, acked, docs, excuse, failed>>

\* OnEvent of the MySQL handler: the next rows event; a statement is ignored.
OnEvent(call) ==
    /\ source = "mysql"
    /\ done < Len(log)
    /\ call # "ok" => failed < MaxFaults
    /\ \E st \in {Deliver(St, log[done + 1], HandleRow(log[done + 1]), call)} :
          docs' = st.docs /\ excuse' = st.excuse /\ done' = st.done
    /\ failed' = IF call = "ok" THEN failed ELSE failed + 1
    /\ UNCHANGED <<source, ident, rules, rows, log, acked, up, base, sent, parser>>

PathInit ==
    /\ source \in {"postgresql", "mysql"}
    /\ ident \in (IF source = "mysql" THEN {"default", "none"} ELSE {"default", "full"})
    /\ rules \in DOMAIN RuleSets
    /\ rows = [k \in Keys |-> None]
    /\ log = << >> /\ acked = 0
    /\ up = TRUE /\ base = 0 /\ sent = 0 /\ parser = NewWALParser /\ done = 0
    /\ docs = << >> /\ excuse = [k \in Keys |-> "none"] /\ failed = 0

Calls == {"ok", "passed", "cut"}
ReceiveData == (\E n \in 1..MaxReceived, call \in Calls : XLogData(n, call)) \/ (\E call \in Calls : OnEvent(call))

PathNext ==
    \/ \E k \in Keys : Insert(k)
    \/ \E k, k2 \in Keys : Update(k, k2)
    \/ \E k \in Keys : DeleteRow(k)
    \/ Truncate
    \/ ReceiveData
    \/ \E p \in 0..Len(log) : StatusUpdate(p)
    \/ PrimaryKeepalive
    \/ ConnectionBreaks
    \/ Reconnect

\* When ReceiveData is enabled, and which steps of PathNext are ReceiveData steps.
CanReceive == IF source = "mysql" THEN done < Len(log) ELSE up /\ sent < Available
Receives == up /\ (sent' > sent \/ done' > done)

\* What the server has is read, which is WF_pathVars(ReceiveData) without ENABLED, and
\* startCDC opens the stream again without end.
PathSpec ==
    /\ PathInit /\ [][PathNext]_pathVars
    /\ []<>~CanReceive \/ []<><<Receives>>_pathVars
    /\ WF_pathVars(Reconnect)

-----------------------------------------------------------------------------
(* Properties. *)

CaughtUp == up /\ done = Len(log)

\* The data an event with the whole row would carry.
RowData(k) ==
    LET tuple == FullTuple(k, rows[k])
    IN  [c \in Columns |-> IF source = "mysql" THEN MySQLValue(c, tuple[c]) ELSE PgValue(c, tuple[c])]

DocumentOf(t) == IF t.res = "sent" THEN {Document(t.data)} ELSE {}
Expected(k) == IF rows[k] = None THEN {} ELSE DocumentOf(ApplyRules(RowData(k)))

\* However messages are cut, sent again or lost, and whatever the rules are: once
\* every change is decoded, the index holds for a key exactly the document the
\* rules make of its row, unless one of the causes named in Excuse has hit the
\* key since its last complete write: a TRUNCATE (parseTruncate), a changed key
\* or an unchanged out-of-line column (createChangeEvent), REPLICA IDENTITY FULL
\* (parseRelation), a binlog without keys (getPrimaryKey), a row without JSON form (handleRowsEvent), a filter or an
\* error on an update or delete (ApplyRules), a failed call (transformEvents).
DocsFollowRows ==
    CaughtUp =>
        \A k \in Keys : excuse[k] = "none" =>
            LET ids == {id \in DOMAIN docs : id[1] = k}
            IN  /\ {docs[id].doc : id \in ids} = Expected(k)
                /\ Cardinality(ids) <= 1

\* A change the parser cannot turn into an event: the stream ends there every
\* time it is opened.
Poison(m) == m.op # "TRUNCATE" /\ ~Parse(m, KeyColumns).ok

\* Every committed change is decoded in the end, through broken streams and cut
\* messages, unless a PostgreSQL change has no event: a NaN in a double column,
\* or a REPLICA IDENTITY FULL table with an unchanged out-of-line column.
EventuallyDecoded ==
    <>[](CaughtUp \/ (source = "postgresql" /\ \E i \in DOMAIN log : i > acked /\ Poison(log[i])))
=============================================================================
