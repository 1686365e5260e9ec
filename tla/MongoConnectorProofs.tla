------------------------ MODULE MongoConnectorProofs ------------------------
(***************************************************************************)
(* Proofs about MongoConnector: a change stream that has caught up shows   *)
(* the documents as they are, and a snapshot that reports success has      *)
(* copied every document it owes.                                          *)
(***************************************************************************)
EXTENDS MongoConnector, FiniteSetTheorems, WellFoundedInduction, TLAPS

Change == [op : {"insert", "update", "delete"}, id : Ids, ok : BOOLEAN]
Record == [key : Keys, version : Nat]

\* A snapshot has all its fields.
Complete(s) ==
    s \in [st : {s.st}, coll : {s.coll}, since : {s.since}, count : {s.count},
           chunks : {s.chunks}, after : {s.after}, left : {s.left},
           records : Seq(Record), broken : {s.broken}]

TypeInv ==
    /\ log \in Seq(Change)
    /\ es \in [Keys -> Nat]
    /\ stream \in [st : {"off", "on", "ended"}, pos : 0..Len(log)]
    /\ file.token \in 0..Len(log) /\ lastCp \in 0..Len(log)
    /\ file = [readable |-> file.readable, token |-> file.token]
    /\ snap = NoSnapshot \/ Complete(snap)

\* The properties hold of documents with one key, which no other document has.
OneKey(id) == id \in Ids /\ ~Ambiguous(id) /\ id.kind # "date"

\* Records hold the version of their document, unless it has changed after the
\* stream's position.
Fresh(records) ==
    \A n \in DOMAIN records : \A id \in Ids :
        OneKey(id) /\ records[n].key = GetPrimaryKey(id) /\ LastChange(id) <= stream.pos
        => records[n].version = Version(id)

\* The stream is off during a snapshot, and what that is about to send is fresh.
RecordsInv == InSnapshot => stream.st = "off" /\ Fresh(snap.records)

\* A document whose last change the stream has passed is shown as it is.
PassedInv ==
    \A id \in Ids :
        OneKey(id) /\ Watched(id) /\ LastChange(id) # 0 /\ LastChange(id) <= stream.pos
        /\ LastChange(id) \notin missed /\ log[LastChange(id)].ok
        => es[GetPrimaryKey(id)] = Version(id)

Inv == TypeInv /\ RecordsInv /\ PassedInv

-----------------------------------------------------------------------------
(* Lemmas about the log.                                                   *)

\* The largest element of a bounded set of numbers.
LEMMA MaxFact ==
    ASSUME NEW n \in Nat, NEW S, S \subseteq 0..n, S # {}
    PROVE  Max(S) \in S /\ \A y \in S : y <= Max(S)
<1> DEFINE B == {n - i : i \in S}
<1>1. B \in SUBSET Nat /\ B # {}
  <2>1. \A i \in S : n - i \in Nat
    OBVIOUS
  <2> QED
    BY <2>1
<1> HIDE DEF B
<1>2. PICK m \in B : \A y \in B : ~ (<<y, m>> \in OpToRel(<, Nat))
  BY <1>1, NatLessThanWellFounded, WFMin
<1>3. \A y \in B : ~ (y < m)
  BY <1>1, <1>2 DEF OpToRel
<1>4. PICK x \in S : m = n - x
  BY DEF B
<1>5. \A y \in S : x >= y
  <2> SUFFICES ASSUME NEW y \in S PROVE x >= y
    OBVIOUS
  <2>1. ~ (n - y < m)
    BY <1>3 DEF B
  <2> QED
    BY <1>4, <2>1
<1>6. Max(S) \in S /\ \A y \in S : Max(S) >= y
  BY <1>5 DEF Max
<1> QED
  BY <1>6

LEMMA MaxIs ==
    ASSUME NEW n \in Nat, NEW S, S \subseteq 0..n, NEW x \in S, \A y \in S : y <= x
    PROVE  Max(S) = x
<1>1. PICK m \in S : m = Max(S) /\ \A y \in S : y <= m
  BY MaxFact
<1>2. m <= x /\ x <= m
  BY <1>1
<1>3. m \in Int /\ x \in Int
  OBVIOUS
<1> QED
  BY <1>1, <1>2, <1>3

\* LastChange and VersionAt of a log l.
LastIn(l, id) == Max({0} \cup {i \in DOMAIN l : l[i].id = id})
VersionIn(l, id, k) ==
    LET at == {i \in 1..k : l[i].id = id}
    IN  IF at = {} \/ l[Max(at)].op = "delete" THEN 0 ELSE Max(at)

LEMMA LastFacts ==
    ASSUME NEW l \in Seq(Change), NEW id
    PROVE  /\ LastIn(l, id) \in 0..Len(l)
           /\ \A i \in DOMAIN l : l[i].id = id => i <= LastIn(l, id)
           /\ LastIn(l, id) # 0 => LastIn(l, id) \in DOMAIN l /\ l[LastIn(l, id)].id = id
<1> DEFINE S == {0} \cup {i \in DOMAIN l : l[i].id = id}
<1>1. S \subseteq 0..Len(l) /\ S # {} /\ Len(l) \in Nat
  OBVIOUS
<1>2. LastIn(l, id) = Max(S)
  BY DEF LastIn
<1>3. Max(S) \in S /\ \A y \in S : y <= Max(S)
  <2> HIDE DEF S
  <2> QED
    BY <1>1, MaxFact
<1> QED
  BY <1>1, <1>2, <1>3

\* The last change decides the version, at any time after it.
LEMMA VersionFacts ==
    ASSUME NEW l \in Seq(Change), NEW id, NEW k \in 0..Len(l), LastIn(l, id) <= k
    PROVE  VersionIn(l, id, k) = IF LastIn(l, id) = 0 \/ l[LastIn(l, id)].op = "delete" THEN 0
                                 ELSE LastIn(l, id)
<1> DEFINE at == {i \in 1..k : l[i].id = id}
           last == LastIn(l, id)
<1>1. /\ last \in 0..Len(l) /\ \A i \in DOMAIN l : l[i].id = id => i <= last
      /\ last # 0 => last \in DOMAIN l /\ l[last].id = id
  BY LastFacts
<1>2. DOMAIN l = 1..Len(l) /\ Len(l) \in Nat
  OBVIOUS
<1>3. VersionIn(l, id, k) = IF at = {} \/ l[Max(at)].op = "delete" THEN 0 ELSE Max(at)
  BY DEF VersionIn
<1> HIDE DEF last
<1>4. CASE last = 0
  <2>1. at = {}
    BY <1>1, <1>2, <1>4
  <2> QED
    BY <1>3, <1>4, <2>1 DEF last
<1>5. CASE last # 0
  <2>1. last \in at /\ at \subseteq 0..Len(l) /\ \A i \in at : i <= last
    BY <1>1, <1>2, <1>5 DEF last
  <2>2. Max(at) = last /\ at # {}
    <3> HIDE DEF at
    <3> QED
      BY <1>2, <2>1, MaxIs
  <2> QED
    BY <1>3, <1>5, <2>2 DEF last
<1> QED
  BY <1>4, <1>5

\* A change at the source is the last one of its document ...
LEMMA AppendLast ==
    ASSUME NEW l \in Seq(Change), NEW c \in Change, NEW m, m = Append(l, c)
    PROVE  LastIn(m, c.id) = Len(l) + 1
<1>1. /\ m \in Seq(Change) /\ Len(l) \in Nat /\ Len(m) = Len(l) + 1
      /\ DOMAIN m = 1..(Len(l) + 1) /\ m[Len(l) + 1] = c
  OBVIOUS
<1>2. Len(l) + 1 <= LastIn(m, c.id) /\ LastIn(m, c.id) \in 0..Len(m)
  <2>1. LastIn(m, c.id) \in 0..Len(m) /\ \A i \in DOMAIN m : m[i].id = c.id => i <= LastIn(m, c.id)
    BY <1>1, LastFacts
  <2>2. Len(l) + 1 \in DOMAIN m /\ m[Len(l) + 1].id = c.id
    BY <1>1
  <2> QED
    BY <2>1, <2>2
<1> QED
  BY <1>1, <1>2

\* ... and leaves those of the others alone.
LEMMA AppendOther ==
    ASSUME NEW l \in Seq(Change), NEW m \in Seq(Change), Len(m) = Len(l) + 1,
           \A i \in 1..Len(l) : m[i] = l[i], NEW d, m[Len(m)].id # d
    PROVE  LastIn(m, d) = LastIn(l, d) /\ VersionIn(m, d, Len(m)) = VersionIn(l, d, Len(l))
<1>1. /\ m \in Seq(Change) /\ Len(l) \in Nat /\ Len(m) = Len(l) + 1 /\ DOMAIN l = 1..Len(l)
      /\ DOMAIN m = 1..(Len(l) + 1) /\ m[Len(l) + 1].id # d
      /\ \A i \in DOMAIN l : m[i] = l[i]
  OBVIOUS
<1>2. {i \in DOMAIN m : m[i].id = d} = {i \in DOMAIN l : l[i].id = d}
  BY <1>1
<1>3. LastIn(m, d) = LastIn(l, d)
  BY <1>2 DEF LastIn
<1>4. LastIn(l, d) \in 0..Len(l) /\ (LastIn(l, d) # 0 => LastIn(l, d) \in DOMAIN l)
  BY LastFacts
<1>5. LastIn(l, d) # 0 => m[LastIn(l, d)] = l[LastIn(l, d)]
  BY <1>1, <1>4
<1>6. VersionIn(l, d, Len(l)) = IF LastIn(l, d) = 0 \/ l[LastIn(l, d)].op = "delete" THEN 0
                                ELSE LastIn(l, d)
  <2>1. Len(l) \in 0..Len(l) /\ LastIn(l, d) <= Len(l)
    BY <1>1, <1>4
  <2> QED
    BY <2>1, VersionFacts
<1>7. VersionIn(m, d, Len(m)) = IF LastIn(m, d) = 0 \/ m[LastIn(m, d)].op = "delete" THEN 0
                                ELSE LastIn(m, d)
  <2>1. Len(m) \in 0..Len(m) /\ LastIn(m, d) <= Len(m)
    BY <1>1, <1>3, <1>4
  <2> QED
    BY <1>1, <2>1, VersionFacts
<1> QED
  BY <1>3, <1>5, <1>6, <1>7

\* LastIn and VersionIn are the model's LastChange and Version of a given log.
LEMMA LogFacts ==
    /\ \A id : LastChange(id) = LastIn(log, id) /\ Version(id) = VersionIn(log, id, Len(log))
    /\ \A id : LastChange(id)' = LastIn(log', id) /\ Version(id)' = VersionIn(log', id, Len(log'))
  BY DEF LastChange, Version, VersionAt, LastIn, VersionIn

\* The keys of documents.
LEMMA KeyFacts ==
    /\ \A id \in Ids : GetPrimaryKey(id) \in Keys /\ SnapshotKey(id) \in Keys
    /\ \A id, d \in Ids :
         OneKey(id) => /\ SnapshotKey(id) = GetPrimaryKey(id)
                       /\ (GetPrimaryKey(d) = GetPrimaryKey(id) => d = id)
                       /\ (SnapshotKey(d) = GetPrimaryKey(id) => d = id)
<1>1. \A id \in Ids : GetPrimaryKey(id) \in Keys /\ SnapshotKey(id) \in Keys
  BY DEF Keys
<1>2. \A id \in Ids : id.kind # "date" => SnapshotKey(id) = GetPrimaryKey(id)
  BY DEF SnapshotKey, GetPrimaryKey
<1> QED
  BY <1>1, <1>2 DEF OneKey, Ambiguous

\* After a message the index shows one of its records, or what it has shown.
LEMMA ShownFacts ==
    ASSUME es \in [Keys -> Nat], NEW records \in Seq(Record)
    PROVE  /\ Shown(records) \in [Keys -> Nat]
           /\ \A k \in Keys :
                \/ Shown(records)[k] = es[k] /\ \A n \in DOMAIN records : records[n].key # k
                \/ \E n \in DOMAIN records : records[n].key = k /\ Shown(records)[k] = records[n].version
<1> DEFINE Of(k) == {i \in DOMAIN records : records[i].key = k}
<1>1. Shown(records) = [k \in Keys |-> IF Of(k) = {} THEN es[k] ELSE records[Max(Of(k))].version]
  BY DEF Shown
<1>2. ASSUME NEW k \in Keys, Of(k) # {}
      PROVE  Max(Of(k)) \in DOMAIN records /\ records[Max(Of(k))].key = k
             /\ records[Max(Of(k))].version \in Nat
  <2>1. Of(k) \subseteq 0..Len(records) /\ Len(records) \in Nat
    OBVIOUS
  <2>2. Max(Of(k)) \in Of(k)
    <3> HIDE DEF Of
    <3> QED
      BY <1>2, <2>1, MaxFact
  <2>3. Max(Of(k)) \in DOMAIN records /\ records[Max(Of(k))].key = k
    BY <2>2
  <2>4. records[Max(Of(k))] \in Record
    BY <2>3
  <2> HIDE DEF Of
  <2> QED
    BY <2>3, <2>4 DEF Record
<1>0. \A k \in Keys : Of(k) = {} => \A n \in DOMAIN records : records[n].key # k
  OBVIOUS
<1> HIDE DEF Of
<1>3. \A k \in Keys : (IF Of(k) = {} THEN es[k] ELSE records[Max(Of(k))].version) \in Nat
  BY <1>2
<1> QED
  BY <1>0, <1>1, <1>2, <1>3

-----------------------------------------------------------------------------
(* The order of _id values.                                                *)

LEMMA LessFacts ==
    ASSUME NEW c, NEW S, S \subseteq {id \in Ids : id.coll = c}
    PROVE  /\ \A a \in S : ~Less(a, a)
           /\ \A a, b, d \in S : Less(a, b) /\ Less(b, d) => Less(a, d)
           /\ \A a, b \in S : a # b => Less(a, b) \/ Less(b, a)
<1>1. \A a \in S : a \in Ids /\ a.coll = c /\ a.n \in Int /\ Rank[a.kind] \in Int
  BY MongoAssumption DEF Rank
<1>2. ASSUME NEW a \in S PROVE ~Less(a, a)
  BY <1>1 DEF Less
<1>3. ASSUME NEW a \in S, NEW b \in S, NEW d \in S, Less(a, b), Less(b, d) PROVE Less(a, d)
  BY <1>1, <1>3 DEF Less
<1>4. ASSUME NEW a \in S, NEW b \in S, a # b PROVE Less(a, b) \/ Less(b, a)
  <2>1. Rank[a.kind] # Rank[b.kind] \/ a.n # b.n
    BY <1>1, <1>4, MongoAssumption
  <2> QED
    BY <1>1, <2>1 DEF Less
<1> QED
  BY <1>2, <1>3, <1>4

\* Among some documents of a collection one comes first: the one with the
\* fewest before it.
LEMMA LowestFact ==
    ASSUME NEW c, NEW S, S \subseteq {id \in Ids : id.coll = c}, S # {}
    PROVE  Lowest(S) \in S /\ \A b \in S \ {Lowest(S)} : Less(Lowest(S), b)
<1> DEFINE Before(a) == {d \in S : Less(d, a)}
           N == {Cardinality(Before(a)) : a \in S}
<1>1. /\ \A a \in S : ~Less(a, a)
      /\ \A a, b, d \in S : Less(a, b) /\ Less(b, d) => Less(a, d)
      /\ \A a, b \in S : a # b => Less(a, b) \/ Less(b, a)
  BY LessFacts
<1>2. IsFiniteSet(S)
  BY MongoAssumption, FS_Subset
<1>3. \A a \in S : IsFiniteSet(Before(a)) /\ Cardinality(Before(a)) \in Nat
  BY <1>2, FS_Subset, FS_CardinalityType
<1>4. N \in SUBSET Nat /\ N # {}
  BY <1>3
<1>5. PICK m \in N : \A y \in N : ~ (<<y, m>> \in OpToRel(<, Nat))
  <2> HIDE DEF N
  <2> QED
    BY <1>4, NatLessThanWellFounded, WFMin
<1>6. PICK a \in S : m = Cardinality(Before(a))
  OBVIOUS
<1>7. \A b \in S : ~ (Cardinality(Before(b)) < Cardinality(Before(a)))
  BY <1>3, <1>5, <1>6 DEF OpToRel
<1>8. ASSUME NEW b \in S, b # a PROVE Less(a, b)
  <2> SUFFICES ASSUME Less(b, a) PROVE FALSE
    BY <1>1, <1>8
  <2>1. Before(b) \subseteq Before(a) /\ b \in Before(a) /\ b \notin Before(b)
    BY <1>1
  <2>2. Cardinality(Before(b)) < Cardinality(Before(a))
    <3> HIDE DEF Before
    <3>1. Before(b) # Before(a)
      BY <2>1
    <3>2. /\ Cardinality(Before(b)) <= Cardinality(Before(a))
          /\ Cardinality(Before(b)) = Cardinality(Before(a)) => Before(b) = Before(a)
      BY <1>3, <2>1, FS_Subset
    <3> QED
      BY <1>3, <3>1, <3>2
  <2> QED
    BY <1>7, <2>2
<1> QED
  BY <1>8 DEF Lowest

-----------------------------------------------------------------------------
(* The steps.                                                              *)

\* A step that leaves the log, the index and the stream's position alone.
LEMMA PassedKept ==
    ASSUME PassedInv, UNCHANGED <<server, log, missed, es>>, stream'.pos = stream.pos
    PROVE  PassedInv'
<1>1. \A id : LastChange(id)' = LastChange(id) /\ Version(id)' = Version(id)
  BY LogFacts
<1>2. \A id : Watched(id)' = Watched(id)
  BY DEF Watched
<1> QED
  BY <1>1, <1>2 DEF PassedInv, OneKey

\* A step of the snapshot that adds no record.
LEMMA RecordsKept ==
    ASSUME RecordsInv, UNCHANGED <<log, stream>>, InSnapshot' => InSnapshot,
           InSnapshot' => snap'.records \in {<<>>, snap.records}
    PROVE  RecordsInv'
<1>1. \A id : LastChange(id)' = LastChange(id) /\ Version(id)' = Version(id)
  BY LogFacts
<1>2. DOMAIN <<>> = {}
  OBVIOUS
<1> QED
  BY <1>1, <1>2 DEF RecordsInv, Fresh, OneKey

\* A message of fresh records.
LEMMA SendStep ==
    ASSUME TypeInv, PassedInv, NEW records \in Seq(Record), Fresh(records),
           es' = Shown(records), UNCHANGED <<server, log, missed, stream>>
    PROVE  PassedInv' /\ es' \in [Keys -> Nat]
<1>1. \A id : LastChange(id)' = LastChange(id) /\ Version(id)' = Version(id)
  BY LogFacts
<1>2. \A id : Watched(id)' = Watched(id)
  BY DEF Watched
<1>3. /\ es' \in [Keys -> Nat]
      /\ \A k \in Keys : \/ es'[k] = es[k]
                         \/ \E n \in DOMAIN records : records[n].key = k /\ es'[k] = records[n].version
  BY ShownFacts DEF TypeInv
<1>4. ASSUME NEW id \in Ids, OneKey(id), Watched(id), LastChange(id) # 0, LastChange(id) <= stream.pos,
             LastChange(id) \notin missed, log[LastChange(id)].ok
      PROVE  es'[GetPrimaryKey(id)] = Version(id)
  <2>1. CASE es'[GetPrimaryKey(id)] = es[GetPrimaryKey(id)]
    BY <1>4, <2>1 DEF PassedInv
  <2>2. ASSUME NEW n \in DOMAIN records, records[n].key = GetPrimaryKey(id),
               es'[GetPrimaryKey(id)] = records[n].version
        PROVE  es'[GetPrimaryKey(id)] = Version(id)
    BY <1>4, <2>2 DEF Fresh
  <2>3. GetPrimaryKey(id) \in Keys
    BY KeyFacts
  <2> QED
    BY <1>3, <2>1, <2>2, <2>3
<1> QED
  BY <1>1, <1>2, <1>3, <1>4 DEF PassedInv, OneKey

\* A change at the source is the last one of its document, and of no other.
LEMMA ChangeFacts ==
    ASSUME TypeInv, NEW op \in {"insert", "update", "delete"}, NEW id \in Ids, NEW ok \in BOOLEAN,
           SourceChange(op, id, ok)
    PROVE  /\ log \in Seq(Change) /\ log' \in Seq(Change) /\ Len(log') = Len(log) + 1 /\ Len(log) \in Nat
           /\ \A i \in DOMAIN log : log'[i] = log[i]
           /\ log'[Len(log')].id = id /\ log'[Len(log')].op = op
           /\ LastChange(id)' = Len(log) + 1
           /\ Version(id)' = IF op = "delete" THEN 0 ELSE Len(log) + 1
           /\ \A d : d # id => LastChange(d)' = LastChange(d) /\ Version(d)' = Version(d)
           /\ UNCHANGED <<server, es, snap, stream, file, lastCp, missed>>
<1>1. PICK c \in Change : c.id = id /\ c.op = op /\ log' = Append(log, c)
  <2>1. /\ [op |-> op, id |-> id, ok |-> ok] \in Change
        /\ log' = Append(log, [op |-> op, id |-> id, ok |-> ok])
    BY DEF Change, SourceChange
  <2> QED
    BY <2>1
<1>2. log \in Seq(Change) /\ Len(log) \in Nat
  BY DEF TypeInv
<1>3. log' \in Seq(Change) /\ Len(log') = Len(log) + 1 /\ \A i \in DOMAIN log : log'[i] = log[i]
  BY <1>1, <1>2
<1>4. LastIn(log', c.id) = Len(log) + 1
  BY <1>1, <1>2, AppendLast
<1>5. /\ log'[Len(log')].id = id /\ log'[Len(log')].op = op
      /\ \A i \in 1..Len(log) : log'[i] = log[i]
  BY <1>1, <1>2
<1>6. ASSUME NEW d, d # id
      PROVE  LastIn(log', d) = LastIn(log, d) /\ VersionIn(log', d, Len(log')) = VersionIn(log, d, Len(log))
  BY <1>2, <1>3, <1>5, <1>6, AppendOther
<1>7. VersionIn(log', id, Len(log')) = IF op = "delete" THEN 0 ELSE Len(log) + 1
  <2>1. LastIn(log', id) = Len(log) + 1 /\ LastIn(log', id) # 0 /\ log'[LastIn(log', id)].op = op
    BY <1>1, <1>2, <1>3, <1>4, <1>5
  <2>2. Len(log') \in 0..Len(log') /\ LastIn(log', id) <= Len(log')
    BY <1>2, <1>3, <2>1
  <2>3. VersionIn(log', id, Len(log')) = IF LastIn(log', id) = 0 \/ log'[LastIn(log', id)].op = "delete" THEN 0
                                         ELSE LastIn(log', id)
    BY <1>3, <2>2, VersionFacts
  <2> QED
    BY <2>1, <2>3
<1>8. UNCHANGED <<server, es, snap, stream, file, lastCp, missed>>
  BY DEF SourceChange
<1> QED
  BY <1>1, <1>2, <1>3, <1>4, <1>5, <1>6, <1>7, <1>8, LogFacts

\* A change at the source lies behind the stream's position.
LEMMA ChangeStep ==
    ASSUME Inv, NEW op \in {"insert", "update", "delete"}, NEW id \in Ids, NEW ok \in BOOLEAN,
           SourceChange(op, id, ok)
    PROVE  Inv'
<1>0. TypeInv /\ RecordsInv /\ PassedInv
  BY DEF Inv
<1>1. UNCHANGED <<server, es, snap, stream, file, lastCp, missed>>
  BY <1>0, ChangeFacts
<1>2. /\ log \in Seq(Change) /\ log' \in Seq(Change) /\ Len(log') = Len(log) + 1 /\ Len(log) \in Nat
      /\ \A i \in DOMAIN log : log'[i] = log[i]
      /\ LastChange(id)' = Len(log) + 1
      /\ \A d : d # id => LastChange(d)' = LastChange(d) /\ Version(d)' = Version(d)
  BY <1>0, ChangeFacts
<1>3. stream.pos \in 0..Len(log)
  BY <1>0 DEF TypeInv
<1>4. \A d : LastChange(d)' <= stream'.pos => d # id
  BY <1>1, <1>2, <1>3
<1>5. \A d : LastChange(d) # 0 => LastChange(d) \in DOMAIN log
  BY <1>2, LogFacts, LastFacts
<1>6. TypeInv'
  <2>1. 0..Len(log) \subseteq 0..Len(log')
    BY <1>2
  <2> QED
    BY <1>0, <1>1, <1>2, <2>1 DEF TypeInv
<1>7. RecordsInv'
  <2>1. InSnapshot' = InSnapshot
    BY <1>1 DEF InSnapshot
  <2> QED
    BY <1>0, <1>1, <1>2, <1>4, <2>1 DEF RecordsInv, Fresh, OneKey
<1>8. PassedInv'
  <2>1. \A d : Watched(d)' = Watched(d)
    BY <1>1 DEF Watched
  <2> QED
    BY <1>0, <1>1, <1>2, <1>4, <1>5, <2>1 DEF PassedInv, OneKey
<1> QED
  BY <1>6, <1>7, <1>8 DEF Inv

\* A step of the snapshot that sends nothing.
LEMMA SnapshotStep ==
    ASSUME Inv, UNCHANGED <<server, log, es, stream, file, lastCp, missed>>,
           snap' = NoSnapshot \/ Complete(snap'),
           InSnapshot' => (InSnapshot /\ snap'.records = snap.records) \/ snap'.records = <<>>,
           InSnapshot' => stream.st = "off"
    PROVE  Inv'
<1>0. TypeInv /\ RecordsInv /\ PassedInv
  BY DEF Inv
<1>1. TypeInv'
  BY <1>0 DEF TypeInv, Complete
<1>2. RecordsInv'
  <2>1. \A id : LastChange(id)' = LastChange(id) /\ Version(id)' = Version(id)
    BY LogFacts
  <2>2. DOMAIN <<>> = {}
    OBVIOUS
  <2> QED
    BY <1>0, <2>1, <2>2 DEF RecordsInv, Fresh, OneKey
<1>3. PassedInv'
  BY <1>0, PassedKept
<1> QED
  BY <1>1, <1>2, <1>3 DEF Inv

\* The fields of a snapshot under way.
LEMMA SnapFacts ==
    ASSUME TypeInv, snap.st # "idle"
    PROVE  Complete(snap) /\ snap.records \in Seq(Record)
<1>1. snap # NoSnapshot
  BY DEF NoSnapshot
<1>2. Complete(snap)
  BY <1>1 DEF TypeInv
<1> QED
  BY <1>2 DEF Complete

\* A new snapshot has no records.
LEMMA BeginStep ==
    ASSUME Inv, NEW c, BeginSnapshot(c)
    PROVE  Inv'
<1>1. Complete(snap') /\ snap'.records = <<>> /\ stream.st = "off"
  <2>1. <<>> \in Seq(Record)
    OBVIOUS
  <2> QED
    BY <2>1 DEF BeginSnapshot, Complete
<1>2. UNCHANGED <<server, log, es, stream, file, lastCp, missed>>
  BY DEF BeginSnapshot
<1> QED
  BY <1>1, <1>2, SnapshotStep

\* Planning the chunks, opening a cursor and the end of a snapshot.
LEMMA PlanStep ==
    ASSUME Inv, \/ GetCollectionInfo \/ CreateCollectionChunks \/ CreateNumericIDChunks
                \/ OpenCursor \/ FinishSnapshot \/ SnapshotFails \/ RangeGone
    PROVE  Inv'
<1>0. TypeInv /\ RecordsInv
  BY DEF Inv
<1>1. snap.st \notin {"idle", "done", "failed"}
  BY DEF GetCollectionInfo, CreateCollectionChunks, CreateNumericIDChunks, OpenCursor,
         FinishSnapshot, SnapshotFails, RangeGone, InSnapshot
<1>2. InSnapshot /\ stream.st = "off" /\ Complete(snap)
  BY <1>0, <1>1, SnapFacts DEF InSnapshot, RecordsInv
<1>3. Complete(snap') /\ snap'.records = snap.records
  BY <1>2 DEF Complete, GetCollectionInfo, CreateCollectionChunks, CreateNumericIDChunks,
     OpenCursor, FinishSnapshot, SnapshotFails, RangeGone
<1>4. UNCHANGED <<server, log, es, stream, file, lastCp, missed>>
  BY DEF GetCollectionInfo, CreateCollectionChunks, CreateNumericIDChunks, OpenCursor,
         FinishSnapshot, SnapshotFails, RangeGone
<1> QED
  BY <1>2, <1>3, <1>4, SnapshotStep

\* SendRecords, with the token of the file perhaps cleared.
LEMMA SendRecordsStep ==
    ASSUME Inv, InSnapshot, NEW records \in Seq(Record), Fresh(records), NEW rest, Complete(rest),
           rest.records = <<>>, SendRecords(records, rest),
           UNCHANGED <<server, log, stream, lastCp, missed>>
    PROVE  Inv'
<1>0. TypeInv /\ RecordsInv /\ PassedInv
  BY DEF Inv
<1>1. PassedInv' /\ es' \in [Keys -> Nat]
  BY <1>0, SendStep DEF SendRecords
<1>2. snap' = rest /\ stream.st = "off"
  BY <1>0 DEF SendRecords, RecordsInv
<1>3. RecordsInv'
  <2>1. snap'.records = <<>> /\ DOMAIN <<>> = {}
    BY <1>2
  <2> QED
    BY <1>2, <2>1 DEF RecordsInv, Fresh
<1>4. file'.token \in 0..Len(log) /\ file' = [readable |-> file'.readable, token |-> file'.token]
  <2>1. file' = file \/ file' = [file EXCEPT !.token = 0]
    BY DEF SendRecords
  <2>2. Len(log) \in Nat
    BY <1>0 DEF TypeInv
  <2>3. CASE file' = file
    BY <1>0, <2>3 DEF TypeInv
  <2>4. CASE file' = [file EXCEPT !.token = 0]
    <3>1. file' = [readable |-> file.readable, token |-> 0]
      BY <1>0, <2>4 DEF TypeInv
    <3> QED
      BY <2>2, <3>1
  <2> QED
    BY <2>1, <2>3, <2>4
<1>5. TypeInv'
  BY <1>0, <1>1, <1>2, <1>4 DEF TypeInv, Complete
<1> QED
  BY <1>1, <1>3, <1>5 DEF Inv

\* A document is read as it is.
LEMMA ReadStep ==
    ASSUME Inv, ReadDocument
    PROVE  Inv'
<1>0. TypeInv /\ RecordsInv /\ PassedInv
  BY DEF Inv
<1> DEFINE id == Lowest(Ahead)
           v == Version(id)
           record == [key |-> SnapshotKey(id), version |-> v]
           read == [snap EXCEPT !.after = snap.after \cup {id}, !.left = snap.left - 1]
           records == IF log[v].ok THEN Append(snap.records, record) ELSE snap.records
<1>1. snap.st = "read" /\ InSnapshot /\ Complete(snap) /\ snap.records \in Seq(Record)
  BY <1>0, SnapFacts DEF ReadDocument, InSnapshot
<1>2. stream.st = "off" /\ Fresh(snap.records)
  BY <1>0, <1>1 DEF RecordsInv
<1>3. id \in Ids
  <2>1. Ahead # {} /\ Ahead \subseteq {d \in Ids : d.coll = snap.coll}
    BY DEF ReadDocument, Ahead, Docs
  <2> QED
    BY <2>1, LowestFact
<1> HIDE DEF id
<1>4. v \in Nat
  <2>1. log \in Seq(Change) /\ Len(log) \in 0..Len(log)
    BY <1>0 DEF TypeInv
  <2>2. LastIn(log, id) \in 0..Len(log)
    BY <2>1, LastFacts
  <2>3. VersionIn(log, id, Len(log)) = IF LastIn(log, id) = 0 \/ log[LastIn(log, id)].op = "delete"
                                       THEN 0 ELSE LastIn(log, id)
    BY <2>1, <2>2, VersionFacts
  <2> QED
    BY <2>2, <2>3, LogFacts
<1> HIDE DEF v
<1>5. record \in Record /\ record.key = SnapshotKey(id) /\ record.version = v
  BY <1>3, <1>4, KeyFacts DEF Record
<1> HIDE DEF record
<1>6. records \in Seq(Record) /\ Fresh(records)
  <2>1. CASE ~log[v].ok
    BY <1>1, <1>2, <2>1
  <2>2. CASE log[v].ok
    <3>1. Append(snap.records, record) \in Seq(Record)
      BY <1>1, <1>5
    <3>2. ASSUME NEW n \in DOMAIN Append(snap.records, record)
          PROVE  \/ n \in DOMAIN snap.records /\ Append(snap.records, record)[n] = snap.records[n]
                 \/ Append(snap.records, record)[n] = record
      BY <1>1, <1>5
    <3>3. \A d \in Ids : OneKey(d) /\ record.key = GetPrimaryKey(d) => record.version = Version(d)
      BY <1>3, <1>5, KeyFacts DEF v
    <3>4. Fresh(Append(snap.records, record))
      BY <1>2, <3>2, <3>3 DEF Fresh
    <3> QED
      BY <2>2, <3>1, <3>4
  <2> QED
    BY <2>1, <2>2
<1>7. UNCHANGED <<server, log, stream, lastCp, missed>>
  BY DEF ReadDocument
<1>8. \/ SendRecords(records, [read EXCEPT !.records = << >>])
      \/ snap' = [read EXCEPT !.records = records] /\ UNCHANGED <<es, file>>
  BY DEF ReadDocument, id, v, record
<1> HIDE DEF records
<1>9. \A q \in Seq(Record) : Complete([read EXCEPT !.records = q])
                             /\ [read EXCEPT !.records = q].records = q
                             /\ [read EXCEPT !.records = q].st = "read"
  <2> SUFFICES ASSUME NEW q \in Seq(Record)
               PROVE  Complete([read EXCEPT !.records = q])
                      /\ [read EXCEPT !.records = q].records = q
                      /\ [read EXCEPT !.records = q].st = "read"
    OBVIOUS
  <2> QED
    BY <1>1 DEF Complete
<1> HIDE DEF read
<1>10. CASE SendRecords(records, [read EXCEPT !.records = << >>])
  <2>1. <<>> \in Seq(Record)
    OBVIOUS
  <2>2. Complete([read EXCEPT !.records = << >>]) /\ [read EXCEPT !.records = << >>].records = << >>
    BY <1>9, <2>1
  <2> QED
    BY <1>1, <1>6, <1>7, <1>10, <2>2, SendRecordsStep
<1>11. CASE snap' = [read EXCEPT !.records = records] /\ UNCHANGED <<es, file>>
  <2>1. Complete(snap') /\ snap'.records = records
    BY <1>6, <1>9, <1>11
  <2>2. TypeInv'
    BY <1>0, <1>7, <1>11, <2>1 DEF TypeInv, Complete
  <2>3. PassedInv'
    BY <1>0, <1>7, <1>11, PassedKept
  <2>4. \A d : LastChange(d)' = LastChange(d) /\ Version(d)' = Version(d)
    BY <1>7, LogFacts
  <2>5. RecordsInv'
    BY <1>2, <1>6, <1>7, <2>1, <2>4 DEF RecordsInv, Fresh, OneKey
  <2> QED
    BY <2>2, <2>3, <2>5 DEF Inv
<1> QED
  BY <1>8, <1>10, <1>11

\* The cursor ends, and the rest of its records is sent.
LEMMA CursorStep ==
    ASSUME Inv, NEW fails \in BOOLEAN, CursorEnds(fails)
    PROVE  Inv'
<1>0. TypeInv /\ RecordsInv
  BY DEF Inv
<1> DEFINE rest == [snap EXCEPT !.st = "open", !.chunks = Tail(snap.chunks), !.records = << >>,
                                !.broken = snap.broken \/ fails]
<1>1. InSnapshot /\ Complete(snap) /\ snap.records \in Seq(Record)
  BY <1>0, SnapFacts DEF CursorEnds, InSnapshot
<1>2. Fresh(snap.records)
  BY <1>0, <1>1 DEF RecordsInv
<1>3. Complete(rest) /\ rest.records = <<>>
  <2>1. <<>> \in Seq(Record)
    OBVIOUS
  <2> QED
    BY <1>1, <2>1 DEF Complete
<1>4. SendRecords(snap.records, rest) /\ UNCHANGED <<server, log, stream, lastCp, missed>>
  BY DEF CursorEnds
<1> HIDE DEF rest
<1> QED
  BY <1>1, <1>2, <1>3, <1>4, SendRecordsStep

\* A start passes over what it does not deliver, and delivers the rest again.
LEMMA StartStep ==
    ASSUME Inv, Start
    PROVE  Inv'
<1>0. TypeInv /\ RecordsInv /\ PassedInv
  BY DEF Inv
<1> DEFINE from == IF StartToken = 0 THEN Len(log) ELSE StartToken
<1>1. /\ stream' = [st |-> "on", pos |-> from] /\ ~InSnapshot
      /\ missed' = {i \in missed : i <= from} \cup (stream.pos + 1)..from
      /\ UNCHANGED <<server, log, es, snap, file, lastCp>>
  BY DEF Start, MayStart
<1>2. from \in 0..Len(log) /\ stream.pos \in 0..Len(log) /\ Len(log) \in Nat /\ log \in Seq(Change)
  BY <1>0 DEF TypeInv, StartToken
<1> HIDE DEF from
<1>3. TypeInv'
  BY <1>0, <1>1, <1>2 DEF TypeInv, Complete
<1>4. RecordsInv'
  BY <1>1 DEF RecordsInv, InSnapshot
<1>5. PassedInv'
  <2>1. \A id : LastChange(id)' = LastChange(id) /\ Version(id)' = Version(id)
                /\ LastChange(id) \in 0..Len(log)
    BY <1>1, <1>2, LogFacts, LastFacts
  <2>2. \A id : Watched(id)' = Watched(id)
    BY <1>1 DEF Watched
  <2>3. \A id : LastChange(id) <= from /\ LastChange(id) \notin missed'
                => LastChange(id) <= stream.pos /\ LastChange(id) \notin missed
    <3> SUFFICES ASSUME NEW id, LastChange(id) <= from, LastChange(id) \notin missed'
                 PROVE  LastChange(id) <= stream.pos /\ LastChange(id) \notin missed
      OBVIOUS
    <3>1. LastChange(id) \in Int /\ stream.pos \in Int /\ from \in Int
      BY <1>2, <2>1
    <3>2. LastChange(id) \notin (stream.pos + 1)..from
      BY <1>1
    <3> QED
      BY <1>1, <3>1, <3>2
  <2>4. stream'.pos = from
    BY <1>1
  <2> QED
    BY <1>0, <1>1, <2>1, <2>2, <2>3, <2>4 DEF PassedInv, OneKey
<1> QED
  BY <1>3, <1>4, <1>5 DEF Inv

\* The stream delivers a change: the last change of a document carries the
\* document as it is, whenever the server looks it up.
LEMMA HandleStep ==
    ASSUME Inv, HandleChange
    PROVE  Inv'
<1>0. TypeInv /\ RecordsInv /\ PassedInv
  BY DEF Inv
<1> DEFINE i == stream.pos + 1
           key == GetPrimaryKey(log[i].id)
<1>1. /\ stream.st = "on" /\ i <= Len(log) /\ stream' = [stream EXCEPT !.pos = i]
      /\ UNCHANGED <<server, log, snap, file, missed>>
  BY DEF HandleChange
<1>2. /\ log \in Seq(Change) /\ Len(log) \in Nat /\ stream.pos \in 0..Len(log) /\ i \in DOMAIN log
      /\ i \in Nat
  BY <1>0, <1>1 DEF TypeInv
<1>3. PICK full \in FullDocument(i) :
          IF Watched(log[i].id) /\ (log[i].op = "delete" \/ (full # 0 /\ log[full].ok))
          THEN es' = [es EXCEPT ![key] = full] /\ lastCp' = i
          ELSE UNCHANGED <<es, lastCp>>
  BY DEF HandleChange
<1> HIDE DEF i
<1>4. log[i].id \in Ids /\ log[i].op \in {"insert", "update", "delete"} /\ log[i] \in Change
  <2>1. log[i] \in Change
    BY <1>2
  <2> QED
    BY <2>1 DEF Change
<1>5. ~InSnapshot
  BY <1>0, <1>1 DEF RecordsInv
<1>6. full \in Nat
  <2>1. CASE log[i].op = "update"
    <3>1. PICK k \in i..Len(log) : full = VersionAt(log[i].id, k)
      BY <1>3, <2>1 DEF FullDocument
    <3> DEFINE at == {j \in 1..k : log[j].id = log[i].id}
    <3>2. at \subseteq 0..Len(log) /\ at \subseteq Nat
      BY <1>2
    <3>3. full = IF at = {} \/ log[Max(at)].op = "delete" THEN 0 ELSE Max(at)
      BY <3>1 DEF VersionAt
    <3> HIDE DEF at
    <3>4. at # {} => Max(at) \in Nat
      BY <1>2, <3>2, MaxFact
    <3> QED
      BY <3>3, <3>4
  <2>2. CASE log[i].op # "update"
    BY <1>2, <1>3, <2>2 DEF FullDocument
  <2> QED
    BY <2>1, <2>2
<1>7. key \in Keys
  BY <1>4, KeyFacts
<1>8. stream' \in [st : {"off", "on", "ended"}, pos : 0..Len(log)] /\ stream'.pos = i
  BY <1>0, <1>1, <1>2 DEF TypeInv
<1>9. TypeInv'
  <2>1. es' \in [Keys -> Nat] /\ lastCp' \in 0..Len(log)
    BY <1>0, <1>2, <1>3, <1>6, <1>7 DEF TypeInv
  <2> QED
    BY <1>0, <1>1, <1>8, <2>1 DEF TypeInv, Complete
<1>10. RecordsInv'
  BY <1>1, <1>5 DEF RecordsInv, InSnapshot
<1>11. ASSUME NEW id \in Ids, OneKey(id), Watched(id), LastChange(id) # 0, LastChange(id) <= i,
              LastChange(id) \notin missed, log[LastChange(id)].ok
       PROVE  es'[GetPrimaryKey(id)] = Version(id)
  <2>0. /\ LastChange(id) \in 0..Len(log) /\ log[LastChange(id)].id = id
        /\ \A j \in DOMAIN log : log[j].id = id => j <= LastChange(id)
    BY <1>2, <1>11, LogFacts, LastFacts
  <2>1. CASE LastChange(id) = i
    <3>1. log[i].id = id /\ log[i].ok /\ key = GetPrimaryKey(id)
      BY <1>11, <2>0, <2>1
    <3>2. \A k \in i..Len(log) :
            VersionAt(id, k) = IF log[i].op = "delete" THEN 0 ELSE i
      <4> SUFFICES ASSUME NEW k \in i..Len(log)
                   PROVE  VersionAt(id, k) = IF log[i].op = "delete" THEN 0 ELSE i
        OBVIOUS
      <4>1. k \in 0..Len(log) /\ LastIn(log, id) = i /\ i <= k
        BY <1>2, <2>1, LogFacts
      <4>2. VersionIn(log, id, k) = IF i = 0 \/ log[i].op = "delete" THEN 0 ELSE i
        BY <1>2, <4>1, VersionFacts
      <4>3. VersionAt(id, k) = VersionIn(log, id, k)
        BY DEF VersionAt, VersionIn
      <4> QED
        BY <1>11, <2>1, <4>2, <4>3
    <3>3. Version(id) = IF log[i].op = "delete" THEN 0 ELSE i
      <4>1. Len(log) \in i..Len(log)
        BY <1>1, <1>2
      <4> QED
        BY <3>2, <4>1 DEF Version
    <3>4. full = Version(id)
      <4>1. CASE log[i].op = "update"
        <5>1. PICK k \in i..Len(log) : full = VersionAt(id, k)
          BY <1>3, <3>1, <4>1 DEF FullDocument
        <5> QED
          BY <3>2, <3>3, <5>1
      <4>2. CASE log[i].op # "update"
        BY <1>3, <3>3, <4>2 DEF FullDocument
      <4> QED
        BY <4>1, <4>2
    <3>5. log[i].op = "delete" \/ (full # 0 /\ log[full].ok)
      BY <1>11, <2>1, <3>1, <3>3, <3>4
    <3>6. es' = [es EXCEPT ![GetPrimaryKey(id)] = full]
      BY <1>3, <1>11, <3>1, <3>5
    <3>7. es \in [Keys -> Nat] /\ GetPrimaryKey(id) \in Keys
      BY <1>0, KeyFacts DEF TypeInv
    <3> QED
      BY <3>4, <3>6, <3>7
  <2>2. CASE LastChange(id) # i
    <3>1. LastChange(id) <= stream.pos
      BY <1>2, <1>11, <2>0, <2>2 DEF i
    <3>2. es[GetPrimaryKey(id)] = Version(id)
      BY <1>0, <1>11, <3>1 DEF PassedInv
    <3>3. log[i].id # id
      BY <1>2, <1>11, <2>0, <2>2
    <3>4. key # GetPrimaryKey(id)
      BY <1>4, <1>11, <3>3, KeyFacts
    <3>5. es \in [Keys -> Nat] /\ GetPrimaryKey(id) \in Keys
      BY <1>0, KeyFacts DEF TypeInv
    <3> HIDE DEF key
    <3>6. es'[GetPrimaryKey(id)] = es[GetPrimaryKey(id)]
      BY <1>3, <3>4, <3>5
    <3> QED
      BY <3>2, <3>6
  <2> QED
    BY <2>1, <2>2
<1>12. PassedInv'
  <2>1. \A id : LastChange(id)' = LastChange(id) /\ Version(id)' = Version(id)
    BY <1>1, LogFacts
  <2>2. \A id : Watched(id)' = Watched(id)
    BY <1>1 DEF Watched
  <2> QED
    BY <1>1, <1>8, <1>11, <2>1, <2>2 DEF PassedInv, OneKey
<1> QED
  BY <1>9, <1>10, <1>12 DEF Inv

\* The stream ends, a checkpoint is saved, the process starts again.
LEMMA QuietStep ==
    ASSUME Inv, StartFails \/ StreamFails \/ CommitCheckpoint \/ Restart
    PROVE  Inv'
<1>0. TypeInv /\ RecordsInv /\ PassedInv
  BY DEF Inv
<1>1. /\ UNCHANGED <<server, log, es, missed>>
      /\ stream' = stream \/ stream' = [stream EXCEPT !.st = "ended"]
         \/ stream' = [stream EXCEPT !.st = "off"]
  BY DEF StartFails, StreamFails, CommitCheckpoint, Restart
<1>2. stream' \in [st : {"off", "on", "ended"}, pos : 0..Len(log)] /\ stream'.pos = stream.pos
  BY <1>0, <1>1 DEF TypeInv
<1>3. snap' = NoSnapshot \/ (snap' = snap /\ ~InSnapshot)
  BY <1>0 DEF StartFails, MayStart, StreamFails, CommitCheckpoint, Restart, RecordsInv
<1>4. ~InSnapshot'
  BY <1>3 DEF InSnapshot, NoSnapshot
<1>5. /\ lastCp' \in 0..Len(log) /\ file'.token \in 0..Len(log)
      /\ file' = [readable |-> file'.readable, token |-> file'.token]
  <2>1. Len(log) \in Nat /\ lastCp \in 0..Len(log) /\ file.token \in 0..Len(log)
        /\ file = [readable |-> file.readable, token |-> file.token]
    BY <1>0 DEF TypeInv
  <2>2. lastCp' \in {lastCp, 0}
    BY DEF StartFails, StreamFails, CommitCheckpoint, Restart
  <2>3. file' = file \/ file' = [file EXCEPT !.token = lastCp] \/ file' = [file EXCEPT !.readable = FALSE]
    BY DEF StartFails, StreamFails, CommitCheckpoint, Restart
  <2>4. \/ file' = file \/ file' = [readable |-> file.readable, token |-> lastCp]
        \/ file' = [readable |-> FALSE, token |-> file.token]
    BY <2>1, <2>3
  <2> QED
    BY <2>1, <2>2, <2>4
<1>6. TypeInv'
  BY <1>0, <1>1, <1>2, <1>3, <1>5 DEF TypeInv, Complete
<1>7. RecordsInv'
  BY <1>4 DEF RecordsInv
<1>8. PassedInv'
  BY <1>0, <1>1, <1>2, PassedKept
<1> QED
  BY <1>6, <1>7, <1>8 DEF Inv

\* A finite set as a sequence.
LEMMA SeqFact ==
    ASSUME NEW S, IsFiniteSet(S)
    PROVE  Cardinality(S) \in Nat /\ SetToSeq(S) \in [1..Cardinality(S) -> S]
<1>1. PICK n \in Nat : ExistsBijection(1..n, S)
  BY FS_NatBijection
<1>2. n = Cardinality(S)
  BY <1>1, FS_CountingElements
<1>3. PICK f \in Bijection(1..n, S) : TRUE
  BY <1>1 DEF ExistsBijection
<1>4. f \in [1..Cardinality(S) -> S] /\ IsInjective(f)
  BY <1>2, <1>3 DEF Bijection, Injection
<1> QED
  BY <1>2, <1>4 DEF SetToSeq

\* The invariant holds initially and every step keeps it.
LEMMA Invariant == Spec => []Inv
<1>1. Init => Inv
  <2> SUFFICES ASSUME Init PROVE Inv
    OBVIOUS
  <2>1. log \in Seq(Change) /\ Len(log) \in Nat
    <3>1. PICK docs \in Initial :
            log = [i \in 1..Cardinality(docs) |-> [op |-> "insert", id |-> SetToSeq(docs)[i], ok |-> TRUE]]
      BY DEF Init
    <3>2. docs \subseteq Ids /\ IsFiniteSet(docs)
      BY MongoAssumption, FS_Subset
    <3>3. Cardinality(docs) \in Nat /\ SetToSeq(docs) \in [1..Cardinality(docs) -> docs]
      BY <3>2, SeqFact
    <3>4. \A i \in 1..Cardinality(docs) : log[i] \in Change
      BY <3>1, <3>2, <3>3 DEF Change
    <3>5. log \in [1..Cardinality(docs) -> Change]
      BY <3>1, <3>4
    <3>6. log \in Seq(Change)
      BY <3>3, <3>5
    <3> QED
      BY <3>6
  <2>2. TypeInv
    <3>1. es \in [Keys -> Nat] /\ snap = NoSnapshot
      BY DEF Init
    <3>2. stream \in [st : {"off", "on", "ended"}, pos : {0}] /\ stream.pos = 0 /\ file.token = 0
          /\ lastCp = 0
      BY DEF Init
    <3>3. file = [readable |-> file.readable, token |-> file.token]
      BY DEF Init
    <3>4. 0 \in 0..Len(log)
      BY <2>1
    <3>5. stream \in [st : {"off", "on", "ended"}, pos : 0..Len(log)]
      BY <3>2, <3>4
    <3> QED
      BY <2>1, <3>1, <3>2, <3>3, <3>4, <3>5 DEF TypeInv
  <2>3. \A id : LastChange(id) \in Nat
    BY <2>1, LogFacts, LastFacts
  <2>4. RecordsInv /\ PassedInv
    BY <2>3 DEF Init, RecordsInv, PassedInv, InSnapshot, NoSnapshot
  <2> QED
    BY <2>2, <2>4 DEF Inv
<1>2. Inv /\ [Next]_vars => Inv'
  <2> SUFFICES ASSUME Inv, [Next]_vars PROVE Inv'
    OBVIOUS
  <2>0. TypeInv /\ RecordsInv /\ PassedInv
    BY DEF Inv
  <2>1. CASE UNCHANGED vars
    <3>1. UNCHANGED <<server, log, es, stream, file, lastCp, missed, snap>>
      BY <2>1 DEF vars
    <3>2. snap = NoSnapshot \/ Complete(snap)
      BY <2>0 DEF TypeInv
    <3>3. snap' = NoSnapshot \/ Complete(snap')
      BY <3>1, <3>2
    <3>4. InSnapshot' => InSnapshot /\ snap'.records = snap.records /\ stream.st = "off"
      BY <2>0, <3>1 DEF InSnapshot, RecordsInv
    <3> QED
      BY <3>1, <3>3, <3>4, SnapshotStep
  <2>2. CASE Next
    BY <2>2, ChangeStep, BeginStep, PlanStep, ReadStep, CursorStep, StartStep, HandleStep, QuietStep
       DEF Next, Crash, Panic
  <2> QED
    BY <2>1, <2>2
<1> QED
  BY <1>1, <1>2, PTL DEF Spec

-----------------------------------------------------------------------------
\* A change stream that has caught up shows every document as it is, whatever
\* the lookups of updates returned, however often the stream was started again
\* and whatever a snapshot wrote before: the last change of a document is
\* delivered with the document as it is, and nothing writes it afterwards.
THEOREM StreamConvergesHolds == Spec => []StreamConverges
<1>1. Inv => StreamConverges
  <2> SUFFICES ASSUME Inv, stream.pos = Len(log), NEW id \in Ids, Watched(id),
                      LastChange(id) \notin missed \cup {0}, log[LastChange(id)].ok,
                      ~Ambiguous(id), id.kind # "date"
               PROVE  ShownFor(id) = {Version(id)} \ {0}
    BY DEF StreamConverges
  <2>1. OneKey(id) /\ SnapshotKey(id) = GetPrimaryKey(id)
    BY KeyFacts DEF OneKey
  <2>2. LastChange(id) \in 0..Len(log)
    BY LogFacts, LastFacts DEF Inv, TypeInv
  <2>3. es[GetPrimaryKey(id)] = Version(id)
    BY <2>1, <2>2 DEF Inv, PassedInv
  <2> QED
    BY <2>1, <2>3 DEF ShownFor
<1> QED
  BY <1>1, Invariant, PTL

-----------------------------------------------------------------------------
(* What a snapshot owes.                                                   *)

Chunk == [by : {"all"}] \cup [by : {"skip"}, skip : Nat, limit : Nat \ {0}]
         \cup [by : {"range"}, lo : Int, hi : Int]

\* Documents came or went since the snapshot began.
Churn == \E i \in (snap.since + 1)..Len(log) : log[i].op \in {"insert", "delete"}

\* The documents a snapshot has to copy.
Owed(id) ==
    /\ id \in Docs(snap.coll) /\ LastChange(id) <= snap.since /\ log[LastChange(id)].ok
    /\ ~Ambiguous(id) /\ ~OutOfRange(id) /\ ~(server.parallel /\ Churn)

Copied(id) == es[SnapshotKey(id)] = LastChange(id)

\* The chunk will read the document of D.
Before(D, id) == {d \in D : Less(d, id)}
InScope(D, id, chunk) ==
    /\ InChunk(id, chunk)
    /\ chunk.by = "skip" => /\ chunk.skip <= Cardinality(Before(D, id))
                            /\ Cardinality(Before(D, id)) < chunk.skip + chunk.limit

\* The open cursor will.
AheadOf(D, chunk, after) == {id \in D : InChunk(id, chunk) /\ \A d \in after : Less(d, id)}
Skipped(D, skip) == {id \in D : Cardinality(Before(D, id)) < skip}
InCursor(id) ==
    /\ id \in Ahead
    /\ Head(snap.chunks).by = "skip" => Cardinality(Before(Ahead, id)) < snap.left

Pending(id) ==
    \/ snap.st = "open" /\ \E j \in DOMAIN snap.chunks : InScope(Docs(snap.coll), id, snap.chunks[j])
    \/ snap.st = "read" /\ \/ \E j \in 2..Len(snap.chunks) : InScope(Docs(snap.coll), id, snap.chunks[j])
                           \/ InCursor(id)
                           \/ \E n \in DOMAIN snap.records : snap.records[n].key = SnapshotKey(id)

\* _id values a cursor may still come to.
Room(after) == {d \in Ids : \A a \in after : Less(a, d)}

PlanType ==
    /\ server.parallel \in BOOLEAN
    /\ snap.st # "idle" =>
        /\ snap.st \in {"info", "chunk", "range", "open", "read", "done", "failed"}
        /\ snap.since \in 0..Len(log) /\ snap.count \in Nat /\ snap.left \in Nat
        /\ snap.chunks \in Seq(Chunk) /\ snap.after \subseteq Ids
    /\ snap.st \in {"info", "chunk", "range"} => server.parallel

\* How far the planning of chunks has come.
PlanInv ==
    /\ snap.st = "chunk" /\ ~Churn => snap.count = Cardinality(Docs(snap.coll))
    /\ snap.st = "range" /\ ~Churn => Docs(snap.coll) # {} /\ Lowest(Docs(snap.coll)).kind = "int"
    /\ snap.st \in {"open", "read"} =>
         \A j \in DOMAIN snap.chunks : snap.chunks[j].by = "all" <=> ~server.parallel

\* A cursor without a limit has room for every document before it.
CursorInv ==
    /\ snap.st \in {"info", "chunk", "range", "open"} => snap.records = << >>
    /\ snap.st = "read" => /\ snap.chunks # << >>
                           /\ Head(snap.chunks).by # "skip" => Cardinality(Room(snap.after)) <= snap.left

\* A record to be sent holds the version of its document, unless that has changed
\* since the snapshot began.
VersionInv ==
    InSnapshot =>
        \A n \in DOMAIN snap.records : \A id \in Ids :
            ~Ambiguous(id) /\ snap.records[n].key = SnapshotKey(id) /\ LastChange(id) <= snap.since
            => snap.records[n].version = Version(id)

\* A job's stream begins after its snapshots.
JobInv == server.client = "job" /\ snap.st = "done" /\ stream.st = "on" => snap.since <= stream.pos

\* Of what a snapshot owes, everything is copied or will be.
CopyInv ==
    snap.st \in {"open", "read", "done"} /\ ~snap.broken /\ (server.client = "job" \/ stream.st = "off") =>
        \A id \in Ids : Owed(id) => Copied(id) \/ Pending(id)

SnapInv == PlanType /\ PlanInv /\ CursorInv /\ VersionInv /\ JobInv /\ CopyInv

-----------------------------------------------------------------------------
(* The documents before another, and the chunks.                           *)

\* The documents of a collection.
LEMMA DocsFacts ==
    /\ \A c : Docs(c) \subseteq {id \in Ids : id.coll = c}
    /\ log' = log => \A c : Docs(c)' = Docs(c)
<1>1. \A c : Docs(c) \subseteq {id \in Ids : id.coll = c}
  BY DEF Docs
<1>2. ASSUME log' = log PROVE \A c : Docs(c)' = Docs(c)
  <2>1. \A id : Version(id)' = Version(id)
    BY <1>2, LogFacts
  <2> QED
    BY <2>1 DEF Docs
<1> QED
  BY <1>1, <1>2

\* Sets of _id values are finite.
LEMMA CountIds ==
    ASSUME NEW S, S \subseteq Ids
    PROVE  IsFiniteSet(S) /\ Cardinality(S) \in Nat
  BY MongoAssumption, FS_Subset, FS_CardinalityType

\* Taking one away.
LEMMA OneLess ==
    ASSUME NEW S, S \subseteq Ids, NEW a \in S, NEW T, T \subseteq S \ {a}
    PROVE  Cardinality(T) <= Cardinality(S) - 1
<1>1. IsFiniteSet(S) /\ Cardinality(S) \in Nat /\ IsFiniteSet(S \ {a}) /\ Cardinality(T) \in Nat
  BY CountIds
<1>2. Cardinality(S \ {a}) = Cardinality(S) - 1
  BY <1>1, FS_RemoveElement
<1>3. Cardinality(T) <= Cardinality(S \ {a})
  BY <1>1, FS_Subset
<1> QED
  BY <1>1, <1>2, <1>3

\* The cursor of a chunk by number comes to every document the chunk is for:
\* as many as the chunk skips come before the first that it does not skip.
LEMMA SkipFact ==
    ASSUME NEW c, NEW D, D = Docs(c), NEW chunk \in Chunk, chunk.by = "skip", NEW id \in D, InScope(D, id, chunk)
    PROVE  LET ahead == AheadOf(D, chunk, Skipped(D, chunk.skip))
           IN  id \in ahead /\ Cardinality(Before(ahead, id)) < chunk.limit
<1> DEFINE skip == chunk.skip
           limit == chunk.limit
           after == Skipped(D, skip)
           B == Before(AheadOf(D, chunk, after), id)
<1>1. /\ skip \in Nat /\ limit \in Nat \ {0} /\ skip <= Cardinality(Before(D, id))
      /\ Cardinality(Before(D, id)) < skip + limit
  BY DEF Chunk, InScope
<1>2. after \subseteq D /\ \A d \in D : d \in after <=> Cardinality(Before(D, d)) < skip
  BY DEF Skipped
<1>3. B \subseteq Before(D, id) /\ \A d \in B : \A a \in after : Less(a, d)
  BY DEF Before, AheadOf
<1>4. D \subseteq {d \in Ids : d.coll = c}
  BY DocsFacts
<1>5. \A d \in D : (\A a \in after : Less(a, d)) => d \in AheadOf(D, chunk, after)
  BY DEF AheadOf, InChunk
<1> HIDE DEF skip, limit, after, B
<1>6. /\ \A a \in D : ~Less(a, a)
      /\ \A a, b, d \in D : Less(a, b) /\ Less(b, d) => Less(a, d)
      /\ \A a, b \in D : a # b => Less(a, b) \/ Less(b, a)
  BY <1>4, LessFacts
<1>7. \A d \in D : /\ Before(D, d) \subseteq D /\ IsFiniteSet(Before(D, d)) /\ Cardinality(Before(D, d)) \in Nat
  <2>1. \A d \in D : Before(D, d) \subseteq D /\ Before(D, d) \subseteq Ids
    BY <1>4 DEF Before
  <2> QED
    BY <1>4, <2>1, CountIds
<1>8. ASSUME NEW d \in after PROVE Less(d, id)
  <2>1. d \in D /\ Cardinality(Before(D, d)) < skip
    BY <1>2
  <2>2. d # id
    BY <1>1, <1>7, <2>1
  <2> SUFFICES ASSUME Less(id, d) PROVE FALSE
    BY <1>6, <2>1, <2>2
  <2>3. Before(D, id) \subseteq Before(D, d)
    BY <1>6, <2>1 DEF Before
  <2>4. Cardinality(Before(D, id)) <= Cardinality(Before(D, d))
    BY <1>7, <2>1, <2>3, FS_Subset
  <2> QED
    BY <1>1, <1>7, <2>1, <2>4
<1>9. CASE B = {}
  <2>1. Cardinality(B) = 0
    BY <1>9, FS_EmptySet
  <2> QED
    BY <1>1, <1>8, <1>5, <2>1 DEF after, B, limit, skip
<1>10. CASE B # {}
  <2>1. B \subseteq D /\ B \subseteq {d \in Ids : d.coll = c} /\ B \subseteq Before(D, id)
    BY <1>3, <1>4 DEF Before
  <2> DEFINE m == Lowest(B)
  <2>2. m \in B /\ \A b \in B \ {m} : Less(m, b)
    BY <1>10, <2>1, LowestFact
  <2> HIDE DEF m
  <2>3. m \in D /\ m \notin after /\ m \in Before(D, id) /\ \A a \in after : Less(a, m)
    BY <1>6, <1>2, <1>3, <2>1, <2>2
  <2>4. skip <= Cardinality(Before(D, m))
    BY <1>1, <1>2, <1>7, <2>3
  <2>5. Before(D, m) \cap B = {} /\ Before(D, m) \cup B \subseteq Before(D, id)
    <3>1. ASSUME NEW d \in Before(D, m) PROVE d \notin B /\ d \in Before(D, id)
      <4>1. d \in D /\ Less(d, m) /\ Less(m, id)
        BY <2>3 DEF Before
      <4>2. d \in Before(D, id)
        BY <1>6, <2>3, <4>1 DEF Before
      <4>3. d \notin B
        BY <1>6, <2>1, <2>2, <2>3, <4>1
      <4> QED
        BY <4>2, <4>3
    <3> QED
      BY <2>1, <3>1
  <2>6. IsFiniteSet(B) /\ Cardinality(B) \in Nat
    BY <2>1, CountIds
  <2>7. Cardinality(Before(D, m) \cup B) = Cardinality(Before(D, m)) + Cardinality(B)
    <3>1. Before(D, m) \cap B = {} /\ IsFiniteSet(Before(D, m))
      BY <1>7, <2>3, <2>5
    <3>2. Cardinality(Before(D, m) \cap B) = 0
      BY <3>1, FS_EmptySet
    <3>3. Cardinality(Before(D, m) \cup B)
            = Cardinality(Before(D, m)) + Cardinality(B) - Cardinality(Before(D, m) \cap B)
      BY <2>6, <3>1, FS_Union
    <3> QED
      BY <1>7, <2>3, <2>6, <3>2, <3>3
  <2>8. Cardinality(Before(D, m) \cup B) <= Cardinality(Before(D, id))
    BY <1>7, <2>5, FS_Subset
  <2>9. Cardinality(B) < limit
    BY <1>1, <1>7, <2>3, <2>4, <2>6, <2>7, <2>8
  <2> QED
    BY <1>8, <1>5, <2>9 DEF after, B, limit, skip
<1> QED
  BY <1>9, <1>10

\* Integer division.
LEMMA DivFact ==
    ASSUME NEW a \in Int, NEW d \in Int, d > 0
    PROVE  a \div d \in Int /\ (a \div d) * d <= a /\ a < (a \div d) * d + d
  BY Z3

\* Chunks of size s hold n numbers: each of them is in one.
LEMMA ChunkFact ==
    ASSUME NEW n \in Nat, NEW p \in Nat, p < n, NEW s \in Nat \ {0}
    PROVE  \E j \in 1..CeilDiv(n, s) : (j - 1) * s \in Nat /\ (j - 1) * s <= p /\ p < (j - 1) * s + s
<1> DEFINE q == p \div s
           r == (n + s - 1) \div s
<1>1. q \in Int /\ q * s <= p /\ p < q * s + s
  BY DivFact
<1>2. r \in Int /\ n + s - 1 < r * s + s
  BY DivFact
<1>3. CeilDiv(n, s) = r
  BY DEF CeilDiv
<1> HIDE DEF q, r
<1>4. q >= 0
  <2> SUFFICES ASSUME q <= -1 PROVE FALSE
    BY <1>1
  <2>1. (q + 1) * s <= 0 /\ (q + 1) * s = q * s + s
    BY <1>1, Z3
  <2> QED
    BY <1>1, <2>1, Z3
<1>5. q + 1 <= r
  <2> SUFFICES ASSUME r <= q PROVE FALSE
    BY <1>1, <1>2
  <2>1. r * s <= q * s
    BY <1>1, <1>2, Z3
  <2> QED
    BY <1>1, <1>2, <2>1, Z3
<1>6. q * s >= 0 /\ q * s \in Int
  BY <1>1, <1>4, Z3
<1>7. (q + 1) - 1 = q /\ q + 1 \in 1..r
  BY <1>1, <1>2, <1>4, <1>5
<1> QED
  BY <1>1, <1>3, <1>6, <1>7

\* One of the documents comes last as well.
LEMMA HighestFact ==
    ASSUME NEW c, NEW S, S \subseteq {id \in Ids : id.coll = c}, S # {}
    PROVE  Highest(S) \in S /\ \A b \in S \ {Highest(S)} : Less(b, Highest(S))
<1> DEFINE After(a) == {d \in S : Less(a, d)}
           N == {Cardinality(After(a)) : a \in S}
<1>1. /\ \A a \in S : ~Less(a, a)
      /\ \A a, b, d \in S : Less(a, b) /\ Less(b, d) => Less(a, d)
      /\ \A a, b \in S : a # b => Less(a, b) \/ Less(b, a)
  BY LessFacts
<1>2. IsFiniteSet(S)
  BY MongoAssumption, FS_Subset
<1>3. \A a \in S : IsFiniteSet(After(a)) /\ Cardinality(After(a)) \in Nat
  BY <1>2, FS_Subset, FS_CardinalityType
<1>4. N \in SUBSET Nat /\ N # {}
  BY <1>3
<1>5. PICK m \in N : \A y \in N : ~ (<<y, m>> \in OpToRel(<, Nat))
  <2> HIDE DEF N
  <2> QED
    BY <1>4, NatLessThanWellFounded, WFMin
<1>6. PICK a \in S : m = Cardinality(After(a))
  OBVIOUS
<1>7. \A b \in S : ~ (Cardinality(After(b)) < Cardinality(After(a)))
  BY <1>3, <1>5, <1>6 DEF OpToRel
<1>8. ASSUME NEW b \in S, b # a PROVE Less(b, a)
  <2> SUFFICES ASSUME Less(a, b) PROVE FALSE
    BY <1>1, <1>8
  <2>1. After(b) \subseteq After(a) /\ b \in After(a) /\ b \notin After(b)
    BY <1>1
  <2>2. Cardinality(After(b)) < Cardinality(After(a))
    <3> HIDE DEF After
    <3>1. After(b) # After(a)
      BY <2>1
    <3>2. /\ Cardinality(After(b)) <= Cardinality(After(a))
          /\ Cardinality(After(b)) = Cardinality(After(a)) => After(b) = After(a)
      BY <1>3, <2>1, FS_Subset
    <3> QED
      BY <1>3, <3>1, <3>2
  <2> QED
    BY <1>7, <2>2
<1> QED
  BY <1>8 DEF Highest

\* The smaller of two numbers.
LEMMA MinFact ==
    ASSUME NEW a \in Int, NEW b \in Int
    PROVE  Min({a, b}) = IF a <= b THEN a ELSE b
<1> DEFINE m == IF a <= b THEN a ELSE b
<1>1. m \in {a, b} /\ \A y \in {a, b} : m <= y
  OBVIOUS
<1>2. PICK x \in {a, b} : x = Min({a, b}) /\ \A y \in {a, b} : x <= y
  BY <1>1 DEF Min
<1> QED
  BY <1>1, <1>2

\* The number of chunks.
LEMMA CeilFact ==
    ASSUME NEW n \in Nat
    PROVE  CeilDiv(n, ChunkSize) \in Nat
<1>1. ChunkSize \in Nat \ {0}
  BY MongoAssumption
<1> DEFINE r == (n + ChunkSize - 1) \div ChunkSize
<1>2. r \in Int /\ n + ChunkSize - 1 < r * ChunkSize + ChunkSize
  BY <1>1, DivFact
<1> HIDE DEF r
<1>3. r >= 0
  <2> SUFFICES ASSUME r <= -1 PROVE FALSE
    BY <1>2
  <2>1. (r + 1) * ChunkSize <= 0 /\ (r + 1) * ChunkSize = r * ChunkSize + ChunkSize
    BY <1>1, <1>2, Z3
  <2> QED
    BY <1>1, <1>2, <2>1, Z3
<1> QED
  BY <1>2, <1>3 DEF CeilDiv, r

\* Chunks by number hold every document, when there are as many as were counted.
LEMMA SkipLimitFact ==
    ASSUME NEW n \in Nat
    PROVE  /\ SkipLimitChunks(n) \in Seq(Chunk)
           /\ \A j \in DOMAIN SkipLimitChunks(n) : SkipLimitChunks(n)[j].by = "skip"
           /\ \A c, D, id : /\ D \subseteq {d \in Ids : d.coll = c} /\ n = Cardinality(D) /\ id \in D
                            => \E j \in DOMAIN SkipLimitChunks(n) : InScope(D, id, SkipLimitChunks(n)[j])
<1> DEFINE r == CeilDiv(n, ChunkSize)
           C(i) == [by |-> "skip", skip |-> (i - 1) * ChunkSize, limit |-> ChunkSize]
<1>1. SkipLimitChunks(n) = [i \in 1..r |-> C(i)]
  BY DEF SkipLimitChunks
<1>2. r \in Nat /\ ChunkSize \in Nat \ {0}
  BY CeilFact, MongoAssumption
<1> HIDE DEF r
<1>3. ASSUME NEW i \in 1..r PROVE C(i) \in Chunk
  <2>1. (i - 1) * ChunkSize \in Nat
    BY <1>2, Z3
  <2> QED
    BY <1>2, <2>1 DEF Chunk
<1>4. ASSUME NEW c, NEW D, NEW id, D \subseteq {d \in Ids : d.coll = c}, n = Cardinality(D), id \in D
      PROVE  \E j \in 1..r : InScope(D, id, C(j))
  <2>1. D \subseteq Ids /\ Before(D, id) \subseteq D \ {id}
    <3>1. ~Less(id, id)
      BY <1>4, LessFacts
    <3> QED
      BY <1>4, <3>1 DEF Before
  <2>2. Cardinality(Before(D, id)) <= n - 1 /\ Cardinality(Before(D, id)) \in Nat
    BY <1>4, <2>1, OneLess, CountIds
  <2>3. PICK p \in Nat : p = Cardinality(Before(D, id)) /\ p < n
    BY <2>2
  <2>4. PICK j \in 1..r : (j - 1) * ChunkSize \in Nat /\ (j - 1) * ChunkSize <= p /\ p < (j - 1) * ChunkSize + ChunkSize
    BY <1>2, <2>3, ChunkFact DEF r
  <2>5. InScope(D, id, C(j))
    BY <2>3, <2>4 DEF InScope, InChunk
  <2> QED
    BY <2>5
<1> HIDE DEF C
<1> DEFINE s == [i \in 1..r |-> C(i)]
<1>5. s \in Seq(Chunk) /\ DOMAIN s = 1..r
  BY <1>2, <1>3
<1>6. \A j \in 1..r : s[j] = C(j) /\ s[j].by = "skip"
  BY DEF C
<1>7. SkipLimitChunks(n) = s
  BY <1>1
<1> HIDE DEF s
<1>8. ASSUME NEW c, NEW D, NEW id, D \subseteq {d \in Ids : d.coll = c}, n = Cardinality(D), id \in D
      PROVE  \E j \in DOMAIN s : InScope(D, id, s[j])
  <2>1. PICK j \in 1..r : InScope(D, id, C(j))
    BY <1>4, <1>8
  <2> QED
    BY <1>5, <1>6, <2>1
<1> QED
  BY <1>5, <1>6, <1>7, <1>8

\* Halves of even numbers.
LEMMA HalfFact ==
    ASSUME NEW n \in Int
    PROVE  /\ 2 * (n \div 2) <= n /\ n <= 2 * (n \div 2) + 1 /\ n \div 2 \in Int
           /\ n % 2 = 0 => n = 2 * (n \div 2)
  OBVIOUS

\* Chunks of numbers hold every integer from the smallest _id to the largest.
LEMMA NumericFact ==
    ASSUME NEW lo \in Int, NEW hi \in Int
    PROVE  /\ NumericIDChunks(lo, hi) \in Seq(Chunk)
           /\ \A j \in DOMAIN NumericIDChunks(lo, hi) : NumericIDChunks(lo, hi)[j].by = "range"
           /\ \A D, id : /\ id \in Ids /\ id.kind = "int" /\ 2 * lo <= id.n /\ id.n <= 2 * hi + 1
                         => \E j \in DOMAIN NumericIDChunks(lo, hi) : InScope(D, id, NumericIDChunks(lo, hi)[j])
<1> DEFINE n == IF hi < lo THEN 0 ELSE hi - lo + 1
           r == CeilDiv(n, ChunkSize)
           C(i) == [by |-> "range", lo |-> lo + (i - 1) * ChunkSize, hi |-> Min({lo + i * ChunkSize - 1, hi})]
<1>1. NumericIDChunks(lo, hi) = [i \in 1..r |-> C(i)]
  BY DEF NumericIDChunks
<1>2. n \in Nat /\ r \in Nat /\ ChunkSize \in Nat \ {0}
  <2>1. n \in Nat
    OBVIOUS
  <2> HIDE DEF n
  <2> QED
    BY <2>1, CeilFact, MongoAssumption
<1>3. ASSUME NEW i \in 1..r
      PROVE  /\ C(i) \in Chunk
             /\ C(i).by = "range" /\ C(i).lo = lo + (i - 1) * ChunkSize
             /\ C(i).hi \in {lo + (i - 1) * ChunkSize + ChunkSize - 1, hi}
             /\ i * ChunkSize \in Int /\ (i - 1) * ChunkSize \in Int
  <2> HIDE DEF r
  <2>1. i * ChunkSize \in Int /\ (i - 1) * ChunkSize \in Int /\ i * ChunkSize = (i - 1) * ChunkSize + ChunkSize
    BY <1>2, Z3
  <2>2. lo + i * ChunkSize - 1 \in Int /\ lo + (i - 1) * ChunkSize \in Int
    BY <2>1
  <2>3. Min({lo + i * ChunkSize - 1, hi}) \in {lo + i * ChunkSize - 1, hi}
    BY <2>2, MinFact
  <2>4. Min({lo + i * ChunkSize - 1, hi}) \in Int
    BY <2>2, <2>3
  <2> DEFINE b == Min({lo + i * ChunkSize - 1, hi})
             a == lo + (i - 1) * ChunkSize
  <2>5. a \in Int /\ b \in Int /\ b \in {a + ChunkSize - 1, hi}
    BY <1>2, <2>1, <2>2, <2>3, <2>4
  <2>6. C(i) = [by |-> "range", lo |-> a, hi |-> b]
    OBVIOUS
  <2> HIDE DEF a, b, C
  <2>7. C(i) \in Chunk /\ C(i).by = "range" /\ C(i).lo = a /\ C(i).hi = b
    BY <2>5, <2>6 DEF Chunk
  <2> QED
    BY <2>1, <2>5, <2>7 DEF a
<1>4. ASSUME NEW D, NEW id \in Ids, id.kind = "int", 2 * lo <= id.n, id.n <= 2 * hi + 1
      PROVE  \E j \in 1..r : InScope(D, id, C(j))
  <2> DEFINE x == id.n \div 2
  <2>1. id.n \in Int /\ id.n % 2 = 0
    BY <1>4, MongoAssumption
  <2>2. x \in Int /\ id.n = 2 * x
    BY <2>1, HalfFact
  <2> HIDE DEF x
  <2>3. lo <= x /\ x <= hi
    BY <1>4, <2>2
  <2>4. x - lo \in Nat /\ x - lo < n
    BY <2>2, <2>3
  <2> HIDE DEF n
  <2>5. PICK j \in 1..r : /\ (j - 1) * ChunkSize \in Nat /\ (j - 1) * ChunkSize <= x - lo
                          /\ x - lo < (j - 1) * ChunkSize + ChunkSize
    BY <1>2, <2>4, ChunkFact DEF r
  <2>6. /\ C(j).by = "range" /\ C(j).lo = lo + (j - 1) * ChunkSize
        /\ C(j).hi \in {lo + (j - 1) * ChunkSize + ChunkSize - 1, hi}
    BY <1>3
  <2> HIDE DEF C, r
  <2>7. C(j).lo \in Int /\ C(j).hi \in Int /\ C(j).lo <= x /\ x <= C(j).hi
    BY <1>2, <2>2, <2>3, <2>5, <2>6
  <2>8. InScope(D, id, C(j))
    BY <1>4, <2>2, <2>6, <2>7 DEF InScope, InChunk
  <2> QED
    BY <2>8
<1> HIDE DEF C, r
<1> DEFINE s == [i \in 1..r |-> C(i)]
<1>5. s \in Seq(Chunk) /\ DOMAIN s = 1..r
  BY <1>2, <1>3
<1>6. \A j \in 1..r : s[j] = C(j) /\ s[j].by = "range"
  BY <1>3
<1>7. NumericIDChunks(lo, hi) = s
  BY <1>1
<1> HIDE DEF s
<1> QED
  BY <1>4, <1>5, <1>6, <1>7

\* Where the chunks of numbers begin and end.
LEMMA ToInt64Fact ==
    ASSUME NEW c, NEW D, D \subseteq {d \in Ids : d.coll = c}, NEW id \in D,
           Lowest(D).kind = "int", id.kind = "int", Rank[Highest(D).kind] = Rank["int"]
    PROVE  /\ ToInt64(Lowest(D)) \in Int /\ 2 * ToInt64(Lowest(D)) <= id.n
           /\ ToInt64(Highest(D)) \in Int /\ id.n <= 2 * ToInt64(Highest(D)) + 1
<1>1. PICK l \in D : l = Lowest(D) /\ \A b \in D \ {l} : Less(l, b)
  BY LowestFact
<1>2. PICK h \in D : h = Highest(D) /\ \A b \in D \ {h} : Less(b, h)
  BY HighestFact
<1>3. \A d \in {id, l, h} : d \in Ids /\ d.n \in Int /\ (d.kind = "int" => d.n % 2 = 0) /\ d.kind \in DOMAIN Rank
  BY <1>1, <1>2, MongoAssumption
<1>4. l.kind = "int" /\ h.kind \in {"int", "float"}
  BY <1>1, <1>2, <1>3 DEF Rank
<1>5. l.n <= id.n
  BY <1>1, <1>3, <1>4 DEF Less, Rank
<1>6. id.n <= h.n
  BY <1>2, <1>3, <1>4 DEF Less, Rank
<1>7. l.n % 2 = 0 /\ id.n % 2 = 0
  BY <1>3, <1>4
<1>8. ToInt64(l) \in Int /\ 2 * ToInt64(l) <= l.n
  BY <1>3, <1>4, <1>7 DEF ToInt64
<1>9. ToInt64(h) \in Int /\ h.n <= 2 * ToInt64(h) + 1
  BY <1>3, <1>4 DEF ToInt64
<1> QED
  BY <1>1, <1>2, <1>3, <1>5, <1>6, <1>8, <1>9

-----------------------------------------------------------------------------
(* The steps, and what the snapshot owes.                                  *)

\* A step that leaves the log alone, and the collection of the snapshot.
LEMMA Frame ==
    ASSUME UNCHANGED <<log, server>>, snap'.coll = snap.coll, snap'.since = snap.since
    PROVE  /\ Docs(snap.coll)' = Docs(snap.coll)
           /\ Churn' <=> Churn
           /\ \A id : LastChange(id)' = LastChange(id) /\ Version(id)' = Version(id)
           /\ \A id : Owed(id)' <=> Owed(id)
<1>1. Docs(snap.coll)' = Docs(snap.coll)
  <2>1. \A id : Version(id)' = Version(id)
    BY LogFacts
  <2> QED
    BY <2>1 DEF Docs
<1>2. Churn' <=> Churn
  BY DEF Churn
<1>3. \A id : LastChange(id)' = LastChange(id) /\ Version(id)' = Version(id)
  BY LogFacts
<1>4. \A id : OutOfRange(id)' <=> OutOfRange(id)
  BY <1>1 DEF OutOfRange
<1> QED
  BY <1>1, <1>2, <1>3, <1>4 DEF Owed

\* The last change of a document, and its version.
LEMMA NowFacts ==
    ASSUME TypeInv, NEW id
    PROVE  /\ LastChange(id) \in 0..Len(log) /\ Len(log) \in Nat
           /\ LastChange(id) # 0 => LastChange(id) \in DOMAIN log
           /\ Version(id) = IF LastChange(id) = 0 \/ log[LastChange(id)].op = "delete" THEN 0 ELSE LastChange(id)
<1>1. log \in Seq(Change) /\ Len(log) \in Nat
  BY DEF TypeInv
<1>2. LastIn(log, id) \in 0..Len(log) /\ (LastIn(log, id) # 0 => LastIn(log, id) \in DOMAIN log)
  BY <1>1, LastFacts
<1>3. Len(log) \in 0..Len(log) /\ LastIn(log, id) <= Len(log)
  BY <1>1, <1>2
<1>4. VersionIn(log, id, Len(log)) = IF LastIn(log, id) = 0 \/ log[LastIn(log, id)].op = "delete" THEN 0
                                     ELSE LastIn(log, id)
  BY <1>1, <1>3, VersionFacts
<1> QED
  BY <1>1, <1>2, <1>4, LogFacts

\* A document that is owed exists, and its version is its last change.
LEMMA OwedFacts ==
    ASSUME TypeInv, NEW id, Owed(id)
    PROVE  /\ id \in Ids /\ id.coll = snap.coll /\ SnapshotKey(id) \in Keys /\ ~Ambiguous(id)
           /\ LastChange(id) \in DOMAIN log /\ Version(id) = LastChange(id) /\ LastChange(id) # 0
           /\ LastChange(id) <= snap.since /\ log[LastChange(id)].ok
<1>1. id \in Ids /\ id.coll = snap.coll /\ Version(id) # 0
  BY DEF Owed, Docs
<1>2. Version(id) = LastChange(id) /\ LastChange(id) # 0 /\ LastChange(id) \in DOMAIN log
  BY <1>1, NowFacts
<1>3. SnapshotKey(id) \in Keys
  BY <1>1, KeyFacts
<1> QED
  BY <1>1, <1>2, <1>3 DEF Owed

\* The stream writes no other document under the key the snapshot gave one.
LEMMA SharedKey ==
    ASSUME NEW id \in Ids, ~Ambiguous(id), NEW d \in Ids, d # id
    PROVE  GetPrimaryKey(d) # SnapshotKey(id)
<1>1. CASE id.kind # "date"
  BY <1>1 DEF Ambiguous, SnapshotKey, GetPrimaryKey
<1>2. CASE id.kind = "date"
  <2>1. SnapshotKey(id) = <<id.coll, <<"date", id.n>>>>
    BY <1>2 DEF SnapshotKey, ConvertBSONValue
  <2>2. GetPrimaryKey(d)[2][1] \in {"quoted", "digits", d.kind} /\ (d.kind = "date" => GetPrimaryKey(d)[2][1] = "quoted")
    BY DEF GetPrimaryKey, ConvertBSONValue
  <2>3. SnapshotKey(id)[2][1] = "date"
    BY <2>1
  <2> QED
    BY <2>2, <2>3
<1> QED
  BY <1>1, <1>2

\* A step of the stream: what is copied stays so.
LEMMA KeepSnap ==
    ASSUME SnapInv, UNCHANGED <<server, log, snap>>, JobInv',
           server.client = "job" \/ stream'.st = "off" =>
               /\ server.client = "job" \/ stream.st = "off"
               /\ snap.st \in {"open", "read", "done"} => \A id \in Ids : Owed(id) /\ Copied(id) => Copied(id)'
    PROVE  SnapInv'
<1>1. /\ Docs(snap.coll)' = Docs(snap.coll) /\ (Churn' <=> Churn) /\ \A id : Owed(id)' <=> Owed(id)
      /\ \A id : LastChange(id)' = LastChange(id) /\ Version(id)' = Version(id)
  BY Frame
<1>2. Ahead' = Ahead
  BY <1>1 DEF Ahead
<1>3. \A id : Pending(id)' <=> Pending(id)
  BY <1>1, <1>2 DEF Pending, InCursor
<1>4. PlanType' /\ PlanInv' /\ CursorInv' /\ VersionInv'
  BY <1>1 DEF SnapInv, PlanType, PlanInv, CursorInv, VersionInv, InSnapshot
<1>5. CopyInv'
  BY <1>1, <1>3 DEF SnapInv, CopyInv
<1> QED
  BY <1>4, <1>5 DEF SnapInv

\* A restart forgets the snapshot.
LEMMA RestartSnap ==
    ASSUME SnapInv, Restart
    PROVE  SnapInv'
<1>1. snap'.st = "idle" /\ server' = server
  BY DEF Restart, NoSnapshot
<1> QED
  BY <1>1 DEF SnapInv, PlanType, PlanInv, CursorInv, VersionInv, InSnapshot, JobInv, CopyInv

\* The steps of the stream.
LEMMA StreamSnap ==
    ASSUME Inv, SnapInv, Start \/ StartFails \/ HandleChange \/ StreamFails \/ CommitCheckpoint
    PROVE  SnapInv'
<1>0. TypeInv /\ RecordsInv /\ PlanType /\ JobInv
  BY DEF Inv, SnapInv
<1>1. UNCHANGED <<server, log, snap>>
  BY DEF Start, StartFails, HandleChange, StreamFails, CommitCheckpoint
<1>2. stream'.st = "off" => stream.st = "off" /\ es' = es
  <2>1. stream \in [st : {"off", "on", "ended"}, pos : 0..Len(log)]
    BY <1>0 DEF TypeInv
  <2> QED
    BY <2>1 DEF Start, StartFails, HandleChange, StreamFails, CommitCheckpoint
<1>3. Len(log) \in Nat /\ stream.pos \in Nat
  BY <1>0 DEF TypeInv
<1>4. CASE Start
  <2>1. es' = es /\ ~InSnapshot /\ snap.st # "failed"
    BY <1>4 DEF Start, MayStart
  <2>2. JobInv'
    <3>1. server.client = "job" => stream'.pos = Len(log)
      BY <1>4 DEF Start, StartToken
    <3>2. snap.st = "done" => snap.since \in 0..Len(log)
      BY <1>0 DEF PlanType
    <3> QED
      BY <1>1, <1>3, <3>1, <3>2 DEF JobInv
  <2>3. \A id : Copied(id) => Copied(id)'
    BY <1>1, <2>1, LogFacts DEF Copied
  <2> QED
    BY <1>1, <1>2, <2>2, <2>3, KeepSnap
<1>5. CASE StartFails \/ StreamFails \/ CommitCheckpoint
  <2>1. es' = es /\ (stream'.st = "on" => stream.st = "on" /\ stream'.pos = stream.pos)
    <3>1. stream \in [st : {"off", "on", "ended"}, pos : 0..Len(log)]
      BY <1>0 DEF TypeInv
    <3> QED
      BY <1>5, <3>1 DEF StartFails, StreamFails, CommitCheckpoint
  <2>2. JobInv'
    BY <1>0, <1>1, <2>1 DEF JobInv
  <2>3. \A id : Copied(id) => Copied(id)'
    BY <1>1, <2>1, LogFacts DEF Copied
  <2> QED
    BY <1>1, <1>2, <2>2, <2>3, KeepSnap
<1>6. CASE HandleChange
  <2> DEFINE i == stream.pos + 1
             key == GetPrimaryKey(log[i].id)
  <2>1. /\ stream.st = "on" /\ i <= Len(log) /\ stream' = [stream EXCEPT !.pos = i]
        /\ \/ es' = es
           \/ \E full : es' = [es EXCEPT ![key] = full]
    BY <1>6 DEF HandleChange
  <2>2. i \in DOMAIN log /\ i \in Nat /\ stream'.pos = i /\ stream'.st = "on" /\ ~InSnapshot
    BY <1>0, <1>3, <2>1 DEF TypeInv, RecordsInv
  <2>3. JobInv'
    <3>1. snap.st = "done" => snap.since \in 0..Len(log)
      BY <1>0 DEF PlanType
    <3> QED
      BY <1>0, <1>1, <1>3, <2>1, <2>2, <3>1 DEF JobInv
  <2>4. ASSUME NEW id \in Ids, Owed(id), Copied(id), server.client = "job", snap.st = "done"
        PROVE  Copied(id)'
    <3>1. /\ LastChange(id) <= snap.since /\ ~Ambiguous(id) /\ SnapshotKey(id) \in Keys
          /\ \A k \in DOMAIN log : log[k].id = id => k <= LastChange(id)
          /\ LastChange(id) \in DOMAIN log
      <4>1. \A k \in DOMAIN log : log[k].id = id => k <= LastIn(log, id)
        BY <1>0, LastFacts DEF TypeInv
      <4> QED
        BY <1>0, <2>4, <4>1, OwedFacts, LogFacts
    <3>2. snap.since \in Nat /\ snap.since <= stream.pos
      BY <1>0, <2>1, <2>4 DEF PlanType, JobInv
    <3>3. log[i].id # id
      BY <1>0, <1>3, <2>2, <3>1, <3>2 DEF TypeInv
    <3>4. log[i].id \in Ids
      <4>1. log[i] \in Change
        BY <1>0, <2>2 DEF TypeInv
      <4> QED
        BY <4>1 DEF Change
    <3>5. key # SnapshotKey(id)
      BY <3>1, <3>3, <3>4, SharedKey
    <3>6. es'[SnapshotKey(id)] = es[SnapshotKey(id)]
      <4>1. es \in [Keys -> Nat]
        BY <1>0 DEF TypeInv
      <4> HIDE DEF key
      <4> QED
        BY <2>1, <3>1, <3>5, <4>1
    <3>7. LastChange(id)' = LastChange(id)
      BY <1>1, LogFacts
    <3> QED
      BY <2>4, <3>6, <3>7 DEF Copied
  <2>5. snap.st \in {"open", "read", "done"} => snap.st = "done"
    BY <2>2 DEF InSnapshot
  <2>6. stream'.st # "off" /\ stream.st # "off"
    BY <2>1, <2>2
  <2> HIDE DEF i
  <2> QED
    BY <1>1, <2>3, <2>4, <2>5, <2>6, KeepSnap
<1> QED
  BY <1>4, <1>5, <1>6

\* A change at the source: what is still owed was owed before, and where the
\* snapshot counts documents they are the same.
LEMMA ChangeSnap ==
    ASSUME Inv, SnapInv, NEW op \in {"insert", "update", "delete"}, NEW id \in Ids, NEW ok \in BOOLEAN,
           SourceChange(op, id, ok)
    PROVE  SnapInv'
<1>0. TypeInv /\ PlanType /\ PlanInv /\ CursorInv /\ VersionInv /\ JobInv /\ CopyInv
  BY DEF Inv, SnapInv
<1>1. UNCHANGED <<server, es, snap, stream>>
  BY <1>0, ChangeFacts
<1>2. /\ log \in Seq(Change) /\ log' \in Seq(Change) /\ Len(log') = Len(log) + 1 /\ Len(log) \in Nat
      /\ \A i \in DOMAIN log : log'[i] = log[i]
      /\ log'[Len(log')].op = op
      /\ LastChange(id)' = Len(log) + 1
      /\ Version(id)' = IF op = "delete" THEN 0 ELSE Len(log) + 1
      /\ \A d : d # id => LastChange(d)' = LastChange(d) /\ Version(d)' = Version(d)
  BY <1>0, ChangeFacts
<1>3. CASE snap.st = "idle"
  BY <1>0, <1>1, <1>3 DEF SnapInv, PlanType, PlanInv, CursorInv, VersionInv, JobInv, CopyInv, InSnapshot
<1>4. CASE snap.st # "idle"
  <2>1. snap.since \in 0..Len(log) /\ snap.since \in Nat
    BY <1>0, <1>2, <1>4 DEF PlanType
  <2>2. ASSUME ~Churn' PROVE ~Churn /\ op = "update"
    <3>1. \A i \in (snap.since + 1)..Len(log') : log'[i].op \notin {"insert", "delete"}
      BY <1>1, <2>2 DEF Churn
    <3>2. Len(log') \in (snap.since + 1)..Len(log')
      BY <1>2, <2>1
    <3>3. \A i \in (snap.since + 1)..Len(log) : i \in (snap.since + 1)..Len(log') /\ log'[i] = log[i]
      BY <1>2, <2>1
    <3> QED
      BY <1>2, <3>1, <3>2, <3>3 DEF Churn
  <2>3. ASSUME ~Churn' PROVE Docs(snap.coll)' = Docs(snap.coll)
    <3>1. op = "update"
      BY <2>2, <2>3
    <3>2. Version(id) # 0
      BY <3>1 DEF SourceChange
    <3>3. Version(id)' # 0
      BY <1>2, <3>1
    <3>4. \A d : Version(d)' # 0 <=> Version(d) # 0
      BY <1>2, <3>2, <3>3
    <3> QED
      BY <1>1, <3>4 DEF Docs
  <2>4. ASSUME NEW d, LastChange(d)' <= snap.since
        PROVE  LastChange(d)' = LastChange(d) /\ Version(d)' = Version(d)
               /\ (LastChange(d) \in DOMAIN log => log'[LastChange(d)] = log[LastChange(d)])
    <3>1. d # id
      BY <1>2, <2>1, <2>4
    <3> QED
      BY <1>2, <3>1
  <2>5. ASSUME NEW d, Owed(d)' PROVE Owed(d) /\ LastChange(d)' = LastChange(d)
    <3>1. /\ d \in Docs(snap.coll)' /\ LastChange(d)' <= snap.since /\ ~Ambiguous(d)
          /\ (log[LastChange(d)].ok)' /\ ~OutOfRange(d)' /\ ~(server.parallel /\ Churn')
      BY <1>1, <2>5 DEF Owed
    <3>2. LastChange(d)' = LastChange(d) /\ Version(d)' = Version(d)
      BY <2>4, <3>1
    <3>3. d \in Docs(snap.coll)
      BY <1>1, <3>1, <3>2 DEF Docs
    <3>4. LastChange(d) \in DOMAIN log
      <4>1. Version(d) # 0
        BY <3>3 DEF Docs
      <4> QED
        BY <1>0, <4>1, NowFacts
    <3>5. log[LastChange(d)].ok
      BY <2>4, <3>1, <3>2, <3>4
    <3>6. ~(server.parallel /\ Churn)
      BY <2>2, <3>1
    <3>7. ~OutOfRange(d)
      <4>1. CASE ~server.parallel
        BY <4>1 DEF OutOfRange
      <4>2. CASE server.parallel
        <5>1. Docs(snap.coll)' = Docs(snap.coll)
          BY <2>3, <3>1, <4>2
        <5> QED
          BY <1>1, <3>1, <5>1 DEF OutOfRange
      <4> QED
        BY <4>1, <4>2
    <3> QED
      BY <3>1, <3>2, <3>3, <3>5, <3>6, <3>7 DEF Owed
  <2>6. ASSUME NEW d, Owed(d)', Pending(d) PROVE Pending(d)'
    <3>1. CASE server.parallel
      <4>1. Docs(snap.coll)' = Docs(snap.coll)
        BY <1>1, <2>3, <2>6, <3>1 DEF Owed
      <4>2. Ahead' = Ahead
        BY <1>1, <4>1 DEF Ahead
      <4> QED
        BY <1>1, <2>6, <4>1, <4>2 DEF Pending, InCursor
    <3>2. CASE ~server.parallel
      <4>1. snap.st \in {"open", "read"} => \A j \in DOMAIN snap.chunks : snap.chunks[j].by = "all"
        BY <1>0, <3>2 DEF PlanInv
      <4>2. \A D, j : snap.st \in {"open", "read"} /\ j \in DOMAIN snap.chunks => InScope(D, d, snap.chunks[j])
        BY <4>1 DEF InScope, InChunk
      <4>3. CASE snap.st = "open"
        BY <1>1, <2>6, <4>2, <4>3 DEF Pending
      <4>4. CASE snap.st = "read"
        <5>0. snap.chunks \in Seq(Chunk) /\ snap.chunks # << >>
          BY <1>0, <4>4 DEF PlanType, CursorInv
        <5>1. /\ 1 \in DOMAIN snap.chunks /\ Head(snap.chunks) = snap.chunks[1]
              /\ \A j \in 2..Len(snap.chunks) : j \in DOMAIN snap.chunks
          BY <5>0
        <5>2. Head(snap.chunks).by # "skip"
          BY <4>1, <4>4, <5>1
        <5>3. d \in Docs(snap.coll)'
          BY <2>6 DEF Owed
        <5>4. CASE InCursor(d)
          <6>1. d \in Ahead'
            BY <1>1, <5>3, <5>4 DEF InCursor, Ahead
          <6> QED
            BY <1>1, <4>4, <5>2, <6>1 DEF Pending, InCursor
        <5>5. CASE \E j \in 2..Len(snap.chunks) : InScope(Docs(snap.coll), d, snap.chunks[j])
          BY <1>1, <4>2, <4>4, <5>1, <5>5 DEF Pending
        <5>6. CASE \E n \in DOMAIN snap.records : snap.records[n].key = SnapshotKey(d)
          BY <1>1, <4>4, <5>6 DEF Pending
        <5> QED
          BY <2>6, <4>4, <5>4, <5>5, <5>6 DEF Pending
      <4> QED
        BY <2>6, <4>3, <4>4 DEF Pending
    <3> QED
      BY <3>1, <3>2
  <2>7. PlanType' /\ PlanInv'
    <3>1. PlanType'
      <4>1. snap.since \in 0..Len(log')
        BY <1>2, <2>1
      <4> QED
        BY <1>0, <1>1, <4>1 DEF PlanType
    <3>2. PlanInv'
      <4>1. snap.st = "chunk" /\ ~Churn' => snap.count = Cardinality(Docs(snap.coll)')
        BY <1>0, <2>2, <2>3 DEF PlanInv
      <4>2. snap.st = "range" /\ ~Churn' => Docs(snap.coll)' # {} /\ Lowest(Docs(snap.coll)').kind = "int"
        BY <1>0, <2>2, <2>3 DEF PlanInv
      <4> QED
        BY <1>0, <1>1, <4>1, <4>2 DEF PlanInv
    <3> QED
      BY <3>1, <3>2
  <2>8. CursorInv' /\ VersionInv' /\ JobInv'
    <3>1. CursorInv' /\ JobInv'
      BY <1>0, <1>1 DEF CursorInv, JobInv
    <3>2. VersionInv'
      BY <1>0, <1>1, <2>4 DEF VersionInv, InSnapshot
    <3> QED
      BY <3>1, <3>2
  <2>9. CopyInv'
    <3>1. \A d : Copied(d) /\ LastChange(d)' = LastChange(d) => Copied(d)'
      BY <1>1 DEF Copied
    <3> QED
      BY <1>0, <1>1, <2>5, <2>6, <3>1 DEF CopyInv
  <2> QED
    BY <2>7, <2>8, <2>9 DEF SnapInv
<1> QED
  BY <1>3, <1>4

\* A snapshot that begins has everything before it.
LEMMA BeginSnap ==
    ASSUME Inv, SnapInv, NEW c, BeginSnapshot(c)
    PROVE  SnapInv'
<1>0. TypeInv /\ PlanType
  BY DEF Inv, SnapInv
<1>1. /\ snap'.st = IF server.parallel THEN "info" ELSE "open"
      /\ snap'.since = Len(log) /\ snap'.count = 0 /\ snap'.left = 0 /\ snap'.after = {}
      /\ snap'.chunks = IF server.parallel THEN << >> ELSE <<[by |-> "all"]>>
      /\ snap'.records = << >> /\ stream.st = "off"
      /\ UNCHANGED <<server, log, stream>>
  BY DEF BeginSnapshot
<1>2. server.parallel \in BOOLEAN /\ Len(log) \in Nat
  BY <1>0 DEF PlanType, TypeInv
<1>3. [by |-> "all"] \in Chunk
  BY DEF Chunk
<1>4. DOMAIN <<[by |-> "all"]>> = {1} /\ <<[by |-> "all"]>>[1].by = "all" /\ DOMAIN << >> = {}
  OBVIOUS
<1>5. PlanType' /\ PlanInv'
  <2>1. snap'.chunks \in Seq(Chunk)
    BY <1>1, <1>3
  <2> QED
    BY <1>1, <1>2, <1>4, <2>1 DEF PlanType, PlanInv
<1>6. CursorInv' /\ VersionInv' /\ JobInv'
  BY <1>1, <1>4 DEF CursorInv, VersionInv, JobInv
<1>7. CopyInv'
  <2>1. ASSUME NEW id, snap'.st = "open" PROVE Pending(id)'
    <3>1. snap'.chunks = <<[by |-> "all"]>>
      BY <1>1, <1>2, <2>1
    <3>2. 1 \in DOMAIN snap'.chunks /\ snap'.chunks[1].by = "all"
      BY <1>4, <3>1
    <3>3. \A D : InScope(D, id, snap'.chunks[1])
      BY <3>2 DEF InScope, InChunk
    <3> QED
      BY <2>1, <3>2, <3>3 DEF Pending
  <2> QED
    BY <1>1, <2>1 DEF CopyInv
<1> QED
  BY <1>5, <1>6, <1>7 DEF SnapInv

\* The fields of a snapshot under way, and its stream.
LEMMA UnderWay ==
    ASSUME Inv, SnapInv, snap.st \notin {"idle", "done", "failed"}
    PROVE  /\ Complete(snap) /\ InSnapshot /\ stream.st = "off" /\ snap.records \in Seq(Record)
           /\ server.parallel \in BOOLEAN /\ snap.since \in 0..Len(log) /\ Len(log) \in Nat
           /\ snap.count \in Nat /\ snap.left \in Nat /\ snap.chunks \in Seq(Chunk) /\ snap.after \subseteq Ids
           /\ Docs(snap.coll) \subseteq {id \in Ids : id.coll = snap.coll}
<1>1. TypeInv /\ RecordsInv /\ PlanType
  BY DEF Inv, SnapInv
<1>2. InSnapshot /\ stream.st = "off"
  BY <1>1 DEF InSnapshot, RecordsInv
<1>3. Complete(snap) /\ snap.records \in Seq(Record) /\ Len(log) \in Nat
  BY <1>1, SnapFacts DEF TypeInv
<1> QED
  BY <1>1, <1>2, <1>3, DocsFacts DEF PlanType

\* The documents are counted, or the snapshot ends with an error.
LEMMA InfoSnap ==
    ASSUME Inv, SnapInv, GetCollectionInfo \/ SnapshotFails \/ RangeGone
    PROVE  SnapInv'
<1>0. PlanType /\ PlanInv /\ CursorInv /\ VersionInv
  BY DEF SnapInv
<1>1. snap.st \notin {"idle", "done", "failed"}
  BY DEF GetCollectionInfo, SnapshotFails, RangeGone, InSnapshot
<1>2. /\ Complete(snap) /\ InSnapshot /\ stream.st = "off" /\ server.parallel \in BOOLEAN
      /\ Docs(snap.coll) \subseteq Ids
  BY <1>1, UnderWay
<1>3. UNCHANGED <<server, log, stream>>
  BY DEF GetCollectionInfo, SnapshotFails, RangeGone
<1>4. snap'.coll = snap.coll /\ snap'.since = snap.since /\ snap'.left = snap.left /\ snap'.chunks = snap.chunks
      /\ snap'.after = snap.after /\ snap'.records = snap.records
  BY <1>2 DEF Complete, GetCollectionInfo, SnapshotFails, RangeGone
<1>5. /\ Docs(snap.coll)' = Docs(snap.coll) /\ (Churn' <=> Churn)
      /\ \A id : LastChange(id)' = LastChange(id) /\ Version(id)' = Version(id)
  BY <1>3, <1>4, Frame
<1>6. \/ /\ snap.st = "info" /\ snap'.st = "chunk" /\ snap'.count = Cardinality(Docs(snap.coll))
         /\ snap'.broken = snap.broken
      \/ /\ snap'.st \in {"done", "failed"} /\ snap'.count = snap.count /\ snap'.broken
  BY <1>2 DEF Complete, GetCollectionInfo, SnapshotFails, RangeGone
<1>7. Cardinality(Docs(snap.coll)) \in Nat
  BY <1>2, CountIds
<1>8. PlanType' /\ PlanInv' /\ CursorInv' /\ JobInv'
  BY <1>0, <1>1, <1>2, <1>3, <1>4, <1>5, <1>6, <1>7 DEF PlanType, PlanInv, CursorInv, JobInv
<1>9. VersionInv'
  BY <1>0, <1>2, <1>4, <1>5 DEF VersionInv
<1>10. CopyInv'
  BY <1>6 DEF CopyInv
<1> QED
  BY <1>8, <1>9, <1>10 DEF SnapInv

\* Chunks that hold every document that is owed.
LEMMA ChunksSnap ==
    ASSUME Inv, SnapInv, snap.st \in {"chunk", "range"}, UNCHANGED <<server, log, es, stream>>,
           NEW chunks \in Seq(Chunk), snap' = [snap EXCEPT !.st = "open", !.chunks = chunks],
           \A j \in DOMAIN chunks : chunks[j].by # "all",
           \A id \in Ids : Owed(id) => \E j \in DOMAIN chunks : InScope(Docs(snap.coll), id, chunks[j]),
           snap.records = << >>
    PROVE  SnapInv'
<1>0. PlanType /\ VersionInv
  BY DEF SnapInv
<1>1. Complete(snap) /\ InSnapshot /\ server.parallel
  BY <1>0, UnderWay DEF PlanType
<1>2. /\ snap'.coll = snap.coll /\ snap'.since = snap.since /\ snap'.left = snap.left /\ snap'.chunks = chunks
      /\ snap'.after = snap.after /\ snap'.records = snap.records /\ snap'.st = "open" /\ snap'.count = snap.count
  BY <1>1 DEF Complete
<1>3. /\ Docs(snap.coll)' = Docs(snap.coll) /\ \A id : Owed(id)' <=> Owed(id)
      /\ \A id : LastChange(id)' = LastChange(id) /\ Version(id)' = Version(id)
  BY <1>2, Frame
<1>4. PlanType' /\ PlanInv' /\ CursorInv' /\ JobInv'
  BY <1>0, <1>1, <1>2 DEF PlanType, PlanInv, CursorInv, JobInv
<1>5. VersionInv'
  BY <1>0, <1>1, <1>2, <1>3 DEF VersionInv
<1>6. CopyInv'
  BY <1>2, <1>3 DEF CopyInv, Pending
<1> QED
  BY <1>4, <1>5, <1>6 DEF SnapInv

\* The chunks of a collection.
LEMMA CreateSnap ==
    ASSUME Inv, SnapInv, CreateCollectionChunks
    PROVE  SnapInv'
<1>0. PlanType /\ PlanInv /\ CursorInv /\ VersionInv /\ JobInv
  BY DEF SnapInv
<1> DEFINE docs == Docs(snap.coll)
<1>1. /\ snap.st = "chunk" /\ UNCHANGED <<server, log, es, stream>>
      /\ \/ docs = {} /\ snap' = [snap EXCEPT !.st = "open", !.chunks = << >>]
         \/ docs # {} /\ Lowest(docs).kind = "int" /\ snap' = [snap EXCEPT !.st = "range", !.chunks = << >>]
         \/ snap' = [snap EXCEPT !.st = "open", !.chunks = SkipLimitChunks(snap.count)]
  BY DEF CreateCollectionChunks
<1>2. /\ Complete(snap) /\ InSnapshot /\ snap.count \in Nat /\ server.parallel
      /\ docs \subseteq {id \in Ids : id.coll = snap.coll}
  BY <1>0, <1>1, UnderWay DEF PlanType
<1>3. snap.records = << >>
  BY <1>0, <1>1 DEF CursorInv
<1>4. << >> \in Seq(Chunk) /\ DOMAIN << >> = {}
  OBVIOUS
<1>5. CASE docs = {} /\ snap' = [snap EXCEPT !.st = "open", !.chunks = << >>]
  <2>1. \A id : ~Owed(id)
    BY <1>5 DEF Owed
  <2> QED
    BY <1>1, <1>3, <1>4, <1>5, <2>1, ChunksSnap
<1>6. CASE docs # {} /\ Lowest(docs).kind = "int" /\ snap' = [snap EXCEPT !.st = "range", !.chunks = << >>]
  <2>1. /\ snap'.coll = snap.coll /\ snap'.since = snap.since /\ snap'.left = snap.left /\ snap'.chunks = << >>
        /\ snap'.after = snap.after /\ snap'.records = << >> /\ snap'.st = "range" /\ snap'.count = snap.count
    BY <1>2, <1>3, <1>6 DEF Complete
  <2>2. Docs(snap.coll)' = docs
    BY <1>1, <2>1, Frame
  <2>3. PlanType' /\ PlanInv' /\ CursorInv' /\ JobInv' /\ VersionInv' /\ CopyInv'
    BY <1>0, <1>1, <1>2, <1>4, <1>6, <2>1, <2>2
       DEF PlanType, PlanInv, CursorInv, JobInv, VersionInv, CopyInv
  <2> QED
    BY <2>3 DEF SnapInv
<1>7. CASE snap' = [snap EXCEPT !.st = "open", !.chunks = SkipLimitChunks(snap.count)]
  <2> DEFINE chunks == SkipLimitChunks(snap.count)
  <2>1. chunks \in Seq(Chunk) /\ \A j \in DOMAIN chunks : chunks[j].by # "all"
    BY <1>2, SkipLimitFact
  <2>2. ASSUME NEW id \in Ids, Owed(id) PROVE \E j \in DOMAIN chunks : InScope(docs, id, chunks[j])
    <3>1. id \in docs /\ ~Churn
      BY <1>2, <2>2 DEF Owed
    <3>2. snap.count = Cardinality(docs)
      BY <1>0, <1>1, <3>1 DEF PlanInv
    <3>3. PICK n \in Nat : n = snap.count
      BY <1>2
    <3>4. PICK D : D = docs
      OBVIOUS
    <3>5. D \subseteq {d \in Ids : d.coll = snap.coll} /\ n = Cardinality(D) /\ id \in D
      BY <1>2, <3>1, <3>2, <3>3, <3>4
    <3>6. \E j \in DOMAIN SkipLimitChunks(n) : InScope(D, id, SkipLimitChunks(n)[j])
      BY <3>5, SkipLimitFact
    <3> QED
      BY <3>3, <3>4, <3>6
  <2>3. snap' = [snap EXCEPT !.st = "open", !.chunks = chunks]
    BY <1>7
  <2> HIDE DEF chunks
  <2> QED
    BY <1>1, <1>3, <2>1, <2>2, <2>3, ChunksSnap
<1> QED
  BY <1>1, <1>5, <1>6, <1>7

\* The chunks of a collection with numbers.
LEMMA NumericSnap ==
    ASSUME Inv, SnapInv, CreateNumericIDChunks
    PROVE  SnapInv'
<1>0. PlanType /\ PlanInv /\ CursorInv
  BY DEF SnapInv
<1> DEFINE docs == Docs(snap.coll)
           lo == ToInt64(Lowest(docs))
           hi == ToInt64(Highest(docs))
           chunks == NumericIDChunks(lo, hi)
<1>1. /\ snap.st = "range" /\ docs # {} /\ UNCHANGED <<server, log, es, stream>>
      /\ snap' = [snap EXCEPT !.st = "open", !.chunks = chunks]
  BY DEF CreateNumericIDChunks
<1>2. server.parallel /\ docs \subseteq {id \in Ids : id.coll = snap.coll} /\ snap.records = << >>
  BY <1>0, <1>1, UnderWay DEF PlanType, CursorInv
<1> HIDE DEF docs
<1>3. lo \in Int /\ hi \in Int
  <2>1. Lowest(docs) \in Ids /\ Highest(docs) \in Ids
    BY <1>1, <1>2, LowestFact, HighestFact
  <2>2. \A id \in Ids : id.n \in Int
    BY MongoAssumption
  <2> QED
    BY <2>1, <2>2 DEF ToInt64
<1> HIDE DEF lo, hi
<1>4. chunks \in Seq(Chunk) /\ \A j \in DOMAIN chunks : chunks[j].by # "all"
  BY <1>3, NumericFact
<1>5. ASSUME NEW id \in Ids, Owed(id) PROVE \E j \in DOMAIN chunks : InScope(docs, id, chunks[j])
  <2>1. id \in docs /\ ~Churn /\ ~OutOfRange(id)
    BY <1>2, <1>5 DEF Owed, docs
  <2>2. Lowest(docs).kind = "int"
    BY <1>0, <1>1, <2>1 DEF PlanInv, docs
  <2>3. id.kind = "int" /\ Rank[Highest(docs).kind] = Rank["int"]
    BY <1>2, <2>1, <2>2 DEF OutOfRange, docs
  <2>4. 2 * lo <= id.n /\ id.n <= 2 * hi + 1
    BY <1>2, <2>1, <2>2, <2>3, ToInt64Fact DEF lo, hi
  <2> QED
    BY <1>3, <2>3, <2>4, NumericFact
<1>6. snap' = [snap EXCEPT !.st = "open", !.chunks = chunks]
  BY <1>1
<1> HIDE DEF chunks
<1> QED
  BY <1>1, <1>2, <1>4, <1>5, <1>6, ChunksSnap DEF docs

\* The end of a snapshot: no chunk is left.
LEMMA FinishSnap ==
    ASSUME Inv, SnapInv, FinishSnapshot
    PROVE  SnapInv'
<1>0. PlanType /\ VersionInv /\ CopyInv
  BY DEF SnapInv
<1>1. snap.st = "open" /\ snap.chunks = << >> /\ UNCHANGED <<server, log, es, stream>>
  BY DEF FinishSnapshot
<1>2. Complete(snap) /\ stream.st = "off"
  BY <1>1, UnderWay
<1>3. /\ snap'.coll = snap.coll /\ snap'.since = snap.since /\ snap'.left = snap.left
      /\ snap'.chunks = snap.chunks /\ snap'.broken = snap.broken
      /\ snap'.after = snap.after /\ snap'.st = "done" /\ snap'.count = snap.count
  BY <1>2 DEF FinishSnapshot, Complete
<1>4. \A id : (Owed(id)' <=> Owed(id)) /\ LastChange(id)' = LastChange(id)
  BY <1>1, <1>3, Frame
<1>5. \A id : ~Pending(id)
  BY <1>1 DEF Pending
<1>6. \A id : Copied(id) => Copied(id)'
  BY <1>1, <1>4 DEF Copied
<1>7. PlanType' /\ PlanInv' /\ CursorInv' /\ JobInv' /\ VersionInv'
  BY <1>0, <1>1, <1>2, <1>3 DEF PlanType, PlanInv, CursorInv, JobInv, VersionInv, InSnapshot
<1>8. CopyInv'
  BY <1>0, <1>1, <1>2, <1>3, <1>4, <1>5, <1>6 DEF CopyInv
<1> QED
  BY <1>7, <1>8 DEF SnapInv

\* A cursor is opened: what its chunk is for lies ahead.
LEMMA OpenSnap ==
    ASSUME Inv, SnapInv, OpenCursor
    PROVE  SnapInv'
<1>0. TypeInv /\ PlanType /\ PlanInv /\ CursorInv /\ VersionInv /\ CopyInv
  BY DEF SnapInv, Inv
<1> DEFINE chunk == Head(snap.chunks)
           docs == Docs(snap.coll)
           skipped == {id \in docs : Cardinality(Before(docs, id)) < chunk.skip}
           after == IF chunk.by = "skip" THEN skipped ELSE {}
           left == IF chunk.by = "skip" THEN chunk.limit ELSE Cardinality(Ids)
<1>1. /\ snap.st = "open" /\ snap.chunks # << >> /\ UNCHANGED <<server, log, es, stream>>
      /\ snap' = [snap EXCEPT !.st = "read", !.after = after, !.left = left]
  BY DEF OpenCursor, Before
<1>2. /\ Complete(snap) /\ InSnapshot /\ stream.st = "off" /\ docs \subseteq {id \in Ids : id.coll = snap.coll}
      /\ snap.chunks \in Seq(Chunk) /\ snap.records = << >>
  BY <1>0, <1>1, UnderWay DEF CursorInv
<1>3. /\ 1 \in DOMAIN snap.chunks /\ chunk = snap.chunks[1] /\ chunk \in Chunk
      /\ \A j \in DOMAIN snap.chunks : j = 1 \/ j \in 2..Len(snap.chunks)
  BY <1>1, <1>2
<1>4. chunk.by = "skip" => chunk.skip \in Nat /\ chunk.limit \in Nat \ {0}
  BY <1>3 DEF Chunk
<1>5. after \subseteq Ids /\ left \in Nat /\ Cardinality(Ids) \in Nat
  BY <1>2, <1>4, CountIds
<1> HIDE DEF after, left
<1>6. /\ snap'.coll = snap.coll /\ snap'.since = snap.since /\ snap'.left = left /\ snap'.after = after
      /\ snap'.chunks = snap.chunks /\ snap'.broken = snap.broken
      /\ snap'.st = "read" /\ snap'.count = snap.count /\ snap'.records = << >>
  BY <1>1, <1>2 DEF Complete
<1>7. /\ Docs(snap.coll)' = docs /\ \A id : (Owed(id)' <=> Owed(id)) /\ LastChange(id)' = LastChange(id)
  BY <1>1, <1>6, Frame
<1>8. PlanType' /\ PlanInv' /\ JobInv' /\ VersionInv'
  <2>1. DOMAIN << >> = {}
    OBVIOUS
  <2> QED
    BY <1>0, <1>1, <1>5, <1>6, <2>1 DEF PlanType, PlanInv, JobInv, VersionInv
<1>9. CursorInv'
  <2>1. chunk.by # "skip" => Cardinality(Room(after)) <= left
    <3>1. \A S : S = {} => Room(S) = Ids
      BY DEF Room
    <3> QED
      BY <1>5, <3>1 DEF after, left
  <2> QED
    BY <1>1, <1>6, <2>1 DEF CursorInv
<1>10. Ahead' = {id \in docs : InChunk(id, chunk) /\ \A d \in after : Less(d, id)}
  BY <1>6, <1>7 DEF Ahead
<1>11. ASSUME NEW id \in docs, InScope(docs, id, chunk)
       PROVE  InCursor(id)'
  <2>1. CASE chunk.by = "skip"
    <3>1. after = Skipped(docs, chunk.skip) /\ Ahead' = AheadOf(docs, chunk, after)
      BY <1>10, <2>1 DEF after, AheadOf, Skipped
    <3>2. id \in Ahead' /\ Cardinality(Before(Ahead', id)) < chunk.limit
      <4>1. PICK c : docs = Docs(c)
        OBVIOUS
      <4> HIDE DEF docs, chunk
      <4> QED
        BY <1>3, <1>11, <2>1, <3>1, <4>1, SkipFact
    <3> QED
      BY <1>6, <2>1, <3>2 DEF InCursor, left
  <2>2. CASE chunk.by # "skip"
    <3>1. id \in Ahead'
      BY <1>10, <1>11, <2>2 DEF InScope, after
    <3> QED
      BY <1>6, <2>2, <3>1 DEF InCursor
  <2> QED
    BY <2>1, <2>2
<1>12. CopyInv'
  <2>1. ASSUME NEW id \in Ids, Owed(id), ~snap.broken PROVE Copied(id)' \/ Pending(id)'
    <3>1. CASE Copied(id)
      BY <1>1, <1>7, <3>1 DEF Copied
    <3>2. CASE ~Copied(id)
      <4>1. Pending(id)
        BY <1>0, <1>1, <1>2, <2>1, <3>2 DEF CopyInv
      <4>2. PICK j \in DOMAIN snap.chunks : InScope(docs, id, snap.chunks[j])
        BY <1>1, <4>1 DEF Pending
      <4>3. CASE j = 1
        <5>1. InCursor(id)'
          BY <1>3, <1>11, <2>1, <4>2, <4>3 DEF Owed
        <5> QED
          BY <1>6, <5>1 DEF Pending
      <4>4. CASE j \in 2..Len(snap.chunks)
        BY <1>6, <1>7, <4>2, <4>4 DEF Pending
      <4> QED
        BY <1>3, <4>3, <4>4
    <3> QED
      BY <3>1, <3>2
  <2> QED
    BY <1>6, <1>7, <2>1 DEF CopyInv
<1> QED
  BY <1>8, <1>9, <1>12 DEF SnapInv

\* A message leaves a document that is owed as it is, and shows it when it has
\* a record of it.
LEMMA SendSnap ==
    ASSUME TypeInv, NEW records \in Seq(Record), es' = Shown(records), log' = log, NEW id, Owed(id),
           \A n \in DOMAIN records : records[n].key = SnapshotKey(id) => records[n].version = Version(id),
           Copied(id) \/ \E n \in DOMAIN records : records[n].key = SnapshotKey(id)
    PROVE  Copied(id)'
<1>1. SnapshotKey(id) \in Keys /\ Version(id) = LastChange(id)
  BY OwedFacts
<1>2. LastChange(id)' = LastChange(id)
  BY LogFacts
<1>3. LET k == SnapshotKey(id)
      IN  \/ es'[k] = es[k] /\ \A n \in DOMAIN records : records[n].key # k
          \/ \E n \in DOMAIN records : records[n].key = k /\ es'[k] = records[n].version
  BY <1>1, ShownFacts DEF TypeInv
<1>4. es'[SnapshotKey(id)] = LastChange(id)
  BY <1>1, <1>3 DEF Copied
<1> QED
  BY <1>2, <1>4 DEF Copied

\* The next document is read.
LEMMA ReadSnap ==
    ASSUME Inv, SnapInv, ReadDocument
    PROVE  SnapInv'
<1>0. TypeInv /\ PlanType /\ PlanInv /\ CursorInv /\ VersionInv /\ CopyInv
  BY DEF Inv, SnapInv
<1> DEFINE low == Lowest(Ahead)
           v == Version(low)
           record == [key |-> SnapshotKey(low), version |-> v]
           read == [snap EXCEPT !.after = snap.after \cup {low}, !.left = snap.left - 1]
           records == IF log[v].ok THEN Append(snap.records, record) ELSE snap.records
<1>1. /\ snap.st = "read" /\ snap.left > 0 /\ Ahead # {}
      /\ \/ es' = Shown(records) /\ snap' = [read EXCEPT !.records = << >>]
         \/ snap' = [read EXCEPT !.records = records] /\ es' = es
      /\ UNCHANGED <<server, log, stream>>
  BY DEF ReadDocument, SendRecords
<1>2. /\ Complete(snap) /\ InSnapshot /\ stream.st = "off" /\ snap.records \in Seq(Record)
      /\ snap.left \in Nat /\ snap.after \subseteq Ids /\ snap.chunks \in Seq(Chunk)
      /\ Docs(snap.coll) \subseteq {id \in Ids : id.coll = snap.coll}
  BY <1>1, UnderWay
<1>3. Ahead \subseteq {id \in Ids : id.coll = snap.coll} /\ \A id \in Ahead : id \in Room(snap.after)
  BY <1>2 DEF Ahead, Room
<1>4. low \in Ahead /\ \A b \in Ahead \ {low} : Less(low, b)
  BY <1>1, <1>3, LowestFact
<1>5. low \in Ids /\ ~Less(low, low) /\ v \in Nat
  <2>1. low \in Ids
    BY <1>3, <1>4
  <2>2. ~Less(low, low)
    BY <1>3, <1>4, LessFacts
  <2>3. v \in Nat
    BY <1>0, NowFacts
  <2> QED
    BY <2>1, <2>2, <2>3
<1> HIDE DEF low, v
<1>6. /\ records \in Seq(Record) /\ \A n \in DOMAIN snap.records : n \in DOMAIN records /\ records[n] = snap.records[n]
      /\ \A n \in DOMAIN records : (n \in DOMAIN snap.records /\ records[n] = snap.records[n]) \/ records[n] = record
      /\ log[v].ok => \E n \in DOMAIN records : records[n] = record
  <2>1. record \in Record
    BY <1>5, KeyFacts DEF Record
  <2> HIDE DEF record
  <2>2. CASE log[v].ok
    <3>1. PICK old \in Seq(Record) : old = snap.records /\ records = Append(old, record)
      BY <1>2, <2>2
    <3>2. Len(old) \in Nat /\ DOMAIN old = 1..Len(old)
      OBVIOUS
    <3>3. /\ Append(old, record) \in Seq(Record) /\ DOMAIN Append(old, record) = 1..(Len(old) + 1)
          /\ Append(old, record)[Len(old) + 1] = record
          /\ \A n \in 1..Len(old) : Append(old, record)[n] = old[n]
      BY <2>1, <3>2
    <3>4. \A n \in 1..(Len(old) + 1) : n \in 1..Len(old) \/ n = Len(old) + 1
      BY <3>2
    <3>5. Len(old) + 1 \in 1..(Len(old) + 1) /\ \A n \in 1..Len(old) : n \in 1..(Len(old) + 1)
      BY <3>2
    <3> HIDE DEF records
    <3> QED
      BY <3>1, <3>2, <3>3, <3>4, <3>5
  <2>3. CASE ~log[v].ok
    BY <1>2, <2>3
  <2> QED
    BY <2>2, <2>3
<1>7. /\ snap'.coll = snap.coll /\ snap'.since = snap.since /\ snap'.left = snap.left - 1
      /\ snap'.after = snap.after \cup {low} /\ snap'.count = snap.count
      /\ snap'.chunks = snap.chunks /\ snap'.broken = snap.broken /\ snap'.st = "read"
      /\ \/ es' = Shown(records) /\ snap'.records = << >>
         \/ es' = es /\ snap'.records = records
  <2> HIDE DEF records
  <2> QED
    BY <1>1, <1>2 DEF Complete
<1>8. /\ Docs(snap.coll)' = Docs(snap.coll)
      /\ \A id : (Owed(id)' <=> Owed(id)) /\ LastChange(id)' = LastChange(id) /\ Version(id)' = Version(id)
  BY <1>1, <1>7, Frame
<1>9. Ahead' = Ahead \ {low}
  BY <1>3, <1>4, <1>5, <1>7, <1>8 DEF Ahead
<1>10. ASSUME NEW n \in DOMAIN records, NEW id \in Ids, ~Ambiguous(id), records[n].key = SnapshotKey(id),
              LastChange(id) <= snap.since
       PROVE  records[n].version = Version(id)
  <2>1. CASE n \in DOMAIN snap.records /\ records[n] = snap.records[n]
    <3> HIDE DEF records
    <3> QED
      BY <1>0, <1>2, <1>10, <2>1 DEF VersionInv
  <2>2. CASE records[n] = record
    <3>1. records[n].key = SnapshotKey(low) /\ records[n].version = v
      BY <2>2
    <3>2. id = low
      BY <1>5, <1>10, <3>1 DEF Ambiguous
    <3> QED
      BY <3>1, <3>2 DEF v
  <2> HIDE DEF records
  <2> QED
    BY <1>6, <2>1, <2>2
<1>11. PlanType' /\ PlanInv' /\ JobInv'
  BY <1>0, <1>1, <1>2, <1>5, <1>7 DEF PlanType, PlanInv, JobInv
<1>12. CursorInv'
  <2>1. ASSUME Head(snap.chunks).by # "skip"
        PROVE  Cardinality(Room(snap'.after)) <= snap.left - 1
    <3>1. Room(snap.after) \subseteq Ids /\ low \in Room(snap.after) /\ Room(snap'.after) \subseteq Room(snap.after) \ {low}
      BY <1>3, <1>4, <1>5, <1>7 DEF Room
    <3>2. Cardinality(Room(snap'.after)) <= Cardinality(Room(snap.after)) - 1
      BY <3>1, OneLess
    <3>3. Cardinality(Room(snap.after)) <= snap.left
      BY <1>0, <1>1, <2>1 DEF CursorInv
    <3>4. Cardinality(Room(snap'.after)) \in Nat /\ Cardinality(Room(snap.after)) \in Nat
      BY <3>1, CountIds
    <3> QED
      BY <1>2, <3>2, <3>3, <3>4
  <2> QED
    BY <1>0, <1>1, <1>7, <2>1 DEF CursorInv
<1>13. VersionInv'
  <2> HIDE DEF records
  <2>1. DOMAIN << >> = {}
    OBVIOUS
  <2> QED
    BY <1>7, <1>8, <1>10, <2>1 DEF VersionInv
<1>14. ASSUME NEW id \in Ids, Owed(id), Copied(id) \/ \E n \in DOMAIN records : records[n].key = SnapshotKey(id)
       PROVE  Copied(id)' \/ Pending(id)'
  <2> HIDE DEF records
  <2>1. CASE es' = Shown(records)
    <3>1. \A n \in DOMAIN records : records[n].key = SnapshotKey(id) => records[n].version = Version(id)
      BY <1>0, <1>10, <1>14, OwedFacts
    <3> QED
      BY <1>0, <1>1, <1>6, <1>14, <2>1, <3>1, SendSnap
  <2>2. CASE es' = es /\ snap'.records = records
    BY <1>7, <1>8, <1>14, <2>2 DEF Copied, Pending
  <2> QED
    BY <1>7, <2>1, <2>2
<1>15. ASSUME NEW id \in Ids, Owed(id), InCursor(id), id # low
       PROVE  InCursor(id)'
  <2>1. id \in Ahead' /\ id \in Ahead /\ Less(low, id)
    BY <1>4, <1>9, <1>15 DEF InCursor
  <2>2. ASSUME Head(snap.chunks).by = "skip" PROVE Cardinality(Before(Ahead', id)) < snap.left - 1
    <3>1. Cardinality(Before(Ahead, id)) < snap.left
      BY <1>15, <2>2 DEF InCursor
    <3>2. /\ Before(Ahead, id) \subseteq Ids /\ low \in Before(Ahead, id)
          /\ Before(Ahead', id) \subseteq Before(Ahead, id) \ {low}
      BY <1>3, <1>4, <1>9, <2>1 DEF Before
    <3>3. Cardinality(Before(Ahead', id)) <= Cardinality(Before(Ahead, id)) - 1
      BY <3>2, OneLess
    <3>4. Cardinality(Before(Ahead', id)) \in Nat /\ Cardinality(Before(Ahead, id)) \in Nat
      BY <3>2, CountIds
    <3> QED
      BY <1>2, <3>1, <3>3, <3>4
  <2> QED
    BY <1>7, <2>1, <2>2 DEF InCursor
<1>16. CopyInv'
  <2>1. ASSUME NEW id \in Ids, Owed(id), ~snap.broken PROVE Copied(id)' \/ Pending(id)'
    <3> HIDE DEF records
    <3>1. Copied(id) \/ Pending(id)
      BY <1>0, <1>1, <1>2, <2>1 DEF CopyInv
    <3>2. CASE Copied(id)
      BY <1>14, <2>1, <3>2
    <3>3. CASE \E n \in DOMAIN snap.records : snap.records[n].key = SnapshotKey(id)
      BY <1>6, <1>14, <2>1, <3>3
    <3>4. CASE \E j \in 2..Len(snap.chunks) : InScope(Docs(snap.coll), id, snap.chunks[j])
      BY <1>7, <1>8, <3>4 DEF Pending
    <3>5. CASE InCursor(id) /\ id # low
      <4>1. InCursor(id)'
        BY <1>15, <2>1, <3>5
      <4> QED
        BY <1>7, <4>1 DEF Pending
    <3>6. CASE id = low
      <4>1. log[v].ok
        BY <1>0, <2>1, <3>6, OwedFacts DEF v
      <4>2. \E n \in DOMAIN records : records[n].key = SnapshotKey(id)
        BY <1>6, <3>6, <4>1
      <4> QED
        BY <1>14, <2>1, <4>2
    <3> QED
      BY <1>1, <3>1, <3>2, <3>3, <3>4, <3>5, <3>6 DEF Pending
  <2> QED
    BY <1>7, <1>8, <2>1 DEF CopyInv
<1> QED
  BY <1>11, <1>12, <1>13, <1>16 DEF SnapInv

\* A cursor that ends without an error has nothing ahead that is owed.
LEMMA EndSnap ==
    ASSUME Inv, SnapInv, NEW fails \in BOOLEAN, CursorEnds(fails)
    PROVE  SnapInv'
<1>0. TypeInv /\ PlanType /\ PlanInv /\ CursorInv /\ VersionInv /\ CopyInv
  BY DEF Inv, SnapInv
<1>1. /\ snap.st = "read" /\ (fails \/ snap.left = 0 \/ Ahead = {}) /\ es' = Shown(snap.records)
      /\ snap' = [snap EXCEPT !.st = "open", !.chunks = Tail(snap.chunks), !.records = << >>,
                              !.broken = snap.broken \/ fails]
      /\ UNCHANGED <<server, log, stream>>
  BY DEF CursorEnds, SendRecords
<1>2. /\ Complete(snap) /\ InSnapshot /\ stream.st = "off" /\ snap.records \in Seq(Record)
      /\ snap.left \in Nat /\ snap.chunks \in Seq(Chunk)
      /\ Docs(snap.coll) \subseteq {id \in Ids : id.coll = snap.coll}
  BY <1>1, UnderWay
<1>3. /\ snap'.coll = snap.coll /\ snap'.since = snap.since /\ snap'.left = snap.left
      /\ snap'.after = snap.after /\ snap'.count = snap.count
      /\ snap'.chunks = Tail(snap.chunks) /\ snap'.st = "open" /\ snap'.records = << >>
      /\ (~snap'.broken => ~snap.broken /\ ~fails)
  BY <1>1, <1>2 DEF Complete
<1>4. /\ Docs(snap.coll)' = Docs(snap.coll)
      /\ \A id : (Owed(id)' <=> Owed(id)) /\ LastChange(id)' = LastChange(id) /\ Version(id)' = Version(id)
  BY <1>1, <1>3, Frame
<1>5. snap.chunks # << >>
  BY <1>0, <1>1 DEF CursorInv
<1>6. /\ Tail(snap.chunks) \in Seq(Chunk)
      /\ \A j \in DOMAIN Tail(snap.chunks) : j + 1 \in DOMAIN snap.chunks /\ Tail(snap.chunks)[j] = snap.chunks[j + 1]
      /\ \A j \in 2..Len(snap.chunks) : j - 1 \in DOMAIN Tail(snap.chunks) /\ Tail(snap.chunks)[j - 1] = snap.chunks[j]
  BY <1>2, <1>5
<1>7. PlanType' /\ PlanInv' /\ CursorInv' /\ JobInv' /\ VersionInv'
  <2>1. DOMAIN << >> = {}
    OBVIOUS
  <2>2. PlanType' /\ CursorInv' /\ JobInv' /\ VersionInv'
    BY <1>0, <1>1, <1>2, <1>3, <1>6, <2>1 DEF PlanType, CursorInv, JobInv, VersionInv
  <2>3. \A j \in DOMAIN Tail(snap.chunks) : Tail(snap.chunks)[j].by = "all" <=> ~server.parallel
    BY <1>0, <1>1, <1>6 DEF PlanInv
  <2>4. PlanInv'
    BY <1>1, <1>3, <2>3 DEF PlanInv
  <2> QED
    BY <2>2, <2>4
<1>8. ASSUME NEW id, ~fails PROVE ~InCursor(id)
  <2>1. CASE Ahead = {}
    BY <2>1 DEF InCursor
  <2>2. CASE snap.left = 0 /\ Ahead # {}
    <3> SUFFICES ASSUME InCursor(id) PROVE FALSE
      OBVIOUS
    <3>1. Ahead \subseteq Ids /\ id \in Ahead /\ id \in Room(snap.after)
      BY <1>2 DEF InCursor, Ahead, Room
    <3>2. CASE Head(snap.chunks).by = "skip"
      <4>1. Before(Ahead, id) \subseteq Ids
        BY <3>1 DEF Before
      <4>2. Cardinality(Before(Ahead, id)) \in Nat
        BY <4>1, CountIds
      <4> QED
        BY <2>2, <3>2, <4>2 DEF InCursor
    <3>3. CASE Head(snap.chunks).by # "skip"
      <4>1. Room(snap.after) \subseteq Ids
        BY DEF Room
      <4>2. Cardinality({}) <= Cardinality(Room(snap.after)) - 1 /\ Cardinality(Room(snap.after)) \in Nat
        BY <3>1, <4>1, OneLess, CountIds
      <4>3. Cardinality({}) = 0
        BY FS_EmptySet
      <4> QED
        BY <1>0, <1>1, <2>2, <3>3, <4>2, <4>3 DEF CursorInv
    <3> QED
      BY <3>2, <3>3
  <2> QED
    BY <1>1, <1>8, <2>1, <2>2
<1>9. CopyInv'
  <2>1. ASSUME NEW id \in Ids, Owed(id), ~snap.broken, ~fails PROVE Copied(id)' \/ Pending(id)'
    <3>1. Copied(id) \/ Pending(id)
      BY <1>0, <1>1, <1>2, <2>1 DEF CopyInv
    <3>2. CASE \E j \in 2..Len(snap.chunks) : InScope(Docs(snap.coll), id, snap.chunks[j])
      BY <1>3, <1>4, <1>6, <3>2 DEF Pending
    <3>3. CASE Copied(id) \/ \E n \in DOMAIN snap.records : snap.records[n].key = SnapshotKey(id)
      <4>1. \A n \in DOMAIN snap.records : snap.records[n].key = SnapshotKey(id) => snap.records[n].version = Version(id)
        BY <1>0, <1>2, <2>1, OwedFacts DEF VersionInv
      <4> QED
        BY <1>0, <1>1, <1>2, <2>1, <3>3, <4>1, SendSnap
    <3> QED
      BY <1>1, <1>8, <2>1, <3>1, <3>2, <3>3 DEF Pending
  <2> QED
    BY <1>3, <1>4, <2>1 DEF CopyInv
<1> QED
  BY <1>7, <1>9 DEF SnapInv

\* The invariant of the snapshot.
LEMMA SnapInvariant == Spec => []SnapInv
<1>1. Init => SnapInv
  BY DEF Init, NoSnapshot, SnapInv, PlanType, PlanInv, CursorInv, VersionInv, JobInv, CopyInv, InSnapshot
<1>2. Inv /\ SnapInv /\ [Next]_vars => SnapInv'
  <2> SUFFICES ASSUME Inv, SnapInv, [Next]_vars PROVE SnapInv'
    OBVIOUS
  <2>1. ASSUME NEW id \in Ids, NEW ok \in BOOLEAN, NEW op \in {"insert", "update", "delete"}, SourceChange(op, id, ok)
        PROVE  SnapInv'
    BY <2>1, ChangeSnap
  <2>2. ASSUME NEW c, BeginSnapshot(c) PROVE SnapInv'
    BY <2>2, BeginSnap
  <2>3. CASE GetCollectionInfo \/ SnapshotFails \/ RangeGone
    BY <2>3, InfoSnap
  <2>4. CASE CreateCollectionChunks
    BY <2>4, CreateSnap
  <2>5. CASE CreateNumericIDChunks
    BY <2>5, NumericSnap
  <2>6. CASE OpenCursor
    BY <2>6, OpenSnap
  <2>7. CASE ReadDocument
    BY <2>7, ReadSnap
  <2>8. CASE FinishSnapshot
    BY <2>8, FinishSnap
  <2>9. CASE CursorEnds(FALSE) \/ CursorEnds(TRUE)
    BY <2>9, EndSnap
  <2>10. CASE Start \/ StartFails \/ HandleChange \/ StreamFails \/ CommitCheckpoint
    BY <2>10, StreamSnap
  <2>11. CASE Crash \/ Panic
    BY <2>11, RestartSnap DEF Crash, Panic
  <2>12. CASE UNCHANGED vars
    <3>1. UNCHANGED <<server, log, snap, es, stream>>
      BY <2>12 DEF vars
    <3>2. JobInv' /\ \A id : Copied(id) => Copied(id)'
      BY <3>1, LogFacts DEF JobInv, Copied, SnapInv
    <3> QED
      BY <3>1, <3>2, KeepSnap
  <2> QED
    BY <2>1, <2>2, <2>3, <2>4, <2>5, <2>6, <2>7, <2>8, <2>9, <2>10, <2>11, <2>12 DEF Next
<1> QED
  BY <1>1, <1>2, Invariant, PTL DEF Spec

\* Whatever the collection holds and however it is split, a snapshot that
\* reports success has copied every document that was there all the time and
\* that none of the known exceptions names.
THEOREM CopiedUnlessKnownHolds == Spec => []CopiedUnlessKnown
<1>1. Inv /\ SnapInv => CopiedUnlessKnown
  <2> SUFFICES ASSUME Inv, SnapInv, snap.st = "done", ~snap.broken, server.client = "job" \/ stream.st = "off",
                      NEW id \in Docs(snap.coll),
                      ~(LastChange(id) > snap.since), log[LastChange(id)].ok, ~Ambiguous(id), ~OutOfRange(id),
                      ~(server.parallel /\ \E i \in (snap.since + 1)..Len(log) : log[i].op \in {"insert", "delete"})
               PROVE  es[SnapshotKey(id)] = LastChange(id)
    BY DEF CopiedUnlessKnown
  <2>1. TypeInv /\ PlanType /\ CopyInv /\ id \in Ids
    BY DEF Inv, SnapInv, Docs
  <2>2. LastChange(id) \in Nat /\ snap.since \in Nat
    BY <2>1, NowFacts DEF PlanType
  <2>3. Owed(id)
    BY <2>2 DEF Owed, Churn
  <2>4. ~Pending(id)
    BY DEF Pending
  <2> QED
    BY <2>1, <2>3, <2>4 DEF CopyInv, Copied
<1> QED
  BY <1>1, Invariant, SnapInvariant, PTL
=============================================================================
