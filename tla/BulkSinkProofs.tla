--------------------------- MODULE BulkSinkProofs ---------------------------
(***************************************************************************)
(* Proofs about BulkSink: a call that returns no error has its events      *)
(* applied, and what may put a document back to an older event.            *)
(***************************************************************************)
EXTENDS BulkSink, TLAPS, NaturalsInduction, WellFoundedInduction

Event == 1..Len(Events)
Indices == {Index(e) : e \in Event}

OpenCall == [st : {"recv", "create"}, batch : Seq(Event), pos : Nat,
             created : SUBSET Indices, slot : Slots]
Indexer == [owner : Callers, batch : Seq(Event), queue : Seq(Event),
            buf : [Workers -> Seq(Event)], failed : BOOLEAN, told : BOOLEAN,
            left : BOOLEAN]

TypeInv ==
    /\ next \in 0..Len(Events)
    /\ calls \in [Callers -> Ended \cup OpenCall]
    /\ indexers \in [Slots -> {Free} \cup Indexer]
    /\ ver \in [Docs -> 0..Len(Events)]
    /\ dead \subseteq Event

\* The indexer still has the event to write.
Holds(x, e) ==
    \/ \E i \in DOMAIN x.queue : x.queue[i] = e
    \/ \E w \in Workers : \E i \in DOMAIN x.buf[w] : x.buf[w][i] = e

\* A running call and the indexer it has opened know each other.
OwnerInv ==
    /\ \A c \in Callers : calls[c] \notin Ended =>
         /\ indexers[calls[c].slot] # Free
         /\ indexers[calls[c].slot].owner = c
         /\ ~indexers[calls[c].slot].left
         /\ indexers[calls[c].slot].batch = calls[c].batch
    /\ \A s \in Slots : indexers[s] # Free /\ ~indexers[s].left =>
         /\ calls[indexers[s].owner] \notin Ended
         /\ calls[indexers[s].owner].slot = s

\* What a call has received is written, or its indexer still has it, unless the
\* indexer knows of a failure.
ReceivedInv ==
    \A c \in Callers : calls[c] \notin Ended =>
        /\ calls[c].pos <= Len(calls[c].batch)
        /\ calls[c].st = "create" => calls[c].pos < Len(calls[c].batch)
        /\ \/ indexers[calls[c].slot].failed
           \/ \A i \in 1..calls[c].pos :
                calls[c].batch[i] \in written \/ Holds(indexers[calls[c].slot], calls[c].batch[i])

\* A document shows an event about it that the job has handed over; an indexer
\* has only events of its batch; the batch of the change stream that is being
\* written ends with the newest event.
HandedInv ==
    /\ \A d \in Docs : ver[d] # 0 => ver[d] <= next /\ Doc(ver[d]) = d
    /\ \A e \in dead : e <= next
    /\ \A s \in Slots : indexers[s] # Free =>
         /\ \A e \in Event : Holds(indexers[s], e) =>
                \E i \in DOMAIN indexers[s].batch : indexers[s].batch[i] = e
         /\ \A i \in DOMAIN indexers[s].batch : indexers[s].batch[i] <= next
         /\ indexers[s].owner = "cdc" /\ ~indexers[s].left =>
              \A i \in DOMAIN indexers[s].batch :
                  indexers[s].batch[i] = next - Len(indexers[s].batch) + i

Inv == TypeInv /\ OwnerInv /\ ReceivedInv /\ HandedInv /\ AcceptedIsWritten

-----------------------------------------------------------------------------
(* Lemmas about the data.                                                  *)

LEMMA EventFacts ==
    /\ DOMAIN Events = Event /\ Len(Events) \in Nat
    /\ \A e \in Event : e \in Nat /\ 1 <= e /\ e <= Len(Events) /\ Doc(e) \in Docs
                        /\ Index(e) \in Indices
<1>1. DOMAIN Events = Event /\ Len(Events) \in Nat
  BY BulkSinkAssumption DEF Event
<1> QED
  BY <1>1 DEF Event, Docs, Indices

LEMMA CallFacts ==
    ASSUME NEW x \in OpenCall
    PROVE  /\ x.st \in {"recv", "create"} /\ x.batch \in Seq(Event) /\ x.pos \in Nat
           /\ x.created \in SUBSET Indices /\ x.slot \in Slots /\ x \notin Ended
<1>1. x.st \in {"recv", "create"} /\ Idle.st = "idle" /\ Gone.st = "gone"
  BY DEF OpenCall, Idle, Gone
<1> QED
  BY <1>1 DEF OpenCall, Ended

LEMMA IndexerFacts ==
    ASSUME NEW x \in Indexer
    PROVE  /\ x.owner \in Callers /\ x.batch \in Seq(Event) /\ x.queue \in Seq(Event)
           /\ x.buf \in [Workers -> Seq(Event)] /\ x.failed \in BOOLEAN /\ x.told \in BOOLEAN
           /\ x.left \in BOOLEAN
           /\ x # Free
<1>1. x.owner \in Callers /\ Free.owner = "none"
  BY DEF Indexer, Free
<1>2. x # Free
  BY <1>1 DEF Callers
<1> QED
  BY <1>1, <1>2 DEF Indexer

\* A set of positions of a sequence has a largest element.
LEMMA MaxFact ==
    ASSUME NEW n \in Nat, NEW S, S \subseteq 1..n, S # {}
    PROVE  Max(S) \in S
<1> DEFINE B == {n - i : i \in S}
<1>1. B \in SUBSET Nat /\ B # {}
  <2>1. \A i \in S : n - i \in Nat
    OBVIOUS
  <2> QED
    BY <2>1
<1> HIDE DEF B
<1>2. PICK m \in B : \A y \in B : ~ (<<y, m>> \in OpToRel(<, Nat))
  BY <1>1, NatLessThanWellFounded, WFMin
<1>3. \A y \in B : ~ (y < m)
  BY <1>1, <1>2 DEF OpToRel
<1>4. PICK x \in S : m = n - x
  BY DEF B
<1>5. \A y \in S : x >= y
  <2> SUFFICES ASSUME NEW y \in S PROVE x >= y
    OBVIOUS
  <2>1. ~ (n - y < m)
    BY <1>3 DEF B
  <2> QED
    BY <1>4, <2>1
<1> QED
  BY <1>5 DEF Max

\* A request writes the items that do not fail, and a document it touches shows
\* one of them.
LEMMA ApplyFacts ==
    ASSUME NEW items \in Seq(Event), ver \in [Docs -> 0..Len(Events)]
    PROVE  /\ written \subseteq Apply(items).written
           /\ ~Apply(items).failed => \A i \in DOMAIN items : items[i] \in Apply(items).written
           /\ Apply(items).failed \in BOOLEAN
           /\ Apply(items).ver \in [Docs -> 0..Len(Events)]
           /\ \A d \in Docs :
                \/ Apply(items).ver[d] = ver[d]
                \/ \E i \in DOMAIN items : items[i] = Apply(items).ver[d] /\ Doc(items[i]) = d
<1> DEFINE done == {i \in DOMAIN items : Events[items[i]].op = "index" \/ Present(items, i)}
           Of(d) == {i \in done : Doc(items[i]) = d}
           V == [d \in Docs |-> IF Of(d) = {} THEN ver[d] ELSE items[Max(Of(d))]]
           W == written \cup {items[i] : i \in done}
<1>1. Apply(items) = [ver |-> V, written |-> W, failed |-> done # DOMAIN items]
  BY DEF Apply
<1>2. done \subseteq DOMAIN items /\ DOMAIN items = 1..Len(items) /\ Len(items) \in Nat
  OBVIOUS
<1> HIDE DEF done
<1>3. ASSUME NEW d \in Docs
      PROVE  /\ V[d] \in 0..Len(Events)
             /\ V[d] = ver[d] \/ \E i \in DOMAIN items : items[i] = V[d] /\ Doc(items[i]) = d
  <2>1. CASE Of(d) = {}
    BY <2>1
  <2>2. CASE Of(d) # {}
    <3>1. Of(d) \subseteq 1..Len(items)
      BY <1>2
    <3>2. Max(Of(d)) \in Of(d)
      <4> HIDE DEF Of
      <4> QED
        BY <1>2, <2>2, <3>1, MaxFact
    <3>3. V[d] = items[Max(Of(d))] /\ Max(Of(d)) \in DOMAIN items /\ Doc(items[Max(Of(d))]) = d
      BY <1>2, <2>2, <3>2
    <3>4. items[Max(Of(d))] \in Event
      BY <3>3
    <3>5. items[Max(Of(d))] \in 0..Len(Events)
      BY <3>4, EventFacts
    <3> HIDE DEF V, Of
    <3> QED
      BY <3>3, <3>5
  <2> QED
    BY <2>1, <2>2
<1>4. V \in [Docs -> 0..Len(Events)]
  <2> HIDE DEF Of
  <2>1. \A d \in Docs : V[d] \in 0..Len(Events)
    BY <1>3
  <2> QED
    BY <2>1
<1>5. /\ Apply(items).ver = V /\ Apply(items).written = W
      /\ Apply(items).failed = (done # DOMAIN items)
  BY <1>1
<1> HIDE DEF V
<1> QED
  BY <1>3, <1>4, <1>5

-----------------------------------------------------------------------------
(* What the actions do to the indexers.                                    *)

Same(x, y) == y.owner = x.owner /\ y.batch = x.batch

\* Every action of a call or a worker changes one indexer.
LEMMA TakeEffect ==
    ASSUME TypeInv, NEW s \in Slots, NEW w \in Workers, Take(s, w), NEW x, x = indexers[s]
    PROVE  \E y \in Indexer :
             /\ x \in Indexer /\ indexers' = [indexers EXCEPT ![s] = y]
             /\ Same(x, y) /\ y.failed = x.failed /\ y.left = x.left
             /\ \A e \in Event : Holds(y, e) <=> Holds(x, e)
<1>1. x \in Indexer /\ x.queue # <<>>
  BY DEF TypeInv, Take
<1>2. /\ x.queue \in Seq(Event) /\ Head(x.queue) \in Event /\ Tail(x.queue) \in Seq(Event)
      /\ x.buf \in [Workers -> Seq(Event)]
  BY <1>1, IndexerFacts
<1> DEFINE h == Head(x.queue)
           b == [x.buf EXCEPT ![w] = Append(x.buf[w], h)]
           y == [x EXCEPT !.queue = Tail(x.queue), !.buf = b]
<1>3. indexers' = [indexers EXCEPT ![s] = y]
  BY DEF Take
<1>4. b \in [Workers -> Seq(Event)]
  BY <1>2
<1>5. /\ y \in Indexer /\ Same(x, y) /\ y.failed = x.failed /\ y.left = x.left
      /\ y.queue = Tail(x.queue) /\ y.buf = b
  <2> HIDE DEF b
  <2> QED
    BY <1>1, <1>2, <1>4 DEF Indexer, Same
<1>6. ASSUME NEW e \in Event PROVE Holds(y, e) <=> Holds(x, e)
  <2> HIDE DEF y
  <2>1. (\E i \in DOMAIN x.queue : x.queue[i] = e)
          <=> e = h \/ \E i \in DOMAIN Tail(x.queue) : Tail(x.queue)[i] = e
    <3>1. DOMAIN x.queue = 1..Len(x.queue) /\ Len(x.queue) \in Nat /\ Len(x.queue) > 0
          /\ DOMAIN Tail(x.queue) = 1..(Len(x.queue) - 1) /\ h = x.queue[1]
          /\ \A i \in DOMAIN Tail(x.queue) : Tail(x.queue)[i] = x.queue[i + 1]
      BY <1>1, <1>2
    <3> HIDE DEF h
    <3>2. ASSUME NEW i \in DOMAIN x.queue, x.queue[i] = e, e # h
          PROVE  \E j \in DOMAIN Tail(x.queue) : Tail(x.queue)[j] = e
      <4>1. i - 1 \in DOMAIN Tail(x.queue) /\ (i - 1) + 1 = i
        BY <3>1, <3>2
      <4> QED
        BY <3>1, <3>2, <4>1
    <3>3. ASSUME NEW i \in DOMAIN Tail(x.queue), Tail(x.queue)[i] = e
          PROVE  \E j \in DOMAIN x.queue : x.queue[j] = e
      <4>1. i + 1 \in DOMAIN x.queue
        BY <3>1
      <4> QED
        BY <3>1, <3>3, <4>1
    <3> QED
      BY <3>1, <3>2, <3>3
  <2>2. (\E i \in DOMAIN b[w] : b[w][i] = e) <=> e = h \/ \E i \in DOMAIN x.buf[w] : x.buf[w][i] = e
    <3> DEFINE q == x.buf[w]
    <3>1. q \in Seq(Event) /\ h \in Event /\ b[w] = Append(q, h)
      BY <1>2
    <3> HIDE DEF q, h, b
    <3>2. DOMAIN Append(q, h) = 1..(Len(q) + 1) /\ DOMAIN q = 1..Len(q) /\ Len(q) \in Nat
          /\ Append(q, h)[Len(q) + 1] = h /\ \A i \in DOMAIN q : Append(q, h)[i] = q[i]
      BY <3>1
    <3>3. Len(q) + 1 \in DOMAIN Append(q, h) /\ DOMAIN q \subseteq DOMAIN Append(q, h)
          /\ \A i \in DOMAIN Append(q, h) : i \in DOMAIN q \/ i = Len(q) + 1
      BY <3>2
    <3> QED
      BY <3>1, <3>2, <3>3 DEF q
  <2>3. \A v \in Workers \ {w} : b[v] = x.buf[v]
    BY <1>2
  <2> HIDE DEF b, h
  <2> QED
    BY <1>5, <2>1, <2>2, <2>3 DEF Holds
<1> QED
  BY <1>1, <1>3, <1>5, <1>6

\* After a request of a worker its items are written, or its indexer knows that
\* something failed.
LEMMA FlushEffect ==
    ASSUME TypeInv, NEW s \in Slots, NEW w \in Workers, Flush(s, w), NEW x, x = indexers[s]
    PROVE  \E y \in Indexer :
             /\ x \in Indexer /\ y # x /\ indexers' = [indexers EXCEPT ![s] = y]
             /\ Same(x, y) /\ y.left = x.left /\ (x.failed => y.failed)
             /\ written \subseteq written'
             /\ \A e \in Event : Holds(y, e) => Holds(x, e)
             /\ ~y.failed => \A e \in Event : Holds(x, e) => Holds(y, e) \/ e \in written'
             /\ ver' \in [Docs -> 0..Len(Events)]
             /\ \A d \in Docs : \/ ver'[d] = ver[d]
                                \/ ver'[d] \in Event /\ Holds(x, ver'[d]) /\ Doc(ver'[d]) = d
<1>1. x \in Indexer /\ x.buf[w] # <<>>
  BY DEF TypeInv, Flush
<1>2. /\ x.buf \in [Workers -> Seq(Event)] /\ x.queue \in Seq(Event)
      /\ x.failed \in BOOLEAN /\ x.told \in BOOLEAN
  BY <1>1, IndexerFacts
<1> DEFINE items == x.buf[w]
           r == Apply(items)
           b == [x.buf EXCEPT ![w] = <<>>]
           sent(bad, told) == [x EXCEPT !.buf = b, !.failed = x.failed \/ bad, !.told = x.told \/ told]
<1>3. items \in Seq(Event)
  BY <1>2
<1>4. PICK bad \in BOOLEAN, told \in BOOLEAN :
          /\ indexers' = [indexers EXCEPT ![s] = sent(bad, told)]
          /\ \/ ver' = r.ver /\ written' = r.written /\ (bad \/ ~r.failed)
             \/ bad /\ UNCHANGED <<ver, written>>
  <2>1. r.failed \in BOOLEAN
    BY <1>3, ApplyFacts DEF TypeInv
  <2> HIDE DEF r
  <2>2. \/ indexers' = [indexers EXCEPT ![s] = sent(r.failed, r.failed)] /\ ver' = r.ver /\ written' = r.written
        \/ \E told \in BOOLEAN :
             /\ indexers' = [indexers EXCEPT ![s] = sent(TRUE, told)]
             /\ (ver' = r.ver /\ written' = r.written) \/ UNCHANGED <<ver, written>>
    BY ZenonT(40) DEF Flush, r
  <2> HIDE DEF sent
  <2>3. CASE indexers' = [indexers EXCEPT ![s] = sent(r.failed, r.failed)] /\ ver' = r.ver /\ written' = r.written
    BY <2>1, <2>3
  <2>4. ASSUME NEW told \in BOOLEAN, indexers' = [indexers EXCEPT ![s] = sent(TRUE, told)],
               (ver' = r.ver /\ written' = r.written) \/ UNCHANGED <<ver, written>>
        PROVE  \E bad \in BOOLEAN, t \in BOOLEAN :
                 /\ indexers' = [indexers EXCEPT ![s] = sent(bad, t)]
                 /\ \/ ver' = r.ver /\ written' = r.written /\ (bad \/ ~r.failed)
                    \/ bad /\ UNCHANGED <<ver, written>>
    BY <2>4
  <2> QED
    BY <2>2, <2>3, <2>4
<1> DEFINE y == sent(bad, told)
<1>5. b \in [Workers -> Seq(Event)]
  BY <1>2
<1>6. /\ y \in Indexer /\ Same(x, y) /\ y.left = x.left
      /\ y.failed = (x.failed \/ bad) /\ y.queue = x.queue /\ y.buf = b
  <2> HIDE DEF b
  <2>1. (x.failed \/ bad) \in BOOLEAN /\ (x.told \/ told) \in BOOLEAN
    BY <1>2
  <2> QED
    BY <1>1, <1>2, <1>5, <2>1 DEF Indexer, Same
<1>7. b[w] = <<>> /\ \A v \in Workers \ {w} : b[v] = x.buf[v]
  BY <1>2
<1>8. y # x
  <2> HIDE DEF b, y
  <2> QED
    BY <1>1, <1>6, <1>7
<1>9. \A d \in Docs : ver'[d] = ver[d]
                      \/ \E i \in DOMAIN items : items[i] = ver'[d] /\ Doc(items[i]) = d
  <2>1. \A d \in Docs : r.ver[d] = ver[d]
                        \/ \E i \in DOMAIN items : items[i] = r.ver[d] /\ Doc(items[i]) = d
    BY <1>3, ApplyFacts DEF TypeInv
  <2> HIDE DEF r, items, y
  <2> QED
    BY <1>4, <2>1
<1>10. /\ written \subseteq written' /\ ver' \in [Docs -> 0..Len(Events)]
       /\ ~bad => \A i \in DOMAIN items : items[i] \in written'
  BY <1>3, <1>4, ApplyFacts DEF TypeInv
<1>11. \A i \in DOMAIN items : items[i] \in Event /\ Holds(x, items[i])
  BY <1>3 DEF Holds
<1>12. \A d \in Docs : \/ ver'[d] = ver[d]
                       \/ ver'[d] \in Event /\ Holds(x, ver'[d]) /\ Doc(ver'[d]) = d
  <2> HIDE DEF items
  <2> QED
    BY <1>9, <1>11
<1>13. DOMAIN b[w] = {}
  BY <1>7
<1>14. ASSUME NEW e \in Event
       PROVE  /\ Holds(y, e) => Holds(x, e)
              /\ Holds(x, e) => Holds(y, e) \/ \E i \in DOMAIN items : items[i] = e
  <2> HIDE DEF b, y
  <2> QED
    BY <1>6, <1>7, <1>13 DEF Holds
<1>15. ~y.failed => \A e \in Event : Holds(x, e) => Holds(y, e) \/ e \in written'
  <2> HIDE DEF y, items
  <2> QED
    BY <1>6, <1>10, <1>14
<1>17. indexers' = [indexers EXCEPT ![s] = y]
  BY <1>4
<1> HIDE DEF y, items, b
<1>16. x.failed => y.failed
  BY <1>6
<1> QED
  BY <1>1, <1>6, <1>8, <1>10, <1>12, <1>14, <1>15, <1>16, <1>17

-----------------------------------------------------------------------------
(* The steps.                                                              *)

\* The calls and the indexers a state has.
LEMMA StateFacts ==
    ASSUME TypeInv, OwnerInv
    PROVE  /\ \A c \in Callers : calls[c] \notin Ended => calls[c] \in OpenCall /\ calls[c].slot \in Slots
           /\ \A s \in Slots : indexers[s] # Free => indexers[s] \in Indexer
           /\ \A c, d \in Callers : calls[c] \notin Ended /\ calls[d] \notin Ended /\ c # d
                                    => calls[c].slot # calls[d].slot
<1>1. \A c \in Callers : calls[c] \notin Ended => calls[c] \in OpenCall
  BY DEF TypeInv
<1>2. \A c \in Callers : calls[c] \notin Ended => calls[c].slot \in Slots
  BY <1>1, CallFacts
<1> QED
  BY <1>1, <1>2 DEF TypeInv, OwnerInv

\* A step of a worker.
LEMMA WorkerStep ==
    ASSUME Inv, NEW s \in Slots, NEW x \in Indexer, x = indexers[s], NEW y \in Indexer,
           indexers' = [indexers EXCEPT ![s] = y],
           Same(x, y), y.left = x.left, x.failed => y.failed, written \subseteq written',
           \A e \in Event : Holds(y, e) => Holds(x, e),
           ~y.failed => \A e \in Event : Holds(x, e) => Holds(y, e) \/ e \in written',
           ver' \in [Docs -> 0..Len(Events)],
           \A d \in Docs : \/ ver'[d] = ver[d]
                           \/ ver'[d] \in Event /\ Holds(x, ver'[d]) /\ Doc(ver'[d]) = d,
           UNCHANGED <<next, calls, accepted, dead>>
    PROVE  Inv'
<1>1. x # Free /\ y # Free
  BY IndexerFacts
<1>2. indexers'[s] = y /\ \A r \in Slots \ {s} : indexers'[r] = indexers[r]
  BY DEF Inv, TypeInv
<1>3. TypeInv'
  BY DEF Inv, TypeInv
<1>4. OwnerInv'
  BY <1>1, <1>2, StateFacts DEF Inv, OwnerInv, Same
<1>5. ReceivedInv'
  <2> SUFFICES ASSUME NEW c \in Callers, calls[c] \notin Ended
               PROVE  /\ calls[c].pos <= Len(calls[c].batch)
                      /\ calls[c].st = "create" => calls[c].pos < Len(calls[c].batch)
                      /\ \/ indexers'[calls[c].slot].failed
                         \/ \A i \in 1..calls[c].pos :
                              \/ calls[c].batch[i] \in written'
                              \/ Holds(indexers'[calls[c].slot], calls[c].batch[i])
    BY DEF ReceivedInv
  <2> DEFINE call == calls[c]
  <2>1. call.slot \in Slots /\ call.batch \in Seq(Event) /\ call.pos \in Nat
        /\ call.pos <= Len(call.batch) /\ (call.st = "create" => call.pos < Len(call.batch))
    BY StateFacts, CallFacts DEF Inv, ReceivedInv
  <2>2. \A i \in 1..call.pos : call.batch[i] \in Event
    BY <2>1
  <2>3. \/ indexers[call.slot].failed
        \/ \A i \in 1..call.pos : call.batch[i] \in written \/ Holds(indexers[call.slot], call.batch[i])
    BY DEF Inv, ReceivedInv
  <2> HIDE DEF call
  <2>4. \/ indexers'[call.slot].failed
        \/ \A i \in 1..call.pos : call.batch[i] \in written' \/ Holds(indexers'[call.slot], call.batch[i])
    <3>1. CASE call.slot = s
      BY <1>2, <2>2, <2>3, <3>1
    <3>2. CASE call.slot # s
      BY <1>2, <2>1, <2>3, <3>2
    <3> QED
      BY <3>1, <3>2
  <2> QED
    BY <2>1, <2>4 DEF call
<1>6. HandedInv'
  <2>1. ASSUME NEW d \in Docs, ver'[d] # 0 PROVE ver'[d] <= next /\ Doc(ver'[d]) = d
    <3>1. CASE ver'[d] = ver[d]
      BY <2>1, <3>1 DEF Inv, HandedInv
    <3>2. CASE ver'[d] \in Event /\ Holds(x, ver'[d]) /\ Doc(ver'[d]) = d
      BY <1>1, <3>2 DEF Inv, HandedInv
    <3> QED
      BY <3>1, <3>2
  <2>2. ASSUME NEW r \in Slots, indexers'[r] # Free
        PROVE  /\ \A e \in Event : Holds(indexers'[r], e) =>
                      \E i \in DOMAIN indexers'[r].batch : indexers'[r].batch[i] = e
               /\ \A i \in DOMAIN indexers'[r].batch : indexers'[r].batch[i] <= next
               /\ indexers'[r].owner = "cdc" /\ ~indexers'[r].left =>
                    \A i \in DOMAIN indexers'[r].batch :
                        indexers'[r].batch[i] = next - Len(indexers'[r].batch) + i
    <3>1. CASE r = s
      BY <1>1, <1>2, <3>1 DEF Inv, HandedInv, Same
    <3>2. CASE r # s
      BY <1>2, <2>2, <3>2 DEF Inv, HandedInv
    <3> QED
      BY <3>1, <3>2
  <2>3. \A e \in dead' : e <= next'
    BY DEF Inv, HandedInv
  <2> QED
    BY <2>1, <2>2, <2>3 DEF HandedInv, Holds
<1>7. AcceptedIsWritten'
  BY DEF Inv, AcceptedIsWritten
<1> QED
  BY <1>3, <1>4, <1>5, <1>6, <1>7 DEF Inv

\* A call begins, with an empty indexer.
LEMMA OpenStep ==
    ASSUME Inv, NEW c \in Callers, NEW batch \in Seq(Event), Open(c, batch),
           next <= next', next' \in 0..Len(Events), UNCHANGED dead,
           \A i \in DOMAIN batch : batch[i] <= next',
           c = "cdc" => \A i \in DOMAIN batch : batch[i] = next' - Len(batch) + i,
           c # "cdc" => next' = next
    PROVE  Inv'
<1>0. TypeInv /\ OwnerInv /\ ReceivedInv /\ HandedInv /\ AcceptedIsWritten
  BY DEF Inv
<1> DEFINE call(s) == [st |-> "recv", batch |-> batch, pos |-> 0, created |-> {}, slot |-> s]
           y == [owner |-> c, batch |-> batch, queue |-> << >>, buf |-> [w \in Workers |-> << >>],
                 failed |-> FALSE, told |-> FALSE, left |-> FALSE]
<1>1. PICK s \in Slots : /\ indexers[s] = Free /\ calls[c] \in Ended
                         /\ calls' = [calls EXCEPT ![c] = call(s)]
                         /\ indexers' = [indexers EXCEPT ![s] = y]
  BY DEF Open, Ended
<1>2. UNCHANGED <<ver, written, accepted>>
  BY DEF Open
<1>3. /\ call(s) \in OpenCall /\ call(s) \notin Ended /\ call(s).slot = s /\ call(s).batch = batch
      /\ call(s).pos = 0 /\ call(s).st = "recv"
  <2>1. call(s) \in OpenCall
    BY DEF OpenCall
  <2> QED
    BY <2>1, CallFacts
<1>4. /\ y \in Indexer /\ y # Free /\ y.owner = c /\ y.batch = batch /\ ~y.left /\ y.failed = FALSE
      /\ \A e \in Event : ~Holds(y, e)
  <2>1. y \in Indexer
    BY DEF Indexer
  <2>2. y.owner = c /\ y.batch = batch /\ ~y.left /\ y.failed = FALSE
        /\ y.queue = << >> /\ y.buf = [w \in Workers |-> << >>]
    OBVIOUS
  <2>3. DOMAIN y.queue = {} /\ \A w \in Workers : DOMAIN y.buf[w] = {}
    BY <2>2
  <2> HIDE DEF y
  <2> QED
    BY <2>1, <2>2, <2>3, IndexerFacts DEF Holds
<1> HIDE DEF call, y
<1>5. calls'[c] = call(s) /\ \A d \in Callers \ {c} : calls'[d] = calls[d]
  BY <1>0, <1>1 DEF TypeInv
<1>6. indexers'[s] = y /\ \A r \in Slots \ {s} : indexers'[r] = indexers[r]
  BY <1>0, <1>1 DEF TypeInv
<1>7. TypeInv'
  BY <1>0, <1>1, <1>2, <1>3, <1>4 DEF TypeInv
<1>8. \A d \in Callers \ {c} : calls[d] \notin Ended => calls[d].slot \in Slots \ {s}
  BY <1>0, <1>1, StateFacts DEF OwnerInv
<1>9. OwnerInv'
  <2>1. ASSUME NEW d \in Callers, calls'[d] \notin Ended
        PROVE  /\ indexers'[calls'[d].slot] # Free
               /\ indexers'[calls'[d].slot].owner = d
               /\ ~indexers'[calls'[d].slot].left
               /\ indexers'[calls'[d].slot].batch = calls'[d].batch
    <3>1. CASE d = c
      BY <1>3, <1>4, <1>5, <1>6, <3>1
    <3>2. CASE d # c
      BY <1>0, <1>5, <1>6, <1>8, <2>1, <3>2 DEF OwnerInv
    <3> QED
      BY <3>1, <3>2
  <2>2. ASSUME NEW r \in Slots, indexers'[r] # Free, ~indexers'[r].left
        PROVE  calls'[indexers'[r].owner] \notin Ended /\ calls'[indexers'[r].owner].slot = r
    <3>1. CASE r = s
      BY <1>3, <1>4, <1>5, <1>6, <3>1
    <3>2. CASE r # s
      <4>1. indexers'[r] = indexers[r] /\ indexers[r].owner \in Callers
        BY <1>0, <1>6, <2>2, <3>2, StateFacts, IndexerFacts
      <4>2. calls[indexers[r].owner] \notin Ended /\ calls[indexers[r].owner].slot = r
        BY <1>0, <2>2, <4>1 DEF OwnerInv
      <4>3. indexers[r].owner # c
        BY <1>1, <4>2
      <4> QED
        BY <1>5, <4>1, <4>2, <4>3
    <3> QED
      BY <3>1, <3>2
  <2> QED
    BY <2>1, <2>2 DEF OwnerInv
<1>10. ReceivedInv'
  <2> SUFFICES ASSUME NEW d \in Callers, calls'[d] \notin Ended
               PROVE  /\ calls'[d].pos <= Len(calls'[d].batch)
                      /\ calls'[d].st = "create" => calls'[d].pos < Len(calls'[d].batch)
                      /\ \/ indexers'[calls'[d].slot].failed
                         \/ \A i \in 1..calls'[d].pos :
                              \/ calls'[d].batch[i] \in written'
                              \/ Holds(indexers'[calls'[d].slot], calls'[d].batch[i])
    BY DEF ReceivedInv
  <2>1. CASE d = c
    <3>1. 0 <= Len(batch) /\ 1..0 = {}
      OBVIOUS
    <3> QED
      BY <1>3, <1>5, <2>1, <3>1
  <2>2. CASE d # c
    BY <1>0, <1>2, <1>5, <1>6, <1>8, <2>2 DEF ReceivedInv
  <2> QED
    BY <2>1, <2>2
<1>11. HandedInv'
  <2>0. next \in Int /\ next' \in Int
    BY <1>0, EventFacts DEF TypeInv
  <2>1. \A d \in Docs : ver'[d] # 0 => ver'[d] <= next' /\ Doc(ver'[d]) = d
    <3>1. \A d \in Docs : ver[d] \in Int
      BY <1>0, EventFacts DEF TypeInv
    <3> QED
      BY <1>0, <1>2, <2>0, <3>1 DEF HandedInv
  <2>2. \A e \in dead' : e <= next'
    <3>1. \A e \in dead : e \in Int
      BY <1>0, EventFacts DEF TypeInv
    <3> QED
      BY <1>0, <2>0, <3>1 DEF HandedInv
  <2>3. ASSUME NEW r \in Slots, indexers'[r] # Free
        PROVE  /\ \A e \in Event : Holds(indexers'[r], e) =>
                      \E i \in DOMAIN indexers'[r].batch : indexers'[r].batch[i] = e
               /\ \A i \in DOMAIN indexers'[r].batch : indexers'[r].batch[i] <= next'
               /\ indexers'[r].owner = "cdc" /\ ~indexers'[r].left =>
                    \A i \in DOMAIN indexers'[r].batch :
                        indexers'[r].batch[i] = next' - Len(indexers'[r].batch) + i
    <3>1. CASE r = s
      BY <1>4, <1>6, <3>1
    <3>2. CASE r # s
      <4>1. indexers'[r] = indexers[r] /\ indexers[r] # Free
        BY <1>6, <2>3, <3>2
      <4>2. \A i \in DOMAIN indexers[r].batch : indexers[r].batch[i] \in Int
        BY <1>0, <4>1, StateFacts, IndexerFacts, EventFacts
      <4>3. indexers[r].owner = "cdc" /\ ~indexers[r].left => c # "cdc"
        BY <1>0, <1>1, <4>1 DEF OwnerInv
      <4> QED
        BY <1>0, <2>0, <4>1, <4>2, <4>3 DEF HandedInv
    <3> QED
      BY <3>1, <3>2
  <2> QED
    BY <2>1, <2>2, <2>3 DEF HandedInv, Holds
<1>12. AcceptedIsWritten'
  BY <1>0, <1>2 DEF AcceptedIsWritten
<1> QED
  BY <1>7, <1>9, <1>10, <1>11, <1>12 DEF Inv

\* A call receives an event.
LEMMA ReceiveStep ==
    ASSUME Inv, NEW c \in Callers, calls[c] \notin Ended, Receive(c)
    PROVE  Inv'
<1>0. TypeInv /\ OwnerInv /\ ReceivedInv /\ HandedInv /\ AcceptedIsWritten
  BY DEF Inv
<1> DEFINE call == calls[c]
           s == call.slot
           x == indexers[s]
           e == call.batch[call.pos + 1]
           new == [call EXCEPT !.pos = call.pos + 1, !.created = call.created \cup {Index(e)}]
           y == [x EXCEPT !.queue = Append(x.queue, e)]
<1>1. /\ call \in OpenCall /\ s \in Slots /\ call.batch \in Seq(Event) /\ call.pos \in Nat
      /\ call.created \in SUBSET Indices /\ call.st = "recv" /\ call.pos < Len(call.batch)
  BY <1>0, StateFacts, CallFacts DEF Receive
<1>2. e \in Event /\ Index(e) \in Indices
  BY <1>1, EventFacts
<1>3. x \in Indexer /\ x # Free /\ x.queue \in Seq(Event) /\ x.owner = c /\ ~x.left /\ x.batch = call.batch
  BY <1>0, <1>1, StateFacts, IndexerFacts DEF OwnerInv
<1>4. /\ calls' = [calls EXCEPT ![c] = new] /\ indexers' = [indexers EXCEPT ![s] = y]
      /\ UNCHANGED <<next, ver, written, accepted, dead>>
  BY DEF Receive
<1>5. /\ new \in OpenCall /\ new \notin Ended /\ new.batch = call.batch /\ new.slot = s
      /\ new.pos = call.pos + 1 /\ new.st = "recv"
  <2> HIDE DEF e
  <2>1. call.created \cup {Index(e)} \in SUBSET Indices /\ call.pos + 1 \in Nat
    BY <1>1, <1>2
  <2>2. new \in OpenCall
    BY <1>1, <2>1 DEF OpenCall
  <2>3. new.batch = call.batch /\ new.slot = s /\ new.pos = call.pos + 1 /\ new.st = "recv"
    BY <1>1 DEF OpenCall
  <2> QED
    BY <2>2, <2>3, CallFacts
<1>6. /\ y \in Indexer /\ y # Free /\ Same(x, y) /\ y.left = x.left /\ y.failed = x.failed
      /\ y.buf = x.buf /\ y.queue = Append(x.queue, e)
  <2> HIDE DEF e, x
  <2>1. Append(x.queue, e) \in Seq(Event)
    BY <1>2, <1>3
  <2>2. y \in Indexer
    BY <1>3, <2>1 DEF Indexer
  <2> QED
    BY <1>3, <2>2, IndexerFacts DEF Indexer, Same
<1>7. \A f \in Event : Holds(y, f) <=> Holds(x, f) \/ f = e
  <2> DEFINE q == x.queue
  <2> HIDE DEF q, e, y, x
  <2>1. q \in Seq(Event) /\ e \in Event /\ y.queue = Append(q, e)
    BY <1>2, <1>3, <1>6 DEF q
  <2>2. DOMAIN Append(q, e) = 1..(Len(q) + 1) /\ DOMAIN q = 1..Len(q) /\ Len(q) \in Nat
        /\ Append(q, e)[Len(q) + 1] = e /\ \A i \in DOMAIN q : Append(q, e)[i] = q[i]
    BY <2>1
  <2>3. Len(q) + 1 \in DOMAIN Append(q, e) /\ DOMAIN q \subseteq DOMAIN Append(q, e)
        /\ \A i \in DOMAIN Append(q, e) : i \in DOMAIN q \/ i = Len(q) + 1
    BY <2>2
  <2>4. ASSUME NEW f \in Event
        PROVE  (\E i \in DOMAIN y.queue : y.queue[i] = f) <=> (\E i \in DOMAIN q : q[i] = f) \/ f = e
    BY <2>1, <2>2, <2>3
  <2> QED
    BY <1>6, <2>4 DEF Holds, q
<1>8. calls'[c] = new /\ \A d \in Callers \ {c} : calls'[d] = calls[d]
  <2> HIDE DEF new
  <2> QED
    BY <1>0, <1>4 DEF TypeInv
<1>9. indexers'[s] = y /\ \A r \in Slots \ {s} : indexers'[r] = indexers[r]
  <2> HIDE DEF y, s
  <2> QED
    BY <1>0, <1>1, <1>4 DEF TypeInv
<1> HIDE DEF call, s, x, e, new, y
<1>10. TypeInv'
  BY <1>0, <1>1, <1>4, <1>5, <1>6 DEF TypeInv
<1>11. \A d \in Callers \ {c} : calls[d] \notin Ended => calls[d].slot \in Slots \ {s}
  BY <1>0, StateFacts DEF s, call
<1>12. OwnerInv'
  <2>1. ASSUME NEW d \in Callers, calls'[d] \notin Ended
        PROVE  /\ indexers'[calls'[d].slot] # Free
               /\ indexers'[calls'[d].slot].owner = d
               /\ ~indexers'[calls'[d].slot].left
               /\ indexers'[calls'[d].slot].batch = calls'[d].batch
    <3>1. CASE d = c
      BY <1>3, <1>5, <1>6, <1>8, <1>9, <3>1 DEF Same
    <3>2. CASE d # c
      BY <1>0, <1>8, <1>9, <1>11, <2>1, <3>2 DEF OwnerInv
    <3> QED
      BY <3>1, <3>2
  <2>2. ASSUME NEW r \in Slots, indexers'[r] # Free, ~indexers'[r].left
        PROVE  calls'[indexers'[r].owner] \notin Ended /\ calls'[indexers'[r].owner].slot = r
    <3>1. CASE r = s
      BY <1>3, <1>5, <1>6, <1>8, <1>9, <3>1 DEF Same
    <3>2. CASE r # s
      <4>1. indexers'[r] = indexers[r] /\ indexers[r].owner \in Callers
        BY <1>0, <1>9, <2>2, <3>2, StateFacts, IndexerFacts
      <4>2. calls[indexers[r].owner] \notin Ended /\ calls[indexers[r].owner].slot = r
        BY <1>0, <2>2, <4>1 DEF OwnerInv
      <4> QED
        BY <1>5, <1>8, <3>2, <4>1, <4>2 DEF s, call
    <3> QED
      BY <3>1, <3>2
  <2> QED
    BY <2>1, <2>2 DEF OwnerInv
<1>13. ReceivedInv'
  <2> SUFFICES ASSUME NEW d \in Callers, calls'[d] \notin Ended
               PROVE  /\ calls'[d].pos <= Len(calls'[d].batch)
                      /\ calls'[d].st = "create" => calls'[d].pos < Len(calls'[d].batch)
                      /\ \/ indexers'[calls'[d].slot].failed
                         \/ \A i \in 1..calls'[d].pos :
                              \/ calls'[d].batch[i] \in written'
                              \/ Holds(indexers'[calls'[d].slot], calls'[d].batch[i])
    BY DEF ReceivedInv
  <2>1. CASE d = c
    <3>1. new.pos <= Len(new.batch) /\ new.st # "create"
      BY <1>1, <1>5
    <3>2. x.failed \/ \A i \in 1..call.pos : call.batch[i] \in written \/ Holds(x, call.batch[i])
      BY <1>0 DEF ReceivedInv, x, s, call
    <3>3. y.failed \/ \A i \in 1..new.pos : new.batch[i] \in written \/ Holds(y, new.batch[i])
      <4> SUFFICES ASSUME ~y.failed, NEW i \in 1..new.pos
                   PROVE  new.batch[i] \in written \/ Holds(y, new.batch[i])
        OBVIOUS
      <4>1. i \in 1..call.pos \/ i = call.pos + 1
        BY <1>1, <1>5
      <4>2. call.batch[i] \in Event
        BY <1>1, <1>5
      <4>3. CASE i \in 1..call.pos
        BY <1>5, <1>6, <1>7, <3>2, <4>2, <4>3
      <4>4. CASE i = call.pos + 1
        BY <1>2, <1>5, <1>7, <4>4 DEF e
      <4> QED
        BY <4>1, <4>3, <4>4
    <3> QED
      BY <1>4, <1>5, <1>8, <1>9, <2>1, <3>1, <3>3
  <2>2. CASE d # c
    BY <1>0, <1>4, <1>8, <1>9, <1>11, <2>2 DEF ReceivedInv
  <2> QED
    BY <2>1, <2>2
<1>14. HandedInv'
  <2>1. ASSUME NEW r \in Slots, indexers'[r] # Free
        PROVE  /\ \A f \in Event : Holds(indexers'[r], f) =>
                      \E i \in DOMAIN indexers'[r].batch : indexers'[r].batch[i] = f
               /\ \A i \in DOMAIN indexers'[r].batch : indexers'[r].batch[i] <= next
               /\ indexers'[r].owner = "cdc" /\ ~indexers'[r].left =>
                    \A i \in DOMAIN indexers'[r].batch :
                        indexers'[r].batch[i] = next - Len(indexers'[r].batch) + i
    <3>1. CASE r = s
      <4>1. call.pos + 1 \in DOMAIN call.batch /\ call.batch[call.pos + 1] = e
        BY <1>1 DEF e
      <4>2. /\ \A f \in Event : Holds(x, f) => \E i \in DOMAIN x.batch : x.batch[i] = f
            /\ \A i \in DOMAIN x.batch : x.batch[i] <= next
            /\ x.owner = "cdc" /\ ~x.left =>
                 \A i \in DOMAIN x.batch : x.batch[i] = next - Len(x.batch) + i
        BY <1>0, <1>1, <1>3 DEF HandedInv, x
      <4>3. \A f \in Event : Holds(y, f) => \E i \in DOMAIN x.batch : x.batch[i] = f
        BY <1>3, <1>7, <4>1, <4>2
      <4> QED
        BY <1>6, <1>9, <3>1, <4>2, <4>3 DEF Same
    <3>2. CASE r # s
      BY <1>0, <1>9, <2>1, <3>2 DEF HandedInv
    <3> QED
      BY <3>1, <3>2
  <2>2. (\A d \in Docs : ver[d] # 0 => ver[d] <= next /\ Doc(ver[d]) = d) /\ \A f \in dead : f <= next
    BY <1>0 DEF HandedInv
  <2> QED
    BY <1>4, <2>1, <2>2 DEF HandedInv, Holds
<1>15. AcceptedIsWritten'
  BY <1>0, <1>4 DEF AcceptedIsWritten
<1> QED
  BY <1>10, <1>12, <1>13, <1>14, <1>15 DEF Inv
\* A call goes on without a new event.
LEMMA CallStep ==
    ASSUME Inv, NEW c \in Callers, calls[c] \notin Ended, NEW new \in OpenCall,
           new.batch = calls[c].batch, new.slot = calls[c].slot, new.pos = calls[c].pos,
           calls[c].pos < Len(calls[c].batch), calls' = [calls EXCEPT ![c] = new],
           UNCHANGED <<next, indexers, ver, written, accepted, dead>>
    PROVE  Inv'
<1>0. TypeInv /\ OwnerInv /\ ReceivedInv /\ HandedInv /\ AcceptedIsWritten
  BY DEF Inv
<1>1. calls'[c] = new /\ new \notin Ended /\ \A d \in Callers \ {c} : calls'[d] = calls[d]
  BY <1>0, CallFacts DEF TypeInv
<1>2. TypeInv'
  BY <1>0 DEF TypeInv
<1>3. \A s \in Slots : indexers[s] # Free => indexers[s].owner \in Callers
  BY <1>0, StateFacts, IndexerFacts
<1>4. OwnerInv'
  BY <1>0, <1>1, <1>3 DEF OwnerInv
<1>5. ReceivedInv'
  <2> SUFFICES ASSUME NEW d \in Callers, calls'[d] \notin Ended
               PROVE  /\ calls'[d].pos <= Len(calls'[d].batch)
                      /\ calls'[d].st = "create" => calls'[d].pos < Len(calls'[d].batch)
                      /\ \/ indexers[calls'[d].slot].failed
                         \/ \A i \in 1..calls'[d].pos :
                              \/ calls'[d].batch[i] \in written
                              \/ Holds(indexers[calls'[d].slot], calls'[d].batch[i])
    BY SMTT(20) DEF ReceivedInv
  <2>1. calls[d] \notin Ended
    BY <1>1
  <2> QED
    BY <1>0, <1>1, <2>1 DEF ReceivedInv
<1>6. HandedInv'
  BY <1>0 DEF HandedInv, Holds
<1>7. AcceptedIsWritten'
  BY <1>0 DEF AcceptedIsWritten
<1> QED
  BY <1>2, <1>4, <1>5, <1>6, <1>7 DEF Inv

\* An indexer is closed, left behind or forgotten, and the call that owns it, if
\* there is one, has ended.
LEMMA IndexerEnds ==
    ASSUME Inv, NEW s \in Slots, indexers[s] # Free, NEW y \in {Free} \cup Indexer,
           indexers' = [indexers EXCEPT ![s] = y],
           \/ y = Free
           \/ /\ y # Free /\ Same(indexers[s], y) /\ y.left
              /\ \A e \in Event : Holds(y, e) => Holds(indexers[s], e),
           calls' \in [Callers -> Ended \cup OpenCall],
           \A d \in Callers : calls'[d] \notin Ended => calls'[d] = calls[d] /\ calls[d].slot # s,
           \A d \in Callers : calls[d] \notin Ended /\ calls[d].slot # s => calls'[d] = calls[d],
           UNCHANGED <<next, ver, written>>,
           dead' \subseteq Event, \A e \in dead' : e <= next, accepted' \subseteq written
    PROVE  Inv'
<1>0. TypeInv /\ OwnerInv /\ ReceivedInv /\ HandedInv
  BY DEF Inv
<1>1. indexers'[s] = y /\ \A r \in Slots \ {s} : indexers'[r] = indexers[r]
  BY <1>0 DEF TypeInv
<1>2. TypeInv'
  BY <1>0 DEF TypeInv
<1>3. \A d \in Callers : calls'[d] \notin Ended => calls[d] \notin Ended /\ calls'[d] = calls[d]
                                             /\ calls[d].slot \in Slots \ {s}
  BY <1>0, StateFacts
<1>4. OwnerInv'
  <2>1. ASSUME NEW d \in Callers, calls'[d] \notin Ended
        PROVE  /\ indexers'[calls'[d].slot] # Free
               /\ indexers'[calls'[d].slot].owner = d
               /\ ~indexers'[calls'[d].slot].left
               /\ indexers'[calls'[d].slot].batch = calls'[d].batch
    BY <1>0, <1>1, <1>3, <2>1 DEF OwnerInv
  <2>2. ASSUME NEW r \in Slots, indexers'[r] # Free, ~indexers'[r].left
        PROVE  calls'[indexers'[r].owner] \notin Ended /\ calls'[indexers'[r].owner].slot = r
    <3>1. r # s
      BY <1>1, <2>2
    <3>2. indexers'[r] = indexers[r] /\ indexers[r].owner \in Callers
      BY <1>0, <1>1, <2>2, <3>1, StateFacts, IndexerFacts
    <3>3. calls[indexers[r].owner] \notin Ended /\ calls[indexers[r].owner].slot = r
      BY <1>0, <2>2, <3>2 DEF OwnerInv
    <3> QED
      BY <3>1, <3>2, <3>3
  <2> QED
    BY <2>1, <2>2 DEF OwnerInv
<1>5. ReceivedInv'
  <2> SUFFICES ASSUME NEW d \in Callers, calls'[d] \notin Ended
               PROVE  /\ calls'[d].pos <= Len(calls'[d].batch)
                      /\ calls'[d].st = "create" => calls'[d].pos < Len(calls'[d].batch)
                      /\ \/ indexers'[calls'[d].slot].failed
                         \/ \A i \in 1..calls'[d].pos :
                              \/ calls'[d].batch[i] \in written
                              \/ Holds(indexers'[calls'[d].slot], calls'[d].batch[i])
    BY SMTT(20) DEF ReceivedInv
  <2>1. calls'[d] = calls[d] /\ calls[d] \notin Ended /\ indexers'[calls[d].slot] = indexers[calls[d].slot]
    BY <1>1, <1>3
  <2> QED
    BY <1>0, <2>1 DEF ReceivedInv
<1>6. HandedInv'
  <2>1. ASSUME NEW r \in Slots, indexers'[r] # Free
        PROVE  /\ \A f \in Event : Holds(indexers'[r], f) =>
                      \E i \in DOMAIN indexers'[r].batch : indexers'[r].batch[i] = f
               /\ \A i \in DOMAIN indexers'[r].batch : indexers'[r].batch[i] <= next
               /\ indexers'[r].owner = "cdc" /\ ~indexers'[r].left =>
                    \A i \in DOMAIN indexers'[r].batch :
                        indexers'[r].batch[i] = next - Len(indexers'[r].batch) + i
    <3>1. CASE r = s
      BY <1>0, <1>1, <2>1, <3>1 DEF HandedInv, Same
    <3>2. CASE r # s
      BY <1>0, <1>1, <2>1, <3>2 DEF HandedInv
    <3> QED
      BY <3>1, <3>2
  <2>2. \A d \in Docs : ver[d] # 0 => ver[d] <= next /\ Doc(ver[d]) = d
    BY <1>0 DEF HandedInv
  <2> QED
    BY <2>1, <2>2 DEF HandedInv, Holds
<1>7. AcceptedIsWritten'
  BY DEF AcceptedIsWritten
<1> QED
  BY <1>2, <1>4, <1>5, <1>6, <1>7 DEF Inv

\* A call returns; without an error only when its events are written.
LEMMA ReturnStep ==
    ASSUME Inv, NEW c \in Callers, calls[c] \notin Ended, NEW ok \in BOOLEAN, Return(c, ok),
           ok => \A i \in DOMAIN calls[c].batch : calls[c].batch[i] \in written,
           NEW y \in {Free} \cup Indexer,
           indexers' = [indexers EXCEPT ![calls[c].slot] = y],
           \/ y = Free
           \/ /\ y # Free /\ Same(indexers[calls[c].slot], y) /\ y.left
              /\ \A e \in Event : Holds(y, e) => Holds(indexers[calls[c].slot], e),
           UNCHANGED <<next, ver, written>>
    PROVE  Inv'
<1>0. TypeInv /\ OwnerInv /\ ReceivedInv /\ HandedInv /\ AcceptedIsWritten
  BY DEF Inv
<1> DEFINE s == calls[c].slot
           b == calls[c].batch
<1>1. s \in Slots /\ indexers[s] # Free /\ b \in Seq(Event) /\ indexers[s].batch = b
  BY <1>0, StateFacts, CallFacts DEF OwnerInv
<1>2. calls' \in [Callers -> Ended \cup OpenCall]
  BY <1>0 DEF Return, TypeInv, Ended
<1>3. calls'[c] \in Ended /\ \A d \in Callers \ {c} : calls'[d] = calls[d]
  BY <1>0 DEF Return, TypeInv, Ended
<1>4. \A d \in Callers : calls'[d] \notin Ended => calls'[d] = calls[d] /\ calls[d].slot # s
  BY <1>0, <1>3, StateFacts
<1>5. Range(b) = {b[i] : i \in DOMAIN b} /\ Queued(b) \subseteq Range(b)
  BY DEF Range, Queued
<1>6. \A i \in DOMAIN b : b[i] \in Event /\ b[i] <= next
  BY <1>0, <1>1 DEF HandedInv
<1>7. dead' \subseteq Event /\ \A e \in dead' : e <= next
  BY <1>0, <1>5, <1>6 DEF Return, TypeInv, HandedInv
<1>8. accepted' \subseteq written
  BY <1>0, <1>5 DEF Return, AcceptedIsWritten
<1>9. \A d \in Callers : calls[d] \notin Ended /\ calls[d].slot # s => calls'[d] = calls[d]
  BY <1>3
<1> HIDE DEF s, b
<1> QED
  BY <1>1, <1>2, <1>4, <1>7, <1>8, <1>9, IndexerEnds DEF s

\* A call that returns early leaves its indexer behind.
LEMMA LeaveStep ==
    ASSUME Inv, NEW c \in Callers, calls[c] \notin Ended, Leave(c), UNCHANGED <<next, ver, written>>
    PROVE  Inv'
<1>0. TypeInv /\ OwnerInv
  BY DEF Inv
<1> DEFINE s == calls[c].slot
           x == indexers[s]
           y == [x EXCEPT !.left = TRUE]
<1>1. s \in Slots /\ x \in Indexer
  BY <1>0, StateFacts DEF OwnerInv
<1>2. /\ y \in Indexer /\ Same(x, y) /\ y.left /\ y.queue = x.queue /\ y.buf = x.buf
  <2> HIDE DEF x
  <2> QED
    BY <1>1 DEF Indexer, Same
<1>3. y # Free
  BY <1>2, IndexerFacts
<1>4. \A e \in Event : Holds(y, e) => Holds(x, e)
  <2> HIDE DEF x, y
  <2> QED
    BY <1>2 DEF Holds
<1>5. indexers' = [indexers EXCEPT ![s] = y] /\ Return(c, FALSE)
  BY DEF Leave
<1> HIDE DEF y
<1> QED
  BY <1>2, <1>3, <1>4, <1>5, ReturnStep

\* Close waits until the workers have written everything.
LEMMA CloseStep ==
    ASSUME Inv, NEW c \in Callers, calls[c] \notin Ended, Close(c)
    PROVE  Inv'
<1>0. TypeInv /\ OwnerInv /\ ReceivedInv
  BY DEF Inv
<1> DEFINE s == calls[c].slot
           x == indexers[s]
           b == calls[c].batch
           ok == ~x.failed
<1>1. s \in Slots /\ x \in Indexer /\ b \in Seq(Event)
  BY <1>0, StateFacts, CallFacts DEF OwnerInv
<1>2. /\ Drained(x) /\ calls[c].pos = Len(b) /\ indexers' = [indexers EXCEPT ![s] = Free]
      /\ Return(c, ok) /\ UNCHANGED <<next, ver, written>>
  BY DEF Close
<1>3. \A e \in Event : ~Holds(x, e)
  <2> HIDE DEF x
  <2>1. DOMAIN x.queue = {} /\ \A w \in Workers : DOMAIN x.buf[w] = {}
    BY <1>2 DEF Drained
  <2> QED
    BY <2>1 DEF Holds
<1>4. ok => \A i \in DOMAIN b : b[i] \in written
  <2> SUFFICES ASSUME ok, NEW i \in DOMAIN b PROVE b[i] \in written
    OBVIOUS
  <2>1. i \in 1..calls[c].pos /\ b[i] \in Event
    BY <1>1, <1>2
  <2> QED
    BY <1>0, <1>3, <2>1 DEF ReceivedInv
<1>5. ok \in BOOLEAN
  OBVIOUS
<1> HIDE DEF ok
<1> QED
  BY <1>2, <1>4, <1>5, ReturnStep

\* Nothing refers to an indexer that was left behind.
LEMMA ForgottenStep ==
    ASSUME Inv, NEW s \in Slots, Forgotten(s)
    PROVE  Inv'
<1>0. TypeInv /\ OwnerInv /\ HandedInv /\ AcceptedIsWritten
  BY DEF Inv
<1>1. /\ indexers[s] # Free /\ indexers[s].left /\ indexers' = [indexers EXCEPT ![s] = Free]
      /\ UNCHANGED <<next, calls, ver, written, accepted, dead>>
  BY DEF Forgotten
<1>2. \A d \in Callers : calls[d] \notin Ended => calls[d].slot # s
  BY <1>0, <1>1 DEF OwnerInv
<1>3. dead' \subseteq Event /\ (\A e \in dead' : e <= next) /\ accepted' \subseteq written
      /\ calls' \in [Callers -> Ended \cup OpenCall]
  BY <1>0, <1>1 DEF TypeInv, HandedInv, AcceptedIsWritten
<1> QED
  BY <1>1, <1>2, <1>3, IndexerEnds

\* Of a process that has died nothing is left but what it has written.
LEMMA PanicStep ==
    ASSUME Inv, NEW c \in Callers, Panic(c)
    PROVE  Inv'
<1>0. TypeInv /\ HandedInv /\ AcceptedIsWritten
  BY DEF Inv
<1>1. /\ \A d \in Callers : calls'[d] \in Ended
      /\ calls' \in [Callers -> Ended \cup OpenCall]
      /\ \A s \in Slots : indexers'[s] = Free
      /\ indexers' \in [Slots -> {Free} \cup Indexer]
      /\ UNCHANGED <<next, ver, written, accepted, dead>>
  BY DEF Panic, Ended
<1>2. TypeInv'
  BY <1>0, <1>1 DEF TypeInv
<1>3. OwnerInv' /\ ReceivedInv'
  BY <1>1 DEF OwnerInv, ReceivedInv
<1>4. HandedInv'
  BY <1>0, <1>1 DEF HandedInv
<1>5. AcceptedIsWritten'
  BY <1>0, <1>1 DEF AcceptedIsWritten
<1> QED
  BY <1>2, <1>3, <1>4, <1>5 DEF Inv

\* The invariant holds initially and every step keeps it.
LEMMA Invariant == Spec => []Inv
<1>1. Init => Inv
  <2> SUFFICES ASSUME Init PROVE Inv
    OBVIOUS
  <2>1. TypeInv
    BY EventFacts DEF Init, Ended, TypeInv
  <2>2. OwnerInv /\ ReceivedInv /\ HandedInv /\ AcceptedIsWritten
    BY DEF Init, Ended, OwnerInv, ReceivedInv, HandedInv, AcceptedIsWritten
  <2> QED
    BY <2>1, <2>2 DEF Inv
<1>2. Inv /\ [Next]_vars => Inv'
  <2> SUFFICES ASSUME Inv, [Next]_vars PROVE Inv'
    OBVIOUS
  <2>0. TypeInv /\ HandedInv
    BY DEF Inv
  <2>1. CASE UNCHANGED vars
    BY <2>1 DEF vars, Inv, TypeInv, OwnerInv, ReceivedInv, HandedInv, AcceptedIsWritten, Holds
  <2>2. ASSUME NEW n \in 1..MaxBatch, OpenBatch(n) PROVE Inv'
    <3> DEFINE batch == [i \in 1..n |-> next + i]
    <3>1. /\ next \in Nat /\ n \in Nat /\ next + n <= Len(Events) /\ Open("cdc", batch)
          /\ next' = next + n /\ UNCHANGED dead
      BY <2>0, <2>2, EventFacts, BulkSinkAssumption DEF OpenBatch, TypeInv
    <3>2. batch \in Seq(Event) /\ DOMAIN batch = 1..n /\ Len(batch) = n
      <4>1. \A i \in 1..n : next + i \in Event
        BY <3>1, EventFacts DEF Event
      <4> QED
        BY <3>1, <4>1
    <3>3. \A i \in DOMAIN batch : batch[i] <= next' /\ batch[i] = next' - Len(batch) + i
      BY <3>1, <3>2
    <3>4. next <= next' /\ next' \in 0..Len(Events) /\ "cdc" \in Callers
      BY <3>1, EventFacts DEF Callers
    <3> HIDE DEF batch
    <3> QED
      BY <3>1, <3>2, <3>3, <3>4, OpenStep
  <2>3. ASSUME NEW e \in dead, OpenRetry(e) PROVE Inv'
    <3>1. e \in Event /\ e <= next /\ Open("dlq", <<e>>) /\ UNCHANGED <<next, dead>>
      BY <2>0, <2>3 DEF OpenRetry, TypeInv, HandedInv
    <3>2. <<e>> \in Seq(Event) /\ \A i \in DOMAIN <<e>> : <<e>>[i] <= next
      BY <3>1
    <3>3. next <= next /\ next \in 0..Len(Events) /\ "dlq" \in Callers /\ "dlq" # "cdc"
      BY <2>0, EventFacts DEF TypeInv, Callers
    <3> QED
      BY <3>1, <3>2, <3>3, OpenStep
  <2>4. ASSUME NEW c \in Callers, calls[c] \notin Ended, IndexMissing(c) PROVE Inv'
    <3> DEFINE new == [calls[c] EXCEPT !.st = "create"]
    <3>1. calls[c] \in OpenCall
      BY <2>0, <2>4 DEF TypeInv
    <3>2. /\ new \in OpenCall /\ new.batch = calls[c].batch /\ new.slot = calls[c].slot
          /\ new.pos = calls[c].pos
      BY <3>1 DEF OpenCall
    <3>3. /\ calls[c].pos < Len(calls[c].batch) /\ calls' = [calls EXCEPT ![c] = new]
          /\ UNCHANGED <<next, indexers, ver, written, accepted, dead>>
      BY <2>4 DEF IndexMissing
    <3> HIDE DEF new
    <3> QED
      BY <2>4, <3>2, <3>3, CallStep
  <2>5. ASSUME NEW c \in Callers, calls[c] \notin Ended, CreateDefaultIndex(c) PROVE Inv'
    <3> DEFINE i == Index(calls[c].batch[calls[c].pos + 1])
               new == [calls[c] EXCEPT !.st = "recv", !.created = calls[c].created \cup {i}]
    <3>0. calls[c] \in OpenCall /\ calls[c].st = "create"
      BY <2>0, <2>5 DEF TypeInv, CreateDefaultIndex
    <3>1. CASE Leave(c) /\ UNCHANGED <<next, ver, written>>
      BY <2>5, <3>1, LeaveStep
    <3>2. CASE /\ calls' = [calls EXCEPT ![c] = new]
               /\ UNCHANGED <<next, indexers, ver, written, accepted, dead>>
      <4>1. /\ calls[c].pos < Len(calls[c].batch) /\ calls[c].batch \in Seq(Event)
            /\ calls[c].pos \in Nat /\ calls[c].created \in SUBSET Indices
        BY <2>5, <3>0, CallFacts DEF Inv, ReceivedInv
      <4>2. i \in Indices
        BY <4>1, EventFacts
      <4>3. /\ new \in OpenCall /\ new.batch = calls[c].batch /\ new.slot = calls[c].slot
            /\ new.pos = calls[c].pos
        <5> HIDE DEF i
        <5>1. calls[c].created \cup {i} \in SUBSET Indices
          BY <4>1, <4>2
        <5> QED
          BY <3>0, <5>1 DEF OpenCall
      <4> HIDE DEF new
      <4> QED
        BY <2>5, <3>2, <4>1, <4>3, CallStep
    <3> QED
      BY <2>5, <3>1, <3>2 DEF CreateDefaultIndex
  <2>6. ASSUME NEW c \in Callers, calls[c] \notin Ended, ReceiveFails(c) PROVE Inv'
    BY <2>6, LeaveStep DEF ReceiveFails
  <2>7. ASSUME NEW s \in Slots, NEW w \in Workers, Take(s, w) PROVE Inv'
    <3> DEFINE x == indexers[s]
    <3>1. PICK y \in Indexer :
             /\ x \in Indexer /\ indexers' = [indexers EXCEPT ![s] = y]
             /\ Same(x, y) /\ y.failed = x.failed /\ y.left = x.left
             /\ \A e \in Event : Holds(y, e) <=> Holds(x, e)
      BY <2>0, <2>7, TakeEffect
    <3>2. UNCHANGED <<next, calls, ver, written, accepted, dead>>
      BY <2>7 DEF Take
    <3>3. ver' \in [Docs -> 0..Len(Events)] /\ \A d \in Docs : ver'[d] = ver[d]
      BY <2>0, <3>2 DEF TypeInv
    <3>4. x = indexers[s]
      OBVIOUS
    <3> HIDE DEF x
    <3> QED
      BY <3>1, <3>2, <3>3, <3>4, WorkerStep
  <2>8. ASSUME NEW s \in Slots, NEW w \in Workers, Flush(s, w) PROVE Inv'
    <3> DEFINE x == indexers[s]
    <3>1. PICK y \in Indexer :
             /\ x \in Indexer /\ y # x /\ indexers' = [indexers EXCEPT ![s] = y]
             /\ Same(x, y) /\ y.left = x.left /\ (x.failed => y.failed)
             /\ written \subseteq written'
             /\ \A e \in Event : Holds(y, e) => Holds(x, e)
             /\ ~y.failed => \A e \in Event : Holds(x, e) => Holds(y, e) \/ e \in written'
             /\ ver' \in [Docs -> 0..Len(Events)]
             /\ \A d \in Docs : \/ ver'[d] = ver[d]
                                \/ ver'[d] \in Event /\ Holds(x, ver'[d]) /\ Doc(ver'[d]) = d
      BY <2>0, <2>8, FlushEffect
    <3>2. UNCHANGED <<next, calls, accepted, dead>>
      BY <2>8 DEF Flush
    <3>3. x = indexers[s]
      OBVIOUS
    <3> HIDE DEF x
    <3> QED
      BY <3>1, <3>2, <3>3, WorkerStep
  <2>9. CASE Next
    BY <2>2, <2>3, <2>4, <2>5, <2>6, <2>7, <2>8, <2>9, ReceiveStep, CloseStep, PanicStep,
       ForgottenStep DEF Next, Call, InCall, Work
  <2> QED
    BY <2>1, <2>9
<1> QED
  BY <1>1, <1>2, PTL DEF Spec

-----------------------------------------------------------------------------
\* The place of an event in a batch that ends with the newest event.
LEMMA Overtaken ==
    ASSUME NEW n \in Nat, NEW len \in Nat, NEW i \in 1..len, NEW new \in Nat, NEW old \in Nat,
           new < old, old <= n, new = n - len + i
    PROVE  i + (old - new) \in 1..len /\ i + (old - new) # i /\ n - len + (i + (old - new)) = old
  OBVIOUS

\* BulkWrite answers without an error only when every event of its batch has
\* been applied to the documents, whatever the workers made of the batch and
\* whichever requests failed.
THEOREM AcceptedIsWrittenHolds == Spec => []AcceptedIsWritten
<1>1. Inv => AcceptedIsWritten
  BY DEF Inv
<1> QED
  BY <1>1, Invariant, PTL

\* A document goes back to an older event only through a retry, an indexer left
\* behind, or a batch with two events of it: the events of the newest batch
\* are the newest of all, so one that has overtaken another is in it as well.
THEOREM GoesBackOnlyIfKnownHolds == Spec => GoesBackOnlyIfKnown
<1>1. Inv /\ [Next]_vars => [\A d \in Docs : BackOnlyFor(d)]_vars
  <2> SUFFICES ASSUME Inv, Next, NEW d \in Docs, ver'[d] < ver[d]
               PROVE  \E s \in Slots :
                        /\ indexers[s] # Free /\ indexers[s] # indexers'[s]
                        /\ \/ indexers[s].owner = "dlq" \/ indexers[s].left
                           \/ TwiceIn(indexers[s].batch, d)
    BY DEF BackOnlyFor
  <2>0. TypeInv /\ OwnerInv /\ HandedInv
    BY DEF Inv
  <2>1. ver[d] \in Nat /\ ver' # ver
    BY <2>0, EventFacts DEF TypeInv
  <2>2. PICK s \in Slots, w \in Workers : Flush(s, w)
    <3>1. \/ \E s \in Slots : \E w \in Workers : Flush(s, w)
          \/ UNCHANGED ver
      BY DEF Next, OpenBatch, OpenRetry, Open, Call, Receive, IndexMissing, CreateDefaultIndex,
             Close, Panic, ReceiveFails, Work, Take, Forgotten
    <3> QED
      BY <2>1, <3>1
  <2> DEFINE x == indexers[s]
  <2>3. PICK y \in Indexer :
          /\ x \in Indexer /\ y # x /\ indexers' = [indexers EXCEPT ![s] = y]
          /\ \A f \in Docs : \/ ver'[f] = ver[f]
                             \/ ver'[f] \in Event /\ Holds(x, ver'[f]) /\ Doc(ver'[f]) = f
    BY <2>0, <2>2, FlushEffect
  <2>4. x # Free /\ indexers[s] # indexers'[s] /\ x.owner \in Callers /\ x.batch \in Seq(Event)
    BY <2>0, <2>3, IndexerFacts DEF TypeInv
  <2>5. ver'[d] \in Event /\ Holds(x, ver'[d]) /\ Doc(ver'[d]) = d
    BY <2>1, <2>3
  <2>6. CASE x.owner = "cdc" /\ ~x.left
    <3>1. PICK i \in DOMAIN x.batch : x.batch[i] = ver'[d]
      BY <2>0, <2>4, <2>5 DEF HandedInv
    <3>2. \A j \in DOMAIN x.batch : x.batch[j] = next - Len(x.batch) + j
      BY <2>0, <2>4, <2>6 DEF HandedInv
    <3>3. ver'[d] \in Nat /\ ver'[d] >= 1 /\ ver[d] # 0
      BY <2>1, <2>5, EventFacts
    <3>4. ver[d] <= next /\ Doc(ver[d]) = d /\ next \in Nat
      BY <2>0, <3>3, EventFacts DEF HandedInv, TypeInv
    <3> DEFINE j == i + (ver[d] - ver'[d])
    <3>5. Len(x.batch) \in Nat /\ DOMAIN x.batch = 1..Len(x.batch) /\ i \in 1..Len(x.batch)
      BY <2>4
    <3>6. ver'[d] = next - Len(x.batch) + i
      BY <3>1, <3>2
    <3>7. j \in DOMAIN x.batch /\ j # i /\ next - Len(x.batch) + j = ver[d]
      <4>1. /\ i + (ver[d] - ver'[d]) \in 1..Len(x.batch) /\ i + (ver[d] - ver'[d]) # i
            /\ next - Len(x.batch) + (i + (ver[d] - ver'[d])) = ver[d]
        <5> HIDE DEF x
        <5> QED
          BY <2>1, <3>3, <3>4, <3>5, <3>6, Overtaken, SMTT(20)
      <4> QED
        BY <3>5, <4>1
    <3>8. x.batch[j] = ver[d]
      BY <3>2, <3>7
    <3> HIDE DEF j
    <3>9. TwiceIn(x.batch, d)
      BY <2>5, <3>1, <3>4, <3>7, <3>8 DEF TwiceIn
    <3> QED
      BY <2>4, <3>9
  <2> QED
    BY <2>4, <2>6 DEF Callers
<1> QED
  BY <1>1, Invariant, PTL DEF Spec, GoesBackOnlyIfKnown
=============================================================================
