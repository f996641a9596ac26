---------------------------- MODULE EventTimeline ----------------------------
(***************************************************************************)
(* What EventStore reports about the stored events (event-store.ts):       *)
(* timelines, deliveries out of order and missing events.                  *)
(*                                                                         *)
(* Times are compared as the ISO 8601 texts Sezzle wrote, character by     *)
(* character, whatever the precision and the zone they are written in.     *)
(***************************************************************************)
EXTENDS WebhookIngest, SequencesExt

\* Fault: the session comes before the order.
CorrelationSessionFirst(p) ==
  LET given == {r \in Relation : p.related[r] # None} IN
  IF given = {} THEN <<6, p.id>>
  ELSE IF 2 \in given THEN <<2, p.related[2]>>
  ELSE <<Min(given), p.related[Min(given)]>>

\* correlationKeyFor: the first related id there is, or else the event itself.
CorrelationKey(p) ==
  LET given == {r \in Relation : p.related[r] # None} IN
  IF given = {} THEN <<6, p.id>> ELSE <<Min(given), p.related[Min(given)]>>

EventsOf(key) == {id \in Stored : CorrelationKey(events[id].payload) = key}

\* Sorting is stable: where Before does not decide, the given order stays.
StableSort(s, Before(_, _)) ==
  LET rank == CHOOSE rank \in Bijection(DOMAIN s, DOMAIN s) :
                \A m, n \in DOMAIN s : m < n =>
                  LET i == rank[m]  j == rank[n] IN
                  Before(s[i], s[j]) \/ (~Before(s[j], s[i]) /\ i < j)
  IN  [n \in DOMAIN s |-> s[rank[n]]]

\* listWebhookEvents: newest first.  A Map lists events of one millisecond as they
\* were received; SQLite may list them in any order.
Listings(ids) ==
  {s \in SetToSeqs(ids) : \A i, j \in DOMAIN s : i < j =>
     LET a == events[s[i]]  b == events[s[j]] IN
     \/ a.receivedAt > b.receivedAt
     \/ a.receivedAt = b.receivedAt /\ (Durable \/ a.receipt < b.receipt)}

Created(id) == events[id].payload.created
ReceivedAt(id) == events[id].receivedAt
Receipt(id) == events[id].receipt

\* The order of texts and of instants: the first difference decides.
At(s, i) == IF i \in DOMAIN s THEN s[i] ELSE 0
Precedes(s, t) ==
  \E i \in DOMAIN s \cup DOMAIN t :
    At(s, i) < At(t, i) /\ \A j \in 1..(i - 1) : At(s, j) = At(t, j)

\* A text, with the ranks of "-", "+" and "Z" among the two digits or the digit that
\* another text may have in their place.
Text(created, minus, plus) ==
  <<created.minute>> \o created.digits \o
    <<CASE created.zone = "-" -> minus [] created.zone = "+" -> plus
        [] created.zone = "Z" -> 61, created.offset>>

\* As < compares texts: "+" and "-" come before ".", ":" and the digits.
CodeUnits(id) == Text(Created(id), -1, -2)

\* As localeCompare does: "-" comes before ":" and ".", and "+" between them and the
\* digits, so that where no digit may follow it comes last but for "Z".
Collated(id) ==
  Text(Created(id), -2, IF Len(Created(id).digits) < 2 THEN 60 ELSE -1)

\* When the event occurred; digits that are not written are zero.
Instant(id) ==
  LET created == Created(id) IN
  <<IF created.zone = "-" THEN created.minute + created.offset
                          ELSE created.minute - created.offset>> \o created.digits

\* Fault: events of one occurrence time are left as they are listed, newest first.
TimelineUntied(listing) ==
  StableSort(listing, LAMBDA a, b : Precedes(Collated(a), Collated(b)))

\* timeline: by occurrence text, then by receipt time.
Timeline(listing) ==
  StableSort(listing, LAMBDA a, b :
    \/ Precedes(Collated(a), Collated(b))
    \/ Collated(a) = Collated(b) /\ ReceivedAt(a) < ReceivedAt(b))

\* Fault: the events are taken as they are listed, newest first.
OutOfOrderAsListed(listing) ==
  {i \in 2..Len(listing) : Precedes(CodeUnits(listing[i]), CodeUnits(listing[i - 1]))}

\* detectOutOfOrderEvents: an event that occurred before the one received before it.
Received(listing) == StableSort(listing, LAMBDA a, b : ReceivedAt(a) < ReceivedAt(b))
OutOfOrder(listing) ==
  LET received == Received(listing) IN
  {i \in 2..Len(received) : Precedes(CodeUnits(received[i]), CodeUnits(received[i - 1]))}

\* findMissingOrderEvents, for one order of which all Types are expected.
Missing(o) == Types \ {events[id].payload.type : id \in EventsOf(<<1, o>>)}

Keys == {CorrelationKey(p) : p \in Payloads}

\* Receipt times tell the receipts apart, or the listing does.
Untied ==
  ~Durable \/ \A a, b \in Stored : a # b => ReceivedAt(a) # ReceivedAt(b)

\* The created_at texts of a key are all written in one precision and one zone.
OneFormat(key) ==
  \A a, b \in EventsOf(key) :
    /\ Len(Created(a).digits) = Len(Created(b).digits)
    /\ Created(a).zone = Created(b).zone /\ Created(a).offset = Created(b).offset

-----------------------------------------------------------------------------

\* A timeline holds every event of its key, ordered by time of occurrence and, for
\* one time, by receipt sequence, although it is sorted from a listing newest first.
SortedByOccurrence(key) ==
  \A listing \in Listings(EventsOf(key)) :
    LET line == Timeline(listing) IN
    /\ ToSet(line) = EventsOf(key) /\ Len(line) = Cardinality(EventsOf(key))
    /\ \A i, j \in DOMAIN line : i < j =>
         \/ Precedes(Instant(line[i]), Instant(line[j]))
         \/ /\ ~Precedes(Instant(line[j]), Instant(line[i]))
            /\ Receipt(line[i]) < Receipt(line[j])

\* Every timeline is in that order, as the README and ARCHITECTURE.md say
\* (event-store.ts:158).
SortsByOccurrence == \A key \in Keys : SortedByOccurrence(key)

\* It is if receipts can be told apart and the key's texts are of one format
\* (event-store.ts:158).
TimelineInOrder ==
  Untied => \A key \in Keys : OneFormat(key) => SortedByOccurrence(key)

\* Comparing neighbours is enough: if the key's texts are of one format, some delivery
\* is reported out of order if and only if, of some two events of the key, the later
\* received occurred first (event-store.ts:228).
InversionsFound ==
  Untied =>
    \A key \in Keys : OneFormat(key) =>
      \A listing \in Listings(EventsOf(key)) :
        OutOfOrder(listing) # {} <=>
          \E a, b \in EventsOf(key) :
            Receipt(a) < Receipt(b) /\ Precedes(Instant(b), Instant(a))

\* An event type is missing for an order exactly if no stored event of that type is
\* related to the order, whatever else its events are related to.
MissingIsAbsent ==
  \A o \in Entities : Missing(o) =
    {t \in Types : ~\E id \in Stored :
       events[id].payload.type = t /\ events[id].payload.related[1] = o}

\* What the tools report of the health of an order's events is true: what came out of
\* order, and what did not come (event-store.ts:60, 190, 228).
HealthReported == InversionsFound /\ MissingIsAbsent

=============================================================================
