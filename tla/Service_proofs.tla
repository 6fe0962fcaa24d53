--------------------------- MODULE Service_proofs ---------------------------
(***************************************************************************)
(* Three parts of a serving process: the event stream                      *)
(* (internal/server/events.go), the paged list of a scanner                *)
(* (internal/scanner/paging.go) and the report handlers with their cache   *)
(* over the store (internal/server, internal/store), for any subscribers,  *)
(* objects, scans, clusters and requests and any size of buffer, page and  *)
(* cache.                                                                  *)
(***************************************************************************)
EXTENDS EventBus, Listing, ReportService, FiniteSetTheorems, TLAPS

-----------------------------------------------------------------------------
(* The event bus. *)

\* A stream is closed when it is gone and off the list; one not yet opened is empty; and the
\* events of an open one are those published since it was opened.
StreamOK(q, n) ==
  /\ q.closed => q.pc = "gone" /\ ~q.listed
  /\ \A e \in q.lost : e <= n
  /\ q.pc = "open" => /\ q.listed /\ q.since <= n
                      /\ Ordered(q.sent \o q.buf, ((q.since + 1)..n) \ q.lost)
  /\ q.pc = "new" => ~q.listed /\ q.buf = << >> /\ q.sent = << >> /\ q.lost = {}

BusInv ==
  /\ BusTypeOK /\ ~panicked
  /\ \A s \in Subscribers : StreamOK(stream[s], published)

\* A sequence over a set is one over every larger set.
LEMMA SeqMonotone ==
  ASSUME NEW S, NEW T, S \subseteq T, NEW q \in Seq(S)
  PROVE  q \in Seq(T)
<1>1. Len(q) \in Nat /\ q \in [1..Len(q) -> T]
  OBVIOUS
<1> QED
  BY <1>1

\* The next event goes to the end of an ordered sequence of earlier ones.
LEMMA OrderedAppend ==
  ASSUME NEW all \in Seq(Nat), NEW lo \in Nat, NEW n \in Nat, lo <= n, NEW lost,
         Ordered(all, ((lo + 1)..n) \ lost), \A e \in lost : e <= n
  PROVE  /\ Ordered(Append(all, n + 1), ((lo + 1)..(n + 1)) \ lost)
         /\ Ordered(all, ((lo + 1)..(n + 1)) \ (lost \cup {n + 1}))
<1> DEFINE L == Len(all)
           more == Append(all, n + 1)
<1>1. /\ L \in Nat /\ Len(more) = L + 1 /\ more[L + 1] = n + 1
      /\ \A i \in 1..L : more[i] = all[i] /\ all[i] \in Nat
  OBVIOUS
<1>2. \A i \in 1..L : all[i] \in ((lo + 1)..n) \ lost
  BY DEF Ordered
<1>3. \A i \in 1..L : all[i] <= n
  BY <1>2
<1>4. n + 1 \notin lost
  OBVIOUS
<1> HIDE DEF L, more
<1>5. ASSUME NEW i \in 1..(L + 1), NEW j \in 1..(L + 1), i < j PROVE more[i] < more[j]
  <2>1. i \in 1..L
    BY <1>1, <1>5
  <2>2. CASE j \in 1..L
    BY <1>1, <1>5, <2>1, <2>2 DEF Ordered, L
  <2>3. CASE j = L + 1
    BY <1>1, <1>3, <2>1, <2>3
  <2> QED
    BY <1>1, <2>2, <2>3
<1>6. {more[i] : i \in 1..(L + 1)} = (((lo + 1)..n) \ lost) \cup {n + 1}
  <2>1. {more[i] : i \in 1..(L + 1)} = {all[i] : i \in 1..L} \cup {n + 1}
    <3>1. ASSUME NEW i \in 1..(L + 1) PROVE more[i] \in {all[k] : k \in 1..L} \cup {n + 1}
      <4>1. i \in 1..L \/ i = L + 1
        BY <1>1
      <4> QED
        BY <1>1, <4>1
    <3>2. ASSUME NEW k \in 1..L PROVE all[k] \in {more[i] : i \in 1..(L + 1)}
      <4>1. k \in 1..(L + 1) /\ more[k] = all[k]
        BY <1>1
      <4> QED
        BY <4>1
    <3>3. n + 1 \in {more[i] : i \in 1..(L + 1)}
      <4>1. L + 1 \in 1..(L + 1)
        BY <1>1
      <4> QED
        BY <1>1, <4>1
    <3> QED
      BY <3>1, <3>2, <3>3
  <2> QED
    BY <2>1 DEF Ordered, L
<1>7. /\ (((lo + 1)..n) \ lost) \cup {n + 1} = ((lo + 1)..(n + 1)) \ lost
      /\ ((lo + 1)..n) \ lost = ((lo + 1)..(n + 1)) \ (lost \cup {n + 1})
  BY <1>4
<1> QED
  BY <1>1, <1>5, <1>6, <1>7 DEF Ordered, more

\* Taking the head of the buffer to the end of what was sent changes neither the
\* order nor the events.
LEMMA TakeKeepsOrder ==
  ASSUME NEW S, NEW sent \in Seq(S), NEW buf \in Seq(S), buf # << >>
  PROVE  /\ Append(sent, Head(buf)) \o Tail(buf) = sent \o buf
         /\ Append(sent, Head(buf)) \in Seq(S) /\ Tail(buf) \in Seq(S) /\ Len(Tail(buf)) = Len(buf) - 1
OBVIOUS

\* A step that replaces one stream by a sound one.
LEMMA OneStream ==
  ASSUME BusInv, NEW s \in Subscribers, NEW q \in Streams, Len(q.buf) <= StreamBuffer,
         StreamOK(q, published), stream' = [stream EXCEPT ![s] = q], UNCHANGED <<published, panicked>>
  PROVE  BusInv'
<1>1. stream' \in [Subscribers -> Streams] /\ stream'[s] = q /\ \A t \in Subscribers \ {s} : stream'[t] = stream[t]
  BY DEF BusInv, BusTypeOK
<1>2. \A t \in Subscribers : Len(stream'[t].buf) <= StreamBuffer /\ StreamOK(stream'[t], published)
  BY <1>1 DEF BusInv, BusTypeOK
<1> QED
  BY <1>1, <1>2 DEF BusInv, BusTypeOK

\* The types of a stream's parts.
LEMMA StreamTypes ==
  ASSUME BusInv, NEW s \in Subscribers
  PROVE  /\ stream[s] \in Streams /\ stream[s].buf \in Seq(Events) /\ stream[s].sent \in Seq(Events)
         /\ stream[s].since \in 0..MaxEvents /\ stream[s].lost \in SUBSET Events
         /\ Len(stream[s].buf) \in Nat /\ Len(stream[s].buf) <= StreamBuffer
         /\ published \in Nat /\ StreamOK(stream[s], published)
<1>1. stream[s] \in Streams /\ Len(stream[s].buf) <= StreamBuffer /\ published \in 0..MaxEvents
  BY DEF BusInv, BusTypeOK
<1>2. stream[s].buf \in Seq(Events) /\ stream[s].sent \in Seq(Events) /\ stream[s].since \in 0..MaxEvents
      /\ stream[s].lost \in SUBSET Events
  BY <1>1 DEF Streams
<1> QED
  BY <1>1, <1>2, EventBusAssumption DEF BusInv

\* A stream is opened empty, and sees what is published from then on.
LEMMA subscribeInv ==
  ASSUME BusInv, NEW s \in Subscribers, subscribe(s)
  PROVE  BusInv'
<1> DEFINE q == [stream[s] EXCEPT !.pc = "open", !.listed = TRUE, !.since = published]
<1>1. stream[s].pc = "new" /\ UNCHANGED <<published, panicked>> /\ stream' = [stream EXCEPT ![s] = q]
  BY StreamTypes DEF subscribe, Streams
<1>2. ~stream[s].listed /\ stream[s].buf = << >> /\ stream[s].sent = << >> /\ stream[s].lost = {}
  BY <1>1, StreamTypes DEF StreamOK
<1>3. published \in 0..MaxEvents
  BY DEF BusInv, BusTypeOK
<1>4. /\ q \in Streams /\ q.pc = "open" /\ q.listed /\ q.since = published /\ q.buf = << >> /\ q.sent = << >>
      /\ q.lost = {} /\ q.closed = stream[s].closed
  BY <1>2, <1>3, StreamTypes DEF Streams
<1>5. ~q.closed
  BY <1>1, <1>4, StreamTypes DEF StreamOK
<1>6. Len(q.buf) = 0 /\ q.sent \o q.buf = << >>
  BY <1>4
<1>7. Ordered(<< >>, ((published + 1)..published) \ {})
  BY <1>3 DEF Ordered
<1> HIDE DEF q
<1>8. StreamOK(q, published) /\ Len(q.buf) <= StreamBuffer
  BY <1>3, <1>4, <1>5, <1>6, <1>7, EventBusAssumption DEF StreamOK
<1> QED
  BY <1>1, <1>4, <1>8, OneStream

\* The handler writes the oldest event of its buffer.
LEMMA writeSSEInv ==
  ASSUME BusInv, NEW s \in Subscribers, writeSSE(s)
  PROVE  BusInv'
<1> DEFINE o == stream[s]
           sent == Append(o.sent, Head(o.buf))
           q == [o EXCEPT !.sent = sent, !.buf = Tail(o.buf)]
<1>1. o.pc = "open" /\ o.buf # << >> /\ UNCHANGED <<published, panicked>> /\ stream' = [stream EXCEPT ![s] = q]
  BY StreamTypes DEF writeSSE, Streams
<1>2. /\ sent \o Tail(o.buf) = o.sent \o o.buf /\ sent \in Seq(Events) /\ Tail(o.buf) \in Seq(Events)
      /\ Len(Tail(o.buf)) = Len(o.buf) - 1
  BY <1>1, StreamTypes, TakeKeepsOrder
<1> HIDE DEF sent
<1>3. /\ q \in Streams /\ q.pc = "open" /\ q.listed = o.listed /\ q.closed = o.closed /\ q.since = o.since
      /\ q.lost = o.lost /\ q.sent = sent /\ q.buf = Tail(o.buf)
  BY <1>1, <1>2, StreamTypes DEF Streams
<1>4. Len(q.buf) <= StreamBuffer
  BY <1>2, <1>3, StreamTypes, EventBusAssumption
<1>5. StreamOK(q, published)
  BY <1>1, <1>2, <1>3, StreamTypes DEF StreamOK
<1> HIDE DEF q
<1> QED
  BY <1>1, <1>3, <1>4, <1>5, OneStream

\* A client that is gone leaves its stream listed until unsubscribe.
LEMMA DisconnectInv ==
  ASSUME BusInv, NEW s \in Subscribers, Disconnect(s)
  PROVE  BusInv'
<1> DEFINE q == [stream[s] EXCEPT !.pc = "leaving"]
<1>1. stream[s].pc = "open" /\ UNCHANGED <<published, panicked>> /\ stream' = [stream EXCEPT ![s] = q]
  BY StreamTypes DEF Disconnect, Streams
<1>2. /\ q \in Streams /\ q.pc = "leaving" /\ q.closed = stream[s].closed /\ q.buf = stream[s].buf
      /\ q.lost = stream[s].lost
  BY StreamTypes DEF Streams
<1> HIDE DEF q
<1>3. StreamOK(q, published) /\ Len(q.buf) <= StreamBuffer
  BY <1>1, <1>2, StreamTypes DEF StreamOK
<1> QED
  BY <1>1, <1>2, <1>3, OneStream

\* unsubscribe closes the channel only once it is off the list.
LEMMA unsubscribeInv ==
  ASSUME BusInv, NEW s \in Subscribers, unsubscribe(s)
  PROVE  BusInv'
<1> DEFINE q == Unsubscribed(stream[s])
<1>1. stream[s].pc = "leaving" /\ UNCHANGED <<published, panicked>> /\ stream' = [stream EXCEPT ![s] = q]
  BY StreamTypes DEF unsubscribe
<1>2. /\ q \in Streams /\ q.buf = stream[s].buf /\ q.lost = stream[s].lost /\ q.pc \in {"leaving", "gone"} /\ ~q.listed
      /\ q.closed => q.pc = "gone" \/ stream[s].closed
  BY <1>1, StreamTypes DEF Unsubscribed, Streams
<1> HIDE DEF q
<1>3. StreamOK(q, published) /\ Len(q.buf) <= StreamBuffer
  BY <1>1, <1>2, StreamTypes DEF StreamOK
<1> QED
  BY <1>1, <1>2, <1>3, OneStream

\* One stream of a publish: the event is taken or counted lost.
LEMMA DeliverOK ==
  ASSUME BusInv, NEW s \in Subscribers, published < MaxEvents
  PROVE  LET q == Deliver(stream[s], published + 1)
         IN  q \in Streams /\ Len(q.buf) <= StreamBuffer /\ StreamOK(q, published + 1)
<1> DEFINE o == stream[s]
           e == published + 1
           q == Deliver(o, e)
<1>1. e \in Events /\ published \in Nat /\ MaxEvents \in Nat
  BY StreamTypes, EventBusAssumption DEF Events
<1>2. /\ o \in Streams /\ o.buf \in Seq(Events) /\ o.sent \in Seq(Events) /\ o.since \in 0..MaxEvents
      /\ o.lost \in SUBSET Events /\ Len(o.buf) \in Nat /\ Len(o.buf) <= StreamBuffer /\ StreamOK(o, published)
  BY StreamTypes
<1>3. \A x \in o.lost : x <= e
  <2>1. \A x \in o.lost : x \in Nat /\ x <= published
    BY <1>2, EventBusAssumption DEF StreamOK, Events
  <2> QED
    BY <1>1, <2>1
<1> SUFFICES q \in Streams /\ Len(q.buf) <= StreamBuffer /\ StreamOK(q, e)
  OBVIOUS
<1> HIDE DEF o
<1>4. CASE ~o.listed
  <2>1. q = o
    BY <1>4 DEF Deliver
  <2> HIDE DEF q
  <2> QED
    BY <1>2, <1>3, <1>4, <2>1 DEF StreamOK
<1>5. ASSUME o.pc = "open"
      PROVE  /\ Ordered(o.sent \o Append(o.buf, e), ((o.since + 1)..e) \ o.lost)
             /\ Ordered(o.sent \o o.buf, ((o.since + 1)..e) \ (o.lost \cup {e}))
  <2> DEFINE all == o.sent \o o.buf
  <2>0. all \in Seq(Events)
    BY <1>2
  <2>1. o.sent \o Append(o.buf, e) = Append(all, e)
    <3>1. e \in Events /\ o.buf \in Seq(Events) /\ o.sent \in Seq(Events)
      BY <1>1, <1>2
    <3>2. \A x, y \in Seq(Events) : \A z \in Events : x \o Append(y, z) = Append(x \o y, z)
      OBVIOUS
    <3> HIDE DEF e
    <3> QED
      BY <3>1, <3>2, Zenon
  <2>2. Events \subseteq Nat /\ o.since \in Nat
    BY <1>2, EventBusAssumption DEF Events
  <2>3. all \in Seq(Nat)
    BY <2>0, <2>2, SeqMonotone
  <2>4. o.since <= published /\ Ordered(all, ((o.since + 1)..published) \ o.lost) /\ \A x \in o.lost : x <= published
    BY <1>2, <1>5 DEF StreamOK
  <2> HIDE DEF all
  <2>5. /\ Ordered(Append(all, e), ((o.since + 1)..e) \ o.lost)
        /\ Ordered(all, ((o.since + 1)..e) \ (o.lost \cup {e}))
    BY <1>1, <2>2, <2>3, <2>4, OrderedAppend
  <2> QED
    BY <2>1, <2>5 DEF all
<1>6. o.pc = "open" => o.listed /\ o.since <= e
  BY <1>1, <1>2 DEF StreamOK
<1>7. o.listed => ~o.closed /\ o.pc # "new"
  BY <1>2 DEF StreamOK
<1>8. CASE o.listed /\ Len(o.buf) < StreamBuffer
  <2>1. q = [o EXCEPT !.buf = Append(o.buf, e)]
    BY <1>2, <1>8 DEF Deliver, Streams
  <2>2. Append(o.buf, e) \in Seq(Events) /\ Len(Append(o.buf, e)) = Len(o.buf) + 1
    BY <1>1, <1>2
  <2>3. /\ q \in Streams /\ q.buf = Append(o.buf, e) /\ q.pc = o.pc /\ q.listed = o.listed /\ q.closed = o.closed
        /\ q.sent = o.sent /\ q.since = o.since /\ q.lost = o.lost
    BY <1>2, <2>1, <2>2 DEF Streams
  <2> HIDE DEF q
  <2>4. Len(q.buf) <= StreamBuffer
    BY <1>2, <1>8, <2>2, <2>3, EventBusAssumption
  <2>5. StreamOK(q, e)
    BY <1>3, <1>5, <1>6, <1>7, <1>8, <2>3 DEF StreamOK
  <2> QED
    BY <2>3, <2>4, <2>5
<1>9. CASE o.listed /\ ~(Len(o.buf) < StreamBuffer)
  <2>1. q = [o EXCEPT !.lost = o.lost \cup {e}]
    BY <1>2, <1>9 DEF Deliver, Streams
  <2>2. /\ q \in Streams /\ q.buf = o.buf /\ q.pc = o.pc /\ q.listed = o.listed /\ q.closed = o.closed
        /\ q.sent = o.sent /\ q.since = o.since /\ q.lost = o.lost \cup {e}
    BY <1>1, <1>2, <2>1 DEF Streams
  <2>3. \A x \in o.lost \cup {e} : x <= e
    BY <1>1, <1>3
  <2> HIDE DEF q
  <2>4. StreamOK(q, e)
    BY <1>5, <1>6, <1>7, <1>9, <2>2, <2>3 DEF StreamOK
  <2> QED
    BY <1>2, <2>2, <2>4
<1> QED
  BY <1>4, <1>8, <1>9

\* publish holds the lock, so a stream it finds on the list is not closed.
LEMMA publishInv ==
  ASSUME BusInv, publish
  PROVE  BusInv'
<1>1. /\ published < MaxEvents /\ published' = published + 1
      /\ stream' = [s \in Subscribers |-> Deliver(stream[s], published + 1)]
      /\ panicked' = (panicked \/ \E s \in Subscribers : stream[s].listed /\ stream[s].closed)
  BY DEF publish
<1>2. \A s \in Subscribers : ~(stream[s].listed /\ stream[s].closed)
  BY DEF BusInv, StreamOK
<1>3. ~panicked
  BY DEF BusInv
<1>4. panicked' = FALSE
  BY <1>1, <1>2, <1>3
<1>5. \A s \in Subscribers : /\ stream'[s] \in Streams /\ Len(stream'[s].buf) <= StreamBuffer
                             /\ StreamOK(stream'[s], published')
  BY <1>1, DeliverOK
<1>6. published' \in 0..MaxEvents
  BY <1>1, EventBusAssumption DEF BusInv, BusTypeOK
<1>7. stream' \in [Subscribers -> Streams]
  BY <1>1, <1>5
<1> QED
  BY <1>4, <1>5, <1>6, <1>7 DEF BusInv, BusTypeOK

\* The inductive invariant of the bus, whatever clients come and go.
THEOREM BusInvariant == BusSpec => []BusInv
<1>1. BusInit => BusInv
  <2> SUFFICES ASSUME BusInit PROVE BusInv
    OBVIOUS
  <2>1. published = 0 /\ stream = [s \in Subscribers |-> NewStream] /\ panicked = FALSE
    BY DEF BusInit
  <2>2. /\ NewStream \in Streams /\ NewStream.buf = << >> /\ NewStream.pc = "new" /\ NewStream.closed = FALSE
        /\ NewStream.listed = FALSE /\ NewStream.sent = << >> /\ NewStream.lost = {}
    BY EventBusAssumption DEF NewStream, Streams
  <2>3. Len(NewStream.buf) <= StreamBuffer /\ StreamOK(NewStream, 0)
    BY <2>2, EventBusAssumption DEF StreamOK
  <2>4. stream \in [Subscribers -> Streams] /\ \A s \in Subscribers : stream[s] = NewStream
    BY <2>1, <2>2
  <2>5. BusTypeOK
    <3>1. panicked \in BOOLEAN
      BY <2>1
    <3>2. published \in 0..MaxEvents
      BY <2>1, EventBusAssumption
    <3> QED
      BY <2>3, <2>4, <3>1, <3>2 DEF BusTypeOK
  <2> QED
    BY <2>1, <2>3, <2>4, <2>5 DEF BusInv
<1>2. BusInv /\ [BusNext]_busVars => BusInv'
  <2> SUFFICES ASSUME BusInv, [BusNext]_busVars PROVE BusInv'
    OBVIOUS
  <2>1. CASE BusNext
    BY <2>1, publishInv, subscribeInv, writeSSEInv, DisconnectInv, unsubscribeInv DEF BusNext
  <2>2. CASE UNCHANGED busVars
    BY <2>2 DEF busVars, BusInv, BusTypeOK
  <2> QED
    BY <2>1, <2>2
<1> QED
  BY <1>1, <1>2, PTL DEF BusSpec

\* publish never sends on a closed channel, and writeSSE sends a connected client
\* what was published since it came, in order, less what its buffer had no room for.
THEOREM Streaming == BusSpec => []StreamsFaithful
<1>1. BusInv => StreamsFaithful
  BY DEF BusInv, StreamOK, StreamsFaithful
<1> QED
  BY <1>1, BusInvariant, PTL

-----------------------------------------------------------------------------
(* The paged list. *)

\* What was appended is a part of the pinned content, each object once; without a
\* token nothing was appended yet; and the pinned content is one the server had.
ListInv ==
  /\ ListTypeOK /\ stored \in past /\ IsInjective(out)
  /\ listed = "paging" => IF token THEN pinned \in past /\ ToSet(out) \subseteq pinned ELSE out = << >>
  /\ listed = "ok" => ToSet(out) \in past

\* SetToSeq lists a finite set, each element once.
LEMMA ListsASet ==
  ASSUME NEW S, IsFiniteSet(S)
  PROVE  SetToSeq(S) \in Seq(S) /\ IsInjective(SetToSeq(S)) /\ ToSet(SetToSeq(S)) = S
<1> DEFINE n == Cardinality(S)
           f == SetToSeq(S)
<1>1. n \in Nat /\ ExistsBijection(1..n, S)
  BY FS_CardinalityType
<1>2. \E g \in [1..n -> S] : IsInjective(g)
  BY <1>1 DEF ExistsBijection, Bijection, Injection
<1>3. f \in [1..n -> S] /\ IsInjective(f)
  BY <1>2 DEF SetToSeq
<1> HIDE DEF f
<1>4. f \in Injection(1..n, S)
  BY <1>3 DEF Injection
<1>5. Cardinality(1..n) = n
  <2>1. Cardinality(1..n) = IF 1 > n THEN 0 ELSE n - 1 + 1
    BY <1>1, FS_Interval
  <2> HIDE DEF n
  <2> QED
    BY <1>1, <2>1
<1>6. f \in Surjection(1..n, S)
  BY <1>4, <1>5, FS_Injection
<1>7. f \in Seq(S) /\ DOMAIN f = 1..n
  <2> HIDE DEF n
  <2> QED
    BY <1>1, <1>3
<1>8. ToSet(f) = S
  BY <1>3, <1>6, <1>7 DEF ToSet, Surjection
<1> QED
  BY <1>3, <1>7, <1>8 DEF f

\* Two lists of different elements, one after the other.
LEMMA JoinedLists ==
  ASSUME NEW S, NEW a \in Seq(S), NEW b \in Seq(S), IsInjective(a), IsInjective(b),
         \A x \in ToSet(a) : x \notin ToSet(b)
  PROVE  /\ a \o b \in Seq(S) /\ IsInjective(a \o b) /\ ToSet(a \o b) = ToSet(a) \cup ToSet(b)
<1> DEFINE m == Len(a)
           n == Len(b)
           c == a \o b
<1>1. /\ m \in Nat /\ n \in Nat /\ DOMAIN a = 1..m /\ DOMAIN b = 1..n /\ DOMAIN c = 1..(m + n) /\ c \in Seq(S)
      /\ \A i \in 1..m : c[i] = a[i]
      /\ \A i \in (m + 1)..(m + n) : c[i] = b[i - m]
  OBVIOUS
<1> HIDE DEF m, n, c
<1>2. \A i \in 1..(m + n) : i \in 1..m \/ (i \in (m + 1)..(m + n) /\ i - m \in 1..n)
  BY <1>1
<1>3. ASSUME NEW i \in 1..(m + n), NEW j \in 1..(m + n), c[i] = c[j] PROVE i = j
  <2>1. CASE i \in 1..m /\ j \in 1..m
    BY <1>1, <1>3, <2>1 DEF IsInjective
  <2>2. CASE i \in (m + 1)..(m + n) /\ j \in (m + 1)..(m + n) /\ i - m \in 1..n /\ j - m \in 1..n
    <3>1. i - m = j - m
      BY <1>1, <1>3, <2>2 DEF IsInjective
    <3> QED
      BY <1>1, <2>2, <3>1
  <2>3. ASSUME NEW p \in 1..m, NEW q \in (m + 1)..(m + n), q - m \in 1..n, c[p] = c[q] PROVE FALSE
    <3>1. c[p] \in ToSet(a) /\ c[q] \in ToSet(b)
      BY <1>1, <2>3 DEF ToSet
    <3> QED
      BY <2>3, <3>1
  <2> QED
    BY <1>2, <1>3, <2>1, <2>2, <2>3
<1>4. ASSUME NEW i \in 1..(m + n) PROVE c[i] \in ToSet(a) \cup ToSet(b)
  BY <1>1, <1>2 DEF ToSet
<1>5. ASSUME NEW x \in ToSet(a) PROVE x \in ToSet(c)
  <2>1. PICK i \in 1..m : x = a[i]
    BY <1>1 DEF ToSet
  <2>2. i \in 1..(m + n) /\ c[i] = x
    BY <1>1, <2>1
  <2> QED
    BY <1>1, <2>2 DEF ToSet
<1>6. ASSUME NEW x \in ToSet(b) PROVE x \in ToSet(c)
  <2>1. PICK i \in 1..n : x = b[i]
    BY <1>1 DEF ToSet
  <2>2. i + m \in (m + 1)..(m + n) /\ (i + m) - m = i /\ i + m \in 1..(m + n)
    BY <1>1, <2>1
  <2>3. c[i + m] = x
    BY <1>1, <2>1, <2>2
  <2> QED
    BY <1>1, <2>2, <2>3 DEF ToSet
<1>7. IsInjective(c)
  BY <1>1, <1>3 DEF IsInjective
<1>8. ToSet(c) = ToSet(a) \cup ToSet(b)
  <2>1. \A x \in ToSet(c) : x \in ToSet(a) \cup ToSet(b)
    BY <1>1, <1>4 DEF ToSet
  <2> QED
    BY <1>5, <1>6, <2>1
<1> QED
  BY <1>1, <1>7, <1>8 DEF c

\* A list without repetition is as long as its set is large.
LEMMA LengthIsSize ==
  ASSUME NEW S, NEW q \in Seq(S), IsInjective(q)
  PROVE  Len(q) = Cardinality(ToSet(q))
<1>1. Len(q) \in Nat /\ DOMAIN q = 1..Len(q)
  OBVIOUS
<1>2. q \in [1..Len(q) -> ToSet(q)]
  BY <1>1 DEF ToSet
<1>3. q \in Bijection(1..Len(q), ToSet(q))
  BY <1>1, <1>2 DEF ToSet, Bijection, Injection, Surjection
<1> QED
  BY <1>1, <1>3, FS_CountingElements DEF ExistsBijection

\* A page is a part of what is left of the pinned content.
LEMMA PageInv ==
  ASSUME ListInv, Page
  PROVE  ListInv'
<1> DEFINE content == IF token THEN pinned ELSE stored
           left == content \ (IF token THEN ToSet(out) ELSE {})
<1>1. listed = "paging" /\ UNCHANGED <<stored, writes, past, restarted>>
  BY DEF Page
<1>2. PICK page \in SUBSET left :
        /\ out' = out \o SetToSeq(page) /\ pinned' = content /\ token' = (page # left)
        /\ listed' = IF page = left THEN "ok" ELSE "paging"
  BY DEF Page
<1>3. ListTypeOK /\ stored \in past /\ IsInjective(out) /\ out \in Seq(Items)
  BY DEF ListInv, ListTypeOK
<1>4. content \in past /\ content \subseteq Items /\ ToSet(out) \subseteq content /\ left = content \ ToSet(out)
  <2>1. CASE token
    BY <1>1, <2>1 DEF ListInv, ListTypeOK
  <2>2. CASE ~token
    <3>1. out = << >>
      BY <1>1, <2>2 DEF ListInv
    <3>2. ToSet(out) = {}
      BY <3>1 DEF ToSet
    <3> QED
      BY <2>2, <3>2 DEF ListInv, ListTypeOK
  <2> QED
    BY <2>1, <2>2
<1> HIDE DEF content, left
<1> DEFINE p == SetToSeq(page)
<1>5. p \in Seq(page) /\ IsInjective(p) /\ ToSet(p) = page
  <2>1. page \in SUBSET Items
    BY <1>4
  <2>2. IsFiniteSet(page)
    BY <2>1, ListingAssumption, FS_Subset
  <2> QED
    BY <2>2, ListsASet
<1> HIDE DEF p
<1>6. p \in Seq(Items)
  <2>1. page \subseteq Items
    BY <1>4
  <2> QED
    BY <1>5, <2>1, SeqMonotone
<1>7. out' \in Seq(Items) /\ IsInjective(out)' /\ ToSet(out)' = ToSet(out) \cup page
  <2>1. \A x \in ToSet(out) : x \notin ToSet(p)
    BY <1>4, <1>5
  <2>2. out \o p \in Seq(Items) /\ IsInjective(out \o p) /\ ToSet(out \o p) = ToSet(out) \cup ToSet(p)
    BY <1>3, <1>5, <1>6, <2>1, JoinedLists
  <2> QED
    BY <1>2, <1>5, <2>2 DEF p
<1>8. ListTypeOK'
  BY <1>1, <1>2, <1>3, <1>4, <1>7 DEF ListTypeOK
<1>9. ToSet(out)' \subseteq content /\ (page = left => ToSet(out)' = content)
  BY <1>4, <1>7
<1>10. CASE page = left
  BY <1>1, <1>2, <1>3, <1>4, <1>7, <1>8, <1>9, <1>10 DEF ListInv
<1>11. CASE page # left
  BY <1>1, <1>2, <1>3, <1>4, <1>7, <1>8, <1>9, <1>11 DEF ListInv
<1> QED
  BY <1>10, <1>11

\* The inductive invariant of the paged list, whatever the server's objects do.
THEOREM ListInvariant == ListSpec => []ListInv
<1>1. ListInit => ListInv
  <2> SUFFICES ASSUME ListInit PROVE ListInv
    OBVIOUS
  <2>1. IsInjective(<< >>) /\ << >> \in Seq(Items)
    BY DEF IsInjective
  <2>2. token \in BOOLEAN /\ restarted \in BOOLEAN /\ ~token
    BY DEF ListInit
  <2>3. writes \in 0..MaxWrites
    BY ListingAssumption DEF ListInit
  <2>4. /\ stored \subseteq Items /\ pinned \subseteq Items /\ past \subseteq SUBSET Items /\ stored \in past
        /\ out = << >> /\ listed = "paging"
    BY DEF ListInit
  <2> QED
    BY <2>1, <2>2, <2>3, <2>4 DEF ListInv, ListTypeOK
<1>2. ListInv /\ [ListNext]_listVars => ListInv'
  <2> SUFFICES ASSUME ListInv, [ListNext]_listVars PROVE ListInv'
    OBVIOUS
  <2>1. CASE Write
    <3>1. /\ writes < MaxWrites /\ writes' = writes + 1 /\ past' = past \cup {stored'}
          /\ UNCHANGED <<pinned, token, out, restarted, listed>>
      BY <2>1 DEF Write
    <3>2. stored' \subseteq Items
      BY <2>1 DEF Write, ListInv, ListTypeOK
    <3>3. writes' \in 0..MaxWrites
      BY <3>1, ListingAssumption DEF ListInv, ListTypeOK
    <3>4. ListTypeOK'
      BY <3>1, <3>2, <3>3 DEF ListInv, ListTypeOK
    <3> QED
      BY <3>1, <3>4 DEF ListInv, ToSet, IsInjective
  <2>2. CASE Page
    BY <2>2, PageInv
  <2>3. CASE StartOver
    <3>1. IsInjective(<< >>) /\ << >> \in Seq(Items)
      BY DEF IsInjective
    <3> QED
      BY <2>3, <3>1 DEF StartOver, Dropped, ListInv, ListTypeOK
  <2>4. CASE ListFails
    BY <2>4 DEF ListFails, ListInv, ListTypeOK, ToSet, IsInjective
  <2>5. CASE UNCHANGED listVars
    BY <2>5 DEF listVars, ListInv, ListTypeOK, ToSet, IsInjective
  <2> QED
    BY <2>1, <2>2, <2>3, <2>4, <2>5 DEF ListNext
<1> QED
  BY <1>1, <1>2, PTL DEF ListSpec

\* ListAll: a list that succeeds is what the server held at one moment of the call,
\* each object once, for any objects, page size, changes and a start over.
THEOREM Snapshot == ListSpec => []ListIsSnapshot
<1>1. ListInv => ListIsSnapshot
  BY LengthIsSize DEF ListInv, ListTypeOK, ListIsSnapshot
<1> QED
  BY <1>1, ListInvariant, PTL

-----------------------------------------------------------------------------
(* Stored scans and reports. *)

\* What a row of scans says, and what is stored with it.
Records == [id : ScanIDs, clusters : SUBSET Clusters]
ScanRows == [ts : 0..MaxSeconds, clusters : SUBSET Clusters, results : SUBSET Clusters]
CacheKeys == {cacheKey(id, opts) : id \in ScanIDs, opts \in Options}

\* A scan was saved, and unless it was pruned since, with these results.
Known(id, rs) == saved[id] # Absent /\ (scans[id] # Absent => rs = saved[id])

StoreInv ==
  /\ scans \in [ScanIDs -> ScanRows \cup {Absent}]
  /\ saved \in [ScanIDs -> (SUBSET Clusters) \cup {Absent}]
  /\ \A id \in ScanIDs : scans[id] # Absent => scans[id].results = saved[id] /\ saved[id] # Absent
  /\ IsFiniteSet({id \in ScanIDs : scans[id] # Absent})
  /\ tags \in [Clusters -> TagValues \cup {Absent}]
  /\ groups \in [Groups -> (SUBSET Names) \cup {Absent}]
  /\ edits \in 0..MaxEdits

\* The cache is sound, and each of its reports holds all results of its scan.
CacheInv ==
  /\ CacheSound /\ order \in Seq(CacheKeys)
  /\ \A k \in DOMAIN entries : entries[k] \in Reports /\ Known(entries[k].scan, entries[k].results)

RequestType ==
  [pc : {"idle", "tags", "groups", "load", "get", "insert", "answer", "done"}, kind : Kinds,
   list : Seq(Records), opts : Options, loaded : Seq(SUBSET Clusters), built : Seq(Reports)]

\* How far a request is, by where it stands: of the n scans of its list it has read
\* the results of l and has built b reports.
Progress(q, n, l, b) ==
  /\ q.pc \in {"tags", "groups"} => b = 0 /\ l = (IF q.kind.resultsFirst THEN 1 ELSE 0)
  /\ q.pc = "load" => b <= l /\ l < n /\ (IF q.kind.serial THEN b = l ELSE b = 0)
  /\ q.pc = "get" => b < l /\ l <= n /\ (IF q.kind.serial THEN l = b + 1 ELSE l = n)
  /\ q.pc = "insert" => b >= 1 /\ b <= l /\ l <= n /\ (IF q.kind.serial THEN l = b ELSE l = n)
  /\ q.pc = "answer" => b = n
  /\ q.pc \in {"tags", "groups", "load", "get", "insert"} => n >= 1 /\ (q.kind.resultsFirst => n = 1)
  /\ q.pc = "load" /\ q.kind.resultsFirst => l = 0 /\ b = 0

\* What it has read and built is of the scans of its list, with options of its key.
Faithful(q) ==
  /\ q \in RequestType
  /\ Len(q.loaded) <= Len(q.list) /\ Len(q.built) <= Len(q.list)
  /\ \A i \in 1..Len(q.list) : saved[q.list[i].id] # Absent
  /\ \A i \in 1..Len(q.loaded) : Known(q.list[i].id, q.loaded[i])
  /\ \A i \in 1..Len(q.built) :
       q.built[i].scan = q.list[i].id /\ optionsKey(q.built[i].opts) = optionsKey(q.opts) /\ Known(q.list[i].id, q.built[i].results)

RequestOK(q) == Faithful(q) /\ Progress(q, Len(q.list), Len(q.loaded), Len(q.built))

ReportInv ==
  /\ StoreInv /\ CacheInv
  /\ req \in [Requests -> RequestType] /\ \A r \in Requests : RequestOK(req[r])

\* The constants of the report service.
LEMMA ServiceConstants ==
  /\ \A id \in ScanIDs : id \in Nat
  /\ MaxSeconds \in Nat /\ MaxEdits \in Nat /\ ReportCacheSize \in Nat /\ ReportCacheSize >= 1
  /\ Absent \notin SUBSET Clusters /\ Absent \notin SUBSET Names /\ Absent \notin TagValues
  /\ Clusters \subseteq Names /\ Members \in SUBSET Names /\ Lists \subseteq SUBSET Names
BY ReportServiceAssumption

\* newestFirst lists a finite set of rows: no two have the same place, so every
\* place is some row's.
LEMMA NewestFirstLists ==
  ASSUME NEW S \in SUBSET Records, IsFiniteSet(S), \A a, b \in S : a.id = b.id => a = b,
         \A r \in S : timestamp(r) \in 0..MaxSeconds
  PROVE  newestFirst(S) \in Seq(S) /\ Len(newestFirst(S)) = Cardinality(S)
<1> DEFINE N == Cardinality(S)
           upTo(r) == {x \in S : x = r \/ newerFirst(x, r)}
           place == [r \in S |-> Cardinality(upTo(r))]
<1>1. N \in Nat
  BY FS_CardinalityType
<1>2. \A r \in S : timestamp(r) \in Nat /\ r.id \in Nat
  <2>1. ASSUME NEW r \in S PROVE timestamp(r) \in 0..MaxSeconds /\ r.id \in ScanIDs
    BY DEF Records
  <2> QED
    BY <2>1, ServiceConstants
<1>3. ASSUME NEW r \in S PROVE IsFiniteSet(upTo(r)) /\ Cardinality(upTo(r)) \in 1..N
  <2>1. upTo(r) \in SUBSET S /\ r \in upTo(r)
    OBVIOUS
  <2>2. IsFiniteSet(upTo(r)) /\ Cardinality(upTo(r)) <= N /\ Cardinality(upTo(r)) \in Nat
    BY <2>1, FS_Subset, FS_CardinalityType
  <2>3. Cardinality(upTo(r)) # 0
    BY <2>1, <2>2, FS_EmptySet
  <2> HIDE DEF upTo, N
  <2> QED
    BY <1>1, <2>2, <2>3
<1>4. ASSUME NEW a \in S, NEW b \in S, newerFirst(a, b) PROVE place[a] # place[b]
  <2>1. \A x \in S : newerFirst(x, a) => newerFirst(x, b)
    BY <1>2, <1>4 DEF newerFirst
  <2>2. ~newerFirst(b, a) /\ a # b
    BY <1>2, <1>4 DEF newerFirst
  <2>3. upTo(a) \in SUBSET upTo(b) /\ upTo(a) # upTo(b)
    <3>1. \A x \in upTo(a) : x \in upTo(b)
      BY <1>4, <2>1
    <3>2. b \in upTo(b) /\ b \notin upTo(a)
      BY <2>2
    <3> QED
      BY <3>1, <3>2
  <2> HIDE DEF upTo
  <2> QED
    BY <1>3, <2>3, FS_Subset
<1>5. ASSUME NEW a \in S, NEW b \in S, place[a] = place[b] PROVE a = b
  <2>1. a = b \/ newerFirst(a, b) \/ newerFirst(b, a)
    BY <1>2 DEF newerFirst
  <2> HIDE DEF place
  <2> QED
    BY <1>4, <1>5, <2>1
<1>6. place \in [S -> 1..N]
  BY <1>3
<1>7. place \in Injection(S, 1..N)
  BY <1>5, <1>6 DEF Injection, IsInjective
<1>8. IsFiniteSet(1..N) /\ Cardinality(1..N) = N
  <2>1. IsFiniteSet(1..N) /\ Cardinality(1..N) = IF 1 > N THEN 0 ELSE N - 1 + 1
    BY <1>1, FS_Interval
  <2> HIDE DEF N
  <2> QED
    BY <1>1, <2>1
<1>9. place \in Surjection(S, 1..N)
  <2> HIDE DEF place
  <2> QED
    BY <1>7, <1>8, FS_Injection
<1>10. \A n \in 1..N : \E r \in S : Cardinality(upTo(r)) = n
  BY <1>9 DEF Surjection
<1>11. \A n \in 1..N : (CHOOSE r \in S : Cardinality(upTo(r)) = n) \in S
  BY <1>10
<1>12. newestFirst(S) = [n \in 1..N |-> CHOOSE r \in S : Cardinality(upTo(r)) = n]
  BY DEF newestFirst
<1>13. newestFirst(S) \in [1..N -> S]
  <2> DEFINE pick(n) == CHOOSE r \in S : Cardinality(upTo(r)) = n
  <2>1. \A n \in 1..N : pick(n) \in S
    BY <1>11
  <2>2. newestFirst(S) = [n \in 1..N |-> pick(n)]
    BY <1>12
  <2> HIDE DEF pick, N
  <2> QED
    BY <2>1, <2>2
<1> HIDE DEF N
<1> QED
  BY <1>1, <1>13 DEF N

\* The key of a report names its scan and the key of its options.
LEMMA KeyTells ==
  ASSUME NEW i, NEW j, NEW a, NEW b, cacheKey(i, a) = cacheKey(j, b)
  PROVE  i = j /\ optionsKey(a) = optionsKey(b)
BY DEF cacheKey

\* The cache is sound when it is a bounded queue without duplicates whose reports
\* are kept under their own keys, in this state and in the next.
Queue == Len(order) <= ReportCacheSize /\ IsInjective(order) /\ Range(order) = DOMAIN entries
OwnKeys == \A k \in DOMAIN entries : \A rpt \in {entries[k]} : k = cacheKey(rpt.scan, rpt.opts)

LEMMA SoundNow == CacheSound <=> Queue /\ OwnKeys
BY DEF CacheSound, Queue, OwnKeys

LEMMA SoundNext == CacheSound' <=> Queue' /\ OwnKeys'
BY SoundNow, PTL

\* The rows of the store: finitely many, each with its own id, each saved.
LEMMA RowsOfStore ==
  ASSUME StoreInv
  PROVE  /\ Rows \in SUBSET Records /\ IsFiniteSet(Rows) /\ \A a, b \in Rows : a.id = b.id => a = b
         /\ \A r \in Rows : saved[r.id] # Absent /\ timestamp(r) \in 0..MaxSeconds
<1> DEFINE Ids == {id \in ScanIDs : scans[id] # Absent}
           f == [id \in Ids |-> scanRecord(id)]
<1>1. Rows = {scanRecord(id) : id \in Ids}
  BY DEF Rows
<1>2. ASSUME NEW id \in Ids
      PROVE  /\ scanRecord(id) \in Records /\ scanRecord(id).id = id /\ saved[id] # Absent
             /\ timestamp(scanRecord(id)) \in 0..MaxSeconds
  <2>1. scans[id] \in ScanRows /\ saved[id] # Absent
    BY DEF StoreInv
  <2>2. scans[id].ts \in 0..MaxSeconds /\ scans[id].clusters \in SUBSET Clusters
    BY <2>1 DEF ScanRows
  <2> QED
    BY <2>1, <2>2 DEF scanRecord, timestamp, Records
<1>3. f \in Surjection(Ids, Rows)
  BY <1>1 DEF Surjection
<1>4. IsFiniteSet(Ids)
  BY DEF StoreInv
<1>5. IsFiniteSet(Rows)
  <2> HIDE DEF f, Ids
  <2> QED
    BY <1>3, <1>4, FS_Surjection
<1> HIDE DEF Ids
<1> QED
  BY <1>1, <1>2, <1>5

\* A handler reads in one of the known ways, and one that reads the results before
\* the options reports on one scan.
EndpointOK(e) ==
  /\ e.kind \in Kinds /\ e.default \in Nat /\ e.ceiling \in Nat
  /\ e.kind.resultsFirst => e.default = 1 /\ e.ceiling = 1

\* Every handler is like that.
LEMMA Endpoints ==
  ASSUME NEW e \in ofNewestScans \cup ofNamedScan
  PROVE  EndpointOK(e)
<1>1. Own \in Kinds /\ [Own EXCEPT !.cached = TRUE] \in Kinds
  BY DEF Own, Kinds
<1>2. Latest \in Kinds /\ ~Latest.resultsFirst
  BY DEF Own, Latest, Kinds
<1>3. /\ [Latest EXCEPT !.threshold = "asked"] \in Kinds /\ [Latest EXCEPT !.cached = FALSE] \in Kinds
      /\ [Latest EXCEPT !.serial = TRUE] \in Kinds /\ ~[Latest EXCEPT !.serial = TRUE].resultsFirst
  BY <1>2 DEF Kinds
<1>4. \A k \in Kinds : EndpointOK(OneScan(k))
  BY DEF OneScan, Endpoint, EndpointOK
<1>5. \A k \in Kinds, d \in Nat, c \in Nat : ~k.resultsFirst => EndpointOK(Endpoint(k, d, c))
  BY DEF Endpoint, EndpointOK
<1>6. \A x \in UNION {handleGetClusterDetail, handleGetOutliers, handleGetCohorts, handleGetCapacity,
        handleGetDistributions, handleGetScoreAttribution, handleGetCohortMap, handleGetGeo, handleGetCost,
        whatIf, handleGetScanReport, handleGetScanSeal, latestReport} : EndpointOK(x)
  BY <1>1, <1>2, <1>3, <1>4 DEF handleGetClusterDetail, handleGetOutliers, handleGetCohorts, handleGetCapacity,
        handleGetDistributions, handleGetScoreAttribution, handleGetCohortMap, handleGetGeo, handleGetCost,
        whatIf, handleGetScanReport, handleGetScanSeal, latestReport
<1>7. \A x \in UNION {handleGetDistributionHistory, handleGetDrift, handleFindingsTimeline,
        handleFindingsPersistence, handleGetFleetScoreForecast, handleGetClusterForecasts} : EndpointOK(x)
  <2>1. EndpointOK(Endpoint(Latest, 24, 50)) /\ EndpointOK(Endpoint(Latest, 10, 50))
    BY <1>2, <1>5
  <2>2. EndpointOK(Serial(24, 60)) /\ EndpointOK(Serial(10, 0))
    BY <1>3, <1>5 DEF Serial
  <2> QED
    BY <2>1, <2>2 DEF handleGetDistributionHistory, handleGetDrift, handleFindingsTimeline,
        handleFindingsPersistence, handleGetFleetScoreForecast, handleGetClusterForecasts
<1> QED
  BY <1>6, <1>7 DEF ofNewestScans, ofNamedScan, ofLatestScan

\* A request that has not started, or has ended, has nothing.
LEMMA IdleOK ==
  /\ \A t \in {"default", "asked"} : [threshold |-> t, tags |-> << >>, groups |-> << >>] \in Options
  /\ Idle \in RequestType /\ RequestOK(Idle) /\ Done \in RequestType /\ RequestOK(Done)
<1>1. << >> \in [{} -> TagValues] /\ << >> \in [{} -> SUBSET Names]
  <2>1. << >> \in [1..0 -> TagValues] /\ << >> \in [1..0 -> SUBSET Names]
    OBVIOUS
  <2> QED
    BY <2>1
<1>2. \A t \in {"default", "asked"} : [threshold |-> t, tags |-> << >>, groups |-> << >>] \in Options
  <2>1. /\ << >> \in UNION {[D -> TagValues] : D \in SUBSET Clusters}
        /\ << >> \in UNION {[D -> SUBSET Names] : D \in SUBSET Groups}
    BY <1>1
  <2> QED
    BY <2>1 DEF Options
<1>3. NoOptions \in Options /\ Own \in Kinds
  BY <1>2 DEF NoOptions, Own, Kinds
<1>4. Idle \in RequestType
  BY <1>3 DEF Idle, RequestType
<1>5. Done \in RequestType /\ Done.pc = "done" /\ Done.list = << >> /\ Done.loaded = << >> /\ Done.built = << >>
  BY <1>4 DEF Done, RequestType, Idle
<1>6. Idle.pc = "idle" /\ Idle.list = << >> /\ Idle.loaded = << >> /\ Idle.built = << >>
  BY DEF Idle
<1>7. RequestOK(Idle)
  BY <1>4, <1>6 DEF RequestOK, Faithful, Progress
<1>8. RequestOK(Done)
  BY <1>5 DEF RequestOK, Faithful, Progress
<1> QED
  BY <1>2, <1>4, <1>5, <1>7, <1>8

\* A request starts on a list of stored scans.
LEMMA ReadingOK ==
  ASSUME StoreInv, NEW list \in Seq(Rows), Len(list) >= 1, NEW k \in Kinds, k.resultsFirst => Len(list) = 1
  PROVE  RequestOK(Reading(k, list))
<1> DEFINE q == Reading(k, list)
<1>1. list \in Seq(Records) /\ \A i \in 1..Len(list) : saved[list[i].id] # Absent
  <2>1. list \in Seq(Records)
    BY RowsOfStore, SeqMonotone
  <2>2. \A i \in 1..Len(list) : list[i] \in Rows
    OBVIOUS
  <2> QED
    BY <2>1, <2>2, RowsOfStore
<1>2. [Idle.opts EXCEPT !.threshold = k.threshold] \in Options
  <2>1. Idle.opts = [threshold |-> "default", tags |-> << >>, groups |-> << >>]
    BY DEF Idle, NoOptions
  <2>2. k.threshold \in {"default", "asked"}
    BY DEF Kinds
  <2>3. Idle.opts \in Options
    BY <2>1, IdleOK
  <2> QED
    BY <2>2, <2>3 DEF Options
<1>3. /\ q \in RequestType /\ q.pc = (IF k.resultsFirst THEN "load" ELSE "tags") /\ q.kind = k /\ q.list = list
      /\ q.loaded = << >> /\ q.built = << >>
  <2>1. Idle \in RequestType /\ Idle.loaded = << >> /\ Idle.built = << >>
    BY IdleOK DEF Idle
  <2> QED
    BY <1>1, <1>2, <2>1 DEF Reading, RequestType
<1> HIDE DEF q
<1>4. Len(q.list) \in Nat /\ Len(q.loaded) = 0 /\ Len(q.built) = 0 /\ Len(q.list) = Len(list)
  BY <1>1, <1>3
<1>5. Progress(q, Len(list), 0, 0)
  BY <1>1, <1>3 DEF Progress
<1>6. Len(q.loaded) <= Len(q.list) /\ Len(q.built) <= Len(q.list)
  BY <1>4
<1> QED
  BY <1>1, <1>3, <1>4, <1>5, <1>6 DEF RequestOK, Faithful, q

\* Saved scans do not change, and a scan that is still stored is the one saved.
Keeps == \A id \in ScanIDs : saved[id] # Absent =>
           saved'[id] = saved[id] /\ (scans'[id] # Absent => scans[id] # Absent)

\* What was known of a scan stays known.
LEMMA KnownStays ==
  ASSUME Keeps
  PROVE  /\ \A id \in ScanIDs : \A rs : Known(id, rs) => Known(id, rs)'
         /\ \A id \in ScanIDs : saved[id] # Absent => saved'[id] # Absent
BY DEF Keeps, Known

\* A request that stands still is as sound as it was.
LEMMA RequestStays ==
  ASSUME Keeps, NEW q, RequestOK(q)
  PROVE  RequestOK(q)'
<1>1. /\ q \in RequestType /\ Progress(q, Len(q.list), Len(q.loaded), Len(q.built))
      /\ Len(q.loaded) <= Len(q.list) /\ Len(q.built) <= Len(q.list)
      /\ \A i \in 1..Len(q.list) : saved[q.list[i].id] # Absent
      /\ \A i \in 1..Len(q.loaded) : Known(q.list[i].id, q.loaded[i])
      /\ \A i \in 1..Len(q.built) :
           q.built[i].scan = q.list[i].id /\ optionsKey(q.built[i].opts) = optionsKey(q.opts) /\ Known(q.list[i].id, q.built[i].results)
  BY DEF RequestOK, Faithful
<1>2. q.list \in Seq(Records) /\ q.loaded \in Seq(SUBSET Clusters) /\ q.built \in Seq(Reports)
  BY <1>1 DEF RequestType
<1>3. Len(q.list) \in Nat /\ Len(q.loaded) \in Nat /\ Len(q.built) \in Nat
  BY <1>2
<1>4. \A i \in 1..Len(q.list) : q.list[i].id \in ScanIDs
  <2>1. \A i \in 1..Len(q.list) : q.list[i] \in Records
    BY <1>2
  <2> QED
    BY <2>1 DEF Records
<1>5. \A i \in 1..Len(q.list) : saved'[q.list[i].id] # Absent
  BY <1>1, <1>4, KnownStays
<1>6. \A i \in 1..Len(q.loaded) : Known(q.list[i].id, q.loaded[i])'
  <2>1. \A i \in 1..Len(q.loaded) : i \in 1..Len(q.list)
    BY <1>1, <1>3
  <2> QED
    BY <1>1, <1>4, <2>1, KnownStays
<1>7. \A i \in 1..Len(q.built) : Known(q.list[i].id, q.built[i].results)'
  <2>1. \A i \in 1..Len(q.built) : i \in 1..Len(q.list)
    BY <1>1, <1>3
  <2> QED
    BY <1>1, <1>4, <2>1, KnownStays
<1> QED
  BY <1>1, <1>5, <1>6, <1>7 DEF RequestOK, Faithful

\* A step of the store: the cache and the requests stand still.
LEMMA StoreStep ==
  ASSUME ReportInv, Keeps, StoreInv', UNCHANGED <<entries, order, req>>
  PROVE  ReportInv'
<1>1. CacheInv'
  <2>1. \A k \in DOMAIN entries : entries[k] \in Reports /\ Known(entries[k].scan, entries[k].results)
    BY DEF ReportInv, CacheInv
  <2>2. \A k \in DOMAIN entries : entries[k].scan \in ScanIDs
    BY <2>1 DEF Reports
  <2>3. \A k \in DOMAIN entries : Known(entries[k].scan, entries[k].results)'
    BY <2>1, <2>2, KnownStays DEF Known
  <2>4. CacheSound'
    BY DEF ReportInv, CacheInv, CacheSound, IsInjective, Range
  <2> QED
    BY <2>1, <2>3, <2>4 DEF ReportInv, CacheInv
<1>2. ASSUME NEW r \in Requests PROVE RequestOK(req[r])'
  <2>1. RequestOK(req[r])
    BY DEF ReportInv
  <2> QED
    BY <2>1, RequestStays DEF RequestOK, Faithful, Known
<1> QED
  BY <1>1, <1>2 DEF ReportInv

\* A step of one request, which may change the cache.
LEMMA RequestMoves ==
  ASSUME ReportInv, NEW r \in Requests, NEW q, RequestOK(q), req' = [req EXCEPT ![r] = q],
         UNCHANGED <<scans, saved, tags, groups>>, edits' \in 0..MaxEdits, CacheInv'
  PROVE  ReportInv'
<1>1. StoreInv'
  BY DEF ReportInv, StoreInv
<1>2. req' \in [Requests -> RequestType] /\ req'[r] = q /\ \A s \in Requests \ {r} : req'[s] = req[s]
  BY DEF ReportInv, RequestOK, Faithful
<1>3. ASSUME NEW s \in Requests PROVE RequestOK(req[s])'
  <2>1. RequestOK(req'[s])
    BY <1>2 DEF ReportInv
  <2> QED
    BY <2>1 DEF RequestOK, Faithful, Known
<1> QED
  BY <1>1, <1>2, <1>3 DEF ReportInv

\* A step of one request that leaves the cache alone.
LEMMA OneRequest ==
  ASSUME ReportInv, NEW r \in Requests, NEW q, RequestOK(q), req' = [req EXCEPT ![r] = q],
         UNCHANGED <<scans, saved, tags, groups, entries, order>>, edits' \in 0..MaxEdits
  PROVE  ReportInv'
<1>1. CacheInv'
  BY DEF ReportInv, CacheInv, CacheSound, IsInjective, Range, Known
<1> QED
  BY <1>1, RequestMoves

\* The steps of the store.
LEMMA SaveInv ==
  ASSUME ReportInv, NEW id \in ScanIDs, NEW ts \in 0..MaxSeconds, NEW cs \in SUBSET Clusters, NEW rs \in SUBSET cs,
         SaveScanRecord(id, ts, cs, rs)
  PROVE  ReportInv'
<1> DEFINE row == [ts |-> ts, clusters |-> cs, results |-> rs]
<1>1. /\ scans[id] = Absent /\ saved[id] = Absent /\ scans' = [scans EXCEPT ![id] = row]
      /\ saved' = [saved EXCEPT ![id] = rs] /\ UNCHANGED <<tags, groups, edits, entries, order, req>>
  BY DEF SaveScanRecord
<1>2. row \in ScanRows /\ row.results = rs /\ rs \in SUBSET Clusters
  BY DEF ScanRows
<1>3. rs # Absent
  BY <1>2, ServiceConstants
<1> HIDE DEF row
<1>4. /\ scans \in [ScanIDs -> ScanRows \cup {Absent}] /\ saved \in [ScanIDs -> (SUBSET Clusters) \cup {Absent}]
      /\ IsFiniteSet({i \in ScanIDs : scans[i] # Absent})
      /\ \A i \in ScanIDs : scans[i] # Absent => scans[i].results = saved[i] /\ saved[i] # Absent
      /\ tags \in [Clusters -> TagValues \cup {Absent}]
      /\ groups \in [Groups -> (SUBSET Names) \cup {Absent}] /\ edits \in 0..MaxEdits
  BY DEF ReportInv, StoreInv
<1>5. /\ scans' \in [ScanIDs -> ScanRows \cup {Absent}] /\ saved' \in [ScanIDs -> (SUBSET Clusters) \cup {Absent}]
      /\ scans'[id] = row /\ saved'[id] = rs
      /\ \A i \in ScanIDs \ {id} : scans'[i] = scans[i] /\ saved'[i] = saved[i]
  BY <1>1, <1>2, <1>4
<1>6. IsFiniteSet({i \in ScanIDs : scans'[i] # Absent})
  <2>1. {i \in ScanIDs : scans'[i] # Absent} \in SUBSET ({i \in ScanIDs : scans[i] # Absent} \cup {id})
    BY <1>5
  <2> QED
    BY <1>4, <2>1, FS_AddElement, FS_Subset
<1>7. \A i \in ScanIDs : scans'[i] # Absent => scans'[i].results = saved'[i] /\ saved'[i] # Absent
  BY <1>2, <1>3, <1>4, <1>5
<1>8. StoreInv'
  BY <1>1, <1>4, <1>5, <1>6, <1>7 DEF StoreInv
<1>9. Keeps
  BY <1>1, <1>5 DEF Keeps
<1> QED
  BY <1>1, <1>8, <1>9, StoreStep

\* Prune: what is left is as it was.
LEMMA PruneInv ==
  ASSUME ReportInv, NEW cutoff, Prune(cutoff)
  PROVE  ReportInv'
<1>1. /\ scans' = [id \in ScanIDs |-> IF scans[id] # Absent /\ scans[id].ts < cutoff THEN Absent ELSE scans[id]]
      /\ UNCHANGED <<saved, tags, groups, edits, entries, order, req>>
  BY DEF Prune
<1>2. \A id \in ScanIDs : scans'[id] = scans[id] \/ scans'[id] = Absent
  BY <1>1
<1>3. scans' \in [ScanIDs -> ScanRows \cup {Absent}]
  BY <1>1 DEF ReportInv, StoreInv
<1>4. IsFiniteSet({i \in ScanIDs : scans'[i] # Absent})
  <2>1. {i \in ScanIDs : scans'[i] # Absent} \in SUBSET {i \in ScanIDs : scans[i] # Absent}
    BY <1>2
  <2> QED
    BY <2>1, FS_Subset DEF ReportInv, StoreInv
<1>5. StoreInv'
  BY <1>1, <1>2, <1>3, <1>4 DEF ReportInv, StoreInv
<1>6. Keeps
  BY <1>1, <1>2 DEF Keeps
<1> QED
  BY <1>1, <1>5, <1>6, StoreStep

\* Edits of tags and groups concern no stored scan.
LEMMA EditsInv ==
  ASSUME ReportInv, Edits
  PROVE  ReportInv'
<1>1. Keeps /\ UNCHANGED <<scans, saved, entries, order, req>>
  BY DEF Edits, SetClusterTag, DeleteClusterTag, SaveGroup, DeleteGroup, AddClusterToGroup,
         RemoveClusterFromGroup, Keeps
<1>2. edits' \in 0..MaxEdits
  <2>1. edits < MaxEdits /\ edits' = edits + 1
    BY DEF Edits, SetClusterTag, DeleteClusterTag, SaveGroup, DeleteGroup, AddClusterToGroup,
           RemoveClusterFromGroup, Edit
  <2> QED
    BY <2>1, ServiceConstants DEF ReportInv, StoreInv
<1>3. tags' \in [Clusters -> TagValues \cup {Absent}]
  BY DEF Edits, SetClusterTag, DeleteClusterTag, SaveGroup, DeleteGroup, AddClusterToGroup, RemoveClusterFromGroup,
         ReportInv, StoreInv
<1>4. groups' \in [Groups -> (SUBSET Names) \cup {Absent}]
  BY ServiceConstants
     DEF Edits, SetClusterTag, DeleteClusterTag, SaveGroup, DeleteGroup, AddClusterToGroup, RemoveClusterFromGroup,
         ReportInv, StoreInv
<1>5. StoreInv'
  BY <1>1, <1>2, <1>3, <1>4 DEF ReportInv, StoreInv
<1> QED
  BY <1>1, <1>5, StoreStep

\* Parts of a request, and its lengths.
LEMMA Parts ==
  ASSUME NEW q \in RequestType
  PROVE  /\ q.kind \in Kinds /\ q.list \in Seq(Records) /\ q.opts \in Options
         /\ q.loaded \in Seq(SUBSET Clusters) /\ q.built \in Seq(Reports)
         /\ Len(q.list) \in Nat /\ Len(q.loaded) \in Nat /\ Len(q.built) \in Nat
         /\ \A i \in 1..Len(q.list) : q.list[i].id \in ScanIDs
<1>1. q.kind \in Kinds /\ q.list \in Seq(Records) /\ q.opts \in Options /\ q.loaded \in Seq(SUBSET Clusters)
      /\ q.built \in Seq(Reports)
  BY DEF RequestType
<1>2. \A i \in 1..Len(q.list) : q.list[i] \in Records
  BY <1>1
<1>3. \A i \in 1..Len(q.list) : q.list[i].id \in ScanIDs
  BY <1>2 DEF Records
<1> QED
  BY <1>1, <1>3

\* The first elements of a list, and a list read backwards, are lists of the same set.
LEMMA SubLists ==
  ASSUME NEW S, NEW s \in Seq(S), NEW n \in Nat
  PROVE  LET m == IF Len(s) < n THEN Len(s) ELSE n
         IN  /\ SubSeq(s, 1, m) \in Seq(S) /\ Len(SubSeq(s, 1, m)) <= n
             /\ Reverse(SubSeq(s, 1, m)) \in Seq(S) /\ Len(Reverse(SubSeq(s, 1, m))) = Len(SubSeq(s, 1, m))
<1> DEFINE m == IF Len(s) < n THEN Len(s) ELSE n
           t == SubSeq(s, 1, m)
<1>1. Len(s) \in Nat /\ m \in 0..Len(s) /\ m <= n
  OBVIOUS
<1> HIDE DEF m
<1>2. t \in Seq(S) /\ Len(t) = m
  BY <1>1
<1> HIDE DEF t
<1>3. \A i \in 1..m : m - i + 1 \in 1..m
  BY <1>1
<1>4. m \in Nat /\ \A i \in 1..m : t[m - i + 1] \in S
  BY <1>1, <1>2, <1>3
<1>5. Reverse(t) = [i \in 1..m |-> t[m - i + 1]]
  BY <1>2 DEF Reverse
<1>6. Reverse(t) \in [1..m -> S]
  BY <1>4, <1>5
<1>7. Reverse(t) \in Seq(S) /\ Len(Reverse(t)) = m
  BY <1>4, <1>6
<1>8. t \in Seq(S) /\ Len(t) <= n /\ Reverse(t) \in Seq(S) /\ Len(Reverse(t)) = Len(t)
  BY <1>1, <1>2, <1>7
<1> QED
  BY <1>8 DEF t, m

\* A window of the newest scans.
LEMMA StartListInv ==
  ASSUME ReportInv, NEW r \in Requests, NEW e \in ofNewestScans, NEW asked \in 0..1, StartList(r, e, asked)
  PROVE  ReportInv'
<1> DEFINE n == queryLimit(asked, e)
           all == newestFirst(Rows)
           list == Reverse(ListScans(n))
<1>1. /\ list # << >> /\ req' = [req EXCEPT ![r] = Reading(e.kind, list)]
      /\ UNCHANGED <<scans, saved, tags, groups, edits, entries, order>>
  BY DEF StartList, store, rows
<1>2. EndpointOK(e)
  BY Endpoints
<1>3. n \in Nat /\ (e.kind.resultsFirst => n = 1) /\ e.kind \in Kinds
  BY <1>2 DEF EndpointOK, queryLimit
<1>4. StoreInv /\ edits \in 0..MaxEdits
  BY DEF ReportInv, StoreInv
<1>5. all \in Seq(Rows)
  BY <1>4, RowsOfStore, NewestFirstLists
<1> HIDE DEF n, all
<1>6. list \in Seq(Rows) /\ Len(list) <= n
  BY <1>3, <1>5, SubLists DEF ListScans, all
<1> HIDE DEF list
<1>7. Len(list) >= 1 /\ (e.kind.resultsFirst => Len(list) = 1)
  <2>1. Len(list) \in Nat /\ Len(list) # 0
    BY <1>1, <1>6
  <2>2. n = 1 => Len(list) = 1
    <3>1. \A m \in Nat : m # 0 /\ m <= 1 => m = 1
      OBVIOUS
    <3> QED
      BY <1>6, <2>1, <3>1, Zenon
  <2>3. Len(list) >= 1
    BY <2>1
  <2> QED
    BY <1>3, <2>2, <2>3, Zenon
<1>8. RequestOK(Reading(e.kind, list))
  BY <1>3, <1>4, <1>6, <1>7, ReadingOK
<1> QED
  BY <1>1, <1>4, <1>8, OneRequest

\* A scan by its id.
LEMMA StartScanInv ==
  ASSUME ReportInv, NEW r \in Requests, NEW e \in ofNamedScan, NEW id \in ScanIDs, StartScan(r, e, id)
  PROVE  ReportInv'
<1> DEFINE list == <<scanRecord(id)>>
<1>1. /\ scans[id] # Absent /\ req' = [req EXCEPT ![r] = Reading(e.kind, list)]
      /\ UNCHANGED <<scans, saved, tags, groups, edits, entries, order>>
  BY DEF StartScan, store, rows
<1>2. scanRecord(id) \in Rows
  BY <1>1 DEF Rows
<1>3. list \in Seq(Rows) /\ Len(list) = 1
  BY <1>2
<1> HIDE DEF list
<1>4. StoreInv /\ edits \in 0..MaxEdits /\ e.kind \in Kinds
  BY Endpoints DEF ReportInv, StoreInv, EndpointOK
<1>5. Len(list) >= 1 /\ (e.kind.resultsFirst => Len(list) = 1)
  BY <1>3
<1>6. RequestOK(Reading(e.kind, list))
  BY <1>3, <1>4, <1>5, ReadingOK
<1> QED
  BY <1>1, <1>4, <1>6, OneRequest

\* A range of time.
LEMMA StartRangeInv ==
  ASSUME ReportInv, NEW r \in Requests, NEW since \in 0..MaxSeconds, NEW until \in 0..MaxSeconds,
         StartRange(r, since, until, 1)
  PROVE  ReportInv'
<1> DEFINE found == GetScansByTimeRange(since, until, 0)
           kept == SubSeq(found, 1, IF Len(found) < 1 THEN Len(found) ELSE 1)
           list == Reverse(kept)
<1>1. /\ kept # << >> /\ req' = [req EXCEPT ![r] = Reading(Latest, list)]
      /\ UNCHANGED <<scans, saved, tags, groups, edits, entries, order>>
  BY DEF StartRange, store, rows
<1>2. StoreInv /\ edits \in 0..MaxEdits
  BY DEF ReportInv, StoreInv
<1>3. found \in Seq(Rows)
  <2> DEFINE lo == since + 0
             hi == until + 0
             S == {x \in Rows : timestamp(x) >= lo /\ (timestamp(x) < hi \/ (timestamp(x) = hi /\ 0 = 0))}
  <2>1. found = newestFirst(S) /\ S \in SUBSET Rows
    BY DEF GetScansByTimeRange
  <2> HIDE DEF S, found
  <2>2. /\ S \in SUBSET Records /\ IsFiniteSet(S) /\ \A a, b \in S : a.id = b.id => a = b
        /\ \A x \in S : timestamp(x) \in 0..MaxSeconds
    BY <1>2, <2>1, RowsOfStore, FS_Subset
  <2>3. found \in Seq(S)
    BY <2>1, <2>2, NewestFirstLists
  <2> QED
    BY <2>1, <2>3, SeqMonotone
<1> HIDE DEF found
<1>4. kept \in Seq(Rows) /\ list \in Seq(Rows) /\ Len(list) = Len(kept)
  BY <1>3, SubLists
<1> HIDE DEF kept, list
<1>5. Len(list) >= 1
  BY <1>1, <1>4
<1>6. Latest \in Kinds /\ ~Latest.resultsFirst
  BY DEF Own, Latest, Kinds
<1>7. RequestOK(Reading(Latest, list))
  BY <1>2, <1>4, <1>5, <1>6, ReadingOK
<1> QED
  BY <1>1, <1>2, <1>7, OneRequest

\* Once report i of its list is there, a request goes on as it should.
LEMMA GoesOnOK ==
  ASSUME NEW q, Faithful(q), NEW i \in Nat, Len(q.built) = i, Len(q.list) >= 1,
         q.kind.resultsFirst => Len(q.list) = 1,
         Len(q.loaded) = IF q.kind.serial THEN i ELSE Len(q.list)
  PROVE  RequestOK(GoesOn(q, i))
<1> DEFINE t == GoesOn(q, i)
           n == Len(q.list)
<1>1. q \in RequestType
  BY DEF Faithful
<1>2. n \in Nat /\ i <= n /\ q.kind \in Kinds /\ q.kind.serial \in BOOLEAN /\ q.kind.resultsFirst \in BOOLEAN
  <2>1. n \in Nat /\ q.kind \in Kinds
    BY <1>1, Parts
  <2>2. q.kind.serial \in BOOLEAN /\ q.kind.resultsFirst \in BOOLEAN
    BY <2>1 DEF Kinds
  <2>3. i <= n
    BY DEF Faithful
  <2> QED
    BY <2>1, <2>2, <2>3
<1>3. CASE i = n
  <2>1. t = [q EXCEPT !.pc = "answer", !.kind = Own, !.loaded = << >>]
    BY <1>3 DEF GoesOn
  <2>2. Own \in Kinds /\ << >> \in Seq(SUBSET Clusters)
    BY DEF Own, Kinds
  <2>3. /\ t \in RequestType /\ t.pc = "answer" /\ t.list = q.list /\ t.opts = q.opts /\ t.built = q.built
        /\ t.loaded = << >>
    BY <1>1, <2>1, <2>2 DEF RequestType
  <2> HIDE DEF t
  <2>4. Len(t.loaded) = 0 /\ Len(t.list) = n /\ Len(t.built) = n
    BY <1>3, <2>3
  <2>5. Progress(t, n, 0, n)
    BY <2>3 DEF Progress
  <2>6. Faithful(t)
    BY <1>2, <2>3, <2>4 DEF Faithful
  <2> QED
    BY <2>4, <2>5, <2>6 DEF RequestOK, t
<1>4. CASE i # n
  <2> DEFINE p == IF q.kind.serial THEN "load" ELSE "get"
  <2>1. t = [q EXCEPT !.pc = p]
    BY <1>4 DEF GoesOn
  <2>2. p \in {"load", "get"}
    OBVIOUS
  <2>3. /\ t \in RequestType /\ t.pc = p /\ t.list = q.list /\ t.opts = q.opts /\ t.built = q.built
        /\ t.loaded = q.loaded /\ t.kind = q.kind
    BY <1>1, <2>1, <2>2 DEF RequestType
  <2> HIDE DEF t
  <2>4. Faithful(t)
    BY <2>3 DEF Faithful
  <2>5. Progress(t, n, Len(q.loaded), i)
    <3>1. CASE q.kind.serial
      <4>1. t.pc = "load" /\ Len(q.loaded) = i /\ i < n /\ t.kind.serial
        BY <1>2, <1>4, <2>3, <3>1
      <4>2. q.kind.resultsFirst => i = 0
        <5>1. q.kind.resultsFirst => n = 1
          BY Zenon
        <5>2. n = 1 => i = 0
          BY <1>2, <4>1
        <5> QED
          BY <5>1, <5>2, Zenon
      <4> QED
        BY <1>2, <2>3, <4>1, <4>2 DEF Progress
    <3>2. CASE ~q.kind.serial
      <4>1. t.pc = "get" /\ Len(q.loaded) = n /\ i < n /\ ~t.kind.serial
        BY <1>2, <1>4, <2>3, <3>2
      <4> QED
        BY <1>2, <2>3, <4>1 DEF Progress
    <3> QED
      BY <3>1, <3>2
  <2> QED
    BY <2>3, <2>4, <2>5 DEF RequestOK, t
<1> QED
  BY <1>3, <1>4

\* A query that fails counts as an edit.
LEMMA QueryBound ==
  ASSUME ReportInv, NEW ok \in BOOLEAN, Query(ok)
  PROVE  edits' \in 0..MaxEdits
<1>1. edits \in 0..MaxEdits
  BY DEF ReportInv, StoreInv
<1> QED
  BY <1>1, ServiceConstants DEF Query, Edit

\* Options before a report is built: the request is still sound with other ones.
LEMMA NewOptions ==
  ASSUME NEW q, RequestOK(q), NEW t \in RequestType, t.list = q.list, t.loaded = q.loaded, t.built = q.built,
         t.kind = q.kind, Len(q.built) = 0, Progress(t, Len(q.list), Len(q.loaded), 0)
  PROVE  RequestOK(t)
<1>1. /\ Len(q.loaded) <= Len(q.list) /\ Len(q.built) <= Len(q.list)
      /\ \A i \in 1..Len(q.list) : saved[q.list[i].id] # Absent
      /\ \A i \in 1..Len(q.loaded) : Known(q.list[i].id, q.loaded[i])
  BY DEF RequestOK, Faithful
<1>2. \A i \in 1..Len(t.built) : FALSE
  OBVIOUS
<1>3. Faithful(t)
  BY <1>1, <1>2 DEF Faithful
<1> QED
  BY <1>3 DEF RequestOK

\* The tags are read; no report was built yet.
LEMMA ReadTagsInv ==
  ASSUME ReportInv, NEW r \in Requests, NEW ok \in BOOLEAN, ReadTags(r, ok)
  PROVE  ReportInv'
<1> DEFINE q == req[r]
           m == IF ok THEN TagMap ELSE << >>
<1>1. PICK t : t = [q EXCEPT !.pc = "groups", !.opts.tags = m]
  OBVIOUS
<1>2. /\ q.pc = "tags" /\ req' = [req EXCEPT ![r] = t] /\ Query(ok)
      /\ UNCHANGED <<scans, saved, tags, groups, entries, order>>
  BY <1>1 DEF ReadTags, rows
<1>3. q \in RequestType /\ RequestOK(q)
  BY DEF ReportInv
<1>4. m \in UNION {[D -> TagValues] : D \in SUBSET Clusters}
  <2>1. TagMap \in [projectCohortTags -> TagValues]
    <3>1. tags \in [Clusters -> TagValues \cup {Absent}]
      BY DEF ReportInv, StoreInv
    <3> QED
      BY <3>1 DEF TagMap, projectCohortTags
  <2>2. projectCohortTags \in SUBSET Clusters
    BY DEF projectCohortTags
  <2>3. << >> \in UNION {[D -> TagValues] : D \in SUBSET Clusters}
    BY IdleOK DEF Options
  <2> QED
    BY <2>1, <2>2, <2>3
<1> HIDE DEF m, q
<1>5. q.opts \in Options /\ [q.opts EXCEPT !.tags = m] \in Options
  <2>1. q.opts \in Options
    BY <1>3, Parts
  <2> QED
    BY <1>4, <2>1 DEF Options
<1>6. /\ t \in RequestType /\ t.pc = "groups" /\ t.kind = q.kind /\ t.list = q.list /\ t.loaded = q.loaded
      /\ t.built = q.built
  BY <1>1, <1>3, <1>5 DEF RequestType
<1>7. Len(q.built) = 0 /\ Progress(t, Len(q.list), Len(q.loaded), 0)
  <2>1. Progress(q, Len(q.list), Len(q.loaded), Len(q.built))
    BY <1>3 DEF RequestOK
  <2> QED
    BY <1>2, <1>6, <2>1 DEF Progress, q
<1>8. RequestOK(t)
  BY <1>3, <1>6, <1>7, NewOptions
<1>9. edits' \in 0..MaxEdits
  BY <1>2, QueryBound
<1> QED
  BY <1>2, <1>8, <1>9, OneRequest

\* The groups are read; the request goes on to the results or to its report.
LEMMA ReadGroupsInv ==
  ASSUME ReportInv, NEW r \in Requests, NEW ok \in BOOLEAN, ReadGroups(r, ok)
  PROVE  ReportInv'
<1> DEFINE q == req[r]
           m == IF ok THEN ListGroups ELSE << >>
           p == IF q.kind.resultsFirst THEN "get" ELSE "load"
<1>1. PICK t : t = [q EXCEPT !.pc = p, !.opts.groups = m]
  OBVIOUS
<1>2. /\ q.pc = "groups" /\ req' = [req EXCEPT ![r] = t] /\ Query(ok)
      /\ UNCHANGED <<scans, saved, tags, groups, entries, order>>
  BY <1>1 DEF ReadGroups, rows
<1>3. q \in RequestType /\ RequestOK(q)
  BY DEF ReportInv
<1>4. m \in UNION {[D -> SUBSET Names] : D \in SUBSET Groups}
  <2> DEFINE There == {h \in Groups : groups[h] # Absent}
  <2>1. ListGroups \in [There -> SUBSET Names]
    <3>1. groups \in [Groups -> (SUBSET Names) \cup {Absent}]
      BY DEF ReportInv, StoreInv
    <3>2. \A g \in There : groups[g] \in SUBSET Names
      BY <3>1
    <3> QED
      BY <3>2 DEF ListGroups
  <2>2. There \in SUBSET Groups
    OBVIOUS
  <2>3. << >> \in UNION {[D -> SUBSET Names] : D \in SUBSET Groups}
    BY IdleOK DEF Options
  <2> HIDE DEF There
  <2> QED
    BY <2>1, <2>2, <2>3
<1>5. p = (IF q.kind.resultsFirst THEN "get" ELSE "load") /\ p \in {"get", "load"}
  OBVIOUS
<1> HIDE DEF m, q, p
<1>6. q.opts \in Options /\ [q.opts EXCEPT !.groups = m] \in Options
  <2>1. q.opts \in Options
    BY <1>3, Parts
  <2> QED
    BY <1>4, <2>1 DEF Options
<1>7. /\ t \in RequestType /\ t.pc = p /\ t.kind = q.kind /\ t.list = q.list /\ t.loaded = q.loaded
      /\ t.built = q.built
  BY <1>1, <1>3, <1>5, <1>6 DEF RequestType
<1>8. Len(q.built) = 0 /\ Progress(t, Len(q.list), Len(q.loaded), 0)
  <2>1. Progress(q, Len(q.list), Len(q.loaded), Len(q.built)) /\ Len(q.list) \in Nat
    BY <1>3, Parts DEF RequestOK
  <2>2. /\ Len(q.built) = 0 /\ Len(q.loaded) = (IF q.kind.resultsFirst THEN 1 ELSE 0)
        /\ Len(q.list) >= 1 /\ (q.kind.resultsFirst => Len(q.list) = 1)
    BY <1>2, <2>1 DEF Progress
  <2>3. CASE q.kind.resultsFirst
    BY <1>5, <1>7, <2>1, <2>2, <2>3 DEF Progress
  <2>4. CASE ~q.kind.resultsFirst
    BY <1>5, <1>7, <2>1, <2>2, <2>4 DEF Progress
  <2> QED
    BY <2>2, <2>3, <2>4
<1>9. RequestOK(t)
  BY <1>3, <1>7, <1>8, NewOptions
<1>10. edits' \in 0..MaxEdits
  BY <1>2, QueryBound
<1> QED
  BY <1>2, <1>9, <1>10, OneRequest

\* The results of a scan that was saved are known.
LEMMA LoadResultsInv ==
  ASSUME ReportInv, NEW r \in Requests, LoadResults(r)
  PROVE  ReportInv'
<1> DEFINE q == req[r]
           n == Len(q.list)
           l == Len(q.loaded)
           b == Len(q.built)
           res == GetScanResults(q.list[l + 1].id)
           p == IF q.kind.resultsFirst THEN "tags"
                ELSE IF l + 1 < n /\ ~q.kind.serial THEN "load" ELSE "get"
<1>1. PICK t : t = [q EXCEPT !.loaded = Append(q.loaded, res), !.pc = p]
  OBVIOUS
<1>2. /\ q.pc = "load" /\ req' = [req EXCEPT ![r] = t]
      /\ UNCHANGED <<scans, saved, tags, groups, edits, entries, order>>
  BY <1>1 DEF LoadResults, rows, store
<1>3. q \in RequestType /\ RequestOK(q) /\ edits \in 0..MaxEdits
  BY DEF ReportInv, StoreInv
<1>4. /\ n \in Nat /\ l \in Nat /\ b \in Nat /\ q.kind \in Kinds /\ q.loaded \in Seq(SUBSET Clusters)
      /\ \A i \in 1..n : q.list[i].id \in ScanIDs
  BY <1>3, Parts
<1>5. /\ b <= l /\ l < n /\ (IF q.kind.serial THEN b = l ELSE b = 0)
      /\ (q.kind.resultsFirst => n = 1) /\ (q.kind.resultsFirst => l = 0 /\ b = 0)
  BY <1>2, <1>3 DEF RequestOK, Progress
<1>6. l + 1 \in 1..n /\ n >= 1
  BY <1>4, <1>5
<1>7. res \in SUBSET Clusters /\ Known(q.list[l + 1].id, res)
  <2>1. PICK id : id = q.list[l + 1].id
    OBVIOUS
  <2>2. id \in ScanIDs /\ saved[id] # Absent
    BY <1>3, <1>4, <1>6, <2>1 DEF RequestOK, Faithful
  <2>3. /\ scans \in [ScanIDs -> ScanRows \cup {Absent}]
        /\ scans[id] # Absent => scans[id].results = saved[id]
    BY <2>2 DEF ReportInv, StoreInv
  <2>4. scans[id] # Absent => scans[id].results \in SUBSET Clusters
    BY <2>2, <2>3 DEF ScanRows
  <2> HIDE DEF q, l
  <2> QED
    BY <2>1, <2>2, <2>3, <2>4 DEF GetScanResults, Known
<1>8. p = (IF q.kind.resultsFirst THEN "tags" ELSE IF l + 1 < n /\ ~q.kind.serial THEN "load" ELSE "get")
      /\ p \in {"tags", "load", "get"}
  OBVIOUS
<1> HIDE DEF p, res, q
<1>9. Append(q.loaded, res) \in Seq(SUBSET Clusters) /\ Len(Append(q.loaded, res)) = l + 1
      /\ \A i \in 1..(l + 1) : Append(q.loaded, res)[i] = IF i = l + 1 THEN res ELSE q.loaded[i]
  BY <1>4, <1>7
<1>10. /\ t \in RequestType /\ t.pc = p /\ t.kind = q.kind /\ t.list = q.list /\ t.opts = q.opts
       /\ t.built = q.built /\ t.loaded = Append(q.loaded, res)
  BY <1>1, <1>3, <1>8, <1>9 DEF RequestType
<1>11. Faithful(t)
  <2>1. /\ b <= n /\ \A i \in 1..n : saved[q.list[i].id] # Absent
        /\ \A i \in 1..l : Known(q.list[i].id, q.loaded[i])
        /\ \A i \in 1..b : q.built[i].scan = q.list[i].id /\ optionsKey(q.built[i].opts) = optionsKey(q.opts)
                           /\ Known(q.list[i].id, q.built[i].results)
    BY <1>3 DEF RequestOK, Faithful
  <2>2. \A i \in 1..(l + 1) : i = l + 1 \/ i \in 1..l
    BY <1>4
  <2>3. Len(t.loaded) = l + 1 /\ l + 1 <= n
    BY <1>6, <1>9, <1>10
  <2>4. ASSUME NEW i \in 1..(l + 1) PROVE Known(t.list[i].id, t.loaded[i])
    <3>1. CASE i = l + 1
      <4>1. t.loaded[i] = res
        BY <1>9, <1>10, <3>1
      <4> QED
        BY <1>7, <1>10, <3>1, <4>1
    <3>2. CASE i # l + 1
      <4>1. t.loaded[i] = q.loaded[i] /\ i \in 1..l
        BY <1>9, <1>10, <2>2, <3>2
      <4> QED
        BY <1>10, <2>1, <4>1
    <3> QED
      BY <3>1, <3>2
  <2> QED
    BY <1>10, <2>1, <2>3, <2>4 DEF Faithful
<1>12. Progress(t, n, l + 1, b)
  <2>1. CASE q.kind.resultsFirst
    <3>1. t.pc = "tags" /\ n = 1 /\ l = 0 /\ b = 0 /\ t.kind.resultsFirst
      BY <1>5, <1>8, <1>10, <2>1
    <3> QED
      BY <3>1 DEF Progress
  <2>2. CASE ~q.kind.resultsFirst /\ q.kind.serial
    <3>1. t.pc = "get" /\ b = l /\ ~t.kind.resultsFirst /\ t.kind.serial
      BY <1>5, <1>8, <1>10, <2>2
    <3> QED
      BY <1>4, <1>5, <1>6, <3>1 DEF Progress
  <2>3. CASE ~q.kind.resultsFirst /\ ~q.kind.serial
    <3>1. b = 0 /\ ~t.kind.resultsFirst /\ ~t.kind.serial
      BY <1>5, <1>10, <2>3
    <3>2. CASE l + 1 < n
      <4>1. t.pc = "load"
        BY <1>8, <1>10, <2>3, <3>2
      <4> QED
        BY <1>4, <1>6, <3>1, <3>2, <4>1 DEF Progress
    <3>3. CASE ~(l + 1 < n)
      <4>1. t.pc = "get"
        BY <1>8, <1>10, <2>3, <3>3
      <4> QED
        BY <1>4, <1>6, <3>1, <3>3, <4>1 DEF Progress
    <3> QED
      BY <3>2, <3>3
  <2> QED
    BY <2>1, <2>2, <2>3
<1>13. RequestOK(t)
  BY <1>9, <1>10, <1>11, <1>12 DEF RequestOK
<1> QED
  BY <1>2, <1>3, <1>13, OneRequest

\* A list without its element i.
LEMMA OneRemoved ==
  ASSUME NEW S, NEW s \in Seq(S), NEW i \in 1..Len(s)
  PROVE  /\ RemoveAt(s, i) \in Seq(S) /\ Len(RemoveAt(s, i)) = Len(s) - 1
         /\ \A j \in 1..(Len(s) - 1) : RemoveAt(s, i)[j] = s[IF j < i THEN j ELSE j + 1]
<1>1. PICK x, y : x = SubSeq(s, 1, i - 1) /\ y = SubSeq(s, i + 1, Len(s))
  OBVIOUS
<1>2. RemoveAt(s, i) = x \o y
  BY <1>1 DEF RemoveAt
<1>3. Len(s) \in Nat /\ i \in Nat /\ i >= 1 /\ i <= Len(s) /\ i - 1 \in 0..Len(s)
  OBVIOUS
<1>4. x \in Seq(S) /\ Len(x) = i - 1 /\ \A j \in 1..(i - 1) : x[j] = s[j]
  BY <1>1, <1>3
<1>5. y \in Seq(S) /\ Len(y) = Len(s) - i /\ \A j \in 1..(Len(s) - i) : y[j] = s[j + i]
  <2>1. CASE i < Len(s)
    <3>1. i + 1 \in 1..Len(s) /\ Len(s) - (i + 1) + 1 = Len(s) - i
      BY <1>3, <2>1
    <3>2. y = [j \in 1..(Len(s) - i) |-> s[j + i]]
      <4>1. y = [j \in 1..(Len(s) - (i + 1) + 1) |-> s[(i + 1) + j - 1]]
        BY <1>1, <1>3, <3>1
      <4>2. \A j \in 1..(Len(s) - i) : (i + 1) + j - 1 = j + i
        BY <1>3
      <4> QED
        BY <3>1, <4>1, <4>2
    <3>3. \A j \in 1..(Len(s) - i) : s[j + i] \in S
      BY <1>3
    <3>4. Len(s) - i \in Nat
      BY <1>3
    <3> QED
      BY <3>2, <3>3, <3>4
  <2>2. CASE i = Len(s)
    <3>1. y = << >>
      BY <1>1, <1>3, <2>2
    <3>2. Len(s) - i = 0
      BY <1>3, <2>2
    <3> QED
      BY <3>1, <3>2
  <2> QED
    BY <1>3, <2>1, <2>2
<1>6. /\ x \o y \in Seq(S) /\ Len(x \o y) = Len(s) - 1
      /\ \A j \in 1..(Len(s) - 1) : (x \o y)[j] = IF j < i THEN x[j] ELSE y[j - (i - 1)]
  <2>1. x \o y \in Seq(S) /\ Len(x \o y) = Len(x) + Len(y)
        /\ \A j \in 1..(Len(x) + Len(y)) : (x \o y)[j] = IF j <= Len(x) THEN x[j] ELSE y[j - Len(x)]
    <3>1. x \in Seq(S) /\ y \in Seq(S)
      BY <1>4, <1>5
    <3> QED
      BY <3>1
  <2>2. Len(x) + Len(y) = Len(s) - 1
    BY <1>3, <1>4, <1>5
  <2>3. \A j \in 1..(Len(s) - 1) : (j <= Len(x)) = (j < i)
    BY <1>3, <1>4
  <2> QED
    BY <1>4, <2>1, <2>2, <2>3
<1>7. ASSUME NEW j \in 1..(Len(s) - 1) PROVE (x \o y)[j] = s[IF j < i THEN j ELSE j + 1]
  <2>1. CASE j < i
    <3>1. j \in 1..(i - 1)
      BY <1>3, <2>1
    <3> QED
      BY <1>4, <1>6, <2>1, <3>1
  <2>2. CASE ~(j < i)
    <3>1. j - (i - 1) \in 1..(Len(s) - i) /\ j - (i - 1) + i = j + 1
      BY <1>3, <2>2
    <3>2. (x \o y)[j] = y[j - (i - 1)]
      BY <1>6, <2>2
    <3> QED
      BY <1>5, <2>2, <3>1, <3>2
  <2> QED
    BY <2>1, <2>2
<1> QED
  BY <1>2, <1>6, <1>7

\* A scan that cannot be read is left out of a series.
LEMMA LoadFailsInv ==
  ASSUME ReportInv, NEW r \in Requests, LoadFails(r)
  PROVE  ReportInv'
<1> DEFINE q == req[r]
           n == Len(q.list)
           l == Len(q.loaded)
           b == Len(q.built)
           skip == q.kind.serial /\ n > 1
           rest == RemoveAt(q.list, l + 1)
<1>1. PICK t : t = [q EXCEPT !.list = rest]
  OBVIOUS
<1>2. PICK u : u = IF skip THEN GoesOn(t, l + 1 - 1) ELSE Done
  OBVIOUS
<1>3. /\ q.pc = "load" /\ req' = [req EXCEPT ![r] = u] /\ Edit
      /\ UNCHANGED <<scans, saved, tags, groups, entries, order>>
  BY <1>1, <1>2 DEF LoadFails, rows
<1>4. q \in RequestType /\ RequestOK(q) /\ edits \in 0..MaxEdits
  BY DEF ReportInv, StoreInv
<1>5. edits' \in 0..MaxEdits
  BY <1>3, <1>4, ServiceConstants DEF Edit
<1>6. CASE ~skip
  <2>1. RequestOK(u)
    BY <1>2, <1>6, IdleOK
  <2> QED
    BY <1>3, <1>5, <2>1, OneRequest
<1>7. CASE skip
  <2>1. /\ n \in Nat /\ l \in Nat /\ b \in Nat /\ q.list \in Seq(Records)
    BY <1>4, Parts
  <2>2. b = l /\ l < n /\ n > 1 /\ q.kind.serial /\ ~q.kind.resultsFirst
    <3>1. l < n /\ (IF q.kind.serial THEN b = l ELSE b = 0) /\ (q.kind.resultsFirst => n = 1)
      BY <1>3, <1>4 DEF RequestOK, Progress
    <3>2. n > 1
      BY <1>7, Zenon
    <3>3. n # 1
      <4>1. \A m \in Nat : m > 1 => m # 1
        OBVIOUS
      <4> QED
        BY <2>1, <3>2, <4>1, Zenon
    <3> QED
      BY <1>7, <3>1, <3>2, <3>3
  <2> HIDE DEF q
  <2>3. /\ rest \in Seq(Records) /\ Len(rest) = n - 1
        /\ \A i \in 1..l : rest[i] = q.list[i]
        /\ \A i \in 1..(n - 1) : \E j \in 1..n : rest[i] = q.list[j]
    <3>1. l + 1 \in 1..n
      BY <2>1, <2>2
    <3>2. rest \in Seq(Records) /\ Len(rest) = n - 1
          /\ \A i \in 1..(n - 1) : rest[i] = q.list[IF i < l + 1 THEN i ELSE i + 1]
      BY <2>1, <3>1, OneRemoved
    <3> HIDE DEF rest
    <3>3. \A i \in 1..l : i \in 1..(n - 1) /\ i < l + 1
      BY <2>1, <2>2
    <3>4. \A i \in 1..(n - 1) : (IF i < l + 1 THEN i ELSE i + 1) \in 1..n
      BY <2>1, <2>2
    <3> QED
      BY <3>2, <3>3, <3>4
  <2> HIDE DEF rest
  <2>4. /\ t \in RequestType /\ t.kind = q.kind /\ t.list = rest /\ t.opts = q.opts /\ t.built = q.built
        /\ t.loaded = q.loaded
    BY <1>1, <1>4, <2>3 DEF RequestType
  <2>5. Faithful(t)
    <3>1. /\ \A i \in 1..n : saved[q.list[i].id] # Absent
          /\ \A i \in 1..l : Known(q.list[i].id, q.loaded[i])
          /\ \A i \in 1..b : q.built[i].scan = q.list[i].id /\ optionsKey(q.built[i].opts) = optionsKey(q.opts)
                             /\ Known(q.list[i].id, q.built[i].results)
      BY <1>4 DEF RequestOK, Faithful
    <3>2. ASSUME NEW i \in 1..(n - 1) PROVE saved[rest[i].id] # Absent
      <4>1. PICK j \in 1..n : rest[i] = q.list[j]
        BY <2>3, Zenon
      <4> QED
        BY <3>1, <4>1
    <3>3. Len(t.loaded) <= Len(t.list) /\ Len(t.built) <= Len(t.list)
      BY <2>1, <2>2, <2>3, <2>4
    <3> QED
      BY <2>2, <2>3, <2>4, <3>1, <3>2, <3>3 DEF Faithful
  <2>6. RequestOK(GoesOn(t, l))
    <3>1. Len(t.built) = l /\ Len(t.list) >= 1 /\ Len(t.loaded) = l
      BY <2>1, <2>2, <2>3, <2>4
    <3>2. t.kind.serial /\ ~t.kind.resultsFirst
      BY <2>2, <2>4
    <3> QED
      BY <2>1, <2>5, <3>1, <3>2, GoesOnOK
  <2>7. u = GoesOn(t, l)
    <3>1. l + 1 - 1 = l
      BY <2>1
    <3> QED
      BY <1>2, <1>7, <3>1
  <2>8. RequestOK(u)
    BY <2>6, <2>7
  <2> QED
    BY <1>3, <1>5, <2>8, OneRequest DEF q
<1> QED
  BY <1>6, <1>7

\* Nothing is kept of a request that has answered.
LEMMA AnswerInv ==
  ASSUME ReportInv, NEW r \in Requests, Answer(r)
  PROVE  ReportInv'
<1>1. edits \in 0..MaxEdits
  BY DEF ReportInv, StoreInv
<1> QED
  BY <1>1, IdleOK, OneRequest DEF Answer, store, rows

\* A report of the next scan of the list, with options of the request's key.
LEMMA OneMore ==
  ASSUME NEW q, Faithful(q), Len(q.built) < Len(q.list), NEW rpt \in Reports,
         rpt.scan = q.list[Len(q.built) + 1].id, optionsKey(rpt.opts) = optionsKey(q.opts), Known(rpt.scan, rpt.results),
         NEW t, t = [q EXCEPT !.built = Append(q.built, rpt)]
  PROVE  /\ Faithful(t) /\ Len(t.built) = Len(q.built) + 1
         /\ t.pc = q.pc /\ t.kind = q.kind /\ t.list = q.list /\ t.opts = q.opts /\ t.loaded = q.loaded
<1> DEFINE n == Len(q.list)
           l == Len(q.loaded)
           b == Len(q.built)
<1>1. q \in RequestType
  BY DEF Faithful
<1>2. n \in Nat /\ l \in Nat /\ b \in Nat /\ q.built \in Seq(Reports)
  BY <1>1, Parts
<1>3. /\ Append(q.built, rpt) \in Seq(Reports) /\ Len(Append(q.built, rpt)) = b + 1
      /\ \A i \in 1..(b + 1) : Append(q.built, rpt)[i] = IF i = b + 1 THEN rpt ELSE q.built[i]
  BY <1>2
<1>4. /\ t \in RequestType /\ t.pc = q.pc /\ t.kind = q.kind /\ t.list = q.list /\ t.opts = q.opts
      /\ t.loaded = q.loaded /\ t.built = Append(q.built, rpt)
  BY <1>1, <1>3 DEF RequestType
<1>5. /\ l <= n /\ \A i \in 1..n : saved[q.list[i].id] # Absent
      /\ \A i \in 1..l : Known(q.list[i].id, q.loaded[i])
      /\ \A i \in 1..b : q.built[i].scan = q.list[i].id /\ optionsKey(q.built[i].opts) = optionsKey(q.opts)
                         /\ Known(q.list[i].id, q.built[i].results)
  BY DEF Faithful
<1>6. Len(t.built) = b + 1 /\ b + 1 <= n
  BY <1>2, <1>3, <1>4
<1>7. ASSUME NEW i \in 1..(b + 1)
      PROVE  t.built[i].scan = t.list[i].id /\ optionsKey(t.built[i].opts) = optionsKey(t.opts) /\ Known(t.list[i].id, t.built[i].results)
  <2>1. CASE i = b + 1
    <3>1. t.built[i] = rpt
      BY <1>3, <1>4, <2>1
    <3> QED
      BY <1>4, <2>1, <3>1
  <2>2. CASE i # b + 1
    <3>1. t.built[i] = q.built[i] /\ i \in 1..b
      BY <1>2, <1>3, <1>4, <2>2
    <3> QED
      BY <1>4, <1>5, <3>1
  <2> QED
    BY <2>1, <2>2
<1>8. Faithful(t)
  BY <1>4, <1>5, <1>6, <1>7 DEF Faithful
<1> QED
  BY <1>4, <1>6, <1>8

\* A request that gets a report: where it stands.
LEMMA AtGet ==
  ASSUME NEW q, RequestOK(q), q.pc = "get"
  PROVE  /\ Len(q.built) + 1 \in 1..Len(q.list) /\ Len(q.built) + 1 \in 1..Len(q.loaded)
         /\ Len(q.built) < Len(q.list) /\ Len(q.list) >= 1 /\ (q.kind.resultsFirst => Len(q.list) = 1)
         /\ Len(q.loaded) = IF q.kind.serial THEN Len(q.built) + 1 ELSE Len(q.list)
         /\ q.list[Len(q.built) + 1].id \in ScanIDs
<1> DEFINE n == Len(q.list)
           l == Len(q.loaded)
           b == Len(q.built)
<1>1. n \in Nat /\ l \in Nat /\ b \in Nat /\ \A i \in 1..n : q.list[i].id \in ScanIDs
  BY Parts DEF RequestOK, Faithful
<1>2. /\ b < l /\ l <= n /\ (IF q.kind.serial THEN l = b + 1 ELSE l = n)
      /\ n >= 1 /\ (q.kind.resultsFirst => n = 1)
  BY DEF RequestOK, Progress
<1>3. b + 1 \in 1..n /\ b + 1 \in 1..l /\ b < n
  BY <1>1, <1>2
<1> QED
  BY <1>1, <1>2, <1>3, Zenon

\* The cache answers with a report of the scan and of the key asked for.
LEMMA CacheHitInv ==
  ASSUME ReportInv, NEW r \in Requests, CacheHit(r)
  PROVE  ReportInv'
<1> DEFINE q == req[r]
           i == Len(q.built) + 1
<1>1. PICK rpt : rpt = entries[Key(q, i)]
  OBVIOUS
<1>2. PICK t : t = [q EXCEPT !.built = Append(q.built, rpt)]
  OBVIOUS
<1>3. PICK u : u = GoesOn(t, i)
  OBVIOUS
<1>4. /\ q.pc = "get" /\ Key(q, i) \in DOMAIN entries /\ req' = [req EXCEPT ![r] = u]
      /\ UNCHANGED <<scans, saved, tags, groups, edits, entries, order>>
  BY <1>1, <1>2, <1>3 DEF CacheHit, store, rows
<1>5. RequestOK(q) /\ Faithful(q) /\ q \in RequestType /\ q.opts \in Options /\ edits \in 0..MaxEdits
  <2>1. RequestOK(q) /\ edits \in 0..MaxEdits
    BY DEF ReportInv, StoreInv
  <2> QED
    BY <2>1, Parts DEF RequestOK, Faithful
<1>6. /\ rpt \in Reports /\ Known(rpt.scan, rpt.results) /\ Key(q, i) = cacheKey(rpt.scan, rpt.opts)
  BY <1>1, <1>4 DEF ReportInv, CacheInv, CacheSound
<1> HIDE DEF q
<1>7. rpt.scan \in ScanIDs /\ rpt.opts \in Options
  BY <1>6 DEF Reports
<1>8. q.list[i].id \in ScanIDs
  BY <1>4, <1>5, AtGet
<1>9. rpt.scan = q.list[i].id /\ optionsKey(rpt.opts) = optionsKey(q.opts)
  BY <1>5, <1>6, <1>7, <1>8, KeyTells DEF Key
<1>10. Len(q.built) < Len(q.list)
  BY <1>4, <1>5, AtGet
<1>11. /\ Faithful(t) /\ Len(t.built) = i /\ t.kind = q.kind /\ t.list = q.list /\ t.loaded = q.loaded
  BY <1>2, <1>5, <1>6, <1>9, <1>10, OneMore
<1>12. RequestOK(u)
  <2>1. /\ i \in 1..Len(q.list) /\ Len(q.list) >= 1 /\ (q.kind.resultsFirst => Len(q.list) = 1)
        /\ Len(q.loaded) = IF q.kind.serial THEN i ELSE Len(q.list)
    BY <1>4, <1>5, AtGet
  <2>2. i \in Nat
    BY <2>1
  <2> HIDE DEF i
  <2> QED
    BY <1>3, <1>11, <2>1, <2>2, GoesOnOK
<1> QED
  BY <1>4, <1>5, <1>12, OneRequest DEF q

\* What a request builds itself is of the results it has read.
LEMMA CacheMissInv ==
  ASSUME ReportInv, NEW r \in Requests, CacheMiss(r)
  PROVE  ReportInv'
<1> DEFINE q == req[r]
           i == Len(q.built) + 1
<1>1. PICK rpt : rpt = build(q.list[i], q.loaded[i], q.opts)
  OBVIOUS
<1>2. PICK t : t = [q EXCEPT !.built = Append(q.built, rpt)]
  OBVIOUS
<1>3. PICK u : u = IF q.kind.cached THEN [t EXCEPT !.pc = "insert"] ELSE GoesOn(t, i)
  OBVIOUS
<1>4. /\ q.pc = "get" /\ req' = [req EXCEPT ![r] = u]
      /\ UNCHANGED <<scans, saved, tags, groups, edits, entries, order>>
  BY <1>1, <1>2, <1>3 DEF CacheMiss, store, rows
<1>5. RequestOK(q) /\ Faithful(q) /\ q \in RequestType /\ q.opts \in Options /\ edits \in 0..MaxEdits
      /\ q.loaded \in Seq(SUBSET Clusters)
  <2>1. RequestOK(q) /\ edits \in 0..MaxEdits
    BY DEF ReportInv, StoreInv
  <2> QED
    BY <2>1, Parts DEF RequestOK, Faithful
<1> HIDE DEF q
<1>6. /\ i \in 1..Len(q.list) /\ i \in 1..Len(q.loaded) /\ Len(q.built) < Len(q.list)
      /\ Len(q.list) >= 1 /\ (q.kind.resultsFirst => Len(q.list) = 1)
      /\ Len(q.loaded) = IF q.kind.serial THEN i ELSE Len(q.list)
  BY <1>4, <1>5, AtGet
<1>7. q.list[i].id \in ScanIDs
  BY <1>4, <1>5, AtGet
<1>8. q.loaded[i] \in SUBSET Clusters /\ Known(q.list[i].id, q.loaded[i])
  <2> HIDE DEF i
  <2>1. q.loaded[i] \in SUBSET Clusters
    BY <1>5, <1>6
  <2> QED
    BY <1>5, <1>6, <2>1 DEF Faithful
<1> HIDE DEF i
<1>9. /\ rpt \in Reports /\ rpt.scan = q.list[i].id /\ optionsKey(rpt.opts) = optionsKey(q.opts) /\ Known(rpt.scan, rpt.results)
  <2>1. rpt.scan = q.list[i].id /\ optionsKey(rpt.opts) = optionsKey(q.opts) /\ rpt.results = q.loaded[i]
    BY <1>1 DEF build
  <2>2. rpt \in Reports
    BY <1>1, <1>5, <1>7, <1>8 DEF build, Reports
  <2> QED
    BY <1>8, <2>1, <2>2
<1>10. /\ Faithful(t) /\ Len(t.built) = i /\ t.kind = q.kind /\ t.list = q.list /\ t.loaded = q.loaded
  BY <1>2, <1>5, <1>6, <1>9, OneMore DEF i
<1>11. i \in Nat
  BY <1>6
<1>12. CASE ~q.kind.cached
  <2>1. RequestOK(u)
    BY <1>3, <1>6, <1>10, <1>11, <1>12, GoesOnOK
  <2> QED
    BY <1>4, <1>5, <2>1, OneRequest DEF q
<1>13. CASE q.kind.cached
  <2>1. t \in RequestType
    BY <1>10 DEF Faithful
  <2>2. /\ u \in RequestType /\ u.pc = "insert" /\ u.kind = t.kind /\ u.list = t.list /\ u.opts = t.opts
        /\ u.loaded = t.loaded /\ u.built = t.built
    BY <1>3, <1>13, <2>1 DEF RequestType
  <2>3. Faithful(u)
    BY <1>10, <2>2 DEF Faithful
  <2>4. Progress(u, Len(q.list), Len(q.loaded), i)
    <3>1. i >= 1 /\ i <= Len(q.loaded)
      BY <1>6, <1>11
    <3>2. Len(q.loaded) <= Len(q.list)
      BY <1>5 DEF Faithful
    <3> QED
      BY <1>6, <1>10, <2>2, <3>1, <3>2 DEF Progress
  <2>5. RequestOK(u)
    BY <1>10, <2>2, <2>3, <2>4 DEF RequestOK
  <2> QED
    BY <1>4, <1>5, <2>5, OneRequest DEF q
<1> QED
  BY <1>12, <1>13

\* A queue of at most c elements takes one more.
Takes(s, key, c) == LET full == Append(s, key) IN IF Len(full) > c THEN Tail(full) ELSE full

\* It stays within its bound and without duplicates, and holds the new element.
LEMMA QueueTakes ==
  ASSUME NEW K, NEW s \in Seq(K), IsInjective(s), NEW key \in K, key \notin Range(s),
         NEW c \in Nat, c >= 1, Len(s) <= c
  PROVE  /\ Takes(s, key, c) \in Seq(K) /\ Len(Takes(s, key, c)) <= c /\ IsInjective(Takes(s, key, c))
         /\ key \in Range(Takes(s, key, c)) /\ Range(Takes(s, key, c)) \subseteq Range(s) \cup {key}
<1> SUFFICES ASSUME NEW full, full = Append(s, key), NEW kept, kept = IF Len(full) > c THEN Tail(full) ELSE full
             PROVE  /\ kept \in Seq(K) /\ Len(kept) <= c /\ IsInjective(kept)
                    /\ key \in Range(kept) /\ Range(kept) \subseteq Range(s) \cup {key}
  BY DEF Takes
<1> DEFINE n == Len(s)
<1>1. n \in Nat /\ DOMAIN s = 1..n /\ \A i \in 1..n : s[i] \in K /\ s[i] # key
  BY DEF Range
<1>2. /\ full \in Seq(K) /\ Len(full) = n + 1 /\ DOMAIN full = 1..(n + 1)
      /\ \A i \in 1..(n + 1) : full[i] = IF i = n + 1 THEN key ELSE s[i]
  BY <1>1
<1>3. \A i, j \in 1..(n + 1) : full[i] = full[j] => i = j
  <2>1. \A i, j \in 1..n : s[i] = s[j] => i = j
    BY <1>1 DEF IsInjective
  <2>2. \A i \in 1..(n + 1) : i # n + 1 => i \in 1..n
    BY <1>1
  <2> HIDE DEF n
  <2> QED
    BY <1>1, <1>2, <2>1, <2>2
<1>4. CASE Len(full) > c
  <2>1. kept = Tail(full) /\ n = c
    <3>1. kept = Tail(full)
      BY <1>4, Zenon
    <3>2. n \in Nat /\ n + 1 > c /\ n <= c
      BY <1>1, <1>2, <1>4, Zenon
    <3> HIDE DEF n
    <3> QED
      BY <3>1, <3>2
  <2>2. /\ kept \in Seq(K) /\ Len(kept) = n /\ DOMAIN kept = 1..n /\ \A i \in 1..n : kept[i] = full[i + 1]
    BY <1>1, <1>2, <2>1
  <2>3. \A i \in 1..n : i + 1 \in 1..(n + 1)
    BY <1>1
  <2>4. n \in 1..n /\ n + 1 \in 1..(n + 1)
    BY <1>1, <2>1
  <2> HIDE DEF n
  <2>5. \A i, j \in 1..n : kept[i] = kept[j] => i = j
    BY <1>1, <1>3, <2>2, <2>3
  <2>6. IsInjective(kept)
    BY <2>2, <2>5 DEF IsInjective
  <2>7. kept[n] = key
    BY <1>2, <2>2, <2>4
  <2>8. key \in Range(kept)
    BY <2>2, <2>4, <2>7 DEF Range
  <2>9. Range(kept) \subseteq Range(s) \cup {key}
    <3>1. ASSUME NEW i \in 1..n PROVE kept[i] \in Range(s) \cup {key}
      <4>1. CASE i + 1 = n + 1
        BY <1>2, <2>2, <2>3, <4>1
      <4>2. CASE i + 1 # n + 1
        <5>1. i + 1 \in 1..n
          BY <1>1, <4>2
        <5>2. kept[i] = s[i + 1]
          BY <1>2, <2>2, <2>3, <4>2
        <5> QED
          BY <1>1, <5>1, <5>2 DEF Range
      <4> QED
        BY <4>1, <4>2
    <3> QED
      BY <2>2, <3>1 DEF Range
  <2>10. Len(kept) <= c
    BY <1>1, <2>1, <2>2
  <2> QED
    BY <2>2, <2>6, <2>8, <2>9, <2>10
<1>5. CASE ~(Len(full) > c)
  <2>1. kept = full /\ Len(kept) <= c
    BY <1>1, <1>2, <1>5
  <2>2. n + 1 \in 1..(n + 1) /\ \A i \in 1..(n + 1) : i # n + 1 => i \in 1..n
    BY <1>1
  <2> HIDE DEF n
  <2>3. IsInjective(kept)
    BY <1>2, <1>3, <2>1 DEF IsInjective
  <2>4. key \in Range(kept)
    BY <1>2, <2>1, <2>2 DEF Range
  <2>5. ASSUME NEW i \in 1..(n + 1) PROVE kept[i] \in Range(s) \cup {key}
    <3>1. CASE i = n + 1
      BY <1>2, <2>1, <2>2, <3>1
    <3>2. CASE i # n + 1
      <4>1. i \in 1..n /\ kept[i] = s[i]
        BY <1>2, <2>1, <2>2, <3>2
      <4> QED
        BY <1>1, <4>1 DEF Range
    <3> QED
      BY <3>1, <3>2
  <2>6. Range(kept) \subseteq Range(s) \cup {key}
    BY <1>2, <2>1, <2>5 DEF Range
  <2> QED
    BY <1>2, <2>1, <2>3, <2>4, <2>6
<1> QED
  BY <1>4, <1>5

\* An insertion keeps the cache sound, and the key it was asked for is in it.
LEMMA InsertOK ==
  ASSUME CacheInv, UNCHANGED <<scans, saved>>, NEW rpt \in Reports, Known(rpt.scan, rpt.results),
         NEW key, key = cacheKey(rpt.scan, rpt.opts), insert(key, rpt)
  PROVE  CacheInv' /\ key \in DOMAIN entries'
<1>1. /\ Len(order) <= ReportCacheSize /\ IsInjective(order) /\ Range(order) = DOMAIN entries
      /\ order \in Seq(CacheKeys)
      /\ \A k \in DOMAIN entries : /\ k = cacheKey(entries[k].scan, entries[k].opts)
                                   /\ entries[k] \in Reports /\ Known(entries[k].scan, entries[k].results)
  BY DEF CacheInv, CacheSound
<1>2. key \in CacheKeys
  <2>1. rpt.scan \in ScanIDs /\ rpt.opts \in Options
    BY DEF Reports
  <2> QED
    BY <2>1 DEF CacheKeys
<1>3. PICK full : full = IF key \in DOMAIN entries THEN order ELSE Append(order, key)
  OBVIOUS
<1>4. PICK kept : kept = IF Len(full) > ReportCacheSize THEN Tail(full) ELSE full
  OBVIOUS
<1>5. order' = kept /\ entries' = [k \in Range(kept) |-> IF k \in DOMAIN entries THEN entries[k] ELSE rpt]
  BY <1>3, <1>4 DEF insert
<1>6. /\ kept \in Seq(CacheKeys) /\ Len(kept) <= ReportCacheSize /\ IsInjective(kept)
      /\ key \in Range(kept) /\ Range(kept) \subseteq DOMAIN entries \cup {key}
  <2>1. ReportCacheSize \in Nat /\ ReportCacheSize >= 1 /\ Len(order) \in Nat
    BY <1>1, ServiceConstants
  <2>2. CASE key \in DOMAIN entries
    <3>1. full = order
      BY <1>3, <2>2
    <3>2. ~(Len(full) > ReportCacheSize)
      BY <1>1, <2>1, <3>1
    <3>3. kept = order
      BY <1>4, <3>1, <3>2
    <3> QED
      BY <1>1, <2>2, <3>3
  <2>3. CASE key \notin DOMAIN entries
    <3>1. kept = Takes(order, key, ReportCacheSize)
      BY <1>3, <1>4, <2>3 DEF Takes
    <3>2. key \notin Range(order)
      BY <1>1, <2>3
    <3>3. /\ kept \in Seq(CacheKeys) /\ Len(kept) <= ReportCacheSize /\ IsInjective(kept)
          /\ key \in Range(kept) /\ Range(kept) \subseteq Range(order) \cup {key}
      <4>1. order \in Seq(CacheKeys) /\ IsInjective(order) /\ Len(order) <= ReportCacheSize
        BY <1>1
      <4> QED
        BY <1>2, <2>1, <3>1, <3>2, <4>1, QueueTakes
    <3> QED
      BY <1>1, <3>3
  <2> QED
    BY <2>2, <2>3
<1>7. DOMAIN entries' = Range(kept)
  BY <1>5
<1>8. ASSUME NEW k \in Range(kept)
      PROVE  /\ k = cacheKey(entries'[k].scan, entries'[k].opts)
             /\ entries'[k] \in Reports /\ Known(entries'[k].scan, entries'[k].results)
  <2>1. CASE k \in DOMAIN entries
    <3>1. entries'[k] = entries[k]
      BY <1>5, <2>1
    <3> QED
      BY <1>1, <2>1, <3>1
  <2>2. CASE k \notin DOMAIN entries
    <3>1. entries'[k] = rpt /\ k = key
      BY <1>5, <1>6, <2>2
    <3> QED
      BY <3>1
  <2> QED
    BY <2>1, <2>2
<1>9. \A k \in DOMAIN entries' : Known(entries[k].scan, entries[k].results)'
  BY <1>7, <1>8 DEF Known
<1>10. CacheSound'
  <2>1. Len(order') <= ReportCacheSize /\ IsInjective(order') /\ Range(order') = DOMAIN entries'
    BY <1>5, <1>6, <1>7
  <2>2. \A k \in DOMAIN entries' : k = cacheKey(entries'[k].scan, entries'[k].opts)
    BY <1>7, <1>8
  <2> QED
    BY <2>1, <2>2, SoundNext DEF Queue, OwnKeys, IsInjective, Range
<1> QED
  BY <1>5, <1>6, <1>7, <1>8, <1>9, <1>10 DEF CacheInv

\* What is in the cache now is returned: another request may have built it.
LEMMA CacheInsertInv ==
  ASSUME ReportInv, NEW r \in Requests, CacheInsert(r)
  PROVE  ReportInv'
<1>1. PICK q : q = req[r]
  OBVIOUS
<1>2. PICK i : i = Len(q.built)
  OBVIOUS
<1>3. PICK key : key = Key(q, i)
  OBVIOUS
<1>4. PICK rpt : rpt = q.built[i]
  OBVIOUS
<1>5. PICK got : got = entries'[key]
  OBVIOUS
<1>6. PICK t : t = [q EXCEPT !.built[i] = got]
  OBVIOUS
<1>7. PICK u : u = GoesOn(t, i)
  OBVIOUS
<1>8. /\ q.pc = "insert" /\ insert(key, rpt) /\ req' = [req EXCEPT ![r] = u]
      /\ UNCHANGED <<scans, saved, tags, groups, edits>>
  BY <1>1, <1>2, <1>3, <1>4, <1>5, <1>6, <1>7 DEF CacheInsert, store, rows
<1>9. RequestOK(q) /\ Faithful(q) /\ q \in RequestType /\ edits \in 0..MaxEdits /\ CacheInv
  BY <1>1 DEF ReportInv, StoreInv, RequestOK, Faithful
<1>10. /\ q.opts \in Options /\ q.built \in Seq(Reports) /\ Len(q.list) \in Nat /\ i \in Nat
       /\ \A j \in 1..Len(q.list) : q.list[j].id \in ScanIDs
  BY <1>2, <1>9, Parts
<1>11. /\ i >= 1 /\ i <= Len(q.loaded) /\ Len(q.loaded) <= Len(q.list)
       /\ Len(q.loaded) = (IF q.kind.serial THEN i ELSE Len(q.list))
       /\ Len(q.list) >= 1 /\ (q.kind.resultsFirst => Len(q.list) = 1)
  BY <1>2, <1>8, <1>9 DEF RequestOK, Progress
<1>12. i \in 1..i /\ i \in 1..Len(q.list)
  <2>1. Len(q.loaded) \in Nat
    BY <1>9, Parts
  <2>2. i <= Len(q.list)
    BY <1>2, <1>9 DEF Faithful
  <2> QED
    BY <1>10, <1>11, <2>2
<1>13. rpt \in Reports /\ rpt.scan = q.list[i].id /\ optionsKey(rpt.opts) = optionsKey(q.opts) /\ Known(rpt.scan, rpt.results)
  <2>1. rpt \in Reports
    BY <1>2, <1>4, <1>10, <1>12
  <2> QED
    BY <1>2, <1>4, <1>9, <1>12, <2>1 DEF Faithful
<1>14. q.list[i].id \in ScanIDs
  BY <1>10, <1>12
<1>15. CacheInv' /\ key \in DOMAIN entries'
  <2>1. key = cacheKey(rpt.scan, rpt.opts)
    BY <1>3, <1>13 DEF Key, cacheKey
  <2> QED
    BY <1>8, <1>9, <1>13, <2>1, InsertOK
<1>16. got \in Reports /\ key = cacheKey(got.scan, got.opts) /\ Known(got.scan, got.results)
  <2>1. /\ key = cacheKey(entries'[key].scan, entries'[key].opts) /\ entries'[key] \in Reports
        /\ Known(entries[key].scan, entries[key].results)'
    <3>1. /\ \A k \in DOMAIN entries' : k = cacheKey(entries'[k].scan, entries'[k].opts)
          /\ \A k \in DOMAIN entries' : entries'[k] \in Reports
          /\ \A k \in DOMAIN entries' : Known(entries[k].scan, entries[k].results)'
      BY <1>15, SoundNext DEF CacheInv, OwnKeys
    <3> QED
      BY <1>15, <3>1 DEF Known
  <2> QED
    BY <1>5, <1>8, <2>1 DEF Known
<1>17. got.scan = q.list[i].id /\ optionsKey(got.opts) = optionsKey(q.opts)
  <2>1. got.scan \in ScanIDs /\ got.opts \in Options
    BY <1>16 DEF Reports
  <2>2. q.opts \in Options /\ cacheKey(got.scan, got.opts) = cacheKey(q.list[i].id, q.opts)
    BY <1>3, <1>10, <1>16 DEF Key
  <2> QED
    BY <1>14, <2>1, <2>2, KeyTells
<1>18. Faithful(t) /\ Len(t.built) = i /\ t.kind = q.kind /\ t.list = q.list /\ t.loaded = q.loaded
  <2>1. PICK new : new = [q.built EXCEPT ![i] = got]
    OBVIOUS
  <2>2. /\ new \in Seq(Reports) /\ Len(new) = i /\ new[i] = got
        /\ \A j \in 1..i : j # i => new[j] = q.built[j]
    BY <1>2, <1>10, <1>12, <1>16, <2>1
  <2>3. /\ t \in RequestType /\ t.pc = q.pc /\ t.kind = q.kind /\ t.list = q.list /\ t.opts = q.opts
        /\ t.loaded = q.loaded /\ t.built = new
    BY <1>6, <1>9, <2>1, <2>2 DEF RequestType
  <2>4. /\ Len(q.loaded) <= Len(q.list) /\ i <= Len(q.list)
        /\ \A j \in 1..Len(q.list) : saved[q.list[j].id] # Absent
        /\ \A j \in 1..Len(q.loaded) : Known(q.list[j].id, q.loaded[j])
        /\ \A j \in 1..i : q.built[j].scan = q.list[j].id /\ optionsKey(q.built[j].opts) = optionsKey(q.opts)
                           /\ Known(q.list[j].id, q.built[j].results)
    BY <1>2, <1>9 DEF Faithful
  <2>5. ASSUME NEW j \in 1..i
        PROVE  new[j].scan = q.list[j].id /\ optionsKey(new[j].opts) = optionsKey(q.opts) /\ Known(q.list[j].id, new[j].results)
    BY <1>16, <1>17, <2>2, <2>4
  <2> QED
    BY <2>2, <2>3, <2>4, <2>5 DEF Faithful
<1>19. RequestOK(u)
  BY <1>7, <1>10, <1>11, <1>18, GoesOnOK
<1> QED
  BY <1>8, <1>9, <1>15, <1>19, RequestMoves

\* Every step keeps the invariant.
LEMMA ReportStep ==
  ASSUME ReportInv, [ReportNext]_reportVars
  PROVE  ReportInv'
<1>1. CASE Saves
  <2>1. PICK id \in ScanIDs, ts \in 0..MaxSeconds, cs \in SUBSET Clusters \ {{}} :
          \E rs \in SUBSET cs \ {{}} : SaveScanRecord(id, ts, cs, rs)
    BY <1>1 DEF Saves
  <2>2. PICK rs \in SUBSET cs \ {{}} : SaveScanRecord(id, ts, cs, rs)
    BY <2>1
  <2> QED
    BY <2>2, SaveInv
<1>2. CASE Edits
  BY <1>2, EditsInv
<1>3. CASE \E cutoff \in 1..(MaxSeconds + 1) : Prune(cutoff)
  BY <1>3, PruneInv
<1>4. ASSUME NEW r \in Requests, RequestStep(r) PROVE ReportInv'
  <2>1. CASE Arrives(r)
    BY <2>1, StartListInv, StartScanInv, StartRangeInv DEF Arrives
  <2>2. CASE \E ok \in BOOLEAN : ReadTags(r, ok) \/ ReadGroups(r, ok)
    BY <2>2, ReadTagsInv, ReadGroupsInv
  <2>3. CASE LoadResults(r) \/ LoadFails(r) \/ CacheHit(r)
    BY <2>3, LoadResultsInv, LoadFailsInv, CacheHitInv
  <2>4. CASE CacheMiss(r) \/ CacheInsert(r) \/ Answer(r)
    BY <2>4, CacheMissInv, CacheInsertInv, AnswerInv
  <2> QED
    BY <1>4, <2>1, <2>2, <2>3, <2>4 DEF RequestStep
<1>5. CASE UNCHANGED reportVars
  <2>1. Keeps /\ StoreInv' /\ UNCHANGED <<entries, order, req>>
    BY <1>5 DEF reportVars, Keeps, ReportInv, StoreInv
  <2> QED
    BY <2>1, StoreStep
<1> QED
  BY <1>1, <1>2, <1>3, <1>4, <1>5 DEF ReportNext

\* ReportInv is inductive: the report handlers keep it in every state, however
\* their queries interleave with saves, prunes, edits and the shared cache.
THEOREM ReportInvariant == ReportSpec => []ReportInv
<1>1. ReportInit => ReportInv
  <2> SUFFICES ASSUME ReportInit PROVE ReportInv
    OBVIOUS
  <2>1. StoreInv
    <3>1. /\ scans = [id \in ScanIDs |-> Absent] /\ saved = [id \in ScanIDs |-> Absent]
          /\ tags = [c \in Clusters |-> Absent] /\ groups = [g \in Groups |-> Members] /\ edits = 0
      BY DEF ReportInit
    <3>2. {id \in ScanIDs : scans[id] # Absent} = {}
      BY <3>1
    <3>3. IsFiniteSet({id \in ScanIDs : scans[id] # Absent})
      BY <3>2, FS_EmptySet
    <3>4. scans \in [ScanIDs -> ScanRows \cup {Absent}] /\ \A id \in ScanIDs : scans[id] = Absent
      BY <3>1
    <3>5. /\ saved \in [ScanIDs -> (SUBSET Clusters) \cup {Absent}] /\ tags \in [Clusters -> TagValues \cup {Absent}]
          /\ groups \in [Groups -> (SUBSET Names) \cup {Absent}]
      BY <3>1, ServiceConstants
    <3>6. edits \in 0..MaxEdits
      BY <3>1, ServiceConstants
    <3> QED
      BY <3>3, <3>4, <3>5, <3>6 DEF StoreInv
  <2>2. CacheInv
    <3>1. entries = << >> /\ order = << >>
      BY DEF ReportInit
    <3>2. DOMAIN entries = {} /\ DOMAIN order = {} /\ Len(order) = 0 /\ order \in Seq(CacheKeys)
      BY <3>1
    <3>3. Range(order) = {} /\ IsInjective(order)
      BY <3>2 DEF Range, IsInjective
    <3> QED
      BY <3>2, <3>3, ServiceConstants DEF CacheInv, CacheSound
  <2>3. req \in [Requests -> RequestType] /\ \A r \in Requests : RequestOK(req[r])
    BY IdleOK DEF ReportInit
  <2> QED
    BY <2>1, <2>2, <2>3 DEF ReportInv
<1>2. ReportInv /\ [ReportNext]_reportVars => ReportInv'
  BY ReportStep
<1> QED
  BY <1>1, <1>2, PTL DEF ReportSpec

\* The state of the store, the cache and the requests stays well-formed.
THEOREM ReportTypes == ReportSpec => []ReportTypeOK
<1>1. ReportInv => ReportTypeOK
  <2> SUFFICES ASSUME ReportInv PROVE ReportTypeOK
    OBVIOUS
  <2>1. ASSUME NEW r \in Requests
        PROVE  /\ req[r].pc \in {"idle", "tags", "groups", "load", "get", "insert", "answer", "done"}
               /\ req[r].kind \in Kinds /\ req[r].opts \in Options /\ Range(req[r].built) \subseteq Reports
    <3>1. req[r] \in RequestType
      BY DEF ReportInv
    <3>2. req[r].built \in Seq(Reports) /\ req[r].kind \in Kinds /\ req[r].opts \in Options
      BY <3>1, Parts
    <3>3. Range(req[r].built) \subseteq Reports
      BY <3>2 DEF Range
    <3>4. req[r].pc \in {"idle", "tags", "groups", "load", "get", "insert", "answer", "done"}
      BY <3>1 DEF RequestType
    <3> QED
      BY <3>2, <3>3, <3>4
  <2>2. /\ \A id \in ScanIDs : scans[id] # Absent => scans[id] \in ScanRows
        /\ tags \in [Clusters -> TagValues \cup {Absent}] /\ edits \in 0..MaxEdits
    BY DEF ReportInv, StoreInv
  <2>3. \A g \in Groups : groups[g] = Absent \/ groups[g] \subseteq Names
    BY DEF ReportInv, StoreInv
  <2>4. \A k \in DOMAIN entries : entries[k] \in Reports
    BY DEF ReportInv, CacheInv
  <2> QED
    BY <2>1, <2>2, <2>3, <2>4 DEF ReportTypeOK, ScanRows
<1> QED
  BY <1>1, ReportInvariant, PTL

\* Every report that is served is of the scan it was asked for, with options of the
\* same key as the ones this request has read and all results of the scan unless it
\* was pruned since; and the cache is a bounded queue whose reports are what their
\* keys say.
THEOREM ServedReports == ReportSpec => [](CacheSound /\ ServedFaithfully)
<1>1. ReportInv => CacheSound /\ ServedFaithfully
  <2> SUFFICES ASSUME ReportInv PROVE CacheSound /\ ServedFaithfully
    OBVIOUS
  <2>1. CacheSound
    BY DEF ReportInv, CacheInv
  <2>2. ASSUME NEW r \in Requests, NEW i \in DOMAIN req[r].built
        PROVE  LET b == req[r].built[i]
                   id == req[r].list[i].id
               IN  b.scan = id /\ optionsKey(b.opts) = optionsKey(req[r].opts) /\ (scans[id] # Absent => b.results = saved[id])
    <3>1. RequestOK(req[r]) /\ req[r] \in RequestType
      BY DEF ReportInv
    <3>2. i \in 1..Len(req[r].built)
      BY <3>1, Parts
    <3> QED
      BY <3>1, <3>2 DEF RequestOK, Faithful, Known
  <2> QED
    BY <2>1, <2>2 DEF ServedFaithfully
<1> QED
  BY <1>1, ReportInvariant, PTL
=============================================================================
