------------------------------ MODULE EventBus ------------------------------
(***************************************************************************)
(* internal/server/events.go: the event bus and its stream handlers. The   *)
(* publishers and every handler are goroutines of their own.               *)
(***************************************************************************)
EXTENDS Naturals, Sequences

CONSTANTS
    Subscribers,    \* connections of /api/events, each opened once
    StreamBuffer,   \* capacity of a subscriber's channel: 16
    MaxEvents       \* bound on the events published

ASSUME EventBusAssumption == StreamBuffer \in Nat /\ MaxEvents \in Nat

VARIABLES
    published,      \* events published so far; event n is the n-th
    stream,         \* one record per connection
    panicked        \* a send on a closed channel

busVars == <<published, stream, panicked>>

\* pc: new -> open -> leaving -> gone. listed: the channel is in eventBus.streams;
\* since and lost are history: the events published before it, those it was too
\* slow for.
NewStream == [pc |-> "new", listed |-> FALSE, closed |-> FALSE, buf |-> <<>>, sent |-> <<>>,
              since |-> 0, lost |-> {}]

subscribe(s) ==
    /\ stream[s].pc = "new"
    /\ stream' = [stream EXCEPT ![s].pc = "open", ![s].listed = TRUE, ![s].since = published]
    /\ UNCHANGED <<published, panicked>>

\* publish holds the lock: every listed stream gets the event or drops it.
Deliver(q, e) ==
    IF ~q.listed THEN q
    ELSE IF Len(q.buf) < StreamBuffer THEN [q EXCEPT !.buf = Append(@, e)]
    ELSE [q EXCEPT !.lost = @ \cup {e}]

publish ==
    /\ published < MaxEvents
    /\ published' = published + 1
    /\ stream' = [s \in Subscribers |-> Deliver(stream[s], published + 1)]
    /\ panicked' = (panicked \/ \E s \in Subscribers : stream[s].listed /\ stream[s].closed)

\* The handler takes an event and writes it to the client.
writeSSE(s) ==
    /\ stream[s].pc = "open"
    /\ stream[s].buf # <<>>
    /\ stream' = [stream EXCEPT ![s].sent = Append(@, Head(stream[s].buf)), ![s].buf = Tail(@)]
    /\ UNCHANGED <<published, panicked>>

\* The client is gone or a write fails (the event that was taken is lost with it).
Disconnect(s) ==
    /\ stream[s].pc = "open"
    /\ stream' = [stream EXCEPT ![s].pc = "leaving"]
    /\ UNCHANGED <<published, panicked>>

\* (mutant) unsubscribe closes the channel before it takes it off the list.
CloseFirst(q) == IF q.closed THEN [q EXCEPT !.listed = FALSE, !.pc = "gone"]
                 ELSE [q EXCEPT !.closed = TRUE]

Unsubscribed(q) == IF q.listed THEN [q EXCEPT !.listed = FALSE]
                   ELSE [q EXCEPT !.closed = TRUE, !.pc = "gone"]

\* unsubscribe: delete under the lock, unlock, close.
unsubscribe(s) ==
    /\ stream[s].pc = "leaving"
    /\ stream' = [stream EXCEPT ![s] = Unsubscribed(@)]
    /\ UNCHANGED <<published, panicked>>

BusInit ==
    /\ published = 0
    /\ stream = [s \in Subscribers |-> NewStream]
    /\ panicked = FALSE

BusNext ==
    \/ publish
    \/ \E s \in Subscribers : subscribe(s) \/ writeSSE(s) \/ Disconnect(s) \/ unsubscribe(s)

BusSpec == BusInit /\ [][BusNext]_busVars

-----------------------------------------------------------------------------
Events == 1..MaxEvents

Streams == [pc : {"new", "open", "leaving", "gone"}, listed : BOOLEAN, closed : BOOLEAN,
            buf : Seq(Events), sent : Seq(Events), since : 0..MaxEvents, lost : SUBSET Events]

BusTypeOK ==
    /\ published \in 0..MaxEvents
    /\ stream \in [Subscribers -> Streams]
    /\ \A s \in Subscribers : Len(stream[s].buf) <= StreamBuffer
    /\ panicked \in BOOLEAN

\* The events of a sequence are in the order they were published, each once,
\* and they are those of a set.
Ordered(events, set) ==
    /\ \A i, j \in 1..Len(events) : i < j => events[i] < events[j]
    /\ {events[i] : i \in 1..Len(events)} = set

\* No publisher ever sends on a closed channel, whenever clients leave; and the
\* events a connected client has been sent or has waiting are, in order, those
\* published since it came, less the ones that found its buffer full.
StreamsFaithful ==
    /\ ~panicked
    /\ \A s \in Subscribers :
        LET q == stream[s]
        IN  q.pc = "open" => Ordered(q.sent \o q.buf, ((q.since + 1)..published) \ q.lost)
=============================================================================
