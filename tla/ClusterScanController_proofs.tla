------------------- MODULE ClusterScanController_proofs -------------------
(***************************************************************************)
(* The ClusterScan controller (internal/controller/controller.go), for any *)
(* resources, specs, number of workers, edits and faults.                  *)
(***************************************************************************)
EXTENDS ClusterScanController, TLAPS

-----------------------------------------------------------------------------
(* The inductive invariant. *)

\* A time that a status patch wrote: whole seconds, and in the past.
Written(t) == rfc3339OrNull(t) = t /\ t <= now

\* What every version of a resource satisfies.
Sound(o) == Coherent(o.status) /\ o.status.obsGen <= o.gen /\ Written(o.status.last)

\* A copy of a resource, in the informer's store or on its way there, is no
\* newer than the API server, and one of its current version is its current state.
Copied(k, o) ==
  /\ Sound(o) /\ o.rv <= rv
  /\ Exists(api[k]) /\ o.rv = api[k].rv => o = api[k]

StoreOK ==
  /\ api \in [Keys -> Object] /\ cache \in [Keys -> Object] /\ watch \in [Keys -> Seq(Object)]
  /\ \A k \in Keys : /\ Sound(api[k]) /\ api[k].rv <= rv
                     /\ Copied(k, cache[k])
                     /\ \A i \in 1..Len(watch[k]) : Copied(k, watch[k][i])

ClockOK == now \in Nat /\ rv \in Nat /\ edits \in Nat /\ faults \in Nat

QueueOK ==
  /\ note \in [Keys -> Seq(BOOLEAN)] /\ dirty \subseteq Keys /\ inflight \subseteq Keys
  /\ timer \in [Keys -> Times]

\* What the controller remembers is the last schedule it recorded.
MemoryOK ==
  /\ next \in [Keys -> [gen : Nat, at : Times]]
  /\ sched \in [Keys -> [uid : Nat, gen : Nat, at : Times]]
  /\ \A k \in Keys : next[k].gen = sched[k].gen /\ next[k].at = sched[k].at

\* The worker's copy is of the current version.
Current(k) == Exists(api[k]) /\ obj[k].rv = api[k].rv

\* What a worker knows when its patch can still be accepted: the spec it decided
\* on is the current one and its status is no older than the stored one.
UpToDate(k) ==
  /\ obj[k].gen = api[k].gen /\ obj[k].spec = api[k].spec
  /\ rfc3339OrNull(st[k].last) >= api[k].status.last
  /\ pc[k] = "reconcile" => st[k].phase = api[k].status.phase
  /\ pc[k] = "write" /\ st[k].phase = "Running" => api[k].status.phase = "Running"

Held(k) ==
  /\ obj[k].rv <= rv
  /\ st[k].obsGen = obj[k].gen /\ st[k].last <= now /\ Coherent(st[k])
  /\ pc[k] = "running" => Runnable(obj[k].spec)
  /\ Current(k) => UpToDate(k)

JobOK ==
  /\ pc \in [Keys -> Job] /\ obj \in [Keys -> Object] /\ st \in [Keys -> Status]
  /\ ret \in [Keys -> [err : BOOLEAN, wait : Nat]] /\ canceled \in [Keys -> BOOLEAN]
  /\ \A k \in Keys : pc[k] # "idle" => Held(k)

IInv == ClockOK /\ StoreOK /\ QueueOK /\ MemoryOK /\ JobOK

-----------------------------------------------------------------------------
(* Data. *)

\* The constants of the controller are numbers, positive where they divide.
LEMMA ConstantTypes ==
  /\ Second \in Nat /\ Second > 0 /\ RetryBase \in Nat
  /\ Specs \cup {Spec0} \subseteq [valid : BOOLEAN, paused : BOOLEAN, interval : Nat]
<1>1. Spec0 \in [valid : BOOLEAN, paused : BOOLEAN, interval : Nat]
  BY DEF Spec0
<1> QED
  BY <1>1, ControllerAssumption

\* rfc3339OrNull keeps a missing time missing, never runs ahead, keeps the order
\* of times and changes nothing when applied again.
LEMMA Truncation ==
  ASSUME NEW t \in Times
  PROVE  /\ rfc3339OrNull(t) \in Times /\ rfc3339OrNull(t) <= t
         /\ (rfc3339OrNull(t) = NoTime) <=> (t = NoTime)
         /\ rfc3339OrNull(rfc3339OrNull(t)) = rfc3339OrNull(t)
         /\ \A u \in Times : u <= t => rfc3339OrNull(u) <= rfc3339OrNull(t)
<1>1. \A u \in Nat : /\ (u \div Second) * Second \in Nat /\ (u \div Second) * Second <= u
                     /\ (((u \div Second) * Second) \div Second) * Second = (u \div Second) * Second
  BY ConstantTypes
<1>2. \A u, v \in Nat : u <= v => (u \div Second) * Second <= (v \div Second) * Second
  BY ConstantTypes
<1> DEFINE tr(u) == (u \div Second) * Second
<1>3. \A u \in Nat : tr(u) \in Nat /\ tr(u) <= u /\ tr(tr(u)) = tr(u)
  BY <1>1
<1>4. \A u, v \in Nat : u <= v => tr(u) <= tr(v)
  BY <1>2
<1>5. \A u : rfc3339OrNull(u) = IF u = NoTime THEN NoTime ELSE tr(u)
  BY DEF rfc3339OrNull
<1> HIDE DEF tr
<1> QED
  BY <1>3, <1>4, <1>5 DEF Times, NoTime

\* statusToMap truncates the times and keeps everything else.
LEMMA MappedStatus ==
  ASSUME NEW s \in Status
  PROVE  /\ statusToMap(s) \in Status
         /\ statusToMap(s).last = rfc3339OrNull(s.last)
         /\ statusToMap(s).phase = s.phase /\ statusToMap(s).obsGen = s.obsGen
         /\ Coherent(s) => Coherent(statusToMap(s))
<1>1. s.next \in Times /\ s.last \in Times
  BY DEF Status
<1>2. rfc3339OrNull(s.next) \in Times /\ rfc3339OrNull(s.last) \in Times
  BY <1>1, Truncation
<1>3. /\ statusToMap(s) \in Status
      /\ statusToMap(s).last = rfc3339OrNull(s.last)
      /\ statusToMap(s).phase = s.phase /\ statusToMap(s).obsGen = s.obsGen
      /\ statusToMap(s).ready = s.ready /\ statusToMap(s).failed = s.failed
      /\ statusToMap(s).scanning = s.scanning /\ statusToMap(s).fails = s.fails
  BY <1>2 DEF Status, statusToMap
<1>4. s.last # NoTime => statusToMap(s).last # NoTime
  BY <1>1, <1>3, Truncation
<1> QED
  BY <1>3, <1>4 DEF Coherent

\* No resource, and no status.
LEMMA Nothing ==
  /\ NoStatus \in Status /\ NoObj \in Object /\ Coherent(NoStatus)
  /\ NoObj.rv = 0 /\ NoObj.gen = 0 /\ NoObj.status = NoStatus /\ NoObj.uid = 0
  /\ NoStatus.obsGen = 0 /\ NoStatus.last = NoTime
<1>1. NoStatus \in Status /\ Coherent(NoStatus) /\ NoStatus.obsGen = 0 /\ NoStatus.last = NoTime
  BY DEF NoStatus, Status, Coherent, Phases, Messages, Times
<1> QED
  BY <1>1 DEF NoObj, Object

\* A missing resource is in good order.
LEMMA NothingSound ==
  ASSUME now \in Nat PROVE Written(NoTime) /\ Sound(NoObj)
<1>1. Written(NoTime)
  BY DEF Written, rfc3339OrNull, NoTime
<1> QED
  BY <1>1, Nothing DEF Sound

\* When a scan is due is a time.
LEMMA DueTypes ==
  ASSUME ClockOK, MemoryOK, NEW k \in Keys, NEW s \in Status, NEW gen \in Nat, NEW interval \in Nat
  PROVE  /\ dueTime(k, gen, s, interval).due \in Nat
         /\ next[k].gen = gen => dueTime(k, gen, s, interval).due >= next[k].at
<1>1. s.next \in Times /\ s.last \in Times
  BY DEF Status
<1>2. StatusDue(s, interval) \in Nat
  BY <1>1 DEF StatusDue, Times, NoTime, Lesser, ClockOK
<1>3. next[k].at \in Times
  BY DEF MemoryOK
<1> QED
  BY <1>2, <1>3 DEF dueTime, Remembered, Times, NoTime

\* retryDelay returns a delay.
LEMMA RetryType ==
  ASSUME NEW failures \in Nat, NEW interval \in Nat
  PROVE  retryDelay(failures, interval) \in Nat
BY DEF retryDelay

-----------------------------------------------------------------------------
(* The API server. *)

\* A new version of a resource leaves every copy of it behind, and its event is
\* the only copy of the new version.
LEMMA PutStore ==
  ASSUME ClockOK, StoreOK, NEW k \in Keys, NEW o \in Object, Sound(o),
         PutObject(k, o), UNCHANGED <<now, cache>>
  PROVE  /\ StoreOK' /\ rv' = rv + 1
         /\ \A j \in Keys \ {k} : api'[j] = api[j]
         /\ api'[k].uid = o.uid /\ api'[k].gen = o.gen /\ api'[k].spec = o.spec
         /\ api'[k].status = o.status /\ api'[k].rv = rv + 1
<1> DEFINE new == [o EXCEPT !.rv = rv + 1]
<1>1. /\ rv \in Nat /\ rv' = rv + 1 /\ api' = [api EXCEPT ![k] = new]
      /\ watch' = [watch EXCEPT ![k] = Append(@, new)]
  BY DEF PutObject, ClockOK
<1>2. /\ new \in Object /\ new.uid = o.uid /\ new.gen = o.gen /\ new.spec = o.spec
      /\ new.status = o.status /\ new.rv = rv + 1
  BY <1>1 DEF Object
<1> HIDE DEF new
<1>3. /\ api' \in [Keys -> Object] /\ api'[k] = new /\ \A j \in Keys \ {k} : api'[j] = api[j]
      /\ watch' \in [Keys -> Seq(Object)] /\ watch'[k] = Append(watch[k], new)
      /\ \A j \in Keys \ {k} : watch'[j] = watch[j]
  BY <1>1, <1>2 DEF StoreOK
<1>4. Sound(api[k])'
  BY <1>2, <1>3 DEF Sound, Written
<1>5. ASSUME NEW j \in Keys, NEW c \in Object, Copied(j, c) PROVE Copied(j, c)'
  <2>1. c.rv \in Nat /\ c.rv <= rv
    BY <1>5 DEF Copied, Object
  <2>2. Sound(c)'
    BY <1>5 DEF Copied, Sound, Written
  <2>3. CASE j = k
    BY <1>1, <1>2, <1>3, <2>1, <2>2, <2>3 DEF Copied
  <2>4. CASE j # k
    BY <1>1, <1>3, <1>5, <2>1, <2>2, <2>4 DEF Copied
  <2> QED
    BY <2>3, <2>4
<1>6. Copied(k, api[k])'
  BY <1>1, <1>2, <1>4, <1>3 DEF Copied
<1>7. ASSUME NEW j \in Keys
      PROVE  /\ Sound(api[j])' /\ api'[j].rv <= rv' /\ Copied(j, cache[j])'
             /\ \A i \in 1..Len(watch'[j]) : Copied(j, watch[j][i])'
  <2>1. Sound(api[j])' /\ api'[j].rv <= rv'
    <3>1. CASE j = k
      BY <1>1, <1>2, <1>4, <1>3, <3>1
    <3>2. CASE j # k
      <4>1. api[j].rv \in Nat /\ api[j].rv <= rv /\ Sound(api[j])
        BY DEF StoreOK, Object
      <4> QED
        BY <1>1, <1>3, <3>2, <4>1 DEF Sound, Written
    <3> QED
      BY <3>1, <3>2
  <2>2. Copied(j, cache[j])'
    BY <1>5 DEF StoreOK
  <2>3. ASSUME NEW i \in 1..Len(watch'[j]) PROVE Copied(j, watch[j][i])'
    <3>1. watch[j] \in Seq(Object)
      BY DEF StoreOK
    <3>2. CASE j # k
      <4>1. watch'[j] = watch[j] /\ watch[j][i] \in Object /\ Copied(j, watch[j][i])
        BY <1>3, <3>1, <3>2, <2>3 DEF StoreOK
      <4> QED
        BY <1>5, <4>1
    <3>3. CASE j = k /\ i \in 1..Len(watch[k])
      <4>1. watch'[j][i] = watch[j][i] /\ watch[j][i] \in Object /\ Copied(j, watch[j][i])
        <5>1. Len(watch[k]) \in Nat /\ i \in 1..Len(watch[k])
          BY <3>1, <3>3
        <5>2. watch[k][i] \in Object /\ Append(watch[k], new)[i] = watch[k][i]
          BY <3>1, <3>3, <5>1
        <5> QED
          BY <1>3, <3>3, <5>1, <5>2 DEF StoreOK
      <4> QED
        BY <1>5, <4>1
    <3>4. CASE j = k /\ i \notin 1..Len(watch[k])
      <4>1. watch'[j][i] = api'[k]
        BY <1>3, <3>1, <3>4, <2>3
      <4> QED
        BY <1>6, <3>4, <4>1
    <3> QED
      BY <3>2, <3>3, <3>4
  <2> QED
    BY <2>1, <2>2, <2>3
<1> QED
  BY <1>1, <1>2, <1>3, <1>7 DEF StoreOK

\* Nothing about the stored resources changes.
LEMMA StoreStays ==
  ASSUME StoreOK, UNCHANGED <<api, rv, watch, cache, now>> PROVE StoreOK'
BY DEF StoreOK, Copied, Sound, Written

\* A worker whose resource got a new version is out of date; the other workers
\* stand where they stood.
LEMMA JobAfterPut ==
  ASSUME ClockOK, JobOK, NEW k \in Keys, rv' = rv + 1, api'[k].rv = rv + 1,
         \A j \in Keys \ {k} : api'[j] = api[j], UNCHANGED <<now, jobVars>>
  PROVE  JobOK'
<1>1. ASSUME NEW j \in Keys, pc[j] # "idle" PROVE Held(j)'
  <2>1. Held(j) /\ obj[j].rv \in Nat /\ rv \in Nat
    BY <1>1 DEF JobOK, Object, ClockOK
  <2>2. /\ obj'[j] = obj[j] /\ st'[j] = st[j] /\ pc'[j] = pc[j] /\ now' = now
    BY DEF jobVars
  <2>3. CASE j = k
    BY <2>1, <2>2, <2>3 DEF Held, Current
  <2>4. CASE j # k
    BY <2>1, <2>2, <2>4 DEF Held, Current, UpToDate
  <2> QED
    BY <2>3, <2>4
<1> QED
  BY <1>1 DEF JobOK, jobVars

\* Nothing a worker depends on changes.
LEMMA JobStays ==
  ASSUME JobOK, UNCHANGED <<api, rv, now, jobVars>> PROVE JobOK'
BY DEF JobOK, Held, Current, UpToDate, jobVars

\* One worker moves on, and the store is as it was.
LEMMA JobMoves ==
  ASSUME ClockOK, JobOK, NEW k \in Keys, UNCHANGED <<api, rv, now>>,
         \A j \in Keys \ {k} : pc'[j] = pc[j] /\ obj'[j] = obj[j] /\ st'[j] = st[j],
         pc' \in [Keys -> Job], obj' \in [Keys -> Object], st' \in [Keys -> Status],
         ret' \in [Keys -> [err : BOOLEAN, wait : Nat]], canceled' \in [Keys -> BOOLEAN],
         pc'[k] # "idle" => Held(k)'
  PROVE  JobOK'
<1>1. ASSUME NEW j \in Keys \ {k}, pc'[j] # "idle" PROVE Held(j)'
  <2>1. Held(j)
    BY <1>1 DEF JobOK
  <2> QED
    BY <1>1, <2>1 DEF Held, Current, UpToDate
<1> QED
  BY <1>1 DEF JobOK

-----------------------------------------------------------------------------
(* Users, the informer and the clock. *)

\* A user's write of a resource in good order.
LEMMA UserWriteInv ==
  ASSUME IInv, NEW k \in Keys, NEW o \in Object, Sound(o), UserWrite(k, o)
  PROVE  IInv'
<1>1. /\ PutObject(k, o) /\ edits' = edits + 1
      /\ UNCHANGED <<now, infVars, dirty, timer, inflight, next, jobVars, sched, faults>>
  BY DEF UserWrite
<1>2. UNCHANGED <<now, cache>>
  BY <1>1 DEF infVars
<1>3. /\ StoreOK' /\ rv' = rv + 1 /\ \A j \in Keys \ {k} : api'[j] = api[j]
      /\ api'[k].rv = rv + 1
  BY <1>1, <1>2, PutStore DEF IInv
<1>4. ClockOK'
  BY <1>1, <1>3 DEF IInv, ClockOK
<1>5. JobOK'
  BY <1>1, <1>3, JobAfterPut DEF IInv
<1>6. QueueOK' /\ MemoryOK'
  BY <1>1 DEF IInv, QueueOK, MemoryOK, infVars
<1> QED
  BY <1>3, <1>4, <1>5, <1>6 DEF IInv

\* What users write is in good order: the status is kept or empty, and a new
\* generation is larger.
LEMMA UserInv ==
  ASSUME IInv, NEW k \in Keys, User(k)
  PROVE  IInv'
<1>1. api[k] \in Object /\ Sound(api[k]) /\ rv \in Nat /\ now \in Nat
  BY DEF IInv, StoreOK, ClockOK
<1>2. ASSUME NEW s \in Specs, Create(k, s) PROVE IInv'
  <2> DEFINE o == [uid |-> rv + 1, rv |-> 0, gen |-> 1, spec |-> s, status |-> NoStatus]
  <2>1. o \in Object /\ o.gen = 1 /\ o.status = NoStatus
    BY <1>1, Nothing DEF Object
  <2>2. Sound(o)
    <3> HIDE DEF o
    <3> QED BY <1>1, <2>1, Nothing, NothingSound DEF Sound
  <2>3. UserWrite(k, o)
    BY <1>2 DEF Create
  <2> HIDE DEF o
  <2> QED
    BY <2>1, <2>2, <2>3, UserWriteInv
<1>3. ASSUME NEW s \in Specs, EditSpec(k, s) PROVE IInv'
  <2> DEFINE o == [api[k] EXCEPT !.spec = s, !.gen = @ + 1]
  <2>1. o \in Object /\ o.gen = api[k].gen + 1 /\ o.status = api[k].status
    <3>1. api[k].gen + 1 \in Nat /\ s \in Specs \cup {Spec0}
      BY <1>1 DEF Object
    <3> DEFINE p == [api[k] EXCEPT !.spec = s]
    <3>2. p \in Object /\ p.gen = api[k].gen /\ p.status = api[k].status
      BY <1>1, <3>1 DEF Object
    <3>3. o = [p EXCEPT !.gen = api[k].gen + 1]
      BY <1>1 DEF Object
    <3> HIDE DEF o, p
    <3> QED
      BY <3>1, <3>2, <3>3 DEF Object
  <2>2. UserWrite(k, o)
    BY <1>3 DEF EditSpec
  <2>3. api[k].gen \in Nat /\ api[k].status.obsGen \in Nat
    BY <1>1 DEF Object, Status
  <2> HIDE DEF o
  <2>4. Sound(o)
    BY <1>1, <2>1, <2>3 DEF Sound
  <2> QED
    BY <2>1, <2>2, <2>4, UserWriteInv
<1>4. CASE Annotate(k)
  BY <1>1, <1>4, UserWriteInv DEF Annotate
<1>5. CASE Delete(k)
  BY <1>1, <1>5, UserWriteInv, Nothing, NothingSound DEF Delete
<1> QED
  BY <1>2, <1>3, <1>4, <1>5 DEF User

\* The informer takes an event: what it stores is a copy.
LEMMA DeliverInv ==
  ASSUME IInv, NEW k \in Keys, Deliver(k)
  PROVE  IInv'
<1> DEFINE event == Head(watch[k])
<1>1. /\ watch[k] # << >> /\ watch' = [watch EXCEPT ![k] = Tail(@)] /\ cache' = [cache EXCEPT ![k] = event]
      /\ UNCHANGED <<now, api, rv, dirty, timer, inflight, next, jobVars, sched, envVars>>
      /\ Notify(k, Exists(event)) \/ UNCHANGED note
  BY DEF Deliver
<1>2. watch \in [Keys -> Seq(Object)] /\ watch[k] \in Seq(Object) /\ cache \in [Keys -> Object]
  BY DEF IInv, StoreOK
<1>3. event \in Object /\ Copied(k, event)
  BY <1>1, <1>2 DEF IInv, StoreOK
<1>4. \A i \in 1..Len(Tail(watch[k])) : i + 1 \in 1..Len(watch[k]) /\ Tail(watch[k])[i] = watch[k][i + 1]
  BY <1>1, <1>2
<1> HIDE DEF event
<1>5. /\ cache' \in [Keys -> Object] /\ watch' \in [Keys -> Seq(Object)]
      /\ cache'[k] = event /\ watch'[k] = Tail(watch[k])
      /\ \A j \in Keys \ {k} : cache'[j] = cache[j] /\ watch'[j] = watch[j]
  BY <1>1, <1>2, <1>3
<1>6. \A j, o : Copied(j, o) => (/\ Sound(o) /\ o.rv <= rv' /\ (Exists(api'[j]) /\ o.rv = api'[j].rv => o = api'[j]))
  BY <1>1 DEF Copied
<1>7. StoreOK'
  <2>1. \A o : Sound(o) <=> (Coherent(o.status) /\ o.status.obsGen <= o.gen
                             /\ rfc3339OrNull(o.status.last) = o.status.last /\ o.status.last <= now')
    BY <1>1 DEF Sound, Written
  <2>2. ASSUME NEW j \in Keys PROVE Sound(api[j])' /\ api'[j].rv <= rv'
    BY <1>1 DEF IInv, StoreOK, Sound, Written
  <2>3. ASSUME NEW j \in Keys PROVE Copied(j, cache[j])'
    <3>1. Copied(j, cache'[j])
      BY <1>3, <1>5 DEF IInv, StoreOK
    <3> QED
      BY <1>6, <2>1, <3>1 DEF Copied, Sound, Written
  <2>4. ASSUME NEW j \in Keys, NEW i \in 1..Len(watch'[j]) PROVE Copied(j, watch[j][i])'
    <3>1. Copied(j, watch'[j][i])
      BY <1>4, <1>5, <2>4 DEF IInv, StoreOK
    <3> QED
      BY <1>6, <2>1, <3>1 DEF Copied, Sound, Written
  <2> QED
    BY <1>1, <1>5, <2>2, <2>3, <2>4 DEF IInv, StoreOK
<1>8. QueueOK'
  <2>1. Exists(event) \in BOOLEAN
    BY DEF Exists
  <2>2. note' \in [Keys -> Seq(BOOLEAN)]
    <3>1. note \in [Keys -> Seq(BOOLEAN)] /\ note[k] \in Seq(BOOLEAN)
      BY DEF IInv, QueueOK
    <3>2. Append(note[k], Exists(event)) \in Seq(BOOLEAN)
      BY <2>1, <3>1
    <3>3. \/ UNCHANGED note \/ note' = [note EXCEPT ![k] = note[k]]
          \/ note' = [note EXCEPT ![k] = Append(note[k], Exists(event))]
      BY <1>1 DEF Notify
    <3> QED
      BY <3>1, <3>2, <3>3
  <2> QED
    BY <1>1, <2>2 DEF IInv, QueueOK
<1>9. ClockOK' /\ MemoryOK'
  BY <1>1 DEF IInv, ClockOK, MemoryOK, envVars
<1>10. JobOK'
  BY <1>1, JobStays DEF IInv
<1> QED
  BY <1>7, <1>8, <1>9, <1>10 DEF IInv

\* A list after a broken watch skips events; the last one is a copy.
LEMMA RelistInv ==
  ASSUME IInv, NEW k \in Keys, Relist(k)
  PROVE  IInv'
<1>1. /\ Len(watch[k]) > 1 /\ watch' = [watch EXCEPT ![k] = <<Last(@)>>]
      /\ UNCHANGED <<now, api, rv, infVars, dirty, timer, inflight, next, jobVars, sched, envVars>>
  BY DEF Relist
<1>2. watch \in [Keys -> Seq(Object)] /\ watch[k] \in Seq(Object)
  BY DEF IInv, StoreOK
<1>3. Last(watch[k]) = watch[k][Len(watch[k])] /\ Len(watch[k]) \in 1..Len(watch[k]) /\ Last(watch[k]) \in Object
  BY <1>1, <1>2 DEF Last
<1>4. /\ watch' \in [Keys -> Seq(Object)] /\ watch'[k] = <<Last(watch[k])>>
      /\ \A j \in Keys \ {k} : watch'[j] = watch[j]
  BY <1>1, <1>2, <1>3
<1>5. UNCHANGED <<now, api, rv, cache, note>>
  BY <1>1 DEF infVars
<1>6. ASSUME NEW j \in Keys, NEW i \in 1..Len(watch'[j]) PROVE Copied(j, watch[j][i])'
  <2>1. Copied(j, watch'[j][i])
    <3>1. CASE j = k
      <4>1. i = 1 /\ watch'[j][i] = Last(watch[k])
        <5>1. \A e : Len(<<e>>) = 1 /\ <<e>>[1] = e
          OBVIOUS
        <5>2. Len(watch'[j]) = 1 /\ watch'[j][1] = Last(watch[k])
          BY <1>4, <3>1, <5>1
        <5> QED
          BY <1>6, <5>2
      <4> QED
        BY <1>3, <3>1, <4>1 DEF IInv, StoreOK
    <3>2. CASE j # k
      BY <1>4, <1>6, <3>2 DEF IInv, StoreOK
    <3> QED
      BY <3>1, <3>2
  <2> QED
    BY <1>5, <2>1 DEF Copied, Sound, Written
<1>7. ASSUME NEW j \in Keys PROVE Sound(api[j])' /\ api'[j].rv <= rv' /\ Copied(j, cache[j])'
  BY <1>5 DEF IInv, StoreOK, Copied, Sound, Written
<1>8. StoreOK'
  BY <1>4, <1>5, <1>6, <1>7 DEF IInv, StoreOK
<1>9. ClockOK' /\ MemoryOK' /\ QueueOK'
  BY <1>1, <1>5 DEF IInv, ClockOK, MemoryOK, QueueOK, envVars
<1>10. JobOK'
  BY <1>1, JobStays DEF IInv
<1> QED
  BY <1>8, <1>9, <1>10 DEF IInv

\* The event handlers: enqueue only adds the key.
LEMMA enqueueInv ==
  ASSUME IInv, NEW k \in Keys, enqueue(k)
  PROVE  IInv'
<1>1. note[k] # << >> /\ note' = [note EXCEPT ![k] = Tail(@)] /\ dirty' = dirty \cup {k}
      /\ UNCHANGED <<now, apiVars, cache, timer, inflight, next, jobVars, sched, envVars>>
  BY DEF enqueue, Notified
<1>2. StoreOK' /\ JobOK'
  BY <1>1, StoreStays, JobStays DEF IInv, apiVars
<1>3. note' \in [Keys -> Seq(BOOLEAN)]
  BY <1>1 DEF IInv, QueueOK
<1>4. ClockOK' /\ MemoryOK' /\ QueueOK'
  BY <1>1, <1>3 DEF IInv, ClockOK, MemoryOK, QueueOK, envVars, apiVars
<1> QED
  BY <1>2, <1>4 DEF IInv

\* forget drops the remembered schedule and its history together.
LEMMA forgetInv ==
  ASSUME IInv, NEW k \in Keys, forget(k)
  PROVE  IInv'
<1>1. /\ note[k] # << >> /\ note' = [note EXCEPT ![k] = Tail(@)] /\ next' = [next EXCEPT ![k] = NoSched]
      /\ sched' = [sched EXCEPT ![k] = NoHistory] /\ canceled' = [canceled EXCEPT ![k] = @ \/ k \in inflight]
      /\ UNCHANGED <<now, apiVars, cache, dirty, timer, inflight, pc, obj, st, ret, envVars>>
  BY DEF forget, Notified
<1>2. StoreOK'
  BY <1>1, StoreStays DEF IInv, apiVars
<1>3. JobOK'
  BY <1>1 DEF IInv, JobOK, Held, Current, UpToDate, apiVars
<1>4. MemoryOK'
  <2>1. /\ NoSched \in [gen : Nat, at : Times] /\ NoHistory \in [uid : Nat, gen : Nat, at : Times]
        /\ NoSched.gen = NoHistory.gen /\ NoSched.at = NoHistory.at
    BY DEF NoSched, NoHistory, Times
  <2> QED
    BY <1>1, <2>1 DEF IInv, MemoryOK
<1>5. note' \in [Keys -> Seq(BOOLEAN)]
  BY <1>1 DEF IInv, QueueOK
<1>6. ClockOK' /\ QueueOK'
  BY <1>1, <1>5 DEF IInv, ClockOK, QueueOK, envVars, apiVars
<1> QED
  BY <1>2, <1>3, <1>4, <1>6 DEF IInv

\* Time passes: what lies in the past stays there.
LEMMA TickInv ==
  ASSUME IInv, Tick
  PROVE  IInv'
<1>1. now' = now + 1 /\ now \in Nat
      /\ UNCHANGED <<apiVars, infVars, dirty, timer, inflight, next, jobVars, sched, envVars>>
  BY DEF Tick, IInv, ClockOK
<1>2. ASSUME NEW o \in Object, Sound(o) PROVE Sound(o)'
  <2>1. o.status.last \in Times
    BY DEF Object, Status
  <2> QED
    BY <1>1, <1>2, <2>1 DEF Sound, Written, Times, NoTime
<1>3. ASSUME NEW k \in Keys, NEW o \in Object, Copied(k, o) PROVE Copied(k, o)'
  BY <1>1, <1>2, <1>3 DEF Copied, apiVars
<1>4. StoreOK'
  <2>1. UNCHANGED <<api, rv, watch, cache>>
    BY <1>1 DEF apiVars, infVars
  <2>2. ASSUME NEW j \in Keys
        PROVE  /\ Sound(api[j])' /\ api'[j].rv <= rv' /\ Copied(j, cache[j])'
               /\ \A i \in 1..Len(watch'[j]) : Copied(j, watch[j][i])'
    <3>1. api[j] \in Object /\ cache[j] \in Object /\ watch[j] \in Seq(Object)
      BY DEF IInv, StoreOK
    <3>2. \A i \in 1..Len(watch[j]) : watch[j][i] \in Object
      BY <3>1
    <3> QED
      BY <1>2, <1>3, <2>1, <3>1, <3>2 DEF IInv, StoreOK
  <2> QED
    BY <2>1, <2>2 DEF IInv, StoreOK
<1>5. JobOK'
  <2>1. UNCHANGED <<api, rv, pc, obj, st, ret, canceled>>
    BY <1>1 DEF apiVars, jobVars
  <2>2. ASSUME NEW k \in Keys, pc[k] # "idle" PROVE Held(k)'
    <3>1. Held(k) /\ st[k].last \in Times
      BY <2>2 DEF IInv, JobOK, Status
    <3> QED
      BY <1>1, <2>1, <3>1 DEF Held, Current, UpToDate, Times, NoTime
  <2> QED
    BY <2>1, <2>2 DEF IInv, JobOK
<1>6. ClockOK' /\ MemoryOK' /\ QueueOK'
  BY <1>1 DEF IInv, ClockOK, MemoryOK, QueueOK, envVars, apiVars, infVars
<1> QED
  BY <1>4, <1>5, <1>6 DEF IInv

-----------------------------------------------------------------------------
(* The work queue and the worker loop. *)

\* The poll ticker and a delayed add only queue keys.
LEMMA requeueLoopInv ==
  ASSUME IInv, requeueLoop
  PROVE  IInv'
<1>1. /\ dirty' = dirty \cup {k \in Keys : Exists(cache[k])}
      /\ UNCHANGED <<now, apiVars, infVars, timer, inflight, next, jobVars, sched, envVars>>
  BY DEF requeueLoop
<1>2. StoreOK' /\ JobOK'
  BY <1>1, StoreStays, JobStays DEF IInv, apiVars, infVars
<1>3. ClockOK' /\ MemoryOK' /\ QueueOK'
  BY <1>1 DEF IInv, ClockOK, MemoryOK, QueueOK, envVars, apiVars, infVars
<1> QED
  BY <1>2, <1>3 DEF IInv

\* A delayed add that comes due.
LEMMA FireTimerInv ==
  ASSUME IInv, NEW k \in Keys, FireTimer(k)
  PROVE  IInv'
<1>1. /\ dirty' = dirty \cup {k} /\ timer' = [timer EXCEPT ![k] = NoTime]
      /\ UNCHANGED <<now, apiVars, infVars, inflight, next, jobVars, sched, envVars>>
  BY DEF FireTimer
<1>2. StoreOK' /\ JobOK'
  BY <1>1, StoreStays, JobStays DEF IInv, apiVars, infVars
<1>3. timer' \in [Keys -> Times]
  BY <1>1 DEF IInv, QueueOK, Times
<1>4. ClockOK' /\ MemoryOK' /\ QueueOK'
  BY <1>1, <1>3 DEF IInv, ClockOK, MemoryOK, QueueOK, envVars, apiVars, infVars
<1> QED
  BY <1>2, <1>4 DEF IInv

\* A worker starts from the informer's copy: when that is current, so is the
\* status it starts from.
LEMMA processNextInv ==
  ASSUME IInv, NEW k \in Keys, processNext(k)
  PROVE  IInv'
<1>1. /\ dirty' = dirty \ {k}
      /\ UNCHANGED <<now, apiVars, infVars, timer, inflight, next, ret, canceled, sched, envVars>>
  BY DEF processNext
<1>2. StoreOK'
  BY <1>1, StoreStays DEF IInv, apiVars, infVars
<1>3. ClockOK' /\ MemoryOK' /\ QueueOK'
  BY <1>1 DEF IInv, ClockOK, MemoryOK, QueueOK, envVars, apiVars, infVars
<1>4. CASE UNCHANGED <<pc, obj, st>>
  BY <1>1, <1>2, <1>3, <1>4, JobStays DEF IInv, jobVars, apiVars
<1>5. CASE /\ pc' = [pc EXCEPT ![k] = "reconcile"] /\ obj' = [obj EXCEPT ![k] = cache[k]]
           /\ st' = [st EXCEPT ![k] = [cache[k].status EXCEPT !.obsGen = cache[k].gen]]
  <2> DEFINE s == [cache[k].status EXCEPT !.obsGen = cache[k].gen]
  <2>1. cache[k] \in Object /\ cache[k].status \in Status /\ cache[k].gen \in Nat /\ Copied(k, cache[k])
    BY DEF IInv, StoreOK, Object
  <2>2. /\ s \in Status /\ s.obsGen = cache[k].gen /\ s.last = cache[k].status.last /\ s.phase = cache[k].status.phase
        /\ s.fails = cache[k].status.fails /\ s.ready = cache[k].status.ready
        /\ s.failed = cache[k].status.failed /\ s.scanning = cache[k].status.scanning
    BY <2>1 DEF Status
  <2> HIDE DEF s
  <2>3. /\ pc' \in [Keys -> Job] /\ obj' \in [Keys -> Object] /\ st' \in [Keys -> Status]
        /\ pc'[k] = "reconcile" /\ obj'[k] = cache[k] /\ st'[k] = s
        /\ \A j \in Keys \ {k} : pc'[j] = pc[j] /\ obj'[j] = obj[j] /\ st'[j] = st[j]
    BY <1>5, <2>1, <2>2 DEF IInv, JobOK, Job, s
  <2>4. Coherent(s) /\ s.last <= now /\ rfc3339OrNull(s.last) = s.last /\ cache[k].rv <= rv
    BY <2>1, <2>2 DEF Copied, Sound, Written, Coherent
  <2>5. s.last \in Times /\ UNCHANGED <<api, rv, now>>
    BY <1>1, <2>2 DEF Status, apiVars
  <2>6. Current(k)' => UpToDate(k)'
    <3>1. Exists(api[k]) /\ cache[k].rv = api[k].rv => cache[k] = api[k]
      BY <2>1 DEF Copied
    <3> QED
      BY <2>2, <2>3, <2>4, <2>5, <3>1 DEF Current, UpToDate, Times, NoTime
  <2>7. Held(k)'
    BY <2>2, <2>3, <2>4, <2>5, <2>6 DEF Held
  <2>8. JobOK'
    BY <1>1, <2>3, <2>5, <2>7, JobMoves DEF IInv, JobOK
  <2> QED
    BY <1>2, <1>3, <2>8 DEF IInv
<1> QED
  BY <1>4, <1>5 DEF processNext

\* reconcile returned: the worker lets go of its copy, whatever became of the
\* resource meanwhile, and may add the key again later.
LEMMA ReturnJob ==
  ASSUME IInv, NEW k \in Keys, NEW err \in BOOLEAN, NEW wait \in Nat, Return(k, err, wait),
         \A j \in Keys \ {k} : api'[j] = api[j], rv' \in Nat, rv' >= rv, UNCHANGED now
  PROVE  JobOK' /\ timer' \in [Keys -> Times] /\ pc'[k] = "idle"
<1>1. NoRet \in [err : BOOLEAN, wait : Nat]
  BY DEF NoRet
<1>2. /\ pc' \in [Keys -> Job] /\ obj' \in [Keys -> Object] /\ st' \in [Keys -> Status]
      /\ pc'[k] = "idle" /\ \A j \in Keys \ {k} : pc'[j] = pc[j] /\ obj'[j] = obj[j] /\ st'[j] = st[j]
  BY Nothing DEF IInv, JobOK, Return, Job
<1>3. ret' \in [Keys -> [err : BOOLEAN, wait : Nat]] /\ canceled' \in [Keys -> BOOLEAN]
  BY <1>1 DEF IInv, JobOK, Return
<1>4. ASSUME NEW j \in Keys \ {k}, pc'[j] # "idle" PROVE Held(j)'
  <2>1. Held(j) /\ obj[j].rv \in Nat /\ rv \in Nat
    BY <1>2, <1>4 DEF IInv, JobOK, Object, ClockOK
  <2> QED
    BY <1>2, <1>4, <2>1 DEF Held, Current, UpToDate
<1>5. timer' \in [Keys -> Times]
  <2>1. now \in Nat /\ timer \in [Keys -> Times] /\ timer[k] \in Times
    BY DEF IInv, ClockOK, QueueOK
  <2>2. ASSUME NEW at \in Nat, AddAfter(k, at) PROVE timer' \in [Keys -> Times]
    <3> DEFINE t == IF timer[k] = NoTime THEN at ELSE Lesser(timer[k], at)
    <3>1. t \in Times
      BY <2>1 DEF Lesser, Times
    <3>2. timer' = [timer EXCEPT ![k] = t]
      BY <2>2 DEF AddAfter
    <3> HIDE DEF t
    <3> QED
      BY <2>1, <3>1, <3>2
  <2> QED
    BY <2>1, <2>2 DEF Return
<1> QED
  BY <1>2, <1>3, <1>4, <1>5 DEF JobOK

\* The worker goes on to write a status that is no step back.
LEMMA WriteJob ==
  ASSUME IInv, NEW k \in Keys, NEW s \in Status, NEW err \in BOOLEAN, NEW wait \in Nat,
         WriteThenReturn(k, s, err, wait), UNCHANGED <<api, rv, now>>, pc[k] # "idle",
         Coherent(s), s.obsGen = obj[k].gen, s.last <= now, rfc3339OrNull(s.last) >= rfc3339OrNull(st[k].last),
         s.phase = "Running" => s.phase = st[k].phase /\ pc[k] = "reconcile"
  PROVE  JobOK' /\ timer' = timer
<1>1. [err |-> err, wait |-> wait] \in [err : BOOLEAN, wait : Nat]
  OBVIOUS
<1>2. /\ pc' \in [Keys -> Job] /\ obj' = obj /\ obj \in [Keys -> Object] /\ st' \in [Keys -> Status]
      /\ pc'[k] = "write" /\ st'[k] = s
      /\ \A j \in Keys \ {k} : pc'[j] = pc[j] /\ obj'[j] = obj[j] /\ st'[j] = st[j]
  BY DEF IInv, JobOK, WriteThenReturn, Job
<1>3. ret' \in [Keys -> [err : BOOLEAN, wait : Nat]] /\ canceled' \in [Keys -> BOOLEAN] /\ timer' = timer
  BY <1>1 DEF IInv, JobOK, WriteThenReturn
<1>4. Held(k)
  BY DEF IInv, JobOK
<1>5. Current(k)' => UpToDate(k)'
  <2>1. s.last \in Times /\ st[k].last \in Times /\ api[k].status.last \in Times
    BY DEF Status, Object, IInv, JobOK, StoreOK
  <2>2. rfc3339OrNull(s.last) \in Times /\ rfc3339OrNull(st[k].last) \in Times
    BY <2>1, Truncation
  <2>3. Current(k) => rfc3339OrNull(s.last) >= api[k].status.last
    BY <1>4, <2>1, <2>2 DEF Held, UpToDate, Times, NoTime
  <2> QED
    BY <1>2, <1>4, <2>3 DEF Current, UpToDate, Held
<1>6. Held(k)'
  BY <1>2, <1>4, <1>5 DEF Held
<1> QED
  BY <1>2, <1>3, <1>6, JobMoves DEF IInv

-----------------------------------------------------------------------------
(* reconcile. *)

\* What a worker with a key works from.
LEMMA WorkerFacts ==
  ASSUME IInv, NEW k \in Keys, pc[k] # "idle"
  PROVE  /\ Held(k) /\ st[k] \in Status /\ obj[k] \in Object /\ now \in Nat /\ obj[k].gen \in Nat
         /\ SpecOf(k).interval \in Nat /\ SpecOf(k).valid \in BOOLEAN /\ SpecOf(k).paused \in BOOLEAN
         /\ st[k].last \in Times /\ rfc3339OrNull(st[k].last) \in Times
<1>1. Held(k) /\ st[k] \in Status /\ obj[k] \in Object /\ now \in Nat
  BY DEF IInv, JobOK, ClockOK
<1>2. obj[k].spec \in [valid : BOOLEAN, paused : BOOLEAN, interval : Nat] /\ obj[k].gen \in Nat
  BY <1>1, ConstantTypes DEF Object
<1>3. st[k].last \in Times
  BY <1>1 DEF Status
<1> QED
  BY <1>1, <1>2, <1>3, Truncation DEF SpecOf

\* The parts of the state a step of reconcile before its patch leaves alone.
LEMMA ReconcileRest ==
  ASSUME IInv, UNCHANGED <<now, apiVars, infVars, dirty, inflight, envVars>>,
         timer' \in [Keys -> Times], JobOK', MemoryOK'
  PROVE  IInv'
<1>1. StoreOK'
  BY StoreStays DEF IInv, apiVars, infVars
<1>2. ClockOK' /\ QueueOK'
  BY DEF IInv, ClockOK, QueueOK, envVars, apiVars, infVars
<1> QED
  BY <1>1, <1>2 DEF IInv

\* The memory does not change.
LEMMA MemoryStays ==
  ASSUME MemoryOK, UNCHANGED <<next, sched>> PROVE MemoryOK'
BY DEF MemoryOK

\* reconcile returns without a write.
LEMMA ReturnInv ==
  ASSUME IInv, NEW k \in Keys, NEW err \in BOOLEAN, NEW wait \in Nat, Return(k, err, wait),
         UNCHANGED <<now, apiVars, infVars, dirty, inflight, next, sched, envVars>>
  PROVE  IInv'
<1>1. rv \in Nat /\ UNCHANGED <<api, rv>>
  BY DEF IInv, ClockOK, apiVars
<1>2. JobOK' /\ timer' \in [Keys -> Times]
  BY <1>1, ReturnJob
<1> QED
  BY <1>2, ReconcileRest, MemoryStays DEF IInv

\* markInvalid and markPaused write a status with setConditions, or return.
LEMMA markInvalidInv ==
  ASSUME IInv, NEW k \in Keys, markInvalid(k)
  PROVE  IInv'
<1> DEFINE s == setConditions([st[k] EXCEPT !.phase = "Failed", !.msg = "invalid"], FALSE, TRUE)
<1>1. /\ pc[k] = "reconcile" /\ UNCHANGED <<now, apiVars, infVars, dirty, inflight, next, sched, envVars>>
      /\ Return(k, FALSE, 0) \/ WriteThenReturn(k, s, FALSE, 0)
  BY DEF markInvalid
<1>2. CASE Return(k, FALSE, 0)
  BY <1>1, <1>2, ReturnInv
<1>3. CASE WriteThenReturn(k, s, FALSE, 0)
  <2>1. Held(k) /\ st[k] \in Status /\ now \in Nat /\ rfc3339OrNull(st[k].last) \in Times
    BY <1>1, WorkerFacts
  <2>2. /\ s \in Status /\ s.last = st[k].last /\ s.obsGen = st[k].obsGen /\ s.phase = "Failed"
        /\ s.ready = FALSE /\ s.failed = TRUE /\ s.scanning = FALSE
    BY <2>1 DEF Status, setConditions, Phases, Messages
  <2> HIDE DEF s
  <2>3. Coherent(s) /\ s.obsGen = obj[k].gen /\ s.last <= now /\ rfc3339OrNull(s.last) >= rfc3339OrNull(st[k].last)
    BY <2>1, <2>2 DEF Coherent, Held, Times, NoTime
  <2>4. JobOK' /\ timer' = timer
    BY <1>1, <1>3, <2>2, <2>3, WriteJob DEF apiVars
  <2> QED
    BY <1>1, <2>4, ReconcileRest, MemoryStays DEF IInv, QueueOK
<1> QED
  BY <1>1, <1>2, <1>3

\* markPaused likewise.
LEMMA markPausedInv ==
  ASSUME IInv, NEW k \in Keys, markPaused(k)
  PROVE  IInv'
<1> DEFINE s == setConditions([st[k] EXCEPT !.phase = "Paused", !.msg = "paused"], FALSE, FALSE)
<1>1. /\ pc[k] = "reconcile" /\ UNCHANGED <<now, apiVars, infVars, dirty, inflight, next, sched, envVars>>
      /\ Return(k, FALSE, 0) \/ WriteThenReturn(k, s, FALSE, 0)
  BY DEF markPaused
<1>2. CASE Return(k, FALSE, 0)
  BY <1>1, <1>2, ReturnInv
<1>3. CASE WriteThenReturn(k, s, FALSE, 0)
  <2>1. Held(k) /\ st[k] \in Status /\ now \in Nat /\ rfc3339OrNull(st[k].last) \in Times
    BY <1>1, WorkerFacts
  <2>2. /\ s \in Status /\ s.last = st[k].last /\ s.obsGen = st[k].obsGen /\ s.phase = "Paused"
        /\ s.ready = FALSE /\ s.failed = FALSE /\ s.scanning = FALSE
    BY <2>1 DEF Status, setConditions, Phases, Messages
  <2> HIDE DEF s
  <2>3. Coherent(s) /\ s.obsGen = obj[k].gen /\ s.last <= now /\ rfc3339OrNull(s.last) >= rfc3339OrNull(st[k].last)
    BY <2>1, <2>2 DEF Coherent, Held, Times, NoTime
  <2>4. JobOK' /\ timer' = timer
    BY <1>1, <1>3, <2>2, <2>3, WriteJob DEF apiVars
  <2> QED
    BY <1>1, <2>4, ReconcileRest, MemoryStays DEF IInv, QueueOK
<1> QED
  BY <1>1, <1>2, <1>3

\* Not due: the status written keeps its phase, so it says Running only if the
\* stored one does.
LEMMA notDueInv ==
  ASSUME IInv, NEW k \in Keys, notDue(k)
  PROVE  IInv'
<1> DEFINE d == Due(k).due
           s == [st[k] EXCEPT !.next = d, !.phase = IF @ = "" THEN "Pending" ELSE @]
<1>1. /\ pc[k] = "reconcile" /\ UNCHANGED <<now, apiVars, infVars, dirty, inflight, next, sched, envVars>>
      /\ Return(k, FALSE, d - now) \/ WriteThenReturn(k, s, FALSE, d - now)
      /\ now < d
  BY DEF notDue
<1>2. Held(k) /\ st[k] \in Status /\ now \in Nat /\ rfc3339OrNull(st[k].last) \in Times /\ obj[k].gen \in Nat
      /\ SpecOf(k).interval \in Nat
  BY <1>1, WorkerFacts
<1>3. d \in Nat
  BY <1>2, DueTypes DEF Due, IInv
<1>4. d - now \in Nat
  BY <1>1, <1>2, <1>3
<1>5. CASE Return(k, FALSE, d - now)
  <2> HIDE DEF d
  <2> QED BY <1>1, <1>4, <1>5, ReturnInv
<1>6. CASE WriteThenReturn(k, s, FALSE, d - now)
  <2> HIDE DEF d
  <2>2. /\ s \in Status /\ s.last = st[k].last /\ s.obsGen = st[k].obsGen
        /\ s.phase = IF st[k].phase = "" THEN "Pending" ELSE st[k].phase
        /\ s.ready = st[k].ready /\ s.failed = st[k].failed /\ s.scanning = st[k].scanning
        /\ s.fails = st[k].fails
    BY <1>2, <1>3 DEF Status, Phases, Messages, Times
  <2> HIDE DEF s
  <2>3. s.obsGen = obj[k].gen /\ s.last <= now /\ rfc3339OrNull(s.last) >= rfc3339OrNull(st[k].last)
    <3>1. s.last = st[k].last /\ s.obsGen = st[k].obsGen
      BY <2>2
    <3>2. st[k].obsGen = obj[k].gen /\ st[k].last <= now
      BY <1>2 DEF Held
    <3> QED
      BY <1>2, <3>1, <3>2 DEF Times, NoTime
  <2>6. Coherent(s)
    <3>1. Coherent(st[k])
      BY <1>2 DEF Held
    <3>2. CASE st[k].phase = ""
      BY <2>2, <3>1, <3>2 DEF Coherent
    <3>3. CASE st[k].phase # ""
      BY <2>2, <3>1, <3>3 DEF Coherent
    <3> QED
      BY <3>2, <3>3
  <2>4. s.phase = "Running" => s.phase = st[k].phase /\ pc[k] = "reconcile"
    BY <1>1, <2>2
  <2>5. JobOK' /\ timer' = timer
    BY <1>1, <1>4, <1>6, <2>2, <2>3, <2>4, <2>6, WriteJob DEF apiVars
  <2> QED
    BY <1>1, <2>5, ReconcileRest, MemoryStays DEF IInv, QueueOK
<1> QED
  BY <1>1, <1>5, <1>6

\* A scan that is due: the status to write says Running, and the spec it was
\* decided on can be run.
LEMMA startScanInv ==
  ASSUME IInv, NEW k \in Keys, startScan(k)
  PROVE  IInv'
<1> DEFINE s == [st[k] EXCEPT !.phase = "Running", !.msg = "running", !.scanning = TRUE]
<1>1. /\ pc[k] = "reconcile" /\ Runnable(SpecOf(k)) /\ pc' = [pc EXCEPT ![k] = "running"]
      /\ st' = [st EXCEPT ![k].phase = "Running", ![k].msg = "running", ![k].scanning = TRUE]
      /\ UNCHANGED <<now, apiVars, infVars, dirty, timer, inflight, next, obj, ret, canceled, sched, envVars>>
  BY DEF startScan
<1>2. Held(k) /\ st[k] \in Status /\ st \in [Keys -> Status]
  BY <1>1, WorkerFacts DEF IInv, JobOK
<1>3. /\ s \in Status /\ s.last = st[k].last /\ s.obsGen = st[k].obsGen /\ s.phase = "Running"
      /\ s.ready = st[k].ready /\ s.failed = st[k].failed /\ s.scanning = TRUE
      /\ s.fails = st[k].fails
  BY <1>2 DEF Status, Phases, Messages
<1>4. st' = [st EXCEPT ![k] = s]
  BY <1>1, <1>2
<1> HIDE DEF s
<1>5. /\ pc' \in [Keys -> Job] /\ st' \in [Keys -> Status] /\ pc'[k] = "running" /\ st'[k] = s
      /\ \A j \in Keys \ {k} : pc'[j] = pc[j] /\ st'[j] = st[j]
  <2>1. pc' \in [Keys -> Job] /\ pc'[k] = "running" /\ \A j \in Keys \ {k} : pc'[j] = pc[j]
    BY <1>1 DEF IInv, JobOK, Job
  <2>2. st' \in [Keys -> Status] /\ st'[k] = s /\ \A j \in Keys \ {k} : st'[j] = st[j]
    BY <1>2, <1>3, <1>4
  <2> QED
    BY <2>1, <2>2
<1>6. Held(k)'
  BY <1>1, <1>2, <1>3, <1>5 DEF Held, Coherent, Current, UpToDate, SpecOf, apiVars
<1>7. JobOK'
  BY <1>1, <1>5, <1>6, JobMoves DEF IInv, JobOK, apiVars
<1> QED
  BY <1>1, <1>7, ReconcileRest, MemoryStays DEF IInv, QueueOK

\* runScan registers the scan.
LEMMA runScanInv ==
  ASSUME IInv, NEW k \in Keys, runScan(k)
  PROVE  IInv'
<1>1. /\ pc[k] = "starting" /\ pc' = [pc EXCEPT ![k] = "scanning"] /\ inflight' = inflight \cup {k}
      /\ UNCHANGED <<now, apiVars, infVars, dirty, timer, next, obj, st, ret, canceled, sched, envVars>>
  BY DEF runScan
<1>2. pc' \in [Keys -> Job] /\ pc'[k] = "scanning" /\ \A j \in Keys \ {k} : pc'[j] = pc[j]
  BY <1>1 DEF IInv, JobOK, Job
<1>3. Held(k)'
  BY <1>1, <1>2, WorkerFacts DEF Held, Current, UpToDate, apiVars
<1>4. JobOK'
  BY <1>1, <1>2, <1>3, JobMoves DEF IInv, JobOK, apiVars
<1>5. StoreOK' /\ MemoryOK'
  BY <1>1, StoreStays, MemoryStays DEF IInv, apiVars, infVars
<1>6. ClockOK' /\ QueueOK'
  BY <1>1 DEF IInv, ClockOK, QueueOK, envVars, apiVars, infVars
<1> QED
  BY <1>4, <1>5, <1>6 DEF IInv

\* The scan returns, canceled or not.
LEMMA scanReturnsInv ==
  ASSUME IInv, NEW k \in Keys, NEW failed \in BOOLEAN, scanReturns(k, failed)
  PROVE  IInv'
<1>1. /\ pc[k] = "scanning" /\ inflight' = inflight \ {k}
      /\ UNCHANGED <<now, apiVars, infVars, dirty, next, sched, envVars>>
  BY DEF scanReturns
<1>2. JobOK' /\ timer' \in [Keys -> Times]
  <2>1. CASE Return(k, FALSE, 0)
    <3>1. rv \in Nat /\ UNCHANGED <<api, rv>>
      BY <1>1 DEF IInv, ClockOK, apiVars
    <3>2. FALSE \in BOOLEAN /\ 0 \in Nat /\ rv' \in Nat /\ rv' >= rv /\ UNCHANGED now
      BY <1>1, <3>1
    <3>3. \A j \in Keys \ {k} : api'[j] = api[j]
      BY <3>1
    <3> QED
      BY <2>1, <3>2, <3>3, ReturnJob
  <2>2. CASE /\ pc' = [pc EXCEPT ![k] = IF failed THEN "failed" ELSE "succeeded"]
             /\ UNCHANGED <<obj, st, ret, canceled, timer>>
    <3>1. /\ pc' \in [Keys -> Job] /\ pc'[k] \in {"failed", "succeeded"}
          /\ \A j \in Keys \ {k} : pc'[j] = pc[j]
      BY <2>2 DEF IInv, JobOK, Job
    <3>2. Held(k)'
      BY <1>1, <2>2, <3>1, WorkerFacts DEF Held, Current, UpToDate, apiVars
    <3>3. JobOK'
      BY <1>1, <2>2, <3>1, <3>2, JobMoves DEF IInv, JobOK, apiVars
    <3>4. timer' \in [Keys -> Times]
      BY <2>2 DEF IInv, QueueOK
    <3> QED
      BY <3>3, <3>4
  <2> QED
    BY <2>1, <2>2 DEF scanReturns
<1>3. StoreOK' /\ MemoryOK'
  BY <1>1, StoreStays, MemoryStays DEF IInv, apiVars, infVars
<1>4. ClockOK' /\ QueueOK'
  BY <1>1, <1>2 DEF IInv, ClockOK, QueueOK, envVars, apiVars, infVars
<1> QED
  BY <1>2, <1>3, <1>4 DEF IInv

\* remember keeps the memory and its history alike.
LEMMA rememberMemory ==
  ASSUME MemoryOK, NEW k \in Keys, NEW at \in Nat, obj[k] \in Object, remember(k, at)
  PROVE  MemoryOK'
<1>1. obj[k].gen \in Nat /\ obj[k].uid \in Nat /\ at \in Times
  BY DEF Object, Times
<1> DEFINE n == [gen |-> obj[k].gen, at |-> at]
           h == [uid |-> obj[k].uid, gen |-> obj[k].gen, at |-> at]
<1>2. n \in [gen : Nat, at : Times] /\ h \in [uid : Nat, gen : Nat, at : Times] /\ n.gen = h.gen /\ n.at = h.at
  BY <1>1
<1>3. next' = [next EXCEPT ![k] = n] /\ sched' = [sched EXCEPT ![k] = h]
  BY DEF remember
<1> HIDE DEF n, h
<1> QED
  BY <1>2, <1>3 DEF MemoryOK

\* A failure keeps the time of the last success.
LEMMA recordFailureInv ==
  ASSUME IInv, NEW k \in Keys, recordFailure(k)
  PROVE  IInv'
<1> DEFINE fails == st[k].fails + 1
           at == now + retryDelay(fails, SpecOf(k).interval)
           s == setConditions([st[k] EXCEPT !.fails = fails, !.phase = "Failed", !.msg = "failed", !.next = at],
                              FALSE, TRUE)
<1>1. /\ pc[k] = "failed" /\ remember(k, at) /\ WriteThenReturn(k, s, TRUE, 0)
      /\ UNCHANGED <<now, apiVars, infVars, dirty, inflight, envVars>>
  BY DEF recordFailure
<1>2. /\ Held(k) /\ st[k] \in Status /\ obj[k] \in Object /\ now \in Nat /\ SpecOf(k).interval \in Nat
      /\ rfc3339OrNull(st[k].last) \in Times
  BY <1>1, WorkerFacts
<1>3. fails \in Nat
  BY <1>2 DEF Status
<1> HIDE DEF fails
<1>4. at \in Nat
  <2>1. retryDelay(fails, SpecOf(k).interval) \in Nat
    BY <1>2, <1>3, RetryType
  <2> QED
    BY <1>2, <2>1
<1> HIDE DEF at
<1>5. /\ s \in Status /\ s.last = st[k].last /\ s.obsGen = st[k].obsGen /\ s.phase = "Failed"
      /\ s.ready = FALSE /\ s.failed = TRUE /\ s.scanning = FALSE
  BY <1>2, <1>3, <1>4 DEF Status, setConditions, Phases, Messages, Times
<1> HIDE DEF s
<1>6. Coherent(s) /\ s.obsGen = obj[k].gen /\ s.last <= now /\ rfc3339OrNull(s.last) >= rfc3339OrNull(st[k].last)
  BY <1>2, <1>5 DEF Coherent, Held, Times, NoTime
<1>7. JobOK' /\ timer' = timer
  BY <1>1, <1>5, <1>6, WriteJob DEF apiVars
<1>8. MemoryOK'
  BY <1>1, <1>2, <1>4, rememberMemory DEF IInv
<1> QED
  BY <1>1, <1>7, <1>8, ReconcileRest DEF IInv, QueueOK

\* A success moves it on, truncated to the second as it will be written.
LEMMA recordSuccessInv ==
  ASSUME IInv, NEW k \in Keys, recordSuccess(k)
  PROVE  IInv'
<1> DEFINE at == now + SpecOf(k).interval
           s == setConditions([st[k] EXCEPT !.fails = 0, !.phase = "Succeeded", !.msg = "completed",
                                            !.last = now, !.next = at], TRUE, FALSE)
<1>1. /\ pc[k] = "succeeded" /\ remember(k, at) /\ WriteThenReturn(k, s, FALSE, SpecOf(k).interval)
      /\ UNCHANGED <<now, apiVars, infVars, dirty, inflight, envVars>>
  BY DEF recordSuccess
<1>2. /\ Held(k) /\ st[k] \in Status /\ obj[k] \in Object /\ now \in Nat /\ SpecOf(k).interval \in Nat
      /\ rfc3339OrNull(st[k].last) \in Times /\ st[k].last \in Times
  BY <1>1, WorkerFacts
<1>4. at \in Nat /\ now \in Times
  BY <1>2 DEF Times
<1> HIDE DEF at
<1>5. /\ s \in Status /\ s.last = now /\ s.obsGen = st[k].obsGen /\ s.phase = "Succeeded" /\ s.fails = 0
      /\ s.ready = TRUE /\ s.failed = FALSE /\ s.scanning = FALSE
  BY <1>2, <1>4 DEF Status, setConditions, Phases, Messages, Times
<1> HIDE DEF s
<1>6. rfc3339OrNull(now) >= rfc3339OrNull(st[k].last)
  <2>1. st[k].last <= now
    BY <1>2 DEF Held
  <2>2. rfc3339OrNull(st[k].last) <= rfc3339OrNull(now) /\ rfc3339OrNull(now) \in Times
    BY <1>2, <1>4, <2>1, Truncation
  <2> QED
    BY <1>2, <2>2 DEF Times, NoTime
<1>7. Coherent(s) /\ s.obsGen = obj[k].gen /\ s.last <= now
  BY <1>2, <1>5 DEF Coherent, Held, NoTime
<1>8. JobOK' /\ timer' = timer
  BY <1>1, <1>2, <1>5, <1>6, <1>7, WriteJob DEF apiVars
<1>9. MemoryOK'
  BY <1>1, <1>2, <1>4, rememberMemory DEF IInv
<1> QED
  BY <1>1, <1>8, <1>9, ReconcileRest DEF IInv, QueueOK

-----------------------------------------------------------------------------
(* patchStatus. *)

\* An accepted patch: the resource is the one the worker decided on, the status
\* it leaves is in good order and no step back.
LEMMA PatchedResource ==
  ASSUME IInv, NEW k \in Keys, Patching(k), Guarded(k)
  PROVE  /\ [api[k] EXCEPT !.status = statusToMap(st[k])] \in Object
         /\ Sound([api[k] EXCEPT !.status = statusToMap(st[k])])
         /\ statusToMap(st[k]).last >= api[k].status.last
         /\ statusToMap(st[k]).obsGen = api[k].gen
         /\ UpToDate(k)
<1> DEFINE o == [api[k] EXCEPT !.status = statusToMap(st[k])]
           m == statusToMap(st[k])
<1>1. pc[k] # "idle"
  BY DEF Patching
<1>2. Held(k) /\ st[k] \in Status /\ now \in Nat /\ st[k].last \in Times /\ rfc3339OrNull(st[k].last) \in Times
  BY <1>1, WorkerFacts
<1>3. UpToDate(k)
  BY <1>2 DEF Held, Current, Guarded
<1>4. /\ m \in Status /\ m.last = rfc3339OrNull(st[k].last) /\ m.obsGen = st[k].obsGen /\ Coherent(m)
  BY <1>2, MappedStatus DEF Held
<1>5. api[k] \in Object /\ api[k].gen \in Nat /\ api[k].status.last \in Times
  BY DEF IInv, StoreOK, Object, Status
<1> HIDE DEF m
<1>6. o \in Object /\ o.status = m /\ o.gen = api[k].gen
  BY <1>4, <1>5 DEF Object, m
<1>7. m.last >= api[k].status.last /\ m.obsGen = api[k].gen
  BY <1>2, <1>3, <1>4 DEF UpToDate, Held
<1>8. Written(m.last)
  <2>1. rfc3339OrNull(rfc3339OrNull(st[k].last)) = rfc3339OrNull(st[k].last) /\ rfc3339OrNull(st[k].last) <= st[k].last
    BY <1>2, Truncation
  <2>2. st[k].last <= now
    BY <1>2 DEF Held
  <2> QED
    BY <1>2, <1>4, <2>1, <2>2 DEF Written, Times, NoTime
<1> HIDE DEF o
<1>9. Sound(o)
  BY <1>4, <1>5, <1>6, <1>7, <1>8 DEF Sound
<1> QED
  BY <1>3, <1>6, <1>7, <1>9 DEF o, m

\* The store after an accepted patch, one that changes nothing included.
LEMMA PatchStore ==
  ASSUME IInv, NEW k \in Keys, Patching(k), Guarded(k), ApplyPatch(k), UNCHANGED <<now, infVars>>
  PROVE  /\ StoreOK' /\ rv' \in Nat /\ rv' >= rv /\ \A j \in Keys \ {k} : api'[j] = api[j]
         /\ api'[k].uid = api[k].uid /\ api'[k].gen = api[k].gen /\ api'[k].spec = api[k].spec
         /\ api'[k].status = statusToMap(st[k]) /\ api'[k].rv <= rv' /\ Exists(api'[k])
<1> DEFINE o == [api[k] EXCEPT !.status = statusToMap(st[k])]
<1>1. o \in Object /\ Sound(o)
  BY PatchedResource
<1>2. rv \in Nat /\ api[k] \in Object /\ api[k].rv <= rv /\ Exists(api[k])
  BY DEF IInv, ClockOK, StoreOK, Guarded
<1>3. o.uid = api[k].uid /\ o.gen = api[k].gen /\ o.spec = api[k].spec /\ o.status = statusToMap(st[k])
  BY <1>2 DEF Object
<1>4. ApplyPatch(k) <=> (IF o = api[k] THEN UNCHANGED apiVars ELSE PutObject(k, o))
  BY DEF ApplyPatch
<1> HIDE DEF o
<1>5. CASE o = api[k]
  <2>1. UNCHANGED <<api, rv, watch>>
    BY <1>4, <1>5 DEF apiVars
  <2>2. StoreOK'
    BY <2>1, StoreStays DEF IInv, infVars
  <2> QED
    BY <1>2, <1>3, <1>5, <2>1, <2>2 DEF Exists
<1>6. CASE o # api[k]
  <2>1. PutObject(k, o)
    BY <1>4, <1>6
  <2>2. /\ StoreOK' /\ rv' = rv + 1 /\ \A j \in Keys \ {k} : api'[j] = api[j]
        /\ api'[k].uid = o.uid /\ api'[k].gen = o.gen /\ api'[k].spec = o.spec
        /\ api'[k].status = o.status /\ api'[k].rv = rv + 1
    BY <1>1, <2>1, PutStore DEF IInv, infVars
  <2> QED
    BY <1>2, <1>3, <2>2 DEF Exists
<1> QED
  BY <1>5, <1>6

\* The worker goes on after a patch. After the one that marks the resource
\* Running its copy carries the version the patch made.
LEMMA PatchedJob ==
  ASSUME IInv, NEW k \in Keys, Patching(k), Patched(k), UNCHANGED now, StoreOK',
         \A j \in Keys \ {k} : api'[j] = api[j], rv' \in Nat, rv' >= rv, Exists(api'[k]) <=> Exists(api[k]),
         Exists(api[k]) => /\ api'[k].gen = obj[k].gen /\ api'[k].spec = obj[k].spec
                           /\ api'[k].status = statusToMap(st[k])
  PROVE  JobOK' /\ timer' \in [Keys -> Times]
<1>1. CASE pc[k] = "running"
  <2>1. /\ pc' = [pc EXCEPT ![k] = "starting"] /\ UNCHANGED <<st, ret, canceled, timer>>
        /\ obj' = [obj EXCEPT ![k].rv = IF Exists(api[k]) THEN api'[k].rv ELSE @]
    BY <1>1 DEF Patched
  <2>2. /\ Held(k) /\ st[k] \in Status /\ obj[k] \in Object /\ obj \in [Keys -> Object] /\ obj[k].rv \in Nat
        /\ rv \in Nat /\ rfc3339OrNull(st[k].last) \in Times
    BY <1>1, WorkerFacts DEF IInv, JobOK, ClockOK, Object
  <2> DEFINE v == IF Exists(api[k]) THEN api'[k].rv ELSE obj[k].rv
  <2>3. v \in Nat /\ v <= rv'
    <3>1. api'[k] \in Object /\ api'[k].rv <= rv'
      BY DEF StoreOK
    <3>2. api'[k].rv \in Nat
      BY <3>1 DEF Object
    <3> QED
      BY <2>2, <3>1, <3>2 DEF Held
  <2>4. obj' = [obj EXCEPT ![k] = [obj[k] EXCEPT !.rv = v]]
    BY <2>1, <2>2
  <2> HIDE DEF v
  <2>5. /\ obj' \in [Keys -> Object] /\ obj'[k].rv = v /\ obj'[k].gen = obj[k].gen /\ obj'[k].spec = obj[k].spec
        /\ \A j \in Keys \ {k} : obj'[j] = obj[j]
    BY <2>2, <2>3, <2>4 DEF Object
  <2>6. pc' \in [Keys -> Job] /\ pc'[k] = "starting" /\ \A j \in Keys \ {k} : pc'[j] = pc[j]
    BY <2>1 DEF IInv, JobOK, Job
  <2>7. Current(k)' => UpToDate(k)'
    <3>1. statusToMap(st[k]).last = rfc3339OrNull(st[k].last)
      BY <2>2, MappedStatus
    <3> QED
      BY <2>1, <2>2, <2>5, <2>6, <3>1 DEF Current, UpToDate, Times, NoTime
  <2>8. Held(k)'
    BY <2>1, <2>2, <2>3, <2>5, <2>6, <2>7 DEF Held
  <2>9. ASSUME NEW j \in Keys \ {k}, pc'[j] # "idle" PROVE Held(j)'
    <3>1. Held(j) /\ obj[j].rv \in Nat
      BY <2>6, <2>9 DEF IInv, JobOK, Object
    <3> QED
      BY <2>1, <2>2, <2>5, <2>6, <2>9, <3>1 DEF Held, Current, UpToDate
  <2> QED
    BY <2>1, <2>5, <2>6, <2>8, <2>9 DEF IInv, JobOK, QueueOK
<1>2. CASE pc[k] # "running"
  <2>1. Return(k, ret[k].err, ret[k].wait) /\ ret[k].err \in BOOLEAN /\ ret[k].wait \in Nat
    BY <1>2 DEF Patched, IInv, JobOK
  <2> QED
    BY <2>1, ReturnJob
<1> QED
  BY <1>1, <1>2

\* The outcomes of a patch: accepted,
LEMMA patchAppliesInv ==
  ASSUME IInv, NEW k \in Keys, patchApplies(k)
  PROVE  IInv'
<1>1. /\ Patching(k) /\ Guarded(k) /\ ApplyPatch(k) /\ Patched(k)
      /\ UNCHANGED <<now, infVars, dirty, inflight, next, sched, envVars>>
  BY DEF patchApplies
<1>2. /\ StoreOK' /\ rv' \in Nat /\ rv' >= rv /\ \A j \in Keys \ {k} : api'[j] = api[j]
      /\ api'[k].gen = api[k].gen /\ api'[k].spec = api[k].spec
      /\ api'[k].status = statusToMap(st[k]) /\ Exists(api'[k])
  BY <1>1, PatchStore
<1>3. Exists(api[k]) /\ api[k].gen = obj[k].gen /\ api[k].spec = obj[k].spec
  BY <1>1, PatchedResource DEF Guarded, UpToDate
<1>4. JobOK' /\ timer' \in [Keys -> Times]
  BY <1>1, <1>2, <1>3, PatchedJob
<1>5. ClockOK' /\ QueueOK' /\ MemoryOK'
  BY <1>1, <1>2, <1>4, MemoryStays DEF IInv, ClockOK, QueueOK, envVars, infVars
<1> QED
  BY <1>2, <1>4, <1>5 DEF IInv

\* the resource is gone,
LEMMA patchNotFoundInv ==
  ASSUME IInv, NEW k \in Keys, patchNotFound(k)
  PROVE  IInv'
<1>1. /\ Patching(k) /\ ~Exists(api[k]) /\ Patched(k)
      /\ UNCHANGED <<now, apiVars, infVars, dirty, inflight, next, sched, envVars>>
  BY DEF patchNotFound
<1>2. UNCHANGED <<api, rv>> /\ rv \in Nat /\ StoreOK'
  BY <1>1, StoreStays DEF IInv, ClockOK, apiVars, infVars
<1>3. JobOK' /\ timer' \in [Keys -> Times]
  BY <1>1, <1>2, PatchedJob
<1> QED
  BY <1>1, <1>3, ReconcileRest, MemoryStays DEF IInv

\* refused because of its version,
LEMMA patchConflictInv ==
  ASSUME IInv, NEW k \in Keys, patchConflict(k)
  PROVE  IInv'
BY ReturnInv DEF patchConflict

\* or failed in transport, applied or not.
LEMMA patchFailsInv ==
  ASSUME IInv, NEW k \in Keys, NEW applied \in BOOLEAN, patchFails(k, applied)
  PROVE  IInv'
<1>1. /\ Patching(k) /\ faults' = faults + 1 /\ Return(k, TRUE, 0)
      /\ (Guarded(k) /\ ApplyPatch(k)) \/ UNCHANGED apiVars
      /\ UNCHANGED <<now, infVars, dirty, inflight, next, sched, edits>>
  BY DEF patchFails
<1>2. StoreOK' /\ rv' \in Nat /\ rv' >= rv /\ \A j \in Keys \ {k} : api'[j] = api[j]
  <2>1. CASE Guarded(k) /\ ApplyPatch(k)
    BY <1>1, <2>1, PatchStore
  <2>2. CASE UNCHANGED apiVars
    BY <1>1, <2>2, StoreStays DEF IInv, ClockOK, apiVars, infVars
  <2> QED
    BY <1>1, <2>1, <2>2
<1>3. JobOK' /\ timer' \in [Keys -> Times]
  BY <1>1, <1>2, ReturnJob
<1>4. ClockOK' /\ QueueOK' /\ MemoryOK'
  BY <1>1, <1>2, <1>3, MemoryStays DEF IInv, ClockOK, QueueOK, infVars
<1> QED
  BY <1>2, <1>3, <1>4 DEF IInv

-----------------------------------------------------------------------------
(* Leadership, the initial state and every step. *)

\* The next term starts from a list and remembers nothing.
LEMMA newTermInv ==
  ASSUME IInv, newTerm
  PROVE  IInv'
<1>1. /\ cache' = api /\ watch' = [k \in Keys |-> << >>] /\ UNCHANGED <<now, api, rv, edits>>
      /\ faults' = faults + 1
  BY DEF newTerm
<1>2. StoreOK'
  <2>1. \A k \in Keys : Len(watch'[k]) = 0 /\ watch'[k] \in Seq(Object)
    BY <1>1
  <2>2. watch' \in [Keys -> Seq(Object)]
    BY <1>1, <2>1
  <2>3. ASSUME NEW k \in Keys PROVE Sound(api[k])' /\ api'[k].rv <= rv' /\ Copied(k, cache[k])'
    BY <1>1 DEF IInv, StoreOK, Copied, Sound, Written
  <2> QED
    BY <1>1, <2>1, <2>2, <2>3 DEF IInv, StoreOK
<1>3. QueueOK'
  <2>1. note' \in [Keys -> Seq(BOOLEAN)]
    <3>1. <<TRUE>> \in Seq(BOOLEAN) /\ << >> \in Seq(BOOLEAN)
      OBVIOUS
    <3>2. note' = [k \in Keys |-> IF Exists(api[k]) THEN <<TRUE>> ELSE << >>]
      BY DEF newTerm
    <3> QED
      BY <3>1, <3>2
  <2> QED
    BY <2>1 DEF newTerm, QueueOK, Times
<1>4. MemoryOK'
  <2>1. /\ NoSched \in [gen : Nat, at : Times] /\ NoHistory \in [uid : Nat, gen : Nat, at : Times]
        /\ NoSched.gen = NoHistory.gen /\ NoSched.at = NoHistory.at
    BY DEF NoSched, NoHistory, Times
  <2> QED
    BY <2>1 DEF newTerm, MemoryOK
<1>5. JobOK'
  <2>1. NoRet \in [err : BOOLEAN, wait : Nat]
    BY DEF NoRet
  <2> QED
    BY <2>1, Nothing DEF newTerm, JobOK, Job
<1>6. ClockOK'
  BY <1>1 DEF IInv, ClockOK
<1> QED
  BY <1>2, <1>3, <1>4, <1>5, <1>6 DEF IInv

\* The initial state.
LEMMA InitInv ==
  ASSUME Init PROVE IInv
<1>1. ClockOK
  BY DEF Init, ClockOK
<1>2. StoreOK
  <2>1. Sound(NoObj)
    BY <1>1, NothingSound DEF ClockOK
  <2>2. /\ api = [k \in Keys |-> NoObj] /\ cache = [k \in Keys |-> NoObj] /\ rv = 0
        /\ watch = [k \in Keys |-> << >>]
    BY DEF Init
  <2>3. \A k \in Keys : Len(watch[k]) = 0 /\ watch[k] \in Seq(Object)
    BY <2>2
  <2>4. watch \in [Keys -> Seq(Object)]
    BY <2>2, <2>3
  <2>5. \A k \in Keys : Sound(api[k]) /\ api[k].rv <= rv /\ Copied(k, cache[k])
    BY <2>1, <2>2, Nothing DEF Copied
  <2> QED
    BY <2>2, <2>3, <2>4, <2>5, Nothing DEF StoreOK
<1>3. QueueOK
  <2>1. note \in [Keys -> Seq(BOOLEAN)]
    BY DEF Init
  <2> QED
    BY <2>1 DEF Init, QueueOK, Times
<1>4. MemoryOK
  <2>1. /\ NoSched \in [gen : Nat, at : Times] /\ NoHistory \in [uid : Nat, gen : Nat, at : Times]
        /\ NoSched.gen = NoHistory.gen /\ NoSched.at = NoHistory.at
    BY DEF NoSched, NoHistory, Times
  <2> QED
    BY <2>1 DEF Init, MemoryOK
<1>5. JobOK
  <2>1. NoRet \in [err : BOOLEAN, wait : Nat]
    BY DEF NoRet
  <2> QED
    BY <2>1, Nothing DEF Init, JobOK, Job
<1> QED
  BY <1>1, <1>2, <1>3, <1>4, <1>5 DEF IInv

\* Every step.
LEMMA StepInv ==
  ASSUME IInv, [Next]_vars
  PROVE  IInv'
<1>1. CASE UNCHANGED vars
  <2>1. UNCHANGED <<now, apiVars, infVars, dirty, inflight, envVars, timer, jobVars, next, sched>>
    BY <1>1 DEF vars, apiVars, infVars, envVars, jobVars
  <2>2. JobOK'
    BY <2>1, JobStays DEF IInv, apiVars
  <2> QED
    BY <2>1, <2>2, ReconcileRest, MemoryStays DEF IInv, QueueOK
<1>2. ASSUME NEW k \in Keys, Informer(k) PROVE IInv'
  BY <1>2, DeliverInv, RelistInv, enqueueInv, forgetInv DEF Informer
<1>3. ASSUME NEW k \in Keys, reconcile(k) PROVE IInv'
  BY <1>3, markInvalidInv, markPausedInv, notDueInv, startScanInv, runScanInv, scanReturnsInv, recordFailureInv,
     recordSuccessInv, patchAppliesInv, patchNotFoundInv, patchConflictInv, patchFailsInv DEF reconcile, patchStatus
<1> QED
  BY <1>1, <1>2, <1>3, UserInv, FireTimerInv, processNextInv, requeueLoopInv, newTermInv, TickInv DEF Next

-----------------------------------------------------------------------------
(* Theorems. *)

\* The inductive invariant: a worker whose patch can still be accepted decided on
\* the current spec and computed a status no older than the stored one, because
\* no two versions of a resource share a resource version and the patch carries
\* the version of the copy the worker started from (controller.go, patchStatus).
THEOREM ControllerInvariant == Spec => []IInv
<1>1. Init => IInv
  BY InitInv
<1>2. IInv /\ [Next]_vars => IInv'
  BY StepInv
<1> QED
  BY <1>1, <1>2, PTL DEF Spec

\* The controller's state is type-correct: statuses, copies, schedules and
\* delayed adds are what reconcile and the work queue take them for.
THEOREM ControllerTypes == Spec => []TypeOK
<1>1. IInv => TypeOK
  BY DEF IInv, ClockOK, StoreOK, QueueOK, MemoryOK, JobOK, TypeOK
<1> QED
  BY <1>1, ControllerInvariant, PTL

\* setConditions and the writers of a status keep conditions, phase and counters
\* in agreement on every status the API server ever holds, for any specs, edits,
\* workers, conflicts, lost calls and changes of leadership.
THEOREM StatusCoherent == Spec => []ConditionsCoherent
<1>1. IInv => ConditionsCoherent
  BY DEF IInv, StoreOK, Sound, ConditionsCoherent
<1> QED
  BY <1>1, ControllerInvariant, PTL

\* Only startScan takes a worker from reconcile to the write that marks Running.
LEMMA OnlyStartScanStarts ==
  ASSUME IInv, Next, NEW k \in Keys, pc[k] = "reconcile", pc'[k] = "running"
  PROVE  startScan(k)
<1>1. pc \in [Keys -> Job]
  BY DEF IInv, JobOK
<1>2. \A j \in Keys : \A v : pc' = [pc EXCEPT ![j] = v] => (j = k /\ v = "running")
  BY <1>1
<1>3. \A j, err, wait : j \in Keys => ~Return(j, err, wait)
  BY <1>2 DEF Return
<1>4. \A j, s, err, wait : j \in Keys => ~WriteThenReturn(j, s, err, wait)
  BY <1>2 DEF WriteThenReturn
<1>5. ~UNCHANGED pc
  OBVIOUS
<1>6. \A j \in Keys : ~User(j) /\ ~Informer(j) /\ ~FireTimer(j)
  BY <1>5 DEF User, Create, EditSpec, Annotate, Delete, UserWrite, Informer, Deliver, Relist, enqueue, forget,
     FireTimer, jobVars
<1>7. ~requeueLoop /\ ~Tick /\ ~newTerm
  BY <1>5 DEF requeueLoop, Tick, newTerm, jobVars
<1>8. \A j \in Keys : ~processNext(j) /\ ~runScan(j) /\ ~recordFailure(j) /\ ~recordSuccess(j)
  BY <1>2, <1>4, <1>5 DEF processNext, runScan, recordFailure, recordSuccess
<1>9. \A j \in Keys : ~markInvalid(j) /\ ~markPaused(j) /\ ~notDue(j)
  BY <1>3, <1>4 DEF markInvalid, markPaused, notDue
<1>10. \A j \in Keys : ~patchStatus(j)
  <2>1. \A j \in Keys : ~Patched(j)
    BY <1>2, <1>3 DEF Patched
  <2> QED
    BY <1>3, <2>1 DEF patchStatus, patchApplies, patchNotFound, patchConflict, patchFails
<1>11. \A j \in Keys, failed \in BOOLEAN : ~scanReturns(j, failed)
  <2>1. \A j \in Keys, failed \in BOOLEAN : scanReturns(j, failed) =>
           \/ Return(j, FALSE, 0)
           \/ pc' = [pc EXCEPT ![j] = "failed"] \/ pc' = [pc EXCEPT ![j] = "succeeded"]
    BY DEF scanReturns
  <2> QED
    BY <1>2, <1>3, <2>1
<1>12. \A j \in Keys : startScan(j) => j = k
  BY <1>2 DEF startScan
<1> QED
  BY <1>6, <1>7, <1>8, <1>9, <1>10, <1>11, <1>12 DEF Next, reconcile

\* controller.go, Controller.next: a worker that reads a stale cache does not
\* scan before the time the controller recorded for the resource's generation,
\* whatever the cached status says.
THEOREM ScheduleKept == Spec => ScheduleHonoured
<1>1. ASSUME IInv, Next, NEW k \in Keys, pc[k] = "reconcile", pc'[k] = "running",
             sched[k].uid = obj[k].uid, sched[k].gen = obj[k].gen
      PROVE  now >= sched[k].at
  <2>1. startScan(k)
    BY <1>1, OnlyStartScanStarts
  <2>2. now >= Due(k).due
    BY <2>1 DEF startScan
  <2>3. st[k] \in Status /\ now \in Nat /\ obj[k].gen \in Nat /\ SpecOf(k).interval \in Nat
    BY <1>1, WorkerFacts
  <2>4. next[k].gen = obj[k].gen /\ next[k].at = sched[k].at /\ next[k].at \in Times
    BY <1>1 DEF IInv, MemoryOK
  <2>5. Due(k).due \in Nat /\ Due(k).due >= next[k].at
    BY <1>1, <2>3, <2>4, DueTypes DEF Due, IInv
  <2> QED
    BY <2>2, <2>3, <2>4, <2>5 DEF Times, NoTime
<1>2. IInv /\ [Next]_vars =>
        [\A k \in Keys : (/\ pc[k] = "reconcile" /\ pc'[k] = "running"
                          /\ sched[k].uid = obj[k].uid /\ sched[k].gen = obj[k].gen)
                         => now >= sched[k].at]_vars
  BY <1>1
<1> QED
  BY <1>2, ControllerInvariant, PTL DEF Spec, ScheduleHonoured

\* How a step changes a stored resource: a user replaces it and keeps the status
\* or begins anew, or an accepted patch writes the status of its worker.
LEMMA ResourceSteps ==
  ASSUME IInv, Next, NEW k \in Keys
  PROVE  \/ api'[k].status = api[k].status /\ api'[k].uid = api[k].uid
         \/ api'[k].status = NoStatus /\ api'[k].uid # api[k].uid
         \/ Patching(k) /\ Guarded(k) /\ api'[k].status = statusToMap(st[k])
<1> DEFINE P == \/ api'[k].status = api[k].status /\ api'[k].uid = api[k].uid
                \/ api'[k].status = NoStatus /\ api'[k].uid # api[k].uid
                \/ Patching(k) /\ Guarded(k) /\ api'[k].status = statusToMap(st[k])
<1>1. UNCHANGED api => P
  OBVIOUS
<1>2. ASSUME NEW j \in Keys, NEW o \in Object, UserWrite(j, o),
             \/ o.status = api[j].status /\ o.uid = api[j].uid
             \/ o.status = NoStatus /\ o.uid # api[j].uid
      PROVE  P
  <2>1. api' = [api EXCEPT ![j] = [o EXCEPT !.rv = rv + 1]]
    BY <1>2 DEF UserWrite, PutObject
  <2>2. [o EXCEPT !.rv = rv + 1].status = o.status /\ [o EXCEPT !.rv = rv + 1].uid = o.uid
    BY DEF Object
  <2>3. j = k => api'[k].status = o.status /\ api'[k].uid = o.uid
    BY <2>1, <2>2 DEF IInv, StoreOK
  <2>4. j # k => api'[k] = api[k]
    BY <2>1 DEF IInv, StoreOK
  <2> QED
    BY <1>2, <2>3, <2>4
<1>3. ASSUME NEW j \in Keys, User(j) PROVE P
  <2>1. api[j] \in Object /\ rv \in Nat
    BY DEF IInv, StoreOK, ClockOK
  <2>2. ASSUME NEW s \in Specs, Create(j, s) PROVE P
    <3> DEFINE o == [uid |-> rv + 1, rv |-> 0, gen |-> 1, spec |-> s, status |-> NoStatus]
    <3>1. o \in Object /\ o.status = NoStatus /\ o.uid = rv + 1
      BY <2>1, Nothing DEF Object
    <3>2. UserWrite(j, o) /\ api[j].uid = 0
      BY <2>2 DEF Create, Exists
    <3> HIDE DEF o, P
    <3>3. o.uid # api[j].uid
      BY <2>1, <3>1, <3>2
    <3> QED
      BY <1>2, <3>1, <3>2, <3>3
  <2>3. ASSUME NEW s \in Specs, EditSpec(j, s) PROVE P
    <3> DEFINE p == [api[j] EXCEPT !.spec = s]
               o == [api[j] EXCEPT !.spec = s, !.gen = @ + 1]
    <3>1. p \in Object /\ p.status = api[j].status /\ p.uid = api[j].uid /\ api[j].gen + 1 \in Nat
      BY <2>1 DEF Object
    <3>2. o = [p EXCEPT !.gen = api[j].gen + 1]
      BY <2>1 DEF Object
    <3>3. UserWrite(j, o)
      BY <2>3 DEF EditSpec
    <3> HIDE DEF o, p, P
    <3>4. o \in Object /\ o.status = api[j].status /\ o.uid = api[j].uid
      BY <3>1, <3>2 DEF Object
    <3> QED
      BY <1>2, <3>3, <3>4
  <2> HIDE DEF P
  <2>4. CASE Annotate(j)
    BY <1>2, <2>1, <2>4 DEF Annotate
  <2>5. CASE Delete(j)
    BY <1>2, <2>1, <2>5, Nothing DEF Delete, Exists
  <2> QED
    BY <1>3, <2>2, <2>3, <2>4, <2>5 DEF User
<1>4. ASSUME NEW j \in Keys, patchStatus(j) PROVE P
  <2>1. \/ UNCHANGED api
        \/ Patching(j) /\ Guarded(j) /\ ApplyPatch(j) /\ UNCHANGED <<now, infVars>>
    BY <1>4 DEF patchStatus, patchApplies, patchNotFound, patchConflict, patchFails, apiVars
  <2>2. CASE Patching(j) /\ Guarded(j) /\ ApplyPatch(j) /\ UNCHANGED <<now, infVars>>
    BY <2>2, PatchStore
  <2> QED
    BY <2>1, <2>2, <1>1
<1>5. \A j \in Keys : Informer(j) \/ FireTimer(j) \/ processNext(j) => UNCHANGED api
  BY DEF Informer, Deliver, Relist, enqueue, forget, FireTimer, processNext, apiVars
<1>6. \A j \in Keys : markInvalid(j) \/ markPaused(j) \/ notDue(j) \/ startScan(j) \/ runScan(j) => UNCHANGED api
  BY DEF markInvalid, markPaused, notDue, startScan, runScan, apiVars
<1>7. \A j \in Keys : recordFailure(j) \/ recordSuccess(j) \/ (\E failed \in BOOLEAN : scanReturns(j, failed))
                      => UNCHANGED api
  BY DEF recordFailure, recordSuccess, scanReturns, apiVars
<1>8. requeueLoop \/ newTerm \/ Tick => UNCHANGED api
  BY DEF requeueLoop, newTerm, Tick, apiVars
<1> HIDE DEF P
<1>9. P
  BY <1>1, <1>3, <1>4, <1>5, <1>6, <1>7, <1>8 DEF Next, reconcile
<1> QED
  BY <1>9 DEF P

\* patchStatus and its resource version: a write computed from a stale copy is
\* refused, so neither the last successful scan nor the observed generation of a
\* resource goes back.
THEOREM NoRegression == Spec => StatusNeverRegresses
<1>1. ASSUME IInv, Next, NEW k \in Keys, api'[k].uid = api[k].uid
      PROVE  api'[k].status.last >= api[k].status.last /\ api'[k].status.obsGen >= api[k].status.obsGen
  <2>1. /\ api[k].status.last \in Times /\ api[k].status.obsGen \in Nat /\ api[k].gen \in Nat
        /\ api[k].status.obsGen <= api[k].gen
    BY <1>1 DEF IInv, StoreOK, Sound, Object, Status
  <2>2. CASE api'[k].status = api[k].status
    BY <2>1, <2>2 DEF Times, NoTime
  <2>3. CASE Patching(k) /\ Guarded(k) /\ api'[k].status = statusToMap(st[k])
    <3>1. statusToMap(st[k]).last >= api[k].status.last /\ statusToMap(st[k]).obsGen = api[k].gen
      BY <1>1, <2>3, PatchedResource
    <3> QED
      BY <2>1, <2>3, <3>1
  <2> QED
    BY <1>1, <2>2, <2>3, ResourceSteps
<1>2. IInv /\ [Next]_vars =>
        [\A k \in Keys :
           api'[k].uid = api[k].uid =>
             /\ api'[k].status.last >= api[k].status.last
             /\ api'[k].status.obsGen >= api[k].status.obsGen]_vars
  BY <1>1
<1> QED
  BY <1>2, ControllerInvariant, PTL DEF Spec, StatusNeverRegresses

\* A decision to scan that was made before the user paused or edited the resource
\* does not mark it Running: the patch of startScan carries the version of the
\* spec it was decided on.
THEOREM StoppedStaysUnmarked == Spec => NeverMarksStoppedResource
<1>1. ASSUME IInv, Next, NEW k \in Keys, api'[k].status.phase = "Running", api[k].status.phase # "Running"
      PROVE  Runnable(api[k].spec) /\ api'[k].status.obsGen = api[k].gen
  <2>1. Patching(k) /\ Guarded(k) /\ api'[k].status = statusToMap(st[k])
    <3>1. NoStatus.phase # "Running"
      BY DEF NoStatus
    <3> QED
      BY <1>1, <3>1, ResourceSteps
  <2>2. st[k] \in Status /\ Held(k)
    BY <1>1, <2>1, WorkerFacts DEF Patching
  <2>3. UpToDate(k) /\ statusToMap(st[k]).obsGen = api[k].gen
    BY <1>1, <2>1, PatchedResource
  <2>4. st[k].phase = "Running"
    BY <1>1, <2>1, <2>2, MappedStatus
  <2>5. pc[k] = "running"
    BY <1>1, <2>1, <2>3, <2>4 DEF Patching, UpToDate
  <2> QED
    BY <2>1, <2>2, <2>3, <2>5 DEF Held, UpToDate
<1>2. IInv /\ [Next]_vars =>
        [\A k \in Keys :
           (api'[k].status.phase = "Running" /\ api[k].status.phase # "Running")
           => /\ Runnable(api[k].spec)
              /\ api'[k].status.obsGen = api[k].gen]_vars
  BY <1>1
<1> QED
  BY <1>2, ControllerInvariant, PTL DEF Spec, NeverMarksStoppedResource
============================================================================
