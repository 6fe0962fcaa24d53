----------------------- MODULE ClusterScanController -----------------------
(***************************************************************************)
(* The ClusterScan controller (src/internal/controller/controller.go): an  *)
(* informer cache and a work queue feed reconcile workers that decide      *)
(* whether a scan is due, mark the resource Running, run the scan, record  *)
(* its outcome and write the status back through a status patch guarded    *)
(* by the resource version.                                                *)
(*                                                                         *)
(* The API server, the watch stream and the work queue are external: they  *)
(* are modelled from how the controller uses them.  Users create, edit,    *)
(* annotate and delete resources at any moment.  Time is counted in ticks; *)
(* Second ticks make up the second to which a time is truncated when it is *)
(* written to a status.                                                    *)
(***************************************************************************)
EXTENDS Integers, Sequences, FiniteSets, SequencesExt

CONSTANTS
  Keys,          \* namespace/name keys of ClusterScan resources
  Specs,         \* the specs users write: [valid, paused, interval]
  Workers,       \* reconcileWorkers
  Second,        \* ticks per second
  RetryBase,     \* failureRetryBase, in ticks
  MaxTime,       \* bound: the clock stops here
  MaxEdits,      \* bound: creations, spec edits, annotations and deletions
  MaxFaults      \* bound: patches that fail in transport, changes of leadership

Spec0 == [valid |-> FALSE, paused |-> FALSE, interval |-> 0]

ASSUME ControllerAssumption ==
  /\ Specs \subseteq [valid : BOOLEAN, paused : BOOLEAN, interval : Nat]
  /\ \A s \in Specs : s.valid => s.interval > 0
  /\ Workers \in Nat \ {0}
  /\ Second \in Nat \ {0}
  /\ RetryBase \in Nat \ {0}
  /\ MaxTime \in Nat /\ MaxEdits \in Nat /\ MaxFaults \in Nat

VARIABLES
  now,        \* the clock
  api,        \* the API server's object per key
  rv,         \* the last resource version it handed out
  watch,      \* watch events per key the informer has not delivered yet
  cache,      \* the informer's store
  note,       \* its notifications per key the handlers have not run on yet
  dirty,      \* keys in the work queue
  timer,      \* when a delayed add of a key fires: AddAfter, AddRateLimited
  inflight,   \* c.inflight: keys whose running scan can be canceled
  next,       \* c.next: the schedule this controller last recorded per key
  pc,         \* where the worker that holds the key stands
  obj,        \* its copy of the resource
  st,         \* the status it is computing
  ret,        \* what its reconcile returns: [err, wait]
  canceled,   \* its scan was canceled because the resource was deleted
  sched,      \* history: the last schedule recorded in this term and not forgotten
  edits, faults

apiVars  == <<api, rv, watch>>
infVars  == <<cache, note>>
jobVars  == <<pc, obj, st, ret, canceled>>
envVars  == <<edits, faults>>
vars == <<now, api, rv, watch, cache, note, dirty, timer, inflight, next, pc, obj,
          st, ret, canceled, sched, edits, faults>>

-----------------------------------------------------------------------------
(* Data. *)

NoTime == -1
Times  == Nat \cup {NoTime}

\* ClusterScanStatus. The message is kept as its kind, the conditions as
\* whether they are True.
NoStatus ==
  [phase |-> "", msg |-> "", next |-> NoTime, last |-> NoTime, fails |-> 0,
   obsGen |-> 0, ready |-> FALSE, scanning |-> FALSE, failed |-> FALSE]

Phases   == {"", "Pending", "Running", "Succeeded", "Failed", "Paused"}
Messages == {"", "running", "invalid", "paused", "failed", "completed"}

Status ==
  [phase : Phases, msg : Messages, next : Times, last : Times, fails : Nat,
   obsGen : Nat, ready : BOOLEAN, scanning : BOOLEAN, failed : BOOLEAN]

\* A resource as the API server stores it; uid 0 stands for no resource.
NoObj == [uid |-> 0, rv |-> 0, gen |-> 0, spec |-> Spec0, status |-> NoStatus]

Object ==
  [uid : Nat, rv : Nat, gen : Nat, spec : Specs \cup {Spec0}, status : Status]

Exists(o) == o.uid # 0

\* Mutant of rfc3339OrNull: a nil time is formatted like any other.
rfc3339OrNull_mut(t) == (t \div Second) * Second

\* rfc3339OrNull: a written time loses its fraction of a second.
rfc3339OrNull(t) == IF t = NoTime THEN NoTime ELSE (t \div Second) * Second

\* statusToMap: every managed field is written, times as RFC 3339.
statusToMap(s) ==
  [s EXCEPT !.next = rfc3339OrNull(@), !.last = rfc3339OrNull(@)]

\* Mutant of setConditions: Scanning is left as it was.
setConditions_mut(s, ready, failed) == [s EXCEPT !.ready = ready, !.failed = failed]

\* setConditions: Ready and Failed as given, Scanning always False.
setConditions(s, ready, failed) ==
  [s EXCEPT !.ready = ready, !.failed = failed, !.scanning = FALSE]

Lesser(a, b) == IF a <= b THEN a ELSE b

\* retryDelay: the base doubled per failure after the first, capped at the
\* interval, where the code stops doubling.
retryDelay(failures, interval) ==
  LET delay == RetryBase * 2^(failures - 1)
  IN IF delay \in 1..interval THEN delay ELSE interval

\* dueTime from the status alone.
StatusDue(s, interval) ==
  LET planned == IF s.next # NoTime THEN s.next
                 ELSE IF s.last # NoTime THEN s.last + interval ELSE now
  IN IF s.last # NoTime /\ s.fails = 0
     THEN Lesser(planned, s.last + interval) ELSE planned

\* dueTime: a later time this controller recorded under the generation wins,
\* and then the cached status is known to be behind.
Remembered(k, gen, due) == next[k].gen = gen /\ next[k].at > due

\* Mutant of dueTime: the remembered schedule is not consulted.
dueTime_mut(k, gen, s, interval) ==
  [due |-> StatusDue(s, interval), cacheBehind |-> FALSE]

dueTime(k, gen, s, interval) ==
  LET due == StatusDue(s, interval)
  IN IF Remembered(k, gen, due)
     THEN [due |-> next[k].at, cacheBehind |-> TRUE]
     ELSE [due |-> due, cacheBehind |-> FALSE]

NoSched == [gen |-> 0, at |-> NoTime]
NoHistory == [uid |-> 0, gen |-> 0, at |-> NoTime]
NoRet   == [err |-> FALSE, wait |-> 0]

-----------------------------------------------------------------------------
(* The API server and the watch. *)

\* Stores a resource under a new resource version and emits a watch event.
PutObject(k, o) ==
  LET stored == [o EXCEPT !.rv = rv + 1]
  IN /\ rv' = rv + 1
     /\ api' = [api EXCEPT ![k] = stored]
     /\ watch' = [watch EXCEPT ![k] = Append(@, stored)]

UserWrite(k, o) ==
  /\ edits < MaxEdits
  /\ edits' = edits + 1
  /\ PutObject(k, o)
  /\ UNCHANGED <<now, infVars, dirty, timer, inflight, next, jobVars, sched, faults>>

Create(k, spec) ==
  /\ ~Exists(api[k])
  /\ UserWrite(k, [uid |-> rv + 1, rv |-> 0, gen |-> 1, spec |-> spec,
                   status |-> NoStatus])

\* A spec change raises the generation.
EditSpec(k, spec) ==
  /\ Exists(api[k]) /\ spec # api[k].spec
  /\ UserWrite(k, [api[k] EXCEPT !.spec = spec, !.gen = @ + 1])

\* A metadata change raises the resource version only.
Annotate(k) == Exists(api[k]) /\ UserWrite(k, api[k])

Delete(k) == Exists(api[k]) /\ UserWrite(k, NoObj)

\* Notifies the handlers of an addition or update (TRUE) or of a deletion.
\* Two in a row that only enqueue the key count as one: the poll ticker may
\* enqueue it again at any moment.
Notify(k, exists) ==
  note' = [note EXCEPT ![k] =
             IF @ # << >> /\ Last(@) = exists THEN @ ELSE Append(@, exists)]

\* The informer takes the next watch event into its store; the handlers run
\* later, on their own goroutine.
Deliver(k) ==
  /\ watch[k] # << >>
  /\ LET event == Head(watch[k])
     IN /\ watch' = [watch EXCEPT ![k] = Tail(@)]
        /\ cache' = [cache EXCEPT ![k] = event]
        /\ IF Exists(event) \/ Exists(cache[k])
           THEN Notify(k, Exists(event)) ELSE UNCHANGED note
  /\ UNCHANGED <<now, api, rv, dirty, timer, inflight, next, jobVars, sched, envVars>>

\* The watch breaks and the informer lists again: only the latest state of
\* the key is seen, so a deletion followed by a creation looks like an update.
Relist(k) ==
  /\ Len(watch[k]) > 1
  /\ watch' = [watch EXCEPT ![k] = <<Last(@)>>]
  /\ UNCHANGED <<now, api, rv, infVars, dirty, timer, inflight, next, jobVars,
                 sched, envVars>>

Notified(k, exists) ==
  /\ note[k] # << >> /\ Head(note[k]) = exists
  /\ note' = [note EXCEPT ![k] = Tail(@)]

\* AddFunc and UpdateFunc.
enqueue(k) ==
  /\ Notified(k, TRUE)
  /\ dirty' = dirty \cup {k}
  /\ UNCHANGED <<now, apiVars, cache, timer, inflight, next, jobVars, sched, envVars>>

\* DeleteFunc: drop the remembered schedule and cancel the scan that is
\* registered as running under the key, if any.
forget(k) ==
  /\ Notified(k, FALSE)
  /\ next' = [next EXCEPT ![k] = NoSched]
  /\ sched' = [sched EXCEPT ![k] = NoHistory]
  /\ canceled' = [canceled EXCEPT ![k] = @ \/ k \in inflight]
  /\ UNCHANGED <<now, apiVars, cache, dirty, timer, inflight, pc, obj, st, ret, envVars>>

Tick ==
  /\ now < MaxTime
  /\ now' = now + 1
  /\ UNCHANGED <<apiVars, infVars, dirty, timer, inflight, next, jobVars, sched, envVars>>

-----------------------------------------------------------------------------
(* The work queue and the worker loop. *)

\* requeueLoop: the poll ticker enqueues every cached resource.
requeueLoop ==
  /\ dirty' = dirty \cup {k \in Keys : Exists(cache[k])}
  /\ dirty' # dirty
  /\ UNCHANGED <<now, apiVars, infVars, timer, inflight, next, jobVars, sched, envVars>>

\* A delayed add comes due.
FireTimer(k) ==
  /\ timer[k] # NoTime /\ timer[k] <= now
  /\ timer' = [timer EXCEPT ![k] = NoTime]
  /\ dirty' = dirty \cup {k}
  /\ UNCHANGED <<now, apiVars, infVars, inflight, next, jobVars, sched, envVars>>

Busy == {k \in Keys : pc[k] # "idle"}

\* processNext, first half: a free worker takes a queued key that no worker
\* holds and copies the cached resource; a key no longer cached is dropped.
processNext(k) ==
  /\ k \in dirty /\ pc[k] = "idle" /\ Cardinality(Busy) < Workers
  /\ dirty' = dirty \ {k}
  /\ IF Exists(cache[k])
     THEN /\ pc' = [pc EXCEPT ![k] = "reconcile"]
          /\ obj' = [obj EXCEPT ![k] = cache[k]]
          /\ st' = [st EXCEPT ![k] = [cache[k].status EXCEPT !.obsGen = cache[k].gen]]
     ELSE UNCHANGED <<pc, obj, st>>
  /\ UNCHANGED <<now, apiVars, infVars, timer, inflight, next, ret, canceled, sched, envVars>>

\* A key waits for one delayed add only, the earliest.
AddAfter(k, at) ==
  timer' = [timer EXCEPT ![k] = IF @ = NoTime THEN at ELSE Lesser(@, at)]

\* processNext, second half: reconcile returned. An error backs off, a wait
\* schedules the key.
Return(k, err, wait) ==
  /\ pc' = [pc EXCEPT ![k] = "idle"]
  /\ obj' = [obj EXCEPT ![k] = NoObj]
  /\ st' = [st EXCEPT ![k] = NoStatus]
  /\ ret' = [ret EXCEPT ![k] = NoRet]
  /\ canceled' = [canceled EXCEPT ![k] = FALSE]
  /\ IF err THEN AddAfter(k, now)
     ELSE IF wait > 0 THEN AddAfter(k, now + wait) ELSE UNCHANGED timer

\* The worker goes on to write status s, and then returns err and wait.
WriteThenReturn(k, s, err, wait) ==
  /\ pc' = [pc EXCEPT ![k] = "write"]
  /\ st' = [st EXCEPT ![k] = s]
  /\ ret' = [ret EXCEPT ![k] = [err |-> err, wait |-> wait]]
  /\ UNCHANGED <<obj, canceled, timer>>

-----------------------------------------------------------------------------
(* reconcile. *)

SpecOf(k)   == obj[k].spec
Runnable(s) == s.valid /\ ~s.paused
Due(k)      == dueTime(k, obj[k].gen, st[k], SpecOf(k).interval)

markInvalid(k) ==
  /\ pc[k] = "reconcile" /\ ~SpecOf(k).valid
  /\ IF st[k].phase = "Failed" /\ st[k].msg = "invalid"
     THEN Return(k, FALSE, 0)
     ELSE WriteThenReturn(k, setConditions(
            [st[k] EXCEPT !.phase = "Failed", !.msg = "invalid"], FALSE, TRUE), FALSE, 0)
  /\ UNCHANGED <<now, apiVars, infVars, dirty, inflight, next, sched, envVars>>

\* Mutant of markPaused: a status that says Running is left to its scan.
markPaused_mut(k) ==
  /\ pc[k] = "reconcile" /\ SpecOf(k).valid /\ SpecOf(k).paused
  /\ IF st[k].phase \in {"Paused", "Running"}
     THEN Return(k, FALSE, 0)
     ELSE WriteThenReturn(k, setConditions(
            [st[k] EXCEPT !.phase = "Paused", !.msg = "paused"], FALSE, FALSE), FALSE, 0)
  /\ UNCHANGED <<now, apiVars, infVars, dirty, inflight, next, sched, envVars>>

markPaused(k) ==
  /\ pc[k] = "reconcile" /\ SpecOf(k).valid /\ SpecOf(k).paused
  /\ IF st[k].phase = "Paused"
     THEN Return(k, FALSE, 0)
     ELSE WriteThenReturn(k, setConditions(
            [st[k] EXCEPT !.phase = "Paused", !.msg = "paused"], FALSE, FALSE), FALSE, 0)
  /\ UNCHANGED <<now, apiVars, infVars, dirty, inflight, next, sched, envVars>>

\* Mutant of notDue: a scan due right now waits.
notDue_mut(k) ==
  /\ pc[k] = "reconcile" /\ Runnable(SpecOf(k)) /\ now <= Due(k).due
  /\ Return(k, FALSE, Due(k).due - now)
  /\ UNCHANGED <<now, apiVars, infVars, dirty, inflight, next, sched, envVars>>

\* Not due: the next scan time is written when the status does not show it
\* yet, unless the status is known to be behind.
notDue(k) ==
  LET d == Due(k)
  IN /\ pc[k] = "reconcile" /\ Runnable(SpecOf(k)) /\ now < d.due
     /\ IF ~d.cacheBehind /\ st[k].next # d.due
        THEN WriteThenReturn(k, [st[k] EXCEPT !.next = d.due,
               !.phase = IF @ = "" THEN "Pending" ELSE @], FALSE, d.due - now)
        ELSE Return(k, FALSE, d.due - now)
     /\ UNCHANGED <<now, apiVars, infVars, dirty, inflight, next, sched, envVars>>

\* Mutant of startScan: Running is taken to mean that a scan is under way.
startScan_mut(k) ==
  /\ pc[k] = "reconcile" /\ Runnable(SpecOf(k)) /\ now >= Due(k).due
  /\ IF st[k].phase = "Running" THEN Return(k, FALSE, 0)
     ELSE /\ pc' = [pc EXCEPT ![k] = "running"]
          /\ st' = [st EXCEPT ![k].phase = "Running", ![k].msg = "running",
                              ![k].scanning = TRUE]
          /\ UNCHANGED <<timer, obj, ret, canceled>>
  /\ UNCHANGED <<now, apiVars, infVars, dirty, inflight, next, sched, envVars>>

\* Due: the resource is marked Running before the scan starts.
startScan(k) ==
  /\ pc[k] = "reconcile" /\ Runnable(SpecOf(k)) /\ now >= Due(k).due
  /\ pc' = [pc EXCEPT ![k] = "running"]
  /\ st' = [st EXCEPT ![k].phase = "Running", ![k].msg = "running", ![k].scanning = TRUE]
  /\ UNCHANGED <<now, apiVars, infVars, dirty, timer, inflight, next, obj, ret,
                 canceled, sched, envVars>>

\* runScan registers the scan's cancel function and calls the scan runner.
runScan(k) ==
  /\ pc[k] = "starting"
  /\ pc' = [pc EXCEPT ![k] = "scanning"]
  /\ inflight' = inflight \cup {k}
  /\ UNCHANGED <<now, apiVars, infVars, dirty, timer, next, obj, st, ret, canceled,
                 sched, envVars>>

\* The runner returns. A scan canceled by a deletion records nothing.
scanReturns(k, failed) ==
  /\ pc[k] = "scanning"
  /\ inflight' = inflight \ {k}
  /\ IF canceled[k] THEN Return(k, FALSE, 0)
     ELSE /\ pc' = [pc EXCEPT ![k] = IF failed THEN "failed" ELSE "succeeded"]
          /\ UNCHANGED <<obj, st, ret, canceled, timer>>
  /\ UNCHANGED <<now, apiVars, infVars, dirty, next, sched, envVars>>

\* remember, with the schedule also kept as history.
remember(k, at) ==
  /\ next' = [next EXCEPT ![k] = [gen |-> obj[k].gen, at |-> at]]
  /\ sched' = [sched EXCEPT ![k] = [uid |-> obj[k].uid, gen |-> obj[k].gen, at |-> at]]

recordFailure(k) ==
  LET fails == st[k].fails + 1
      at    == now + retryDelay(fails, SpecOf(k).interval)
  IN /\ pc[k] = "failed"
     /\ remember(k, at)
     /\ WriteThenReturn(k, setConditions(
          [st[k] EXCEPT !.fails = fails, !.phase = "Failed", !.msg = "failed",
                        !.next = at], FALSE, TRUE), TRUE, 0)
     /\ UNCHANGED <<now, apiVars, infVars, dirty, inflight, envVars>>

recordSuccess(k) ==
  LET at == now + SpecOf(k).interval
  IN /\ pc[k] = "succeeded"
     /\ remember(k, at)
     /\ WriteThenReturn(k, setConditions(
          [st[k] EXCEPT !.fails = 0, !.phase = "Succeeded", !.msg = "completed",
                        !.last = now, !.next = at], TRUE, FALSE),
          FALSE, SpecOf(k).interval)
     /\ UNCHANGED <<now, apiVars, infVars, dirty, inflight, envVars>>

-----------------------------------------------------------------------------
(* patchStatus. *)

\* Mutant of Guarded: the patch carries no resource version.
Guarded_mut(k) == Exists(api[k])

\* The API server accepts the patch: it carries the current version.
Guarded(k) == Exists(api[k]) /\ api[k].rv = obj[k].rv

\* The status the patch leaves; one that changes nothing is no new version.
ApplyPatch(k) ==
  LET patched == [api[k] EXCEPT !.status = statusToMap(st[k])]
  IN IF patched = api[k] THEN UNCHANGED apiVars ELSE PutObject(k, patched)

\* Where reconcile goes after a patch that returned no error.
Patched(k) ==
  IF pc[k] = "running"
  THEN /\ pc' = [pc EXCEPT ![k] = "starting"]
       /\ obj' = [obj EXCEPT ![k].rv = IF Exists(api[k]) THEN api'[k].rv ELSE @]
       /\ UNCHANGED <<st, ret, canceled, timer>>
  ELSE Return(k, ret[k].err, ret[k].wait)

Patching(k) == pc[k] \in {"running", "write"}

patchApplies(k) ==
  /\ Patching(k) /\ Guarded(k)
  /\ ApplyPatch(k)
  /\ Patched(k)
  /\ UNCHANGED <<now, infVars, dirty, inflight, next, sched, envVars>>

\* NotFound is not an error.
patchNotFound(k) ==
  /\ Patching(k) /\ ~Exists(api[k])
  /\ Patched(k)
  /\ UNCHANGED <<now, apiVars, infVars, dirty, inflight, next, sched, envVars>>

patchConflict(k) ==
  /\ Patching(k) /\ Exists(api[k]) /\ ~Guarded(k)
  /\ Return(k, TRUE, 0)
  /\ UNCHANGED <<now, apiVars, infVars, dirty, inflight, next, sched, envVars>>

\* The call fails in transport, before or after the server applied it.
patchFails(k, applied) ==
  /\ Patching(k) /\ faults < MaxFaults
  /\ faults' = faults + 1
  /\ IF applied THEN Guarded(k) /\ ApplyPatch(k) ELSE UNCHANGED apiVars
  /\ Return(k, TRUE, 0)
  /\ UNCHANGED <<now, infVars, dirty, inflight, next, sched, edits>>

-----------------------------------------------------------------------------
(* Leadership. *)

\* The term ends: its context is canceled, its workers record nothing more,
\* and the next term's controller starts from a fresh list with no memory.
newTerm ==
  /\ faults < MaxFaults
  /\ faults' = faults + 1
  /\ cache' = api
  /\ watch' = [k \in Keys |-> << >>]
  /\ note' = [k \in Keys |-> IF Exists(api[k]) THEN <<TRUE>> ELSE << >>]
  /\ dirty' = {}
  /\ timer' = [k \in Keys |-> NoTime]
  /\ inflight' = {}
  /\ next' = [k \in Keys |-> NoSched]
  /\ pc' = [k \in Keys |-> "idle"]
  /\ obj' = [k \in Keys |-> NoObj]
  /\ st' = [k \in Keys |-> NoStatus]
  /\ ret' = [k \in Keys |-> NoRet]
  /\ canceled' = [k \in Keys |-> FALSE]
  /\ sched' = [k \in Keys |-> NoHistory]
  /\ UNCHANGED <<now, api, rv, edits>>

Init ==
  /\ now = 0 /\ rv = 0
  /\ api = [k \in Keys |-> NoObj]
  /\ watch = [k \in Keys |-> << >>]
  /\ cache = [k \in Keys |-> NoObj]
  /\ note = [k \in Keys |-> << >>]
  /\ dirty = {} /\ inflight = {}
  /\ timer = [k \in Keys |-> NoTime]
  /\ next = [k \in Keys |-> NoSched]
  /\ pc = [k \in Keys |-> "idle"]
  /\ obj = [k \in Keys |-> NoObj]
  /\ st = [k \in Keys |-> NoStatus]
  /\ ret = [k \in Keys |-> NoRet]
  /\ canceled = [k \in Keys |-> FALSE]
  /\ sched = [k \in Keys |-> NoHistory]
  /\ edits = 0 /\ faults = 0

User(k) ==
  \/ \E s \in Specs : Create(k, s) \/ EditSpec(k, s)
  \/ Annotate(k)
  \/ Delete(k)

Informer(k) == Deliver(k) \/ Relist(k) \/ enqueue(k) \/ forget(k)

patchStatus(k) ==
  \/ patchApplies(k) \/ patchNotFound(k) \/ patchConflict(k)
  \/ \E applied \in BOOLEAN : patchFails(k, applied)

reconcile(k) ==
  \/ markInvalid(k) \/ markPaused(k) \/ notDue(k) \/ startScan(k)
  \/ runScan(k)
  \/ \E failed \in BOOLEAN : scanReturns(k, failed)
  \/ recordFailure(k) \/ recordSuccess(k)
  \/ patchStatus(k)

Next ==
  \/ \E k \in Keys : User(k) \/ Informer(k) \/ FireTimer(k) \/ processNext(k) \/ reconcile(k)
  \/ requeueLoop
  \/ newTerm
  \/ Tick

Spec == Init /\ [][Next]_vars

\* Workers, informer, delayed adds and the poll ticker keep running; the
\* scanner's timeouts make every scan return. Users, the clock, failing calls
\* and a change of leadership owe nothing.
Fairness ==
  /\ \A k \in Keys : /\ WF_vars(Deliver(k)) /\ WF_vars(enqueue(k) \/ forget(k))
                     /\ WF_vars(FireTimer(k))
                     /\ SF_vars(processNext(k)) /\ WF_vars(reconcile(k))
  /\ WF_vars(requeueLoop)

FairSpec == Spec /\ Fairness

-----------------------------------------------------------------------------
(* Properties. *)

Job == {"idle", "reconcile", "running", "starting", "scanning", "failed",
        "succeeded", "write"}

TypeOK ==
  /\ now \in Nat /\ rv \in Nat
  /\ api \in [Keys -> Object] /\ cache \in [Keys -> Object]
  /\ obj \in [Keys -> Object] /\ st \in [Keys -> Status]
  /\ watch \in [Keys -> Seq(Object)] /\ note \in [Keys -> Seq(BOOLEAN)]
  /\ dirty \subseteq Keys /\ inflight \subseteq Keys
  /\ timer \in [Keys -> Times]
  /\ next \in [Keys -> [gen : Nat, at : Times]]
  /\ pc \in [Keys -> Job]
  /\ ret \in [Keys -> [err : BOOLEAN, wait : Nat]]
  /\ canceled \in [Keys -> BOOLEAN]
  /\ sched \in [Keys -> [uid : Nat, gen : Nat, at : Times]]
  /\ edits \in Nat /\ faults \in Nat

\* controller.go, Controller.next: "a requeue that reads a status the informer
\* cache has not caught up on cannot re-run a scan". Within a leadership term
\* and until a deletion under its name is handled, a resource is not scanned
\* again under the same generation before the time its last outcome was
\* scheduled for, whatever conflicts, lost patches and stale events lie between.
ScheduleHonoured ==
  [][\A k \in Keys :
       (/\ pc[k] = "reconcile" /\ pc'[k] = "running"
        /\ sched[k].uid = obj[k].uid /\ sched[k].gen = obj[k].gen)
       => now >= sched[k].at]_vars

\* patchStatus: a write computed from a stale copy never overwrites a newer
\* status. Neither the last successful scan nor the observed generation of a
\* resource ever goes back.
StatusNeverRegresses ==
  [][\A k \in Keys :
       api'[k].uid = api[k].uid =>
         /\ api'[k].status.last >= api[k].status.last
         /\ api'[k].status.obsGen >= api[k].status.obsGen]_vars

\* A resource is marked Running only while its current spec is valid and not
\* paused: a decision made before the user paused or edited it is refused.
NeverMarksStoppedResource ==
  [][\A k \in Keys :
       (api'[k].status.phase = "Running" /\ api[k].status.phase # "Running")
       => /\ Runnable(api[k].spec)
          /\ api'[k].status.obsGen = api[k].gen]_vars

\* The conditions agree with the phase and the counters on every status the
\* API server holds: Scanning exactly while Running, Ready only after a
\* success with no failure since, and never Ready and Failed together.
Coherent(s) ==
  /\ s.scanning <=> s.phase = "Running"
  /\ s.ready => s.last # NoTime /\ s.fails = 0 /\ ~s.failed
  /\ s.phase = "Succeeded" => s.ready
  /\ s.phase = "Failed" => s.failed

ConditionsCoherent == \A k \in Keys : Coherent(api[k].status)

\* A resource whose scan is due, by its status and by what the controller
\* remembers, is eventually scanned or stops being due.
DueNow(k) ==
  /\ Exists(api[k]) /\ Runnable(api[k].spec)
  /\ now >= dueTime(k, api[k].gen, api[k].status, api[k].spec.interval).due

DueIsScanned == \A k \in Keys : DueNow(k) ~> (pc[k] = "scanning" \/ ~DueNow(k))

\* Setting spec.paused is eventually shown in the status, although the first
\* writes may conflict, unless the user changes the resource again.
PausedNow(k) == Exists(api[k]) /\ api[k].spec.valid /\ api[k].spec.paused

PauseIsShown ==
  \A k \in Keys : PausedNow(k) ~> (api[k].status.phase = "Paused" \/ ~PausedNow(k))

\* A status left Running by a crash, a lost call or a conflict does not stay so
\* for ever: it changes, or the controller waits for the next scheduled scan.
RunningResolved ==
  \A k \in Keys :
    (api[k].status.phase = "Running" /\ Runnable(api[k].spec))
    ~> (api[k].status.phase # "Running" \/ ~Runnable(api[k].spec) \/ next[k].at > now)

-----------------------------------------------------------------------------
(* Claims of the documentation that the code does not meet. *)

\* Nothing about the key is queued, held or on its way.
Quiet(k) ==
  /\ watch[k] = << >> /\ note[k] = << >> /\ k \notin dirty /\ pc[k] = "idle"
  /\ timer[k] = NoTime \/ timer[k] > now

\* docs/operator/clusterscan.md: Scanning is True when "A scan is running now",
\* and a write computed from an out-of-date copy "is rejected and retried".
ScanningMeansRunning ==
  \A k \in Keys : api[k].status.scanning => ~Quiet(k)

\* docs/operator/clusterscan.md: "Resource deletion mid-scan: the controller
\* cancels the running scan." A scan of a resource whose deletion the informer
\* has delivered to the handlers is canceled.
DeletedScanIsCanceled ==
  \A k \in Keys : (pc[k] = "scanning" /\ ~Exists(cache[k]) /\ note[k] = << >>) => canceled[k]

=============================================================================
