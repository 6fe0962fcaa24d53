----------------------------- MODULE ScanServer -----------------------------
(***************************************************************************)
(* The scan pipeline of one server process: executeScan and everything     *)
(* that calls it (src/internal/server/scan_once.go, handlers.go,           *)
(* inbound_webhook.go, server.go, cmd/cmd_serve.go).                       *)
(*                                                                         *)
(* Scans are asked for by HTTP requests (POST /api/scans and the signed    *)
(* inbound webhook), by the scheduler of a leadership term, and by the     *)
(* ClusterScan controller of that term.  All of them go through one        *)
(* pipeline guarded by scanMu, hand their notifications to a bounded       *)
(* dispatcher, and race with the loss of the lease and with Shutdown.      *)
(***************************************************************************)
EXTENDS Naturals, FiniteSets

CONSTANTS
  Requests,         \* handlers of requests that trigger a scan
  Streams,          \* handlers of GET /api/events
  Keys,             \* stored API keys
  Schedulers,       \* StartScheduler calls, one per leadership term
  Jobs,             \* reconcile workers that call ScanOnce
  DispatchWorkers,  \* dispatchWorkers
  None              \* nobody holds the lock or the slot

Scans    == Requests \cup Schedulers \cup Jobs
Handlers == Requests \cup Streams

ASSUME ServerAssumption ==
  /\ None \notin Scans
  /\ Requests \cap Schedulers = {} /\ Requests \cap Jobs = {}
  /\ Schedulers \cap Jobs = {} /\ Streams \cap Scans = {}
  /\ IsFiniteSet(Requests) /\ IsFiniteSet(Keys)
  /\ DispatchWorkers \in Nat \ {0}

VARIABLES
  pc,         \* where each goroutine stands
  scanMu,     \* the holder of s.scanMu
  scanBusy,   \* s.scanBusy: a triggered scan holds the trigger slot
  slot,       \* the holder of s.schedulerSlot
  sem,        \* tokens taken from s.dispatchSem, one per running delivery
  touching,   \* keys whose last-used time is being written in the background
  bg,         \* the count of the s.bg WaitGroup
  term,       \* the scheduler whose leadership term is live, or None
  canceled,   \* controller scans whose context is canceled
  phase,      \* the process: up, signalled, draining, waiting, stopped
  timedOut,   \* the HTTP servers did not drain before the deadline
  overtaken   \* history: another scan was saved after this one took its timestamp

vars == <<pc, scanMu, scanBusy, slot, sem, bg, term, canceled, phase, timedOut, overtaken, touching>>
procVars == <<term, phase, timedOut>>

-----------------------------------------------------------------------------

\* The steps of executeScan; the first list runs under scanMu.
Locked  == {"locked", "scanning", "saving", "emitting"}
Stamped == {"scanning", "saving", "emitting"}
InHandler == {"auth", "handling"}
Active  == Locked \cup {"begin", "saved", "failed", "notify", "done"}

\* s.ctx is canceled by Shutdown.
ServerDone == phase \in {"draining", "waiting", "stopped"}

\* ctx.Err() # nil for the context a scan runs under: the server's, the
\* leadership term's, or the one the controller can cancel.
CtxDone(p) ==
  \/ p \in Requests /\ ServerDone
  \/ p \in Schedulers /\ (ServerDone \/ term # p)
  \/ p \in Jobs /\ p \in canceled

Goto(p, l) == pc' = [pc EXCEPT ![p] = l]

\* Mutant of Unlock: one of the returns keeps the mutex.
Unlock_mut(p, l) == Goto(p, l) /\ UNCHANGED scanMu

\* Every return of scanAndSave releases scanMu.
Unlock(p, l) == Goto(p, l) /\ scanMu' = None

-----------------------------------------------------------------------------
(* Triggers. *)

requestArrives(h) ==
  /\ phase \in {"up", "signalled"} /\ pc[h] = "idle"
  /\ Goto(h, "auth")
  /\ UNCHANGED <<scanMu, scanBusy, slot, sem, bg, procVars, canceled, overtaken, touching>>

\* A credential that is no API key, or a key used within keyTouchInterval.
authenticate(h) ==
  /\ pc[h] = "auth"
  /\ Goto(h, "handling")
  /\ UNCHANGED <<scanMu, scanBusy, slot, sem, bg, procVars, canceled, overtaken, touching>>

\* A key's use is recorded in the background. The write gives up after two
\* seconds, long before the key may be touched again.
touchAPIKey(h, k) ==
  /\ pc[h] = "auth" /\ k \notin touching
  /\ touching' = touching \cup {k}
  /\ bg' = bg + 1
  /\ Goto(h, "handling")
  /\ UNCHANGED <<scanMu, scanBusy, slot, sem, procVars, canceled, overtaken>>

touchEnds(k) ==
  /\ k \in touching
  /\ touching' = touching \ {k}
  /\ bg' = bg - 1
  /\ UNCHANGED <<pc, scanMu, scanBusy, slot, sem, procVars, canceled, overtaken>>

\* The credential is refused, the request names no contexts, none in scope, or
\* a scan is in progress: 401, 400, 403 or 429. A stream ends when its client
\* goes away, not with s.ctx.
requestReturns(h) ==
  /\ pc[h] \in InHandler
  /\ Goto(h, "idle")
  /\ UNCHANGED <<scanMu, scanBusy, slot, sem, bg, procVars, canceled, overtaken, touching>>

\* Mutant: the trigger slot is not claimed atomically with the check.
startBackgroundScan_mut(r) ==
  /\ pc[r] = "handling"
  /\ scanBusy' = TRUE
  /\ bg' = bg + 1
  /\ Goto(r, "begin")
  /\ UNCHANGED <<scanMu, slot, sem, procVars, canceled, overtaken, touching>>

\* Mutant: the goroutine registers with the WaitGroup itself, too late.
startBackgroundScan_late(r) ==
  /\ pc[r] = "handling" /\ ~scanBusy
  /\ scanBusy' = TRUE
  /\ Goto(r, "begin")
  /\ UNCHANGED <<scanMu, slot, sem, bg, procVars, canceled, overtaken, touching>>

startBackgroundScan(r) ==
  /\ pc[r] = "handling" /\ ~scanBusy
  /\ scanBusy' = TRUE
  /\ bg' = bg + 1
  /\ Goto(r, "begin")
  /\ UNCHANGED <<scanMu, slot, sem, procVars, canceled, overtaken, touching>>

backgroundScanEnds(r) ==
  /\ r \in Requests /\ pc[r] = "done"
  /\ scanBusy' = FALSE
  /\ bg' = bg - 1
  /\ Goto(r, "idle")
  /\ UNCHANGED <<scanMu, slot, sem, procVars, canceled, overtaken, touching>>

-----------------------------------------------------------------------------
(* The scheduler and the controller of a leadership term. *)

\* OnStartedLeading starts a scheduler for a term; the process holds at most
\* one term at a time.
StartScheduler(d) ==
  /\ phase = "up" /\ term = None /\ pc[d] = "idle"
  /\ term' = d
  /\ Goto(d, "slot")
  /\ UNCHANGED <<scanMu, scanBusy, slot, sem, bg, canceled, phase, timedOut, overtaken, touching>>

\* The lease is lost: the term's context ends for scheduler and controller.
termEnds ==
  /\ term # None
  /\ term' = None
  /\ canceled' = Jobs
  /\ UNCHANGED <<pc, scanMu, scanBusy, slot, sem, bg, phase, timedOut, overtaken, touching>>

\* Mutant: the scheduler does not wait for its predecessor.
schedulerStarts_mut(d) ==
  /\ pc[d] = "slot"
  /\ slot' = d
  /\ Goto(d, "loop")
  /\ UNCHANGED <<scanMu, scanBusy, sem, bg, procVars, canceled, overtaken, touching>>

\* The slot is taken, also when the context is done at the same moment.
schedulerStarts(d) ==
  /\ pc[d] = "slot" /\ slot = None
  /\ slot' = d
  /\ Goto(d, "loop")
  /\ UNCHANGED <<scanMu, scanBusy, sem, bg, procVars, canceled, overtaken, touching>>

schedulerGivesUp(d) ==
  /\ pc[d] = "slot" /\ CtxDone(d)
  /\ Goto(d, "off")
  /\ UNCHANGED <<scanMu, scanBusy, slot, sem, bg, procVars, canceled, overtaken, touching>>

\* Mutant: a scheduler that leaves its loop keeps the slot.
schedulerLoop_mut(d) ==
  /\ pc[d] = "loop"
  /\ Goto(d, IF CtxDone(d) THEN "off" ELSE "begin")
  /\ UNCHANGED <<scanMu, scanBusy, slot, sem, bg, procVars, canceled, overtaken, touching>>

\* The loop's test: scan while the context is live, else release the slot.
schedulerLoop(d) ==
  /\ pc[d] = "loop"
  /\ IF CtxDone(d) THEN slot' = None /\ Goto(d, "off")
                   ELSE UNCHANGED slot /\ Goto(d, "begin")
  /\ UNCHANGED <<scanMu, scanBusy, sem, bg, procVars, canceled, overtaken, touching>>

\* After a scan the scheduler waits for the ticker or the end of its context.
scheduledScanEnds(d) ==
  /\ d \in Schedulers /\ pc[d] = "done"
  /\ Goto(d, "wait")
  /\ UNCHANGED <<scanMu, scanBusy, slot, sem, bg, procVars, canceled, overtaken, touching>>

schedulerTicks(d) ==
  /\ pc[d] = "wait"
  /\ Goto(d, "loop")
  /\ UNCHANGED <<scanMu, scanBusy, slot, sem, bg, procVars, canceled, overtaken, touching>>

\* ScanOnce, called by a reconcile worker of the live term.
ScanOnce(j) ==
  /\ term # None /\ pc[j] = "idle"
  /\ Goto(j, "begin")
  /\ canceled' = canceled \ {j}
  /\ UNCHANGED <<scanMu, scanBusy, slot, sem, bg, procVars, overtaken, touching>>

\* The ClusterScan is deleted while its scan runs.
cancelJob(j) ==
  /\ pc[j] \in Active /\ j \notin canceled
  /\ canceled' = canceled \cup {j}
  /\ UNCHANGED <<pc, scanMu, scanBusy, slot, sem, bg, procVars, overtaken, touching>>

scanOnceReturns(j) ==
  /\ j \in Jobs /\ pc[j] = "done"
  /\ Goto(j, "idle")
  /\ UNCHANGED <<scanMu, scanBusy, slot, sem, bg, procVars, canceled, overtaken, touching>>

-----------------------------------------------------------------------------
(* executeScan. *)

\* A group without members leaves the controller's scan no contexts.
noContexts(j) ==
  /\ j \in Jobs /\ pc[j] = "begin"
  /\ Goto(j, "failed")
  /\ UNCHANGED <<scanMu, scanBusy, slot, sem, bg, procVars, canceled, overtaken, touching>>

\* Mutant: the scan runs without the lock.
lockScan_mut(p) ==
  /\ pc[p] = "begin"
  /\ scanMu' = p
  /\ Goto(p, "locked")
  /\ UNCHANGED <<scanBusy, slot, sem, bg, procVars, canceled, overtaken, touching>>

lockScan(p) ==
  /\ pc[p] = "begin" /\ scanMu = None
  /\ scanMu' = p
  /\ Goto(p, "locked")
  /\ UNCHANGED <<scanBusy, slot, sem, bg, procVars, canceled, overtaken, touching>>

\* Canceled while waiting for the lock, or the scan takes its timestamp.
beginScan(p) ==
  /\ pc[p] = "locked"
  /\ IF CtxDone(p) THEN Unlock(p, "failed") /\ UNCHANGED overtaken
     ELSE /\ Goto(p, "scanning")
          /\ overtaken' = overtaken \ {p}
          /\ UNCHANGED scanMu
  /\ UNCHANGED <<scanBusy, slot, sem, bg, procVars, canceled, touching>>

\* Connect to the clusters and run the scanners; no cluster may be reachable.
scanFleet(p, reached) ==
  /\ pc[p] = "scanning"
  /\ IF reached THEN Goto(p, "saving") /\ UNCHANGED scanMu ELSE Unlock(p, "failed")
  /\ UNCHANGED <<scanBusy, slot, sem, bg, procVars, canceled, overtaken, touching>>

\* SaveScanRecord is one transaction under the scan's context.
saveScan(p) ==
  /\ pc[p] = "saving" /\ ~CtxDone(p)
  /\ Goto(p, "emitting")
  /\ overtaken' = overtaken \cup {q \in Scans \ {p} : pc[q] \in Stamped}
  /\ UNCHANGED <<scanMu, scanBusy, slot, sem, bg, procVars, canceled, touching>>

saveFails(p) ==
  /\ pc[p] = "saving"
  /\ Unlock(p, "failed")
  /\ UNCHANGED <<scanBusy, slot, sem, bg, procVars, canceled, overtaken, touching>>

\* Build the report, write the local report files, release the lock.
emitReports(p) ==
  /\ pc[p] = "emitting"
  /\ Unlock(p, "saved")
  /\ UNCHANGED <<scanBusy, slot, sem, bg, procVars, canceled, overtaken, touching>>

\* Count and publish the outcome. A failed scan returns; a saved one goes on to
\* its notifications when Slack or a webhook is configured and wanted.
publishOutcome(p, notify) ==
  /\ \/ pc[p] = "failed" /\ ~notify
     \/ pc[p] = "saved"
  /\ Goto(p, IF notify THEN "notify" ELSE "done")
  /\ UNCHANGED <<scanMu, scanBusy, slot, sem, bg, procVars, canceled, overtaken, touching>>

\* Mutant: the delivery is not counted in s.bg.
dispatchNotifications_mut(p) ==
  /\ pc[p] = "notify" /\ sem < DispatchWorkers
  /\ sem' = sem + 1
  /\ Goto(p, "done")
  /\ UNCHANGED <<scanMu, scanBusy, slot, bg, procVars, canceled, overtaken, touching>>

\* Mutant: the delivery does not wait for a slot.
dispatchNotifications_free(p) ==
  /\ pc[p] = "notify"
  /\ sem' = sem + 1
  /\ bg' = bg + 1
  /\ Goto(p, "done")
  /\ UNCHANGED <<scanMu, scanBusy, slot, procVars, canceled, overtaken, touching>>

\* A slot is free: a delivery goroutine is counted and started.
dispatchNotifications(p) ==
  /\ pc[p] = "notify" /\ sem < DispatchWorkers
  /\ sem' = sem + 1
  /\ bg' = bg + 1
  /\ Goto(p, "done")
  /\ UNCHANGED <<scanMu, scanBusy, slot, procVars, canceled, overtaken, touching>>

\* The server shuts down: the wait for a slot is abandoned.
dispatchGivesUp(p) ==
  /\ pc[p] = "notify" /\ ServerDone
  /\ Goto(p, "done")
  /\ UNCHANGED <<scanMu, scanBusy, slot, sem, bg, procVars, canceled, overtaken, touching>>

\* Mutant: a finished delivery keeps its slot.
deliveryEnds_mut ==
  /\ sem > 0 /\ bg > 0
  /\ bg' = bg - 1
  /\ UNCHANGED <<pc, scanMu, scanBusy, slot, sem, procVars, canceled, overtaken, touching>>

\* A delivery, to Slack and then to the webhooks, finishes.
deliveryEnds ==
  /\ sem > 0
  /\ sem' = sem - 1
  /\ bg' = bg - 1
  /\ UNCHANGED <<pc, scanMu, scanBusy, slot, procVars, canceled, overtaken, touching>>

-----------------------------------------------------------------------------
(* Shutdown. *)

\* SIGTERM or a failed listener cancels the process context, and with it the
\* leadership term.
signal ==
  /\ phase = "up"
  /\ phase' = "signalled"
  /\ term' = None
  /\ canceled' = Jobs
  /\ UNCHANGED <<pc, scanMu, scanBusy, slot, sem, bg, timedOut, overtaken, touching>>

\* Shutdown cancels s.ctx and closes the listeners.
Shutdown ==
  /\ phase = "signalled"
  /\ phase' = "draining"
  /\ UNCHANGED <<pc, scanMu, scanBusy, slot, sem, bg, term, canceled, timedOut, overtaken, touching>>

\* http.Server.Shutdown returns once no handler runs, or at its deadline.
httpDrained ==
  /\ phase = "draining"
  /\ \A h \in Handlers : pc[h] \notin InHandler
  /\ phase' = "waiting"
  /\ UNCHANGED <<pc, scanMu, scanBusy, slot, sem, bg, term, canceled, timedOut, overtaken, touching>>

httpDeadline ==
  /\ phase = "draining"
  /\ \E h \in Handlers : pc[h] \in InHandler
  /\ phase' = "waiting"
  /\ timedOut' = TRUE
  /\ UNCHANGED <<pc, scanMu, scanBusy, slot, sem, bg, term, canceled, overtaken, touching>>

\* bg.Wait returns; the store is closed and the process is about to exit.
bgWait ==
  /\ phase = "waiting" /\ bg = 0
  /\ phase' = "stopped"
  /\ UNCHANGED <<pc, scanMu, scanBusy, slot, sem, bg, term, canceled, timedOut, overtaken, touching>>

-----------------------------------------------------------------------------

Init ==
  /\ pc = [p \in Scans \cup Streams |-> "idle"]
  /\ scanMu = None /\ slot = None /\ term = None
  /\ scanBusy = FALSE /\ timedOut = FALSE
  /\ sem = 0 /\ bg = 0
  /\ canceled = {} /\ overtaken = {} /\ touching = {}
  /\ phase = "up"

executeScan(p) ==
  \/ noContexts(p) \/ lockScan(p) \/ beginScan(p)
  \/ \E reached \in BOOLEAN : scanFleet(p, reached)
  \/ saveScan(p) \/ saveFails(p) \/ emitReports(p)
  \/ \E notify \in BOOLEAN : publishOutcome(p, notify)
  \/ dispatchNotifications(p) \/ dispatchGivesUp(p)

Handler(h) ==
  \/ requestArrives(h) \/ authenticate(h) \/ requestReturns(h)
  \/ \E k \in Keys : touchAPIKey(h, k)

Trigger(r) == startBackgroundScan(r) \/ backgroundScanEnds(r)

Scheduler(d) ==
  \/ schedulerStarts(d) \/ schedulerGivesUp(d) \/ schedulerLoop(d)
  \/ scheduledScanEnds(d) \/ schedulerTicks(d)

Job(j) == ScanOnce(j) \/ cancelJob(j) \/ scanOnceReturns(j)

Process == signal \/ Shutdown \/ httpDrained \/ httpDeadline \/ bgWait

Next ==
  \/ \E h \in Handlers : Handler(h)
  \/ \E r \in Requests : Trigger(r)
  \/ \E d \in Schedulers : StartScheduler(d) \/ Scheduler(d)
  \/ \E j \in Jobs : Job(j)
  \/ \E p \in Scans : executeScan(p)
  \/ termEnds
  \/ deliveryEnds
  \/ \E k \in Keys : touchEnds(k)
  \/ Process

Spec == Init /\ [][Next]_vars

\* Goroutines keep running and calls time out: scanners, deliveries and the
\* HTTP drain have deadlines. A mutex or a channel serves its waiters in turn,
\* so a goroutine that waits on one is not passed over for ever. Clients, the
\* lease, deletions and signals owe nothing, and an event stream may stay open.
Fairness ==
  /\ \A p \in Scans : /\ WF_vars(executeScan(p)) /\ SF_vars(lockScan(p))
                      /\ SF_vars(dispatchNotifications(p))
  /\ \A r \in Requests : /\ WF_vars(requestReturns(r) \/ startBackgroundScan(r))
                         /\ WF_vars(backgroundScanEnds(r))
  /\ \A d \in Schedulers : WF_vars(Scheduler(d)) /\ SF_vars(schedulerStarts(d))
  /\ \A j \in Jobs : WF_vars(scanOnceReturns(j))
  /\ WF_vars(deliveryEnds) /\ \A k \in Keys : WF_vars(touchEnds(k))
  /\ WF_vars(Shutdown \/ httpDrained \/ httpDeadline) /\ WF_vars(bgWait)

FairSpec == Spec /\ Fairness

-----------------------------------------------------------------------------
(* Properties. *)

Labels == Active \cup InHandler \cup {"idle", "slot", "loop", "wait", "off"}

TypeOK ==
  /\ pc \in [Scans \cup Streams -> Labels]
  /\ scanMu \in Scans \cup {None}
  /\ slot \in Schedulers \cup {None} /\ term \in Schedulers \cup {None}
  /\ scanBusy \in BOOLEAN /\ timedOut \in BOOLEAN
  /\ sem \in 0..DispatchWorkers /\ bg \in Nat
  /\ canceled \subseteq Jobs /\ overtaken \subseteq Scans
  /\ touching \subseteq Keys
  /\ phase \in {"up", "signalled", "draining", "waiting", "stopped"}

\* server.go, scanMu: "only one scan may run at a time", whoever asks for it
\* and however its context ends.
OneScanAtATime ==
  \A p, q \in Scans : (pc[p] \in Locked /\ pc[q] \in Locked) => p = q

\* scanAndSave takes the timestamp, saves and writes the report files under one
\* hold of scanMu: scans are saved in the order of their timestamps, and the
\* report files on disk never go back to an older scan.
SavesInTimestampOrder ==
  \A p \in Scans : pc[p] \in Stamped => p \notin overtaken

\* handlers.go: "Concurrent triggers receive 429". The trigger slot is taken
\* exactly while one triggered scan exists.
Triggered == {r \in Requests : pc[r] \in Active}

TriggerSlotExact ==
  /\ \A r, q \in Triggered : r = q
  /\ scanBusy <=> Triggered # {}

\* StartScheduler: "a replica that loses and regains leadership never runs
\* two", although the old scheduler may still be inside a scan.
SchedulerLoop == {"loop", "wait"} \cup Active

OneScheduler ==
  \A d, e \in Schedulers :
    (pc[d] \in SchedulerLoop /\ pc[e] \in SchedulerLoop) => d = e

\* The WaitGroup counts the triggered scans, the deliveries and the key
\* touches, no more and no fewer, so Shutdown neither hangs on a lost Done nor
\* returns early.
BackgroundCounted == bg = Cardinality(Triggered) + sem + Cardinality(touching)

\* Shutdown: once it has returned without hitting its deadline, no triggered
\* scan and no write of a key's last use is running and none can start.
TriggersDrained ==
  (phase = "stopped" /\ ~timedOut) =>
    (\A r \in Requests : pc[r] = "idle") /\ touching = {}

\* A triggered scan frees the trigger slot, even when it has to wait for the
\* lock, for a delivery slot, or is overtaken by the shutdown.
TriggerSlotFreed == scanBusy ~> ~scanBusy

\* Shutdown returns: open event streams, a scan in progress and full delivery
\* slots delay it only.
ShutdownReturns == (phase = "signalled") ~> (phase = "stopped")

\* The scheduler of a new term starts once its predecessor has wound down.
NewTermIsScheduled ==
  \A d \in Schedulers :
    (pc[d] = "slot" /\ term = d) ~> (pc[d] = "loop" \/ term # d \/ ServerDone)

-----------------------------------------------------------------------------
(* A claim of the code's comments that the code does not meet. *)

\* server.go, Shutdown "waits for fire-and-forget background goroutines to
\* drain": no delivery is running once it has returned.
ShutdownDrains == phase = "stopped" => sem = 0

=============================================================================
