-------------------------- MODULE ScanServer_proofs --------------------------
(***************************************************************************)
(* Proofs about the scan pipeline, for any number of requests, streams,    *)
(* leadership terms, controller workers and delivery slots.                *)
(***************************************************************************)
EXTENDS ScanServer, FiniteSetTheorems, TLAPS

\* Who may stand where: triggers, schedulers, controller scans and streams
\* each have their own labels outside executeScan.
Placed ==
  /\ \A r \in Requests : pc[r] \in Active \cup InHandler \cup {"idle"}
  /\ \A d \in Schedulers : pc[d] \in Active \cup {"idle", "slot", "loop", "wait", "off"}
  /\ \A j \in Jobs : pc[j] \in Active \cup {"idle"}
  /\ \A s \in Streams : pc[s] \in InHandler \cup {"idle"}

\* A goroutine is inside the locked part exactly while it holds scanMu.
LockInv == \A p \in Scans : pc[p] \in Locked <=> scanMu = p

\* A scheduler is past its wait exactly while it holds the slot.
SlotInv == \A d \in Schedulers : pc[d] \in SchedulerLoop <=> slot = d

\* The WaitGroup, with the at most one triggered scan read off scanBusy.
CountInv == bg = sem + Cardinality(touching) + (IF scanBusy THEN 1 ELSE 0)

\* No handler is left once the HTTP servers have drained in time.
DrainInv ==
  /\ (phase \in {"waiting", "stopped"} /\ ~timedOut) =>
       \A h \in Handlers : pc[h] \notin InHandler
  /\ (phase = "stopped" /\ ~timedOut) => ~scanBusy /\ touching = {}

IInv ==
  /\ TypeOK /\ Placed /\ LockInv /\ SlotInv /\ SavesInTimestampOrder
  /\ TriggerSlotExact /\ CountInv /\ DrainInv

USE ServerAssumption DEF Scans, Handlers, Active, InHandler, Locked, Stamped, SchedulerLoop, Labels

\* The keys being touched are finitely many; one more or one fewer changes
\* their number by one.
LEMMA TouchCount ==
  ASSUME TypeOK
  PROVE  /\ Cardinality(touching) \in Nat
         /\ Cardinality(touching) = 0 <=> touching = {}
         /\ \A k \in Keys \ touching :
              Cardinality(touching \cup {k}) = Cardinality(touching) + 1
         /\ \A k \in touching :
              Cardinality(touching \ {k}) = Cardinality(touching) - 1
<1>1. IsFiniteSet(touching)
  BY FS_Subset DEF TypeOK
<1> QED
  BY <1>1, FS_CardinalityType, FS_EmptySet, FS_AddElement, FS_RemoveElement

\* The initial states satisfy the inductive invariant: everything is idle.
LEMMA InitIInv == Init => IInv
<1> SUFFICES ASSUME Init PROVE IInv
  OBVIOUS
<1> USE DEF Init
<1>1. TypeOK
  <2>1. pc \in [Scans \cup Streams -> Labels]
    OBVIOUS
  <2>2. scanMu \in Scans \cup {None} /\ slot \in Schedulers \cup {None} /\ term \in Schedulers \cup {None}
    OBVIOUS
  <2>3. scanBusy \in BOOLEAN /\ timedOut \in BOOLEAN
    OBVIOUS
  <2>4. sem \in 0..DispatchWorkers /\ bg \in Nat
    OBVIOUS
  <2>5. canceled \subseteq Jobs /\ overtaken \subseteq Scans /\ touching \subseteq Keys
    OBVIOUS
  <2>6. phase \in {"up", "signalled", "draining", "waiting", "stopped"}
    OBVIOUS
  <2> QED
    BY <2>1, <2>2, <2>3, <2>4, <2>5, <2>6 DEF TypeOK
<1>2. Placed
  BY DEF Placed
<1>3. LockInv /\ SlotInv
  BY DEF LockInv, SlotInv
<1>4. SavesInTimestampOrder /\ TriggerSlotExact
  BY DEF SavesInTimestampOrder, TriggerSlotExact, Triggered
<1>5. CountInv /\ DrainInv
  BY FS_EmptySet DEF CountInv, DrainInv
<1> QED
  BY <1>1, <1>2, <1>3, <1>4, <1>5 DEF IInv

\* Every step keeps each goroutine among the labels of its kind.
LEMMA NextPlaced == Placed /\ TypeOK /\ [Next]_vars => Placed'
<1> SUFFICES ASSUME Placed, TypeOK, [Next]_vars PROVE Placed'
  OBVIOUS
<1> USE DEF Placed, TypeOK, Goto, procVars
<1>1. ASSUME NEW h \in Handlers, requestArrives(h) PROVE Placed'
  BY <1>1 DEF requestArrives
<1>2. ASSUME NEW h \in Handlers, requestReturns(h) PROVE Placed'
  BY <1>2 DEF requestReturns
<1>3. ASSUME NEW r \in Requests, startBackgroundScan(r) PROVE Placed'
  BY <1>3 DEF startBackgroundScan
<1>4. ASSUME NEW r \in Requests, backgroundScanEnds(r) PROVE Placed'
  BY <1>4 DEF backgroundScanEnds
<1>5. ASSUME NEW d \in Schedulers, StartScheduler(d) PROVE Placed'
  BY <1>5 DEF StartScheduler
<1>6. ASSUME NEW d \in Schedulers, schedulerStarts(d) PROVE Placed'
  BY <1>6 DEF schedulerStarts
<1>7. ASSUME NEW d \in Schedulers, schedulerGivesUp(d) PROVE Placed'
  BY <1>7 DEF schedulerGivesUp
<1>8. ASSUME NEW d \in Schedulers, schedulerLoop(d) PROVE Placed'
  BY <1>8 DEF schedulerLoop
<1>9. ASSUME NEW d \in Schedulers, scheduledScanEnds(d) PROVE Placed'
  BY <1>9 DEF scheduledScanEnds
<1>10. ASSUME NEW d \in Schedulers, schedulerTicks(d) PROVE Placed'
  BY <1>10 DEF schedulerTicks
<1>11. ASSUME NEW j \in Jobs, ScanOnce(j) PROVE Placed'
  BY <1>11 DEF ScanOnce
<1>12. ASSUME NEW j \in Jobs, cancelJob(j) PROVE Placed'
  BY <1>12 DEF cancelJob
<1>13. ASSUME NEW j \in Jobs, scanOnceReturns(j) PROVE Placed'
  BY <1>13 DEF scanOnceReturns
<1>14. ASSUME NEW p \in Scans, noContexts(p) PROVE Placed'
  BY <1>14 DEF noContexts
<1>15. ASSUME NEW p \in Scans, lockScan(p) PROVE Placed'
  BY <1>15 DEF lockScan
<1>16. ASSUME NEW p \in Scans, beginScan(p) PROVE Placed'
  BY <1>16 DEF beginScan, Unlock
<1>17. ASSUME NEW p \in Scans, NEW reached \in BOOLEAN, scanFleet(p, reached) PROVE Placed'
  BY <1>17 DEF scanFleet, Unlock
<1>18. ASSUME NEW p \in Scans, saveScan(p) PROVE Placed'
  BY <1>18 DEF saveScan
<1>19. ASSUME NEW p \in Scans, saveFails(p) PROVE Placed'
  BY <1>19 DEF saveFails, Unlock
<1>20. ASSUME NEW p \in Scans, emitReports(p) PROVE Placed'
  BY <1>20 DEF emitReports, Unlock
<1>21. ASSUME NEW p \in Scans, NEW notify \in BOOLEAN, publishOutcome(p, notify) PROVE Placed'
  BY <1>21 DEF publishOutcome
<1>22. ASSUME NEW p \in Scans, dispatchNotifications(p) PROVE Placed'
  BY <1>22 DEF dispatchNotifications
<1>23. ASSUME NEW p \in Scans, dispatchGivesUp(p) PROVE Placed'
  BY <1>23 DEF dispatchGivesUp
<1>24. CASE termEnds
  BY <1>24 DEF termEnds
<1>25. CASE deliveryEnds
  BY <1>25 DEF deliveryEnds
<1>26. CASE signal
  BY <1>26 DEF signal
<1>27. CASE Shutdown
  BY <1>27 DEF Shutdown
<1>28. CASE httpDrained
  BY <1>28 DEF httpDrained
<1>29. CASE httpDeadline
  BY <1>29 DEF httpDeadline
<1>30. CASE bgWait
  BY <1>30 DEF bgWait
<1>31. CASE UNCHANGED vars
  BY <1>31 DEF vars
<1>32. ASSUME NEW h \in Handlers, authenticate(h) PROVE Placed'
  BY <1>32 DEF authenticate
<1>33. ASSUME NEW h \in Handlers, NEW k \in Keys, touchAPIKey(h, k) PROVE Placed'
  BY <1>33 DEF touchAPIKey
<1>34. ASSUME NEW k \in Keys, touchEnds(k) PROVE Placed'
  BY <1>34 DEF touchEnds
<1> QED
  BY <1>1, <1>2, <1>3, <1>4, <1>5, <1>6, <1>7, <1>8, <1>9, <1>10, <1>11,
     <1>12, <1>13, <1>14, <1>15, <1>16, <1>17, <1>18, <1>19, <1>20,
     <1>21, <1>22, <1>23, <1>24, <1>25, <1>26, <1>27, <1>28, <1>29,
     <1>30, <1>31, <1>32, <1>33, <1>34
     DEF Next, Handler, Trigger, Scheduler, Job, executeScan, Process

\* Every step keeps the types.
LEMMA NextTypeOK ==
  TypeOK /\ CountInv /\ TriggerSlotExact /\ [Next]_vars => TypeOK'
<1> SUFFICES ASSUME TypeOK, CountInv, TriggerSlotExact, [Next]_vars PROVE TypeOK'
  OBVIOUS
<1> USE DEF TypeOK, Goto, procVars
<1>1. ASSUME NEW h \in Handlers, requestArrives(h) PROVE TypeOK'
  BY <1>1 DEF requestArrives
<1>2. ASSUME NEW h \in Handlers, requestReturns(h) PROVE TypeOK'
  BY <1>2 DEF requestReturns
<1>3. ASSUME NEW r \in Requests, startBackgroundScan(r) PROVE TypeOK'
  BY <1>3 DEF startBackgroundScan
<1>4. ASSUME NEW r \in Requests, backgroundScanEnds(r) PROVE TypeOK'
  <2>1. scanBusy
    BY <1>4 DEF backgroundScanEnds, TriggerSlotExact, Triggered
  <2>2. bg' \in Nat
    BY <1>4, <2>1, TouchCount DEF backgroundScanEnds, CountInv
  <2> QED
    BY <1>4, <2>2 DEF backgroundScanEnds
<1>5. ASSUME NEW d \in Schedulers, StartScheduler(d) PROVE TypeOK'
  BY <1>5 DEF StartScheduler
<1>6. ASSUME NEW d \in Schedulers, schedulerStarts(d) PROVE TypeOK'
  BY <1>6 DEF schedulerStarts
<1>7. ASSUME NEW d \in Schedulers, schedulerGivesUp(d) PROVE TypeOK'
  BY <1>7 DEF schedulerGivesUp
<1>8. ASSUME NEW d \in Schedulers, schedulerLoop(d) PROVE TypeOK'
  BY <1>8 DEF schedulerLoop
<1>9. ASSUME NEW d \in Schedulers, scheduledScanEnds(d) PROVE TypeOK'
  BY <1>9 DEF scheduledScanEnds
<1>10. ASSUME NEW d \in Schedulers, schedulerTicks(d) PROVE TypeOK'
  BY <1>10 DEF schedulerTicks
<1>11. ASSUME NEW j \in Jobs, ScanOnce(j) PROVE TypeOK'
  BY <1>11 DEF ScanOnce
<1>12. ASSUME NEW j \in Jobs, cancelJob(j) PROVE TypeOK'
  BY <1>12 DEF cancelJob
<1>13. ASSUME NEW j \in Jobs, scanOnceReturns(j) PROVE TypeOK'
  BY <1>13 DEF scanOnceReturns
<1>14. ASSUME NEW p \in Scans, noContexts(p) PROVE TypeOK'
  BY <1>14 DEF noContexts
<1>15. ASSUME NEW p \in Scans, lockScan(p) PROVE TypeOK'
  BY <1>15 DEF lockScan
<1>16. ASSUME NEW p \in Scans, beginScan(p) PROVE TypeOK'
  BY <1>16 DEF beginScan, Unlock
<1>17. ASSUME NEW p \in Scans, NEW reached \in BOOLEAN, scanFleet(p, reached) PROVE TypeOK'
  BY <1>17 DEF scanFleet, Unlock
<1>18. ASSUME NEW p \in Scans, saveScan(p) PROVE TypeOK'
  BY <1>18 DEF saveScan
<1>19. ASSUME NEW p \in Scans, saveFails(p) PROVE TypeOK'
  BY <1>19 DEF saveFails, Unlock
<1>20. ASSUME NEW p \in Scans, emitReports(p) PROVE TypeOK'
  BY <1>20 DEF emitReports, Unlock
<1>21. ASSUME NEW p \in Scans, NEW notify \in BOOLEAN, publishOutcome(p, notify) PROVE TypeOK'
  BY <1>21 DEF publishOutcome
<1>22. ASSUME NEW p \in Scans, dispatchNotifications(p) PROVE TypeOK'
  BY <1>22 DEF dispatchNotifications
<1>23. ASSUME NEW p \in Scans, dispatchGivesUp(p) PROVE TypeOK'
  BY <1>23 DEF dispatchGivesUp
<1>24. CASE termEnds
  BY <1>24 DEF termEnds
<1>25. CASE deliveryEnds
  <2>1. bg' \in Nat /\ sem' \in 0..DispatchWorkers
    BY <1>25, TouchCount DEF deliveryEnds, CountInv
  <2> QED
    BY <1>25, <2>1 DEF deliveryEnds
<1>26. CASE signal
  BY <1>26 DEF signal
<1>27. CASE Shutdown
  BY <1>27 DEF Shutdown
<1>28. CASE httpDrained
  BY <1>28 DEF httpDrained
<1>29. CASE httpDeadline
  BY <1>29 DEF httpDeadline
<1>30. CASE bgWait
  BY <1>30 DEF bgWait
<1>31. CASE UNCHANGED vars
  BY <1>31 DEF vars
<1>32. ASSUME NEW h \in Handlers, authenticate(h) PROVE TypeOK'
  BY <1>32 DEF authenticate
<1>33. ASSUME NEW h \in Handlers, NEW k \in Keys, touchAPIKey(h, k) PROVE TypeOK'
  BY <1>33 DEF touchAPIKey
<1>34. ASSUME NEW k \in Keys, touchEnds(k) PROVE TypeOK'
  <2>1. Cardinality(touching) \in Nat \ {0}
    BY <1>34, TouchCount DEF touchEnds
  <2>2. bg' \in Nat
    BY <1>34, <2>1 DEF touchEnds, CountInv
  <2> QED
    BY <1>34, <2>2 DEF touchEnds
<1> QED
  BY <1>1, <1>2, <1>3, <1>4, <1>5, <1>6, <1>7, <1>8, <1>9, <1>10, <1>11,
     <1>12, <1>13, <1>14, <1>15, <1>16, <1>17, <1>18, <1>19, <1>20,
     <1>21, <1>22, <1>23, <1>24, <1>25, <1>26, <1>27, <1>28, <1>29,
     <1>30, <1>31, <1>32, <1>33, <1>34
     DEF Next, Handler, Trigger, Scheduler, Job, executeScan, Process

\* Every step keeps scanMu with the goroutine inside the locked part.
LEMMA NextLockInv == LockInv /\ Placed /\ TypeOK /\ [Next]_vars => LockInv'
<1> SUFFICES ASSUME LockInv, Placed, TypeOK, [Next]_vars PROVE LockInv'
  OBVIOUS
<1> USE DEF LockInv, Placed, TypeOK, Goto, procVars
<1>1. ASSUME NEW h \in Handlers, requestArrives(h) PROVE LockInv'
  BY <1>1 DEF requestArrives
<1>2. ASSUME NEW h \in Handlers, requestReturns(h) PROVE LockInv'
  BY <1>2 DEF requestReturns
<1>3. ASSUME NEW r \in Requests, startBackgroundScan(r) PROVE LockInv'
  BY <1>3 DEF startBackgroundScan
<1>4. ASSUME NEW r \in Requests, backgroundScanEnds(r) PROVE LockInv'
  BY <1>4 DEF backgroundScanEnds
<1>5. ASSUME NEW d \in Schedulers, StartScheduler(d) PROVE LockInv'
  BY <1>5 DEF StartScheduler
<1>6. ASSUME NEW d \in Schedulers, schedulerStarts(d) PROVE LockInv'
  BY <1>6 DEF schedulerStarts
<1>7. ASSUME NEW d \in Schedulers, schedulerGivesUp(d) PROVE LockInv'
  BY <1>7 DEF schedulerGivesUp
<1>8. ASSUME NEW d \in Schedulers, schedulerLoop(d) PROVE LockInv'
  BY <1>8 DEF schedulerLoop
<1>9. ASSUME NEW d \in Schedulers, scheduledScanEnds(d) PROVE LockInv'
  BY <1>9 DEF scheduledScanEnds
<1>10. ASSUME NEW d \in Schedulers, schedulerTicks(d) PROVE LockInv'
  BY <1>10 DEF schedulerTicks
<1>11. ASSUME NEW j \in Jobs, ScanOnce(j) PROVE LockInv'
  BY <1>11 DEF ScanOnce
<1>12. ASSUME NEW j \in Jobs, cancelJob(j) PROVE LockInv'
  BY <1>12 DEF cancelJob
<1>13. ASSUME NEW j \in Jobs, scanOnceReturns(j) PROVE LockInv'
  BY <1>13 DEF scanOnceReturns
<1>14. ASSUME NEW p \in Scans, noContexts(p) PROVE LockInv'
  BY <1>14 DEF noContexts
<1>15. ASSUME NEW p \in Scans, lockScan(p) PROVE LockInv'
  BY <1>15 DEF lockScan
<1>16. ASSUME NEW p \in Scans, beginScan(p) PROVE LockInv'
  BY <1>16 DEF beginScan, Unlock
<1>17. ASSUME NEW p \in Scans, NEW reached \in BOOLEAN, scanFleet(p, reached) PROVE LockInv'
  BY <1>17 DEF scanFleet, Unlock
<1>18. ASSUME NEW p \in Scans, saveScan(p) PROVE LockInv'
  BY <1>18 DEF saveScan
<1>19. ASSUME NEW p \in Scans, saveFails(p) PROVE LockInv'
  BY <1>19 DEF saveFails, Unlock
<1>20. ASSUME NEW p \in Scans, emitReports(p) PROVE LockInv'
  BY <1>20 DEF emitReports, Unlock
<1>21. ASSUME NEW p \in Scans, NEW notify \in BOOLEAN, publishOutcome(p, notify) PROVE LockInv'
  BY <1>21 DEF publishOutcome
<1>22. ASSUME NEW p \in Scans, dispatchNotifications(p) PROVE LockInv'
  BY <1>22 DEF dispatchNotifications
<1>23. ASSUME NEW p \in Scans, dispatchGivesUp(p) PROVE LockInv'
  BY <1>23 DEF dispatchGivesUp
<1>24. CASE termEnds
  BY <1>24 DEF termEnds
<1>25. CASE deliveryEnds
  BY <1>25 DEF deliveryEnds
<1>26. CASE signal
  BY <1>26 DEF signal
<1>27. CASE Shutdown
  BY <1>27 DEF Shutdown
<1>28. CASE httpDrained
  BY <1>28 DEF httpDrained
<1>29. CASE httpDeadline
  BY <1>29 DEF httpDeadline
<1>30. CASE bgWait
  BY <1>30 DEF bgWait
<1>31. CASE UNCHANGED vars
  BY <1>31 DEF vars
<1>32. ASSUME NEW h \in Handlers, authenticate(h) PROVE LockInv'
  BY <1>32 DEF authenticate
<1>33. ASSUME NEW h \in Handlers, NEW k \in Keys, touchAPIKey(h, k) PROVE LockInv'
  BY <1>33 DEF touchAPIKey
<1>34. ASSUME NEW k \in Keys, touchEnds(k) PROVE LockInv'
  BY <1>34 DEF touchEnds
<1> QED
  BY <1>1, <1>2, <1>3, <1>4, <1>5, <1>6, <1>7, <1>8, <1>9, <1>10, <1>11,
     <1>12, <1>13, <1>14, <1>15, <1>16, <1>17, <1>18, <1>19, <1>20,
     <1>21, <1>22, <1>23, <1>24, <1>25, <1>26, <1>27, <1>28, <1>29,
     <1>30, <1>31, <1>32, <1>33, <1>34
     DEF Next, Handler, Trigger, Scheduler, Job, executeScan, Process

\* Every step keeps the scheduler slot with the scheduler that runs.
LEMMA NextSlotInv == SlotInv /\ Placed /\ TypeOK /\ [Next]_vars => SlotInv'
<1> SUFFICES ASSUME SlotInv, Placed, TypeOK, [Next]_vars PROVE SlotInv'
  OBVIOUS
<1> USE DEF SlotInv, Placed, TypeOK, Goto, procVars
<1>1. ASSUME NEW h \in Handlers, requestArrives(h) PROVE SlotInv'
  BY <1>1 DEF requestArrives
<1>2. ASSUME NEW h \in Handlers, requestReturns(h) PROVE SlotInv'
  BY <1>2 DEF requestReturns
<1>3. ASSUME NEW r \in Requests, startBackgroundScan(r) PROVE SlotInv'
  BY <1>3 DEF startBackgroundScan
<1>4. ASSUME NEW r \in Requests, backgroundScanEnds(r) PROVE SlotInv'
  BY <1>4 DEF backgroundScanEnds
<1>5. ASSUME NEW d \in Schedulers, StartScheduler(d) PROVE SlotInv'
  BY <1>5 DEF StartScheduler
<1>6. ASSUME NEW d \in Schedulers, schedulerStarts(d) PROVE SlotInv'
  BY <1>6 DEF schedulerStarts
<1>7. ASSUME NEW d \in Schedulers, schedulerGivesUp(d) PROVE SlotInv'
  BY <1>7 DEF schedulerGivesUp
<1>8. ASSUME NEW d \in Schedulers, schedulerLoop(d) PROVE SlotInv'
  BY <1>8 DEF schedulerLoop
<1>9. ASSUME NEW d \in Schedulers, scheduledScanEnds(d) PROVE SlotInv'
  BY <1>9 DEF scheduledScanEnds
<1>10. ASSUME NEW d \in Schedulers, schedulerTicks(d) PROVE SlotInv'
  BY <1>10 DEF schedulerTicks
<1>11. ASSUME NEW j \in Jobs, ScanOnce(j) PROVE SlotInv'
  BY <1>11 DEF ScanOnce
<1>12. ASSUME NEW j \in Jobs, cancelJob(j) PROVE SlotInv'
  BY <1>12 DEF cancelJob
<1>13. ASSUME NEW j \in Jobs, scanOnceReturns(j) PROVE SlotInv'
  BY <1>13 DEF scanOnceReturns
<1>14. ASSUME NEW p \in Scans, noContexts(p) PROVE SlotInv'
  BY <1>14 DEF noContexts
<1>15. ASSUME NEW p \in Scans, lockScan(p) PROVE SlotInv'
  BY <1>15 DEF lockScan
<1>16. ASSUME NEW p \in Scans, beginScan(p) PROVE SlotInv'
  BY <1>16 DEF beginScan, Unlock
<1>17. ASSUME NEW p \in Scans, NEW reached \in BOOLEAN, scanFleet(p, reached) PROVE SlotInv'
  BY <1>17 DEF scanFleet, Unlock
<1>18. ASSUME NEW p \in Scans, saveScan(p) PROVE SlotInv'
  BY <1>18 DEF saveScan
<1>19. ASSUME NEW p \in Scans, saveFails(p) PROVE SlotInv'
  BY <1>19 DEF saveFails, Unlock
<1>20. ASSUME NEW p \in Scans, emitReports(p) PROVE SlotInv'
  BY <1>20 DEF emitReports, Unlock
<1>21. ASSUME NEW p \in Scans, NEW notify \in BOOLEAN, publishOutcome(p, notify) PROVE SlotInv'
  BY <1>21 DEF publishOutcome
<1>22. ASSUME NEW p \in Scans, dispatchNotifications(p) PROVE SlotInv'
  BY <1>22 DEF dispatchNotifications
<1>23. ASSUME NEW p \in Scans, dispatchGivesUp(p) PROVE SlotInv'
  BY <1>23 DEF dispatchGivesUp
<1>24. CASE termEnds
  BY <1>24 DEF termEnds
<1>25. CASE deliveryEnds
  BY <1>25 DEF deliveryEnds
<1>26. CASE signal
  BY <1>26 DEF signal
<1>27. CASE Shutdown
  BY <1>27 DEF Shutdown
<1>28. CASE httpDrained
  BY <1>28 DEF httpDrained
<1>29. CASE httpDeadline
  BY <1>29 DEF httpDeadline
<1>30. CASE bgWait
  BY <1>30 DEF bgWait
<1>31. CASE UNCHANGED vars
  BY <1>31 DEF vars
<1>32. ASSUME NEW h \in Handlers, authenticate(h) PROVE SlotInv'
  BY <1>32 DEF authenticate
<1>33. ASSUME NEW h \in Handlers, NEW k \in Keys, touchAPIKey(h, k) PROVE SlotInv'
  BY <1>33 DEF touchAPIKey
<1>34. ASSUME NEW k \in Keys, touchEnds(k) PROVE SlotInv'
  BY <1>34 DEF touchEnds
<1> QED
  BY <1>1, <1>2, <1>3, <1>4, <1>5, <1>6, <1>7, <1>8, <1>9, <1>10, <1>11,
     <1>12, <1>13, <1>14, <1>15, <1>16, <1>17, <1>18, <1>19, <1>20,
     <1>21, <1>22, <1>23, <1>24, <1>25, <1>26, <1>27, <1>28, <1>29,
     <1>30, <1>31, <1>32, <1>33, <1>34
     DEF Next, Handler, Trigger, Scheduler, Job, executeScan, Process

\* No step saves a scan past one that already took its timestamp.
LEMMA NextInOrder == SavesInTimestampOrder /\ LockInv /\ TypeOK /\ [Next]_vars => SavesInTimestampOrder'
<1> SUFFICES ASSUME SavesInTimestampOrder, LockInv, TypeOK, [Next]_vars PROVE SavesInTimestampOrder'
  OBVIOUS
<1> USE DEF SavesInTimestampOrder, LockInv, TypeOK, Goto, procVars
<1>1. ASSUME NEW h \in Handlers, requestArrives(h) PROVE SavesInTimestampOrder'
  BY <1>1 DEF requestArrives
<1>2. ASSUME NEW h \in Handlers, requestReturns(h) PROVE SavesInTimestampOrder'
  BY <1>2 DEF requestReturns
<1>3. ASSUME NEW r \in Requests, startBackgroundScan(r) PROVE SavesInTimestampOrder'
  BY <1>3 DEF startBackgroundScan
<1>4. ASSUME NEW r \in Requests, backgroundScanEnds(r) PROVE SavesInTimestampOrder'
  BY <1>4 DEF backgroundScanEnds
<1>5. ASSUME NEW d \in Schedulers, StartScheduler(d) PROVE SavesInTimestampOrder'
  BY <1>5 DEF StartScheduler
<1>6. ASSUME NEW d \in Schedulers, schedulerStarts(d) PROVE SavesInTimestampOrder'
  BY <1>6 DEF schedulerStarts
<1>7. ASSUME NEW d \in Schedulers, schedulerGivesUp(d) PROVE SavesInTimestampOrder'
  BY <1>7 DEF schedulerGivesUp
<1>8. ASSUME NEW d \in Schedulers, schedulerLoop(d) PROVE SavesInTimestampOrder'
  BY <1>8 DEF schedulerLoop
<1>9. ASSUME NEW d \in Schedulers, scheduledScanEnds(d) PROVE SavesInTimestampOrder'
  BY <1>9 DEF scheduledScanEnds
<1>10. ASSUME NEW d \in Schedulers, schedulerTicks(d) PROVE SavesInTimestampOrder'
  BY <1>10 DEF schedulerTicks
<1>11. ASSUME NEW j \in Jobs, ScanOnce(j) PROVE SavesInTimestampOrder'
  BY <1>11 DEF ScanOnce
<1>12. ASSUME NEW j \in Jobs, cancelJob(j) PROVE SavesInTimestampOrder'
  BY <1>12 DEF cancelJob
<1>13. ASSUME NEW j \in Jobs, scanOnceReturns(j) PROVE SavesInTimestampOrder'
  BY <1>13 DEF scanOnceReturns
<1>14. ASSUME NEW p \in Scans, noContexts(p) PROVE SavesInTimestampOrder'
  BY <1>14 DEF noContexts
<1>15. ASSUME NEW p \in Scans, lockScan(p) PROVE SavesInTimestampOrder'
  BY <1>15 DEF lockScan
<1>16. ASSUME NEW p \in Scans, beginScan(p) PROVE SavesInTimestampOrder'
  BY <1>16 DEF beginScan, Unlock
<1>17. ASSUME NEW p \in Scans, NEW reached \in BOOLEAN, scanFleet(p, reached) PROVE SavesInTimestampOrder'
  BY <1>17 DEF scanFleet, Unlock
<1>18. ASSUME NEW p \in Scans, saveScan(p) PROVE SavesInTimestampOrder'
  BY <1>18 DEF saveScan
<1>19. ASSUME NEW p \in Scans, saveFails(p) PROVE SavesInTimestampOrder'
  BY <1>19 DEF saveFails, Unlock
<1>20. ASSUME NEW p \in Scans, emitReports(p) PROVE SavesInTimestampOrder'
  BY <1>20 DEF emitReports, Unlock
<1>21. ASSUME NEW p \in Scans, NEW notify \in BOOLEAN, publishOutcome(p, notify) PROVE SavesInTimestampOrder'
  BY <1>21 DEF publishOutcome
<1>22. ASSUME NEW p \in Scans, dispatchNotifications(p) PROVE SavesInTimestampOrder'
  BY <1>22 DEF dispatchNotifications
<1>23. ASSUME NEW p \in Scans, dispatchGivesUp(p) PROVE SavesInTimestampOrder'
  BY <1>23 DEF dispatchGivesUp
<1>24. CASE termEnds
  BY <1>24 DEF termEnds
<1>25. CASE deliveryEnds
  BY <1>25 DEF deliveryEnds
<1>26. CASE signal
  BY <1>26 DEF signal
<1>27. CASE Shutdown
  BY <1>27 DEF Shutdown
<1>28. CASE httpDrained
  BY <1>28 DEF httpDrained
<1>29. CASE httpDeadline
  BY <1>29 DEF httpDeadline
<1>30. CASE bgWait
  BY <1>30 DEF bgWait
<1>31. CASE UNCHANGED vars
  BY <1>31 DEF vars
<1>32. ASSUME NEW h \in Handlers, authenticate(h) PROVE SavesInTimestampOrder'
  BY <1>32 DEF authenticate
<1>33. ASSUME NEW h \in Handlers, NEW k \in Keys, touchAPIKey(h, k) PROVE SavesInTimestampOrder'
  BY <1>33 DEF touchAPIKey
<1>34. ASSUME NEW k \in Keys, touchEnds(k) PROVE SavesInTimestampOrder'
  BY <1>34 DEF touchEnds
<1> QED
  BY <1>1, <1>2, <1>3, <1>4, <1>5, <1>6, <1>7, <1>8, <1>9, <1>10, <1>11,
     <1>12, <1>13, <1>14, <1>15, <1>16, <1>17, <1>18, <1>19, <1>20,
     <1>21, <1>22, <1>23, <1>24, <1>25, <1>26, <1>27, <1>28, <1>29,
     <1>30, <1>31, <1>32, <1>33, <1>34
     DEF Next, Handler, Trigger, Scheduler, Job, executeScan, Process

\* Every step keeps scanBusy true exactly while one triggered scan exists.
LEMMA NextTriggerSlot == TriggerSlotExact /\ Placed /\ TypeOK /\ [Next]_vars => TriggerSlotExact'
<1> SUFFICES ASSUME TriggerSlotExact, Placed, TypeOK, [Next]_vars PROVE TriggerSlotExact'
  OBVIOUS
<1> USE DEF TriggerSlotExact, Triggered, Placed, TypeOK, Goto, procVars
<1>1. ASSUME NEW h \in Handlers, requestArrives(h) PROVE TriggerSlotExact'
  BY <1>1 DEF requestArrives
<1>2. ASSUME NEW h \in Handlers, requestReturns(h) PROVE TriggerSlotExact'
  BY <1>2 DEF requestReturns
<1>3. ASSUME NEW r \in Requests, startBackgroundScan(r) PROVE TriggerSlotExact'
  BY <1>3 DEF startBackgroundScan
<1>4. ASSUME NEW r \in Requests, backgroundScanEnds(r) PROVE TriggerSlotExact'
  BY <1>4 DEF backgroundScanEnds
<1>5. ASSUME NEW d \in Schedulers, StartScheduler(d) PROVE TriggerSlotExact'
  BY <1>5 DEF StartScheduler
<1>6. ASSUME NEW d \in Schedulers, schedulerStarts(d) PROVE TriggerSlotExact'
  BY <1>6 DEF schedulerStarts
<1>7. ASSUME NEW d \in Schedulers, schedulerGivesUp(d) PROVE TriggerSlotExact'
  BY <1>7 DEF schedulerGivesUp
<1>8. ASSUME NEW d \in Schedulers, schedulerLoop(d) PROVE TriggerSlotExact'
  BY <1>8 DEF schedulerLoop
<1>9. ASSUME NEW d \in Schedulers, scheduledScanEnds(d) PROVE TriggerSlotExact'
  BY <1>9 DEF scheduledScanEnds
<1>10. ASSUME NEW d \in Schedulers, schedulerTicks(d) PROVE TriggerSlotExact'
  BY <1>10 DEF schedulerTicks
<1>11. ASSUME NEW j \in Jobs, ScanOnce(j) PROVE TriggerSlotExact'
  BY <1>11 DEF ScanOnce
<1>12. ASSUME NEW j \in Jobs, cancelJob(j) PROVE TriggerSlotExact'
  BY <1>12 DEF cancelJob
<1>13. ASSUME NEW j \in Jobs, scanOnceReturns(j) PROVE TriggerSlotExact'
  BY <1>13 DEF scanOnceReturns
<1>14. ASSUME NEW p \in Scans, noContexts(p) PROVE TriggerSlotExact'
  BY <1>14 DEF noContexts
<1>15. ASSUME NEW p \in Scans, lockScan(p) PROVE TriggerSlotExact'
  BY <1>15 DEF lockScan
<1>16. ASSUME NEW p \in Scans, beginScan(p) PROVE TriggerSlotExact'
  BY <1>16 DEF beginScan, Unlock
<1>17. ASSUME NEW p \in Scans, NEW reached \in BOOLEAN, scanFleet(p, reached) PROVE TriggerSlotExact'
  BY <1>17 DEF scanFleet, Unlock
<1>18. ASSUME NEW p \in Scans, saveScan(p) PROVE TriggerSlotExact'
  BY <1>18 DEF saveScan
<1>19. ASSUME NEW p \in Scans, saveFails(p) PROVE TriggerSlotExact'
  BY <1>19 DEF saveFails, Unlock
<1>20. ASSUME NEW p \in Scans, emitReports(p) PROVE TriggerSlotExact'
  BY <1>20 DEF emitReports, Unlock
<1>21. ASSUME NEW p \in Scans, NEW notify \in BOOLEAN, publishOutcome(p, notify) PROVE TriggerSlotExact'
  BY <1>21 DEF publishOutcome
<1>22. ASSUME NEW p \in Scans, dispatchNotifications(p) PROVE TriggerSlotExact'
  BY <1>22 DEF dispatchNotifications
<1>23. ASSUME NEW p \in Scans, dispatchGivesUp(p) PROVE TriggerSlotExact'
  BY <1>23 DEF dispatchGivesUp
<1>24. CASE termEnds
  BY <1>24 DEF termEnds
<1>25. CASE deliveryEnds
  BY <1>25 DEF deliveryEnds
<1>26. CASE signal
  BY <1>26 DEF signal
<1>27. CASE Shutdown
  BY <1>27 DEF Shutdown
<1>28. CASE httpDrained
  BY <1>28 DEF httpDrained
<1>29. CASE httpDeadline
  BY <1>29 DEF httpDeadline
<1>30. CASE bgWait
  BY <1>30 DEF bgWait
<1>31. CASE UNCHANGED vars
  BY <1>31 DEF vars
<1>32. ASSUME NEW h \in Handlers, authenticate(h) PROVE TriggerSlotExact'
  BY <1>32 DEF authenticate
<1>33. ASSUME NEW h \in Handlers, NEW k \in Keys, touchAPIKey(h, k) PROVE TriggerSlotExact'
  BY <1>33 DEF touchAPIKey
<1>34. ASSUME NEW k \in Keys, touchEnds(k) PROVE TriggerSlotExact'
  BY <1>34 DEF touchEnds
<1> QED
  BY <1>1, <1>2, <1>3, <1>4, <1>5, <1>6, <1>7, <1>8, <1>9, <1>10, <1>11,
     <1>12, <1>13, <1>14, <1>15, <1>16, <1>17, <1>18, <1>19, <1>20,
     <1>21, <1>22, <1>23, <1>24, <1>25, <1>26, <1>27, <1>28, <1>29,
     <1>30, <1>31, <1>32, <1>33, <1>34
     DEF Next, Handler, Trigger, Scheduler, Job, executeScan, Process

\* Every step keeps the WaitGroup equal to the work it stands for.
LEMMA NextCountInv == CountInv /\ TriggerSlotExact /\ TypeOK /\ [Next]_vars => CountInv'
<1> SUFFICES ASSUME CountInv, TriggerSlotExact, TypeOK, [Next]_vars PROVE CountInv'
  OBVIOUS
<1> USE DEF CountInv, TriggerSlotExact, Triggered, TypeOK, Goto, procVars
<1>1. ASSUME NEW h \in Handlers, requestArrives(h) PROVE CountInv'
  BY <1>1 DEF requestArrives
<1>2. ASSUME NEW h \in Handlers, requestReturns(h) PROVE CountInv'
  BY <1>2 DEF requestReturns
<1>3. ASSUME NEW r \in Requests, startBackgroundScan(r) PROVE CountInv'
  BY <1>3, TouchCount DEF startBackgroundScan
<1>4. ASSUME NEW r \in Requests, backgroundScanEnds(r) PROVE CountInv'
  BY <1>4, TouchCount DEF backgroundScanEnds
<1>5. ASSUME NEW d \in Schedulers, StartScheduler(d) PROVE CountInv'
  BY <1>5 DEF StartScheduler
<1>6. ASSUME NEW d \in Schedulers, schedulerStarts(d) PROVE CountInv'
  BY <1>6 DEF schedulerStarts
<1>7. ASSUME NEW d \in Schedulers, schedulerGivesUp(d) PROVE CountInv'
  BY <1>7 DEF schedulerGivesUp
<1>8. ASSUME NEW d \in Schedulers, schedulerLoop(d) PROVE CountInv'
  BY <1>8 DEF schedulerLoop
<1>9. ASSUME NEW d \in Schedulers, scheduledScanEnds(d) PROVE CountInv'
  BY <1>9 DEF scheduledScanEnds
<1>10. ASSUME NEW d \in Schedulers, schedulerTicks(d) PROVE CountInv'
  BY <1>10 DEF schedulerTicks
<1>11. ASSUME NEW j \in Jobs, ScanOnce(j) PROVE CountInv'
  BY <1>11 DEF ScanOnce
<1>12. ASSUME NEW j \in Jobs, cancelJob(j) PROVE CountInv'
  BY <1>12 DEF cancelJob
<1>13. ASSUME NEW j \in Jobs, scanOnceReturns(j) PROVE CountInv'
  BY <1>13 DEF scanOnceReturns
<1>14. ASSUME NEW p \in Scans, noContexts(p) PROVE CountInv'
  BY <1>14 DEF noContexts
<1>15. ASSUME NEW p \in Scans, lockScan(p) PROVE CountInv'
  BY <1>15 DEF lockScan
<1>16. ASSUME NEW p \in Scans, beginScan(p) PROVE CountInv'
  BY <1>16 DEF beginScan, Unlock
<1>17. ASSUME NEW p \in Scans, NEW reached \in BOOLEAN, scanFleet(p, reached) PROVE CountInv'
  BY <1>17 DEF scanFleet, Unlock
<1>18. ASSUME NEW p \in Scans, saveScan(p) PROVE CountInv'
  BY <1>18 DEF saveScan
<1>19. ASSUME NEW p \in Scans, saveFails(p) PROVE CountInv'
  BY <1>19 DEF saveFails, Unlock
<1>20. ASSUME NEW p \in Scans, emitReports(p) PROVE CountInv'
  BY <1>20 DEF emitReports, Unlock
<1>21. ASSUME NEW p \in Scans, NEW notify \in BOOLEAN, publishOutcome(p, notify) PROVE CountInv'
  BY <1>21 DEF publishOutcome
<1>22. ASSUME NEW p \in Scans, dispatchNotifications(p) PROVE CountInv'
  BY <1>22, TouchCount DEF dispatchNotifications
<1>23. ASSUME NEW p \in Scans, dispatchGivesUp(p) PROVE CountInv'
  BY <1>23 DEF dispatchGivesUp
<1>24. CASE termEnds
  BY <1>24 DEF termEnds
<1>25. CASE deliveryEnds
  BY <1>25, TouchCount DEF deliveryEnds
<1>26. CASE signal
  BY <1>26 DEF signal
<1>27. CASE Shutdown
  BY <1>27 DEF Shutdown
<1>28. CASE httpDrained
  BY <1>28 DEF httpDrained
<1>29. CASE httpDeadline
  BY <1>29 DEF httpDeadline
<1>30. CASE bgWait
  BY <1>30 DEF bgWait
<1>31. CASE UNCHANGED vars
  BY <1>31 DEF vars
<1>32. ASSUME NEW h \in Handlers, authenticate(h) PROVE CountInv'
  BY <1>32 DEF authenticate
<1>33. ASSUME NEW h \in Handlers, NEW k \in Keys, touchAPIKey(h, k) PROVE CountInv'
  BY <1>33, TouchCount DEF touchAPIKey
<1>34. ASSUME NEW k \in Keys, touchEnds(k) PROVE CountInv'
  BY <1>34, TouchCount DEF touchEnds
<1> QED
  BY <1>1, <1>2, <1>3, <1>4, <1>5, <1>6, <1>7, <1>8, <1>9, <1>10, <1>11,
     <1>12, <1>13, <1>14, <1>15, <1>16, <1>17, <1>18, <1>19, <1>20,
     <1>21, <1>22, <1>23, <1>24, <1>25, <1>26, <1>27, <1>28, <1>29,
     <1>30, <1>31, <1>32, <1>33, <1>34
     DEF Next, Handler, Trigger, Scheduler, Job, executeScan, Process

\* Nothing starts to be handled after the drain.
LEMMA NextDrainInv == DrainInv /\ CountInv /\ Placed /\ TypeOK /\ [Next]_vars => DrainInv'
<1> SUFFICES ASSUME DrainInv, CountInv, Placed, TypeOK, [Next]_vars PROVE DrainInv'
  OBVIOUS
<1> USE DEF DrainInv, CountInv, Placed, TypeOK, Goto, procVars
<1>1. ASSUME NEW h \in Handlers, requestArrives(h) PROVE DrainInv'
  BY <1>1 DEF requestArrives
<1>2. ASSUME NEW h \in Handlers, requestReturns(h) PROVE DrainInv'
  BY <1>2 DEF requestReturns
<1>3. ASSUME NEW r \in Requests, startBackgroundScan(r) PROVE DrainInv'
  BY <1>3 DEF startBackgroundScan
<1>4. ASSUME NEW r \in Requests, backgroundScanEnds(r) PROVE DrainInv'
  BY <1>4 DEF backgroundScanEnds
<1>5. ASSUME NEW d \in Schedulers, StartScheduler(d) PROVE DrainInv'
  BY <1>5 DEF StartScheduler
<1>6. ASSUME NEW d \in Schedulers, schedulerStarts(d) PROVE DrainInv'
  BY <1>6 DEF schedulerStarts
<1>7. ASSUME NEW d \in Schedulers, schedulerGivesUp(d) PROVE DrainInv'
  BY <1>7 DEF schedulerGivesUp
<1>8. ASSUME NEW d \in Schedulers, schedulerLoop(d) PROVE DrainInv'
  BY <1>8 DEF schedulerLoop
<1>9. ASSUME NEW d \in Schedulers, scheduledScanEnds(d) PROVE DrainInv'
  BY <1>9 DEF scheduledScanEnds
<1>10. ASSUME NEW d \in Schedulers, schedulerTicks(d) PROVE DrainInv'
  BY <1>10 DEF schedulerTicks
<1>11. ASSUME NEW j \in Jobs, ScanOnce(j) PROVE DrainInv'
  BY <1>11 DEF ScanOnce
<1>12. ASSUME NEW j \in Jobs, cancelJob(j) PROVE DrainInv'
  BY <1>12 DEF cancelJob
<1>13. ASSUME NEW j \in Jobs, scanOnceReturns(j) PROVE DrainInv'
  BY <1>13 DEF scanOnceReturns
<1>14. ASSUME NEW p \in Scans, noContexts(p) PROVE DrainInv'
  BY <1>14 DEF noContexts
<1>15. ASSUME NEW p \in Scans, lockScan(p) PROVE DrainInv'
  BY <1>15 DEF lockScan
<1>16. ASSUME NEW p \in Scans, beginScan(p) PROVE DrainInv'
  BY <1>16 DEF beginScan, Unlock
<1>17. ASSUME NEW p \in Scans, NEW reached \in BOOLEAN, scanFleet(p, reached) PROVE DrainInv'
  BY <1>17 DEF scanFleet, Unlock
<1>18. ASSUME NEW p \in Scans, saveScan(p) PROVE DrainInv'
  BY <1>18 DEF saveScan
<1>19. ASSUME NEW p \in Scans, saveFails(p) PROVE DrainInv'
  BY <1>19 DEF saveFails, Unlock
<1>20. ASSUME NEW p \in Scans, emitReports(p) PROVE DrainInv'
  BY <1>20 DEF emitReports, Unlock
<1>21. ASSUME NEW p \in Scans, NEW notify \in BOOLEAN, publishOutcome(p, notify) PROVE DrainInv'
  BY <1>21 DEF publishOutcome
<1>22. ASSUME NEW p \in Scans, dispatchNotifications(p) PROVE DrainInv'
  BY <1>22 DEF dispatchNotifications
<1>23. ASSUME NEW p \in Scans, dispatchGivesUp(p) PROVE DrainInv'
  BY <1>23 DEF dispatchGivesUp
<1>24. CASE termEnds
  BY <1>24 DEF termEnds
<1>25. CASE deliveryEnds
  BY <1>25 DEF deliveryEnds
<1>26. CASE signal
  BY <1>26 DEF signal
<1>27. CASE Shutdown
  BY <1>27 DEF Shutdown
<1>28. CASE httpDrained
  BY <1>28 DEF httpDrained
<1>29. CASE httpDeadline
  BY <1>29 DEF httpDeadline
<1>30. CASE bgWait
  BY <1>30, TouchCount DEF bgWait
<1>31. CASE UNCHANGED vars
  BY <1>31 DEF vars
<1>32. ASSUME NEW h \in Handlers, authenticate(h) PROVE DrainInv'
  BY <1>32 DEF authenticate
<1>33. ASSUME NEW h \in Handlers, NEW k \in Keys, touchAPIKey(h, k) PROVE DrainInv'
  BY <1>33 DEF touchAPIKey
<1>34. ASSUME NEW k \in Keys, touchEnds(k) PROVE DrainInv'
  BY <1>34 DEF touchEnds
<1> QED
  BY <1>1, <1>2, <1>3, <1>4, <1>5, <1>6, <1>7, <1>8, <1>9, <1>10, <1>11,
     <1>12, <1>13, <1>14, <1>15, <1>16, <1>17, <1>18, <1>19, <1>20,
     <1>21, <1>22, <1>23, <1>24, <1>25, <1>26, <1>27, <1>28, <1>29,
     <1>30, <1>31, <1>32, <1>33, <1>34
     DEF Next, Handler, Trigger, Scheduler, Job, executeScan, Process

-----------------------------------------------------------------------------

\* The invariant is inductive: every step of the pipeline, of its callers and
\* of the shutdown preserves it.
LEMMA NextIInv == IInv /\ [Next]_vars => IInv'
  BY NextTypeOK, NextPlaced, NextLockInv, NextSlotInv, NextInOrder, NextTriggerSlot,
     NextCountInv, NextDrainInv DEF IInv

\* The inductive invariant holds throughout every behaviour.
THEOREM ServerInvariant == Spec => []IInv
  BY InitIInv, NextIInv, PTL DEF Spec

\* Every reachable state is well typed: in particular no more deliveries run
\* than there are slots, and the WaitGroup never goes below zero.
THEOREM ServerTypes == Spec => []TypeOK
<1>1. IInv => TypeOK
  BY DEF IInv
<1> QED
  BY <1>1, ServerInvariant, PTL

\* scanMu: at most one scan runs at a time.
THEOREM ScansExclusive == Spec => []OneScanAtATime
<1>1. IInv => OneScanAtATime
  BY DEF IInv, LockInv, OneScanAtATime
<1> QED
  BY <1>1, ServerInvariant, PTL

\* scanAndSave: scans are saved, and their report files written, in the order
\* of their timestamps.
THEOREM ScansInOrder == Spec => []SavesInTimestampOrder
<1>1. IInv => SavesInTimestampOrder
  BY DEF IInv
<1> QED
  BY <1>1, ServerInvariant, PTL

\* startBackgroundScan: the trigger slot stands for exactly one triggered scan.
THEOREM TriggerSlot == Spec => []TriggerSlotExact
<1>1. IInv => TriggerSlotExact
  BY DEF IInv
<1> QED
  BY <1>1, ServerInvariant, PTL

\* StartScheduler: at most one scheduler runs per process, across terms.
THEOREM SchedulersExclusive == Spec => []OneScheduler
<1>1. IInv => OneScheduler
  BY DEF IInv, SlotInv, OneScheduler
<1> QED
  BY <1>1, ServerInvariant, PTL

\* The WaitGroup counts the triggered scans, the deliveries and the key
\* touches exactly.
THEOREM WorkCounted == Spec => []BackgroundCounted
<1>1. ASSUME IInv PROVE BackgroundCounted
  <2>1. CASE scanBusy
    <3>1. PICK r \in Triggered : TRUE
      BY <1>1, <2>1 DEF IInv, TriggerSlotExact
    <3>2. Triggered = {r}
      BY <1>1, <3>1 DEF IInv, TriggerSlotExact
    <3>3. Cardinality(Triggered) = 1
      BY <3>2, FS_Singleton
    <3> QED
      BY <1>1, <2>1, <3>3, TouchCount DEF IInv, CountInv, TypeOK, BackgroundCounted
  <2>2. CASE ~scanBusy
    <3>1. Triggered = {}
      BY <1>1, <2>2 DEF IInv, TriggerSlotExact
    <3>2. Cardinality(Triggered) = 0
      BY <3>1, FS_EmptySet
    <3> QED
      BY <1>1, <2>2, <3>2, TouchCount DEF IInv, CountInv, TypeOK, BackgroundCounted
  <2> QED
    BY <2>1, <2>2
<1> QED
  BY <1>1, ServerInvariant, PTL

\* Shutdown: after a return within its deadline no triggered scan and no key
\* touch is left.
THEOREM ShutdownDrainsTriggers == Spec => []TriggersDrained
<1>1. IInv => TriggersDrained
  BY DEF IInv, DrainInv, Placed, TriggerSlotExact, Triggered, TriggersDrained
<1> QED
  BY <1>1, ServerInvariant, PTL

=============================================================================
