------------------------------ MODULE Admission ------------------------------
(***************************************************************************)
(* The admission webhook (src/internal/admission): the provider that       *)
(* derives the fleet's norm from the last scans in the store, caches it    *)
(* and collapses concurrent recomputes, and the handler that decides on a  *)
(* pod with the stability gate of enforce mode.                            *)
(*                                                                         *)
(* Requests run concurrently and may give up waiting; scans are saved and  *)
(* pruned while a recompute reads them one by one.  What a scan says of a  *)
(* check is kept as whether the fraction reaches Threshold.  Times are     *)
(* kept as ages in ticks, up to the age that can still make a difference.  *)
(***************************************************************************)
EXTENDS Integers, Sequences, FiniteSets, FiniteSetsExt

CONSTANTS
  Requests,       \* webhook handlers
  Checks,         \* DefaultChecks
  Depth,          \* StableScans, and the provider's Depth with it
  TTL,            \* how long a baseline is served, in ticks
  Timeout,        \* recomputeTimeout
  MaxScans,       \* bound: scans saved
  MaxFaults       \* bound: recomputes that fail

ASSUME AdmissionAssumption ==
  /\ Depth \in Nat \ {0} /\ TTL \in Nat \ {0} /\ Timeout \in Nat
  /\ MaxScans \in Nat /\ MaxFaults \in Nat

VARIABLES
  log,        \* history: every scan ever saved, its number is its place
  present,    \* scans whose rows are in the store
  cached,     \* p.cached, as the baselines of its scans, newest first
  cacheAge,   \* the time since p.cachedAt
  flight,     \* the recompute under way: [phase, age, todo, got]
  pc,         \* where each request stands
  mine,       \* the cached baseline it read
  served,     \* the baseline it evaluates the pod against
  owed,       \* history: the newest scan its answer has to know of
  denied,     \* history: the checks the last decision denied a pod on
  faults

vars == <<log, present, cached, cacheAge, flight, pc, mine, served, owed, denied,
          faults>>
storeVars == <<log, present>>
cacheVars == <<cached, cacheAge>>
reqVars   == <<mine, served, owed, denied>>

-----------------------------------------------------------------------------

\* The age of a scan that every fresh baseline knows of.
Settled == TTL + Timeout + 1

Older(age, limit) == IF age < limit THEN age + 1 ELSE limit

NoFlight == [phase |-> "none", age |-> 0, todo |-> << >>, got |-> << >>]

\* What a scan yields: enough samples or not, and the checks whose norm holds.
\* Nothing looks at the norms of a scan with too few samples.
Norms ==
  {[sufficient |-> TRUE, norms |-> cs] : cs \in SUBSET Checks}
  \cup {[sufficient |-> FALSE, norms |-> {}]}

\* scanBaseline: the rows of a scan that was pruned in between read as none.
scanBaseline(i) ==
  IF i \in present
  THEN [id |-> i, sufficient |-> log[i].base.sufficient, norms |-> log[i].base.norms]
  ELSE [id |-> i, sufficient |-> FALSE, norms |-> {}]

\* ListScans: the Depth most recent scans, newest first.
ListScans ==
  LET rank(i) == Cardinality({j \in present : j >= i})
      found   == Cardinality(present)
  IN [n \in 1..(IF found < Depth THEN found ELSE Depth) |-> CHOOSE i \in present : rank(i) = n]

Goto(r, l) == pc' = [pc EXCEPT ![r] = l]

-----------------------------------------------------------------------------
(* The store and the clock. *)

SaveScan(base) ==
  /\ Len(log) < MaxScans
  /\ log' = Append(log, [base |-> base, age |-> 0])
  /\ present' = present \cup {Len(log) + 1}
  /\ UNCHANGED <<cacheVars, flight, pc, reqVars, faults>>

\* Prune deletes every scan older than a cutoff.
PruneScans(i) ==
  /\ i \in present
  /\ present' = {j \in present : j > i}
  /\ UNCHANGED <<log, cacheVars, flight, pc, reqVars, faults>>

\* Mutant of Tick: the recompute has no timeout.
Tick_mut ==
  /\ flight' = IF flight.phase = "none" THEN flight ELSE [flight EXCEPT !.age = @ + 1]
  /\ cacheAge' = Older(cacheAge, TTL)
  /\ log' = [i \in DOMAIN log |-> [log[i] EXCEPT !.age = Older(@, Settled)]]
  /\ UNCHANGED <<present, cached, pc, reqVars, faults>>

\* A recompute ends by its timeout.
Tick ==
  /\ flight.phase # "none" => flight.age < Timeout
  /\ flight' = IF flight.phase = "none" THEN flight ELSE [flight EXCEPT !.age = @ + 1]
  /\ cacheAge' = Older(cacheAge, TTL)
  /\ log' = [i \in DOMAIN log |-> [log[i] EXCEPT !.age = Older(@, Settled)]]
  /\ UNCHANGED <<present, cached, pc, reqVars, faults>>

-----------------------------------------------------------------------------
(* StoreBaselineProvider.Current. *)

Newest(b) == IF b = << >> THEN 0 ELSE b[1].id

Fresh == cacheAge < TTL

SettledScans == {i \in present : log[i].age = Settled}

\* ServeHTTP has decoded a review and its pod (one that cannot be decoded is
\* allowed at once). Current reads the cache under p.mu, and serves it while
\* it is fresh.
Current(r) ==
  /\ pc[r] = "idle"
  /\ owed' = [owed EXCEPT ![r] = IF SettledScans = {} THEN 0 ELSE Max(SettledScans)]
  /\ IF Fresh
     THEN Goto(r, "evaluate") /\ served' = [served EXCEPT ![r] = cached] /\ UNCHANGED mine
     ELSE Goto(r, "stale") /\ mine' = [mine EXCEPT ![r] = cached] /\ UNCHANGED served
  /\ UNCHANGED <<storeVars, cacheVars, flight, denied, faults>>

\* Mutant of DoChan: a caller that has a baseline leaves the start to others.
DoChan_mut(r) ==
  /\ pc[r] = "stale"
  /\ Goto(r, "wait")
  /\ flight' = IF flight.phase = "none" /\ mine[r] = << >>
               THEN [NoFlight EXCEPT !.phase = "list"] ELSE flight
  /\ UNCHANGED <<storeVars, cacheVars, reqVars, faults>>

\* singleflight: join the recompute under way, or start one.
DoChan(r) ==
  /\ pc[r] = "stale"
  /\ Goto(r, "wait")
  /\ flight' = IF flight.phase = "none"
               THEN [NoFlight EXCEPT !.phase = "list"] ELSE flight
  /\ UNCHANGED <<storeVars, cacheVars, reqVars, faults>>

\* The caller's context ends first: it takes the baseline it had read.
giveUp(r) ==
  /\ pc[r] = "wait"
  /\ Goto(r, "evaluate")
  /\ served' = [served EXCEPT ![r] = mine[r]]
  /\ mine' = [mine EXCEPT ![r] = << >>]
  /\ owed' = [owed EXCEPT ![r] = 0]
  /\ UNCHANGED <<storeVars, cacheVars, flight, denied, faults>>

-----------------------------------------------------------------------------
(* recompute. *)

listScans ==
  /\ flight.phase = "list"
  /\ flight' = [flight EXCEPT !.phase = "read", !.todo = ListScans]
  /\ UNCHANGED <<storeVars, cacheVars, pc, reqVars, faults>>

readScan ==
  /\ flight.phase = "read" /\ flight.todo # << >>
  /\ flight' = [flight EXCEPT !.todo = Tail(@), !.got = Append(@, scanBaseline(Head(flight.todo)))]
  /\ UNCHANGED <<storeVars, cacheVars, pc, reqVars, faults>>

\* The recompute's result goes to every caller that waits for it.
Answer(b) ==
  /\ flight' = NoFlight
  /\ cacheAge' = 0
  /\ pc' = [r \in Requests |-> IF pc[r] = "wait" THEN "evaluate" ELSE pc[r]]
  /\ served' = [r \in Requests |-> IF pc[r] = "wait" THEN b ELSE served[r]]
  /\ mine' = [r \in Requests |-> IF pc[r] = "wait" THEN << >> ELSE mine[r]]
  /\ UNCHANGED <<storeVars, owed, denied>>

\* Mutant of recomputeDone: a baseline once cached is kept.
recomputeDone_mut ==
  /\ flight.phase = "read" /\ flight.todo = << >>
  /\ cached' = IF cached = << >> THEN flight.got ELSE cached
  /\ Answer(cached')
  /\ UNCHANGED faults

recomputeDone ==
  /\ flight.phase = "read" /\ flight.todo = << >>
  /\ cached' = flight.got
  /\ Answer(flight.got)
  /\ UNCHANGED faults

\* Mutant of recomputeFails: what was read so far is cached.
recomputeFails_mut ==
  /\ flight.phase # "none"
  /\ faults < MaxFaults /\ faults' = faults + 1
  /\ cached' = flight.got
  /\ Answer(flight.got)

\* A store error or the timeout: the last good baseline is kept and served.
recomputeFails ==
  /\ flight.phase # "none"
  /\ faults < MaxFaults /\ faults' = faults + 1
  /\ Answer(cached)
  /\ UNCHANGED cached

-----------------------------------------------------------------------------
(* evaluateDecision. *)

\* Mutant of heldScans: a thin scan in between is passed over.
heldScans_mut(c, b, want) ==
  LET holds == {i \in 1..Len(b) : i = 1 \/ c \in b[i].norms \/ ~b[i].sufficient}
      held  == {n \in 1..want : 1..n \subseteq holds}
  IN CHOOSE n \in held : \A m \in held : m <= n

\* heldScans: how many scans in a row, latest first and at most want, make
\* the check deny; the latest does.  (A pinned baseline, which has no scans behind
\* it, never comes from the store.)
heldScans(c, b, want) ==
  LET holds == {i \in 1..Len(b) : i = 1 \/ (b[i].sufficient /\ c \in b[i].norms)}
      held  == {n \in 1..want : 1..n \subseteq holds}
  IN CHOOSE n \in held : \A m \in held : m <= n

\* The checks enforce mode denies a pod on that violates the given checks.
denies(b, violates) ==
  IF b = << >> \/ ~b[1].sufficient THEN {}
  ELSE {c \in violates \cap b[1].norms : heldScans(c, b, Depth) >= Depth}

\* The decision is sent. A pod marked for a dry run is warned about, never
\* denied.
evaluate(r, violates, dryRun) ==
  /\ pc[r] = "evaluate"
  /\ Goto(r, "idle")
  /\ denied' = IF dryRun THEN {} ELSE denies(served[r], violates)
  /\ served' = [served EXCEPT ![r] = << >>]
  /\ owed' = [owed EXCEPT ![r] = 0]
  /\ UNCHANGED <<storeVars, cacheVars, flight, mine, faults>>

-----------------------------------------------------------------------------

Init ==
  /\ log = << >> /\ present = {}
  /\ cached = << >> /\ cacheAge = TTL /\ flight = NoFlight
  /\ pc = [r \in Requests |-> "idle"]
  /\ mine = [r \in Requests |-> << >>] /\ served = [r \in Requests |-> << >>]
  /\ owed = [r \in Requests |-> 0] /\ denied = {}
  /\ faults = 0

Handler(r) ==
  \/ Current(r) \/ DoChan(r) \/ giveUp(r)
  \/ \E violates \in SUBSET Checks, dryRun \in BOOLEAN : evaluate(r, violates, dryRun)

recompute == listScans \/ readScan \/ recomputeDone \/ recomputeFails

Store == (\E base \in Norms : SaveScan(base)) \/ (\E i \in present : PruneScans(i))

Next == (\E r \in Requests : Handler(r)) \/ recompute \/ Store \/ Tick

Spec == Init /\ [][Next]_vars

-----------------------------------------------------------------------------
(* Properties. *)

Baseline == [id : Nat, sufficient : BOOLEAN, norms : SUBSET Checks]

TypeOK ==
  /\ cacheAge \in 0..TTL /\ faults \in Nat
  /\ log \in Seq([base : Norms, age : 0..Settled]) /\ present \subseteq 1..Len(log)
  /\ cached \in Seq(Baseline) /\ Len(cached) <= Depth
  /\ flight \in [phase : {"none", "list", "read"}, age : 0..Timeout, todo : Seq(Nat), got : Seq(Baseline)]
  /\ Len(flight.todo) + Len(flight.got) <= Depth
  /\ pc \in [Requests -> {"idle", "stale", "wait", "evaluate"}]
  /\ mine \in [Requests -> Seq(Baseline)] /\ served \in [Requests -> Seq(Baseline)]
  /\ owed \in [Requests -> 0..Len(log)] /\ denied \subseteq Checks

\* docs/operator/admission-webhook.md: enforce mode denies only on a norm that
\* held for Depth consecutive scans. A denied check's norm held in Depth scans
\* saved one after the other, whatever was pruned while they were read.
DenyNeedsStableNorm ==
  \A c \in denied :
    \E newest \in Depth..Len(log) :
      \A i \in (newest - Depth + 1)..newest :
        log[i].base.sufficient /\ c \in log[i].base.norms

\* The cached baseline never returns to older scans, although scans are saved
\* while a recompute reads and a recompute may fail halfway: only a recompute
\* that listed the scans and found none clears it.
CacheNeverGoesBack ==
  [][\/ Newest(cached') >= Newest(cached)
     \/ cached' = << >> /\ flight.phase = "read"]_vars

\* While recomputes succeed, a pod is judged against a list of scans that was
\* at most TTL plus one recompute old when its request came, unless the request
\* gave up waiting: a scan saved before that is known.
StalenessBounded ==
  \A r \in Requests :
    (pc[r] = "evaluate" /\ faults = 0 /\ owed[r] \in present) =>
      Newest(served[r]) >= owed[r]

\* Someone computes for the callers that wait: no caller is left behind by a
\* recompute that has already ended.
WaitersHaveFlight ==
  (\E r \in Requests : pc[r] = "wait") => flight.phase # "none"

=============================================================================
