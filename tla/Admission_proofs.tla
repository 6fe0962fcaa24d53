-------------------------- MODULE Admission_proofs --------------------------
(***************************************************************************)
(* The admission webhook (internal/admission), for any requests, checks,   *)
(* depth, TTL, timeout and number of scans.                                *)
(***************************************************************************)
EXTENDS Admission, FiniteSetTheorems, NaturalsInduction, WellFoundedInduction, TLAPS

-----------------------------------------------------------------------------
(* The inductive invariant. *)

\* A scan's baseline says no more than the scan does.
Truthful(e) ==
  /\ e.id \in 1..Len(log)
  /\ e.sufficient => log[e.id].base.sufficient /\ e.norms = log[e.id].base.norms

\* A list of baselines is of scans saved one after the other, newest first.
Chain(b, top) == \A i \in 1..Len(b) : b[i].id = top - i + 1 /\ Truthful(b[i])

Consecutive(b) == b \in Seq(Baseline) /\ Chain(b, Newest(b))

\* Scans are saved at one end and pruned at the other.
StoreOK ==
  /\ log \in Seq([base : Norms, age : 0..Settled])
  /\ \E old \in 0..Len(log) : present = (old + 1)..Len(log)

\* While no recompute failed, a fresh cache knows every scan that was older than
\* a recompute takes when the cache was filled.
CacheOK ==
  /\ Consecutive(cached) /\ Len(cached) <= Depth /\ cacheAge \in 0..TTL /\ faults \in Nat
  /\ Newest(cached) <= Len(log)
  /\ (faults = 0 /\ Fresh) =>
       \A i \in present : log[i].age > cacheAge + Timeout => i <= Newest(cached)

\* A recompute that listed the scans when top was the newest of them: what it read
\* and what is left to read are one chain, and what it does not know is younger
\* than itself.
Listed(top) ==
  /\ Chain(flight.got, top)
  /\ \A i \in 1..Len(flight.todo) :
       flight.todo[i] = top - Len(flight.got) - i + 1 /\ flight.todo[i] \in 1..Len(log)
  /\ Newest(cached) <= top
  /\ flight.got = << >> /\ flight.todo = << >> => \A i \in present : i > top
  /\ \A i \in present : i > top => log[i].age <= flight.age

FlightOK ==
  /\ flight \in [phase : {"none", "list", "read"}, age : 0..Timeout, todo : Seq(Nat), got : Seq(Baseline)]
  /\ Len(flight.todo) + Len(flight.got) <= Depth
  /\ flight.phase # "read" => flight.todo = << >> /\ flight.got = << >>
  /\ flight.phase = "read" => \E top \in 0..Len(log) : Listed(top)

\* A request, and the scan it has to know of.
Asked(r) ==
  /\ Consecutive(mine[r]) /\ Consecutive(served[r])
  /\ owed[r] \in 0..Len(log)
  /\ owed[r] # 0 => log[owed[r]].age = Settled
  /\ (pc[r] = "evaluate" /\ faults = 0 /\ owed[r] \in present) => Newest(served[r]) >= owed[r]
  /\ pc[r] = "wait" => flight.phase # "none"

RequestsOK ==
  /\ pc \in [Requests -> {"idle", "stale", "wait", "evaluate"}]
  /\ mine \in [Requests -> Seq(Baseline)] /\ served \in [Requests -> Seq(Baseline)]
  /\ owed \in [Requests -> Nat]
  /\ \A r \in Requests : Asked(r)

IInv == StoreOK /\ CacheOK /\ FlightOK /\ RequestsOK /\ denied \subseteq Checks /\ DenyNeedsStableNorm

-----------------------------------------------------------------------------
(* Numbers, and what the provider's helpers return. *)

\* The constants are numbers; a baseline is deep and is kept for some time.
LEMMA ConstantTypes ==
  Depth \in Nat /\ Depth > 0 /\ TTL \in Nat /\ TTL > 0 /\ Timeout \in Nat /\ Settled \in Nat
BY AdmissionAssumption DEF Settled

\* A set of numbers up to n has a largest, if it has any.
LEMMA Largest ==
  ASSUME NEW n \in Nat, NEW S \in SUBSET (1..n), S # {}
  PROVE  \E m \in S : \A x \in S : x <= m
<1> DEFINE R == OpToRel(<, Nat)
           T == {n - x : x \in S}
<1>1. IsWellFoundedOn(R, Nat)
  BY NatLessThanWellFounded
<1>2. T \subseteq Nat /\ T # {}
  <2>1. \A x \in S : n - x \in Nat
    OBVIOUS
  <2>2. PICK x \in S : TRUE
    OBVIOUS
  <2>3. n - x \in T
    OBVIOUS
  <2> QED
    BY <2>1, <2>3
<1>3. PICK t \in T : \A y \in T : ~(<<y, t>> \in R)
  <2> HIDE DEF R, T
  <2> QED BY <1>1, <1>2, WFMin
<1>4. \A y \in T : y < t => <<y, t>> \in R
  BY <1>2 DEF OpToRel
<1> HIDE DEF R
<1>5. \A y \in T : ~(y < t)
  BY <1>3, <1>4, Zenon
<1>6. PICK m \in S : t = n - m
  OBVIOUS
<1>7. \A x \in S : ~(n - x < n - m)
  BY <1>5, <1>6
<1> QED
  BY <1>7

\* The elements of a sequence.
LEMMA SeqElements ==
  ASSUME NEW S, NEW q \in Seq(S) PROVE Len(q) \in Nat /\ \A i \in 1..Len(q) : q[i] \in S
OBVIOUS

\* The newest scan of a baseline is a number, 0 for none.
LEMMA NewestType ==
  ASSUME NEW b, Consecutive(b) PROVE Newest(b) \in Nat
<1>1. b \in Seq(Baseline)
  BY DEF Consecutive
<1>2. b # << >> => b[1] \in Baseline
  BY <1>1
<1> QED
  BY <1>2 DEF Newest, Baseline

\* ListScans: the newest scans of the store, at most Depth, one below the other.
LEMMA NewestScans ==
  ASSUME NEW old \in Nat, NEW last \in Nat, old <= last, present = (old + 1)..last
  PROVE  \E n \in 0..Depth :
           /\ ListScans = [i \in 1..n |-> last - i + 1] /\ n <= last - old
           /\ n = 0 => old = last
<1>1. Cardinality(present) = last - old
  <2>1. Cardinality((old + 1)..last) = IF old + 1 > last THEN 0 ELSE last - (old + 1) + 1
    BY FS_Interval
  <2> QED
    BY <2>1
<1>2. ASSUME NEW i \in present PROVE Cardinality({j \in present : j >= i}) = last - i + 1
  <2>1. {j \in present : j >= i} = i..last
    BY <1>2
  <2>2. i \in Nat /\ i <= last
    BY <1>2
  <2>3. Cardinality(i..last) = last - i + 1
    BY <2>2, FS_Interval
  <2> QED
    BY <2>1, <2>3, Zenon
<1> DEFINE n == IF last - old < Depth THEN last - old ELSE Depth
           pick(i) == CHOOSE j \in present : Cardinality({l \in present : l >= j}) = i
<1>3. n \in 0..Depth /\ n <= last - old /\ (n = 0 => old = last)
  BY ConstantTypes
<1>4. ListScans = [i \in 1..n |-> pick(i)]
  BY <1>1 DEF ListScans
<1>5. ASSUME NEW i \in 1..n PROVE pick(i) = last - i + 1
  <2>1. last - i + 1 \in present /\ last - (last - i + 1) + 1 = i
    BY <1>3, <1>5
  <2>2. Cardinality({l \in present : l >= last - i + 1}) = i
    BY <1>2, <2>1
  <2>3. pick(i) \in present /\ Cardinality({l \in present : l >= pick(i)}) = i
    <3> DEFINE card(j) == Cardinality({l \in present : l >= j})
    <3>1. \E j \in present : card(j) = i
      BY <2>1, <2>2
    <3>2. pick(i) = CHOOSE j \in present : card(j) = i
      OBVIOUS
    <3> HIDE DEF card, pick
    <3>3. pick(i) \in present /\ card(pick(i)) = i
      BY <3>1, <3>2
    <3> QED
      BY <3>3 DEF card
  <2> HIDE DEF pick, n
  <2>4. last - pick(i) + 1 = i /\ pick(i) \in Nat /\ i \in Nat
    BY <1>2, <1>3, <2>3
  <2> QED
    BY <2>4
<1> HIDE DEF pick, n
<1>6. ListScans = [i \in 1..n |-> last - i + 1]
  BY <1>4, <1>5
<1> QED
  BY <1>3, <1>6

\* heldScans finds Depth scans in a row only where there are.
LEMMA HeldIsHeld ==
  ASSUME NEW c, NEW b \in Seq(Baseline), b # << >>, heldScans(c, b, Depth) >= Depth
  PROVE  /\ Len(b) >= Depth
         /\ \A i \in 2..Depth : b[i].sufficient /\ c \in b[i].norms
<1> DEFINE holds == {i \in 1..Len(b) : i = 1 \/ (b[i].sufficient /\ c \in b[i].norms)}
           held == {n \in 1..Depth : 1..n \subseteq holds}
<1>1. Len(b) \in Nat /\ Len(b) > 0 /\ 1 \in holds
  OBVIOUS
<1>2. 1 \in held
  BY <1>1, ConstantTypes
<1>3. PICK m \in held : \A x \in held : x <= m
  <2>1. held \in SUBSET (1..Depth) /\ held # {}
    BY <1>2
  <2> HIDE DEF held
  <2> QED BY <2>1, Largest, ConstantTypes
<1>4. heldScans(c, b, Depth) = CHOOSE n \in held : \A x \in held : x <= n
  BY DEF heldScans
<1>5. heldScans(c, b, Depth) \in held
  <2> HIDE DEF held
  <2> QED BY <1>3, <1>4
<1>6. Depth \in held
  BY <1>5, ConstantTypes
<1>7. 1..Depth \subseteq holds
  BY <1>6
<1>8. Depth \in holds
  BY <1>7, ConstantTypes
<1> QED
  BY <1>7, <1>8, ConstantTypes

-----------------------------------------------------------------------------
(* Steps of the store and the clock. *)

\* What was saved stays as it is: a chain remains one.
LEMMA ChainsStay ==
  ASSUME Len(log) \in Nat, Len(log') \in Nat, Len(log') >= Len(log),
         \A i \in 1..Len(log) : log'[i].base = log[i].base
  PROVE  /\ \A b, top : Chain(b, top) => Chain(b, top)'
         /\ \A b : Consecutive(b) => Consecutive(b)'
<1>1. ASSUME NEW e, Truthful(e) PROVE Truthful(e)'
  BY <1>1 DEF Truthful
<1>2. ASSUME NEW b, NEW top, Chain(b, top) PROVE Chain(b, top)'
  BY <1>1, <1>2 DEF Chain
<1> QED
  BY <1>2 DEF Consecutive

\* What a decision rested on stays true: the log only grows.
LEMMA DenialStays ==
  ASSUME DenyNeedsStableNorm, Len(log) \in Nat, Len(log') \in Nat, Len(log') >= Len(log),
         \A i \in 1..Len(log) : log'[i].base = log[i].base, UNCHANGED denied
  PROVE  DenyNeedsStableNorm'
<1> SUFFICES ASSUME NEW c \in denied
             PROVE  \E newest \in Depth..Len(log') :
                      \A i \in (newest - Depth + 1)..newest :
                        log'[i].base.sufficient /\ c \in log'[i].base.norms
  BY DEF DenyNeedsStableNorm
<1>1. PICK newest \in Depth..Len(log) :
        \A i \in (newest - Depth + 1)..newest : log[i].base.sufficient /\ c \in log[i].base.norms
  BY DEF DenyNeedsStableNorm
<1>2. newest \in Depth..Len(log')
  BY ConstantTypes
<1>3. ASSUME NEW i \in (newest - Depth + 1)..newest
      PROVE  log'[i].base.sufficient /\ c \in log'[i].base.norms
  <2>1. i \in 1..Len(log)
    BY <1>3, ConstantTypes
  <2> QED
    BY <1>1, <1>3, <2>1
<1> QED
  BY <1>2, <1>3

\* A new scan is of age 0: no baseline has to know of it yet.
LEMMA SaveScanInv ==
  ASSUME IInv, NEW base \in Norms, SaveScan(base)
  PROVE  IInv'
<1> DEFINE e == [base |-> base, age |-> 0]
           L == Len(log)
<1>1. /\ log' = Append(log, e) /\ present' = present \cup {L + 1}
      /\ UNCHANGED <<cacheVars, flight, pc, reqVars, faults>>
  BY DEF SaveScan
<1>2. log \in Seq([base : Norms, age : 0..Settled]) /\ L \in Nat
  BY DEF IInv, StoreOK
<1>3. e \in [base : Norms, age : 0..Settled] /\ e.age = 0
  BY ConstantTypes
<1> HIDE DEF e
<1>4. /\ log' \in Seq([base : Norms, age : 0..Settled]) /\ Len(log') = L + 1 /\ log'[L + 1] = e
      /\ \A i \in 1..L : log'[i] = log[i]
  BY <1>1, <1>2, <1>3
<1>5. PICK old \in 0..L : present = (old + 1)..L
  BY DEF IInv, StoreOK
<1> HIDE DEF L
<1>6. present' = (old + 1)..(L + 1) /\ old \in 0..(L + 1)
  BY <1>1, <1>2, <1>5
<1>7. StoreOK'
  BY <1>4, <1>6 DEF StoreOK
<1>8. Len(log) \in Nat /\ Len(log') \in Nat /\ Len(log') >= Len(log) /\ \A i \in 1..Len(log) : log'[i].base = log[i].base
  BY <1>2, <1>4 DEF L
<1>9. DenyNeedsStableNorm' /\ denied' \subseteq Checks
  BY <1>1, <1>8, DenialStays DEF IInv, reqVars
<1>10. \A i \in present' : i \in present \/ (i = L + 1 /\ log'[i].age = 0)
  BY <1>1, <1>3, <1>4
<1>11. \A i \in present : log'[i] = log[i]
  <2>1. \A i \in present : i \in 1..L
    BY <1>2, <1>5
  <2> QED
    BY <1>4, <2>1
<1>12. CacheOK'
  <2>1. UNCHANGED <<cached, cacheAge, faults>> /\ Consecutive(cached)' /\ Newest(cached)' = Newest(cached)
    BY <1>1, <1>8, ChainsStay DEF IInv, CacheOK, cacheVars, Newest
  <2>2. ASSUME faults = 0, Fresh, NEW i \in present', log'[i].age > cacheAge + Timeout PROVE i <= Newest(cached)
    <3>1. i \in present /\ log'[i] = log[i]
      BY <1>10, <1>11, <2>2, ConstantTypes DEF IInv, CacheOK
    <3> QED
      BY <2>2, <3>1 DEF IInv, CacheOK
  <2>3. Newest(cached)' <= Len(log')
    BY <1>2, <1>4, <2>1 DEF IInv, CacheOK, L, Newest, Consecutive, Chain, Truthful, Baseline
  <2> QED
    BY <2>1, <2>2, <2>3 DEF IInv, CacheOK, Fresh
<1>13. FlightOK'
  <2>1. UNCHANGED <<flight, cached>>
    BY <1>1 DEF cacheVars
  <2>2. ASSUME flight.phase = "read" PROVE \E top \in 0..Len(log') : Listed(top)'
    <3>1. PICK top \in 0..L : Listed(top)
      BY <2>2 DEF IInv, FlightOK, L
    <3>2. top \in 0..Len(log')
      BY <1>2, <1>4
    <3>3. Chain(flight.got, top)'
      BY <1>8, <2>1, <3>1, ChainsStay DEF Listed
    <3>4. \A i \in 1..Len(flight.todo) : flight.todo[i] = top - Len(flight.got) - i + 1 /\ flight.todo[i] \in 1..Len(log')
      <4>1. \A i \in 1..Len(flight.todo) :
              flight.todo[i] = top - Len(flight.got) - i + 1 /\ flight.todo[i] \in 1..L
        BY <3>1 DEF Listed, L
      <4>2. \A x \in 1..L : x \in 1..Len(log')
        BY <1>2, <1>4
      <4> QED
        BY <4>1, <4>2
    <3>5. \A i \in present' : i > top => log'[i].age <= flight.age
      <4>1. 0 <= flight.age
        BY DEF IInv, FlightOK
      <4>2. \A i \in present : i > top => log[i].age <= flight.age
        BY <3>1 DEF Listed
      <4> QED
        BY <1>10, <1>11, <4>1, <4>2
    <3>6. flight.got = << >> /\ flight.todo = << >> => \A i \in present' : i > top
      BY <1>2, <1>10, <3>1 DEF Listed
    <3> QED
      BY <2>1, <3>1, <3>2, <3>3, <3>4, <3>5, <3>6 DEF Listed, Newest
  <2> QED
    BY <2>1, <2>2 DEF IInv, FlightOK
<1>14. RequestsOK'
  <2>1. UNCHANGED <<pc, mine, served, owed, faults, flight>>
    BY <1>1 DEF reqVars
  <2>2. ASSUME NEW r \in Requests PROVE Asked(r)'
    <3>1. Asked(r)
      BY DEF IInv, RequestsOK
    <3>2. Consecutive(mine[r])' /\ Consecutive(served[r])'
      BY <1>8, <2>1, <3>1, ChainsStay DEF Asked
    <3>3. owed[r] \in 0..Len(log') /\ (owed[r] # 0 => log'[owed[r]].age = Settled)
      BY <1>2, <1>4, <3>1 DEF Asked, L
    <3>4. owed[r] \in present' => owed[r] \in present
      BY <1>1, <1>2, <3>1 DEF Asked, L
    <3> QED
      BY <2>1, <3>1, <3>2, <3>3, <3>4 DEF Asked, Newest
  <2> QED
    BY <2>1, <2>2 DEF IInv, RequestsOK
<1> QED
  BY <1>7, <1>9, <1>12, <1>13, <1>14 DEF IInv

\* Pruning takes scans at the old end: what was read of them stays truthful.
LEMMA PruneScansInv ==
  ASSUME IInv, NEW p \in present, PruneScans(p)
  PROVE  IInv'
<1>1. present' = {j \in present : j > p} /\ UNCHANGED <<log, cacheVars, flight, pc, reqVars, faults>>
  BY DEF PruneScans
<1>2. present' \subseteq present /\ UNCHANGED <<log, cached, cacheAge, flight, pc, mine, served, owed, denied, faults>>
  BY <1>1 DEF cacheVars, reqVars
<1>3. StoreOK'
  <2>1. PICK old \in 0..Len(log) : present = (old + 1)..Len(log)
    BY DEF IInv, StoreOK
  <2>2. Len(log) \in Nat
    BY DEF IInv, StoreOK
  <2>3. p \in 0..Len(log) /\ present' = (p + 1)..Len(log)
    BY <1>1, <2>1, <2>2
  <2> QED
    BY <1>2, <2>3 DEF IInv, StoreOK
<1>4. CacheOK'
  BY <1>2 DEF IInv, CacheOK, Consecutive, Chain, Truthful, Newest, Fresh
<1>5. FlightOK'
  <2>1. ASSUME NEW top, Listed(top) PROVE Listed(top)'
    BY <1>2, <2>1 DEF Listed, Chain, Truthful, Newest
  <2> QED
    BY <1>2, <2>1 DEF IInv, FlightOK
<1>6. RequestsOK'
  <2>1. ASSUME NEW r \in Requests PROVE Asked(r)'
    <3>1. Asked(r)
      BY DEF IInv, RequestsOK
    <3> QED
      BY <1>2, <3>1 DEF Asked, Consecutive, Chain, Truthful, Newest
  <2> QED
    BY <1>2, <2>1 DEF IInv, RequestsOK
<1>7. denied' \subseteq Checks /\ DenyNeedsStableNorm'
  BY <1>2 DEF IInv, DenyNeedsStableNorm
<1> QED
  BY <1>3, <1>4, <1>5, <1>6, <1>7 DEF IInv

\* A tick ages the scans, the cache and the recompute together, and the recompute
\* ends by its timeout.
LEMMA TickInv ==
  ASSUME IInv, Tick
  PROVE  IInv'
<1> DEFINE L == Len(log)
<1>1. /\ flight.phase # "none" => flight.age < Timeout
      /\ flight' = IF flight.phase = "none" THEN flight ELSE [flight EXCEPT !.age = @ + 1]
      /\ cacheAge' = Older(cacheAge, TTL)
      /\ log' = [i \in DOMAIN log |-> [log[i] EXCEPT !.age = Older(@, Settled)]]
      /\ UNCHANGED <<present, cached, pc, mine, served, owed, denied, faults>>
  BY DEF Tick, reqVars
<1>2. log \in Seq([base : Norms, age : 0..Settled]) /\ L \in Nat /\ DOMAIN log = 1..L
  BY DEF IInv, StoreOK
<1>3. \A i \in 1..L : log[i] \in [base : Norms, age : 0..Settled]
  BY <1>2, SeqElements
<1>4. /\ log' \in Seq([base : Norms, age : 0..Settled]) /\ Len(log') = L
      /\ \A i \in 1..L : log'[i].base = log[i].base /\ log'[i].age = Older(log[i].age, Settled)
  <2>1. \A i \in 1..L : Older(log[i].age, Settled) \in 0..Settled
    BY <1>3, ConstantTypes DEF Older
  <2>2. log' = [i \in 1..L |-> [log[i] EXCEPT !.age = Older(@, Settled)]]
    BY <1>1, <1>2
  <2>3. \A i \in 1..L : log'[i] \in [base : Norms, age : 0..Settled]
                        /\ log'[i].base = log[i].base /\ log'[i].age = Older(log[i].age, Settled)
    BY <1>3, <2>1, <2>2
  <2>4. log' \in [1..L -> [base : Norms, age : 0..Settled]]
    BY <2>2, <2>3
  <2> QED
    BY <1>2, <2>3, <2>4
<1> HIDE DEF L
<1>5. StoreOK'
  BY <1>1, <1>4 DEF IInv, StoreOK, L
<1>6. /\ Len(log) \in Nat /\ Len(log') \in Nat /\ Len(log') >= Len(log)
      /\ \A i \in 1..Len(log) : log'[i].base = log[i].base
  BY <1>2, <1>4 DEF L
<1>7. DenyNeedsStableNorm' /\ denied' \subseteq Checks
  BY <1>1, <1>6, DenialStays DEF IInv
<1>8. \A i \in present : i \in 1..L /\ log[i].age \in 0..Settled /\ log'[i].age = Older(log[i].age, Settled)
  <2>1. PICK old \in 0..L : present = (old + 1)..L
    BY DEF IInv, StoreOK, L
  <2>2. \A i \in present : i \in 1..L
    BY <1>2, <2>1
  <2> QED
    BY <1>3, <1>4, <2>2
<1>9. CacheOK'
  <2>1. Consecutive(cached)' /\ Newest(cached)' = Newest(cached) /\ cacheAge' \in 0..TTL /\ cacheAge \in 0..TTL
    BY <1>1, <1>6, ChainsStay, ConstantTypes DEF IInv, CacheOK, Newest, Older
  <2>2. ASSUME faults = 0, cacheAge' < TTL, NEW i \in present, log'[i].age > cacheAge' + Timeout
        PROVE  i <= Newest(cached)
    <3>1. cacheAge < TTL /\ cacheAge' = cacheAge + 1
      BY <1>1, <2>1, <2>2, ConstantTypes DEF Older
    <3>2. log[i].age > cacheAge + Timeout
      BY <1>8, <2>1, <2>2, <3>1, ConstantTypes DEF Older, Settled
    <3> QED
      BY <2>2, <3>1, <3>2 DEF IInv, CacheOK, Fresh
  <2>3. Newest(cached)' <= Len(log')
    BY <1>4, <2>1 DEF IInv, CacheOK, L
  <2> QED
    BY <1>1, <2>1, <2>2, <2>3 DEF IInv, CacheOK, Fresh
<1>10. /\ flight' \in [phase : {"none", "list", "read"}, age : 0..Timeout, todo : Seq(Nat), got : Seq(Baseline)]
       /\ flight'.phase = flight.phase /\ flight'.todo = flight.todo /\ flight'.got = flight.got
       /\ flight.phase # "none" => flight'.age = flight.age + 1
  <2>1. flight \in [phase : {"none", "list", "read"}, age : 0..Timeout, todo : Seq(Nat), got : Seq(Baseline)]
    BY DEF IInv, FlightOK
  <2>2. CASE flight.phase = "none"
    BY <1>1, <2>1, <2>2
  <2>3. CASE flight.phase # "none"
    <3>1. flight.age + 1 \in 0..Timeout /\ flight' = [flight EXCEPT !.age = flight.age + 1]
      BY <1>1, <2>1, <2>3, ConstantTypes
    <3> QED
      BY <2>1, <2>3, <3>1
  <2> QED
    BY <2>2, <2>3
<1>11. FlightOK'
  <2>1. ASSUME flight.phase = "read" PROVE \E top \in 0..Len(log') : Listed(top)'
    <3>1. PICK top \in 0..L : Listed(top)
      BY <2>1 DEF IInv, FlightOK, L
    <3>2. Chain(flight.got, top)'
      <4>1. Chain(flight'.got, top)
        BY <1>10, <3>1 DEF Listed
      <4> QED
        BY <1>6, <4>1, ChainsStay
    <3>3. \A i \in present' : i > top => log'[i].age <= flight'.age
      <4>1. flight.age \in Nat /\ flight'.age = flight.age + 1
        BY <1>10, <2>1 DEF IInv, FlightOK
      <4>2. \A i \in present : i > top => log[i].age <= flight.age
        BY <3>1 DEF Listed
      <4> QED
        BY <1>1, <1>8, <4>1, <4>2, ConstantTypes DEF Older
    <3>4. top \in 0..Len(log') /\ Newest(cached)' <= top
      BY <1>1, <1>4, <3>1 DEF Listed, Newest
    <3> QED
      BY <1>1, <1>4, <1>10, <3>1, <3>2, <3>3, <3>4 DEF Listed, L
  <2> QED
    BY <1>10, <2>1 DEF IInv, FlightOK
<1>12. RequestsOK'
  <2>1. ASSUME NEW r \in Requests PROVE Asked(r)'
    <3>1. Asked(r)
      BY DEF IInv, RequestsOK
    <3>2. Consecutive(mine[r])' /\ Consecutive(served[r])'
      BY <1>1, <1>6, <3>1, ChainsStay DEF Asked
    <3>3. owed[r] \in 0..L /\ (owed[r] # 0 => log[owed[r]].age = Settled /\ owed[r] \in 1..L)
      BY <1>2, <3>1 DEF Asked, L
    <3>4. owed[r] # 0 => log'[owed[r]].age = Settled
      BY <1>4, <3>3, ConstantTypes DEF Older
    <3> QED
      BY <1>1, <1>4, <1>10, <3>1, <3>2, <3>3, <3>4 DEF Asked, Newest
  <2> QED
    BY <1>1, <2>1 DEF IInv, RequestsOK
<1> QED
  BY <1>5, <1>7, <1>9, <1>11, <1>12 DEF IInv

-----------------------------------------------------------------------------
(* Steps of a request. *)

\* The store, the cache and the recompute are as they were.
LEMMA Rest ==
  ASSUME IInv, UNCHANGED <<log, present, cached, cacheAge, faults>>
  PROVE  StoreOK' /\ CacheOK' /\ (UNCHANGED flight => FlightOK') /\ (UNCHANGED denied => DenyNeedsStableNorm')
<1>1. StoreOK'
  BY DEF IInv, StoreOK
<1>2. CacheOK'
  BY DEF IInv, CacheOK, Consecutive, Chain, Truthful, Newest, Fresh
<1>3. ASSUME UNCHANGED flight PROVE FlightOK'
  <2>1. ASSUME NEW top, Listed(top) PROVE Listed(top)'
    BY <1>3, <2>1 DEF Listed, Chain, Truthful, Newest
  <2> QED
    BY <1>3, <2>1 DEF IInv, FlightOK
<1>4. ASSUME UNCHANGED denied PROVE DenyNeedsStableNorm'
  BY <1>4 DEF IInv, DenyNeedsStableNorm
<1> QED
  BY <1>1, <1>2, <1>3, <1>4

\* One request moves on, with chains for baselines.
LEMMA RequestMoves ==
  ASSUME RequestsOK, NEW r \in Requests, UNCHANGED <<log, present, faults, flight>>,
         NEW l \in {"idle", "stale", "wait", "evaluate"}, NEW m, NEW s, NEW o \in 0..Len(log),
         pc' = [pc EXCEPT ![r] = l], mine' = [mine EXCEPT ![r] = m], served' = [served EXCEPT ![r] = s],
         owed' = [owed EXCEPT ![r] = o], Consecutive(m), Consecutive(s), l # "wait",
         o # 0 => log[o].age = Settled,
         (l = "evaluate" /\ faults = 0 /\ o \in present) => Newest(s) >= o,
         Len(log) \in Nat
  PROVE  RequestsOK'
<1>1. m \in Seq(Baseline) /\ s \in Seq(Baseline) /\ o \in Nat
  BY DEF Consecutive
<1>2. /\ pc' \in [Requests -> {"idle", "stale", "wait", "evaluate"}] /\ mine' \in [Requests -> Seq(Baseline)]
      /\ served' \in [Requests -> Seq(Baseline)] /\ owed' \in [Requests -> Nat]
      /\ pc'[r] = l /\ mine'[r] = m /\ served'[r] = s /\ owed'[r] = o
      /\ \A q \in Requests \ {r} : pc'[q] = pc[q] /\ mine'[q] = mine[q] /\ served'[q] = served[q] /\ owed'[q] = owed[q]
  BY <1>1 DEF RequestsOK
<1>3. Asked(r)'
  BY <1>2 DEF Asked, Consecutive, Chain, Truthful, Newest
<1>4. ASSUME NEW q \in Requests \ {r} PROVE Asked(q)'
  <2>1. Asked(q)
    BY DEF RequestsOK
  <2> QED
    BY <1>2, <2>1 DEF Asked, Consecutive, Chain, Truthful, Newest
<1> QED
  BY <1>2, <1>3, <1>4 DEF RequestsOK

\* A request that comes: a fresh cache knows the newest settled scan, so what is
\* served at once is what is owed.
LEMMA CurrentInv ==
  ASSUME IInv, NEW r \in Requests, Current(r)
  PROVE  IInv'
<1> DEFINE o == IF SettledScans = {} THEN 0 ELSE Max(SettledScans)
<1>1. /\ owed' = [owed EXCEPT ![r] = o] /\ UNCHANGED <<log, present, cached, cacheAge, faults, flight, denied>>
  BY DEF Current, storeVars, cacheVars
<1>2. Len(log) \in Nat
  BY DEF IInv, StoreOK
<1>3. o \in 0..Len(log) /\ (o # 0 => o \in SettledScans)
  <2>1. SettledScans \in SUBSET (1..Len(log))
    <3>1. PICK old \in 0..Len(log) : present = (old + 1)..Len(log)
      BY DEF IInv, StoreOK
    <3> QED
      BY <1>2, <3>1 DEF SettledScans
  <2>2. SettledScans # {} => Max(SettledScans) \in SettledScans
    <3>1. ASSUME SettledScans # {} PROVE \E m \in SettledScans : \A x \in SettledScans : m >= x
      <4>1. PICK m \in SettledScans : \A x \in SettledScans : x <= m
        BY <1>2, <2>1, <3>1, Largest
      <4>2. \A x \in SettledScans : x \in Nat /\ m \in Nat
        BY <2>1
      <4> QED
        BY <4>1, <4>2
    <3> QED
      BY <3>1 DEF Max
  <2>3. CASE SettledScans = {}
    BY <1>2, <2>3
  <2>4. CASE SettledScans # {}
    <3>1. o \in SettledScans
      BY <2>2, <2>4
    <3> HIDE DEF o
    <3> QED
      BY <1>2, <2>1, <3>1
  <2> QED
    BY <2>3, <2>4
<1>4. o # 0 => o \in present /\ log[o].age = Settled
  BY <1>3 DEF SettledScans
<1> HIDE DEF o
<1>5. /\ mine \in [Requests -> Seq(Baseline)] /\ served \in [Requests -> Seq(Baseline)]
      /\ Consecutive(mine[r]) /\ Consecutive(served[r]) /\ Consecutive(cached)
  BY DEF IInv, RequestsOK, Asked, CacheOK
<1>6. RequestsOK'
  <2>1. CASE Fresh
    <3>1. /\ pc' = [pc EXCEPT ![r] = "evaluate"] /\ served' = [served EXCEPT ![r] = cached]
          /\ mine' = [mine EXCEPT ![r] = mine[r]]
      BY <1>5, <2>1 DEF Current, Goto
    <3>2. ASSUME faults = 0, o \in present PROVE Newest(cached) >= o
      <4>1. o # 0
        BY <1>2, <3>2 DEF IInv, StoreOK
      <4>2. log[o].age > cacheAge + Timeout
        BY <1>4, <2>1, <4>1, ConstantTypes DEF Settled, Fresh, IInv, CacheOK
      <4>3. o <= Newest(cached)
        BY <2>1, <3>2, <4>2 DEF IInv, CacheOK
      <4>4. o \in Nat /\ Newest(cached) \in Nat
        BY <1>2, <1>3, <1>5, NewestType
      <4> QED
        BY <4>3, <4>4
    <3> QED
      BY <1>1, <1>2, <1>3, <1>4, <1>5, <3>1, <3>2, RequestMoves DEF IInv
  <2>2. CASE ~Fresh
    <3>1. /\ pc' = [pc EXCEPT ![r] = "stale"] /\ mine' = [mine EXCEPT ![r] = cached]
          /\ served' = [served EXCEPT ![r] = served[r]]
      BY <1>5, <2>2 DEF Current, Goto
    <3> QED
      BY <1>1, <1>2, <1>3, <1>4, <1>5, <3>1, RequestMoves DEF IInv
  <2> QED
    BY <2>1, <2>2
<1> QED
  BY <1>1, <1>6, Rest DEF IInv

\* A caller that waits has started a recompute or joined one.
LEMMA DoChanInv ==
  ASSUME IInv, NEW r \in Requests, DoChan(r)
  PROVE  IInv'
<1>1. /\ pc' = [pc EXCEPT ![r] = "wait"] /\ UNCHANGED <<log, present, cached, cacheAge, mine, served, owed, denied, faults>>
      /\ flight' = IF flight.phase = "none" THEN [NoFlight EXCEPT !.phase = "list"] ELSE flight
  BY DEF DoChan, Goto, storeVars, cacheVars, reqVars
<1>2. flight'.phase # "none" /\ FlightOK'
  <2>1. CASE flight.phase = "none"
    <3>1. flight' = [phase |-> "list", age |-> 0, todo |-> << >>, got |-> << >>]
      BY <1>1, <2>1 DEF NoFlight
    <3>2. flight' \in [phase : {"none", "list", "read"}, age : 0..Timeout, todo : Seq(Nat), got : Seq(Baseline)]
      BY <3>1, ConstantTypes
    <3> QED
      BY <3>1, <3>2, ConstantTypes DEF FlightOK
  <2>2. CASE flight.phase # "none"
    BY <1>1, <2>2, Rest
  <2> QED
    BY <2>1, <2>2
<1>3. RequestsOK'
  <2>1. pc' \in [Requests -> {"idle", "stale", "wait", "evaluate"}]
    BY <1>1 DEF IInv, RequestsOK
  <2>2. ASSUME NEW q \in Requests PROVE Asked(q)'
    <3>1. Asked(q) /\ (pc'[q] = "evaluate" => pc[q] = "evaluate")
      BY <1>1 DEF IInv, RequestsOK
    <3> QED
      BY <1>1, <1>2, <3>1 DEF Asked, Consecutive, Chain, Truthful, Newest
  <2> QED
    BY <1>1, <2>1, <2>2 DEF IInv, RequestsOK
<1> QED
  BY <1>1, <1>2, <1>3, Rest DEF IInv

\* No baseline at all is a chain too.
LEMMA EmptyChain == Consecutive(<< >>) /\ Newest(<< >>) = 0
BY DEF Consecutive, Chain, Newest

\* A caller that gives up takes the baseline it had read, and is owed nothing.
LEMMA giveUpInv ==
  ASSUME IInv, NEW r \in Requests, giveUp(r)
  PROVE  IInv'
<1>1. /\ pc' = [pc EXCEPT ![r] = "evaluate"] /\ served' = [served EXCEPT ![r] = mine[r]]
      /\ mine' = [mine EXCEPT ![r] = << >>] /\ owed' = [owed EXCEPT ![r] = 0]
      /\ UNCHANGED <<log, present, cached, cacheAge, flight, denied, faults>>
  BY DEF giveUp, Goto, storeVars, cacheVars
<1>2. Len(log) \in Nat /\ 0 \in 0..Len(log) /\ 0 \notin present
  BY DEF IInv, StoreOK
<1>3. Consecutive(mine[r])
  BY DEF IInv, RequestsOK, Asked
<1>4. RequestsOK'
  BY <1>1, <1>2, <1>3, EmptyChain, RequestMoves DEF IInv
<1> QED
  BY <1>1, <1>4, Rest DEF IInv

\* The decision: a check that denies held in Depth scans of the served baseline,
\* and those were saved one after the other.
LEMMA evaluateInv ==
  ASSUME IInv, NEW r \in Requests, NEW violates \in SUBSET Checks, NEW dryRun \in BOOLEAN,
         evaluate(r, violates, dryRun)
  PROVE  IInv'
<1>1. /\ pc' = [pc EXCEPT ![r] = "idle"] /\ served' = [served EXCEPT ![r] = << >>] /\ owed' = [owed EXCEPT ![r] = 0]
      /\ denied' = (IF dryRun THEN {} ELSE denies(served[r], violates))
      /\ UNCHANGED <<log, present, cached, cacheAge, flight, mine, faults>>
  BY DEF evaluate, Goto, storeVars, cacheVars
<1>2. Len(log) \in Nat /\ 0 \in 0..Len(log)
  BY DEF IInv, StoreOK
<1>3. Consecutive(mine[r]) /\ Consecutive(served[r]) /\ mine' = [mine EXCEPT ![r] = mine[r]]
  BY <1>1 DEF IInv, RequestsOK, Asked
<1>4. RequestsOK'
  BY <1>1, <1>2, <1>3, EmptyChain, RequestMoves DEF IInv
<1>5. denied' \subseteq Checks
  BY <1>1 DEF denies
<1>6. ASSUME NEW c \in denied'
      PROVE  \E newest \in Depth..Len(log) :
               \A i \in (newest - Depth + 1)..newest : log[i].base.sufficient /\ c \in log[i].base.norms
  <2> DEFINE b == served[r]
  <2>1. b # << >> /\ b[1].sufficient /\ c \in b[1].norms /\ heldScans(c, b, Depth) >= Depth
    BY <1>1, <1>6 DEF denies
  <2>2. b \in Seq(Baseline) /\ Chain(b, Newest(b)) /\ Len(b) \in Nat
    BY <1>3 DEF Consecutive
  <2> HIDE DEF b
  <2>3. Len(b) >= Depth /\ \A i \in 2..Depth : b[i].sufficient /\ c \in b[i].norms
    BY <2>1, <2>2, HeldIsHeld
  <2>4. \A j \in 1..Depth : /\ b[j].sufficient /\ c \in b[j].norms
                            /\ b[j].id = Newest(b) - j + 1 /\ Truthful(b[j])
    BY <2>1, <2>2, <2>3, ConstantTypes DEF Chain
  <2>5. Newest(b) \in Depth..Len(log)
    <3>1. 1 \in 1..Depth /\ Depth \in 1..Depth
      BY ConstantTypes
    <3>2. b[1].id \in 1..Len(log) /\ b[Depth].id \in 1..Len(log)
      BY <2>4, <3>1 DEF Truthful
    <3>3. Newest(b) = b[1].id /\ b[Depth].id = Newest(b) - Depth + 1
      BY <2>1, <2>4, <3>1 DEF Newest
    <3> QED
      BY <1>2, <3>2, <3>3, ConstantTypes
  <2>6. ASSUME NEW i \in (Newest(b) - Depth + 1)..Newest(b)
        PROVE  log[i].base.sufficient /\ c \in log[i].base.norms
    <3>1. Newest(b) - i + 1 \in 1..Depth /\ i = Newest(b) - (Newest(b) - i + 1) + 1
      BY <2>5, <2>6, <1>2, ConstantTypes
    <3>2. PICK j \in 1..Depth : i = Newest(b) - j + 1
      BY <3>1
    <3>3. b[j].id = i /\ b[j].sufficient /\ c \in b[j].norms /\ Truthful(b[j])
      BY <2>4, <3>2
    <3> QED
      BY <3>3 DEF Truthful
  <2> QED
    BY <2>5, <2>6
<1>7. DenyNeedsStableNorm'
  BY <1>1, <1>6 DEF DenyNeedsStableNorm
<1> QED
  BY <1>1, <1>4, <1>5, <1>7, Rest DEF IInv

-----------------------------------------------------------------------------
(* Steps of the recompute. *)

\* The types of a recompute under way.
LEMMA FlightTypes ==
  ASSUME IInv
  PROVE  /\ flight \in [phase : {"none", "list", "read"}, age : 0..Timeout, todo : Seq(Nat), got : Seq(Baseline)]
         /\ flight.todo \in Seq(Nat) /\ flight.got \in Seq(Baseline) /\ flight.age \in 0..Timeout
         /\ Len(flight.todo) \in Nat /\ Len(flight.got) \in Nat /\ Len(log) \in Nat
         /\ Len(flight.todo) + Len(flight.got) <= Depth
<1>1. flight \in [phase : {"none", "list", "read"}, age : 0..Timeout, todo : Seq(Nat), got : Seq(Baseline)]
      /\ Len(flight.todo) + Len(flight.got) <= Depth
  BY DEF IInv, FlightOK
<1>2. flight.todo \in Seq(Nat) /\ flight.got \in Seq(Baseline) /\ flight.age \in 0..Timeout
  BY <1>1
<1>3. log \in Seq([base : Norms, age : 0..Settled])
  BY DEF IInv, StoreOK
<1> QED
  BY <1>1, <1>2, <1>3

\* Requests are untouched while a recompute is under way.
LEMMA RequestsStay ==
  ASSUME IInv, UNCHANGED <<log, present, pc, mine, served, owed, faults>>,
         flight.phase # "none" => flight'.phase # "none"
  PROVE  RequestsOK'
<1>1. ASSUME NEW r \in Requests PROVE Asked(r)'
  <2>1. Asked(r)
    BY DEF IInv, RequestsOK
  <2> QED
    BY <2>1 DEF Asked, Consecutive, Chain, Truthful, Newest
<1> QED
  BY <1>1 DEF IInv, RequestsOK

\* The list begins with the newest scan of the store.
LEMMA listScansInv ==
  ASSUME IInv, listScans
  PROVE  IInv'
<1>1. /\ flight.phase = "list" /\ flight' = [flight EXCEPT !.phase = "read", !.todo = ListScans]
      /\ UNCHANGED <<log, present, cached, cacheAge, pc, mine, served, owed, denied, faults>>
  BY DEF listScans, storeVars, cacheVars, reqVars
<1>0. PICK L \in Nat : L = Len(log)
  BY FlightTypes
<1>2. PICK old \in 0..L : present = (old + 1)..L
  BY <1>0 DEF IInv, StoreOK
<1>3. L \in Nat /\ flight.got = << >>
  BY <1>1, FlightTypes DEF IInv, FlightOK
<1>4. PICK n \in 0..Depth : ListScans = [i \in 1..n |-> L - i + 1] /\ n <= L - old /\ (n = 0 => old = L)
  <2>1. old \in Nat /\ old <= L
    BY <1>2, <1>3
  <2> QED BY <1>2, <1>3, <2>1, NewestScans
<1>5. /\ ListScans \in Seq(Nat) /\ Len(ListScans) = n
      /\ \A i \in 1..n : ListScans[i] = L - i + 1 /\ ListScans[i] \in 1..L
  <2>1. n \in Nat /\ \A i \in 1..n : L - i + 1 \in Nat /\ L - i + 1 \in 1..L
    BY <1>2, <1>3, <1>4, ConstantTypes
  <2>2. ListScans \in [1..n -> Nat]
    BY <1>4, <2>1
  <2> QED
    BY <1>4, <2>1, <2>2
<1>6. /\ flight' \in [phase : {"none", "list", "read"}, age : 0..Timeout, todo : Seq(Nat), got : Seq(Baseline)]
      /\ flight'.phase = "read" /\ flight'.todo = ListScans /\ flight'.got = << >> /\ flight'.age = flight.age
  BY <1>1, <1>3, <1>5, FlightTypes
<1>7. Listed(L)'
  <2>1. Chain(flight.got, L)'
    BY <1>6 DEF Chain
  <2>2. \A i \in 1..Len(flight'.todo) :
          flight'.todo[i] = L - Len(flight'.got) - i + 1 /\ flight'.todo[i] \in 1..Len(log')
    <3>1. Len(flight'.got) = 0 /\ Len(flight'.todo) = n /\ Len(log') = L
      BY <1>0, <1>1, <1>5, <1>6
    <3>2. \A i \in 1..n : L - 0 - i + 1 = L - i + 1
      BY <1>3
    <3> QED
      BY <1>5, <1>6, <3>1, <3>2
  <2>3. Newest(cached)' <= L
    BY <1>0, <1>1 DEF IInv, CacheOK, Newest
  <2>4. flight'.todo = << >> => present = {}
    BY <1>2, <1>3, <1>4, <1>5, <1>6
  <2>5. \A i \in present : ~(i > L)
    BY <1>2, <1>3
  <2> QED
    BY <1>1, <2>1, <2>2, <2>3, <2>4, <2>5 DEF Listed
<1>8. FlightOK'
  <2>1. L \in 0..Len(log')
    BY <1>0, <1>1, <1>3
  <2>2. Len(flight'.todo) + Len(flight'.got) <= Depth
    BY <1>4, <1>5, <1>6
  <2> QED
    BY <1>6, <1>7, <2>1, <2>2 DEF FlightOK
<1>9. RequestsOK'
  BY <1>1, <1>6, RequestsStay
<1> QED
  BY <1>1, <1>8, <1>9, Rest DEF IInv

\* One scan is read, whether or not it was pruned in between.
LEMMA readScanInv ==
  ASSUME IInv, readScan
  PROVE  IInv'
<1> DEFINE i0 == Head(flight.todo)
           e == scanBaseline(i0)
<1>1. /\ flight.phase = "read" /\ flight.todo # << >>
      /\ flight' = [flight EXCEPT !.todo = Tail(@), !.got = Append(@, e)]
      /\ UNCHANGED <<log, present, cached, cacheAge, pc, mine, served, owed, denied, faults>>
  BY DEF readScan, storeVars, cacheVars, reqVars
<1>2. PICK top \in 0..Len(log) : Listed(top)
  BY <1>1 DEF IInv, FlightOK
<1> DEFINE todo == flight.todo
           got == flight.got
<1>3. /\ todo \in Seq(Nat) /\ got \in Seq(Baseline) /\ Len(todo) \in Nat /\ Len(got) \in Nat /\ Len(log) \in Nat
      /\ todo # << >> /\ Len(todo) > 0 /\ Len(todo) + Len(got) <= Depth
  BY <1>1, FlightTypes
<1>4. i0 = todo[1] /\ todo[1] = top - Len(got) /\ i0 \in 1..Len(log)
  <2>1. 1 \in 1..Len(todo) /\ i0 = todo[1]
    BY <1>3
  <2>2. todo[1] = top - Len(got) - 1 + 1 /\ todo[1] \in 1..Len(log)
    BY <1>2, <2>1 DEF Listed
  <2>3. top \in Nat
    BY <1>3
  <2> HIDE DEF todo, got, i0
  <2> QED
    BY <1>3, <2>1, <2>2, <2>3
<1> HIDE DEF i0
<1>5. e \in Baseline /\ e.id = i0 /\ Truthful(e)
  <2>1. log[i0] \in [base : Norms, age : 0..Settled]
    BY <1>4, SeqElements DEF IInv, StoreOK
  <2>2. log[i0].base \in Norms
    BY <2>1
  <2>3. log[i0].base.sufficient \in BOOLEAN /\ log[i0].base.norms \in SUBSET Checks
    <3>1. CASE log[i0].base = [sufficient |-> FALSE, norms |-> {}]
      BY <3>1
    <3>2. CASE \E cs \in SUBSET Checks : log[i0].base = [sufficient |-> TRUE, norms |-> cs]
      BY <3>2
    <3> QED
      BY <2>2, <3>1, <3>2 DEF Norms
  <2>4. i0 \in Nat
    BY <1>3, <1>4
  <2> QED
    BY <1>4, <2>3, <2>4 DEF scanBaseline, Baseline, Truthful
<1> HIDE DEF e
<1>6. /\ Tail(todo) \in Seq(Nat) /\ Len(Tail(todo)) = Len(todo) - 1
      /\ \A i \in 1..Len(Tail(todo)) : Tail(todo)[i] = todo[i + 1] /\ i + 1 \in 1..Len(todo)
  BY <1>3
<1>7. /\ Append(got, e) \in Seq(Baseline) /\ Len(Append(got, e)) = Len(got) + 1
      /\ \A i \in 1..Len(got) : Append(got, e)[i] = got[i]
      /\ Append(got, e)[Len(got) + 1] = e
  BY <1>3, <1>5
<1>8. /\ flight' \in [phase : {"none", "list", "read"}, age : 0..Timeout, todo : Seq(Nat), got : Seq(Baseline)]
      /\ flight'.phase = "read" /\ flight'.todo = Tail(todo) /\ flight'.got = Append(got, e)
      /\ flight'.age = flight.age
  BY <1>1, <1>6, <1>7, FlightTypes
<1> HIDE DEF todo, got
<1>9. Listed(top)'
  <2>1. ASSUME NEW i \in 1..(Len(got) + 1)
        PROVE  Append(got, e)[i].id = top - i + 1 /\ Truthful(Append(got, e)[i])
    <3>1. CASE i \in 1..Len(got)
      <4>1. got[i].id = top - i + 1 /\ Truthful(got[i])
        BY <1>2, <3>1 DEF Listed, Chain, got
      <4> QED
        BY <1>7, <3>1, <4>1
    <3>2. CASE i = Len(got) + 1
      BY <1>3, <1>4, <1>5, <1>7, <3>2
    <3> QED
      BY <1>3, <3>1, <3>2
  <2>2. Chain(flight.got, top)'
    <3>1. \A i \in 1..Len(flight'.got) : flight'.got[i].id = top - i + 1 /\ Truthful(flight'.got[i])
      BY <1>7, <1>8, <2>1
    <3> QED
      BY <1>1, <3>1 DEF Chain, Truthful
  <2>3. ASSUME NEW i \in 1..Len(Tail(todo))
        PROVE  Tail(todo)[i] = top - (Len(got) + 1) - i + 1 /\ Tail(todo)[i] \in 1..Len(log)
    <3>1. Tail(todo)[i] = todo[i + 1] /\ i + 1 \in 1..Len(todo)
      BY <1>6
    <3>2. todo[i + 1] = top - Len(got) - (i + 1) + 1 /\ todo[i + 1] \in 1..Len(log)
      BY <1>2, <3>1 DEF Listed, todo, got
    <3>3. i \in Nat /\ top \in Nat
      BY <1>3, <1>6
    <3> QED
      BY <1>3, <3>1, <3>2, <3>3
  <2>4. \A i \in 1..Len(flight'.todo) :
          flight'.todo[i] = top - Len(flight'.got) - i + 1 /\ flight'.todo[i] \in 1..Len(log')
    <3>1. flight'.todo = Tail(todo) /\ Len(flight'.got) = Len(got) + 1 /\ Len(log') = Len(log)
      BY <1>1, <1>7, <1>8
    <3> QED
      BY <2>3, <3>1, Zenon
  <2>5. Newest(cached)' <= top
    BY <1>1, <1>2 DEF Listed, Newest
  <2>6. flight'.got # << >>
    <3>1. Len(flight'.got) # 0
      BY <1>3, <1>7, <1>8
    <3> QED
      BY <3>1
  <2>7. \A i \in present' : i > top => log'[i].age <= flight'.age
    BY <1>1, <1>2, <1>8 DEF Listed
  <2> QED
    BY <2>2, <2>4, <2>5, <2>6, <2>7 DEF Listed
<1>10. FlightOK'
  <2>1. Len(flight'.todo) + Len(flight'.got) <= Depth
    BY <1>3, <1>6, <1>7, <1>8, ConstantTypes
  <2>2. top \in 0..Len(log')
    BY <1>1
  <2> QED
    BY <1>8, <1>9, <2>1, <2>2 DEF FlightOK
<1>11. RequestsOK'
  BY <1>1, <1>8, RequestsStay
<1> QED
  BY <1>1, <1>10, <1>11, Rest DEF IInv

\* The recompute's result: while no recompute failed it knows every scan older
\* than the recompute, so each caller that waited is served what it is owed.
LEMMA AnswerInv ==
  ASSUME IInv, NEW b, Answer(b), cached' = b, Consecutive(b), Len(b) <= Depth, Newest(b) <= Len(log),
         faults' \in Nat, faults' = 0 => faults = 0,
         faults' = 0 => \A i \in present : log[i].age > flight.age => i <= Newest(b)
  PROVE  IInv'
<1>1. /\ flight' = NoFlight /\ cacheAge' = 0 /\ UNCHANGED <<log, present, owed, denied>>
      /\ pc' = [r \in Requests |-> IF pc[r] = "wait" THEN "evaluate" ELSE pc[r]]
      /\ served' = [r \in Requests |-> IF pc[r] = "wait" THEN b ELSE served[r]]
      /\ mine' = [r \in Requests |-> IF pc[r] = "wait" THEN << >> ELSE mine[r]]
  BY DEF Answer, storeVars
<1>2. Len(log) \in Nat /\ flight.age \in 0..Timeout /\ log \in Seq([base : Norms, age : 0..Settled])
  BY FlightTypes DEF IInv, StoreOK
<1>3. present \subseteq 1..Len(log) /\ StoreOK'
  BY <1>1, <1>2 DEF IInv, StoreOK
<1>4. \A i \in present : log[i].age \in 0..Settled
  <2>1. \A i \in 1..Len(log) : log[i] \in [base : Norms, age : 0..Settled]
    BY <1>2, SeqElements
  <2> QED
    BY <1>3, <2>1
<1>5. \A c : Consecutive(c) => Consecutive(c)'
  <2>1. Len(log') \in Nat /\ Len(log') >= Len(log) /\ \A i \in 1..Len(log) : log'[i].base = log[i].base
    BY <1>1, <1>2
  <2> QED
    BY <1>2, <2>1, ChainsStay
<1>6. CacheOK'
  <2>1. Consecutive(cached)'
    BY <1>5 DEF Consecutive, Chain, Newest
  <2>2. ASSUME faults' = 0, NEW i \in present, log[i].age > 0 + Timeout
        PROVE  i <= Newest(b)
    BY <1>2, <1>4, <2>2, ConstantTypes
  <2>3. Newest(cached)' = Newest(b) /\ Newest(b) <= Len(log')
    BY <1>1 DEF Newest
  <2> QED
    BY <1>1, <2>1, <2>2, <2>3, ConstantTypes DEF CacheOK
<1>7. FlightOK'
  <2>1. flight' = [phase |-> "none", age |-> 0, todo |-> << >>, got |-> << >>]
    BY <1>1 DEF NoFlight
  <2>2. flight' \in [phase : {"none", "list", "read"}, age : 0..Timeout, todo : Seq(Nat), got : Seq(Baseline)]
    BY <2>1, ConstantTypes
  <2> QED
    BY <2>1, <2>2, ConstantTypes DEF FlightOK
<1>8. RequestsOK'
  <2>1. /\ pc \in [Requests -> {"idle", "stale", "wait", "evaluate"}] /\ mine \in [Requests -> Seq(Baseline)]
        /\ served \in [Requests -> Seq(Baseline)] /\ owed \in [Requests -> Nat] /\ b \in Seq(Baseline)
    BY DEF IInv, RequestsOK, Consecutive
  <2>2. /\ pc' \in [Requests -> {"idle", "stale", "wait", "evaluate"}] /\ owed' \in [Requests -> Nat]
        /\ mine' \in [Requests -> Seq(Baseline)] /\ served' \in [Requests -> Seq(Baseline)]
    BY <1>1, <2>1
  <2>3. ASSUME NEW r \in Requests PROVE Asked(r)'
    <3>1. Asked(r)
      BY DEF IInv, RequestsOK
    <3>2. pc[r]' # "wait" /\ owed[r]' = owed[r] /\ owed[r] \in 0..Len(log) /\ (owed[r] # 0 => log[owed[r]].age = Settled)
      BY <1>1, <3>1 DEF Asked
    <3>3. CASE pc[r] = "wait"
      <4>1. served[r]' = b /\ mine[r]' = << >>
        BY <1>1, <3>3
      <4>2. Consecutive(served[r])' /\ Consecutive(mine[r])'
        BY <1>5, <4>1, EmptyChain DEF Consecutive, Chain, Newest
      <4>3. ASSUME faults' = 0, owed[r] \in present PROVE Newest(b) >= owed[r]
        <5>1. owed[r] # 0
          BY <1>2, <1>3, <4>3
        <5>2. log[owed[r]].age > flight.age
          BY <1>2, <3>2, <5>1, ConstantTypes DEF Settled
        <5>3. owed[r] <= Newest(b)
          BY <4>3, <5>2
        <5>4. owed[r] \in Nat /\ Newest(b) \in Nat
          BY <1>2, <3>2, NewestType
        <5> QED
          BY <5>3, <5>4
      <4>4. Newest(served[r])' = Newest(b)
        BY <4>1 DEF Newest
      <4> QED
        BY <1>1, <3>2, <4>2, <4>3, <4>4 DEF Asked
    <3>4. CASE pc[r] # "wait"
      <4>1. served[r]' = served[r] /\ mine[r]' = mine[r] /\ pc[r]' = pc[r]
        BY <1>1, <3>4
      <4>2. Consecutive(served[r])' /\ Consecutive(mine[r])' /\ Newest(served[r])' = Newest(served[r])
        BY <1>5, <3>1, <4>1 DEF Asked, Consecutive, Chain, Newest
      <4> QED
        BY <1>1, <3>1, <3>2, <4>1, <4>2 DEF Asked
    <3> QED
      BY <3>3, <3>4
  <2> QED
    BY <2>2, <2>3 DEF RequestsOK
<1>9. denied' \subseteq Checks /\ DenyNeedsStableNorm'
  BY <1>1 DEF IInv, DenyNeedsStableNorm
<1> QED
  BY <1>3, <1>6, <1>7, <1>8, <1>9 DEF IInv

\* What a finished recompute has read: the chain of the scans it listed.
LEMMA GotIsChain ==
  ASSUME IInv, flight.phase = "read", flight.todo = << >>
  PROVE  /\ Consecutive(flight.got) /\ Len(flight.got) <= Depth /\ Newest(flight.got) <= Len(log)
         /\ flight.got # << >> => Newest(cached) <= Newest(flight.got)
         /\ \A i \in present : log[i].age > flight.age => i <= Newest(flight.got)
<1>1. PICK top \in 0..Len(log) : Listed(top)
  BY DEF IInv, FlightOK
<1>2. /\ flight.got \in Seq(Baseline) /\ Len(flight.got) \in Nat /\ Len(log) \in Nat /\ flight.age \in 0..Timeout
      /\ Len(flight.got) <= Depth
  BY FlightTypes, ConstantTypes
<1>3. present \subseteq 1..Len(log) /\ \A i \in present : i \in Nat /\ log[i].age \in Nat
  <2>1. log \in Seq([base : Norms, age : 0..Settled]) /\ present \subseteq 1..Len(log)
    BY <1>2 DEF IInv, StoreOK
  <2>2. \A i \in 1..Len(log) : log[i] \in [base : Norms, age : 0..Settled]
    BY <2>1, SeqElements
  <2> QED
    BY <1>2, <2>1, <2>2, ConstantTypes
<1>4. ASSUME NEW i \in present, log[i].age > flight.age PROVE i <= top
  BY <1>1, <1>2, <1>3, <1>4 DEF Listed
<1>5. CASE flight.got = << >>
  <2>1. \A i \in present : i > top /\ log[i].age <= flight.age
    BY <1>1, <1>5 DEF Listed
  <2>2. \A i \in present : ~(log[i].age > flight.age)
    BY <1>2, <1>3, <2>1
  <2> QED
    BY <1>2, <1>5, <2>2, EmptyChain
<1>6. CASE flight.got # << >>
  <2>1. 1 \in 1..Len(flight.got)
    BY <1>2, <1>6
  <2>2. flight.got[1].id = top - 1 + 1 /\ Chain(flight.got, top)
    BY <1>1, <2>1 DEF Listed, Chain
  <2>3. Newest(flight.got) = top
    BY <1>2, <1>6, <2>2 DEF Newest
  <2> QED
    BY <1>1, <1>2, <1>4, <2>2, <2>3 DEF Consecutive, Listed
<1> QED
  BY <1>5, <1>6

\* A recompute that finished: what it read is what the callers are served.
LEMMA recomputeDoneInv ==
  ASSUME IInv, recomputeDone
  PROVE  IInv'
<1>1. /\ flight.phase = "read" /\ flight.todo = << >> /\ cached' = flight.got /\ Answer(flight.got)
      /\ UNCHANGED faults
  BY DEF recomputeDone
<1>2. faults \in Nat
  BY DEF IInv, CacheOK
<1> QED
  BY <1>1, <1>2, GotIsChain, AnswerInv

\* After a failure nothing is promised of what the cache knows.
LEMMA recomputeFailsInv ==
  ASSUME IInv, recomputeFails
  PROVE  IInv'
<1>1. faults' = faults + 1 /\ Answer(cached) /\ cached' = cached
  BY DEF recomputeFails
<1>2. faults \in Nat /\ Consecutive(cached) /\ Len(cached) <= Depth /\ Newest(cached) <= Len(log)
  BY DEF IInv, CacheOK
<1>3. faults' \in Nat /\ faults' # 0
  BY <1>1, <1>2
<1> QED
  BY <1>1, <1>2, <1>3, AnswerInv

-----------------------------------------------------------------------------
(* The theorems. *)

\* The invariant holds at the start.
LEMMA InitInv ==
  ASSUME Init PROVE IInv
<1>1. /\ log = << >> /\ present = {} /\ cached = << >> /\ cacheAge = TTL /\ flight = NoFlight
      /\ pc = [r \in Requests |-> "idle"] /\ mine = [r \in Requests |-> << >>]
      /\ served = [r \in Requests |-> << >>] /\ owed = [r \in Requests |-> 0] /\ denied = {} /\ faults = 0
  BY DEF Init
<1>2. StoreOK
  <2>1. Len(log) = 0 /\ (0 + 1)..0 = {}
    BY <1>1
  <2> QED
    BY <1>1, <2>1 DEF StoreOK
<1>3. CacheOK
  BY <1>1, EmptyChain, ConstantTypes DEF CacheOK, Fresh
<1>4. FlightOK
  <2>1. flight = [phase |-> "none", age |-> 0, todo |-> << >>, got |-> << >>]
    BY <1>1 DEF NoFlight
  <2>2. flight \in [phase : {"none", "list", "read"}, age : 0..Timeout, todo : Seq(Nat), got : Seq(Baseline)]
    BY <2>1, ConstantTypes
  <2> QED
    BY <2>1, <2>2, ConstantTypes DEF FlightOK
<1>5. RequestsOK
  <2>1. \A r \in Requests : Asked(r)
    BY <1>1, EmptyChain DEF Asked
  <2> QED
    BY <1>1, <2>1 DEF RequestsOK
<1> QED
  BY <1>1, <1>2, <1>3, <1>4, <1>5 DEF IInv, DenyNeedsStableNorm

\* Every step of the webhook, the store and the clock keeps the invariant.
LEMMA StepInv ==
  ASSUME IInv, [Next]_vars PROVE IInv'
<1>1. CASE \E r \in Requests : Handler(r)
  BY <1>1, CurrentInv, DoChanInv, giveUpInv, evaluateInv DEF Handler
<1>2. CASE recompute
  BY <1>2, listScansInv, readScanInv, recomputeDoneInv, recomputeFailsInv DEF recompute
<1>3. CASE Store
  BY <1>3, SaveScanInv, PruneScansInv DEF Store
<1>4. CASE Tick
  BY <1>4, TickInv
<1>5. CASE UNCHANGED vars
  <2>1. UNCHANGED <<log, present, cached, cacheAge, flight, pc, mine, served, owed, denied, faults>>
    BY <1>5 DEF vars
  <2>2. RequestsOK'
    BY <2>1, RequestsStay
  <2>3. denied' \subseteq Checks
    BY <2>1 DEF IInv
  <2> QED
    BY <2>1, <2>2, <2>3, Rest DEF IInv
<1> QED
  BY <1>1, <1>2, <1>3, <1>4, <1>5 DEF Next

\* The inductive invariant of the admission webhook, for every behaviour of its
\* requests, its recompute and the store.
THEOREM AdmissionInvariant == Spec => []IInv
<1>1. Init => IInv
  BY InitInv
<1>2. IInv /\ [Next]_vars => IInv'
  BY StepInv
<1> QED
  BY <1>1, <1>2, PTL DEF Spec

\* Current, recompute and ServeHTTP keep the types of the provider and its requests.
THEOREM AdmissionTypes == Spec => []TypeOK
<1>1. IInv => TypeOK
  <2> SUFFICES ASSUME IInv PROVE TypeOK
    OBVIOUS
  <2>1. log \in Seq([base : Norms, age : 0..Settled]) /\ Len(log) \in Nat
    BY DEF IInv, StoreOK
  <2>2. present \subseteq 1..Len(log)
    BY <2>1 DEF IInv, StoreOK
  <2>3. cacheAge \in 0..TTL /\ faults \in Nat /\ cached \in Seq(Baseline) /\ Len(cached) <= Depth
    BY DEF IInv, CacheOK, Consecutive
  <2>4. /\ flight \in [phase : {"none", "list", "read"}, age : 0..Timeout, todo : Seq(Nat), got : Seq(Baseline)]
        /\ Len(flight.todo) + Len(flight.got) <= Depth
    BY FlightTypes
  <2>5. owed \in [Requests -> 0..Len(log)]
    <3>1. owed \in [Requests -> Nat] /\ \A r \in Requests : owed[r] \in 0..Len(log)
      BY DEF IInv, RequestsOK, Asked
    <3> QED
      BY <3>1
  <2>6. /\ pc \in [Requests -> {"idle", "stale", "wait", "evaluate"}] /\ denied \subseteq Checks
        /\ mine \in [Requests -> Seq(Baseline)] /\ served \in [Requests -> Seq(Baseline)]
    BY DEF IInv, RequestsOK
  <2> QED
    BY <2>1, <2>2, <2>3, <2>4, <2>5, <2>6 DEF TypeOK
<1> QED
  BY <1>1, AdmissionInvariant, PTL

\* evaluateDecision denies a pod on a check only if its norm held in Depth scans
\* saved one after the other, whatever heldScans was given while scans were pruned.
THEOREM DenyStable == Spec => []DenyNeedsStableNorm
<1>1. IInv => DenyNeedsStableNorm
  BY DEF IInv
<1> QED
  BY <1>1, AdmissionInvariant, PTL

\* Current serves a request a baseline that knows every scan older than the TTL and
\* one recompute, unless it gave up or a recompute failed.
THEOREM Staleness == Spec => []StalenessBounded
<1>1. IInv => StalenessBounded
  BY DEF IInv, RequestsOK, Asked, StalenessBounded
<1> QED
  BY <1>1, AdmissionInvariant, PTL

\* singleflight: as long as a caller of Current waits there is a recompute it waits for.
THEOREM WaitersServed == Spec => []WaitersHaveFlight
<1>1. IInv => WaitersHaveFlight
  BY DEF IInv, RequestsOK, Asked, WaitersHaveFlight
<1> QED
  BY <1>1, AdmissionInvariant, PTL

\* A step that leaves the cache alone, or replaces it by a finished recompute's.
LEMMA CacheStep ==
  ASSUME IInv, Next
  PROVE  UNCHANGED cached \/ recomputeDone
<1>1. ASSUME NEW r \in Requests, Handler(r) PROVE UNCHANGED cached
  BY <1>1 DEF Handler, Current, DoChan, giveUp, evaluate, cacheVars
<1>2. CASE recompute
  BY <1>2 DEF recompute, listScans, readScan, recomputeFails, cacheVars
<1>3. CASE Store
  BY <1>3 DEF Store, SaveScan, PruneScans, cacheVars
<1>4. CASE Tick
  BY <1>4 DEF Tick
<1> QED
  BY <1>1, <1>2, <1>3, <1>4 DEF Next

\* recompute never replaces the cached baseline by one of older scans; only a
\* recompute that found no scan clears it.
THEOREM CacheForward == Spec => CacheNeverGoesBack
<1>1. ASSUME IInv, [Next]_vars
      PROVE  [\/ Newest(cached') >= Newest(cached)
              \/ cached' = << >> /\ flight.phase = "read"]_vars
  <2>1. Newest(cached) \in Nat
    BY <1>1, NewestType DEF IInv, CacheOK
  <2>2. CASE UNCHANGED cached
    BY <2>1, <2>2
  <2>3. CASE recomputeDone
    <3>1. flight.phase = "read" /\ flight.todo = << >> /\ cached' = flight.got
      BY <2>3 DEF recomputeDone
    <3>2. Consecutive(flight.got) /\ (flight.got # << >> => Newest(cached) <= Newest(flight.got))
      BY <1>1, <3>1, GotIsChain
    <3>3. Newest(flight.got) \in Nat
      BY <3>2, NewestType
    <3> QED
      BY <2>1, <3>1, <3>2, <3>3
  <2> QED
    BY <1>1, <2>2, <2>3, CacheStep DEF vars
<1> QED
  BY <1>1, AdmissionInvariant, PTL DEF Spec, CacheNeverGoesBack
=============================================================================
