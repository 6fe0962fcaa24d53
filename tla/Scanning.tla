------------------------------ MODULE Scanning ------------------------------
(***************************************************************************)
(* One cluster's scan and the report's absolute rules.  RunScanners fans a *)
(* set of scanners out over a semaphore, each scanner makes its reads one  *)
(* after the other while the context may be canceled, and every result     *)
(* reaches the rules through the observation that says how far a field     *)
(* can be trusted.                                                         *)
(***************************************************************************)
EXTENDS Rules

CONSTANTS
    Batteries,   \* the sets of scanners a scan may select
    Workers      \* slots of the semaphore

ASSUME ScanningAssumption ==
    /\ Workers \in Nat \ {0}
    /\ \A b \in Batteries : b # {}

VARIABLES
    cluster,     \* [resource -> the objects of the scanned cluster]
    todo,        \* scanners RunScanners has not reached
    waiting,     \* the scanner it waits to start at the semaphore, or Nil
    outcomes,    \* [running scanner -> outcomes of its reads so far]
    results,     \* [finished scanner -> its Result]
    canceled     \* the scan's context is done

scanVars == <<cluster, todo, waiting, outcomes, results, canceled>>

\* The resources a battery reads; the others stay empty.
touched(b) == UNION {{reads[s][i].what : i \in DOMAIN reads[s]} : s \in b}

\* The map f with v stored under k.
Put(f, k, v) == [x \in DOMAIN f \cup {k} |-> IF x = k THEN v ELSE f[x]]

\* A scan of a cluster that holds the objects present.
ScanStart(battery, present) ==
    /\ todo = battery
    /\ cluster = [r \in DOMAIN Objects |-> {o \in Objects[r] : <<r, o>> \in present}]
    /\ waiting = Nil
    /\ outcomes = <<>>
    /\ results = <<>>
    /\ canceled = FALSE

ScanInit ==
    \E battery \in Batteries :
        \E present \in SUBSET UNION {{r} \X Objects[r] : r \in touched(battery)} :
            ScanStart(battery, present)

------------------------------------------------------------------------------
(* RunScanners.  The loop checks the context, then waits for a slot or for  *)
(* the context to end; when both are ready either may win.                  *)
CheckContext(s) ==
    /\ s \in todo /\ waiting = Nil /\ ~canceled
    /\ waiting' = s
    /\ todo' = todo \ {s}
    /\ UNCHANGED <<cluster, outcomes, results, canceled>>

Acquire ==
    /\ waiting # Nil /\ Num(DOMAIN outcomes) < Workers
    /\ outcomes' = Put(outcomes, waiting, <<>>)
    /\ waiting' = Nil
    /\ UNCHANGED <<cluster, todo, results, canceled>>

\* The context is done before the scanner started: an errored result stands for it.
NotAcquired(s) ==
    /\ canceled
    /\ s = waiting \/ (waiting = Nil /\ s \in todo)
    /\ results' = Put(results, s, ErroredResult)
    /\ todo' = todo \ {s}
    /\ waiting' = Nil
    /\ UNCHANGED <<cluster, outcomes, canceled>>

serviceHooks == {w \in cluster["mutating"] \cup cluster["validating"] : w.service # "none"}

LastRead(s, out) ==
    \/ Len(out) = Len(reads[s])
    \/ s \in StopsAtFirst /\ Len(out) = 1 /\ out[1] # "ok"

\* The discovery calls take no context and answer after it is done too.
contextFree == {"version", "server-groups"}

\* The next read of a running scanner ends; once the context is done it can only
\* fail, unless it takes none.  A type the server does not serve has no objects,
\* and the endpoints are only got, where NotFound is an answer, for a webhook that
\* names a service.
Read(s, o) ==
    /\ s \in DOMAIN outcomes /\ ~LastRead(s, outcomes[s])
    /\ LET what == reads[s][Len(outcomes[s]) + 1].what
       IN /\ o = "unserved" => what # "endpoints" /\ cluster[what] = {}
          /\ what = "endpoints" /\ serviceHooks = {} => o = "ok"
          /\ canceled /\ what \notin contextFree /\ ~(what = "endpoints" /\ serviceHooks = {})
                => o = "timeout"
    /\ outcomes' = [outcomes EXCEPT ![s] = Append(@, o)]
    /\ UNCHANGED <<cluster, todo, waiting, results, canceled>>

Return(s) ==
    /\ s \in DOMAIN outcomes /\ LastRead(s, outcomes[s])
    /\ results' = Put(results, s, Result(s, cluster, outcomes[s]))
    /\ outcomes' = [t \in DOMAIN outcomes \ {s} |-> outcomes[t]]
    /\ UNCHANGED <<cluster, todo, waiting, canceled>>

Cancel ==
    /\ ~canceled /\ (todo # {} \/ waiting # Nil \/ DOMAIN outcomes # {})
    /\ canceled' = TRUE
    /\ UNCHANGED <<cluster, todo, waiting, outcomes, results>>

ScanNext ==
    \/ \E s \in DOMAIN reads :
          \/ CheckContext(s) \/ NotAcquired(s) \/ Return(s)
          \/ \E o \in Outcomes : Read(s, o)
    \/ Acquire
    \/ Cancel

ScanSpec == ScanInit /\ [][ScanNext]_scanVars

ScanReturned == todo = {} /\ waiting = Nil /\ DOMAIN outcomes = {}

------------------------------------------------------------------------------
(* Properties *)

\* What the scan would have found had every read succeeded.
completeRuns ==
    [s \in DOMAIN results |-> Result(s, cluster, [i \in DOMAIN reads[s] |-> "ok"])]

\* The rules of one cluster, but the one about deprecated APIs, which
\* also counts a list it was refused.
ruledFindings(runs) == {f \in absoluteFindings(runs) : f.rule # "deprecated-apis/in-use"}

\* Scanning with forbidden, timed-out or unserved reads never claims more than
\* a scan that read everything: each finding is one the complete scan raises
\* too, at least as severe (ClassifyError, Coverage.Finish, the observation
\* each rule of findings_*.go asks for).  When RunScanners returns, every
\* scanner has a result, the ones a canceled context kept from starting too.
FindingsRestOnObservations ==
    ScanReturned =>
        /\ \E b \in Batteries : DOMAIN results = b
        /\ \A f \in ruledFindings(results) :
             \E g \in ruledFindings(completeRuns) :
                /\ g.rule = f.rule /\ Rank(g.severity) >= Rank(f.severity)
                /\ f.affected \subseteq g.affected
=============================================================================
