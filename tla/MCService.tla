----------------------------- MODULE MCService -----------------------------
(***************************************************************************)
(* The parts of a serving process that share no state, in one state space: *)
(* the run picks a part and explores it; the others stay as they started.  *)
(***************************************************************************)
EXTENDS Migrations, Access, EventBus, RateLimiter, ReportService, Listing, TLC

CONSTANTS kAdmin, kTeam

VARIABLE part   \* the part that runs

KeysDef == {kAdmin, kTeam}
RolesDef == (kAdmin :> "admin") @@ (kTeam :> "operator")
ScopesDef == (kAdmin :> {Wildcard}) @@ (kTeam :> {Group})
BudgetDef == ("r" :> 2) @@ ("w" :> 0)

\* Texts: the clusters "a", "b" and "a+b", a tag value and a group.
a == <<97>>
b == <<98>>
aPlusB == a \o <<Plus>> \o b
x == <<120>>
g == <<103>>
ClustersDef == {a}
NamesDef == {a, b, aPlusB}
ListsDef == {{a, b}, {aPlusB}}
MembersDef == {a, b}
TagValuesDef == {x}
GroupsDef == {g}

\* Options with these tags and groups, and every set of them with two clusters, two
\* values and two groups.
options(ts, gs) == [threshold |-> "default", tags |-> ts, groups |-> gs]
maps(D, T) == UNION {[S -> T] : S \in SUBSET D}
smallOptions == {options(ts, gs) : ts \in maps({a, b}, {<<>>, x}), gs \in maps({g, a}, SUBSET {a, b})}

\* optionsKey tells plain options apart, with empty values and empty groups too; with
\* separators in a value or a name it does not: {a: "x,b=x"} and {a: "x", b: "x"}
\* have one key, and so have the groups {a, b} and {"a+b"}.
ASSUME KeysTellPlainOptions ==
    /\ \A o \in smallOptions : Plain(o)
    /\ Cardinality({optionsKey(o) : o \in smallOptions}) = Cardinality(smallOptions)

ASSUME KeysCollide ==
    /\ LET xbx == x \o <<Comma>> \o b \o <<Equals>> \o x
       IN  optionsKey(options(a :> xbx, <<>>)) = optionsKey(options(a :> x @@ b :> x, <<>>))
    /\ optionsKey(options(<<>>, g :> {a, b})) = optionsKey(options(<<>>, g :> {aPlusB}))

Symmetry == Permutations(Requests)

vars == <<migVars, accessVars, busVars, rateVars, reportVars, listVars, part>>

\* Only the part that runs takes more than one initial state.
Init ==
    /\ part \in {"migrations", "access", "events", "rate", "reports", "list"}
    /\ MigrationsInit /\ AccessInit /\ BusInit /\ RateInit /\ ReportInit /\ ListInit
    /\ part # "migrations" => dialect = "sqlite"
    /\ part # "access" => auth = "none"
    /\ part # "list" => stored = {}

Next ==
    /\ UNCHANGED part
    /\ \/ /\ part = "migrations" /\ MigrationsNext
          /\ UNCHANGED <<accessVars, busVars, rateVars, reportVars, listVars>>
       \/ /\ part = "access" /\ AccessNext
          /\ UNCHANGED <<migVars, busVars, rateVars, reportVars, listVars>>
       \/ /\ part = "events" /\ BusNext
          /\ UNCHANGED <<migVars, accessVars, rateVars, reportVars, listVars>>
       \/ /\ part = "rate" /\ RateNext
          /\ UNCHANGED <<migVars, accessVars, busVars, reportVars, listVars>>
       \/ /\ part = "reports" /\ ReportNext
          /\ UNCHANGED <<migVars, accessVars, busVars, rateVars, listVars>>
       \/ /\ part = "list" /\ ListNext
          /\ UNCHANGED <<migVars, accessVars, busVars, rateVars, reportVars>>

Spec == Init /\ [][Next]_vars

\* Every variable of the part that runs keeps its type.
ServiceTypeOK ==
    CASE part = "migrations" -> MigrationsTypeOK
      [] part = "access" -> AccessTypeOK
      [] part = "events" -> BusTypeOK
      [] part = "rate" -> RateTypeOK
      [] part = "reports" -> ReportTypeOK
      [] part = "list" -> ListTypeOK
=============================================================================
