---------------------------- MODULE FleetReport ----------------------------
(***************************************************************************)
(* The report of one stored scan.  Build runs the norm detectors and the   *)
(* absolute rules over the clusters, collapses the findings that state one *)
(* fact twice, and derives each cluster's status and the fleet's score.    *)
(* The order of a Go map decides ties, so a scan may have several reports. *)
(*                                                                         *)
(* A scan is a record: fleet, a sequence of [runs, tag]; strays, the tags  *)
(* of clusters outside the scan; groups, the sets of clusters of the       *)
(* stored groups.  A run is [state, data, truth], truth being what a run   *)
(* without failed reads would have seen.                                   *)
(***************************************************************************)
EXTENDS Cohorts, Rules

CONSTANTS
    Scans,      \* the stored scans
    NoReport    \* not built yet

\* A stored scan has clusters, finitely many runs with their states, and counts that
\* are numbers.
ASSUME FleetAssumption ==
    \A sc \in Scans :
        /\ Len(sc.fleet) \in Nat \ {0} /\ DOMAIN sc.fleet = 1 .. Len(sc.fleet)
        /\ \A c \in DOMAIN sc.fleet :
              /\ IsFiniteSet(DOMAIN sc.fleet[c].runs)
              /\ \A s \in DOMAIN sc.fleet[c].runs : "state" \in DOMAIN sc.fleet[c].runs[s]
        /\ \A c \in DOMAIN sc.fleet :
              seen(sc.fleet[c].runs, "node-health") =>
                  /\ field(sc.fleet[c].runs, "node-health", "node_count") \in Nat
                  /\ field(sc.fleet[c].runs, "node-health", "healthy_nodes") \in Nat

VARIABLES
    scan,       \* the stored scan
    report      \* the report built of it, or NoReport

fleetVars == <<scan, report>>

------------------------------------------------------------------------------
(* Findings.  norm says whether a finding is a norm finding on field within *)
(* scope; marks are the statuses a fleet finding sets on clusters.          *)
NoField == <<"", "">>

ClusterFinding(c, s, rule, severity) ==
    [cluster |-> c, scanner |-> s, rule |-> rule, severity |-> severity, norm |-> FALSE, field |-> NoField,
     scope |-> FleetScope, marks |-> {}]

FleetFinding(s, rule, severity, marks) ==
    [ClusterFinding(0, s, rule, severity) EXCEPT !.marks = marks]

NormFinding(o, rule) ==
    [ClusterFinding(o.cluster, o.field[1], rule, o.severity)
        EXCEPT !.norm = TRUE, !.field = o.field, !.scope = o.scope]

outlierFindings(outliers, held) == {NormFinding(o, "outlier") : o \in outliers \ held}

\* An outlier already measured against the fleet is not reported twice.
cohortOutlierFindings(outliers, cohortOutliers) ==
    {NormFinding(o, "cohort-outlier") :
        o \in {o \in cohortOutliers :
                  ~\E f \in outliers : f.cluster = o.cluster /\ f.field = o.field}}

------------------------------------------------------------------------------
(* Version skew.  A version is a number whose hundreds are the minor.       *)
minorOf(v) == v \div 100

versionSkewSeverity(versions) ==
    LET minors == {minorOf(v) : v \in versions}
    IN IF Cardinality(versions) <= 1 THEN "info"
       ELSE IF Max(minors) - Min(minors) >= 2 THEN "critical"
       ELSE IF Max(minors) # Min(minors) THEN "warning" ELSE "info"

versions(fleet) ==
    [c \in {c \in DOMAIN fleet : seen(fleet[c].runs, "version")} |-> fleet[c].runs["version"].data.git_version]

\* A tie for the most common version marks no cluster.
versionMarks(vs) ==
    LET count(v) == Cardinality({c \in DOMAIN vs : vs[c] = v})
        majority == {v \in Range(vs) : \A w \in Range(vs) \ {v} : count(w) < count(v)}
    IN UNION {{[cluster |-> c, severity |-> versionSkewSeverity({v, vs[c]})] :
                  c \in {c \in DOMAIN vs : versionSkewSeverity({v, vs[c]}) # "info"}} : v \in majority}

versionFindings(fleet) ==
    LET vs == versions(fleet)
        severity == versionSkewSeverity(Range(vs))
    IN IF Uniform(fleet, "version") \/ severity = "info" THEN {}
       ELSE {FleetFinding("version", "version/skew", severity, versionMarks(vs))}

\* The count stands for the namespaces that countNonSystemNamespaces counts: the
\* clusters of the instances have no others.
namespaceFindings(fleet) ==
    LET counts == {fleet[c].runs["namespaces"].data.count :
                      c \in {c \in DOMAIN fleet : seen(fleet[c].runs, "namespaces")}}
    IN IF counts = {} \/ Max(counts) - Min(counts) <= 1 THEN {}
       ELSE {FleetFinding("namespaces", "namespaces/non-system-count-varies", "warning", {})}

rbacFindings(fleet) ==
    IF Uniform(fleet, "rbac") THEN {} ELSE {FleetFinding("rbac", "rbac/config-differs", "warning", {})}

------------------------------------------------------------------------------
(* capacity.go *)
signals(runs) ==
    LET node(f) == IF seen(runs, "node-health") THEN field(runs, "node-health", f) ELSE 0
        reasons == IF seen(runs, "events") THEN {r.reason : r \in field(runs, "events", "top_warning_reasons")} ELSE {}
        util == seen(runs, "metrics") /\ {"avg_cpu_percent", "avg_memory_percent"} \subseteq DOMAIN runs["metrics"].data
    IN [seen |-> util,
        cpu |-> IF util THEN field(runs, "metrics", "avg_cpu_percent") ELSE 0,
        mem |-> IF util THEN field(runs, "metrics", "avg_memory_percent") ELSE 0,
        pressure |-> node("memory_pressure_nodes") > 0 \/ node("disk_pressure_nodes") > 0,
        notReady |-> node("not_ready_nodes") > 0,
        failures |-> reasons \cap {"OOMKilling", "FailedScheduling"} # {}]

assessStatus(sig) ==
    LET over(percent) == sig.seen /\ (sig.mem > percent \/ sig.cpu > percent)
    IN IF (sig.pressure /\ sig.failures) \/ ((sig.notReady \/ sig.pressure) /\ over(85)) THEN "critical"
       ELSE IF sig.pressure \/ sig.failures \/ over(85) THEN "strained"
       ELSE IF over(70) THEN "busy"
       ELSE IF sig.seen THEN "healthy" ELSE "unknown"

\* Ten points or more off the median of the group's other members.
groupDeviates(fleet, c, group) ==
    LET sigs == [d \in DOMAIN fleet |-> signals(fleet[d].runs)]
        peers == {d \in group \ {c} : d \in DOMAIN fleet /\ sigs[d].seen}
        off(f) == distance(2 * sigs[c][f], Median2([d \in peers |-> sigs[d][f]])) >= 20
    IN sigs[c].seen /\ peers # {} /\ (off("mem") \/ off("cpu"))

\* The first group of two or more in the order of a Go map.
groupChoices(sc, c) ==
    LET mine == {g \in sc.groups : c \in g /\ Cardinality(g) >= 2}
    IN IF mine = {} THEN {{}} ELSE mine

capacityFindings(fleet, chosen) ==
    LET of(c) == assessStatus(signals(fleet[c].runs))
        at(status, rule, severity) ==
            {ClusterFinding(c, "metrics", rule, severity) : c \in {c \in DOMAIN fleet : of(c) = status}}
    IN at("critical", "metrics/capacity-critical", "critical")
       \cup at("strained", "metrics/capacity-degraded", "warning")
       \cup at("busy", "metrics/capacity-busy", "info")
       \cup {ClusterFinding(c, "metrics", "metrics/group-deviation", "warning") :
                c \in {c \in DOMAIN fleet : groupDeviates(fleet, c, chosen[c])}}

------------------------------------------------------------------------------
(* dropRedundant: one fact is stated once. *)

\* Where the rule fired within the scope, the cluster is off the norm too.
singles(fs, rule, f, scope, population_) ==
    \A g \in fs : ~g.norm /\ g.rule = rule /\ g.cluster \in population_ =>
        \E h \in fs : h.norm /\ h.cluster = g.cluster /\ h.field = f /\ h.scope = scope

\* The absolute findings that count f on cluster c.
counting(fs, c, f, scope, members) ==
    {g \in fs : ~g.norm /\ g.cluster = c /\ CountedBy(f) # "" /\ g.rule = CountedBy(f)
                /\ singles(fs, g.rule, f, scope, members[scope])}

countedFirst(fs, members) ==
    {f \in fs : f.norm /\ \E g \in counting(fs, f.cluster, f.field, f.scope, members) :
                              Rank(g.severity) >= Rank(f.severity)}

normOn(fs, c, target) == {g \in fs : g.norm /\ g.cluster = c /\ g.field = target}

\* Target is stated by a finding no weaker than f, which then goes.
statedBy(fs, f, target, members) ==
    \E g \in counting(fs, f.cluster, target, f.scope, members) \cup normOn(fs, f.cluster, target) :
        Rank(g.severity) >= Rank(f.severity)

\* What f drops: itself at the first target that states it, and before that the
\* weaker norm findings on the targets no rule counts.
dropsOf(fs, f, members) ==
    LET targets == RedundantWith(f.field)
        stops == {i \in DOMAIN targets : statedBy(fs, f, targets[i], members)}
        last == IF stops = {} THEN Len(targets) ELSE Min(stops) - 1
        weaker == UNION {normOn(fs, f.cluster, targets[i]) :
                            i \in {i \in 1 .. last :
                                      counting(fs, f.cluster, targets[i], f.scope, members) = {}}}
    IN weaker \cup (IF stops = {} THEN {} ELSE {f})

\* Drops without comparing severities.
DropsAnyRestated(fs, members) ==
    fs \ {f \in fs : f.norm /\ counting(fs, f.cluster, f.field, f.scope, members) # {}}

\* The second pass skips what the first has dropped.  It also skips a finding that
\* it dropped itself as the weaker one; such a finding drops no other, so the order
\* within the pass does not matter.
dropRedundant(fs, members) ==
    LET first == countedFirst(fs, members)
        later == UNION {dropsOf(fs, f, members) : f \in {f \in fs \ first : f.norm}}
    IN fs \ (first \cup later)

\* The cohort of a small fleet has the fleet's name and takes its place.
scopeMembers(fleet, cohorts) ==
    [s \in {FleetScope} \cup {k.name : k \in cohorts} |->
        IF \E k \in cohorts : k.name = s THEN (CHOOSE k \in cohorts : k.name = s).members
        ELSE DOMAIN fleet]

------------------------------------------------------------------------------
(* miscohort.go *)
minMisCohortFleet == 8

minTagPopulation == 3

\* The auto cohort most clusters of a tag are in; 0 is that of a cluster outside the scan.
dominantAuto(tags, strays, auto, t) ==
    LET count(a) == Cardinality({c \in DOMAIN tags : tags[c] = t /\ auto[c] = a})
                    + (IF a = 0 THEN Cardinality({i \in DOMAIN strays : strays[i] = t}) ELSE 0)
        all == {a \in {0} \cup Range(auto) : count(a) > 0}
    IN CHOOSE a \in all : \A b \in all : count(b) < count(a) \/ (count(b) = count(a) /\ a <= b)

detectMisCohort(tags, strays, cohorts) ==
    LET auto == [c \in DOMAIN tags |-> (CHOOSE k \in cohorts : c \in k.members).name[2]]
        population_(t) == Cardinality({c \in DOMAIN tags : tags[c] = t})
                          + Cardinality({i \in DOMAIN strays : strays[i] = t})
    IN IF Cardinality(DOMAIN tags) < minMisCohortFleet THEN {}
       ELSE {c \in DOMAIN tags : /\ tags[c] # 0 /\ population_(tags[c]) >= minTagPopulation
                                 /\ auto[c] # dominantAuto(tags, strays, auto, tags[c])}

misCohortFindings(tags, strays, cohorts) ==
    {ClusterFinding(c, "cohort", "cohort/wrong-cohort", "warning") : c \in detectMisCohort(tags, strays, cohorts)}

------------------------------------------------------------------------------
(* Coverage of the scan, status of the clusters. *)
expectedScanners(fleet) == scannerNames(fleet)

blindRuns(fleet, c) ==
    {s \in expectedScanners(fleet) :
        s \notin DOMAIN fleet[c].runs \/ fleet[c].runs[s].state = "errored"}

observedRuns(fleet, c) ==
    {s \in expectedScanners(fleet) \ blindRuns(fleet, c) : fleet[c].runs[s].state # "degraded"}

\* Every cluster has an observed run, and so have eight tenths of all runs.
clearsFloor(fleet) ==
    LET runs == (DOMAIN fleet) \X expectedScanners(fleet)
        expected == Cardinality(runs)
        observed == Cardinality({r \in runs : r[2] \in observedRuns(fleet, r[1])})
    IN /\ \A c \in DOMAIN fleet : observedRuns(fleet, c) # {}
       /\ expected = 0 \/ 10 * observed >= 8 * expected

\* The severities charged to a cluster: its findings, and the marks on it.
clusterSeverities(c, fs) ==
    {f.severity : f \in {f \in fs : f.cluster = c}}
    \cup {m.severity : m \in {m \in UNION {f.marks : f \in fs} : m.cluster = c}}

clusterStatus(fleet, c, fs) ==
    IF "critical" \in clusterSeverities(c, fs) THEN "critical"
    ELSE IF "warning" \in clusterSeverities(c, fs) THEN "degraded"
    ELSE IF blindRuns(fleet, c) # {} THEN "unknown" ELSE "healthy"

incidentThemes ==
    [admission |-> {"admission", "certs", "deprecated-apis"},
     pressure |-> {"node-health", "metrics", "events"},
     posture |-> {"workload-security", "rbac-audit", "security", "network-policies", "image-audit"}]

\* Two findings or more of one theme on one cluster, at the highest of their severities.
fuseIncidents(fs) ==
    {i \in {LET of == {f \in fs : f.cluster = c /\ f.scanner \in incidentThemes[t]}
            IN [cluster |-> c, theme |-> t, size |-> Cardinality(of),
                rank |-> IF of = {} THEN 0 ELSE Max({Rank(f.severity) : f \in of})] :
            c \in {f.cluster : f \in fs} \ {0}, t \in DOMAIN incidentThemes} : i.size >= 2}

------------------------------------------------------------------------------
(* Scores.  Costs are whole numbers of 1/Point of a point: fleets and node  *)
(* counts up to nine divide it.                                             *)
Point == 2520

\* 100 points less the cost, rounded half up and never below zero.
scoreOf(cost) == (2 * Max({0, 100 * Point - cost}) + Point) \div (2 * Point)

charge(count, per, limit) == Min({count * per, limit})

\* The findings of a severity, and the marks of it on cluster c.
charged(c, fs, severity) ==
    Cardinality({f \in fs : f.cluster = c /\ f.severity = severity})
    + Cardinality({f \in fs : [cluster |-> c, severity |-> severity] \in f.marks})

\* The share of a cluster's nodes that are not healthy, times whole.
unhealthyShare(fleet, c, whole) ==
    LET runs == fleet[c].runs
        n == IF seen(runs, "node-health") THEN field(runs, "node-health", "node_count") ELSE 0
    IN IF n = 0 THEN 0 ELSE (whole * Max({0, n - field(runs, "node-health", "healthy_nodes")})) \div n

versionSkewCost(fleet) ==
    LET severity == versionSkewSeverity(Range(versions(fleet)))
    IN IF Len(fleet) < 2 \/ severity = "info" THEN 0
       ELSE IF severity = "critical" THEN 10 * Point ELSE 3 * Point

\* The ledger: findings by severity, each capped, then the clusters' states,
\* the version skew and the worst cluster's nodes.
computeScoreAttribution(fleet, fs, status) ==
    LET count(severity) == Cardinality({f \in fs : f.severity = severity})
        share(s, cost) == Cardinality({c \in DOMAIN fleet : status[c] = s}) * ((cost * Point) \div Len(fleet))
    IN charge(count("critical"), 6 * Point, 36 * Point)
       + charge(count("warning"), 3 * (Point \div 2), 24 * Point)
       + charge(count("info"), Point \div 4, 5 * Point)
       + share("critical", 20) + share("degraded", 10)
       + versionSkewCost(fleet)
       + Max({unhealthyShare(fleet, c, 10 * Point) : c \in DOMAIN fleet})

ComputeClusterScore(fleet, c, fs, status) ==
    LET sig == signals(fleet[c].runs)
    IN scoreOf(charge(charged(c, fs, "critical"), 8 * Point, 40 * Point)
               + charge(charged(c, fs, "warning"), 2 * Point, 24 * Point)
               + (CASE status = "critical" -> 20 * Point
                    [] status \in {"degraded", "unknown"} -> 10 * Point [] OTHER -> 0)
               + unhealthyShare(fleet, c, 15 * Point)
               + (IF sig.cpu >= 85 THEN 5 * Point ELSE 0) + (IF sig.mem >= 85 THEN 5 * Point ELSE 0))

grade(score) ==
    IF score >= 90 THEN "A" ELSE IF score >= 80 THEN "B" ELSE IF score >= 70 THEN "C"
    ELSE IF score >= 60 THEN "D" ELSE "F"

------------------------------------------------------------------------------
(* Build. *)
pairwiseFleetLimit == 20

\* The findings of a build before the collapse, from the outliers found.
generated(sc, outliers, held, inCohorts, chosen) ==
    LET fleet == sc.fleet
    IN outlierFindings(outliers, held)
       \cup (IF outliers = {} \/ Len(fleet) <= pairwiseFleetLimit
             THEN versionFindings(fleet) \cup namespaceFindings(fleet) \cup rbacFindings(fleet) ELSE {})
       \cup cohortOutlierFindings(outliers, inCohorts)
       \cup capacityFindings(fleet, chosen)
       \cup UNION {UNION {{ClusterFinding(c, s, f.rule, f.severity) : f \in rulesOf(fleet[c].runs)[s]} :
                            s \in DOMAIN fleet[c].runs} : c \in DOMAIN fleet}

tagsOf(sc) == [c \in DOMAIN sc.fleet |-> sc.fleet[c].tag]

\* The report of a scan, step by step: what each step derives from the ones before it.
Build(sc, cohorts, auto, chosen) ==
    LET fleet == sc.fleet
        inTagged == {k.members : k \in {k \in cohorts : k.source = "tagged"}}
        Deviate(outliers) ==
            [outliers |-> outliers, held |-> {o \in outliers : explained(fleet, outliers, o, inTagged)},
             inCohorts |-> UNION {detect(fleet, k.members, k.name) : k \in cohorts}]
        Grade(d, before, findings, status) ==
            LET score == scoreOf(computeScoreAttribution(fleet, findings, status))
            IN [cohorts |-> cohorts, outliers |-> d.outliers, held |-> d.held, inCohorts |-> d.inCohorts,
                before |-> before, findings |-> findings, incidents |-> fuseIncidents(findings),
                status |-> status, score |-> score, graded |-> clearsFloor(fleet),
                grade |-> IF clearsFloor(fleet) THEN grade(score) ELSE "",
                clusterScores |-> [c \in DOMAIN fleet |-> ComputeClusterScore(fleet, c, findings, status[c])]]
        Judge(d, before, findings) ==
            Grade(d, before, findings, [c \in DOMAIN fleet |-> clusterStatus(fleet, c, findings)])
        Collapse(d, before) ==
            Judge(d, before, dropRedundant(before, scopeMembers(fleet, cohorts))
                             \cup misCohortFindings(tagsOf(sc), sc.strays, auto))
        Generate(d) == Collapse(d, generated(sc, d.outliers, d.held, d.inCohorts, chosen))
    IN Generate(Deviate(detect(fleet, DOMAIN fleet, FleetScope)))

FleetStart(s) ==
    /\ scan = s
    /\ report = NoReport

FleetInit == \E s \in Scans : FleetStart(s)

\* One read of the stored scan; the cohorts are assigned twice, without the tags
\* for the mis-cohort findings.
BuildReport ==
    /\ report = NoReport
    /\ LET p == profiles(scan.fleet)
       IN \E cohorts \in Assign(p, tagsOf(scan)), auto \in Assign(p, [c \in DOMAIN p |-> 0]),
            chosen \in {g \in [DOMAIN p -> UNION {groupChoices(scan, c) : c \in DOMAIN p}] :
                          \A c \in DOMAIN p : g[c] \in groupChoices(scan, c)} :
             report' = Build(scan, cohorts, auto, chosen)
    /\ UNCHANGED scan

FleetNext == BuildReport

FleetSpec == FleetInit /\ [][FleetNext]_fleetVars

------------------------------------------------------------------------------
(* Properties *)
Built == {report} \ {NoReport}

worstOf(c, fs) == Max({0} \cup {Rank(s) : s \in clusterSeverities(c, fs)})

\* Collapsing the findings that restate one another (dropRedundant, with its two
\* passes and its chains of restated fields) never makes a cluster look better:
\* the worst severity charged to it is the one before the collapse.
CollapseKeepsStatus ==
    \A r \in Built, c \in DOMAIN scan.fleet : worstOf(c, r.findings) >= worstOf(c, r.before)

\* The fleet with one run replaced.
WithRun(fleet, c, s, run) == [fleet EXCEPT ![c].runs = [@ EXCEPT ![s] = run]]

\* A graded score in the top band ("no meaningful drift") goes with no critical
\* finding and no cluster of unknown or critical health that scores as high, and
\* every score stays within 0 to 100 (scoreWithAttribution, ComputeClusterScore).
ScoresAreEarned ==
    \A r \in Built :
        /\ {r.score} \cup Range(r.clusterScores) \subseteq 0 .. 100
        /\ r.score >= 95 => \A f \in r.findings : f.severity # "critical"
        /\ \A c \in DOMAIN scan.fleet : r.status[c] \in {"critical", "unknown"} => r.clusterScores[c] < 95

\* Losing one more run never turns an ungraded fleet into a graded one
\* (fleetCoverage, clearsFloor).
LossNeverGrades ==
    \A r \in Built : \A c \in DOMAIN scan.fleet : \A s \in DOMAIN scan.fleet[c].runs :
        clearsFloor(WithRun(scan.fleet, c, s, [scan.fleet[c].runs[s] EXCEPT !.state = "errored"])) => r.graded

\* A deviation claimed on the part of a run that succeeded (boundDegraded), other
\* than one on the better side of its norm, is one of the completed run too, as severe.
PartialDeviationsHold ==
    \A r \in Built : \A o \in {o \in r.outliers : scan.fleet[o.cluster].runs[o.field[1]].state = "degraded"} :
        LET run == scan.fleet[o.cluster].runs[o.field[1]]
            full == WithRun(scan.fleet, o.cluster, o.field[1], [run EXCEPT !.state = "ok", !.data = run.truth])
            norm == Median2(population(scan.fleet, DOMAIN scan.fleet, o.field))
        IN ~Favorable(o.field, 2 * o.value - norm) =>
              \E w \in detect(full, DOMAIN full, FleetScope) :
                  w.cluster = o.cluster /\ w.field = o.field /\ Rank(w.severity) >= Rank(o.severity)

\* What a scan could not see is never good news: scores in the top band are earned,
\* losing a run never grades a fleet, and what a partial run claims holds.
ReportIsHonest == ScoresAreEarned /\ LossNeverGrades /\ PartialDeviationsHold
=============================================================================
