----------------------------- MODULE MCReports -----------------------------
(***************************************************************************)
(* From the objects of a cluster to the report of the fleet, in one state  *)
(* space: the scan of one cluster, the report of a stored scan, and the    *)
(* history of one metric.  The run picks a part and explores it; the others*)
(* stay as they started.                                                   *)
(***************************************************************************)
EXTENDS Scanning, FleetReport, Series, TLC

VARIABLE part   \* the part that runs

------------------------------------------------------------------------------
(* Scans of one cluster with up to three objects of a resource. *)
o(id, traits) == [id |-> id, is |-> traits]

node(id, traits, os) == [id |-> id, is |-> traits, os |-> os, allocatable |-> 4]

ns(id, enforce) == [id |-> id, enforce |-> enforce, is |-> {}]

pod(id, namespace, traits, user, container) ==
    [id |-> id, ns |-> namespace, is |-> traits,
     containers |-> {[id |-> "c", user |-> user, is |-> container]}]

binding(id, role, traits) == [id |-> id, role |-> role, is |-> traits]

hook(id, service, days) == [id |-> id, service |-> service, days |-> days, is |-> {"fail-closed"}]

workload(id, replicas) == [id |-> id, ns |-> "a", replicas |-> replicas, labels |-> {"app"}]

event(id, times, traits) == [id |-> id, ns |-> "a", n |-> times, is |-> traits]

ObjectsDef ==
    "nodes" :> {node("n1", {"Ready"}, "x"), node("n2", {"MemoryPressure", "PIDPressure"}, "y"),
                node("n3", {"Ready", "DiskPressure"}, "x")}
    @@ "node-metrics" :> {[id |-> "n1", used |-> 3], [id |-> "n4", used |-> 1]}
    @@ "namespaces" :> {ns("a", ""), ns("b", "privileged"), ns("c", "restricted")}
    @@ "pods" :> {pod("p1", "a", {"host-network", "no-automount"}, 0, {"privileged", "latest"}),
                  pod("p2", "b", {}, Nil, {"non-root", "no-escalation", "digest"}),
                  pod("p3", "a", {"host-pid"}, 1, {"capabilities-add", "ephemeral"})}
    @@ "network-policies" :> {[id |-> "np", ns |-> "a"]}
    @@ "resource-quotas" :> {[id |-> "q", ns |-> "a"]}
    @@ "limit-ranges" :> {[id |-> "lr", ns |-> "b"]}
    @@ "cluster-roles" :> {o("admin", {"wildcard"}), o("view", {})}
    @@ "roles" :> {o("r", {})}
    @@ "cluster-role-bindings" :> {binding("b1", "cluster-admin", {"system", "open"}),
                                   binding("b2", "admin", {"system"})}
    @@ "role-bindings" :> {binding("b3", "cluster-admin", {"default-sa"}), binding("b4", "view", {})}
    @@ "secrets" :> {[id |-> "s1", days |-> -1], [id |-> "s2", days |-> 20]}
    @@ "mutating" :> {hook("m1", "down", 5), hook("m2", "none", -2)}
    @@ "validating" :> {hook("v1", "up", Nil)}
    @@ "endpoints" :> {}
    @@ "pdbs" :> {[id |-> "d1", ns |-> "a", selector |-> {"app"}], [id |-> "d2", ns |-> "a", selector |-> Nil]}
    @@ "hpas" :> {[id |-> "h", target |-> "w1"]}
    @@ "deployments" :> {workload("w1", 2), workload("w2", 1)}
    @@ "statefulsets" :> {workload("w3", 3)}
    @@ "events" :> {event("e1", 30, {"failure"}), event("e2", 210, {}), event("e3", 1100, {"older"})}
    @@ "vulnerabilities" :> {[id |-> "v", critical |-> 2], [id |-> "w", critical |-> 0]}
    @@ "policy-reports" :> {o("pr", {"fail"})}
    @@ "cluster-policy-reports" :> {o("cpr", {"warn"})}
    @@ "server-groups" :> {o("g", {})}
    @@ "old-ingresses" :> {o("i", {})}
    @@ "old-cronjobs" :> {o("j", {})}
    @@ "version" :> {o("ver", {})}
    @@ "crds" :> {o("crd", {})}
    @@ "services" :> {o("svc", {})}
    @@ "ingresses" :> {[id |-> "ing", class |-> "nginx"], [id |-> "ing2", class |-> Nil]}

\* Every scanner alone, and the scanners that share a rule.
BatteriesDef ==
    {{s} : s \in DOMAIN reads}
    \cup {{"events", "node-health"}, {"resource-quotas", "namespaces"},
          {"image-audit", "events", "workload-security"}}

------------------------------------------------------------------------------
(* Fleets of up to eight clusters, in families: each puts a few clusters    *)
(* off a common base where one detector, rule or collapse is at work.       *)
holding(what, objs) == [r \in DOMAIN Objects |-> IF r = what THEN objs ELSE {}]

\* The run of a scanner whose reads ended with out, and what it would have read.
run(s, cluster_, out) ==
    LET got == Result(s, cluster_, out)
    IN [state |-> got.state, data |-> got.data, truth |-> Measure(s, cluster_, [i \in DOMAIN reads[s] |-> "ok"])]

ok(data) == [state |-> "ok", data |-> data, truth |-> data]

errored(data) == [state |-> "errored", data |-> NoData, truth |-> data]

Cl(runs, tag) == [runs |-> runs, tag |-> tag]

Sc(fleet) == [fleet |-> fleet, strays |-> <<>>, groups |-> {}]

n(id, traits) == [id |-> id, is |-> traits, os |-> "x", allocatable |-> 1]

\* Nodes: two healthy ones, but for two clusters.
NodeSets ==
    {{n(1, {"Ready"}), n(2, t)} : t \in {{"Ready"}, {}, {"Ready", "MemoryPressure"}, {"Ready", "DiskPressure"},
                                         {"Ready", "PIDPressure"}}}
    \cup {{n(1, {"Ready", "PIDPressure"}), n(2, {}), n(3, {"Ready"})},
          {n(1, {"Ready", "MemoryPressure"}), n(2, {"DiskPressure"})}}

healthyNodes == {n(1, {"Ready"}), n(2, {"Ready"})}

nodeRun(nodes) == "node-health" :> run("node-health", holding("nodes", nodes), <<"ok">>)

NodeScans ==
    {Sc([c \in 1 .. 8 |-> Cl(nodeRun(IF c = 8 THEN a ELSE IF c = 7 THEN b ELSE healthyNodes), 0)]) :
        a \in NodeSets, b \in NodeSets}

\* Bindings: role bindings some clusters could not list.
bindings(k, role) == {[id |-> i, role |-> role, is |-> {}] : i \in 1 .. k}

rbacRun(seenB, hiddenB, listed) ==
    LET c == [holding("cluster-role-bindings", bindings(seenB, "cluster-admin")) EXCEPT
                 !["role-bindings"] = {[b EXCEPT !.id = 10 + @] : b \in bindings(hiddenB, "cluster-admin")},
                 !["cluster-roles"] = {[id |-> "view", is |-> {}]}]
    IN "rbac-audit" :> run("rbac-audit", c, <<"ok", "ok", listed, "ok">>)

RbacScans ==
    {Sc([c \in 1 .. size |->
            Cl(CASE c = size -> rbacRun(a, h, "forbidden")
                 [] c = 2 -> rbacRun(base, h, "forbidden")
                 [] c = 1 -> rbacRun(b, 0, "ok")
                 [] OTHER -> rbacRun(base + (c % spread), 0, "ok"), 0)]) :
        a \in 0 .. 4, b \in 0 .. 3, h \in 0 .. 3, base \in 0 .. 1, spread \in 1 .. 2, size \in {4, 8}}

\* Webhooks: validating ones one cluster could not list.
hooks(k, service) == {[id |-> i, service |-> service, days |-> Nil, is |-> {}] : i \in 1 .. k}

hookRun(m, v, service, listed) ==
    LET c == [holding("mutating", hooks(m, service)) EXCEPT
                 !["validating"] = {[h EXCEPT !.id = 10 + @] : h \in hooks(v, service)}]
    IN "admission" :> run("admission", c, <<"ok", listed, "ok">>)

HookScans ==
    {Sc([c \in 1 .. size |-> Cl(IF c = 1 THEN hookRun(m, v, service, listed) ELSE hookRun(1, 2, "up", "ok"), 0)]) :
        m \in 0 .. 3, v \in 0 .. 4, service \in {"up", "down"}, listed \in {"ok", "timeout"}, size \in {4, 8}}

\* Node counts, and the tags of clusters that stand apart on purpose.
counts(k) == "resources" :> run("resources", holding("nodes", {n(i, {"Ready"}) : i \in 1 .. k}), <<"ok">>)

TagSets == {[c \in 1 .. 8 |-> IF c > 8 - k THEN 1 ELSE IF c <= j THEN 2 ELSE 0] : k \in {0, 2, 3, 5}, j \in {0, 3}}

TagScans ==
    {Sc([c \in 1 .. 8 |-> Cl(counts(CASE c = 8 -> x [] c = 7 -> y [] c = 6 -> z [] OTHER -> 1), tags[c])]) :
        x \in {1, 2, 7}, y \in {1, 2, 7}, z \in {1, 2}, tags \in TagSets}

\* Profiles that divide into small groups, and tags of clusters outside the scan.
ProfileScans ==
    {[Sc([c \in 1 .. 8 |-> Cl(counts(v[c]), IF c \in {1, 5, 6} THEN t ELSE 0)]) EXCEPT !.strays = st] :
        v \in {<<0, 0, 5, 5, 9, 9, 9, 9>>, <<1, 1, 1, 4, 4, 4, 9, 9>>, <<2, 2, 2, 2, 3, 3, 3, 3>>},
        t \in {0, 1}, st \in {<<>>, <<1, 1, 1>>}}

\* Versions, namespaces and roles in fleets of every size.
vRun(v) == "version" :> ok([git_version |-> v, minor |-> minorOf(v)])
nsRun(k) == "namespaces" :> ok([count |-> k, names |-> 1 .. k])
roleRun(k) == "rbac" :> ok([cluster_role_count |-> k, role_count |-> 0, cluster_role_binding_count |-> 1,
                            role_binding_count |-> 0])

VersionScans ==
    {Sc([c \in 1 .. size |->
            Cl(vRun(IF c = 1 THEN v ELSE IF c = 2 THEN w ELSE 2900) @@ nsRun(IF c = 1 THEN k ELSE 2)
               @@ roleRun(IF c = 1 THEN k ELSE 1), 0)]) :
        v \in {2900, 2901, 3000, 3100}, w \in {2900, 3000}, k \in {1, 4}, size \in {1, 2, 3, 5, 8}}

\* A text most clusters leave empty.
BlankScans ==
    {Sc([c \in 1 .. size |->
            Cl("version" :> ok([git_version |-> 2900, minor |-> 29, major |-> IF c \in named THEN 1 ELSE Empty]),
               IF c < 5 THEN 1 ELSE 0)]) :
        named \in {{1}, {2, 3, 4}, {6, 7, 8}}, size \in {4, 8}}

\* Scanners that need their feature installed, object arrays compared as sets.
vulnRun(available, k) == "vulnerabilities" :> ok([available |-> available, reports |-> k, critical |-> k])
crdRun(S) == "crds" :> ok([count |-> Cardinality(S), crds |-> S])

FeatureScans ==
    {Sc([c \in 1 .. 8 |-> Cl(vulnRun(c > u, IF c = 8 THEN k ELSE 0) @@ crdRun(IF c = 8 THEN S ELSE {1, 2}), 0)]) :
        u \in {0, 1, 6}, k \in {0, 3}, S \in SUBSET {1, 2}}

\* Utilisation, pressure and failure events, and the groups to compare with.
useRun(cpu, mem) == "metrics" :> ok([avg_cpu_percent |-> cpu, avg_memory_percent |-> mem])
eventRun(k, reason) ==
    "events" :> run("events", holding("events", {[id |-> 1, ns |-> "a", n |-> k, is |-> {reason}]}), <<"ok">>)

CapacityScans ==
    {[Sc(<<Cl(useRun(cpu, mem) @@ nodeRun(nodes) @@ eventRun(k, reason), 0),
           Cl(useRun(40, 40) @@ nodeRun(healthyNodes), 0), Cl(useRun(60, 60), 0), Cl(useRun(42, 40), 0)>>)
        EXCEPT !.groups = gs] :
        cpu \in {40, 75, 90}, mem \in {50}, nodes \in NodeSets, k \in {1, 12, 45}, reason \in {"OOMKilling", "BackOff"},
        gs \in {{}, {{1, 2}, {1, 3}}, {{1}, {2, 3, 4}}}}

\* Runs that were lost, or never made.
LostScans ==
    {Sc([c \in 1 .. 3 |->
            Cl((IF <<c, 1>> \in lost THEN "version" :> errored([git_version |-> 2900, minor |-> 29]) ELSE vRun(2900))
               @@ (IF <<c, 2>> \in lost THEN (IF c = 3 THEN <<>> ELSE "namespaces" :> errored([count |-> 2])) ELSE nsRun(2))
               @@ counts(IF c = 1 THEN 3 ELSE 2) @@ rbacRun(0, IF c = 1 THEN 1 ELSE 0, IF <<c, 3>> \in lost THEN "timeout" ELSE "ok"), 0)]) :
        lost \in SUBSET ((1 .. 3) \X (1 .. 3))}

ScansDef ==
    NodeScans \cup RbacScans \cup HookScans \cup TagScans \cup ProfileScans \cup VersionScans \cup BlankScans
    \cup FeatureScans \cup CapacityScans \cup LostScans

------------------------------------------------------------------------------
\* Metric and score, with the flag of the metric's value and the finding on it.
ObservationsDef ==
    {Observation(0, FALSE, FALSE, 100), Observation(1, FALSE, FALSE, 80),
     Observation(4, TRUE, TRUE, 60), Observation(4, TRUE, FALSE, 40),
     Observation(Unread, FALSE, FALSE, Unread)}

CadencesDef == {<<1, 1, 1, 1, 1, 1, 1>>, <<1, 1, 4, 1, 2, 1, 3>>}

vars == <<scanVars, fleetVars, seriesVars, part>>

\* Only the part that runs takes more than one initial state.
Init ==
    /\ part \in {"scan", "report", "series"}
    /\ IF part = "scan" THEN ScanInit ELSE ScanStart({"version"}, {})
    /\ IF part = "report" THEN FleetInit ELSE FleetStart(Sc(<<>>))
    /\ IF part = "series" THEN SeriesInit ELSE SeriesStart(<<>>)

Next ==
    /\ UNCHANGED part
    /\ \/ /\ part = "scan" /\ ScanNext
          /\ UNCHANGED <<fleetVars, seriesVars>>
       \/ /\ part = "report" /\ FleetNext
          /\ UNCHANGED <<scanVars, seriesVars>>
       \/ /\ part = "series" /\ SeriesNext
          /\ UNCHANGED <<scanVars, fleetVars>>

Spec == Init /\ [][Next]_vars
=============================================================================
