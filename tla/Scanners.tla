------------------------------ MODULE Scanners ------------------------------
(***************************************************************************)
(* The scanners: the API reads each makes on a cluster, how their outcomes *)
(* fold into a Coverage, and what it measures from the lists it got.       *)
(*                                                                         *)
(* An object of the cluster is a record whose field `is' holds what the    *)
(* scanners test on it.  A payload keeps the numbers and lists the rules   *)
(* of the report read; labels, messages and manifests are left out, and so *)
(* are the caps on the lists (TopN), which the instances stay below.       *)
(***************************************************************************)
EXTENDS Integers, Sequences, FiniteSets, FiniteSetsExt, SequencesExt

CONSTANTS
    Objects,     \* [resource -> the objects a cluster may hold of it]
    Nil          \* no value

------------------------------------------------------------------------------
(* The reads of each scanner, in order.  A required read is one the result  *)
(* cannot be reported without; the run of a scanner in StopsAtFirst ends    *)
(* when its first read fails.                                               *)
Observe(what) == [what |-> what, required |-> FALSE]

Require(what) == [what |-> what, required |-> TRUE]

\* Scanners that read one list of their own.
ownList == {"events", "vulnerabilities", "version", "crds", "services", "ingresses"}

scannerReads(s) ==
    CASE s \in {"node-health", "cluster-info", "resources"} -> <<Observe("nodes")>>
      [] s \in {"namespaces", "security"} -> <<Observe("namespaces")>>
      [] s \in {"workload-security", "image-audit"} -> <<Observe("pods")>>
      [] s \in ownList -> <<Observe(s)>>
      [] s = "metrics" -> <<Observe("node-metrics"), Observe("nodes")>>
      [] s = "network-policies" -> <<Require("network-policies"), Require("namespaces")>>
      [] s = "resource-quotas" -> <<Require("resource-quotas"), Require("limit-ranges")>>
      [] s = "rbac" -> <<Require("cluster-roles"), Require("roles"),
                         Require("cluster-role-bindings"), Require("role-bindings")>>
      [] s = "rbac-audit" -> <<Require("cluster-roles"), Require("cluster-role-bindings"),
                               Observe("role-bindings"), Observe("pods")>>
      [] s = "certs" -> <<Observe("secrets"), Observe("mutating"), Observe("validating")>>
      [] s = "admission" -> <<Observe("mutating"), Observe("validating"), Observe("endpoints")>>
      [] s = "workload-coverage" -> <<Observe("pdbs"), Observe("hpas"),
                                      Observe("deployments"), Observe("statefulsets")>>
      [] s = "policy-reports" -> <<Observe("policy-reports"), Observe("cluster-policy-reports")>>
      [] s = "deprecated-apis" -> <<Observe("server-groups"), Observe("old-ingresses"),
                                    Observe("old-cronjobs")>>

\* buildRegistry.
scanners ==
    {"node-health", "cluster-info", "resources", "namespaces", "security", "workload-security", "image-audit",
     "metrics", "network-policies", "resource-quotas", "rbac", "rbac-audit", "certs", "admission",
     "workload-coverage", "policy-reports", "deprecated-apis"} \cup ownList

reads == [s \in scanners |-> scannerReads(s)]

\* Every read is of a resource of the cluster, which holds finitely many objects of it.
ASSUME ScannersAssumption ==
    /\ Nil \notin scanners
    /\ \A s \in scanners : \A i \in DOMAIN reads[s] : reads[s][i].what \in DOMAIN Objects
    /\ \A r \in DOMAIN Objects : IsFiniteSet(Objects[r])

\* The payload of a run that has none: no field.
NoData == <<>>

StopsAtFirst == {"metrics", "workload-security", "image-audit", "deprecated-apis"}

Outcomes == {"ok", "unserved", "forbidden", "timeout"}

\* Forbidden taken for an absent type, as a permissive classification would.
ForbiddenIsAbsent(o) ==
    IF o \in {"unserved", "forbidden"} THEN "unavailable" ELSE "errored"

ClassifyError(o) == IF o = "unserved" THEN "unavailable" ELSE "errored"

\* The discovery before the lists of removed APIs measures nothing, so only its
\* failure is observed, and a list the server does not serve is skipped.
Observed(s, i, o) == s = "deprecated-apis" => o # (IF i = 1 THEN "ok" ELSE "unserved")

\* The Coverage of a run, finished: how far its data can be trusted.
Finish(s, out) ==
    LET seen == {i \in DOMAIN out : Observed(s, i, out[i])}
        ok == {i \in seen : out[i] = "ok"}
        failed == seen \ ok
        missing == {i \in failed : ClassifyError(out[i]) # "unavailable"}
        blind == \E i \in missing : reads[s][i].required
    IN IF blind THEN "errored"
       ELSE IF failed = {} \/ (missing = {} /\ ok # {}) THEN "ok"
       ELSE IF missing = {} THEN "unavailable"
       ELSE IF ok # {} THEN "degraded" ELSE "errored"

------------------------------------------------------------------------------
(* What each scanner measures from the lists it got; l[r] is the set of     *)
(* objects of resource r it read, empty when the read failed.               *)
With(S, t) == {o \in S : t \in o.is}

Without(S, t) == {o \in S : t \notin o.is}

Num(S) == Cardinality(S)

Total(S, f) == MapThenSumSet(LAMBDA o : o[f], S)

pressures == {"MemoryPressure", "DiskPressure", "PIDPressure", "NetworkUnavailable"}

nodeHealth(nodes) ==
    LET healthy == {n \in nodes : "Ready" \in n.is /\ n.is \cap pressures = {}}
    IN [node_count |-> Num(nodes), nodes |-> nodes,
        healthy_nodes |-> Num(healthy), unhealthy_nodes |-> Num(nodes \ healthy),
        memory_pressure_nodes |-> Num(With(nodes, "MemoryPressure")),
        disk_pressure_nodes |-> Num(With(nodes, "DiskPressure")),
        pid_pressure_nodes |-> Num(With(nodes, "PIDPressure")),
        unschedulable_nodes |-> Num(With(nodes, "Unschedulable")),
        not_ready_nodes |-> Num(Without(nodes, "Ready"))]

clusterInfo(nodes) ==
    [node_count |-> Num(nodes), has_drift |-> Num({n.os : n \in nodes}) > 1]

resources(nodes) ==
    [node_count |-> Num(nodes), ready_nodes |-> Num(With(nodes, "Ready")),
     unschedulable_nodes |-> Num(With(nodes, "Unschedulable")),
     total_allocatable |-> Total(nodes, "allocatable")]

\* Usage, of memory, is known only for a node the node list gives an allocatable amount for.
metrics(usage, nodes) ==
    LET known == {u \in usage : u.used > 0 /\ \E n \in nodes : n.id = u.id /\ n.allocatable > 0}
        percent(u) == (u.used * 100) \div (CHOOSE n \in nodes : n.id = u.id).allocatable
    IN [node_count |-> Num(usage), nodes_with_usage |-> Num(known),
        avg_memory_percent |-> IF known = {} THEN Nil
                               ELSE MapThenSumSet(percent, known) \div Num(known),
        max_memory_percent |-> IF known = {} THEN Nil ELSE Max({percent(u) : u \in known})]

namespaces(ns) == [count |-> Num(ns), names |-> {n.id : n \in ns}]

security(ns) ==
    [namespace_count |-> Num(ns), namespaces |-> ns,
     enforced_count |-> Num({n \in ns : n.enforce \notin {"", "privileged"}}),
     unenforced_count |-> Num({n \in ns : n.enforce \in {"", "privileged"}})]

networkPolicies(policies, ns) ==
    LET withPolicy == {p.ns : p \in policies}
    IN [count |-> Num(policies), namespaces_with_policies |-> Num(withPolicy),
        namespaces_without_policies |-> Num(ns) - Num(withPolicy)]

resourceQuotas(quotas, ranges) ==
    [quota_count |-> Num(quotas), limit_range_count |-> Num(ranges),
     namespaces_with_quotas |-> Num({q.ns : q \in quotas})]

rbac(roles, rs, bindings, rbs) ==
    [cluster_role_count |-> Num(roles), role_count |-> Num(rs),
     cluster_role_binding_count |-> Num(bindings), role_binding_count |-> Num(rbs)]

\* A binding is the system's by its label or name, never when it opens the API
\* to anonymous subjects.
isSystemBinding(b) == "system" \in b.is /\ "open" \notin b.is

\* A role has at most one rule with a wildcard here.
rbacAudit(roles, bindings, rbs, pods) ==
    LET wildcard == With(roles, "wildcard")
        risks(b) ==
            (IF b.role = "cluster-admin" /\ ~isSystemBinding(b) THEN {"cluster-admin-to-non-system"} ELSE {})
            \cup (IF "default-sa" \in b.is THEN {"grants-to-default-sa"} ELSE {})
            \cup (IF b.role \in {r.id : r \in wildcard} /\ ~isSystemBinding(b) THEN {"wildcard-role"} ELSE {})
        all == bindings \cup rbs
        risky(r) == {b \in all : r \in risks(b)}
    IN [cluster_admin_bindings |-> Num(risky("cluster-admin-to-non-system")),
        wildcard_rules |-> Num(wildcard),
        default_sa_bindings |-> Num(risky("grants-to-default-sa")),
        role_bindings_audited |-> Num(rbs),
        automount_token_pods |-> Num(Without(pods, "no-automount")),
        risk_bindings |-> {[id |-> b.id, risks |-> risks(b)] : b \in {b \in all : risks(b) # {}}}]

\* The certificates in the order they are appended, and the fewest days left.
soonestDays(days) ==
    FoldLeft(LAMBDA soonest, d : IF soonest = -1 \/ d < soonest THEN d ELSE soonest, -1, days)

certs(secrets, mutating, validating) ==
    LET bundles(S) == {w \in S : w.days # Nil}
        all == secrets \cup bundles(mutating) \cup bundles(validating)
        list == SetToSeq(secrets) \o SetToSeq(bundles(mutating)) \o SetToSeq(bundles(validating))
    IN [total_certs |-> Num(all), certs |-> all,
        critical |-> Num({c \in all : c.days < 7}),
        warning |-> Num({c \in all : c.days \in 7 .. 29}),
        info |-> Num({c \in all : c.days \in 30 .. 89}),
        soonest_days |-> soonestDays([i \in DOMAIN list |-> list[i].days])]

\* endpointsHealthy is read per webhook, here with one outcome for all of them;
\* when that read fails their health is unknown.
admission(webhooks, known) ==
    LET entry(w) == [id |-> w.id, service |-> w.service # "none",
                     healthy |-> known /\ w.service = "up", unknown |-> ~known,
                     ca_days |-> IF w.days = Nil THEN -1 ELSE w.days]
        list == {entry(w) : w \in webhooks}
    IN [total_webhooks |-> Num(list), webhooks |-> list,
        unhealthy_webhooks |-> Num({e \in list : e.service /\ ~e.unknown /\ ~e.healthy}),
        expiring_ca_bundles |-> Num({e \in list : e.ca_days \in 0 .. 29}),
        fail_closed_webhooks |-> Num(With(webhooks, "fail-closed"))]

pdbMatches(pdbs, w) == \E p \in pdbs : p.ns = w.ns /\ p.selector # Nil /\ p.selector \subseteq w.labels

workloadCoverage(pdbs, pdbOK, hpas, hpaOK, workloads) ==
    LET replicated == {w \in workloads : w.replicas > 1}
        cover(w) == [id |-> w.id, has_pdb |-> ~pdbOK \/ pdbMatches(pdbs, w),
                     has_hpa |-> ~hpaOK \/ \E h \in hpas : h.target = w.id]
        all == {cover(w) : w \in replicated}
    IN [total_replicated |-> Num(replicated),
        missing_pdb |-> Num({c \in all : ~c.has_pdb}),
        missing_hpa |-> Num({c \in all : ~c.has_hpa}),
        gaps |-> {c \in all : ~c.has_pdb \/ ~c.has_hpa}]

\* What the pod and container security contexts settle about the user.
RootStatus(c) ==
    CASE c.user = 0 -> "root"
      [] c.user # 0 /\ ("non-root" \in c.is \/ c.user # Nil) -> "non-root"
      [] OTHER -> "unknown"

AllowsPrivilegeEscalation(c) ==
    "no-escalation" \notin c.is \/ c.is \cap {"privileged", "sys-admin"} # {}

containersOf(pods) == UNION {{[c EXCEPT !.id = <<p.id, @>>] : c \in p.containers} : p \in pods}

podOf(pods, c) == CHOOSE p \in pods : p.id = c.id[1]

workloadSecurity(pods) ==
    LET all == containersOf(pods)
        baseline == Without(all, "ephemeral")
        host(c) == podOf(pods, c).is \cap {"host-network", "host-pid", "host-ipc"}
        risks(c) ==
            host(c) \cup (c.is \cap {"privileged", "capabilities-add"})
            \cup (IF RootStatus(c) = "root" THEN {"runs-as-root"} ELSE {})
            \cup (IF AllowsPrivilegeEscalation(c) THEN {"allow-privilege-escalation"} ELSE {})
            \cup (IF "read-only" \in c.is THEN {} ELSE {"writable-root-fs"})
        high == {c \in all : risks(c) \ {"runs-as-root", "writable-root-fs"} # {}}
    IN [total_pods |-> Num(pods), baseline_containers |-> Num(baseline),
        host_network_pods |-> Num(With(pods, "host-network")),
        host_pid_pods |-> Num(With(pods, "host-pid")),
        privileged_containers |-> Num(With(all, "privileged")),
        run_as_root_containers |-> Num({c \in baseline : RootStatus(c) = "root"}),
        capability_additions |-> Num(With(all, "capabilities-add")),
        high_risk_pods |-> {[id |-> c.id, ns |-> podOf(pods, c).ns, risks |-> risks(c)] : c \in high}]

imageAudit(pods) ==
    LET all == Without(containersOf(pods), "ephemeral")
        risks(c) == (IF "latest" \in c.is THEN {"latest-or-no-tag"} ELSE {})
                    \cup (IF "digest" \in c.is THEN {} ELSE {"no-digest-pin"})
    IN [total_containers |-> Num(all), latest_tag |-> Num(With(all, "latest")),
        no_digest |-> Num(Without(all, "digest")),
        image_risks |-> {[id |-> c.id, ns |-> podOf(pods, c).ns, risks |-> risks(c)] :
                            c \in {c \in all : risks(c) # {}}}]

\* A warning older than the window of an hour is dropped.  An object of the
\* list stands for n events of one reason in one namespace.
events(list) ==
    LET recent == Without(list, "older")
    IN [warning_events |-> Total(recent, "n"), recent_warnings |-> recent,
        top_warning_reasons |-> {[reason |-> t, n |-> Total(With(recent, t), "n")] :
                                    t \in UNION {e.is : e \in recent}}]

vulnerabilities(list, ok) ==
    [available |-> ok, reports |-> Num(list), critical |-> Total(list, "critical")]

\* A report has one result that fails or warns, or none, here.
policyReports(ns, cl, ok) ==
    [available |-> ok, reports |-> Num(ns), cluster_reports |-> Num(cl),
     total_fail |-> Num(With(ns \cup cl, "fail")), total_warn |-> Num(With(ns \cup cl, "warn"))]

\* A list the server forbids keeps an entry without instances.
deprecatedAPIs(l, out) ==
    LET entry(i, what) == [id |-> what, forbidden |-> out[i] = "forbidden", instances |-> Num(l[what])]
        all == {entry(i, reads["deprecated-apis"][i].what) : i \in (DOMAIN out) \ {1}}
    IN [deprecated |-> {e \in all : e.forbidden \/ e.instances > 0},
        total_instances |-> Total(all, "instances")]

\* The server's version, when it told one.
version(info) == [git_version |-> IF info = {} THEN Nil ELSE (CHOOSE v \in info : TRUE).id]

crds(list) == [count |-> Num(list), crds |-> {o.id : o \in list}]

services(list) == [count |-> Num(list), services |-> {o.id : o \in list}]

\* An ingress may name no class.
ingresses(list) == [count |-> Num(list), ingresses |-> {o.class : o \in list}]

\* The resources a run with the outcomes out has read, and the lists it has of them.
gotten(s, out) == {reads[s][i].what : i \in {i \in DOMAIN out : out[i] = "ok"}}

lists(cluster, got) == [r \in DOMAIN Objects |-> IF r \in got THEN cluster[r] ELSE {}]

\* The payload of a run on the cluster whose reads ended with the outcomes out.
Measure(s, cluster, out) ==
    LET got == gotten(s, out)
        l == lists(cluster, got)
    IN CASE s = "node-health" -> nodeHealth(l["nodes"])
         [] s = "cluster-info" -> clusterInfo(l["nodes"])
         [] s = "resources" -> resources(l["nodes"])
         [] s = "metrics" -> metrics(l["node-metrics"], l["nodes"])
         [] s = "namespaces" -> namespaces(l["namespaces"])
         [] s = "security" -> security(l["namespaces"])
         [] s = "network-policies" -> networkPolicies(l["network-policies"], l["namespaces"])
         [] s = "resource-quotas" -> resourceQuotas(l["resource-quotas"], l["limit-ranges"])
         [] s = "rbac" -> rbac(l["cluster-roles"], l["roles"], l["cluster-role-bindings"], l["role-bindings"])
         [] s = "rbac-audit" -> rbacAudit(l["cluster-roles"], l["cluster-role-bindings"],
                                          l["role-bindings"], l["pods"])
         [] s = "certs" -> certs(l["secrets"], l["mutating"], l["validating"])
         [] s = "admission" -> admission(l["mutating"] \cup l["validating"], "endpoints" \in got)
         [] s = "workload-coverage" ->
                workloadCoverage(l["pdbs"], "pdbs" \in got, l["hpas"], "hpas" \in got,
                                 l["deployments"] \cup l["statefulsets"])
         [] s = "workload-security" -> IF got = {} THEN NoData ELSE workloadSecurity(l["pods"])
         [] s = "image-audit" -> imageAudit(l["pods"])
         [] s = "events" -> events(l["events"])
         [] s = "vulnerabilities" -> vulnerabilities(l["vulnerabilities"], got # {})
         [] s = "policy-reports" -> policyReports(l["policy-reports"], l["cluster-policy-reports"], got # {})
         [] s = "deprecated-apis" -> deprecatedAPIs(l, out)
         [] s = "version" -> version(l["version"])
         [] s = "crds" -> crds(l["crds"])
         [] s = "services" -> services(l["services"])
         [] s = "ingresses" -> ingresses(l["ingresses"])

ErroredResult == [state |-> "errored", data |-> NoData]

\* What RunScanners keeps of a run: an error leaves no payload.
Result(s, cluster, out) ==
    LET state == Finish(s, out)
    IN IF state = "errored" \/ (s = "version" /\ state # "ok")
       THEN ErroredResult ELSE [state |-> state, data |-> Measure(s, cluster, out)]
=============================================================================
