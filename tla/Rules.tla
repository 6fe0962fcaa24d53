------------------------------- MODULE Rules -------------------------------
(***************************************************************************)
(* The absolute rules of a report: what each may read of a cluster's runs  *)
(* (observe.go) and the findings it raises on that cluster.                *)
(***************************************************************************)
EXTENDS Scanners

(* observe.go: what a rule may read of a result.  runs is [scanner -> Result].*)
clusterView(runs, s) ==
    IF s \notin DOMAIN runs \/ runs[s].state = "errored" \/ runs[s].data = NoData
    THEN "unobserved"
    ELSE IF runs[s].state = "degraded" THEN "partial" ELSE "observed"

seen(runs, s) == clusterView(runs, s) # "unobserved"

field(runs, s, f) == runs[s].data[f]

Rank(severity) == CASE severity = "critical" -> 3 [] severity = "warning" -> 2 [] OTHER -> 1

\* The findings of one rule: one when cond holds, none otherwise.
Raise(cond, rule, severity, affected) ==
    IF cond THEN {[rule |-> rule, severity |-> severity, affected |-> affected]} ELSE {}

ids(S) == {o.id : o \in S}

risky(S, tag) == ids({o \in S : tag \in o.risks})

nodeHealthFindings(runs) ==
    IF ~seen(runs, "node-health") THEN {} ELSE
    LET d == runs["node-health"].data
    IN Raise(d.memory_pressure_nodes > 0, "node-health/memory-pressure", "critical",
             ids(With(d.nodes, "MemoryPressure")))
       \cup Raise(d.disk_pressure_nodes > 0, "node-health/disk-pressure", "warning",
                  ids(With(d.nodes, "DiskPressure")))
       \cup Raise(d.not_ready_nodes > 0, "node-health/not-ready", "critical", ids(Without(d.nodes, "Ready")))

\* Zero quotas is an absence claim, so it needs a completed run.
quotaFindings(runs) ==
    Raise(/\ clusterView(runs, "resource-quotas") = "observed" /\ seen(runs, "namespaces")
          /\ field(runs, "namespaces", "count") > 0
          /\ field(runs, "resource-quotas", "namespaces_with_quotas") = 0,
          "resource-quotas/no-quota", "warning", {})

\* Without an observed node count only the absolute thresholds apply.
eventFindings(runs) ==
    IF ~seen(runs, "events") \/ field(runs, "events", "warning_events") = 0 THEN {} ELSE
    LET n == field(runs, "events", "warning_events")
        over(perNode) == seen(runs, "node-health")
                         /\ n > perNode * Max({1, field(runs, "node-health", "node_count")})
    IN Raise(TRUE, "events/warning-volume",
             IF over(20) \/ n > 1000 THEN "critical"
             ELSE IF over(5) \/ n > 200 THEN "warning" ELSE "info", {})

\* Namespaces without a label are charged, those set to privileged only listed.
securityFindings(runs) ==
    IF ~seen(runs, "security") THEN {} ELSE
    LET d == runs["security"].data
        unlabeled == {n \in d.namespaces : n.enforce = ""}
        privileged == {n \in d.namespaces : n.enforce = "privileged"}
        all == Num(unlabeled) = d.namespace_count
    IN Raise(unlabeled # {} /\ (all => clusterView(runs, "security") = "observed"),
             "security/psa-unenforced",
             IF 2 * Num(unlabeled) > d.namespace_count THEN "critical" ELSE "warning",
             ids(unlabeled \cup privileged))

networkFindings(runs) ==
    Raise(clusterView(runs, "network-policies") = "observed"
          /\ field(runs, "network-policies", "namespaces_without_policies") > 0,
          "network-policies/no-policy", "warning", {})

workloadSecFindings(runs) ==
    IF ~seen(runs, "workload-security") THEN {} ELSE
    LET d == runs["workload-security"].data
        high(tag) == risky(d.high_risk_pods, tag)
    IN Raise(d.privileged_containers > 0, "workload-security/privileged", "critical", high("privileged"))
       \cup Raise(d.host_network_pods > 0 \/ d.host_pid_pods > 0, "workload-security/host-namespaces",
                  "warning", high("host-network") \cup high("host-pid"))
       \cup Raise(d.run_as_root_containers > 0 /\ d.total_pods > 0, "workload-security/run-as-root",
                  IF 2 * d.run_as_root_containers > d.total_pods THEN "warning" ELSE "info", {})
       \cup Raise(d.capability_additions > 0, "workload-security/capability-add", "warning",
                  high("capabilities-add"))

rbacAuditFindings(runs) ==
    IF ~seen(runs, "rbac-audit") THEN {} ELSE
    LET d == runs["rbac-audit"].data
    IN Raise(d.cluster_admin_bindings > 0, "rbac-audit/cluster-admin-binding", "critical",
             risky(d.risk_bindings, "cluster-admin-to-non-system"))
       \cup Raise(d.wildcard_rules > 0, "rbac-audit/wildcard-rule", "warning", {})
       \cup Raise(d.default_sa_bindings > 0, "rbac-audit/default-sa-binding", "warning",
                  risky(d.risk_bindings, "grants-to-default-sa"))

certFindings(runs) ==
    IF ~seen(runs, "certs") THEN {} ELSE
    LET list == field(runs, "certs", "certs")
        critical == {c \in list : c.days < 7}
        warning == {c \in list : c.days \in 7 .. 29}
    IN Raise(critical # {}, "certs/expiring-7d", "critical", ids(critical))
       \cup Raise(warning # {}, "certs/expiring-30d", "warning", ids(warning))

admissionFindings(runs) ==
    IF ~seen(runs, "admission") THEN {} ELSE
    LET list == field(runs, "admission", "webhooks")
        unhealthy == {e \in list : e.service /\ ~e.unknown /\ ~e.healthy}
        expiring == {e \in list : e.ca_days \in 0 .. 29}
    IN Raise(unhealthy # {}, "admission/no-healthy-endpoints", "critical", ids(unhealthy))
       \cup Raise(expiring # {}, "admission/ca-expiring", "warning", ids(expiring))

vulnerabilityFindings(runs) ==
    Raise(seen(runs, "vulnerabilities") /\ field(runs, "vulnerabilities", "available")
          /\ field(runs, "vulnerabilities", "critical") > 0,
          "vulnerabilities/critical-present", "info", {})

deprecatedAPIFindings(runs) ==
    IF ~seen(runs, "deprecated-apis") THEN {} ELSE
    LET list == field(runs, "deprecated-apis", "deprecated")
    IN Raise(list # {}, "deprecated-apis/in-use", "warning", ids(list))

clusterInfoFindings(runs) ==
    Raise(seen(runs, "cluster-info") /\ field(runs, "cluster-info", "has_drift"),
          "cluster-info/node-platform-drift", "warning", {})

imageAuditFindings(runs) ==
    IF ~seen(runs, "image-audit") THEN {} ELSE
    LET d == runs["image-audit"].data
    IN Raise(d.latest_tag > 0, "image-audit/latest-tag", "warning", risky(d.image_risks, "latest-tag"))
       \cup Raise(d.no_digest > 0 /\ d.total_containers > 0, "image-audit/no-digest",
                  IF 100 * d.no_digest > 80 * d.total_containers THEN "warning" ELSE "info", {})

coverageFindings(runs) ==
    IF clusterView(runs, "workload-coverage") # "observed" THEN {} ELSE
    LET gaps == field(runs, "workload-coverage", "gaps")
        missing(f) == {g \in gaps : ~g[f]}
    IN Raise(missing("has_pdb") # {}, "workload-coverage/missing-pdb", "warning", ids(missing("has_pdb")))
       \cup Raise(missing("has_hpa") # {}, "workload-coverage/missing-hpa", "info", ids(missing("has_hpa")))

\* A namespace where image risks, failure events and workload risks overlap.
compositeBadDeployFindings(runs) ==
    LET namespacesWith(s, f) == IF seen(runs, s) THEN {o.ns : o \in field(runs, s, f)} ELSE {}
        failing == IF seen(runs, "events")
                   THEN {e.ns : e \in With(field(runs, "events", "recent_warnings"), "failure")} ELSE {}
        overlap == namespacesWith("image-audit", "image_risks") \cap failing
                   \cap namespacesWith("workload-security", "high_risk_pods")
    IN Raise({"image-audit", "events"} \subseteq DOMAIN runs /\ overlap # {},
             "image-audit/bad-deploy", "critical", overlap)

\* The rules of each scanner.
rulesOf(runs) ==
    [s \in DOMAIN reads |->
        CASE s = "node-health" -> nodeHealthFindings(runs)
          [] s = "resource-quotas" -> quotaFindings(runs)
          [] s = "events" -> eventFindings(runs)
          [] s = "security" -> securityFindings(runs)
          [] s = "network-policies" -> networkFindings(runs)
          [] s = "workload-security" -> workloadSecFindings(runs)
          [] s = "rbac-audit" -> rbacAuditFindings(runs)
          [] s = "certs" -> certFindings(runs)
          [] s = "admission" -> admissionFindings(runs)
          [] s = "vulnerabilities" -> vulnerabilityFindings(runs)
          [] s = "deprecated-apis" -> deprecatedAPIFindings(runs)
          [] s = "cluster-info" -> clusterInfoFindings(runs)
          [] s = "image-audit" -> imageAuditFindings(runs) \cup compositeBadDeployFindings(runs)
          [] s = "workload-coverage" -> coverageFindings(runs)
          [] OTHER -> {}]

absoluteFindings(runs) == UNION {rulesOf(runs)[s] : s \in DOMAIN reads}
=============================================================================
