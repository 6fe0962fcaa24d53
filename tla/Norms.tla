------------------------------- MODULE Norms -------------------------------
(***************************************************************************)
(* The norms of a fleet: which values of a field are compared, which       *)
(* clusters are off the norm, and at which severity.                       *)
(*                                                                         *)
(* A cluster is its place in the sorted list of names, a field a pair      *)
(* <<scanner, name>>.  fleet[c].runs[s] is the result of scanner s on c: a *)
(* state and a payload, a record of numbers, texts and sets.  A text is a  *)
(* number in the order of the strings.  Medians are kept doubled and MADs  *)
(* fourfold, so that every comparison is one of integers.                  *)
(***************************************************************************)
EXTENDS Integers, Sequences, FiniteSets, FiniteSetsExt, Functions

CONSTANT OutlierThreshold   \* the modified z-score of an outlier, in tenths

ASSUME NormsAssumption == OutlierThreshold \in Nat \ {0}

minMADSample == 8

minMajoritySample == 3

------------------------------------------------------------------------------
(* fields.go: what a declared field means. *)
Of(scanner, names) == {<<scanner, n>> : n \in names}

criticalFields ==
    Of("node-health", {"unhealthy_nodes", "memory_pressure_nodes", "not_ready_nodes"})
    \cup Of("security", {"enforced_count", "unenforced_count"})
    \cup Of("network-policies", {"namespaces_without_policies"})
    \cup Of("workload-security", {"privileged_containers", "host_network_pods", "host_pid_pods"})
    \cup Of("rbac-audit", {"cluster_admin_bindings", "wildcard_rules"})

warningFields ==
    Of("metrics", {"avg_cpu_percent", "avg_memory_percent", "max_cpu_percent", "max_memory_percent"})
    \cup Of("node-health", {"disk_pressure_nodes", "pid_pressure_nodes", "unschedulable_nodes"})
    \cup Of("resources", {"unschedulable_nodes", "node_count", "ready_nodes"})
    \cup Of("workload-security", {"run_as_root_containers", "capability_additions",
                                  "allow_privilege_escalation"})
    \cup Of("rbac-audit", {"default_sa_bindings"})
    \cup Of("version", {"git_version", "minor"})
    \cup Of("namespaces", {"count"}) \cup Of("services", {"count"})
    \cup Of("crds", {"crd_names"})
    \cup Of("rbac", {"cluster_role_count", "cluster_role_binding_count"})
    \cup Of("resource-quotas", {"quota_count", "namespaces_with_quotas"})
    \cup Of("image-audit", {"latest_tag", "no_digest"})
    \cup Of("vulnerabilities", {"critical"}) \cup Of("policy-reports", {"total_fail"})

DownIsBad ==
    Of("certs", {"soonest_days"}) \cup Of("security", {"enforced_count"})
    \cup Of("resources", {"ready_nodes"}) \cup Of("workload-security", {"run_as_non_root_containers"})
    \cup Of("resource-quotas", {"quota_count", "namespaces_with_quotas"})

UpIsBad ==
    (criticalFields \ DownIsBad)
    \cup (warningFields \ (DownIsBad \cup Of("resources", {"node_count"})
                           \cup Of("version", {"git_version", "minor"})
                           \cup Of("namespaces", {"count"}) \cup Of("services", {"count"})
                           \cup Of("crds", {"crd_names"})
                           \cup Of("rbac", {"cluster_role_count", "cluster_role_binding_count"})))
    \cup Of("events", {"warning_events"}) \cup Of("certs", {"critical", "warning"})
    \cup Of("workload-coverage", {"missing_pdb", "missing_hpa"})
    \cup Of("admission", {"unhealthy_webhooks"})

\* The fields whose findings already state the fact of f, in the order they are tried.
RedundantWith(f) ==
    LET all(names) == [i \in DOMAIN names |-> <<f[1], names[i]>>]
    IN CASE f = <<"metrics", "nodes_with_usage">> -> all(<<"node_count">>)
         [] f = <<"node-health", "unhealthy_nodes">> ->
                all(<<"memory_pressure_nodes", "disk_pressure_nodes", "pid_pressure_nodes",
                      "not_ready_nodes">>)
         [] f = <<"certs", "soonest_days">> -> all(<<"warning", "critical">>)
         [] f = <<"workload-security", "run_as_non_root_containers">> -> all(<<"baseline_containers">>)
         [] f = <<"workload-security", "baseline_containers">> -> all(<<"total_pods">>)
         [] f \in {<<"version", "minor">>, <<"deprecated-apis", "server_version">>,
                   <<"cluster-info", "kubelet_versions">>} -> <<<<"version", "git_version">>>>
         [] OTHER -> <<>>

\* The absolute rule that counts f, or "".
CountedBy(f) ==
    CASE f = <<"node-health", "memory_pressure_nodes">> -> "node-health/memory-pressure"
      [] f = <<"node-health", "not_ready_nodes">> -> "node-health/not-ready"
      [] f = <<"node-health", "disk_pressure_nodes">> -> "node-health/disk-pressure"
      [] f = <<"events", "warning_events">> -> "events/warning-volume"
      [] f = <<"certs", "critical">> -> "certs/expiring-7d"
      [] f = <<"certs", "warning">> -> "certs/expiring-30d"
      [] f = <<"security", "unenforced_count">> -> "security/psa-unenforced"
      [] f = <<"network-policies", "namespaces_without_policies">> -> "network-policies/no-policy"
      [] f = <<"workload-security", "privileged_containers">> -> "workload-security/privileged"
      [] f \in Of("workload-security", {"host_network_pods", "host_pid_pods"}) ->
             "workload-security/host-namespaces"
      [] f = <<"workload-security", "run_as_root_containers">> -> "workload-security/run-as-root"
      [] f = <<"workload-security", "capability_additions">> -> "workload-security/capability-add"
      [] f = <<"rbac-audit", "cluster_admin_bindings">> -> "rbac-audit/cluster-admin-binding"
      [] f = <<"rbac-audit", "wildcard_rules">> -> "rbac-audit/wildcard-rule"
      [] f = <<"rbac-audit", "default_sa_bindings">> -> "rbac-audit/default-sa-binding"
      [] f = <<"deprecated-apis", "total_instances">> -> "deprecated-apis/in-use"
      [] f = <<"resource-quotas", "namespaces_with_quotas">> -> "resource-quotas/no-quota"
      [] f = <<"image-audit", "latest_tag">> -> "image-audit/latest-tag"
      [] f = <<"image-audit", "no_digest">> -> "image-audit/no-digest"
      [] f = <<"vulnerabilities", "critical">> -> "vulnerabilities/critical-present"
      [] f = <<"workload-coverage", "missing_pdb">> -> "workload-coverage/missing-pdb"
      [] f = <<"workload-coverage", "missing_hpa">> -> "workload-coverage/missing-hpa"
      [] f = <<"admission", "unhealthy_webhooks">> -> "admission/no-healthy-endpoints"
      [] OTHER -> ""

availabilityGated == {"vulnerabilities", "policy-reports"}

\* The set field each object array is projected to; the class of an ingress
\* says how it is used, so a cluster that names none is left out.
setProjections ==
    [crds |-> [to |-> "crd_names", skipEmpty |-> FALSE],
     services |-> [to |-> "service_names", skipEmpty |-> FALSE],
     ingresses |-> [to |-> "ingress_classes", skipEmpty |-> TRUE]]

skipFields ==
    {"nodes", "services", "ingresses", "policies", "roles", "bindings", "quotas", "limit_ranges",
     "namespaces", "crds", "labels", "conditions", "top_images", "top_failures", "by_source"}

\* The types of the payloads' fields (isNumericInFlat, isArrayInFlat).
Kind(f) ==
    CASE f[2] \in {"git_version", "minor", "major", "server_version", "available", "has_drift"} -> "string"
      [] f[2] \in {"crd_names", "service_names", "ingress_classes", "kubelet_versions", "names",
                   "risk_bindings", "high_risk_pods", "image_risks", "certs", "webhooks", "gaps",
                   "deprecated", "recent_warnings", "top_warning_reasons"} -> "set"
      [] OTHER -> "numeric"

classifySeverity(f) ==
    CASE f \in criticalFields -> "critical" [] f \in warningFields -> "warning" [] OTHER -> "info"

\* On the better side of its polarity, above or below the norm.
Favorable(f, delta) == (f \in UpIsBad /\ delta < 0) \/ (f \in DownIsBad /\ delta > 0)

numericSeverity(f, delta) == IF Favorable(f, delta) THEN "info" ELSE classifySeverity(f)

------------------------------------------------------------------------------
(* The payloads a detector compares. *)

\* The section of a scanner: the clusters it observed, and whether they all
\* gave the same payload.
perCluster(fleet, s) ==
    {c \in DOMAIN fleet : s \in DOMAIN fleet[c].runs /\ fleet[c].runs[s].state # "errored"}

Uniform(fleet, s) ==
    s = "geo" \/ Cardinality({fleet[c].runs[s].data : c \in perCluster(fleet, s)}) <= 1

scannerNames(fleet) == UNION {DOMAIN fleet[c].runs : c \in DOMAIN fleet}

\* A degraded value above zero kept whatever the polarity of its field.
AnyLowerBound(f, v) == Kind(f) = "numeric" /\ v > 0

\* A degraded run counts only what it read: a number above zero bounds the
\* true one from below, which says something only where higher is worse.
lowerBound(f, v) == Kind(f) = "numeric" /\ v > 0 /\ f \in UpIsBad

\* Members of a projected array; 0 stands for an object that names none.
prepareFlat(s, data) ==
    LET p == setProjections[s]
        members == data[s] \ {0}
        projected ==
            IF s \in DOMAIN setProjections /\ s \in DOMAIN data /\ (members # {} \/ ~p.skipEmpty)
            THEN [x \in DOMAIN data \cup {p.to} |-> IF x = p.to THEN members ELSE data[x]]
            ELSE data
        gated == s \in availabilityGated /\ ~data.available
    IN Restrict(projected, {x \in DOMAIN projected : ~(gated /\ Kind(<<s, x>>) = "numeric")})

boundDegraded(s, run, data) ==
    IF run.state # "degraded" THEN data
    ELSE Restrict(data, {x \in DOMAIN data : lowerBound(<<s, x>>, data[x])})

\* flattenSection, prepared: what run gives to the population of each field.
flatten(s, run) == boundDegraded(s, run, prepareFlat(s, run.data))

\* The fields walkFields visits.
walkFields(fleet, minPerCluster) ==
    LET sections == {s \in scannerNames(fleet) :
                        ~Uniform(fleet, s) /\ Cardinality(perCluster(fleet, s)) >= minPerCluster}
    IN UNION {UNION {Of(s, DOMAIN flatten(s, fleet[c].runs[s]) \ skipFields) : c \in perCluster(fleet, s)} :
              s \in sections}

\* The values the members have for f; a flag is compared as the text of it.
population(fleet, members, f) ==
    LET flat == [c \in perCluster(fleet, f[1]) \cap members |-> flatten(f[1], fleet[c].runs[f[1]])]
        value(v) == IF f[2] \in {"available", "has_drift"} THEN (IF v THEN 1 ELSE 0) ELSE v
    IN [c \in {c \in DOMAIN flat : f[2] \in DOMAIN flat[c]} |-> value(flat[c][f[2]])]

------------------------------------------------------------------------------
(* Median and median absolute deviation. *)
Size(pop) == Cardinality(DOMAIN pop)

\* The k-th smallest value.
ranked(pop, k) ==
    CHOOSE v \in Range(pop) :
        /\ Cardinality({c \in DOMAIN pop : pop[c] < v}) < k
        /\ Cardinality({c \in DOMAIN pop : pop[c] <= v}) >= k

Median2(pop) ==
    IF Size(pop) = 0 THEN 0
    ELSE ranked(pop, (Size(pop) + 1) \div 2) + ranked(pop, Size(pop) \div 2 + 1)

distance(a, b) == IF a < b THEN b - a ELSE a - b

deviations(pop) == [c \in DOMAIN pop |-> distance(2 * pop[c], Median2(pop))]

MAD4(pop) == Median2(deviations(pop))

\* |0.6745 * (v - median) / MAD| is beyond the threshold.
beyond(dev2, mad4) == 1349 * dev2 > 100 * OutlierThreshold * mad4

atMedian(pop) == Cardinality({c \in DOMAIN pop : 2 * pop[c] = Median2(pop)})

\* The mode holds at least six tenths of the population.
holdsMode(count, n) == 10 * count >= 6 * n

dominantString(pop) ==
    LET count(v) == Cardinality({c \in DOMAIN pop : pop[c] = v})
    IN CHOOSE v \in Range(pop) :
           \A w \in Range(pop) \ {v} : count(w) < count(v) \/ (count(w) = count(v) /\ v < w)

modeCount(pop) == Cardinality({c \in DOMAIN pop : pop[c] = dominantString(pop)})

\* The empty text, before all others.
Empty == -1

consensus(pop) ==
    {x \in UNION Range(pop) : holdsMode(Cardinality({c \in DOMAIN pop : x \in pop[c]}), Size(pop))}

------------------------------------------------------------------------------
(* Detectors.  Each gives the clusters of the population off its norm.  side *)
(* is the sign of the deviation of a number, 0 for an exact norm.            *)
sign(x) == IF x > 0 THEN 1 ELSE IF x < 0 THEN -1 ELSE 0

Outlier(c, f, scope, severity, side, value) ==
    [cluster |-> c, field |-> f, scope |-> scope, severity |-> severity, side |-> side, value |-> value]

\* A MAD of zero is judged like a text: exactOutliers.
detectNumericOutliers(pop, f, scope) ==
    LET med == Median2(pop)
        mad == MAD4(pop)
        exact == mad = 0
        off == IF exact
               THEN {c \in DOMAIN pop : 2 * pop[c] # med /\ holdsMode(atMedian(pop), Size(pop))}
               ELSE {c \in DOMAIN pop : beyond(distance(2 * pop[c], med), mad)}
    IN IF Size(pop) < minMADSample THEN {}
       ELSE {Outlier(c, f, scope, numericSeverity(f, 2 * pop[c] - med),
                     IF exact THEN 0 ELSE sign(2 * pop[c] - med), pop[c]) : c \in off}

\* The empty text is no norm.
detectStringOutliers(pop, f, scope) ==
    IF \/ Cardinality(Range(pop)) <= 1 \/ dominantString(pop) = Empty
       \/ ~holdsMode(modeCount(pop), Size(pop))
    THEN {}
    ELSE {Outlier(c, f, scope, classifySeverity(f), 0, pop[c]) :
             c \in {c \in DOMAIN pop : pop[c] # dominantString(pop)}}

\* The value of a set outlier is what it misses.
detectSetOutliers(pop, f, scope) ==
    {Outlier(c, f, scope, classifySeverity(f), 0, consensus(pop) \ pop[c]) :
        c \in {c \in DOMAIN pop : ~(consensus(pop) \subseteq pop[c])}}

detectOutliers(fleet, members, scope) ==
    UNION {LET pop == population(fleet, members, f)
           IN CASE Kind(f) = "numeric" -> detectNumericOutliers(pop, f, scope)
                [] Kind(f) = "set" -> detectSetOutliers(pop, f, scope)
                [] OTHER -> detectStringOutliers(pop, f, scope) :
           f \in walkFields(fleet, minMADSample)}

\* The population without c agrees within its own MAD, and c stands apart from it.
standsApart(pop, c) ==
    LET others == Restrict(pop, DOMAIN pop \ {c})
        med == Median2(others)
        mad == MAD4(others)
        dev == distance(2 * pop[c], med)
    IN /\ \A i \in DOMAIN others : 2 * deviations(others)[i] <= mad
       /\ dev # 0
       /\ mad = 0 \/ beyond(dev, mad)

capped(severity) == IF severity = "critical" THEN "warning" ELSE severity

\* The leave-one-out majority diff: exactly one cluster may stand apart.
majorityNumericOutlier(pop, f, scope) ==
    LET apart == {c \in DOMAIN pop : standsApart(pop, c)}
        c == CHOOSE c \in apart : TRUE
        others == Restrict(pop, DOMAIN pop \ {c})
        delta == 2 * pop[c] - Median2(others)
    IN IF Size(pop) \notin minMajoritySample .. minMADSample - 1 \/ Cardinality(apart) # 1 THEN {}
       ELSE {Outlier(c, f, scope, capped(numericSeverity(f, delta)),
                     IF MAD4(others) = 0 THEN 0 ELSE sign(delta), pop[c])}

majorityStringOutlier(pop, f, scope) ==
    IF \/ Size(pop) \notin minMajoritySample .. minMADSample - 1
       \/ Cardinality(Range(pop)) # 2
       \/ modeCount(pop) # Size(pop) - 1
    THEN {}
    ELSE {Outlier(c, f, scope, capped(classifySeverity(f)), 0, pop[c]) :
             c \in {c \in DOMAIN pop : pop[c] # dominantString(pop)}}

detectMajorityOutliers(fleet, members, scope) ==
    UNION {LET pop == population(fleet, members, f)
           IN CASE Kind(f) = "numeric" -> majorityNumericOutlier(pop, f, scope)
                [] Kind(f) = "set" -> {}
                [] OTHER -> majorityStringOutlier(pop, f, scope) :
           f \in walkFields(fleet, 0)}

\* The detector a population of its size gets.
detect(fleet, members, scope) ==
    IF Cardinality(members) >= minMADSample THEN detectOutliers(fleet, members, scope)
    ELSE IF Cardinality(members) >= minMajoritySample THEN detectMajorityOutliers(fleet, members, scope)
    ELSE {}

------------------------------------------------------------------------------
(* explain.go: a tagged cohort holds the fleet outliers inside its own norm. *)

\* A distribution of f exists for the members.
hasNorm(fleet, members, f) ==
    LET pop == population(fleet, members, f)
        n == Size(pop)
        limited == Cardinality(members) < minMADSample
    IN /\ Cardinality(members) >= minMajoritySample
       /\ f \in walkFields(fleet, IF limited THEN 0 ELSE minMADSample)
       /\ IF limited THEN Kind(f) # "set" /\ n \in minMajoritySample .. minMADSample - 1
          ELSE n > 0 /\ (Kind(f) = "numeric" => n >= minMADSample)
       /\ Kind(f) = "string" => Cardinality(Range(pop)) > 1

withinNorm(fleet, members, f, c) ==
    LET pop == population(fleet, members, f)
    IN /\ hasNorm(fleet, members, f) /\ c \in DOMAIN pop
       /\ CASE Kind(f) = "numeric" -> ~beyond(distance(2 * pop[c], Median2(pop)), MAD4(pop))
            [] Kind(f) = "set" -> consensus(pop) \subseteq pop[c]
            [] OTHER -> pop[c] = dominantString(pop) /\ pop[c] # Empty

\* Two fleet outliers on one field that deviate the same way.
pairAgrees(a, b) ==
    IF Kind(a.field) = "numeric"
    THEN a.side = b.side /\ (a.side = 0 => a.value = b.value)
    ELSE a.value = b.value

\* The outliers of a pair too small for a norm, when both members agree.
heldByPair(outliers, pair, o) ==
    /\ Cardinality(pair) = 2 /\ o.cluster \in pair
    /\ \E p \in outliers : p.cluster \in pair \ {o.cluster} /\ p.field = o.field /\ pairAgrees(o, p)

explained(fleet, outliers, o, taggedCohorts) ==
    \E members \in taggedCohorts :
        /\ o.cluster \in members
        /\ withinNorm(fleet, members, o.field, o.cluster) \/ heldByPair(outliers, members, o)
=============================================================================
