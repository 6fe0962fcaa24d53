--------------------------- MODULE Reports_proofs ---------------------------
(***************************************************************************)
(* Proofs about the pipeline from the reads of a cluster to the reports:   *)
(* what a scan with failed reads claims (Scanning), what the collapse of   *)
(* findings keeps and what scores and grades mean (FleetReport), and what  *)
(* the series of scans say together (Series).                              *)
(***************************************************************************)
EXTENDS Scanning, FleetReport, Series, FiniteSetTheorems, NaturalsInduction, WellFoundedInduction, TLAPS

------------------------------------------------------------------------------
(* Scanning. *)

\* The reads each scanner with rules makes, in their order.
LEMMA ReadsOf ==
    /\ \A s \in {"node-health", "cluster-info"} : reads[s] = <<Observe("nodes")>>
    /\ \A s \in {"namespaces", "security"} : reads[s] = <<Observe("namespaces")>>
    /\ \A s \in {"workload-security", "image-audit"} : reads[s] = <<Observe("pods")>>
    /\ \A s \in {"events", "vulnerabilities"} : reads[s] = <<Observe(s)>>
    /\ reads["network-policies"] = <<Require("network-policies"), Require("namespaces")>>
    /\ reads["resource-quotas"] = <<Require("resource-quotas"), Require("limit-ranges")>>
    /\ reads["rbac-audit"] = <<Require("cluster-roles"), Require("cluster-role-bindings"),
                               Observe("role-bindings"), Observe("pods")>>
    /\ reads["certs"] = <<Observe("secrets"), Observe("mutating"), Observe("validating")>>
    /\ reads["admission"] = <<Observe("mutating"), Observe("validating"), Observe("endpoints")>>
    /\ reads["workload-coverage"] = <<Observe("pdbs"), Observe("hpas"),
                                      Observe("deployments"), Observe("statefulsets")>>
<1>1. \A s \in scanners : reads[s] = scannerReads(s)
  BY DEF reads
<1>2. \A s \in {"node-health", "cluster-info"} : reads[s] = <<Observe("nodes")>>
  BY <1>1 DEF scanners, scannerReads, ownList
<1>3. \A s \in {"namespaces", "security"} : reads[s] = <<Observe("namespaces")>>
  BY <1>1 DEF scanners, scannerReads, ownList
<1>4. \A s \in {"workload-security", "image-audit"} : reads[s] = <<Observe("pods")>>
  BY <1>1 DEF scanners, scannerReads, ownList
<1>5. \A s \in {"events", "vulnerabilities"} : reads[s] = <<Observe(s)>>
  BY <1>1 DEF scanners, scannerReads, ownList
<1>6. reads["network-policies"] = <<Require("network-policies"), Require("namespaces")>>
  BY <1>1 DEF scanners, scannerReads, ownList
<1>7. reads["resource-quotas"] = <<Require("resource-quotas"), Require("limit-ranges")>>
  BY <1>1 DEF scanners, scannerReads, ownList
<1>8. reads["rbac-audit"] = <<Require("cluster-roles"), Require("cluster-role-bindings"),
                              Observe("role-bindings"), Observe("pods")>>
  BY <1>1 DEF scanners, scannerReads, ownList
<1>9. reads["certs"] = <<Observe("secrets"), Observe("mutating"), Observe("validating")>>
  BY <1>1 DEF scanners, scannerReads, ownList
<1>10. reads["admission"] = <<Observe("mutating"), Observe("validating"), Observe("endpoints")>>
  BY <1>1 DEF scanners, scannerReads, ownList
<1>11. reads["workload-coverage"] = <<Observe("pdbs"), Observe("hpas"),
                                      Observe("deployments"), Observe("statefulsets")>>
  BY <1>1 DEF scanners, scannerReads, ownList
<1> QED BY <1>2, <1>3, <1>4, <1>5, <1>6, <1>7, <1>8, <1>9, <1>10, <1>11

\* The resources the scanners with rules read, by place.
LEMMA WhatOf ==
    /\ \A s \in {"node-health", "cluster-info"} : reads[s][1].what = "nodes"
    /\ \A s \in {"namespaces", "security"} : reads[s][1].what = "namespaces"
    /\ \A s \in {"workload-security", "image-audit"} : reads[s][1].what = "pods"
    /\ reads["events"][1].what = "events" /\ reads["vulnerabilities"][1].what = "vulnerabilities"
    /\ reads["network-policies"][1].what = "network-policies" /\ reads["network-policies"][2].what = "namespaces"
    /\ reads["resource-quotas"][1].what = "resource-quotas" /\ reads["resource-quotas"][2].what = "limit-ranges"
    /\ reads["rbac-audit"][1].what = "cluster-roles" /\ reads["rbac-audit"][2].what = "cluster-role-bindings"
    /\ reads["rbac-audit"][3].what = "role-bindings" /\ reads["rbac-audit"][4].what = "pods"
    /\ reads["rbac-audit"][1].required /\ reads["rbac-audit"][2].required
    /\ reads["network-policies"][1].required /\ reads["network-policies"][2].required
    /\ reads["resource-quotas"][1].required /\ reads["resource-quotas"][2].required
    /\ reads["certs"][1].what = "secrets" /\ reads["certs"][2].what = "mutating"
    /\ reads["certs"][3].what = "validating"
    /\ reads["admission"][1].what = "mutating" /\ reads["admission"][2].what = "validating"
    /\ reads["admission"][3].what = "endpoints"
    /\ reads["workload-coverage"][1].what = "pdbs" /\ reads["workload-coverage"][2].what = "hpas"
    /\ reads["workload-coverage"][3].what = "deployments" /\ reads["workload-coverage"][4].what = "statefulsets"
<1>1. \A w : Observe(w).what = w /\ Require(w).what = w /\ Require(w).required
  BY DEF Observe, Require
<1>2. \A s \in {"node-health", "cluster-info"} : reads[s][1] = Observe("nodes")
  <2>1. \A s \in {"node-health", "cluster-info"} : reads[s] = <<Observe("nodes")>>
    BY ReadsOf
  <2> QED BY <2>1
<1>3. \A s \in {"namespaces", "security"} : reads[s][1] = Observe("namespaces")
  <2>1. \A s \in {"namespaces", "security"} : reads[s] = <<Observe("namespaces")>>
    BY ReadsOf
  <2> QED BY <2>1
<1>4. \A s \in {"workload-security", "image-audit"} : reads[s][1] = Observe("pods")
  <2>1. \A s \in {"workload-security", "image-audit"} : reads[s] = <<Observe("pods")>>
    BY ReadsOf
  <2> QED BY <2>1
<1>5. reads["events"][1] = Observe("events") /\ reads["vulnerabilities"][1] = Observe("vulnerabilities")
  <2>1. \A s \in {"events", "vulnerabilities"} : reads[s] = <<Observe(s)>>
    BY ReadsOf
  <2> QED BY <2>1
<1>6. /\ reads["network-policies"][1] = Require("network-policies")
      /\ reads["network-policies"][2] = Require("namespaces")
  <2>1. reads["network-policies"] = <<Require("network-policies"), Require("namespaces")>>
    BY ReadsOf
  <2>2. reads["network-policies"][1] = Require("network-policies")
    BY <2>1
  <2>3. reads["network-policies"][2] = Require("namespaces")
    BY <2>1
  <2> QED BY <2>2, <2>3
<1>7. /\ reads["resource-quotas"][1] = Require("resource-quotas")
      /\ reads["resource-quotas"][2] = Require("limit-ranges")
  <2>1. reads["resource-quotas"] = <<Require("resource-quotas"), Require("limit-ranges")>>
    BY ReadsOf
  <2>2. reads["resource-quotas"][1] = Require("resource-quotas")
    BY <2>1
  <2>3. reads["resource-quotas"][2] = Require("limit-ranges")
    BY <2>1
  <2> QED BY <2>2, <2>3
<1>8. /\ reads["rbac-audit"][1] = Require("cluster-roles") /\ reads["rbac-audit"][2] = Require("cluster-role-bindings")
      /\ reads["rbac-audit"][3] = Observe("role-bindings") /\ reads["rbac-audit"][4] = Observe("pods")
  <2>1. reads["rbac-audit"] = <<Require("cluster-roles"), Require("cluster-role-bindings"),
                                Observe("role-bindings"), Observe("pods")>>
    BY ReadsOf
  <2>2. reads["rbac-audit"][1] = Require("cluster-roles")
    BY <2>1
  <2>3. reads["rbac-audit"][2] = Require("cluster-role-bindings")
    BY <2>1
  <2>4. reads["rbac-audit"][3] = Observe("role-bindings")
    BY <2>1
  <2>5. reads["rbac-audit"][4] = Observe("pods")
    BY <2>1
  <2> QED BY <2>2, <2>3, <2>4, <2>5
<1>9. /\ reads["certs"][1] = Observe("secrets") /\ reads["certs"][2] = Observe("mutating")
      /\ reads["certs"][3] = Observe("validating")
  <2>1. reads["certs"] = <<Observe("secrets"), Observe("mutating"), Observe("validating")>>
    BY ReadsOf
  <2>2. reads["certs"][1] = Observe("secrets")
    BY <2>1
  <2>3. reads["certs"][2] = Observe("mutating")
    BY <2>1
  <2>4. reads["certs"][3] = Observe("validating")
    BY <2>1
  <2> QED BY <2>2, <2>3, <2>4
<1>10. /\ reads["admission"][1] = Observe("mutating") /\ reads["admission"][2] = Observe("validating")
      /\ reads["admission"][3] = Observe("endpoints")
  <2>1. reads["admission"] = <<Observe("mutating"), Observe("validating"), Observe("endpoints")>>
    BY ReadsOf
  <2>2. reads["admission"][1] = Observe("mutating")
    BY <2>1
  <2>3. reads["admission"][2] = Observe("validating")
    BY <2>1
  <2>4. reads["admission"][3] = Observe("endpoints")
    BY <2>1
  <2> QED BY <2>2, <2>3, <2>4
<1>11. /\ reads["workload-coverage"][1] = Observe("pdbs") /\ reads["workload-coverage"][2] = Observe("hpas")
      /\ reads["workload-coverage"][3] = Observe("deployments")
      /\ reads["workload-coverage"][4] = Observe("statefulsets")
  <2>1. reads["workload-coverage"] = <<Observe("pdbs"), Observe("hpas"),
                                       Observe("deployments"), Observe("statefulsets")>>
    BY ReadsOf
  <2>2. reads["workload-coverage"][1] = Observe("pdbs")
    BY <2>1
  <2>3. reads["workload-coverage"][2] = Observe("hpas")
    BY <2>1
  <2>4. reads["workload-coverage"][3] = Observe("deployments")
    BY <2>1
  <2>5. reads["workload-coverage"][4] = Observe("statefulsets")
    BY <2>1
  <2> QED BY <2>2, <2>3, <2>4, <2>5
<1>12. /\ reads["network-policies"][1].required /\ reads["network-policies"][2].required
       /\ reads["resource-quotas"][1].required /\ reads["resource-quotas"][2].required
  BY <1>1, <1>6, <1>7, Zenon
<1> QED BY <1>1, <1>2, <1>3, <1>4, <1>5, <1>6, <1>7, <1>8, <1>9, <1>10, <1>11, <1>12

\* A scanner makes one to four reads.
LEMMA ReadsShape ==
    ASSUME NEW s \in scanners
    PROVE  /\ Len(reads[s]) \in 1 .. 4
           /\ DOMAIN reads[s] = 1 .. Len(reads[s])
           /\ Len(reads[s]) = 1 => DOMAIN reads[s] = 1 .. 1
<1>1. reads[s] = scannerReads(s)
  BY DEF reads
<1>2. CASE s \in {"node-health", "cluster-info", "resources", "namespaces", "security", "workload-security",
                  "image-audit"} \cup ownList
  <2>1. \E x : reads[s] = <<x>>
    BY <1>1, <1>2 DEF scannerReads, ownList
  <2> QED BY <2>1
<1>3. CASE s \in {"metrics", "network-policies", "resource-quotas", "policy-reports"}
  <2>1. \E x, y : reads[s] = <<x, y>>
    BY <1>1, <1>3 DEF scannerReads, ownList
  <2> QED BY <2>1
<1>4. CASE s \in {"certs", "admission", "deprecated-apis"}
  <2>1. \E x, y, z : reads[s] = <<x, y, z>>
    BY <1>1, <1>4 DEF scannerReads, ownList
  <2> QED BY <2>1
<1>5. CASE s \in {"rbac", "rbac-audit", "workload-coverage"}
  <2>1. \E x, y, z, w : reads[s] = <<x, y, z, w>>
    BY <1>1, <1>5 DEF scannerReads, ownList
  <2> QED BY <2>1
<1> QED BY <1>2, <1>3, <1>4, <1>5 DEF scanners

\* Finish trusts a run only where every read that counts was answered.
LEMMA FinishTrusts ==
    ASSUME NEW s, s # "deprecated-apis", NEW out
    PROVE  /\ Finish(s, out) \in {"ok", "unavailable"} =>
                 \A i \in DOMAIN out : out[i] \in {"ok", "unserved"}
           /\ Finish(s, out) = "degraded" =>
                 /\ \A i \in DOMAIN out : reads[s][i].required => out[i] \in {"ok", "unserved"}
                 /\ \E i \in DOMAIN out : out[i] \notin {"ok", "unserved"}
                 /\ \E i \in DOMAIN out : out[i] = "ok"
           /\ (\A i \in DOMAIN out : out[i] = "ok") => Finish(s, out) = "ok"
           /\ Finish(s, out) \in {"ok", "unavailable", "degraded", "errored"}
<1> DEFINE seen_ == {i \in DOMAIN out : Observed(s, i, out[i])}
           ok_ == {i \in seen_ : out[i] = "ok"}
           failed == seen_ \ ok_
           missing == {i \in failed : ClassifyError(out[i]) # "unavailable"}
           blind == \E i \in missing : reads[s][i].required
<1>1. seen_ = DOMAIN out
  BY DEF Observed
<1>2. \A i \in DOMAIN out : i \in missing <=> out[i] \notin {"ok", "unserved"}
  BY <1>1 DEF ClassifyError
<1>3. \A i \in DOMAIN out : i \in ok_ <=> out[i] = "ok"
  BY <1>1
<1>4. missing \subseteq DOMAIN out /\ ok_ \subseteq DOMAIN out /\ failed = DOMAIN out \ ok_ /\ missing \subseteq failed
  BY <1>1
<1>5. Finish(s, out) =
         IF blind THEN "errored"
         ELSE IF failed = {} \/ (missing = {} /\ ok_ # {}) THEN "ok"
         ELSE IF missing = {} THEN "unavailable"
         ELSE IF ok_ # {} THEN "degraded" ELSE "errored"
  BY DEF Finish
<1>0. (missing = {} => ~blind) /\ (~blind => \A i \in missing : ~reads[s][i].required)
  OBVIOUS
<1> HIDE DEF seen_, ok_, failed, missing, blind
<1>6. Finish(s, out) \in {"ok", "unavailable"} => missing = {}
  BY <1>4, <1>5
<1>7. Finish(s, out) = "degraded" => missing # {} /\ ok_ # {} /\ ~blind
  BY <1>5
<1>8. (\A i \in DOMAIN out : out[i] = "ok") => Finish(s, out) = "ok"
  <2> SUFFICES ASSUME \A i \in DOMAIN out : out[i] = "ok" PROVE Finish(s, out) = "ok"
    OBVIOUS
  <2>1. failed = {} /\ missing = {}
    BY <1>3, <1>4
  <2> QED BY <2>1, <1>5, <1>0
<1>9. Finish(s, out) \in {"ok", "unavailable", "degraded", "errored"}
  BY <1>5
<1>10. Finish(s, out) \in {"ok", "unavailable"} => \A i \in DOMAIN out : out[i] \in {"ok", "unserved"}
  BY <1>6, <1>2
<1>11. Finish(s, out) = "degraded" =>
                 /\ \A i \in DOMAIN out : reads[s][i].required => out[i] \in {"ok", "unserved"}
                 /\ \E i \in DOMAIN out : out[i] \notin {"ok", "unserved"}
                 /\ \E i \in DOMAIN out : out[i] = "ok"
  <2> SUFFICES ASSUME Finish(s, out) = "degraded"
               PROVE  /\ \A i \in DOMAIN out : reads[s][i].required => out[i] \in {"ok", "unserved"}
                      /\ \E i \in DOMAIN out : out[i] \notin {"ok", "unserved"}
                      /\ \E i \in DOMAIN out : out[i] = "ok"
    OBVIOUS
  <2>1. \A i \in DOMAIN out : reads[s][i].required => out[i] \in {"ok", "unserved"}
    BY <1>7, <1>2, <1>0
  <2>2. \E i \in DOMAIN out : out[i] \notin {"ok", "unserved"}
    BY <1>7, <1>2, <1>4
  <2>3. \E i \in DOMAIN out : out[i] = "ok"
    BY <1>7, <1>3, <1>4
  <2> QED BY <2>1, <2>2, <2>3
<1> QED BY <1>8, <1>9, <1>10, <1>11
\* Only a type without objects is not served, and the endpoints always are.
Answered(s, cl, out) ==
    \A i \in DOMAIN out : out[i] = "unserved" => reads[s][i].what # "endpoints" /\ cl[reads[s][i].what] = {}

\* The outcomes of a run that has made its last read.
Finished(s, cl, out) ==
    /\ out \in Seq(Outcomes)
    /\ Len(out) <= Len(reads[s])
    /\ LastRead(s, out)
    /\ Answered(s, cl, out)

\* A result RunScanners may keep for s on the cluster cl.
Ran(s, cl, run) ==
    \/ run = ErroredResult
    \/ \E out \in Seq(Outcomes) : Finished(s, cl, out) /\ run = Result(s, cl, out)

\* The outcomes of a run whose reads all succeed.
allOK(s) == [i \in DOMAIN reads[s] |-> "ok"]

\* A read that was answered, or whose type is not served, leaves the list of the cluster.
LEMMA ListAnswered ==
    ASSUME NEW s \in scanners, NEW cl, NEW out, Answered(s, cl, out),
           NEW i \in DOMAIN out, i \in DOMAIN reads[s], out[i] \in {"ok", "unserved"}
    PROVE  lists(cl, gotten(s, out))[reads[s][i].what] = cl[reads[s][i].what]
<1>1. reads[s][i].what \in DOMAIN Objects
  BY ScannersAssumption
<1>2. CASE out[i] = "ok"
  BY <1>1, <1>2 DEF lists, gotten
<1>3. CASE out[i] = "unserved"
  BY <1>1, <1>3 DEF lists, Answered
<1> QED BY <1>2, <1>3

\* A list a run has holds only objects of the cluster.
LEMMA ListPart ==
    ASSUME NEW cl, NEW got, NEW r \in DOMAIN Objects
    PROVE  lists(cl, got)[r] \subseteq cl[r]
BY DEF lists

\* The run whose reads all succeed has every list of the cluster.
LEMMA AllAnswered ==
    ASSUME NEW s \in scanners, NEW cl
    PROVE  /\ Answered(s, cl, allOK(s))
           /\ DOMAIN allOK(s) = DOMAIN reads[s]
           /\ \A i \in DOMAIN reads[s] : allOK(s)[i] = "ok"
           /\ \A i \in DOMAIN reads[s] : lists(cl, gotten(s, allOK(s)))[reads[s][i].what] = cl[reads[s][i].what]
           /\ \A i \in DOMAIN reads[s] : reads[s][i].what \in gotten(s, allOK(s))
<1>1. DOMAIN allOK(s) = DOMAIN reads[s] /\ \A i \in DOMAIN reads[s] : allOK(s)[i] = "ok"
  BY DEF allOK
<1>2. Answered(s, cl, allOK(s))
  BY <1>1 DEF Answered
<1>3. \A i \in DOMAIN reads[s] : lists(cl, gotten(s, allOK(s)))[reads[s][i].what] = cl[reads[s][i].what]
  BY <1>1, <1>2, ListAnswered
<1>4. \A i \in DOMAIN reads[s] : reads[s][i].what \in gotten(s, allOK(s))
  BY <1>1 DEF gotten
<1> QED BY <1>1, <1>2, <1>3, <1>4

\* A run the rules look into comes from finished reads, and has their state and payload.
LEMMA SeenRun ==
    ASSUME NEW s, s \notin {"version"}, NEW cl, NEW runs, seen(runs, s), Ran(s, cl, runs[s])
    PROVE  \E out \in Seq(Outcomes) :
              /\ Finished(s, cl, out)
              /\ Finish(s, out) # "errored"
              /\ runs[s].state = Finish(s, out)
              /\ runs[s].data = Measure(s, cl, out)
<1>1. runs[s].state # "errored"
  BY DEF seen, clusterView
<1>2. runs[s] # ErroredResult
  BY <1>1 DEF ErroredResult
<1>3. PICK out \in Seq(Outcomes) : Finished(s, cl, out) /\ runs[s] = Result(s, cl, out)
  BY <1>2 DEF Ran
<1>4. Finish(s, out) # "errored"
  BY <1>2, <1>3 DEF Result
<1>5. runs[s] = [state |-> Finish(s, out), data |-> Measure(s, cl, out)]
  BY <1>3, <1>4 DEF Result
<1> QED BY <1>3, <1>4, <1>5

\* The complete run is trusted.
LEMMA CompleteRun ==
    ASSUME NEW s \in scanners, s \notin {"version", "deprecated-apis"}, NEW cl, NEW runs, s \in DOMAIN runs,
           runs[s] = Result(s, cl, allOK(s)), Measure(s, cl, allOK(s)) # NoData
    PROVE  /\ seen(runs, s)
           /\ clusterView(runs, s) = "observed"
           /\ runs[s].data = Measure(s, cl, allOK(s))
<1>1. Finish(s, allOK(s)) = "ok"
  BY AllAnswered, FinishTrusts
<1>2. runs[s] = [state |-> "ok", data |-> Measure(s, cl, allOK(s))]
  BY <1>1 DEF Result
<1> QED BY <1>2 DEF seen, clusterView

\* A run that was trusted as a whole has the lists of the cluster.
LEMMA WholeRun ==
    ASSUME NEW s \in scanners, s \notin {"metrics", "deprecated-apis"}, NEW cl, NEW out,
           Finished(s, cl, out)
    PROVE  /\ DOMAIN out = DOMAIN reads[s]
           /\ Finish(s, out) \in {"ok", "unavailable"} =>
                 \A i \in DOMAIN reads[s] : lists(cl, gotten(s, out))[reads[s][i].what] = cl[reads[s][i].what]
           /\ Finish(s, out) \in {"ok", "unavailable"} => \A i \in DOMAIN reads[s] : out[i] \in {"ok", "unserved"}
<1>1. DOMAIN out = 1 .. Len(out) /\ Len(out) \in Nat
  BY DEF Finished
<1>2. DOMAIN reads[s] = 1 .. Len(reads[s]) /\ Len(reads[s]) \in 1 .. 4
  BY ReadsShape
<1>3. Len(out) = Len(reads[s])
  <2>1. CASE Len(out) = Len(reads[s])
    BY <2>1
  <2>2. CASE s \in StopsAtFirst /\ Len(out) = 1
    <3>1. reads[s] = <<Observe("pods")>>
      BY <2>2, ReadsOf DEF StopsAtFirst
    <3> QED BY <3>1, <2>2
  <2> QED BY <2>1, <2>2 DEF Finished, LastRead
<1>4. DOMAIN out = DOMAIN reads[s]
  BY <1>1, <1>2, <1>3
<1>5. Finish(s, out) \in {"ok", "unavailable"} => \A i \in DOMAIN reads[s] : out[i] \in {"ok", "unserved"}
  BY <1>4, FinishTrusts
<1>6. Finish(s, out) \in {"ok", "unavailable"} =>
         \A i \in DOMAIN reads[s] : lists(cl, gotten(s, out))[reads[s][i].what] = cl[reads[s][i].what]
  BY <1>4, <1>5, ListAnswered DEF Finished
<1> QED BY <1>4, <1>5, <1>6

\* The scanners with rules and one list.
singleList ==
    {"node-health", "cluster-info", "namespaces", "security", "workload-security", "image-audit", "events",
     "vulnerabilities"}

\* A scanner with one list that did not err has the list of the cluster.
LEMMA SingleList ==
    ASSUME NEW s \in singleList, NEW cl, NEW out, Finished(s, cl, out), Finish(s, out) # "errored"
    PROVE  /\ DOMAIN reads[s] = 1 .. 1
           /\ DOMAIN out = 1 .. 1
           /\ Finish(s, out) \in {"ok", "unavailable"}
           /\ lists(cl, gotten(s, out))[reads[s][1].what] = cl[reads[s][1].what]
           /\ out[1] # "ok" => gotten(s, out) = {}
<1>1. s \in scanners /\ s \notin {"metrics", "deprecated-apis", "version"}
  BY DEF singleList, scanners, ownList
<1>2. DOMAIN reads[s] = 1 .. 1
  <2>1. \E x : reads[s] = <<x>>
    BY ReadsOf DEF singleList
  <2> QED BY <2>1
<1>3. DOMAIN out = 1 .. 1
  BY <1>1, <1>2, WholeRun
<1>4. Finish(s, out) # "degraded"
  BY <1>1, <1>3, FinishTrusts
<1>5. Finish(s, out) \in {"ok", "unavailable"}
  BY <1>1, <1>4, FinishTrusts
<1>6. lists(cl, gotten(s, out))[reads[s][1].what] = cl[reads[s][1].what]
  BY <1>1, <1>2, <1>5, WholeRun
<1>7. out[1] # "ok" => gotten(s, out) = {}
  BY <1>3 DEF gotten
<1> QED BY <1>2, <1>3, <1>5, <1>6, <1>7
\* What the scanners with one list measure.
LEMMA MeasureSingle ==
    ASSUME NEW cl, NEW out
    PROVE  /\ Measure("node-health", cl, out) = nodeHealth(lists(cl, gotten("node-health", out))["nodes"])
           /\ Measure("cluster-info", cl, out) = clusterInfo(lists(cl, gotten("cluster-info", out))["nodes"])
           /\ Measure("namespaces", cl, out) = namespaces(lists(cl, gotten("namespaces", out))["namespaces"])
           /\ Measure("security", cl, out) = security(lists(cl, gotten("security", out))["namespaces"])
           /\ Measure("image-audit", cl, out) = imageAudit(lists(cl, gotten("image-audit", out))["pods"])
           /\ Measure("events", cl, out) = events(lists(cl, gotten("events", out))["events"])
           /\ Measure("workload-security", cl, out) =
                 IF gotten("workload-security", out) = {} THEN NoData
                 ELSE workloadSecurity(lists(cl, gotten("workload-security", out))["pods"])
           /\ Measure("vulnerabilities", cl, out) =
                 vulnerabilities(lists(cl, gotten("vulnerabilities", out))["vulnerabilities"],
                                 gotten("vulnerabilities", out) # {})
<1>1. Measure("node-health", cl, out) = nodeHealth(lists(cl, gotten("node-health", out))["nodes"])
  BY DEF Measure
<1>2. Measure("cluster-info", cl, out) = clusterInfo(lists(cl, gotten("cluster-info", out))["nodes"])
  BY DEF Measure
<1>3. Measure("namespaces", cl, out) = namespaces(lists(cl, gotten("namespaces", out))["namespaces"])
  BY DEF Measure
<1>4. Measure("security", cl, out) = security(lists(cl, gotten("security", out))["namespaces"])
  BY DEF Measure
<1>5. Measure("image-audit", cl, out) = imageAudit(lists(cl, gotten("image-audit", out))["pods"])
  BY DEF Measure
<1>6. Measure("events", cl, out) = events(lists(cl, gotten("events", out))["events"])
  BY DEF Measure
<1>7. Measure("workload-security", cl, out) =
         IF gotten("workload-security", out) = {} THEN NoData
         ELSE workloadSecurity(lists(cl, gotten("workload-security", out))["pods"])
  BY DEF Measure
<1>8. Measure("vulnerabilities", cl, out) =
         vulnerabilities(lists(cl, gotten("vulnerabilities", out))["vulnerabilities"],
                         gotten("vulnerabilities", out) # {})
  BY DEF Measure
<1> QED BY <1>1, <1>2, <1>3, <1>4, <1>5, <1>6, <1>7, <1>8

\* A payload with a field is not the empty one.
LEMMA PayloadsNotEmpty ==
    /\ \A x : nodeHealth(x) # NoData /\ clusterInfo(x) # NoData /\ namespaces(x) # NoData
    /\ \A x : security(x) # NoData /\ imageAudit(x) # NoData /\ events(x) # NoData
    /\ \A x : workloadSecurity(x) # NoData
    /\ \A x, y : vulnerabilities(x, y) # NoData /\ networkPolicies(x, y) # NoData /\ resourceQuotas(x, y) # NoData
    /\ \A x, y : admission(x, y) # NoData
    /\ \A x, y, z : certs(x, y, z) # NoData
    /\ \A x, y, z, w : rbacAudit(x, y, z, w) # NoData
    /\ \A x, y, z, v, w : workloadCoverage(x, y, z, v, w) # NoData
<1>1. \A f : DOMAIN f # {} => f # NoData
  BY DEF NoData
<1>2. \A x : DOMAIN nodeHealth(x) # {} /\ DOMAIN clusterInfo(x) # {} /\ DOMAIN namespaces(x) # {}
  BY DEF nodeHealth, clusterInfo, namespaces
<1>3. \A x : DOMAIN security(x) # {} /\ DOMAIN imageAudit(x) # {} /\ DOMAIN events(x) # {}
  BY DEF security, imageAudit, events
<1>4. \A x : DOMAIN workloadSecurity(x) # {}
  BY DEF workloadSecurity
<1>5. \A x, y : DOMAIN vulnerabilities(x, y) # {} /\ DOMAIN networkPolicies(x, y) # {}
                 /\ DOMAIN resourceQuotas(x, y) # {} /\ DOMAIN admission(x, y) # {}
  BY DEF vulnerabilities, networkPolicies, resourceQuotas, admission
<1>6. \A x, y, z : DOMAIN certs(x, y, z) # {}
  BY DEF certs
<1>7. \A x, y, z, w : DOMAIN rbacAudit(x, y, z, w) # {}
  BY DEF rbacAudit
<1>8. \A x, y, z, v, w : DOMAIN workloadCoverage(x, y, z, v, w) # {}
  BY DEF workloadCoverage
<1> QED BY <1>1, <1>2, <1>3, <1>4, <1>5, <1>6, <1>7, <1>8
\* runs, each as RunScanners may keep it, and full, each as a complete scan would.
Compared(cl, runs, full) ==
    /\ \A r \in DOMAIN Objects : cl[r] \subseteq Objects[r]
    /\ DOMAIN full = DOMAIN runs
    /\ \A s \in DOMAIN runs : /\ s \in scanners
                              /\ Ran(s, cl, runs[s])
                              /\ full[s] = Result(s, cl, allOK(s))

\* A scanner with one list that did not err measures what the complete run would.
LEMMA SingleMeasure ==
    ASSUME NEW s \in singleList, NEW cl, NEW out, Finished(s, cl, out), Finish(s, out) # "errored",
           s \in {"workload-security", "vulnerabilities"} => out[1] = "ok"
    PROVE  Measure(s, cl, out) = Measure(s, cl, allOK(s)) /\ Measure(s, cl, allOK(s)) # NoData
<1>1. s \in scanners /\ DOMAIN reads[s] = 1 .. 1 /\ DOMAIN out = 1 .. 1
  BY SingleList DEF singleList, scanners, ownList
<1>2. /\ lists(cl, gotten(s, out))[reads[s][1].what] = cl[reads[s][1].what]
      /\ lists(cl, gotten(s, allOK(s)))[reads[s][1].what] = cl[reads[s][1].what]
  BY <1>1, SingleList, AllAnswered
<1>3. gotten(s, allOK(s)) # {}
  BY <1>1, AllAnswered
<1>4. s \in {"workload-security", "vulnerabilities"} => gotten(s, out) # {}
  BY <1>1 DEF gotten
<1>5. CASE s = "node-health"
  <2>1. reads[s][1].what = "nodes"
    BY <1>5, WhatOf
  <2> QED BY <1>2, <2>1, <1>5, MeasureSingle, PayloadsNotEmpty
<1>6. CASE s = "cluster-info"
  <2>1. reads[s][1].what = "nodes"
    BY <1>6, WhatOf
  <2> QED BY <1>2, <2>1, <1>6, MeasureSingle, PayloadsNotEmpty
<1>7. CASE s = "namespaces"
  <2>1. reads[s][1].what = "namespaces"
    BY <1>7, WhatOf
  <2> QED BY <1>2, <2>1, <1>7, MeasureSingle, PayloadsNotEmpty
<1>8. CASE s = "security"
  <2>1. reads[s][1].what = "namespaces"
    BY <1>8, WhatOf
  <2> QED BY <1>2, <2>1, <1>8, MeasureSingle, PayloadsNotEmpty
<1>9. CASE s = "image-audit"
  <2>1. reads[s][1].what = "pods"
    BY <1>9, WhatOf
  <2> QED BY <1>2, <2>1, <1>9, MeasureSingle, PayloadsNotEmpty
<1>10. CASE s = "events"
  <2>1. reads[s][1].what = "events"
    BY <1>10, WhatOf
  <2> QED BY <1>2, <2>1, <1>10, MeasureSingle, PayloadsNotEmpty
<1>11. CASE s = "workload-security"
  <2>1. reads[s][1].what = "pods"
    BY <1>11, WhatOf
  <2> QED BY <1>2, <1>3, <1>4, <2>1, <1>11, MeasureSingle, PayloadsNotEmpty
<1>12. CASE s = "vulnerabilities"
  <2>1. reads[s][1].what = "vulnerabilities"
    BY <1>12, WhatOf
  <2>2. (gotten(s, out) # {}) = TRUE /\ (gotten(s, allOK(s)) # {}) = TRUE
    BY <1>3, <1>4, <1>12
  <2> QED BY <1>2, <2>1, <2>2, <1>12, MeasureSingle, PayloadsNotEmpty
<1> QED BY <1>5, <1>6, <1>7, <1>8, <1>9, <1>10, <1>11, <1>12 DEF singleList

\* What a rule reads of a scanner with one list is what the complete scan saw.
LEMMA SingleData ==
    ASSUME NEW s \in singleList, NEW cl, NEW runs, NEW full, Compared(cl, runs, full), seen(runs, s),
           s = "vulnerabilities" => runs[s].data.available
    PROVE  /\ seen(full, s) /\ clusterView(full, s) = "observed"
           /\ full[s].data = runs[s].data
           /\ s \in DOMAIN runs
<1>0. s \in DOMAIN runs /\ s \in DOMAIN full /\ s \in scanners /\ s \notin {"version", "deprecated-apis"}
  BY DEF seen, clusterView, Compared, singleList
<1>1. PICK out \in Seq(Outcomes) :
              /\ Finished(s, cl, out)
              /\ Finish(s, out) # "errored"
              /\ runs[s].data = Measure(s, cl, out)
  BY <1>0, SeenRun DEF Compared
<1>2. runs[s].data # NoData
  BY DEF seen, clusterView
<1>3. ASSUME s = "workload-security" PROVE out[1] = "ok"
  <2>1. out[1] # "ok" => gotten(s, out) = {}
    BY <1>1, SingleList
  <2> QED BY <2>1, <1>1, <1>2, <1>3, MeasureSingle
<1>4. ASSUME s = "vulnerabilities" PROVE out[1] = "ok"
  <2>1. out[1] # "ok" => gotten(s, out) = {}
    BY <1>1, SingleList
  <2>2. runs[s].data.available = (gotten(s, out) # {})
    BY <1>1, <1>4, MeasureSingle DEF vulnerabilities
  <2> QED BY <2>1, <2>2, <1>4
<1>5. Measure(s, cl, out) = Measure(s, cl, allOK(s)) /\ Measure(s, cl, allOK(s)) # NoData
  BY <1>1, <1>3, <1>4, SingleMeasure
<1>6. full[s] = Result(s, cl, allOK(s))
  BY <1>0 DEF Compared
<1>7. seen(full, s) /\ clusterView(full, s) = "observed" /\ full[s].data = Measure(s, cl, allOK(s))
  BY <1>0, <1>5, <1>6, CompleteRun
<1> QED BY <1>0, <1>1, <1>5, <1>7

\* Each of the findings F is among G, as severe and with what it affects.
Dominated(F, G) ==
    \A f \in F : \E g \in G : /\ g.rule = f.rule /\ Rank(g.severity) >= Rank(f.severity)
                             /\ f.affected \subseteq g.affected

\* The ranks of the severities.
LEMMA RankRange == \A s : Rank(s) \in 1 .. 3
BY DEF Rank

\* Findings that are all among others are dominated by them.
LEMMA DominatedSubset ==
    ASSUME NEW F, NEW G, F \subseteq G
    PROVE  Dominated(F, G)
BY RankRange DEF Dominated

\* Domination of findings taken together.
LEMMA DominatedUnion ==
    ASSUME NEW F1, NEW F2, NEW G1, NEW G2, Dominated(F1, G1), Dominated(F2, G2)
    PROVE  Dominated(F1 \cup F2, G1 \cup G2)
BY DEF Dominated

\* A rule that also fires, as severe and on as much, dominates.
LEMMA DominatedRaise ==
    ASSUME NEW c1, NEW c2, NEW rule, NEW s1, NEW s2, NEW a1, NEW a2,
           c1 => c2, c1 => Rank(s2) >= Rank(s1), c1 => a1 \subseteq a2
    PROVE  Dominated(Raise(c1, rule, s1, a1), Raise(c2, rule, s2, a2))
<1>1. CASE c1
  <2>1. Raise(c1, rule, s1, a1) = {[rule |-> rule, severity |-> s1, affected |-> a1]}
    BY <1>1 DEF Raise
  <2>2. Raise(c2, rule, s2, a2) = {[rule |-> rule, severity |-> s2, affected |-> a2]}
    BY <1>1 DEF Raise
  <2>3. /\ [rule |-> rule, severity |-> s1, affected |-> a1].rule = [rule |-> rule, severity |-> s2, affected |-> a2].rule
        /\ [rule |-> rule, severity |-> s1, affected |-> a1].severity = s1
        /\ [rule |-> rule, severity |-> s2, affected |-> a2].severity = s2
        /\ [rule |-> rule, severity |-> s1, affected |-> a1].affected = a1
        /\ [rule |-> rule, severity |-> s2, affected |-> a2].affected = a2
    OBVIOUS
  <2> QED BY <1>1, <2>1, <2>2, <2>3, Zenon DEF Dominated
<1>2. CASE ~c1
  BY <1>2 DEF Dominated, Raise
<1> QED BY <1>1, <1>2

\* Rules on the data of scanners with one list: the complete scan raises them too.
LEMMA NothingDominated ==
    ASSUME NEW G
    PROVE  Dominated({}, G)
BY DEF Dominated

\* Rules on one list fire on equal payloads: nodes, pods, images, cluster info and reports
\* of vulnerabilities.
LEMMA EqualDataRules ==
    ASSUME NEW cl, NEW runs, NEW full, Compared(cl, runs, full)
    PROVE  /\ Dominated(nodeHealthFindings(runs), nodeHealthFindings(full))
           /\ Dominated(workloadSecFindings(runs), workloadSecFindings(full))
           /\ Dominated(imageAuditFindings(runs), imageAuditFindings(full))
           /\ Dominated(clusterInfoFindings(runs), clusterInfoFindings(full))
           /\ Dominated(vulnerabilityFindings(runs), vulnerabilityFindings(full))
<1>1. Dominated(nodeHealthFindings(runs), nodeHealthFindings(full))
  <2>1. CASE ~seen(runs, "node-health")
    BY <2>1, NothingDominated DEF nodeHealthFindings
  <2>2. CASE seen(runs, "node-health")
    <3>1. seen(full, "node-health") /\ full["node-health"].data = runs["node-health"].data
      BY <2>2, SingleData DEF singleList
    <3>2. nodeHealthFindings(runs) = nodeHealthFindings(full)
      BY <2>2, <3>1, Zenon DEF nodeHealthFindings
    <3> QED BY <3>2, DominatedSubset
  <2> QED BY <2>1, <2>2
<1>2. Dominated(workloadSecFindings(runs), workloadSecFindings(full))
  <2>1. CASE ~seen(runs, "workload-security")
    BY <2>1, NothingDominated DEF workloadSecFindings
  <2>2. CASE seen(runs, "workload-security")
    <3>1. seen(full, "workload-security") /\ full["workload-security"].data = runs["workload-security"].data
      BY <2>2, SingleData DEF singleList
    <3>2. workloadSecFindings(runs) = workloadSecFindings(full)
      BY <2>2, <3>1, Zenon DEF workloadSecFindings
    <3> QED BY <3>2, DominatedSubset
  <2> QED BY <2>1, <2>2
<1>3. Dominated(imageAuditFindings(runs), imageAuditFindings(full))
  <2>1. CASE ~seen(runs, "image-audit")
    BY <2>1, NothingDominated DEF imageAuditFindings
  <2>2. CASE seen(runs, "image-audit")
    <3>1. seen(full, "image-audit") /\ full["image-audit"].data = runs["image-audit"].data
      BY <2>2, SingleData DEF singleList
    <3>2. imageAuditFindings(runs) = imageAuditFindings(full)
      BY <2>2, <3>1, Zenon DEF imageAuditFindings
    <3> QED BY <3>2, DominatedSubset
  <2> QED BY <2>1, <2>2
<1>4. Dominated(clusterInfoFindings(runs), clusterInfoFindings(full))
  <2>1. seen(runs, "cluster-info") =>
           seen(full, "cluster-info") /\ full["cluster-info"].data = runs["cluster-info"].data
    BY SingleData DEF singleList
  <2> DEFINE cond(r) == seen(r, "cluster-info") /\ field(r, "cluster-info", "has_drift")
  <2>2. cond(runs) => cond(full)
    BY <2>1, Zenon DEF field
  <2>3. /\ clusterInfoFindings(runs) = Raise(cond(runs), "cluster-info/node-platform-drift", "warning", {})
        /\ clusterInfoFindings(full) = Raise(cond(full), "cluster-info/node-platform-drift", "warning", {})
    BY Zenon DEF clusterInfoFindings
  <2> HIDE DEF cond
  <2> QED BY <2>2, <2>3, RankRange, DominatedRaise
<1>5. Dominated(vulnerabilityFindings(runs), vulnerabilityFindings(full))
  <2>1. seen(runs, "vulnerabilities") /\ field(runs, "vulnerabilities", "available")
         => seen(full, "vulnerabilities") /\ full["vulnerabilities"].data = runs["vulnerabilities"].data
    BY SingleData DEF singleList, field
  <2> DEFINE cond(r) == seen(r, "vulnerabilities") /\ field(r, "vulnerabilities", "available")
                        /\ field(r, "vulnerabilities", "critical") > 0
  <2>2. cond(runs) => cond(full)
    BY <2>1, Zenon DEF field
  <2>3. /\ vulnerabilityFindings(runs) = Raise(cond(runs), "vulnerabilities/critical-present", "info", {})
        /\ vulnerabilityFindings(full) = Raise(cond(full), "vulnerabilities/critical-present", "info", {})
    BY Zenon DEF vulnerabilityFindings
  <2> HIDE DEF cond
  <2> QED BY <2>2, <2>3, RankRange, DominatedRaise
<1> QED BY <1>1, <1>2, <1>3, <1>4, <1>5

\* The rule on the Pod Security labels of the namespaces.
LEMMA SecurityRule ==
    ASSUME NEW cl, NEW runs, NEW full, Compared(cl, runs, full)
    PROVE  Dominated(securityFindings(runs), securityFindings(full))
<1>1. CASE ~seen(runs, "security")
  BY <1>1, NothingDominated DEF securityFindings
<1>2. CASE seen(runs, "security")
  <2> DEFINE d == runs["security"].data
             unlabeled == {n \in d.namespaces : n.enforce = ""}
             listed == ids(unlabeled \cup {n \in d.namespaces : n.enforce = "privileged"})
             severity == IF 2 * Num(unlabeled) > d.namespace_count THEN "critical" ELSE "warning"
             all == Num(unlabeled) = d.namespace_count
             cond(r) == unlabeled # {} /\ (all => clusterView(r, "security") = "observed")
  <2>1. seen(full, "security") /\ full["security"].data = d /\ clusterView(full, "security") = "observed"
    BY <1>2, SingleData DEF singleList
  <2>2. securityFindings(runs) = Raise(cond(runs), "security/psa-unenforced", severity, listed)
    BY <1>2, Zenon DEF securityFindings
  <2>3. securityFindings(full) = Raise(cond(full), "security/psa-unenforced", severity, listed)
    BY <2>1, Zenon DEF securityFindings
  <2>4. cond(runs) => cond(full)
    BY <2>1
  <2> HIDE DEF cond, severity, listed
  <2> QED BY <2>2, <2>3, <2>4, RankRange, DominatedRaise
<1> QED BY <1>1, <1>2

\* The rules on the warning events.
LEMMA EventRule ==
    ASSUME NEW cl, NEW runs, NEW full, Compared(cl, runs, full)
    PROVE  Dominated(eventFindings(runs), eventFindings(full))
<1> DEFINE n(r) == field(r, "events", "warning_events")
           over(r, perNode) == seen(r, "node-health")
                               /\ n(r) > perNode * Max({1, field(r, "node-health", "node_count")})
           severity(r) == IF over(r, 20) \/ n(r) > 1000 THEN "critical"
                          ELSE IF over(r, 5) \/ n(r) > 200 THEN "warning" ELSE "info"
<1>1. CASE ~seen(runs, "events") \/ n(runs) = 0
  <2>1. eventFindings(runs) = {}
    BY <1>1, Zenon DEF eventFindings
  <2> QED BY <2>1, NothingDominated
<1>2. CASE seen(runs, "events") /\ n(runs) # 0
  <2>1. seen(full, "events") /\ n(full) = n(runs)
    BY <1>2, SingleData DEF singleList, field
  <2>2. seen(runs, "node-health") => seen(full, "node-health")
            /\ field(full, "node-health", "node_count") = field(runs, "node-health", "node_count")
    BY SingleData DEF singleList, field
  <2>3. \A perNode : over(runs, perNode) => over(full, perNode)
    BY <2>1, <2>2, Zenon
  <2>4. eventFindings(runs) = Raise(TRUE, "events/warning-volume", severity(runs), {})
    BY <1>2, Zenon DEF eventFindings
  <2>5. eventFindings(full) = Raise(TRUE, "events/warning-volume", severity(full), {})
    BY <1>2, <2>1, Zenon DEF eventFindings
  <2>6. Rank("critical") = 3 /\ Rank("warning") = 2 /\ Rank("info") = 1
    BY DEF Rank
  <2>7. Rank(severity(full)) >= Rank(severity(runs))
    <3>1. (n(runs) > 1000 => n(full) > 1000) /\ (n(runs) > 200 => n(full) > 200)
      BY <2>1
    <3> HIDE DEF over, n
    <3> QED BY <2>3, <2>6, <3>1, RankRange
  <2> HIDE DEF severity
  <2> QED BY <2>4, <2>5, <2>7, DominatedRaise
<1> QED BY <1>1, <1>2

\* The rule that joins events, workloads and nodes into a bad deployment.
LEMMA CompositeRule ==
    ASSUME NEW cl, NEW runs, NEW full, Compared(cl, runs, full)
    PROVE  Dominated(compositeBadDeployFindings(runs), compositeBadDeployFindings(full))
<1> DEFINE namespacesWith(r, s, f) == IF seen(r, s) THEN {o.ns : o \in field(r, s, f)} ELSE {}
           failing(r) == IF seen(r, "events")
                         THEN {e.ns : e \in With(field(r, "events", "recent_warnings"), "failure")} ELSE {}
           overlap(r) == namespacesWith(r, "image-audit", "image_risks") \cap failing(r)
                         \cap namespacesWith(r, "workload-security", "high_risk_pods")
           cond(r) == {"image-audit", "events"} \subseteq DOMAIN r /\ overlap(r) # {}
<1>1. \A s \in {"image-audit", "workload-security", "events"} :
         seen(runs, s) => seen(full, s) /\ full[s].data = runs[s].data
  BY SingleData DEF singleList
<1>2. namespacesWith(runs, "image-audit", "image_risks") \subseteq namespacesWith(full, "image-audit", "image_risks")
  BY <1>1 DEF field
<1>3. namespacesWith(runs, "workload-security", "high_risk_pods")
        \subseteq namespacesWith(full, "workload-security", "high_risk_pods")
  BY <1>1 DEF field
<1>4. failing(runs) \subseteq failing(full)
  BY <1>1 DEF field
<1>5. DOMAIN full = DOMAIN runs
  BY DEF Compared
<1>6. /\ compositeBadDeployFindings(runs) = Raise(cond(runs), "image-audit/bad-deploy", "critical", overlap(runs))
      /\ compositeBadDeployFindings(full) = Raise(cond(full), "image-audit/bad-deploy", "critical", overlap(full))
  BY Zenon DEF compositeBadDeployFindings
<1> HIDE DEF namespacesWith, failing
<1>7. overlap(runs) \subseteq overlap(full)
  BY <1>2, <1>3, <1>4
<1> HIDE DEF overlap
<1>8. cond(runs) => cond(full)
  BY <1>5, <1>7
<1> HIDE DEF cond
<1> QED BY <1>6, <1>7, <1>8, RankRange, DominatedRaise

\* The scanners with rules and several lists.
manyLists ==
    {"network-policies", "resource-quotas", "rbac-audit", "certs", "admission", "workload-coverage"}

\* What the scanners with rules and several lists measure.
LEMMA MeasureMany ==
    ASSUME NEW cl, NEW out
    PROVE  /\ Measure("network-policies", cl, out) =
                 networkPolicies(lists(cl, gotten("network-policies", out))["network-policies"],
                                 lists(cl, gotten("network-policies", out))["namespaces"])
           /\ Measure("resource-quotas", cl, out) =
                 resourceQuotas(lists(cl, gotten("resource-quotas", out))["resource-quotas"],
                                lists(cl, gotten("resource-quotas", out))["limit-ranges"])
           /\ Measure("rbac-audit", cl, out) =
                 rbacAudit(lists(cl, gotten("rbac-audit", out))["cluster-roles"],
                           lists(cl, gotten("rbac-audit", out))["cluster-role-bindings"],
                           lists(cl, gotten("rbac-audit", out))["role-bindings"],
                           lists(cl, gotten("rbac-audit", out))["pods"])
           /\ Measure("certs", cl, out) =
                 certs(lists(cl, gotten("certs", out))["secrets"], lists(cl, gotten("certs", out))["mutating"],
                       lists(cl, gotten("certs", out))["validating"])
           /\ Measure("admission", cl, out) =
                 admission(lists(cl, gotten("admission", out))["mutating"]
                               \cup lists(cl, gotten("admission", out))["validating"],
                           "endpoints" \in gotten("admission", out))
           /\ Measure("workload-coverage", cl, out) =
                 workloadCoverage(lists(cl, gotten("workload-coverage", out))["pdbs"],
                                  "pdbs" \in gotten("workload-coverage", out),
                                  lists(cl, gotten("workload-coverage", out))["hpas"],
                                  "hpas" \in gotten("workload-coverage", out),
                                  lists(cl, gotten("workload-coverage", out))["deployments"]
                                      \cup lists(cl, gotten("workload-coverage", out))["statefulsets"])
<1>1. Measure("network-policies", cl, out) =
         networkPolicies(lists(cl, gotten("network-policies", out))["network-policies"],
                         lists(cl, gotten("network-policies", out))["namespaces"])
  BY DEF Measure
<1>2. Measure("resource-quotas", cl, out) =
         resourceQuotas(lists(cl, gotten("resource-quotas", out))["resource-quotas"],
                        lists(cl, gotten("resource-quotas", out))["limit-ranges"])
  BY DEF Measure
<1>3. Measure("rbac-audit", cl, out) =
         rbacAudit(lists(cl, gotten("rbac-audit", out))["cluster-roles"],
                   lists(cl, gotten("rbac-audit", out))["cluster-role-bindings"],
                   lists(cl, gotten("rbac-audit", out))["role-bindings"],
                   lists(cl, gotten("rbac-audit", out))["pods"])
  BY DEF Measure
<1>4. Measure("certs", cl, out) =
         certs(lists(cl, gotten("certs", out))["secrets"], lists(cl, gotten("certs", out))["mutating"],
               lists(cl, gotten("certs", out))["validating"])
  BY DEF Measure
<1>5. Measure("admission", cl, out) =
         admission(lists(cl, gotten("admission", out))["mutating"]
                       \cup lists(cl, gotten("admission", out))["validating"],
                   "endpoints" \in gotten("admission", out))
  BY DEF Measure
<1>6. Measure("workload-coverage", cl, out) =
         workloadCoverage(lists(cl, gotten("workload-coverage", out))["pdbs"],
                          "pdbs" \in gotten("workload-coverage", out),
                          lists(cl, gotten("workload-coverage", out))["hpas"],
                          "hpas" \in gotten("workload-coverage", out),
                          lists(cl, gotten("workload-coverage", out))["deployments"]
                              \cup lists(cl, gotten("workload-coverage", out))["statefulsets"])
  BY DEF Measure
<1> QED BY <1>1, <1>2, <1>3, <1>4, <1>5, <1>6

\* The payload of a scanner with several lists is never the empty one.
LEMMA ManyNotEmpty ==
    ASSUME NEW s \in manyLists, NEW cl, NEW out
    PROVE  Measure(s, cl, out) # NoData
<1>1. CASE s = "network-policies"
  <2>1. \E v, w : Measure("network-policies", cl, out) = networkPolicies(v, w)
    BY MeasureMany
  <2> QED BY <1>1, <2>1, PayloadsNotEmpty
<1>2. CASE s = "resource-quotas"
  <2>1. \E v, w : Measure("resource-quotas", cl, out) = resourceQuotas(v, w)
    BY MeasureMany
  <2> QED BY <1>2, <2>1, PayloadsNotEmpty
<1>3. CASE s = "rbac-audit"
  <2>1. \E v, w, x, y : Measure("rbac-audit", cl, out) = rbacAudit(v, w, x, y)
    BY MeasureMany
  <2> QED BY <1>3, <2>1, PayloadsNotEmpty
<1>4. CASE s = "certs"
  <2>1. \E v, w, x : Measure("certs", cl, out) = certs(v, w, x)
    BY MeasureMany
  <2> QED BY <1>4, <2>1, PayloadsNotEmpty
<1>5. CASE s = "admission"
  <2>1. \E v, w : Measure("admission", cl, out) = admission(v, w)
    BY MeasureMany
  <2> QED BY <1>5, <2>1, PayloadsNotEmpty
<1>6. CASE s = "workload-coverage"
  <2>1. \E v, w, x, y, z : Measure("workload-coverage", cl, out) = workloadCoverage(v, w, x, y, z)
    BY MeasureMany
  <2> QED BY <1>6, <2>1, PayloadsNotEmpty
<1> QED BY <1>1, <1>2, <1>3, <1>4, <1>5, <1>6 DEF manyLists

\* A run with several lists that the rules look into, against the complete run.
LEMMA ManyData ==
    ASSUME NEW s \in manyLists, NEW cl, NEW runs, NEW full, Compared(cl, runs, full), seen(runs, s)
    PROVE  /\ seen(full, s) /\ clusterView(full, s) = "observed"
           /\ full[s].data = Measure(s, cl, allOK(s))
           /\ \E out \in Seq(Outcomes) :
                 /\ Finished(s, cl, out)
                 /\ DOMAIN out = DOMAIN reads[s]
                 /\ runs[s].data = Measure(s, cl, out)
                 /\ Finish(s, out) # "errored"
                 /\ clusterView(runs, s) = "observed" => \A i \in DOMAIN reads[s] : out[i] \in {"ok", "unserved"}
<1>0. /\ s \in DOMAIN runs /\ s \in DOMAIN full /\ s \in scanners
      /\ s \notin {"version", "deprecated-apis", "metrics"}
  BY DEF seen, clusterView, Compared, manyLists
<1>1. PICK out \in Seq(Outcomes) :
              /\ Finished(s, cl, out)
              /\ Finish(s, out) # "errored"
              /\ runs[s].state = Finish(s, out)
              /\ runs[s].data = Measure(s, cl, out)
  BY <1>0, SeenRun DEF Compared
<1>2. /\ DOMAIN out = DOMAIN reads[s]
      /\ Finish(s, out) \in {"ok", "unavailable"} => \A i \in DOMAIN reads[s] : out[i] \in {"ok", "unserved"}
  BY <1>0, <1>1, WholeRun
<1>3. clusterView(runs, s) = "observed" => Finish(s, out) \in {"ok", "unavailable"}
  BY <1>0, <1>1, FinishTrusts DEF clusterView
<1>4. Measure(s, cl, allOK(s)) # NoData
  BY ManyNotEmpty
<1>5. full[s] = Result(s, cl, allOK(s))
  BY <1>0 DEF Compared
<1>6. seen(full, s) /\ clusterView(full, s) = "observed" /\ full[s].data = Measure(s, cl, allOK(s))
  BY <1>0, <1>4, <1>5, CompleteRun
<1> QED BY <1>1, <1>2, <1>3, <1>6

\* The lists a run has, against those of the complete scan.
LEMMA ListsOf ==
    ASSUME NEW s \in manyLists, NEW cl, NEW out, Finished(s, cl, out), DOMAIN out = DOMAIN reads[s],
           NEW i \in DOMAIN reads[s]
    PROVE  /\ lists(cl, gotten(s, out))[reads[s][i].what] \subseteq lists(cl, gotten(s, allOK(s)))[reads[s][i].what]
           /\ lists(cl, gotten(s, allOK(s)))[reads[s][i].what] = cl[reads[s][i].what]
           /\ reads[s][i].what \in gotten(s, allOK(s))
           /\ out[i] \in {"ok", "unserved"} =>
                 lists(cl, gotten(s, out))[reads[s][i].what] = cl[reads[s][i].what]
<1>1. s \in scanners
  BY DEF manyLists, scanners
<1>2. reads[s][i].what \in DOMAIN Objects
  BY <1>1, ScannersAssumption
<1>3. /\ lists(cl, gotten(s, allOK(s)))[reads[s][i].what] = cl[reads[s][i].what]
      /\ reads[s][i].what \in gotten(s, allOK(s))
  BY <1>1, AllAnswered
<1>4. lists(cl, gotten(s, out))[reads[s][i].what] \subseteq cl[reads[s][i].what]
  BY <1>2, ListPart
<1>5. out[i] \in {"ok", "unserved"} => lists(cl, gotten(s, out))[reads[s][i].what] = cl[reads[s][i].what]
  BY <1>1, ListAnswered DEF Finished
<1> HIDE DEF lists, gotten, allOK
<1> QED BY <1>3, <1>4, <1>5

\* The places of the reads of the scanners with several lists.
LEMMA PlacesOf ==
    /\ DOMAIN reads["network-policies"] = 1 .. 2 /\ DOMAIN reads["resource-quotas"] = 1 .. 2
    /\ DOMAIN reads["rbac-audit"] = 1 .. 4 /\ DOMAIN reads["certs"] = 1 .. 3
    /\ DOMAIN reads["admission"] = 1 .. 3 /\ DOMAIN reads["workload-coverage"] = 1 .. 4
<1>1. DOMAIN reads["network-policies"] = 1 .. 2
  BY ReadsOf
<1>2. DOMAIN reads["resource-quotas"] = 1 .. 2
  BY ReadsOf
<1>3. DOMAIN reads["rbac-audit"] = 1 .. 4
  BY ReadsOf
<1>4. DOMAIN reads["certs"] = 1 .. 3
  BY ReadsOf
<1>5. DOMAIN reads["admission"] = 1 .. 3
  BY ReadsOf
<1>6. DOMAIN reads["workload-coverage"] = 1 .. 4
  BY ReadsOf
<1> QED BY <1>1, <1>2, <1>3, <1>4, <1>5, <1>6

\* The rule on quotas: both lists are required, so a run that counts has them whole.
LEMMA QuotaRule ==
    ASSUME NEW cl, NEW runs, NEW full, Compared(cl, runs, full)
    PROVE  Dominated(quotaFindings(runs), quotaFindings(full))
<1> DEFINE s == "resource-quotas"
           cond(r) == /\ clusterView(r, "resource-quotas") = "observed" /\ seen(r, "namespaces")
                      /\ field(r, "namespaces", "count") > 0
                      /\ field(r, "resource-quotas", "namespaces_with_quotas") = 0
<1>1. /\ quotaFindings(runs) = Raise(cond(runs), "resource-quotas/no-quota", "warning", {})
      /\ quotaFindings(full) = Raise(cond(full), "resource-quotas/no-quota", "warning", {})
  BY Zenon DEF quotaFindings
<1>2. ASSUME cond(runs) PROVE cond(full)
  <2>1. seen(full, "namespaces") /\ full["namespaces"].data = runs["namespaces"].data
    BY <1>2, SingleData DEF singleList
  <2>2. seen(runs, s)
    BY <1>2 DEF seen
  <2>3. clusterView(full, s) = "observed" /\ full[s].data = Measure(s, cl, allOK(s))
    BY <2>2, ManyData DEF manyLists
  <2>4. PICK out \in Seq(Outcomes) :
                 /\ Finished(s, cl, out)
                 /\ DOMAIN out = DOMAIN reads[s]
                 /\ runs[s].data = Measure(s, cl, out)
                 /\ \A i \in DOMAIN reads[s] : out[i] \in {"ok", "unserved"}
    BY <1>2, <2>2, ManyData DEF manyLists
  <2>5. 1 \in DOMAIN reads[s] /\ 2 \in DOMAIN reads[s] /\ s \in manyLists
    BY PlacesOf DEF manyLists
  <2>6. \A i \in {1, 2} : lists(cl, gotten(s, out))[reads[s][i].what] = lists(cl, gotten(s, allOK(s)))[reads[s][i].what]
    BY <2>4, <2>5, ListsOf
  <2>7. reads[s][1].what = "resource-quotas" /\ reads[s][2].what = "limit-ranges"
    BY WhatOf
  <2>8. Measure(s, cl, out) = Measure(s, cl, allOK(s))
    BY <2>6, <2>7, MeasureMany
  <2> QED BY <1>2, <2>1, <2>3, <2>4, <2>8 DEF field
<1> HIDE DEF cond
<1> QED BY <1>1, <1>2, RankRange, DominatedRaise

\* The rule on network policies: both lists are required.
LEMMA NetworkRule ==
    ASSUME NEW cl, NEW runs, NEW full, Compared(cl, runs, full)
    PROVE  Dominated(networkFindings(runs), networkFindings(full))
<1> DEFINE s == "network-policies"
           cond(r) == clusterView(r, "network-policies") = "observed"
                      /\ field(r, "network-policies", "namespaces_without_policies") > 0
<1>1. /\ networkFindings(runs) = Raise(cond(runs), "network-policies/no-policy", "warning", {})
      /\ networkFindings(full) = Raise(cond(full), "network-policies/no-policy", "warning", {})
  BY Zenon DEF networkFindings
<1>2. ASSUME cond(runs) PROVE cond(full)
  <2>2. seen(runs, s)
    BY <1>2 DEF seen
  <2>3. clusterView(full, s) = "observed" /\ full[s].data = Measure(s, cl, allOK(s))
    BY <2>2, ManyData DEF manyLists
  <2>4. PICK out \in Seq(Outcomes) :
                 /\ Finished(s, cl, out)
                 /\ DOMAIN out = DOMAIN reads[s]
                 /\ runs[s].data = Measure(s, cl, out)
                 /\ \A i \in DOMAIN reads[s] : out[i] \in {"ok", "unserved"}
    BY <1>2, <2>2, ManyData DEF manyLists
  <2>5. 1 \in DOMAIN reads[s] /\ 2 \in DOMAIN reads[s] /\ s \in manyLists
    BY PlacesOf DEF manyLists
  <2>6. \A i \in {1, 2} : lists(cl, gotten(s, out))[reads[s][i].what] = lists(cl, gotten(s, allOK(s)))[reads[s][i].what]
    BY <2>4, <2>5, ListsOf
  <2>7. reads[s][1].what = "network-policies" /\ reads[s][2].what = "namespaces"
    BY WhatOf
  <2>8. Measure(s, cl, out) = Measure(s, cl, allOK(s))
    BY <2>6, <2>7, MeasureMany
  <2> QED BY <1>2, <2>3, <2>4, <2>8 DEF field
<1> HIDE DEF cond
<1> QED BY <1>1, <1>2, RankRange, DominatedRaise

\* A count is positive in a larger finite set too.
LEMMA NumGrows ==
    ASSUME NEW S, NEW T, S \subseteq T, IsFiniteSet(T), Num(S) > 0
    PROVE  Num(T) > 0
<1>1. Cardinality({}) = 0
  BY FS_EmptySet
<1>2. S # {}
  BY <1>1 DEF Num
<1>3. T # {}
  BY <1>2
<1>4. Cardinality(T) \in Nat /\ Cardinality(T) # 0
  BY <1>3, FS_CardinalityType, FS_EmptySet
<1> QED BY <1>4 DEF Num

\* A rule on the ids of a list fires on a longer list with all of them.
LEMMA IdsRaised ==
    ASSUME NEW rule, NEW severity, NEW S, NEW T, ids(S) \subseteq ids(T)
    PROVE  Dominated(Raise(S # {}, rule, severity, ids(S)), Raise(T # {}, rule, severity, ids(T)))
<1>1. S # {} => T # {}
  BY DEF ids
<1>2. Rank(severity) >= Rank(severity)
  BY RankRange
<1> QED BY <1>1, <1>2, DominatedRaise

\* The rules on certificates: one that expires is in the complete list too.
LEMMA CertRule ==
    ASSUME NEW cl, NEW runs, NEW full, Compared(cl, runs, full)
    PROVE  Dominated(certFindings(runs), certFindings(full))
<1> DEFINE s == "certs"
<1>1. CASE ~seen(runs, "certs")
  BY <1>1, NothingDominated DEF certFindings
<1>2. CASE seen(runs, "certs")
  <2>1. seen(full, s) /\ full[s].data = Measure(s, cl, allOK(s))
    BY <1>2, ManyData DEF manyLists
  <2>2. PICK out \in Seq(Outcomes) :
                 /\ Finished(s, cl, out)
                 /\ DOMAIN out = DOMAIN reads[s]
                 /\ runs[s].data = Measure(s, cl, out)
    BY <1>2, ManyData DEF manyLists
  <2> DEFINE L == lists(cl, gotten(s, out))
             A == lists(cl, gotten(s, allOK(s)))
             bundles(S) == {w \in S : w.days # Nil}
             all(l) == l["secrets"] \cup bundles(l["mutating"]) \cup bundles(l["validating"])
             critical(S) == {c \in S : c.days < 7}
             warning(S) == {c \in S : c.days \in 7 .. 29}
  <2>3. 1 \in DOMAIN reads[s] /\ 2 \in DOMAIN reads[s] /\ 3 \in DOMAIN reads[s] /\ s \in manyLists
    BY PlacesOf DEF manyLists
  <2>4. \A i \in {1, 2, 3} : L[reads[s][i].what] \subseteq A[reads[s][i].what]
    BY <2>2, <2>3, ListsOf
  <2>5. reads[s][1].what = "secrets" /\ reads[s][2].what = "mutating" /\ reads[s][3].what = "validating"
    BY WhatOf
  <2>6. all(L) \subseteq all(A)
    <3>1. L["secrets"] \subseteq A["secrets"] /\ L["mutating"] \subseteq A["mutating"]
           /\ L["validating"] \subseteq A["validating"]
      BY <2>4, <2>5
    <3> HIDE DEF L, A
    <3> QED BY <3>1
  <2>7. runs[s].data.certs = all(L) /\ full[s].data.certs = all(A)
    <3>1. \A x, y, z : certs(x, y, z).certs = x \cup bundles(y) \cup bundles(z)
      BY DEF certs
    <3>2. /\ runs[s].data = certs(L["secrets"], L["mutating"], L["validating"])
          /\ full[s].data = certs(A["secrets"], A["mutating"], A["validating"])
      BY <2>1, <2>2, MeasureMany, Zenon
    <3> HIDE DEF L, A, bundles
    <3> QED BY <3>1, <3>2
  <2>8. /\ certFindings(runs) = Raise(critical(all(L)) # {}, "certs/expiring-7d", "critical", ids(critical(all(L))))
              \cup Raise(warning(all(L)) # {}, "certs/expiring-30d", "warning", ids(warning(all(L))))
        /\ certFindings(full) = Raise(critical(all(A)) # {}, "certs/expiring-7d", "critical", ids(critical(all(A))))
              \cup Raise(warning(all(A)) # {}, "certs/expiring-30d", "warning", ids(warning(all(A))))
    BY <1>2, <2>1, <2>7, Zenon DEF certFindings, field
  <2> HIDE DEF all
  <2>9. critical(all(L)) \subseteq critical(all(A)) /\ warning(all(L)) \subseteq warning(all(A))
    BY <2>6
  <2> HIDE DEF critical, warning
  <2>10. ids(critical(all(L))) \subseteq ids(critical(all(A))) /\ ids(warning(all(L))) \subseteq ids(warning(all(A)))
    BY <2>9 DEF ids
  <2>11. Dominated(Raise(critical(all(L)) # {}, "certs/expiring-7d", "critical", ids(critical(all(L)))),
                   Raise(critical(all(A)) # {}, "certs/expiring-7d", "critical", ids(critical(all(A)))))
    BY <2>10, IdsRaised
  <2>12. Dominated(Raise(warning(all(L)) # {}, "certs/expiring-30d", "warning", ids(warning(all(L)))),
                   Raise(warning(all(A)) # {}, "certs/expiring-30d", "warning", ids(warning(all(A)))))
    BY <2>10, IdsRaised
  <2> QED BY <2>8, <2>11, <2>12, DominatedUnion
<1> QED BY <1>1, <1>2

\* The rules on webhooks: backends are judged only when the endpoints were read.
LEMMA AdmissionRule ==
    ASSUME NEW cl, NEW runs, NEW full, Compared(cl, runs, full)
    PROVE  Dominated(admissionFindings(runs), admissionFindings(full))
<1> DEFINE s == "admission"
<1>1. CASE ~seen(runs, "admission")
  BY <1>1, NothingDominated DEF admissionFindings
<1>2. CASE seen(runs, "admission")
  <2>1. seen(full, s) /\ full[s].data = Measure(s, cl, allOK(s))
    BY <1>2, ManyData DEF manyLists
  <2>2. PICK out \in Seq(Outcomes) :
                 /\ Finished(s, cl, out)
                 /\ DOMAIN out = DOMAIN reads[s]
                 /\ runs[s].data = Measure(s, cl, out)
    BY <1>2, ManyData DEF manyLists
  <2> DEFINE L == lists(cl, gotten(s, out))
             A == lists(cl, gotten(s, allOK(s)))
             hooks(l) == l["mutating"] \cup l["validating"]
             known == "endpoints" \in gotten(s, out)
             entry(k, w) == [id |-> w.id, service |-> w.service # "none",
                             healthy |-> k /\ w.service = "up", unknown |-> ~k,
                             ca_days |-> IF w.days = Nil THEN -1 ELSE w.days]
             list(k, l) == {entry(k, w) : w \in hooks(l)}
             unhealthy(S) == {e \in S : e.service /\ ~e.unknown /\ ~e.healthy}
             expiring(S) == {e \in S : e.ca_days \in 0 .. 29}
             U(S) == Raise(S # {}, "admission/no-healthy-endpoints", "critical", ids(S))
             E(S) == Raise(S # {}, "admission/ca-expiring", "warning", ids(S))
  <2>3. 1 \in DOMAIN reads[s] /\ 2 \in DOMAIN reads[s] /\ 3 \in DOMAIN reads[s] /\ s \in manyLists
    BY PlacesOf DEF manyLists
  <2>4. \A i \in {1, 2} : L[reads[s][i].what] \subseteq A[reads[s][i].what]
    BY <2>2, <2>3, ListsOf
  <2>5. reads[s][1].what = "mutating" /\ reads[s][2].what = "validating" /\ reads[s][3].what = "endpoints"
    BY WhatOf
  <2>6. hooks(L) \subseteq hooks(A)
    <3>1. L["mutating"] \subseteq A["mutating"] /\ L["validating"] \subseteq A["validating"]
      BY <2>4, <2>5
    <3> HIDE DEF L, A
    <3> QED BY <3>1
  <2>7. "endpoints" \in gotten(s, allOK(s))
    BY <2>2, <2>3, <2>5, ListsOf
  <2>8. ("endpoints" \in gotten(s, allOK(s))) = TRUE
    BY <2>7
  <2>9. runs[s].data = admission(hooks(L), known) /\ full[s].data = admission(hooks(A), TRUE)
    BY <2>1, <2>2, <2>8, MeasureMany, Zenon
  <2>10. runs[s].data.webhooks = list(known, L) /\ full[s].data.webhooks = list(TRUE, A)
    BY <2>9 DEF admission
  <2>11. /\ admissionFindings(runs) = U(unhealthy(list(known, L))) \cup E(expiring(list(known, L)))
         /\ admissionFindings(full) = U(unhealthy(list(TRUE, A))) \cup E(expiring(list(TRUE, A)))
    BY <1>2, <2>1, <2>10, Zenon DEF admissionFindings, field
  <2> HIDE DEF L, A, hooks, known
  <2>12. ids(unhealthy(list(known, L))) \subseteq ids(unhealthy(list(TRUE, A)))
    <3> SUFFICES ASSUME NEW e \in unhealthy(list(known, L)) PROVE e \in unhealthy(list(TRUE, A))
      BY DEF ids
    <3>1. PICK w \in hooks(L) : e = entry(known, w)
      OBVIOUS
    <3>2. entry(known, w).unknown = ~known
      OBVIOUS
    <3>3. known = TRUE
      BY <3>1, <3>2
    <3>4. e = entry(TRUE, w)
      BY <3>1, <3>3
    <3>5. e \in list(TRUE, A)
      BY <3>4, <2>6
    <3> QED BY <3>5
  <2>13. ids(expiring(list(known, L))) \subseteq ids(expiring(list(TRUE, A)))
    <3> SUFFICES ASSUME NEW e \in expiring(list(known, L))
                 PROVE \E g \in expiring(list(TRUE, A)) : g.id = e.id
      BY DEF ids
    <3>1. PICK w \in hooks(L) : e = entry(known, w)
      OBVIOUS
    <3>2. entry(TRUE, w) \in list(TRUE, A)
      BY <2>6
    <3>3. entry(TRUE, w).id = entry(known, w).id /\ entry(TRUE, w).ca_days = entry(known, w).ca_days
      OBVIOUS
    <3> HIDE DEF entry
    <3> QED BY <3>1, <3>2, <3>3
  <2> DEFINE part == list(known, L)
             whole == list(TRUE, A)
  <2>14. /\ admissionFindings(runs) = U(unhealthy(part)) \cup E(expiring(part))
         /\ admissionFindings(full) = U(unhealthy(whole)) \cup E(expiring(whole))
         /\ ids(unhealthy(part)) \subseteq ids(unhealthy(whole))
         /\ ids(expiring(part)) \subseteq ids(expiring(whole))
    BY <2>11, <2>12, <2>13, Zenon
  <2> HIDE DEF unhealthy, expiring, part, whole
  <2>15. Dominated(U(unhealthy(part)), U(unhealthy(whole))) /\ Dominated(E(expiring(part)), E(expiring(whole)))
    BY <2>14, IdsRaised
  <2> HIDE DEF U, E
  <2> QED BY <2>14, <2>15, DominatedUnion
<1> QED BY <1>1, <1>2

\* The bindings of the audit's role bindings are only missing, never invented.
LEMMA RbacRule ==
    ASSUME NEW cl, NEW runs, NEW full, Compared(cl, runs, full)
    PROVE  Dominated(rbacAuditFindings(runs), rbacAuditFindings(full))
<1> DEFINE s == "rbac-audit"
<1>1. CASE ~seen(runs, "rbac-audit")
  BY <1>1, NothingDominated DEF rbacAuditFindings
<1>2. CASE seen(runs, "rbac-audit")
  <2>1. seen(full, s) /\ full[s].data = Measure(s, cl, allOK(s))
    BY <1>2, ManyData DEF manyLists
  <2>2. PICK out \in Seq(Outcomes) :
                 /\ Finished(s, cl, out)
                 /\ DOMAIN out = DOMAIN reads[s]
                 /\ runs[s].data = Measure(s, cl, out)
                 /\ Finish(s, out) # "errored"
    BY <1>2, ManyData DEF manyLists
  <2> DEFINE L == lists(cl, gotten(s, out))
             A == lists(cl, gotten(s, allOK(s)))
             risks(b) ==
                (IF b.role = "cluster-admin" /\ ~isSystemBinding(b) THEN {"cluster-admin-to-non-system"} ELSE {})
                \cup (IF "default-sa" \in b.is THEN {"grants-to-default-sa"} ELSE {})
                \cup (IF b.role \in {r.id : r \in With(A["cluster-roles"], "wildcard")} /\ ~isSystemBinding(b)
                      THEN {"wildcard-role"} ELSE {})
             all(l) == l["cluster-role-bindings"] \cup l["role-bindings"]
             having(l, r) == {b \in all(l) : r \in risks(b)}
             listed(l) == {[id |-> b.id, risks |-> risks(b)] : b \in {b \in all(l) : risks(b) # {}}}
  <2>3. 1 \in DOMAIN reads[s] /\ 2 \in DOMAIN reads[s] /\ 3 \in DOMAIN reads[s] /\ s \in manyLists
    BY PlacesOf DEF manyLists
  <2>4. /\ reads[s][1].what = "cluster-roles" /\ reads[s][2].what = "cluster-role-bindings"
        /\ reads[s][3].what = "role-bindings"
        /\ reads[s][1].required /\ reads[s][2].required
    BY WhatOf
  <2>5. out[1] \in {"ok", "unserved"} /\ out[2] \in {"ok", "unserved"}
    <3>1. s # "deprecated-apis"
      OBVIOUS
    <3>2. Finish(s, out) \in {"ok", "unavailable", "degraded"}
      BY <2>2, <3>1, FinishTrusts
    <3>3. \A i \in DOMAIN out : reads[s][i].required => out[i] \in {"ok", "unserved"}
      BY <3>1, <3>2, FinishTrusts
    <3> QED BY <2>2, <2>3, <2>4, <3>3
  <2>6. /\ L["cluster-roles"] = A["cluster-roles"]
        /\ L["cluster-role-bindings"] = A["cluster-role-bindings"]
        /\ L["role-bindings"] \subseteq A["role-bindings"]
    <3>1. \A i \in {1, 2} : L[reads[s][i].what] = A[reads[s][i].what]
      BY <2>2, <2>3, <2>5, ListsOf
    <3>2. L[reads[s][3].what] \subseteq A[reads[s][3].what]
      BY <2>2, <2>3, ListsOf
    <3> HIDE DEF L, A, s
    <3> QED BY <2>4, <3>1, <3>2
  <2>7. /\ A["cluster-role-bindings"] = cl["cluster-role-bindings"]
        /\ A["role-bindings"] = cl["role-bindings"]
        /\ "cluster-role-bindings" \in DOMAIN Objects /\ "role-bindings" \in DOMAIN Objects
    <3>1. \A i \in {2, 3} : A[reads[s][i].what] = cl[reads[s][i].what]
      BY <2>2, <2>3, ListsOf
    <3>2. \A i \in {2, 3} : reads[s][i].what \in DOMAIN Objects
      BY <2>3, ScannersAssumption DEF scanners
    <3> HIDE DEF A, s
    <3> QED BY <2>4, <3>1, <3>2
  <2>8. IsFiniteSet(all(A))
    <3>1. cl["cluster-role-bindings"] \subseteq Objects["cluster-role-bindings"]
           /\ cl["role-bindings"] \subseteq Objects["role-bindings"]
      BY <2>7 DEF Compared
    <3>2. IsFiniteSet(Objects["cluster-role-bindings"]) /\ IsFiniteSet(Objects["role-bindings"])
      BY <2>7, ScannersAssumption
    <3>3. IsFiniteSet(A["cluster-role-bindings"]) /\ IsFiniteSet(A["role-bindings"])
      BY <2>7, <3>1, <3>2, FS_Subset
    <3> HIDE DEF A
    <3> QED BY <3>3, FS_Union
  <2>9. /\ runs[s].data = rbacAudit(L["cluster-roles"], L["cluster-role-bindings"], L["role-bindings"], L["pods"])
        /\ full[s].data = rbacAudit(A["cluster-roles"], A["cluster-role-bindings"], A["role-bindings"], A["pods"])
    BY <2>1, <2>2, MeasureMany, Zenon
  <2> HIDE DEF L, A
  <2>10. \A l \in {L, A} :
           LET d == rbacAudit(A["cluster-roles"], l["cluster-role-bindings"], l["role-bindings"], l["pods"])
           IN  /\ d.cluster_admin_bindings = Num(having(l, "cluster-admin-to-non-system"))
               /\ d.wildcard_rules = Num(With(A["cluster-roles"], "wildcard"))
               /\ d.default_sa_bindings = Num(having(l, "grants-to-default-sa"))
               /\ d.risk_bindings = listed(l)
    BY DEF rbacAudit
  <2>11. all(L) \subseteq all(A)
    BY <2>6
  <2> HIDE DEF risks, all
  <2>12. \A r : having(L, r) \subseteq having(A, r) /\ IsFiniteSet(having(A, r))
    BY <2>8, <2>11, FS_Subset
  <2>13. \A r : risky(listed(L), r) \subseteq risky(listed(A), r)
    <3>1. listed(L) \subseteq listed(A)
      BY <2>11
    <3> HIDE DEF listed
    <3> QED BY <3>1 DEF risky, ids
  <2> DEFINE admins(l) == Raise(Num(having(l, "cluster-admin-to-non-system")) > 0,
                                "rbac-audit/cluster-admin-binding", "critical",
                                risky(listed(l), "cluster-admin-to-non-system"))
             wildcards == Raise(Num(With(A["cluster-roles"], "wildcard")) > 0, "rbac-audit/wildcard-rule", "warning", {})
             defaults(l) == Raise(Num(having(l, "grants-to-default-sa")) > 0, "rbac-audit/default-sa-binding", "warning",
                                  risky(listed(l), "grants-to-default-sa"))
  <2> HIDE DEF having, listed, s
  <2>14. /\ rbacAuditFindings(runs) = admins(L) \cup wildcards \cup defaults(L)
         /\ rbacAuditFindings(full) = admins(A) \cup wildcards \cup defaults(A)
    <3>1. /\ runs["rbac-audit"].data.cluster_admin_bindings = Num(having(L, "cluster-admin-to-non-system"))
          /\ runs["rbac-audit"].data.wildcard_rules = Num(With(A["cluster-roles"], "wildcard"))
          /\ runs["rbac-audit"].data.default_sa_bindings = Num(having(L, "grants-to-default-sa"))
          /\ runs["rbac-audit"].data.risk_bindings = listed(L)
      BY <2>6, <2>9, <2>10 DEF s
    <3>2. /\ full["rbac-audit"].data.cluster_admin_bindings = Num(having(A, "cluster-admin-to-non-system"))
          /\ full["rbac-audit"].data.wildcard_rules = Num(With(A["cluster-roles"], "wildcard"))
          /\ full["rbac-audit"].data.default_sa_bindings = Num(having(A, "grants-to-default-sa"))
          /\ full["rbac-audit"].data.risk_bindings = listed(A)
      BY <2>9, <2>10 DEF s
    <3>3. seen(full, "rbac-audit")
      BY <2>1 DEF s
    <3> QED BY <1>2, <3>1, <3>2, <3>3, Zenon DEF rbacAuditFindings
  <2>15. \A r : Num(having(L, r)) > 0 => Num(having(A, r)) > 0
    BY <2>12, NumGrows
  <2>16. Dominated(admins(L), admins(A))
    <3>1. Num(having(L, "cluster-admin-to-non-system")) > 0 => Num(having(A, "cluster-admin-to-non-system")) > 0
      BY <2>15
    <3>2. risky(listed(L), "cluster-admin-to-non-system") \subseteq risky(listed(A), "cluster-admin-to-non-system")
      BY <2>13
    <3>3. Rank("critical") >= Rank("critical") /\ Rank("warning") >= Rank("warning")
      BY RankRange
    <3> QED BY <3>1, <3>2, <3>3, DominatedRaise
  <2>17. Dominated(defaults(L), defaults(A))
    <3>1. Num(having(L, "grants-to-default-sa")) > 0 => Num(having(A, "grants-to-default-sa")) > 0
      BY <2>15
    <3>2. risky(listed(L), "grants-to-default-sa") \subseteq risky(listed(A), "grants-to-default-sa")
      BY <2>13
    <3>3. Rank("critical") >= Rank("critical") /\ Rank("warning") >= Rank("warning")
      BY RankRange
    <3> QED BY <3>1, <3>2, <3>3, DominatedRaise
  <2>18. Dominated(wildcards, wildcards)
    BY DominatedSubset
  <2> HIDE DEF admins, wildcards, defaults
  <2>19. Dominated(admins(L) \cup wildcards, admins(A) \cup wildcards)
    BY <2>16, <2>18, DominatedUnion
  <2> QED BY <2>14, <2>17, <2>19, DominatedUnion
<1> QED BY <1>1, <1>2

\* A resource that answered is the scanner's own only when its read did.
LEMMA CoverageGot ==
    ASSUME NEW out, DOMAIN out = DOMAIN reads["workload-coverage"]
    PROVE  /\ "pdbs" \in gotten("workload-coverage", out) <=> out[1] = "ok"
           /\ "hpas" \in gotten("workload-coverage", out) <=> out[2] = "ok"
<1>1. \A i \in DOMAIN out : i = 1 \/ i = 2 \/ i = 3 \/ i = 4
  BY PlacesOf
<1>2. 1 \in DOMAIN out /\ 2 \in DOMAIN out
  BY PlacesOf
<1>3. /\ reads["workload-coverage"][1].what = "pdbs" /\ reads["workload-coverage"][2].what = "hpas"
      /\ reads["workload-coverage"][3].what = "deployments" /\ reads["workload-coverage"][4].what = "statefulsets"
  BY WhatOf
<1>4. "pdbs" \in gotten("workload-coverage", out) <=> out[1] = "ok"
  BY <1>1, <1>2, <1>3 DEF gotten
<1>5. "hpas" \in gotten("workload-coverage", out) <=> out[2] = "ok"
  BY <1>1, <1>2, <1>3 DEF gotten
<1> QED BY <1>4, <1>5

\* The rules on workload coverage: an absence is claimed only when its list was read.
LEMMA CoverageRule ==
    ASSUME NEW cl, NEW runs, NEW full, Compared(cl, runs, full)
    PROVE  Dominated(coverageFindings(runs), coverageFindings(full))
<1> DEFINE s == "workload-coverage"
<1>1. CASE clusterView(runs, "workload-coverage") # "observed"
  BY <1>1, NothingDominated DEF coverageFindings
<1>2. CASE clusterView(runs, "workload-coverage") = "observed"
  <2>0. seen(runs, s)
    BY <1>2 DEF seen
  <2>1. clusterView(full, s) = "observed" /\ full[s].data = Measure(s, cl, allOK(s))
    BY <2>0, ManyData DEF manyLists
  <2>2. PICK out \in Seq(Outcomes) :
                 /\ Finished(s, cl, out)
                 /\ DOMAIN out = DOMAIN reads[s]
                 /\ runs[s].data = Measure(s, cl, out)
                 /\ \A i \in DOMAIN reads[s] : out[i] \in {"ok", "unserved"}
    BY <1>2, <2>0, ManyData DEF manyLists
  <2>3. 1 \in DOMAIN reads[s] /\ 2 \in DOMAIN reads[s] /\ 3 \in DOMAIN reads[s] /\ 4 \in DOMAIN reads[s]
         /\ s \in manyLists
    BY PlacesOf DEF manyLists
  <2> DEFINE L == lists(cl, gotten(s, out))
             A == lists(cl, gotten(s, allOK(s)))
             pdbOK == "pdbs" \in gotten(s, out)
             hpaOK == "hpas" \in gotten(s, out)
             workloads == {w \in A["deployments"] \cup A["statefulsets"] : w.replicas > 1}
             cover(p, h, w) == [id |-> w.id, has_pdb |-> ~p \/ pdbMatches(A["pdbs"], w),
                                has_hpa |-> ~h \/ \E x \in A["hpas"] : x.target = w.id]
             all(p, h) == {cover(p, h, w) : w \in workloads}
             gaps(p, h) == {c \in all(p, h) : ~c.has_pdb \/ ~c.has_hpa}
             noPdb(S) == {g \in S : ~g["has_pdb"]}
             noHpa(S) == {g \in S : ~g["has_hpa"]}
             P(S) == Raise(S # {}, "workload-coverage/missing-pdb", "warning", ids(S))
             H(S) == Raise(S # {}, "workload-coverage/missing-hpa", "info", ids(S))
  <2>4. /\ L["pdbs"] = A["pdbs"] /\ L["hpas"] = A["hpas"]
        /\ L["deployments"] = A["deployments"] /\ L["statefulsets"] = A["statefulsets"]
        /\ "pdbs" \in gotten(s, allOK(s)) /\ "hpas" \in gotten(s, allOK(s))
    <3>1. \A i \in {1, 2, 3, 4} : L[reads[s][i].what] = A[reads[s][i].what]
      BY <2>2, <2>3, ListsOf
    <3>2. \A i \in {1, 2} : reads[s][i].what \in gotten(s, allOK(s))
      BY <2>2, <2>3, ListsOf
    <3>3. /\ reads[s][1].what = "pdbs" /\ reads[s][2].what = "hpas"
          /\ reads[s][3].what = "deployments" /\ reads[s][4].what = "statefulsets"
      BY WhatOf
    <3> HIDE DEF L, A, s
    <3> QED BY <3>1, <3>2, <3>3
  <2>5. ("pdbs" \in gotten(s, allOK(s))) = TRUE /\ ("hpas" \in gotten(s, allOK(s))) = TRUE
    BY <2>4
  <2>6. /\ runs[s].data = workloadCoverage(A["pdbs"], pdbOK, A["hpas"], hpaOK, A["deployments"] \cup A["statefulsets"])
        /\ full[s].data = workloadCoverage(A["pdbs"], TRUE, A["hpas"], TRUE, A["deployments"] \cup A["statefulsets"])
    BY <2>1, <2>2, <2>4, <2>5, MeasureMany, Zenon
  <2>7. runs[s].data.gaps = gaps(pdbOK, hpaOK) /\ full[s].data.gaps = gaps(TRUE, TRUE)
    <3> HIDE DEF A, pdbOK, hpaOK
    <3> QED BY <2>6 DEF workloadCoverage
  <2> HIDE DEF L, A, pdbOK, hpaOK, workloads
  <2>8. /\ coverageFindings(runs) = P(noPdb(gaps(pdbOK, hpaOK))) \cup H(noHpa(gaps(pdbOK, hpaOK)))
        /\ coverageFindings(full) = P(noPdb(gaps(TRUE, TRUE))) \cup H(noHpa(gaps(TRUE, TRUE)))
    BY <1>2, <2>1, <2>7, Zenon DEF coverageFindings, field
  <2>9. \A w \in workloads : /\ ~cover(pdbOK, hpaOK, w).has_pdb => ~cover(TRUE, TRUE, w).has_pdb
                             /\ ~cover(pdbOK, hpaOK, w).has_hpa => ~cover(TRUE, TRUE, w).has_hpa
                             /\ cover(pdbOK, hpaOK, w).id = cover(TRUE, TRUE, w).id
    <3> SUFFICES ASSUME NEW w \in workloads
                 PROVE /\ ~cover(pdbOK, hpaOK, w).has_pdb => ~cover(TRUE, TRUE, w).has_pdb
                       /\ ~cover(pdbOK, hpaOK, w).has_hpa => ~cover(TRUE, TRUE, w).has_hpa
                       /\ cover(pdbOK, hpaOK, w).id = cover(TRUE, TRUE, w).id
      OBVIOUS
    <3>1. /\ cover(pdbOK, hpaOK, w).has_pdb = (~pdbOK \/ pdbMatches(A["pdbs"], w))
          /\ cover(TRUE, TRUE, w).has_pdb = (~TRUE \/ pdbMatches(A["pdbs"], w))
          /\ cover(pdbOK, hpaOK, w).has_hpa = (~hpaOK \/ \E x \in A["hpas"] : x.target = w.id)
          /\ cover(TRUE, TRUE, w).has_hpa = (~TRUE \/ \E x \in A["hpas"] : x.target = w.id)
          /\ cover(pdbOK, hpaOK, w).id = cover(TRUE, TRUE, w).id
      OBVIOUS
    <3> HIDE DEF cover
    <3> QED BY <3>1, Zenon
  <2> DEFINE partly(w) == cover(pdbOK, hpaOK, w)
             wholly(w) == cover(TRUE, TRUE, w)
             part == gaps(pdbOK, hpaOK)
             whole == gaps(TRUE, TRUE)
  <2>10. /\ \A c : c \in part <=> (c \in {partly(w) : w \in workloads} /\ (~c.has_pdb \/ ~c.has_hpa))
         /\ \A c : c \in whole <=> (c \in {wholly(w) : w \in workloads} /\ (~c.has_pdb \/ ~c.has_hpa))
    OBVIOUS
  <2>11. /\ coverageFindings(runs) = P(noPdb(part)) \cup H(noHpa(part))
         /\ coverageFindings(full) = P(noPdb(whole)) \cup H(noHpa(whole))
    BY <2>8, Zenon
  <2>12. \A w \in workloads : /\ ~partly(w).has_pdb => ~wholly(w).has_pdb
                              /\ ~partly(w).has_hpa => ~wholly(w).has_hpa
                              /\ partly(w).id = wholly(w).id
    BY <2>9, Zenon
  <2> HIDE DEF cover, gaps, partly, wholly, part, whole
  <2>13. ids(noPdb(part)) \subseteq ids(noPdb(whole))
    BY <2>10, <2>12 DEF ids
  <2>14. ids(noHpa(part)) \subseteq ids(noHpa(whole))
    BY <2>10, <2>12 DEF ids
  <2> HIDE DEF noPdb, noHpa
  <2>15. Dominated(P(noPdb(part)), P(noPdb(whole))) /\ Dominated(H(noHpa(part)), H(noHpa(whole)))
    BY <2>13, <2>14, IdsRaised
  <2> HIDE DEF P, H
  <2> QED BY <2>11, <2>15, DominatedUnion
<1> QED BY <1>1, <1>2

\* A scan with failed reads raises no more than the complete one.
LEMMA RulesDominated ==
    ASSUME NEW cl, NEW runs, NEW full, Compared(cl, runs, full), NEW s \in scanners, s # "deprecated-apis"
    PROVE  Dominated(rulesOf(runs)[s], rulesOf(full)[s])
<1>0. s \in DOMAIN reads
  BY DEF reads
<1>1. CASE s = "node-health"
  <2>1. \A r : rulesOf(r)[s] = nodeHealthFindings(r)
    BY <1>0, <1>1 DEF rulesOf
  <2> QED BY <2>1, EqualDataRules
<1>2. CASE s = "resource-quotas"
  <2>1. \A r : rulesOf(r)[s] = quotaFindings(r)
    BY <1>0, <1>2 DEF rulesOf
  <2> QED BY <2>1, QuotaRule
<1>3. CASE s = "events"
  <2>1. \A r : rulesOf(r)[s] = eventFindings(r)
    BY <1>0, <1>3 DEF rulesOf
  <2> QED BY <2>1, EventRule
<1>4. CASE s = "security"
  <2>1. \A r : rulesOf(r)[s] = securityFindings(r)
    BY <1>0, <1>4 DEF rulesOf
  <2> QED BY <2>1, SecurityRule
<1>5. CASE s = "network-policies"
  <2>1. \A r : rulesOf(r)[s] = networkFindings(r)
    BY <1>0, <1>5 DEF rulesOf
  <2> QED BY <2>1, NetworkRule
<1>6. CASE s = "workload-security"
  <2>1. \A r : rulesOf(r)[s] = workloadSecFindings(r)
    BY <1>0, <1>6 DEF rulesOf
  <2> QED BY <2>1, EqualDataRules
<1>7. CASE s = "rbac-audit"
  <2>1. \A r : rulesOf(r)[s] = rbacAuditFindings(r)
    BY <1>0, <1>7 DEF rulesOf
  <2> QED BY <2>1, RbacRule
<1>8. CASE s = "certs"
  <2>1. \A r : rulesOf(r)[s] = certFindings(r)
    BY <1>0, <1>8 DEF rulesOf
  <2> QED BY <2>1, CertRule
<1>9. CASE s = "admission"
  <2>1. \A r : rulesOf(r)[s] = admissionFindings(r)
    BY <1>0, <1>9 DEF rulesOf
  <2> QED BY <2>1, AdmissionRule
<1>10. CASE s = "vulnerabilities"
  <2>1. \A r : rulesOf(r)[s] = vulnerabilityFindings(r)
    BY <1>0, <1>10 DEF rulesOf
  <2> QED BY <2>1, EqualDataRules
<1>11. CASE s = "cluster-info"
  <2>1. \A r : rulesOf(r)[s] = clusterInfoFindings(r)
    BY <1>0, <1>11 DEF rulesOf
  <2> QED BY <2>1, EqualDataRules
<1>12. CASE s = "image-audit"
  <2>1. \A r : rulesOf(r)[s] = imageAuditFindings(r) \cup compositeBadDeployFindings(r)
    BY <1>0, <1>12 DEF rulesOf
  <2> QED BY <2>1, EqualDataRules, CompositeRule, DominatedUnion
<1>13. CASE s = "workload-coverage"
  <2>1. \A r : rulesOf(r)[s] = coverageFindings(r)
    BY <1>0, <1>13 DEF rulesOf
  <2> QED BY <2>1, CoverageRule
<1>14. CASE s \notin {"node-health", "resource-quotas", "events", "security", "network-policies", "workload-security",
                     "rbac-audit", "certs", "admission", "vulnerabilities", "cluster-info", "image-audit",
                     "workload-coverage"}
  <2>1. \A r : rulesOf(r)[s] = {}
    BY <1>0, <1>14 DEF rulesOf
  <2> QED BY <2>1, NothingDominated
<1> QED BY <1>1, <1>2, <1>3, <1>4, <1>5, <1>6, <1>7, <1>8, <1>9, <1>10, <1>11, <1>12, <1>13, <1>14

\* Every finding a scan raises is one of the complete scan, as severe and on as much.
LEMMA RuledDominated ==
    ASSUME NEW cl, NEW runs, NEW full, Compared(cl, runs, full), NEW f \in ruledFindings(runs)
    PROVE  \E g \in ruledFindings(full) : /\ g.rule = f.rule /\ Rank(g.severity) >= Rank(f.severity)
                                          /\ f.affected \subseteq g.affected
<1>1. PICK s \in DOMAIN reads : f \in rulesOf(runs)[s]
  BY DEF ruledFindings, absoluteFindings
<1>2. s \in scanners
  BY <1>1 DEF reads
<1>3. f.rule # "deprecated-apis/in-use"
  BY DEF ruledFindings
<1>4. s # "deprecated-apis"
  <2>1. s = "deprecated-apis" => rulesOf(runs)[s] = deprecatedAPIFindings(runs)
    BY <1>1 DEF rulesOf
  <2>2. \A e \in deprecatedAPIFindings(runs) : e.rule = "deprecated-apis/in-use"
    BY DEF deprecatedAPIFindings, Raise
  <2> QED BY <1>1, <1>3, <2>1, <2>2
<1>5. PICK g \in rulesOf(full)[s] : /\ g.rule = f.rule /\ Rank(g.severity) >= Rank(f.severity)
                                    /\ f.affected \subseteq g.affected
  BY <1>1, <1>2, <1>4, RulesDominated DEF Dominated
<1>6. g \in absoluteFindings(full)
  BY <1>1, <1>5 DEF absoluteFindings
<1>7. g \in ruledFindings(full)
  BY <1>3, <1>5, <1>6 DEF ruledFindings
<1> QED BY <1>5, <1>7

\* The scanners of a battery, each in one stage, and what is known of the reads
\* and results so far.
ScanInv ==
    /\ \A r \in DOMAIN Objects : cluster[r] \subseteq Objects[r]
    /\ \E b \in Batteries : b = todo \cup ({waiting} \ {Nil}) \cup DOMAIN outcomes \cup DOMAIN results
    /\ waiting \in scanners \cup {Nil}
    /\ DOMAIN outcomes \subseteq scanners
    /\ DOMAIN results \subseteq scanners
    /\ \A s \in DOMAIN outcomes : /\ outcomes[s] \in Seq(Outcomes)
                                  /\ Len(outcomes[s]) <= Len(reads[s])
                                  /\ Answered(s, cluster, outcomes[s])
    /\ \A s \in DOMAIN results : Ran(s, cluster, results[s])

\* ScanInv holds before the first read.
LEMMA ScanInvInit == ScanInit => ScanInv
<1> SUFFICES ASSUME ScanInit PROVE ScanInv
  OBVIOUS
<1>1. PICK battery, objects : battery \in Batteries /\ ScanStart(battery, objects)
  BY DEF ScanInit
<1>2. \A r \in DOMAIN Objects : cluster[r] \subseteq Objects[r]
  BY <1>1 DEF ScanStart
<1>3. todo = battery /\ waiting = Nil /\ outcomes = <<>> /\ results = <<>>
  BY <1>1 DEF ScanStart
<1>4. DOMAIN outcomes = {} /\ DOMAIN results = {}
  BY <1>3
<1>5. battery = todo \cup ({waiting} \ {Nil}) \cup DOMAIN outcomes \cup DOMAIN results
  <2>1. {waiting} \ {Nil} = {}
    BY <1>3
  <2> QED BY <1>3, <1>4, <2>1
<1> QED BY <1>1, <1>2, <1>3, <1>4, <1>5 DEF ScanInv

\* Starting a scanner, a read, its end and its timeout keep ScanInv.
LEMMA ScanInvStep == ScanInv /\ [ScanNext]_scanVars => ScanInv'
<1> SUFFICES ASSUME ScanInv, [ScanNext]_scanVars PROVE ScanInv'
  OBVIOUS
<1>0. PICK b \in Batteries : b = todo \cup ({waiting} \ {Nil}) \cup DOMAIN outcomes \cup DOMAIN results
  BY DEF ScanInv
<1>1. ASSUME NEW s \in DOMAIN reads, CheckContext(s) PROVE ScanInv'
  <2>1. s \in scanners /\ s # Nil
    BY ScannersAssumption DEF reads
  <2>2. b = todo' \cup ({waiting'} \ {Nil}) \cup DOMAIN outcomes' \cup DOMAIN results'
    BY <1>0, <1>1, <2>1 DEF CheckContext
  <2>3. waiting' \in scanners \cup {Nil}
    BY <1>1, <2>1 DEF CheckContext
  <2>4. UNCHANGED <<cluster, outcomes, results>>
    BY <1>1 DEF CheckContext
  <2> QED BY <2>2, <2>3, <2>4 DEF ScanInv, Answered
<1>2. ASSUME Acquire PROVE ScanInv'
  <2>1. waiting \in scanners
    BY <1>2 DEF ScanInv, Acquire
  <2>2. /\ outcomes' = Put(outcomes, waiting, <<>>) /\ waiting' = Nil /\ waiting # Nil
        /\ cluster' = cluster /\ todo' = todo /\ results' = results
    BY <1>2 DEF Acquire
  <2>3. /\ DOMAIN outcomes' = DOMAIN outcomes \cup {waiting}
        /\ outcomes'[waiting] = <<>>
        /\ \A t \in DOMAIN outcomes : t # waiting => outcomes'[t] = outcomes[t]
    BY <2>2 DEF Put
  <2>4. b = todo' \cup ({waiting'} \ {Nil}) \cup DOMAIN outcomes' \cup DOMAIN results'
    BY <1>0, <2>2, <2>3
  <2>5. ASSUME NEW s \in DOMAIN outcomes'
        PROVE  /\ outcomes'[s] \in Seq(Outcomes)
               /\ Len(outcomes'[s]) <= Len(reads[s])
               /\ Answered(s, cluster', outcomes'[s])
    <3>1. CASE s = waiting
      <4>1. outcomes'[s] = <<>>
        BY <3>1, <2>3
      <4>2. Len(reads[s]) \in 1 .. 4
        BY <2>1, <3>1, ReadsShape
      <4> QED BY <4>1, <4>2 DEF Answered
    <3>2. CASE s # waiting
      <4>1. s \in DOMAIN outcomes /\ outcomes'[s] = outcomes[s]
        BY <2>3, <3>2
      <4> QED BY <4>1, <2>2 DEF ScanInv
    <3> QED BY <3>1, <3>2
  <2> QED BY <2>1, <2>2, <2>3, <2>4, <2>5 DEF ScanInv
<1>3. ASSUME NEW s \in DOMAIN reads, NotAcquired(s) PROVE ScanInv'
  <2>1. s \in scanners /\ s # Nil
    BY ScannersAssumption DEF reads
  <2>2. /\ results' = Put(results, s, ErroredResult) /\ todo' = todo \ {s} /\ waiting' = Nil
        /\ cluster' = cluster /\ outcomes' = outcomes
        /\ s = waiting \/ (waiting = Nil /\ s \in todo)
    BY <1>3 DEF NotAcquired
  <2>3. /\ DOMAIN results' = DOMAIN results \cup {s}
        /\ results'[s] = ErroredResult
        /\ \A t \in DOMAIN results : t # s => results'[t] = results[t]
    BY <2>2 DEF Put
  <2>4. b = todo' \cup ({waiting'} \ {Nil}) \cup DOMAIN outcomes' \cup DOMAIN results'
    BY <1>0, <2>1, <2>2, <2>3
  <2>5. ASSUME NEW t \in DOMAIN results' PROVE Ran(t, cluster', results'[t])
    <3>1. CASE t = s
      BY <3>1, <2>3 DEF Ran
    <3>2. CASE t # s
      <4>1. t \in DOMAIN results /\ results'[t] = results[t]
        BY <2>3, <3>2
      <4> QED BY <4>1, <2>2 DEF ScanInv
    <3> QED BY <3>1, <3>2
  <2> QED BY <2>1, <2>2, <2>3, <2>4, <2>5 DEF ScanInv
<1>4. ASSUME NEW s \in DOMAIN reads, NEW o \in Outcomes, Read(s, o) PROVE ScanInv'
  <2>1. s \in scanners /\ s \in DOMAIN outcomes
    BY <1>4 DEF reads, Read
  <2>2. /\ outcomes' = [outcomes EXCEPT ![s] = Append(@, o)]
        /\ cluster' = cluster /\ todo' = todo /\ waiting' = waiting /\ results' = results
    BY <1>4 DEF Read
  <2>3. DOMAIN outcomes' = DOMAIN outcomes /\ outcomes'[s] = Append(outcomes[s], o)
    BY <2>1, <2>2
  <2>4. /\ outcomes[s] \in Seq(Outcomes)
        /\ Len(outcomes[s]) <= Len(reads[s])
        /\ Answered(s, cluster, outcomes[s])
    BY <2>1 DEF ScanInv
  <2>5. Len(outcomes[s]) # Len(reads[s])
    BY <1>4 DEF Read, LastRead
  <2>6. Len(reads[s]) \in 1 .. 4
    BY <2>1, ReadsShape
  <2>7. o = "unserved" => /\ reads[s][Len(outcomes[s]) + 1].what # "endpoints"
                          /\ cluster[reads[s][Len(outcomes[s]) + 1].what] = {}
    BY <1>4 DEF Read
  <2>8. /\ Append(outcomes[s], o) \in Seq(Outcomes)
        /\ Len(Append(outcomes[s], o)) <= Len(reads[s])
    BY <2>4, <2>5, <2>6
  <2>9. Answered(s, cluster, Append(outcomes[s], o))
    <3> SUFFICES ASSUME NEW i \in DOMAIN Append(outcomes[s], o), Append(outcomes[s], o)[i] = "unserved"
                 PROVE  reads[s][i].what # "endpoints" /\ cluster[reads[s][i].what] = {}
      BY DEF Answered
    <3>1. CASE i = Len(outcomes[s]) + 1
      <4>1. o = "unserved"
        BY <2>4, <3>1
      <4> QED BY <2>7, <3>1, <4>1
    <3>2. CASE i # Len(outcomes[s]) + 1
      <4>1. i \in DOMAIN outcomes[s] /\ outcomes[s][i] = "unserved"
        BY <2>4, <3>2
      <4> QED BY <2>4, <4>1 DEF Answered
    <3> QED BY <3>1, <3>2
  <2>10. \A t \in DOMAIN outcomes' : t # s => outcomes'[t] = outcomes[t]
    BY <2>1, <2>2
  <2>11. \A t \in DOMAIN outcomes' : /\ outcomes'[t] \in Seq(Outcomes)
                                     /\ Len(outcomes'[t]) <= Len(reads[t])
                                     /\ Answered(t, cluster', outcomes'[t])
    BY <2>2, <2>3, <2>8, <2>9, <2>10 DEF ScanInv
  <2> QED BY <1>0, <2>2, <2>3, <2>11 DEF ScanInv
<1>5. ASSUME NEW s \in DOMAIN reads, Return(s) PROVE ScanInv'
  <2>1. s \in scanners /\ s \in DOMAIN outcomes /\ LastRead(s, outcomes[s])
    BY <1>5 DEF reads, Return
  <2>2. /\ results' = Put(results, s, Result(s, cluster, outcomes[s]))
        /\ outcomes' = [t \in DOMAIN outcomes \ {s} |-> outcomes[t]]
        /\ cluster' = cluster /\ todo' = todo /\ waiting' = waiting
    BY <1>5 DEF Return
  <2>3. /\ DOMAIN results' = DOMAIN results \cup {s} /\ DOMAIN outcomes' = DOMAIN outcomes \ {s}
        /\ results'[s] = Result(s, cluster, outcomes[s])
        /\ \A t \in DOMAIN results : t # s => results'[t] = results[t]
    BY <2>2 DEF Put
  <2>4. b = todo' \cup ({waiting'} \ {Nil}) \cup DOMAIN outcomes' \cup DOMAIN results'
    BY <1>0, <2>1, <2>2, <2>3
  <2>5. ASSUME NEW t \in DOMAIN results' PROVE Ran(t, cluster', results'[t])
    <3>1. CASE t = s
      <4>1. results'[t] = Result(s, cluster, outcomes[s])
        BY <3>1, <2>3
      <4>2. Finished(s, cluster, outcomes[s]) /\ outcomes[s] \in Seq(Outcomes)
        BY <2>1 DEF ScanInv, Finished
      <4> QED BY <3>1, <2>2, <4>1, <4>2 DEF Ran
    <3>2. CASE t # s
      <4>1. t \in DOMAIN results /\ results'[t] = results[t]
        BY <2>3, <3>2
      <4> QED BY <4>1, <2>2 DEF ScanInv
    <3> QED BY <3>1, <3>2
  <2>6. \A t \in DOMAIN outcomes' : t \in DOMAIN outcomes /\ outcomes'[t] = outcomes[t]
    BY <2>2
  <2>7. \A t \in DOMAIN outcomes' : /\ outcomes'[t] \in Seq(Outcomes)
                                     /\ Len(outcomes'[t]) <= Len(reads[t])
                                     /\ Answered(t, cluster', outcomes'[t])
    BY <2>2, <2>6 DEF ScanInv
  <2> QED BY <2>1, <2>2, <2>3, <2>4, <2>5, <2>7 DEF ScanInv
<1>6. CASE UNCHANGED <<cluster, todo, waiting, outcomes, results>>
  BY <1>0, <1>6 DEF ScanInv, Answered
<1>7. (Cancel \/ UNCHANGED scanVars) => UNCHANGED <<cluster, todo, waiting, outcomes, results>>
  BY DEF Cancel, scanVars
<1> QED BY <1>1, <1>2, <1>3, <1>4, <1>5, <1>6, <1>7 DEF ScanNext

\* ScanInv implies the property.
LEMMA ScanInvObserves == ScanInv => FindingsRestOnObservations
<1> SUFFICES ASSUME ScanInv, ScanReturned
             PROVE  /\ \E b \in Batteries : DOMAIN results = b
                    /\ \A f \in ruledFindings(results) :
                         \E g \in ruledFindings(completeRuns) :
                            /\ g.rule = f.rule /\ Rank(g.severity) >= Rank(f.severity)
                            /\ f.affected \subseteq g.affected
  BY DEF FindingsRestOnObservations
<1>1. \E b \in Batteries : DOMAIN results = b
  BY DEF ScanInv, ScanReturned
<1>2. Compared(cluster, results, completeRuns)
  BY DEF ScanInv, Compared, completeRuns, allOK
<1> QED BY <1>1, <1>2, RuledDominated

\* What could not be read never raises a finding (RunScanners, finishSection and the rules
\* that consult clusterView): for every cluster, battery of scanners and outcome of the
\* reads, what the rules say of the runs kept so far is what a complete scan says too.
THEOREM ScanSafe == ScanSpec => []FindingsRestOnObservations
<1>1. ScanInit => ScanInv
  BY ScanInvInit
<1>2. ScanInv /\ [ScanNext]_scanVars => ScanInv'
  BY ScanInvStep
<1>3. ScanInv => FindingsRestOnObservations
  BY ScanInvObserves
<1> QED BY <1>1, <1>2, <1>3, PTL DEF ScanSpec

------------------------------------------------------------------------------
(* The collapse of the findings. *)

\* The largest of a set of ranks.
LEMMA MaxOfRanks ==
    ASSUME NEW S, S \subseteq 0 .. 3, 0 \in S
    PROVE  Max(S) \in S /\ \A y \in S : y <= Max(S)
<1>1. \E x \in S : \A y \in S : x >= y
  OBVIOUS
<1> QED BY <1>1 DEF Max

\* The least of a set of places in a list of at most four.
LEMMA MinOfPlaces ==
    ASSUME NEW S, S \subseteq 1 .. 4, S # {}
    PROVE  Min(S) \in S /\ \A y \in S : Min(S) <= y
<1>1. \E x \in S : \A y \in S : x <= y
  <2>1. CASE 1 \in S
    BY <2>1
  <2>2. CASE 1 \notin S /\ 2 \in S
    BY <2>2
  <2>3. CASE 1 \notin S /\ 2 \notin S /\ 3 \in S
    BY <2>3
  <2>4. CASE 1 \notin S /\ 2 \notin S /\ 3 \notin S
    <3>1. \A y \in S : y = 4
      BY <2>4
    <3>2. 4 \in S
      BY <3>1
    <3> QED BY <3>1, <3>2
  <2> QED BY <2>1, <2>2, <2>3, <2>4
<1> QED BY <1>1 DEF Min

\* The fields that restate others.
redundantFields ==
    {<<"metrics", "nodes_with_usage">>, <<"node-health", "unhealthy_nodes">>, <<"certs", "soonest_days">>,
     <<"workload-security", "run_as_non_root_containers">>, <<"workload-security", "baseline_containers">>,
     <<"version", "minor">>, <<"deprecated-apis", "server_version">>, <<"cluster-info", "kubelet_versions">>}

\* How many steps the chain of restated fields from f has.
Depth(f) ==
    IF f = <<"workload-security", "run_as_non_root_containers">> THEN 2
    ELSE IF f \in redundantFields THEN 1 ELSE 0

\* Every field that restates another is one step further from the end of its chain.
LEMMA DepthFalls ==
    ASSUME NEW f
    PROVE  /\ Len(RedundantWith(f)) \in 0 .. 4
           /\ DOMAIN RedundantWith(f) = 1 .. Len(RedundantWith(f))
           /\ \A i \in DOMAIN RedundantWith(f) : Depth(RedundantWith(f)[i]) < Depth(f)
<1>1. CASE f = <<"metrics", "nodes_with_usage">>
  <2>1. RedundantWith(f) =
          [i \in DOMAIN <<"node_count">>
             |-> <<"metrics", <<"node_count">>[i]>>]
    BY <1>1 DEF RedundantWith
  <2>2. \A i \in 1 .. 1 : RedundantWith(f)[i] \in
           {<<"metrics", "node_count">>}
    BY <1>1, <2>1
  <2> QED BY <1>1, <2>1, <2>2 DEF Depth, redundantFields
<1>2. CASE f = <<"node-health", "unhealthy_nodes">>
  <2>1. RedundantWith(f) =
          [i \in DOMAIN <<"memory_pressure_nodes", "disk_pressure_nodes", "pid_pressure_nodes", "not_ready_nodes">>
             |-> <<"node-health", <<"memory_pressure_nodes", "disk_pressure_nodes",
                                    "pid_pressure_nodes", "not_ready_nodes">>[i]>>]
    BY <1>2 DEF RedundantWith
  <2>2. \A i \in 1 .. 4 : RedundantWith(f)[i] \in
           {<<"node-health", "memory_pressure_nodes">>, <<"node-health", "disk_pressure_nodes">>,
            <<"node-health", "pid_pressure_nodes">>, <<"node-health", "not_ready_nodes">>}
    BY <1>2, <2>1
  <2>3. DOMAIN RedundantWith(f) = 1 .. 4 /\ Len(RedundantWith(f)) = 4
    BY <2>1
  <2>4. Depth(f) = 1
    BY <1>2 DEF Depth, redundantFields
  <2>5. \A i \in 1 .. 4 : Depth(RedundantWith(f)[i]) = 0
    BY <2>2 DEF Depth, redundantFields
  <2> QED BY <2>3, <2>4, <2>5
<1>3. CASE f = <<"certs", "soonest_days">>
  <2>1. RedundantWith(f) =
          [i \in DOMAIN <<"warning", "critical">>
             |-> <<"certs", <<"warning", "critical">>[i]>>]
    BY <1>3 DEF RedundantWith
  <2>2. \A i \in 1 .. 2 : RedundantWith(f)[i] \in
           {<<"certs", "warning">>, <<"certs", "critical">>}
    BY <1>3, <2>1
  <2>3. DOMAIN RedundantWith(f) = 1 .. 2 /\ Len(RedundantWith(f)) = 2
    BY <2>1
  <2>4. Depth(f) = 1
    BY <1>3 DEF Depth, redundantFields
  <2>5. \A i \in 1 .. 2 : Depth(RedundantWith(f)[i]) = 0
    BY <2>2 DEF Depth, redundantFields
  <2> QED BY <2>3, <2>4, <2>5
<1>4. CASE f = <<"workload-security", "run_as_non_root_containers">>
  <2>1. RedundantWith(f) =
          [i \in DOMAIN <<"baseline_containers">>
             |-> <<"workload-security", <<"baseline_containers">>[i]>>]
    BY <1>4 DEF RedundantWith
  <2>2. \A i \in 1 .. 1 : RedundantWith(f)[i] \in
           {<<"workload-security", "baseline_containers">>}
    BY <1>4, <2>1
  <2> QED BY <1>4, <2>1, <2>2 DEF Depth, redundantFields
<1>5. CASE f = <<"workload-security", "baseline_containers">>
  <2>1. RedundantWith(f) =
          [i \in DOMAIN <<"total_pods">>
             |-> <<"workload-security", <<"total_pods">>[i]>>]
    BY <1>5 DEF RedundantWith
  <2>2. \A i \in 1 .. 1 : RedundantWith(f)[i] \in
           {<<"workload-security", "total_pods">>}
    BY <1>5, <2>1
  <2> QED BY <1>5, <2>1, <2>2 DEF Depth, redundantFields
<1>6. CASE f \in {<<"version", "minor">>, <<"deprecated-apis", "server_version">>,
                  <<"cluster-info", "kubelet_versions">>}
  <2>1. RedundantWith(f) = <<<<"version", "git_version">>>>
    BY <1>6 DEF RedundantWith
  <2> QED BY <1>6, <2>1 DEF Depth, redundantFields
<1>7. CASE f \notin redundantFields
  <2>1. RedundantWith(f) = <<>>
    BY <1>7 DEF RedundantWith, redundantFields
  <2> QED BY <2>1
<1> QED BY <1>1, <1>2, <1>3, <1>4, <1>5, <1>6, <1>7 DEF redundantFields

\* Norm findings mark no cluster.
NormUnmarked(fs) == \A f \in fs : f.norm => f.marks = {}

\* The collapse drops norm findings only.
LEMMA OnlyNormDropped ==
    ASSUME NEW fs, NEW members, NEW f \in fs, ~f.norm
    PROVE  f \in dropRedundant(fs, members)
<1>1. f \notin countedFirst(fs, members)
  BY DEF countedFirst
<1>2. ASSUME NEW h \in fs, h.norm PROVE f \notin dropsOf(fs, h, members)
  BY <1>2 DEF dropsOf, normOn
<1> QED BY <1>1, <1>2 DEF dropRedundant

\* A finding that goes leaves one no weaker: an absolute one, or one on a field it restates.
LEMMA DropReason ==
    ASSUME NEW fs, NEW members, NEW f \in fs, f.norm,
           f \notin dropRedundant(fs, members),
           \A g \in fs : g.cluster = f.cluster => Rank(g.severity) <= Rank(f.severity)
    PROVE  \/ \E g \in fs : ~g.norm /\ g.cluster = f.cluster /\ Rank(g.severity) >= Rank(f.severity)
           \/ \E i \in DOMAIN RedundantWith(f.field) :
                 \E g \in fs : /\ g.norm /\ g.cluster = f.cluster
                               /\ g.field = RedundantWith(f.field)[i]
                               /\ Rank(g.severity) >= Rank(f.severity)
<1>1. CASE f \in countedFirst(fs, members)
  BY <1>1 DEF countedFirst, counting
<1>2. CASE f \notin countedFirst(fs, members)
  <2>1. PICK h \in fs : h.norm /\ f \in dropsOf(fs, h, members)
    BY <1>2 DEF dropRedundant
  <2> DEFINE targets == RedundantWith(h.field)
             stops == {i \in DOMAIN targets : statedBy(fs, h, targets[i], members)}
             last == IF stops = {} THEN Len(targets) ELSE Min(stops) - 1
  <2>2. CASE f = h /\ stops # {}
    <3>1. PICK i \in DOMAIN targets : statedBy(fs, f, targets[i], members)
      BY <2>2
    <3>2. PICK g \in counting(fs, f.cluster, targets[i], f.scope, members) \cup normOn(fs, f.cluster, targets[i]) :
             Rank(g.severity) >= Rank(f.severity)
      BY <3>1 DEF statedBy
    <3>3. CASE g \in counting(fs, f.cluster, targets[i], f.scope, members)
      BY <3>2, <3>3 DEF counting
    <3>4. CASE g \in normOn(fs, f.cluster, targets[i])
      BY <3>2, <3>4, <2>2 DEF normOn
    <3> QED BY <3>2, <3>3, <3>4
  <2>3. CASE ~(f = h /\ stops # {})
    <3>1. PICK i \in 1 .. last : f \in normOn(fs, h.cluster, targets[i])
      BY <2>1, <2>3 DEF dropsOf
    <3>2. i \in DOMAIN targets /\ i \notin stops
      <4>1. DOMAIN targets = 1 .. Len(targets) /\ Len(targets) \in 0 .. 4
        BY DepthFalls
      <4>2. stops \subseteq 1 .. 4 /\ stops \subseteq DOMAIN targets
        BY <4>1
      <4> HIDE DEF targets, stops
      <4>3. stops = {} \/ (Min(stops) \in stops /\ \A j \in stops : Min(stops) <= j)
        BY <4>2, MinOfPlaces
      <4>4. CASE stops = {}
        BY <4>1, <4>4
      <4>5. CASE stops # {}
        <5>1. Min(stops) \in 1 .. Len(targets) /\ \A j \in stops : Min(stops) <= j
          BY <4>1, <4>2, <4>3, <4>5
        <5>2. last = Min(stops) - 1
          BY <4>5
        <5>3. i \in 1 .. Len(targets) /\ ~(Min(stops) <= i)
          BY <4>1, <5>1, <5>2
        <5> QED BY <4>1, <5>1, <5>3
      <4> QED BY <4>4, <4>5
    <3>3. ~statedBy(fs, h, targets[i], members)
      BY <3>2
    <3>4. ~(Rank(f.severity) >= Rank(h.severity))
      BY <3>1, <3>3 DEF statedBy
    <3>5. f.cluster = h.cluster
      BY <3>1 DEF normOn
    <3>6. Rank(h.severity) <= Rank(f.severity)
      BY <3>5, <2>1
    <3> QED BY <3>4, <3>6, RankRange
  <2> QED BY <2>2, <2>3
<1> QED BY <1>1, <1>2

\* The largest rank on a cluster is not lost, by the depth of the field.
LEMMA WorstKept ==
    ASSUME NEW fs, NEW members, NEW c, NEW R \in 1 .. 3,
           \A g \in fs : g.cluster = c => Rank(g.severity) <= R,
           NEW f \in fs, f.cluster = c, Rank(f.severity) = R
    PROVE  \E g \in dropRedundant(fs, members) : g.cluster = c /\ Rank(g.severity) >= R
<1> DEFINE Kept == \E g \in dropRedundant(fs, members) : g.cluster = c /\ Rank(g.severity) >= R
           AtMost(n) == \A h \in fs : h.cluster = c /\ Rank(h.severity) = R /\ h.norm /\ Depth(h.field) <= n => Kept
<1>0. \A h \in fs : h.cluster = c /\ Rank(h.severity) >= R => Rank(h.severity) = R
  BY RankRange
<1>1. ASSUME NEW h \in fs, ~h.norm, h.cluster = c, Rank(h.severity) >= R
      PROVE  Kept
  BY <1>1, OnlyNormDropped
<1>2. ASSUME NEW h \in fs, h.norm, h.cluster = c, Rank(h.severity) = R, ~Kept
      PROVE  \E i \in DOMAIN RedundantWith(h.field), g \in fs :
                 g.norm /\ g.cluster = c /\ Rank(g.severity) = R /\ g.field = RedundantWith(h.field)[i]
  <2>1. h \notin dropRedundant(fs, members)
    BY <1>2, RankRange
  <2>2. \A g \in fs : g.cluster = h.cluster => Rank(g.severity) <= Rank(h.severity)
    BY <1>2
  <2>3. ~\E g \in fs : ~g.norm /\ g.cluster = h.cluster /\ Rank(g.severity) >= Rank(h.severity)
    BY <1>1, <1>2
  <2>4. \E i \in DOMAIN RedundantWith(h.field) :
           \E g \in fs : /\ g.norm /\ g.cluster = h.cluster
                         /\ g.field = RedundantWith(h.field)[i]
                         /\ Rank(g.severity) >= Rank(h.severity)
    BY <2>1, <2>2, <2>3, <1>2, DropReason
  <2> QED BY <2>4, <1>2, <1>0
<1>3. \A h : Depth(h) \in 0 .. 2
  BY DEF Depth
<1> HIDE DEF Kept
<1>4. AtMost(0)
  <2> SUFFICES ASSUME NEW h \in fs, h.cluster = c, Rank(h.severity) = R, h.norm, Depth(h.field) <= 0, ~Kept
               PROVE  FALSE
    OBVIOUS
  <2>1. PICK i \in DOMAIN RedundantWith(h.field), g \in fs : g.field = RedundantWith(h.field)[i]
    BY <1>2
  <2>2. Depth(g.field) < Depth(h.field)
    BY <2>1, DepthFalls
  <2> QED BY <2>2, <1>3
<1>5. ASSUME NEW n \in 0 .. 1, AtMost(n) PROVE AtMost(n + 1)
  <2> SUFFICES ASSUME NEW h \in fs, h.cluster = c, Rank(h.severity) = R, h.norm, Depth(h.field) <= n + 1, ~Kept
               PROVE  FALSE
    OBVIOUS
  <2>1. PICK i \in DOMAIN RedundantWith(h.field), g \in fs :
            g.norm /\ g.cluster = c /\ Rank(g.severity) = R /\ g.field = RedundantWith(h.field)[i]
    BY <1>2
  <2>2. Depth(g.field) < Depth(h.field)
    BY <2>1, DepthFalls
  <2>3. Depth(g.field) <= n
    BY <2>2, <1>3
  <2> QED BY <2>1, <2>3, <1>5
<1>6. AtMost(1) /\ AtMost(2)
  BY <1>4, <1>5
<1>7. CASE f.norm
  BY <1>3, <1>6, <1>7 DEF Kept
<1>8. CASE ~f.norm
  BY <1>1, <1>8, RankRange DEF Kept
<1> QED BY <1>7, <1>8
\* The worst severity charged to a cluster.
LEMMA WorstOfType ==
    ASSUME NEW c, NEW fs
    PROVE  /\ worstOf(c, fs) \in 0 .. 3
           /\ worstOf(c, fs) # 0 => \E s \in clusterSeverities(c, fs) : Rank(s) = worstOf(c, fs)
           /\ \A s \in clusterSeverities(c, fs) : Rank(s) <= worstOf(c, fs)
<1> DEFINE S == {0} \cup {Rank(s) : s \in clusterSeverities(c, fs)}
<1>1. S \subseteq 0 .. 3 /\ 0 \in S
  BY RankRange
<1>2. Max(S) \in S /\ \A y \in S : y <= Max(S)
  BY <1>1, MaxOfRanks
<1>3. worstOf(c, fs) = Max(S)
  BY DEF worstOf
<1> QED BY <1>1, <1>2, <1>3

\* The severities of the findings and of the marks on a cluster, apart.
LEMMA SeverityCharged ==
    ASSUME NEW c, NEW fs, NEW s
    PROVE  s \in clusterSeverities(c, fs) <=>
              \E f \in fs : \/ f.cluster = c /\ f.severity = s
                           \/ \E m \in f.marks : m.cluster = c /\ m.severity = s
<1>1. s \in {f.severity : f \in {f \in fs : f.cluster = c}} <=> \E f \in fs : f.cluster = c /\ f.severity = s
  OBVIOUS
<1>2. s \in {m.severity : m \in {m \in UNION {f.marks : f \in fs} : m.cluster = c}}
        <=> \E f \in fs : \E m \in f.marks : m.cluster = c /\ m.severity = s
  OBVIOUS
<1> QED BY <1>1, <1>2 DEF clusterSeverities

\* The collapse keeps the worst severity charged to a cluster.
LEMMA CollapseKeepsWorst ==
    ASSUME NEW fs, NormUnmarked(fs), NEW members, NEW extra, NEW c
    PROVE  worstOf(c, dropRedundant(fs, members) \cup extra) >= worstOf(c, fs)
<1> DEFINE left == dropRedundant(fs, members) \cup extra
           R == worstOf(c, fs)
<1>1. R \in 0 .. 3 /\ worstOf(c, left) \in 0 .. 3
  BY WorstOfType
<1>2. CASE R = 0
  BY <1>1, <1>2
<1>3. CASE R # 0
  <2>1. PICK s \in clusterSeverities(c, fs) : Rank(s) = R
    BY <1>3, WorstOfType
  <2>2. SUFFICES \E t \in clusterSeverities(c, left) : Rank(t) >= R
    <3>1. ASSUME NEW t \in clusterSeverities(c, left), Rank(t) >= R PROVE worstOf(c, left) >= R
      BY <1>1, <3>1, WorstOfType, RankRange
    <3> QED BY <3>1
  <2>3. PICK f \in fs : \/ f.cluster = c /\ f.severity = s
                       \/ \E m \in f.marks : m.cluster = c /\ m.severity = s
    BY SeverityCharged
  <2>4. CASE f.cluster = c /\ f.severity = s
    <3>1. ASSUME NEW g \in fs, g.cluster = c PROVE Rank(g.severity) <= R
      <4>1. g.severity \in clusterSeverities(c, fs)
        BY <3>1, SeverityCharged
      <4> QED BY <4>1, WorstOfType
    <3>2. PICK g \in dropRedundant(fs, members) : g.cluster = c /\ Rank(g.severity) >= R
      <4>1. R \in 1 .. 3
        BY <1>1, <1>3
      <4> HIDE DEF R
      <4> QED BY <4>1, <3>1, <2>4, <2>1, WorstKept
    <3>3. g \in left /\ g.severity \in clusterSeverities(c, left)
      BY <3>2, SeverityCharged
    <3> QED BY <3>2, <3>3
  <2>5. CASE \E m \in f.marks : m.cluster = c /\ m.severity = s
    <3>1. ~f.norm
      BY <2>5 DEF NormUnmarked
    <3>2. f \in left
      BY <3>1, OnlyNormDropped
    <3>3. s \in clusterSeverities(c, left)
      BY <3>2, <2>5, SeverityCharged
    <3> QED BY <3>3, <2>1, RankRange
  <2> QED BY <2>3, <2>4, <2>5
<1> QED BY <1>2, <1>3

\* Which findings are norm findings, and which may mark clusters.
LEMMA FindingShapes ==
    /\ \A c, s, rule, severity : ClusterFinding(c, s, rule, severity).norm = FALSE
    /\ \A s, rule, severity, marks : FleetFinding(s, rule, severity, marks).norm = FALSE
    /\ \A o, rule : NormFinding(o, rule).marks = {}
BY DEF ClusterFinding, FleetFinding, NormFinding

\* No norm finding marks a cluster.
LEMMA GeneratedUnmarked ==
    ASSUME NEW sc, NEW outliers, NEW held, NEW inCohorts, NEW chosen
    PROVE  NormUnmarked(generated(sc, outliers, held, inCohorts, chosen))
<1> DEFINE fleet == sc.fleet
           ruled == UNION {UNION {{ClusterFinding(c, s, f.rule, f.severity) : f \in rulesOf(fleet[c].runs)[s]} :
                                    s \in DOMAIN fleet[c].runs} : c \in DOMAIN fleet}
<1>1. /\ NormUnmarked(outlierFindings(outliers, held))
      /\ NormUnmarked(cohortOutlierFindings(outliers, inCohorts))
  BY FindingShapes DEF NormUnmarked, outlierFindings, cohortOutlierFindings
<1>2. NormUnmarked(versionFindings(fleet))
  BY FindingShapes DEF NormUnmarked, versionFindings
<1>3. NormUnmarked(namespaceFindings(fleet))
  BY FindingShapes DEF NormUnmarked, namespaceFindings
<1>4. NormUnmarked(rbacFindings(fleet))
  BY FindingShapes DEF NormUnmarked, rbacFindings
<1>5. NormUnmarked(capacityFindings(fleet, chosen))
  BY FindingShapes DEF NormUnmarked, capacityFindings
<1>6. NormUnmarked(ruled)
  BY FindingShapes DEF NormUnmarked
<1>7. generated(sc, outliers, held, inCohorts, chosen) \subseteq
        outlierFindings(outliers, held) \cup cohortOutlierFindings(outliers, inCohorts)
        \cup versionFindings(fleet) \cup namespaceFindings(fleet) \cup rbacFindings(fleet)
        \cup capacityFindings(fleet, chosen) \cup ruled
  BY DEF generated
<1> HIDE DEF fleet, ruled
<1> QED BY <1>1, <1>2, <1>3, <1>4, <1>5, <1>6, <1>7 DEF NormUnmarked

\* The findings of a report are the collapsed ones and the mis-cohort ones.
LEMMA BuildFields ==
    ASSUME NEW sc, NEW cohorts, NEW auto, NEW chosen
    PROVE  LET r == Build(sc, cohorts, auto, chosen)
           IN /\ NormUnmarked(r.before)
              /\ \E members, extra : r.findings = dropRedundant(r.before, members) \cup extra
<1>1. \E outliers, held, inCohorts :
         Build(sc, cohorts, auto, chosen).before = generated(sc, outliers, held, inCohorts, chosen)
  BY DEF Build
<1>2. Build(sc, cohorts, auto, chosen).findings =
         dropRedundant(Build(sc, cohorts, auto, chosen).before, scopeMembers(sc.fleet, cohorts))
         \cup misCohortFindings(tagsOf(sc), sc.strays, auto)
  BY DEF Build
<1>3. NormUnmarked(Build(sc, cohorts, auto, chosen).before)
  BY <1>1, GeneratedUnmarked
<1> QED BY <1>2, <1>3

\* dropRedundant never hides the worst news of a cluster: for every scan, every cohorts and
\* every choice of groups, the worst severity charged to a cluster after the collapse is the one before it.
THEOREM CollapseSafe == FleetSpec => []CollapseKeepsStatus
<1>1. FleetInit => CollapseKeepsStatus
  BY DEF FleetInit, FleetStart, CollapseKeepsStatus, Built
<1>2. CollapseKeepsStatus /\ [FleetNext]_fleetVars => CollapseKeepsStatus'
  <2> SUFFICES ASSUME CollapseKeepsStatus, [FleetNext]_fleetVars PROVE CollapseKeepsStatus'
    OBVIOUS
  <2>1. CASE UNCHANGED fleetVars
    BY <2>1 DEF fleetVars, CollapseKeepsStatus, Built
  <2>2. CASE BuildReport
    <3>1. PICK cohorts, auto, chosen : report' = Build(scan, cohorts, auto, chosen)
      BY <2>2 DEF BuildReport
    <3>2. PICK members, extra : report'.findings = dropRedundant(report'.before, members) \cup extra
      BY <3>1, BuildFields
    <3>3. NormUnmarked(report'.before)
      BY <3>1, BuildFields
    <3>4. \A c : worstOf(c, report'.findings) >= worstOf(c, report'.before)
      BY <3>2, <3>3, CollapseKeepsWorst
    <3> QED BY <3>4 DEF CollapseKeepsStatus, Built
  <2> QED BY <2>1, <2>2 DEF FleetNext
<1> QED BY <1>1, <1>2, PTL DEF FleetSpec

------------------------------------------------------------------------------
(* Scores and grades. *)

\* A non-empty set of natural numbers has a least element.
LEMMA LeastOf ==
    ASSUME NEW S \in SUBSET Nat, S # {}
    PROVE  \E m \in S : \A x \in S : m <= x
<1> DEFINE R == OpToRel(<, Nat)
<1>1. IsWellFoundedOn(R, Nat)
  BY NatLessThanWellFounded
<1>2. PICK m \in S : \A y \in S : ~(<<y, m>> \in R)
  <2> HIDE DEF R
  <2> QED BY <1>1, WFMin
<1>3. \A y \in S : y < m => <<y, m>> \in R
  BY DEF OpToRel
<1> HIDE DEF R
<1>4. \A y \in S : ~(y < m)
  BY <1>2, <1>3, Zenon
<1>5. \A y \in S : y \in Nat /\ m \in Nat
  OBVIOUS
<1> QED BY <1>4, <1>5

\* The largest element of a bounded set of natural numbers.
LEMMA MaxOf ==
    ASSUME NEW n \in Nat, NEW S \in SUBSET (0 .. n), S # {}
    PROVE  Max(S) \in S /\ \A y \in S : y <= Max(S)
<1> DEFINE T == {m \in Nat : \A y \in S : y <= m}
<1>1. n \in T
  OBVIOUS
<1>2. PICK m \in T : \A x \in T : m <= x
  <2>1. T \in SUBSET Nat /\ T # {}
    BY <1>1
  <2> HIDE DEF T
  <2> QED BY <2>1, LeastOf
<1>3. m \in S
  <2>1. CASE m = 0
    <3>1. PICK y \in S : TRUE
      OBVIOUS
    <3>2. y = 0
      BY <1>2, <2>1, <3>1
    <3> QED BY <2>1, <3>1, <3>2
  <2>2. CASE m # 0
    <3> SUFFICES ASSUME m \notin S PROVE FALSE
      OBVIOUS
    <3>1. m - 1 \in Nat
      BY <2>2
    <3>2. \A y \in S : y <= m - 1
      BY <3>1
    <3>3. m - 1 \in T
      BY <3>1, <3>2
    <3> QED BY <1>2, <3>1, <3>3
  <2> QED BY <2>1, <2>2
<1>4. \A y \in S : m >= y
  OBVIOUS
<1>5. \E x \in S : \A y \in S : x >= y
  BY <1>3, <1>4
<1>6. Max(S) \in S /\ \A y \in S : Max(S) >= y
  <2> HIDE DEF T
  <2> QED BY <1>5 DEF Max
<1>7. \A x, y \in S : x >= y => y <= x
  OBVIOUS
<1> QED BY <1>6, <1>7

\* The larger of two numbers.
LEMMA MaxOfTwo ==
    ASSUME NEW a \in Int, NEW b \in Int
    PROVE  Max({a, b}) = IF a >= b THEN a ELSE b
<1>1. \E x \in {a, b} : \A y \in {a, b} : x >= y
  OBVIOUS
<1>2. Max({a, b}) \in {a, b} /\ \A y \in {a, b} : Max({a, b}) >= y
  BY <1>1 DEF Max
<1> QED BY <1>2

\* The smaller of two numbers.
LEMMA MinOfTwo ==
    ASSUME NEW a \in Int, NEW b \in Int
    PROVE  Min({a, b}) = IF a <= b THEN a ELSE b
<1>1. \E x \in {a, b} : \A y \in {a, b} : x <= y
  OBVIOUS
<1>2. Min({a, b}) \in {a, b} /\ \A y \in {a, b} : Min({a, b}) <= y
  BY <1>1 DEF Min
<1> QED BY <1>2

\* A capped charge is never negative, and the first unit is paid in full.
LEMMA ChargeBounds ==
    ASSUME NEW count \in Nat, NEW per \in Nat, NEW limit \in Nat, per <= limit
    PROVE  /\ charge(count, per, limit) \in Nat
           /\ count # 0 => charge(count, per, limit) >= per
<1>1. count * per \in Nat
  OBVIOUS
<1>2. count # 0 => count * per >= per
  <2> SUFFICES ASSUME count # 0 PROVE count * per >= per
    OBVIOUS
  <2>1. count - 1 \in Nat
    OBVIOUS
  <2>2. (count - 1) * per \in Nat
    BY <2>1
  <2>3. count * per = (count - 1) * per + per
    OBVIOUS
  <2> QED BY <2>2, <2>3
<1>3. charge(count, per, limit) = IF count * per <= limit THEN count * per ELSE limit
  BY <1>1, MinOfTwo DEF charge
<1> QED BY <1>1, <1>2, <1>3

\* The bound of a quotient.
LEMMA DivAtMost ==
    ASSUME NEW a \in Nat, NEW d \in Nat, d # 0, NEW b \in Nat, a < b * d + d
    PROVE  a \div d \in 0 .. b
<1>1. a \div d \in Int /\ (a \div d) * d <= a /\ a < (a \div d) * d + d
  OBVIOUS
<1>2. PICK q \in Int : q = a \div d
  BY <1>1
<1>3. q >= 0
  <2> SUFFICES ASSUME q < 0 PROVE FALSE
    BY <1>2
  <2>1. -1 - q \in Nat
    BY <1>2
  <2>2. (-1 - q) * d \in Nat
    BY <2>1
  <2>3. (-1 - q) * d = 0 - (q * d + d)
    BY <1>2
  <2> QED BY <1>1, <1>2, <2>2, <2>3
<1>4. q <= b
  <2> SUFFICES ASSUME q > b PROVE FALSE
    BY <1>2
  <2>1. q - b - 1 \in Nat
    BY <1>2
  <2>2. (q - b - 1) * d \in Nat
    BY <2>1
  <2>3. q * d = (q - b - 1) * d + b * d + d
    BY <1>2
  <2> QED BY <1>1, <1>2, <2>2, <2>3
<1> QED BY <1>2, <1>3, <1>4

\* What the scores need of the scale.
LEMMA PointIs == Point \in Nat /\ Point > 0 /\ Point \div 2 \in Nat /\ Point \div 4 \in Nat
                 /\ 3 * (Point \div 2) <= 24 * Point /\ Point \div 4 <= 5 * Point
BY DEF Point

\* Rounding half up stays within a whole bound.
LEMMA RoundedRange ==
    ASSUME NEW p \in Nat, p > 0, NEW m \in Nat, NEW b \in Nat, m <= b * p
    PROVE  (2 * m + p) \div (2 * p) \in 0 .. b
<1>1. 2 * m + p \in Nat /\ 2 * p \in Nat /\ 2 * p # 0
  OBVIOUS
<1>2. b * p \in Nat /\ b * (2 * p) = 2 * (b * p)
  OBVIOUS
<1>3. 2 * m + p < b * (2 * p) + 2 * p
  BY <1>2
<1> QED BY <1>1, <1>3, DivAtMost

\* A score is within 0 to 100, and below the top band at a cost of six points.
LEMMA ScoreRange ==
    ASSUME NEW cost \in Nat
    PROVE  /\ scoreOf(cost) \in 0 .. 100
           /\ cost >= 6 * Point => scoreOf(cost) \in 0 .. 94
<1>1. PICK p \in Nat : p = Point /\ p > 0
  BY PointIs
<1>2. Max({0, 100 * p - cost}) = IF 0 >= 100 * p - cost THEN 0 ELSE 100 * p - cost
  BY MaxOfTwo
<1>3. PICK m \in Nat : m = Max({0, 100 * p - cost}) /\ m <= 100 * p /\ (cost >= 6 * p => m <= 94 * p)
  BY <1>2
<1>4. scoreOf(cost) = (2 * m + p) \div (2 * p)
  <2>1. scoreOf(cost) = (2 * Max({0, 100 * p - cost}) + p) \div (2 * p)
    BY <1>1, Zenon DEF scoreOf
  <2> QED BY <1>3, <2>1, Zenon
<1>5. (2 * m + p) \div (2 * p) \in 0 .. 100
  BY <1>1, <1>3, RoundedRange
<1>6. cost >= 6 * p => (2 * m + p) \div (2 * p) \in 0 .. 94
  BY <1>1, <1>3, RoundedRange
<1> QED BY <1>1, <1>4, <1>5, <1>6, Zenon

\* No stored node count makes the share of unhealthy nodes leave its range.
LEMMA ShareRange ==
    ASSUME NEW fleet, NEW c, NEW whole \in Nat,
           seen(fleet[c].runs, "node-health") =>
               /\ field(fleet[c].runs, "node-health", "node_count") \in Nat
               /\ field(fleet[c].runs, "node-health", "healthy_nodes") \in Nat
    PROVE  unhealthyShare(fleet, c, whole) \in 0 .. whole
<1> DEFINE n == IF seen(fleet[c].runs, "node-health") THEN field(fleet[c].runs, "node-health", "node_count") ELSE 0
           h == field(fleet[c].runs, "node-health", "healthy_nodes")
<1>1. unhealthyShare(fleet, c, whole) = IF n = 0 THEN 0 ELSE (whole * Max({0, n - h})) \div n
  BY Zenon DEF unhealthyShare
<1>2. n \in Nat
  OBVIOUS
<1>3. n # 0 => h \in Nat
  OBVIOUS
<1> HIDE DEF n, h
<1>4. CASE n = 0
  BY <1>1, <1>4
<1>5. CASE n # 0
  <2>1. PICK m \in 0 .. n : m = Max({0, n - h})
    BY <1>2, <1>3, <1>5, MaxOfTwo
  <2>2. (whole * m) \div n \in 0 .. whole
    <3>1. whole * m \in Nat /\ whole * m <= whole * n
      <4>1. n - m \in Nat
        BY <1>2
      <4>2. whole * (n - m) \in Nat /\ whole * m \in Nat
        BY <4>1
      <4>3. whole * n = whole * m + whole * (n - m)
        BY <1>2
      <4> QED BY <4>2, <4>3, <1>2
    <3>2. whole * m < whole * n + n /\ whole * n \in Nat
      BY <3>1, <1>2, <1>5
    <3> QED BY <3>1, <3>2, <1>2, <1>5, DivAtMost
  <2> QED BY <1>1, <1>5, <2>1, <2>2
<1> QED BY <1>4, <1>5

\* A count of members of a finite set is a number, and not zero when there is one.
LEMMA CountOf ==
    ASSUME NEW S, IsFiniteSet(S), NEW T, T \subseteq S
    PROVE  /\ Cardinality(T) \in Nat
           /\ T # {} => Cardinality(T) # 0
<1>1. IsFiniteSet(T)
  BY FS_Subset
<1> QED BY <1>1, FS_CardinalityType, FS_EmptySet

\* A quotient of natural numbers.
LEMMA DivNat ==
    ASSUME NEW a \in Nat, NEW d \in Nat, d # 0
    PROVE  a \div d \in Nat
<1>1. a * d \in Nat /\ (a * d) + d > a
  <2>1. d - 1 \in Nat
    OBVIOUS
  <2>2. a * (d - 1) \in Nat
    BY <2>1
  <2>3. a * d = a * (d - 1) + a
    OBVIOUS
  <2> QED BY <2>2, <2>3
<1>2. a \div d \in 0 .. a
  BY <1>1, DivAtMost
<1> QED BY <1>2

\* What FleetAssumption says of the fleet of a stored scan.
Sound(fleet) ==
    /\ Len(fleet) \in Nat \ {0} /\ DOMAIN fleet = 1 .. Len(fleet)
    /\ \A c \in DOMAIN fleet :
          seen(fleet[c].runs, "node-health") =>
              /\ field(fleet[c].runs, "node-health", "node_count") \in Nat
              /\ field(fleet[c].runs, "node-health", "healthy_nodes") \in Nat

\* The ledger of the fleet's score never goes below zero, and a critical finding costs six points.
LEMMA FleetCost ==
    ASSUME NEW fleet, Sound(fleet), NEW fs, IsFiniteSet(fs), NEW status
    PROVE  /\ computeScoreAttribution(fleet, fs, status) \in Nat
           /\ (\E f \in fs : f.severity = "critical") => computeScoreAttribution(fleet, fs, status) >= 6 * Point
<1> DEFINE count(severity) == Cardinality({f \in fs : f.severity = severity})
           share(s, cost) == Cardinality({c \in DOMAIN fleet : status[c] = s}) * ((cost * Point) \div Len(fleet))
           worst == Max({unhealthyShare(fleet, c, 10 * Point) : c \in DOMAIN fleet})
<1>1. PICK p \in Nat : p = Point /\ p > 0
  BY PointIs
<1>2. \A severity : count(severity) \in Nat
  BY CountOf
<1>3. (\E f \in fs : f.severity = "critical") => count("critical") # 0
  <2>1. (\E f \in fs : f.severity = "critical") => {f \in fs : f.severity = "critical"} # {}
    OBVIOUS
  <2> QED BY <2>1, CountOf
<1>4. PICK t1 \in Nat : /\ t1 = charge(count("critical"), 6 * Point, 36 * Point)
                        /\ count("critical") # 0 => t1 >= 6 * p
  <2> HIDE DEF count
  <2>1. 6 * p \in Nat /\ 36 * p \in Nat /\ 6 * p <= 36 * p
    OBVIOUS
  <2> QED BY <1>1, <1>2, <2>1, ChargeBounds
<1>5. PICK t2 \in Nat : t2 = charge(count("warning"), 3 * (Point \div 2), 24 * Point)
  <2> HIDE DEF count
  <2>1. 3 * (Point \div 2) \in Nat /\ 24 * Point \in Nat /\ 3 * (Point \div 2) <= 24 * Point
    BY PointIs
  <2> QED BY <1>2, <2>1, ChargeBounds
<1>6. PICK t3 \in Nat : t3 = charge(count("info"), Point \div 4, 5 * Point)
  <2> HIDE DEF count
  <2>1. Point \div 4 \in Nat /\ 5 * Point \in Nat /\ Point \div 4 <= 5 * Point
    BY PointIs
  <2> QED BY <1>2, <2>1, ChargeBounds
<1>7. \A s : \A cost \in Nat : share(s, cost) \in Nat
  <2> SUFFICES ASSUME NEW s, NEW cost \in Nat PROVE share(s, cost) \in Nat
    OBVIOUS
  <2>1. cost * p \in Nat
    OBVIOUS
  <2>2. (cost * Point) \div Len(fleet) \in Nat
    BY <1>1, <2>1, DivNat DEF Sound
  <2>3. IsFiniteSet(DOMAIN fleet)
    BY FS_Interval DEF Sound
  <2>4. Cardinality({c \in DOMAIN fleet : status[c] = s}) \in Nat
    BY <2>3, CountOf
  <2> QED BY <2>2, <2>4
<1>8. PICK t4 \in Nat : t4 = share("critical", 20)
  <2> HIDE DEF share
  <2> QED BY <1>7
<1>9. PICK t5 \in Nat : t5 = share("degraded", 10)
  <2> HIDE DEF share
  <2> QED BY <1>7
<1>10. PICK t6 \in Nat : t6 = versionSkewCost(fleet)
  <2>1. versionSkewCost(fleet) \in {0, 10 * Point, 3 * Point}
    BY DEF versionSkewCost
  <2>2. 10 * Point \in Nat /\ 3 * Point \in Nat
    BY PointIs
  <2> QED BY <2>1, <2>2
<1>11. PICK t7 \in Nat : t7 = worst
  <2> DEFINE S == {unhealthyShare(fleet, c, 10 * Point) : c \in DOMAIN fleet}
  <2>1. 10 * Point \in Nat
    BY PointIs
  <2>2. \A c \in DOMAIN fleet : unhealthyShare(fleet, c, 10 * Point) \in 0 .. 10 * Point
    BY <2>1, ShareRange DEF Sound
  <2>3. S \in SUBSET (0 .. 10 * Point)
    BY <2>2
  <2>4. S # {}
    <3>1. 1 \in DOMAIN fleet
      BY DEF Sound
    <3> QED BY <3>1
  <2> HIDE DEF S
  <2>5. Max(S) \in S
    BY <2>1, <2>3, <2>4, MaxOf
  <2>6. \A k \in Nat : \A x \in 0 .. k : x \in Nat
    OBVIOUS
  <2>7. Max(S) \in 0 .. 10 * Point
    BY <2>3, <2>5, Zenon
  <2>8. Max(S) \in Nat
    BY <2>1, <2>6, <2>7, Zenon
  <2> QED BY <2>8, Zenon DEF S
<1>12. computeScoreAttribution(fleet, fs, status) = t1 + t2 + t3 + t4 + t5 + t6 + t7
  BY <1>4, <1>5, <1>6, <1>8, <1>9, <1>10, <1>11, Zenon DEF computeScoreAttribution
<1> HIDE DEF count, share, worst
<1>13. t1 + t2 + t3 + t4 + t5 + t6 + t7 \in Nat
  OBVIOUS
<1>14. count("critical") # 0 => t1 + t2 + t3 + t4 + t5 + t6 + t7 >= 6 * p
  BY <1>4
<1> QED BY <1>1, <1>3, <1>12, <1>13, <1>14, Zenon

\* The score of a cluster, and what a critical or unknown one scores at most.
LEMMA ClusterScoreRange ==
    ASSUME NEW fleet, Sound(fleet), NEW fs, IsFiniteSet(fs), NEW c \in DOMAIN fleet, NEW status
    PROVE  /\ ComputeClusterScore(fleet, c, fs, status) \in 0 .. 100
           /\ status \in {"critical", "unknown"} => ComputeClusterScore(fleet, c, fs, status) \in 0 .. 94
<1> DEFINE sig == signals(fleet[c].runs)
           health == CASE status = "critical" -> 20 * Point
                       [] status \in {"degraded", "unknown"} -> 10 * Point [] OTHER -> 0
<1>1. PICK p \in Nat : p = Point /\ p > 0
  BY PointIs
<1>2. \A severity : charged(c, fs, severity) \in Nat
  BY CountOf DEF charged
<1>3. PICK t1 \in Nat : t1 = charge(charged(c, fs, "critical"), 8 * Point, 40 * Point)
  <2>1. 8 * p \in Nat /\ 40 * p \in Nat /\ 8 * p <= 40 * p
    OBVIOUS
  <2> QED BY <1>1, <1>2, <2>1, ChargeBounds
<1>4. PICK t2 \in Nat : t2 = charge(charged(c, fs, "warning"), 2 * Point, 24 * Point)
  <2>1. 2 * p \in Nat /\ 24 * p \in Nat /\ 2 * p <= 24 * p
    OBVIOUS
  <2> QED BY <1>1, <1>2, <2>1, ChargeBounds
<1>5. PICK t3 \in Nat : t3 = health /\ (status \in {"critical", "unknown"} => t3 >= 6 * p)
  <2>1. 20 * p \in Nat /\ 10 * p \in Nat /\ 20 * p >= 6 * p /\ 10 * p >= 6 * p
    OBVIOUS
  <2>2. CASE status = "critical"
    BY <1>1, <2>1, <2>2
  <2>3. CASE status # "critical" /\ status \in {"degraded", "unknown"}
    BY <1>1, <2>1, <2>3
  <2>4. CASE status \notin {"critical", "degraded", "unknown"}
    BY <2>4
  <2> QED BY <2>2, <2>3, <2>4
<1>6. PICK t4 \in Nat : t4 = unhealthyShare(fleet, c, 15 * Point)
  <2>1. 15 * Point \in Nat
    BY PointIs
  <2>2. unhealthyShare(fleet, c, 15 * Point) \in 0 .. 15 * Point
    BY <2>1, ShareRange DEF Sound
  <2> QED BY <2>1, <2>2
<1>7. PICK t5 \in Nat : t5 = IF sig.cpu >= 85 THEN 5 * Point ELSE 0
  <2> HIDE DEF sig
  <2> QED BY PointIs
<1>8. PICK t6 \in Nat : t6 = IF sig.mem >= 85 THEN 5 * Point ELSE 0
  <2> HIDE DEF sig
  <2> QED BY PointIs
<1>9. ComputeClusterScore(fleet, c, fs, status) = scoreOf(t1 + t2 + t3 + t4 + t5 + t6)
  BY <1>3, <1>4, <1>5, <1>6, <1>7, <1>8, Zenon DEF ComputeClusterScore
<1> HIDE DEF sig, health
<1>10. t1 + t2 + t3 + t4 + t5 + t6 \in Nat
  OBVIOUS
<1>11. status \in {"critical", "unknown"} => t1 + t2 + t3 + t4 + t5 + t6 >= 6 * Point
  BY <1>1, <1>5
<1> QED BY <1>9, <1>10, <1>11, ScoreRange, Zenon

\* A report lists finitely many findings.
FindingsFinite == \A r \in Built : IsFiniteSet(r.findings)

\* A built report is one of the stored scan.
ReportIsBuilt ==
    report # NoReport =>
        \E cohorts, auto, chosen : report = Build(scan, cohorts, auto, chosen)

\* The report, once there is one, is built of a stored scan.
FleetInv == scan \in Scans /\ ReportIsBuilt

\* FleetInv is an invariant: the only step builds the report of the stored scan.
LEMMA FleetInvariant == FleetSpec => []FleetInv
<1>1. FleetInit => FleetInv
  BY DEF FleetInit, FleetStart, FleetInv, ReportIsBuilt
<1>2. FleetInv /\ [FleetNext]_fleetVars => FleetInv'
  <2> SUFFICES ASSUME FleetInv, [FleetNext]_fleetVars PROVE FleetInv'
    OBVIOUS
  <2>1. CASE BuildReport
    BY <2>1 DEF BuildReport, FleetInv, ReportIsBuilt
  <2>2. CASE UNCHANGED fleetVars
    BY <2>2 DEF fleetVars, FleetInv, ReportIsBuilt
  <2> QED BY <2>1, <2>2 DEF FleetNext
<1> QED BY <1>1, <1>2, PTL DEF FleetSpec

\* The parts of a report its honesty is about.
LEMMA BuildScores ==
    ASSUME NEW sc, NEW cohorts, NEW auto, NEW chosen, NEW r, r = Build(sc, cohorts, auto, chosen)
    PROVE  /\ r.score = scoreOf(computeScoreAttribution(sc.fleet, r.findings, r.status))
           /\ r.clusterScores = [c \in DOMAIN sc.fleet |->
                                    ComputeClusterScore(sc.fleet, c, r.findings, r.status[c])]
BY DEF Build

\* Whether a report is graded.
LEMMA BuildGraded ==
    ASSUME NEW sc, NEW cohorts, NEW auto, NEW chosen, NEW r, r = Build(sc, cohorts, auto, chosen), clearsFloor(sc.fleet)
    PROVE  r.graded
BY Zenon DEF Build

\* The scores of a built report.
LEMMA EarnedScores == FleetInv /\ FindingsFinite => ScoresAreEarned
<1> SUFFICES ASSUME FleetInv, FindingsFinite, NEW r \in Built
             PROVE  /\ {r.score} \cup Range(r.clusterScores) \subseteq 0 .. 100
                    /\ r.score >= 95 => \A f \in r.findings : f.severity # "critical"
                    /\ \A c \in DOMAIN scan.fleet : r.status[c] \in {"critical", "unknown"} => r.clusterScores[c] < 95
  BY DEF ScoresAreEarned
<1>1. PICK cohorts, auto, chosen : r = Build(scan, cohorts, auto, chosen)
  BY DEF Built, FleetInv, ReportIsBuilt
<1>2. IsFiniteSet(r.findings)
  BY DEF FindingsFinite
<1>3. Sound(scan.fleet)
  BY FleetAssumption DEF FleetInv, Sound
<1> DEFINE cost == computeScoreAttribution(scan.fleet, r.findings, r.status)
<1>4. /\ r.score = scoreOf(cost)
      /\ r.clusterScores = [c \in DOMAIN scan.fleet |-> ComputeClusterScore(scan.fleet, c, r.findings, r.status[c])]
  BY <1>1, BuildScores
<1>5. cost \in Nat /\ ((\E f \in r.findings : f.severity = "critical") => cost >= 6 * Point)
  BY <1>2, <1>3, FleetCost
<1> HIDE DEF cost
<1>6. r.score \in 0 .. 100
  BY <1>4, <1>5, ScoreRange
<1>7. (\E f \in r.findings : f.severity = "critical") => r.score \in 0 .. 94
  BY <1>4, <1>5, ScoreRange
<1>8. \A c \in DOMAIN scan.fleet : /\ r.clusterScores[c] \in 0 .. 100
                                   /\ r.status[c] \in {"critical", "unknown"} => r.clusterScores[c] \in 0 .. 94
  BY <1>2, <1>3, <1>4, ClusterScoreRange
<1>9. Range(r.clusterScores) \subseteq 0 .. 100
  BY <1>4, <1>8 DEF Range
<1>10. r.score >= 95 => \A f \in r.findings : f.severity # "critical"
  BY <1>6, <1>7
<1>11. \A c \in DOMAIN scan.fleet : r.status[c] \in {"critical", "unknown"} => r.clusterScores[c] < 95
  BY <1>8
<1> QED BY <1>6, <1>9, <1>10, <1>11

\* A score in the top band is earned (scoreWithAttribution, ComputeClusterScore): for every
\* stored scan the scores are within 0 to 100, a critical finding keeps the fleet below 95, and
\* a cluster of critical or unknown health scores below 95.
THEOREM TopBandEarned == FleetSpec => [](FindingsFinite => ScoresAreEarned)
<1>1. FleetSpec => []FleetInv
  BY FleetInvariant
<1>2. FleetInv => (FindingsFinite => ScoresAreEarned)
  BY EarnedScores
<1> QED BY <1>1, <1>2, PTL

\* A fleet whose run was lost has the runs of the others.
LEMMA LostRun ==
    ASSUME NEW fleet, NEW c \in DOMAIN fleet, NEW s \in DOMAIN fleet[c].runs,
           DOMAIN fleet = 1 .. Len(fleet), Len(fleet) \in Nat,
           \A d \in DOMAIN fleet : IsFiniteSet(DOMAIN fleet[d].runs), "state" \in DOMAIN fleet[c].runs[s],
           clearsFloor(WithRun(fleet, c, s, [fleet[c].runs[s] EXCEPT !.state = "errored"]))
    PROVE  clearsFloor(fleet)
<1> DEFINE run == [fleet[c].runs[s] EXCEPT !.state = "errored"]
           lost == WithRun(fleet, c, s, run)
           names == expectedScanners(fleet)
           pairs == (DOMAIN fleet) \X names
           watched(fl) == {r \in pairs : r[2] \in observedRuns(fl, r[1])}
<1>1. DOMAIN lost = DOMAIN fleet
  BY DEF WithRun
<1>2. \A d \in DOMAIN fleet : d # c => lost[d] = fleet[d]
  BY DEF WithRun
<1>3. lost[c].runs = [fleet[c].runs EXCEPT ![s] = run]
  BY DEF WithRun
<1> HIDE DEF lost
<1>4. \A d \in DOMAIN fleet : DOMAIN lost[d].runs = DOMAIN fleet[d].runs
  BY <1>2, <1>3
<1>5. expectedScanners(lost) = names
  BY <1>1, <1>4, Zenon DEF expectedScanners, scannerNames
<1>6. \A d \in DOMAIN fleet : \A t \in DOMAIN fleet[d].runs :
         lost[d].runs[t] = fleet[d].runs[t] \/ lost[d].runs[t].state = "errored"
  <2> SUFFICES ASSUME NEW d \in DOMAIN fleet, NEW t \in DOMAIN fleet[d].runs
               PROVE  lost[d].runs[t] = fleet[d].runs[t] \/ lost[d].runs[t].state = "errored"
    OBVIOUS
  <2>1. CASE d = c /\ t = s
    <3>1. lost[d].runs[t] = run
      BY <1>3, <2>1
    <3>2. run.state = "errored"
      OBVIOUS
    <3> QED BY <3>1, <3>2
  <2>2. CASE d # c
    BY <1>2, <2>2
  <2>3. CASE d = c /\ t # s
    BY <1>3, <2>3
  <2> QED BY <2>1, <2>2, <2>3
<1> HIDE DEF run
<1>7. \A d \in DOMAIN fleet : observedRuns(lost, d) \subseteq observedRuns(fleet, d)
  <2> SUFFICES ASSUME NEW d \in DOMAIN fleet, NEW t \in observedRuns(lost, d)
               PROVE  t \in observedRuns(fleet, d)
    OBVIOUS
  <2>1. /\ t \in names /\ t \in DOMAIN lost[d].runs
        /\ lost[d].runs[t].state # "errored" /\ lost[d].runs[t].state # "degraded"
    BY <1>5 DEF observedRuns, blindRuns
  <2>2. t \in DOMAIN fleet[d].runs /\ lost[d].runs[t] = fleet[d].runs[t]
    BY <1>4, <1>6, <2>1
  <2> QED BY <2>1, <2>2 DEF observedRuns, blindRuns
<1>8. IsFiniteSet(pairs)
  <2>1. IsFiniteSet(DOMAIN fleet)
    BY FS_Interval
  <2>2. IsFiniteSet(names)
    <3> DEFINE all == {DOMAIN fleet[d].runs : d \in DOMAIN fleet}
               of == [d \in DOMAIN fleet |-> DOMAIN fleet[d].runs]
    <3>1. of \in Surjection(DOMAIN fleet, all)
      BY DEF Surjection
    <3>2. IsFiniteSet(all)
      BY <2>1, <3>1, FS_Surjection
    <3>3. IsFiniteSet(UNION all)
      BY <3>2, FS_UNION
    <3> QED BY <3>3, Zenon DEF expectedScanners, scannerNames
  <2> QED BY <2>1, <2>2, FS_Product
<1> HIDE DEF names
<1>9. watched(lost) \subseteq watched(fleet)
  BY <1>7
<1>10. /\ Cardinality(watched(lost)) \in Nat /\ Cardinality(watched(fleet)) \in Nat
       /\ Cardinality(watched(lost)) <= Cardinality(watched(fleet)) /\ Cardinality(pairs) \in Nat
  <2>1. watched(fleet) \subseteq pairs /\ watched(lost) \subseteq pairs
    OBVIOUS
  <2> HIDE DEF watched, pairs
  <2>2. IsFiniteSet(watched(fleet)) /\ IsFiniteSet(watched(lost))
    BY <1>8, <2>1, FS_Subset
  <2> QED BY <1>8, <1>9, <2>2, FS_Subset, FS_CardinalityType
<1>11. /\ \A d \in DOMAIN fleet : observedRuns(lost, d) # {}
       /\ Cardinality(pairs) = 0 \/ 10 * Cardinality(watched(lost)) >= 8 * Cardinality(pairs)
  <2>1. clearsFloor(lost)
    BY DEF lost, run
  <2> QED BY <1>1, <1>5, <2>1, Zenon DEF clearsFloor
<1>12. /\ \A d \in DOMAIN fleet : observedRuns(fleet, d) # {}
       /\ Cardinality(pairs) = 0 \/ 10 * Cardinality(watched(fleet)) >= 8 * Cardinality(pairs)
  <2>1. \A d \in DOMAIN fleet : observedRuns(fleet, d) # {}
    BY <1>7, <1>11
  <2> HIDE DEF watched, pairs
  <2> QED BY <1>10, <1>11, <2>1
<1> QED BY <1>12, Zenon DEF clearsFloor, names

\* Losing one more run never turns an ungraded fleet into a graded one (clearsFloor), for every
\* stored scan and every run of it.
THEOREM LossGradesNothing == FleetSpec => []LossNeverGrades
<1>1. FleetSpec => []FleetInv
  BY FleetInvariant
<1>2. FleetInv => LossNeverGrades
  <2> SUFFICES ASSUME FleetInv, NEW r \in Built, NEW c \in DOMAIN scan.fleet, NEW s \in DOMAIN scan.fleet[c].runs,
                      clearsFloor(WithRun(scan.fleet, c, s, [scan.fleet[c].runs[s] EXCEPT !.state = "errored"]))
               PROVE  r.graded
    BY DEF LossNeverGrades
  <2>1. PICK cohorts, auto, chosen : r = Build(scan, cohorts, auto, chosen)
    BY DEF Built, FleetInv, ReportIsBuilt
  <2>3. /\ Len(scan.fleet) \in Nat /\ DOMAIN scan.fleet = 1 .. Len(scan.fleet)
        /\ \A d \in DOMAIN scan.fleet : IsFiniteSet(DOMAIN scan.fleet[d].runs)
        /\ "state" \in DOMAIN scan.fleet[c].runs[s]
    BY FleetAssumption DEF FleetInv
  <2>4. clearsFloor(scan.fleet)
    BY <2>3, LostRun
  <2> QED BY <2>1, <2>4, BuildGraded, Zenon
<1> QED BY <1>1, <1>2, PTL

------------------------------------------------------------------------------
(* Series. *)

\* The recorded scans are a sequence, and only flagged values have findings.
SeriesInv ==
    /\ history \in Seq({history[i] : i \in DOMAIN history})
    /\ \A i \in DOMAIN history : history[i].flagged \in BOOLEAN /\ (history[i].found => history[i].flagged)

\* SeriesInv is an invariant: a scan is recorded after the ones before it.
LEMMA SeriesInvariant == SeriesSpec => []SeriesInv
<1>1. SeriesInit => SeriesInv
  BY DEF SeriesInit, SeriesStart, SeriesInv
<1>2. SeriesInv /\ [SeriesNext]_seriesVars => SeriesInv'
  <2> SUFFICES ASSUME SeriesInv, [SeriesNext]_seriesVars PROVE SeriesInv'
    OBVIOUS
  <2>1. CASE UNCHANGED seriesVars
    BY <2>1 DEF seriesVars, SeriesInv
  <2>2. CASE SeriesNext
    <3>1. PICK o \in Observations : RecordScan(o)
      BY <2>2 DEF SeriesNext
    <3>2. PICK e : e.flagged \in BOOLEAN /\ (e.found => e.flagged) /\ history' = Append(history, e)
      <4>1. o.flagged \in BOOLEAN /\ (o.found => o.flagged)
        BY SeriesAssumption, Zenon
      <4> QED BY <3>1, <4>1 DEF RecordScan
    <3> DEFINE T == {history[i] : i \in DOMAIN history}
               n == Len(history)
    <3>3. history \in Seq(T)
      BY DEF SeriesInv
    <3> HIDE DEF T
    <3>4. history' \in Seq(T \cup {e})
      BY <3>2, <3>3
    <3>5. /\ n \in Nat /\ DOMAIN history' = 1 .. n + 1 /\ Len(history') = n + 1 /\ DOMAIN history = 1 .. n
          /\ \A i \in 1 .. n + 1 : history'[i] = IF i = n + 1 THEN e ELSE history[i]
      BY <3>2, <3>3
    <3>6. \A i \in DOMAIN history' : history'[i].flagged \in BOOLEAN /\ (history'[i].found => history'[i].flagged)
      BY <3>2, <3>5 DEF SeriesInv
    <3>7. history' \in Seq({history'[i] : i \in DOMAIN history'})
      BY <3>4, <3>5
    <3> QED BY <3>6, <3>7 DEF SeriesInv
  <2> QED BY <2>1, <2>2
<1> QED BY <1>1, <1>2, PTL DEF SeriesSpec

\* For a history of any length, and whatever window the drift ledger looks at, the streak of a
\* finding does not reach back beyond the scan where its flag was gained and is over when the
\* flag was lost (DriftLedger, ComputePersistence): only flagged values have findings, so the last
\* scan of the window without the flag is one without the finding.
THEOREM LedgerSafe == SeriesSpec => []StreakWithinFlag
<1>1. SeriesSpec => []SeriesInv
  BY SeriesInvariant
<1>2. SeriesInv => StreakWithinFlag
  <2> DEFINE n == Len(history)
             calm == {0} \cup {i \in DOMAIN history : ~history[i].found}
  <2> SUFFICES ASSUME SeriesInv, NEW w \in 2 .. n, NEW g \in flagChanges(lastScans(history, w)),
                      NEW p \in ComputePersistence(history)
               PROVE  p.streak <= (IF g.gained THEN w - g.scan + 1 ELSE 0)
    BY DEF StreakWithinFlag, DriftLedger
  <2> DEFINE h == lastScans(history, w)
             d == n - w
             flips == {i \in 2 .. w : h[i].flagged # h[i - 1].flagged}
  <2>1. n \in Nat /\ DOMAIN history = 1 .. n /\ w \in Nat /\ 2 <= w /\ w <= n
    BY DEF SeriesInv
  <2>2. p.streak = n - Max(calm)
    BY DEF ComputePersistence, recentStreak
  <2>3. Len(h) = w /\ \A i \in 1 .. w : h[i] = history[d + i]
    BY <2>1 DEF SeriesInv, lastScans
  <2>4. \A i \in 1 .. w : h[i].flagged \in BOOLEAN /\ (h[i].found => h[i].flagged)
    BY <2>1, <2>3 DEF SeriesInv
  <2>5. Max(calm) \in Int /\ \A y \in calm : y <= Max(calm)
    <3>1. calm \in SUBSET (0 .. n) /\ calm # {}
      BY <2>1
    <3> HIDE DEF calm
    <3>2. Max(calm) \in calm /\ \A y \in calm : y <= Max(calm)
      BY <2>1, <3>1, MaxOf
    <3>3. Max(calm) \in 0 .. n
      BY <3>1, <3>2, Zenon
    <3> QED BY <2>1, <3>2, <3>3
  <2>6. \A i \in 1 .. w : ~h[i].flagged => d + i \in calm
    BY <2>1, <2>3, <2>4
  <2> HIDE DEF h, calm
  <2>7. h[1].flagged # h[w].flagged /\ g = [gained |-> h[w].flagged, scan |-> Max(flips)]
    BY <2>1, <2>3 DEF flagChanges, h
  <2>8. g.gained = h[w].flagged /\ g.scan = Max(flips)
    BY <2>7
  <2>9. CASE ~h[w].flagged
    <3>1. n \in calm
      BY <2>1, <2>6, <2>9
    <3> QED BY <2>1, <2>2, <2>5, <2>8, <2>9, <3>1
  <2>10. CASE h[w].flagged
    <3> DEFINE off == {i \in 1 .. w : ~h[i].flagged}
               m == Max(off)
    <3>1. 1 \in off
      <4>1. 1 \in 1 .. w /\ w \in 1 .. w
        BY <2>1
      <4>2. h[1].flagged \in BOOLEAN /\ h[w].flagged \in BOOLEAN
        BY <2>4, <4>1, Zenon
      <4>3. ~h[1].flagged
        BY <2>7, <2>10, <4>2, Zenon
      <4> QED BY <4>1, <4>3, Zenon
    <3>2. m \in off /\ \A y \in off : y <= m
      <4>1. off \in SUBSET (0 .. w) /\ off # {}
        BY <2>1, <3>1
      <4> HIDE DEF off
      <4> QED BY <2>1, <4>1, MaxOf
    <3> HIDE DEF m
    <3>3. m \in 1 .. w - 1 /\ ~h[m].flagged
      BY <2>1, <2>10, <3>2
    <3>4. \A i \in m + 1 .. w : h[i].flagged
      BY <2>1, <3>2, <3>3
    <3>5. m + 1 \in flips
      BY <2>1, <3>3, <3>4
    <3>6. \A i \in flips : i <= m + 1
      <4> SUFFICES ASSUME NEW i \in 2 .. w, ~(i <= m + 1) PROVE h[i].flagged = h[i - 1].flagged
        OBVIOUS
      <4>1. i \in m + 1 .. w /\ i - 1 \in m + 1 .. w /\ i \in 1 .. w /\ i - 1 \in 1 .. w
        BY <2>1, <3>3
      <4>2. h[i].flagged /\ h[i - 1].flagged
        BY <3>4, <4>1
      <4>3. h[i].flagged \in BOOLEAN /\ h[i - 1].flagged \in BOOLEAN
        BY <2>4, <4>1
      <4> QED BY <4>2, <4>3, Zenon
    <3>7. Max(flips) \in flips /\ \A y \in flips : y <= Max(flips)
      <4>1. flips \in SUBSET (0 .. w) /\ flips # {}
        BY <2>1, <3>5
      <4> HIDE DEF flips
      <4> QED BY <2>1, <4>1, MaxOf
    <3>8. Max(flips) = m + 1
      <4>1. Max(flips) \in Int /\ m \in Int
        BY <2>1, <3>3, <3>7
      <4> HIDE DEF flips
      <4> QED BY <3>5, <3>6, <3>7, <4>1
    <3>9. d + m <= Max(calm)
      BY <2>1, <2>5, <2>6, <3>3
    <3>10. g.scan = m + 1 /\ g.gained
      BY <2>8, <2>10, <3>8, Zenon
    <3>11. n - Max(calm) <= w - (m + 1) + 1
      BY <2>1, <2>5, <3>3, <3>9
    <3> QED BY <2>2, <3>10, <3>11
  <2> QED BY <2>9, <2>10
<1> QED BY <1>1, <1>2, PTL
=============================================================================
