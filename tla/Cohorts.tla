------------------------------ MODULE Cohorts ------------------------------
(***************************************************************************)
(* The partition of a fleet into cohorts: by tag where there is one, by    *)
(* average-linkage clustering of the cluster's profiles elsewhere.         *)
(*                                                                         *)
(* The profile of a cluster has one feature here, its node count; with the *)
(* other features equal across the fleet they normalise to zero and add    *)
(* nothing to a distance.  Distances are not divided by the feature's      *)
(* span, which scales all of them alike.                                   *)
(***************************************************************************)
EXTENDS Norms, SequencesExt

defaultMinClusters == 6

defaultMinCohortSize == 3

defaultMaxCohorts == 8

\* A common multiple of the sizes of two groups' products, up to eight clusters.
LinkageScale == 5040

\* The feature of every cluster, doubled; a missing one is the fleet's median.
profiles(fleet) ==
    LET counts == [c \in {c \in perCluster(fleet, "resources") :
                             "node_count" \in DOMAIN fleet[c].runs["resources"].data}
                      |-> fleet[c].runs["resources"].data.node_count]
    IN [c \in DOMAIN fleet |-> IF c \in DOMAIN counts THEN 2 * counts[c] ELSE Median2(counts)]

------------------------------------------------------------------------------
(* agglomerate: the dendrogram, cut where the merge distance jumps most. *)

\* The average distance between two groups, scaled to an integer.
linkage(p, A, B) ==
    (MapThenSumSet(LAMBDA a : MapThenSumSet(LAMBDA b : distance(p[a], p[b]), B), A) * LinkageScale)
        \div (Cardinality(A) * Cardinality(B))

\* One merge: the closest two active groups, ties to the lowest pair of ids.
mergeStep(p, acc, id) ==
    LET pairs == {q \in acc.active \X acc.active : q[1].id < q[2].id}
        link(q) == linkage(p, q[1].members, q[2].members)
        best == CHOOSE q \in pairs :
                    \A o \in pairs :
                        \/ link(q) < link(o)
                        \/ /\ link(q) = link(o)
                           /\ q[1].id < o[1].id \/ (q[1].id = o[1].id /\ q[2].id <= o[2].id)
        active == (acc.active \ {best[1], best[2]})
                  \cup {[id |-> id, members |-> best[1].members \cup best[2].members]}
    IN [active |-> active, dists |-> Append(acc.dists, link(best)),
        cuts |-> Append(acc.cuts, {g.members : g \in active})]

buildDendrogram(p) ==
    LET n == Cardinality(DOMAIN p)
    IN FoldLeft(LAMBDA acc, id : mergeStep(p, acc, id),
                [active |-> {[id |-> c, members |-> {c}] : c \in DOMAIN p}, dists |-> <<>>, cuts |-> <<>>],
                [i \in 1 .. n - 1 |-> Max(DOMAIN p) + i])

\* The number of groups before the first of the largest jumps.
chooseK(dists) ==
    LET m == Len(dists)
        jumps == {i \in 1 .. m - 1 : m - i + 1 \in 2 .. Min({defaultMaxCohorts, m})}
        gap(i) == dists[i + 1] - dists[i]
    IN m - (CHOOSE i \in jumps : \A j \in jumps : gap(j) < gap(i) \/ (gap(j) = gap(i) /\ i <= j)) + 1

agglomerate(p) ==
    LET d == buildDendrogram(p)
    IN d.cuts[Len(d.dists) - (chooseK(d.dists) - 1)]

------------------------------------------------------------------------------
(* mergeSmallCohorts folds the smallest group below the minimum into the    *)
(* closest other one until none is left.  Of several smallest groups it     *)
(* takes the one the iteration over a Go map meets first: any of them.      *)
closestGroup(p, groups, small) ==
    LET pairs == {q \in small \X (DOMAIN p \ small) : TRUE}
        before(q, o) == q[1] < o[1] \/ (q[1] = o[1] /\ q[2] <= o[2])
        best == CHOOSE q \in pairs :
                    \A o \in pairs :
                        \/ distance(p[q[1]], p[q[2]]) < distance(p[o[1]], p[o[2]])
                        \/ distance(p[q[1]], p[q[2]]) = distance(p[o[1]], p[o[2]]) /\ before(q, o)
    IN CHOOSE g \in groups : best[2] \in g

foldSmallest(p, groups) ==
    LET small == {g \in groups : Cardinality(g) < defaultMinCohortSize}
        smallest == {g \in small : \A h \in small : Cardinality(g) <= Cardinality(h)}
        folded(g) == LET t == closestGroup(p, groups, g) IN (groups \ {g, t}) \cup {g \cup t}
    IN IF small = {} \/ Cardinality(groups) = 1 THEN {groups} ELSE {folded(g) : g \in smallest}

\* Every partition mergeSmallCohorts may return.
mergeSmallCohorts(p, groups) ==
    FoldLeft(LAMBDA outcomes, i : UNION {foldSmallest(p, gs) : gs \in outcomes},
             {groups}, [i \in 1 .. Cardinality(groups) |-> i])

autoCohorts(p) == mergeSmallCohorts(p, agglomerate(p))

------------------------------------------------------------------------------
(* Assign.  A cohort's name is its scope: the one of a fleet too small to   *)
(* divide is the fleet's.                                                   *)
FleetScope == <<"fleet", 0>>

\* Auto cohorts are numbered in the order of their first members.
nameAutoCohorts(groups) ==
    {[source |-> "auto", members |-> g,
      name |-> <<"auto", Cardinality({h \in groups : Min(h) <= Min(g)})>>] : g \in groups}

tagged(tags) ==
    {[source |-> "tagged", name |-> <<"tag", t>>, members |-> {c \in DOMAIN tags : tags[c] = t}] :
        t \in Range(tags) \ {0}}

\* Every set of cohorts Assign may return; tag 0 is no tag.
Assign(p, tags) ==
    LET untagged == {c \in DOMAIN p : tags[c] = 0}
    IN IF untagged = {} THEN {tagged(tags)}
       ELSE IF Cardinality(untagged) < defaultMinClusters
       THEN {tagged(tags) \cup {[source |-> "fleet", name |-> FleetScope, members |-> untagged]}}
       ELSE {tagged(tags) \cup nameAutoCohorts(gs) : gs \in autoCohorts(Restrict(p, untagged))}
=============================================================================
