---------------------------- MODULE MCController ----------------------------
(* Bounded instances of ClusterScanController. *)
EXTENDS ClusterScanController

Active(interval) == [valid |-> TRUE, paused |-> FALSE, interval |-> interval]
Paused(interval) == [valid |-> TRUE, paused |-> TRUE, interval |-> interval]

\* A spec that users pause and resume, with an interval longer than a retry.
SpecPair == {Active(2), Paused(2)}

\* Every kind of spec, with the shortest interval.
SpecKinds == {Active(1), Paused(1), Spec0}
=============================================================================
