---------------------------- MODULE MCScanServer ----------------------------
(* Bounded instances of ScanServer. *)
EXTENDS ScanServer
=============================================================================
