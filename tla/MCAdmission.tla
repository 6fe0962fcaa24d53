---------------------------- MODULE MCAdmission ----------------------------
(* Bounded instances of Admission. *)
EXTENDS Admission, TLC

\* Requests are interchangeable.
RequestSymmetry == Permutations(Requests)
=============================================================================
