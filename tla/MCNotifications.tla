-------------------------- MODULE MCNotifications --------------------------
(* Bounded instances of Notifications. *)
EXTENDS Notifications

CONSTANTS f1, f2, s1

OnePair == {<<s1, f1>>}
=============================================================================
