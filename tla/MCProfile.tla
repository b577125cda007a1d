------------------------------ MODULE MCProfile ------------------------------
(* Instances of Profile, and of Lifecycle in it, for TLC. *)
EXTENDS Profile, TLC

CONSTANTS k1, k2, k3

MCTasks == {k1, k2, k3}
=============================================================================
