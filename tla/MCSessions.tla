----------------------------- MODULE MCSessions -----------------------------
(* Instances of Sessions for TLC. *)
EXTENDS Sessions, TLC

CONSTANTS c1, c2, t1, t2, t3

MCCalls == {c1, c2}
MCTokens == {t1, t2, t3}
=============================================================================
