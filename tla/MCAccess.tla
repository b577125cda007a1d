------------------------------- MODULE MCAccess -------------------------------
(* Instances of Access for TLC. *)
EXTENDS Access, TLC

CONSTANTS a, b, l1, t1, t2, q1

MCUsers == {a, b}
MCFirstAdmins == {a}
MCRoles == {"user", "admin"}
MCRoleSets == {{}, {"admin"}}
MCLogins == {l1}
MCTokens == {t1, t2}
MCCalls == {q1}
=============================================================================
