----------------------------- MODULE MCAccounts -----------------------------
(* Instances of Accounts for TLC. *)
EXTENDS Accounts, TLC

CONSTANTS o1, o2, s1, s2

MCOps == {o1, o2}
MCOneOp == {o1}
MCSecrets == {s1, s2}
MCHashes == {"h0", "h1", "h2"}
MCRoles == {"user", "admin"}
\* Roles without the default one.
MCRoleSets == {{"admin"}}
MCAsWired == {"confirm", "reset", "roles"}
=============================================================================
