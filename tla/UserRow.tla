------------------------------- MODULE UserRow -------------------------------
(***************************************************************************)
(* What a reader of the use cases expects of the users table: each of them *)
(* changes its own column, at once.  Accounts keeps this promise until a   *)
(* writer's copy is out of date; from then on the hash and the pair of MFA *)
(* columns may fall back, but the pair still agrees, and nothing else of   *)
(* the row is touched.                                                     *)
(***************************************************************************)
CONSTANTS Hashes, Secrets, RoleSets,
          First,     \* the row as registered
          None       \* no secret

VARIABLES row,       \* [password, verified, mfa, secret, roles]
          torn       \* a writer has overwritten another

vars == <<row, torn>>

Init == row = First /\ torn = FALSE

\* A reset or an upgrade.
SetPassword(h) ==
    /\ row' = [row EXCEPT !.password = h]
    /\ UNCHANGED torn

\* MFA setup.
Enroll(s) ==
    /\ row' = [row EXCEPT !.mfa = TRUE, !.secret = s]
    /\ UNCHANGED torn

\* A role command, race or no race.
SetRoles(R) ==
    /\ row' = [row EXCEPT !.roles = R]
    /\ UNCHANGED torn

\* A late writer puts back columns it had read earlier.
Tear(h, s) ==
    /\ row' = [row EXCEPT !.password = h, !.secret = s, !.mfa = (s # None)]
    /\ torn' = TRUE

Next ==
    \/ \E h \in Hashes : ~torn /\ SetPassword(h)
    \/ \E s \in Secrets : ~torn /\ Enroll(s)
    \/ \E R \in RoleSets : SetRoles(R)
    \/ \E h \in Hashes, s \in Secrets \cup {None} : Tear(h, s)

Spec == Init /\ [][Next]_vars
=============================================================================
