----------------------------- MODULE MCPasswords -----------------------------
(* Instances of Passwords for TLC. *)
EXTENDS Passwords, TLC

\* As in the repository, then with a second service.
MCReleases == << <<"v1">>, <<"v1", "v2">> >>
MCPlain == {"old", "new"}
=============================================================================
