--------------------------- MODULE MCRegistration ---------------------------
(* Instances of Registration for TLC. *)
EXTENDS Registration, TLC

CONSTANTS q1, q2

MCRequests == {q1, q2}
\* Two spellings of one address, another address, one too long for its column,
\* and none.
MCAddresses == {"Ana@x.org", " ana@x.org", "bob@x.org", "b...b@x.org", "bob"}
MCStorable == {"ana@x.org", "bob@x.org"}
MCEmails == MCStorable \cup {"b...b@x.org"}
MCNewEmail == [a \in MCAddresses |->
    CASE a \in {"Ana@x.org", " ana@x.org"} -> "ana@x.org"
      [] a \in {"bob@x.org", "b...b@x.org"} -> a
      [] OTHER -> Invalid]
MCPasswords == {"secret", ""}
=============================================================================
