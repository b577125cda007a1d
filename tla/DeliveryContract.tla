-------------------------- MODULE DeliveryContract --------------------------
(***************************************************************************)
(* What the outbox pipeline promises, whoever implements it: a row that is *)
(* marked as published has left for the broker first, only stored rows are *)
(* ever handled, and a row stays reachable until it is handled or its      *)
(* messages are dropped on the way.                                        *)
(***************************************************************************)
CONSTANT Rows

VARIABLES stored,    \* rows committed to the outbox
          marked,    \* rows with published_at set
          transit,   \* rows with a message somewhere between relay and handler
          done,      \* rows a handler has completed
          lost       \* rows of which a message has been dropped
vars == <<stored, marked, transit, done, lost>>

Init ==
    /\ stored = {} /\ marked = {} /\ transit = {} /\ done = {} /\ lost = {}

\* A transaction commits a new row.
Store(r) ==
    /\ r \notin stored
    /\ stored' = stored \cup {r}
    /\ UNCHANGED <<marked, transit, done, lost>>

\* A message for a stored row leaves; it may be a repetition.
Send(r) ==
    /\ r \in stored
    /\ transit' = transit \cup {r}
    /\ UNCHANGED <<stored, marked, done, lost>>

\* Rows are marked; each of them has been sent.
Mark(R) ==
    /\ R \subseteq transit \cup done \cup lost
    /\ marked' = marked \cup R
    /\ UNCHANGED <<stored, transit, done, lost>>

\* A handler completes a row; another copy may stay under way.
Complete(r) ==
    /\ r \in transit \cup done
    /\ done' = done \cup {r}
    /\ transit' \in {transit, transit \ {r}}
    /\ UNCHANGED <<stored, marked, lost>>

\* Messages are dropped; copies of some of the rows may remain.
Drop(R) ==
    /\ R \subseteq transit
    /\ lost' = lost \cup R
    /\ \E gone \in SUBSET R : transit' = transit \ gone
    /\ UNCHANGED <<stored, marked, done>>

Next ==
    \/ \E r \in Rows : Store(r) \/ Send(r) \/ Complete(r)
    \/ \E R \in SUBSET Rows : Mark(R) \/ Drop(R)

Spec == Init /\ [][Next]_vars
=============================================================================
