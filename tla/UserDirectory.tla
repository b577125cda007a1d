--------------------------- MODULE UserDirectory ---------------------------
(***************************************************************************)
(* What registration promises: an address belongs to the first accepted    *)
(* command that gets it, for good; it is announced exactly when it is      *)
(* taken; and a command is finished with only once its address is taken.   *)
(***************************************************************************)
EXTENDS Naturals

CONSTANTS Requests, Emails, None

VARIABLES mail,       \* request -> address of its accepted command, or None
          owner,      \* address -> request its user was created from, or None
          announced,  \* address -> number of UserRegistered events
          settled     \* requests whose command has been acknowledged
vars == <<mail, owner, announced, settled>>

Init ==
    /\ mail = [q \in Requests |-> None]
    /\ owner = [e \in Emails |-> None]
    /\ announced = [e \in Emails |-> 0]
    /\ settled = {}

Accept(q, e) ==
    /\ mail[q] = None
    /\ mail' = [mail EXCEPT ![q] = e]
    /\ UNCHANGED <<owner, announced, settled>>

Create(q, e) ==
    /\ mail[q] = e /\ owner[e] = None
    /\ owner' = [owner EXCEPT ![e] = q]
    /\ announced' = [announced EXCEPT ![e] = 1]
    /\ UNCHANGED <<mail, settled>>

Settle(q, e) ==
    /\ mail[q] = e /\ owner[e] # None
    /\ settled' = settled \cup {q}
    /\ UNCHANGED <<mail, owner, announced>>

Next == \E q \in Requests, e \in Emails : Accept(q, e) \/ Create(q, e) \/ Settle(q, e)

Spec == Init /\ [][Next]_vars
=============================================================================
