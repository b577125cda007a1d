----------------------------- MODULE FixedWindow -----------------------------
(***************************************************************************)
(* What a rate limiter with a fixed window promises, whoever keeps the     *)
(* count: a window has Limit places, a place is taken at once and by one   *)
(* request, and is then served or spoilt by a fault; when the window ends  *)
(* all places are free again.                                              *)
(***************************************************************************)
EXTENDS Naturals

CONSTANT Limit

VARIABLES served,   \* requests of the present window let through
          pledged,  \* places taken by requests on their way
          spoilt    \* places lost to faults
vars == <<served, pledged, spoilt>>

Full == served + pledged + spoilt = Limit

Init == served = 0 /\ pledged = 0 /\ spoilt = 0

Take == ~Full /\ pledged' = pledged + 1 /\ UNCHANGED <<served, spoilt>>

Serve ==
    /\ pledged > 0
    /\ pledged' = pledged - 1 /\ served' = served + 1
    /\ UNCHANGED spoilt

\* A request dies with its place, ...
Spoil ==
    /\ pledged > 0
    /\ pledged' = pledged - 1 /\ spoilt' = spoilt + 1
    /\ UNCHANGED served

\* ... or never learns that it has one.
Waste == ~Full /\ spoilt' = spoilt + 1 /\ UNCHANGED <<served, pledged>>

Renew == served' = 0 /\ pledged' = 0 /\ spoilt' = 0

Next == Take \/ Serve \/ Spoil \/ Waste \/ Renew

Spec == Init /\ [][Next]_vars
=============================================================================
