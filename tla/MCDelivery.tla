----------------------------- MODULE MCDelivery -----------------------------
(* Instances of Delivery for TLC. *)
EXTENDS Delivery, TLC

MCRows == 1..2
MCOneRow == {1}
MCEventTypes == {Register, UserRegistered}
MCOneType == {UserRegistered}

\* As in the repository: the worker's queue has no other binding.
NoBindings == {}
\* An operator binds the queue to the relay's exchange with the worker's own
\* pattern: events reach the worker, the three-word keys of commands do not.
Bridged == {[exchange |-> RelayExchange, pattern |-> WorkerBinding.pattern]}
=============================================================================
