------------------------------ MODULE Topology ------------------------------
(***************************************************************************)
(* How a message finds its way from the outbox to a use case: the routing  *)
(* key the relay publishes with, the binding of the worker's queue, and    *)
(* the switch on the routing key in the worker.                            *)
(*                                                                         *)
(* Event types and routing keys are sequences of words: the text           *)
(* "user.register" is <<"user", "register">>.                              *)
(***************************************************************************)
EXTENDS Naturals, Sequences

CONSTANT ExtraBindings   \* bindings of the worker's queue made outside the code,
                         \* a set of [exchange, pattern] records; {} = as deployed

\* The types written to outbox_events.event_type: the first two by SaveCommand
\* in the API, UserRegistered by Save, the last two by SaveCommand.
Register        == <<"user", "register">>
UpdateRoles     == <<"user", "update_roles">>
UserRegistered  == <<"UserRegistered">>
ForgotPassword  == <<"UserForgotPasswordRequested">>
PasswordUpgrade == <<"UserPasswordUpgradeRequested">>
AllEventTypes ==
    {Register, UpdateRoles, UserRegistered, ForgotPassword, PasswordUpgrade}

\* The exchange the relay publishes to, and the routing key it derives.
RelayExchange == "auth.events"
RelayKey(eventType) == <<"user">> \o eventType

\* The one binding the worker declares for auth_registration_commands_queue.
WorkerBinding == [exchange |-> "auth.commands", pattern |-> <<"user", "*">>]

\* A topic pattern matches a key word by word, * standing for exactly one word.
TopicMatch(pattern, key) ==
    /\ Len(pattern) = Len(key)
    /\ \A i \in 1..Len(pattern) : pattern[i] \in {"*", key[i]}

\* Does a message published by the relay reach the worker's queue?
Routed(eventType) ==
    \E b \in {WorkerBinding} \cup ExtraBindings :
        b.exchange = RelayExchange /\ TopicMatch(b.pattern, RelayKey(eventType))

\* The cases of the worker's switch; every other key is skipped (and acked).
DispatchKeys ==
    {<<"user", "register">>, <<"user", "update_roles">>,
     <<"user", "UserRegistered">>, <<"user", "UserForgotPasswordRequested">>,
     <<"user", "UserPasswordUpgradeRequested">>}
Dispatched(eventType) == RelayKey(eventType) \in DispatchKeys
=============================================================================
