---------------------------- MODULE Registration ----------------------------
(***************************************************************************)
(* Registering a user: POST /register checks the address and writes a      *)
(* user.register command to the outbox; a worker that is handed the        *)
(* command checks again, hashes the password and saves the user together   *)
(* with a UserRegistered event.                                            *)
(*                                                                         *)
(* The way from the outbox to the worker is taken from its contract        *)
(* (DeliveryContract): a committed command reaches the workers' queue,     *)
(* maybe more than once.  How the deployed topology falls short of that is *)
(* the subject of Delivery.                                                *)
(***************************************************************************)
EXTENDS Naturals, FiniteSets

CONSTANTS Requests,   \* POST /register requests
          Workers,    \* worker-events processes, one command at a time each
          Addresses,  \* what clients type
          Emails,     \* addresses in the form the database stores
          NewEmail,   \* Addresses -> Emails, or Invalid: trimmed, lowercase, matched
          Storable,   \* Emails that fit the column, VARCHAR(255): NewEmail bounds
                      \* no length
          Passwords,  \* plaintext passwords
          Empty,      \* the empty password
          Invalid, None,
          MaxFaults   \* bound on redeliveries, failed calls and crashes

ASSUME RegistrationAssumption ==
    /\ NewEmail \in [Addresses -> Emails \cup {Invalid}]
    /\ Invalid \notin Emails
    /\ Storable \subseteq Emails
    /\ None \notin Requests /\ None \notin Emails
    /\ MaxFaults \in Nat

VARIABLES
    request,   \* request -> [pc, address, password]
    users,     \* the users table: email (UNIQUE) -> the request whose command
               \* created the row, so whose password it holds; None = no row
    events,    \* email -> UserRegistered rows in outbox_events
    queue,     \* request -> copies of its command ready in the queue
    worker,    \* worker -> [pc, cmd]
    settled,   \* history: requests whose command a worker has acknowledged
    faults

vars == <<request, users, events, queue, worker, settled, faults>>

NewRequest == [pc |-> "new", address |-> None, password |-> None]
Idle == [pc |-> "idle", cmd |-> None]

TypeOK ==
    /\ request \in [Requests -> [pc : {"new", "checked", "rejected", "accepted", "sent"},
                                 address : Addresses \cup {None},
                                 password : Passwords \cup {None}]]
    /\ users \in [Emails -> Requests \cup {None}]
    /\ events \in [Emails -> Nat]
    /\ queue \in [Requests -> Nat]
    /\ worker \in [Workers -> [pc : {"idle", "received", "absent", "hashed", "saved"},
                               cmd : Requests \cup {None}]]
    /\ settled \subseteq Requests
    /\ faults \in 0..MaxFaults

Init ==
    /\ request = [q \in Requests |-> NewRequest]
    /\ users = [e \in Emails |-> None]
    /\ events = [e \in Emails |-> 0]
    /\ queue = [q \in Requests |-> 0]
    /\ worker = [w \in Workers |-> Idle]
    /\ settled = {}
    /\ faults = 0

Fault == faults < MaxFaults /\ faults' = faults + 1

Accepted(q) == request[q].pc \in {"accepted", "sent"}
EmailOf(q) == NewEmail[request[q].address]

\* FindByEmail: is there a row with this address?
Exists(e) == users[e] # None

-----------------------------------------------------------------------------
(* The API: RegisterUserUseCase.Execute.  A request that fails, or whose   *)
(* process dies, takes no further step.                                    *)

\* The address is validated and looked up; 400 if it is invalid or taken.
CheckRequest(q, a, p) ==
    /\ request[q].pc = "new"
    /\ LET e  == NewEmail[a]
           ok == e # Invalid /\ ~Exists(e)
       IN  request' = [request EXCEPT ![q] =
               [pc |-> IF ok THEN "checked" ELSE "rejected",
                address |-> a, password |-> p]]
    /\ UNCHANGED <<users, events, queue, worker, settled, faults>>

\* SaveCommand: the command is committed to the outbox, and 201 returned.
\* The lookup is not repeated: other requests may have passed it meanwhile.
SaveCommand(q) ==
    /\ request[q].pc = "checked"
    /\ request' = [request EXCEPT ![q].pc = "accepted"]
    /\ UNCHANGED <<users, events, queue, worker, settled, faults>>

-----------------------------------------------------------------------------
(* The bus between the outbox and the workers. *)

Send(q) ==
    /\ request[q].pc = "accepted"
    /\ request' = [request EXCEPT ![q].pc = "sent"]
    /\ queue' = [queue EXCEPT ![q] = @ + 1]
    /\ UNCHANGED <<users, events, worker, settled, faults>>

\* Two relays read the row, or marking it failed.
SendAgain(q) ==
    /\ request[q].pc = "sent"
    /\ queue' = [queue EXCEPT ![q] = @ + 1]
    /\ Fault
    /\ UNCHANGED <<request, users, events, worker, settled>>

-----------------------------------------------------------------------------
(* The worker: ProcessUserRegistrationUseCase.HandleCommand. *)

At(w, pc) == worker[w].pc = pc
Cmd(w) == worker[w].cmd
Goto(w, pc) == worker' = [worker EXCEPT ![w].pc = pc]
Ready(w) == worker' = [worker EXCEPT ![w] = Idle]

\* Mutated form: a delivery that stays in the queue is received.
ReceiveUnready(w, q) ==
    /\ At(w, "idle")
    /\ queue' = [queue EXCEPT ![q] = @ - 1]
    /\ worker' = [worker EXCEPT ![w] = [pc |-> "received", cmd |-> q]]
    /\ UNCHANGED <<request, users, events, settled, faults>>

Receive(w, q) ==
    /\ At(w, "idle")
    /\ queue[q] > 0
    /\ queue' = [queue EXCEPT ![q] = @ - 1]
    /\ worker' = [worker EXCEPT ![w] = [pc |-> "received", cmd |-> q]]
    /\ UNCHANGED <<request, users, events, settled, faults>>

\* Return nil: the delivery is acknowledged.
Ack(w) ==
    /\ Ready(w)
    /\ settled' = settled \cup {Cmd(w)}
    /\ UNCHANGED queue

\* Return an error: the delivery is put back into the queue.
Nack(w) ==
    /\ Ready(w)
    /\ queue' = [queue EXCEPT ![Cmd(w)] = @ + 1]
    /\ UNCHANGED settled

\* An invalid or taken address: the command is dropped.
Discard(w) ==
    /\ At(w, "received")
    /\ EmailOf(Cmd(w)) = Invalid \/ Exists(EmailOf(Cmd(w)))
    /\ Ack(w)
    /\ UNCHANGED <<request, users, events, faults>>

FindNone(w) ==
    /\ At(w, "received")
    /\ EmailOf(Cmd(w)) # Invalid /\ ~Exists(EmailOf(Cmd(w)))
    /\ Goto(w, "absent")
    /\ UNCHANGED <<request, users, events, queue, settled, faults>>

\* Mutated form: the empty text is hashed like any other.
HashAnything(w) ==
    /\ At(w, "absent")
    /\ Goto(w, "hashed")
    /\ UNCHANGED <<request, users, events, queue, settled, faults>>

\* grpc-password hashes anything but the empty text.
Hash(w) ==
    /\ At(w, "absent")
    /\ request[Cmd(w)].password # Empty
    /\ Goto(w, "hashed")
    /\ UNCHANGED <<request, users, events, queue, settled, faults>>

\* Mutated form: a refused password is dropped like an invalid address.
HashRefusedAcks(w) ==
    /\ At(w, "absent")
    /\ request[Cmd(w)].password = Empty
    /\ Ack(w)
    /\ UNCHANGED <<request, users, events, faults>>

HashRefused(w) ==
    /\ At(w, "absent")
    /\ request[Cmd(w)].password = Empty
    /\ Nack(w)
    /\ UNCHANGED <<request, users, events, faults>>

\* One transaction inserts the user and its UserRegistered event.
Insert(q) ==
    LET e == EmailOf(q)
    IN  /\ users' = [users EXCEPT ![e] = q]
        /\ events' = [events EXCEPT ![e] = @ + 1]

\* Mutated form: the event is not part of the transaction.
SaveWithoutEvent(w) ==
    /\ At(w, "hashed")
    /\ ~Exists(EmailOf(Cmd(w))) /\ EmailOf(Cmd(w)) \in Storable
    /\ users' = [users EXCEPT ![EmailOf(Cmd(w))] = Cmd(w)]
    /\ Goto(w, "saved")
    /\ UNCHANGED <<request, events, queue, settled, faults>>

Save(w) ==
    /\ At(w, "hashed")
    /\ ~Exists(EmailOf(Cmd(w))) /\ EmailOf(Cmd(w)) \in Storable
    /\ Insert(Cmd(w))
    /\ Goto(w, "saved")
    /\ UNCHANGED <<request, queue, settled, faults>>

\* The UNIQUE constraint: ErrUserAlreadyExists goes back to the consumer as
\* an error, and the next delivery of the command finds the user.
SaveConflicts(w) ==
    /\ At(w, "hashed")
    /\ Exists(EmailOf(Cmd(w)))
    /\ Nack(w)
    /\ UNCHANGED <<request, users, events, faults>>

\* Any other error of the INSERT, such as a value too long for its column.
SaveRefused(w) ==
    /\ At(w, "hashed")
    /\ EmailOf(Cmd(w)) \notin Storable
    /\ Nack(w)
    /\ UNCHANGED <<request, users, events, faults>>

Finish(w) ==
    /\ At(w, "saved")
    /\ Ack(w)
    /\ UNCHANGED <<request, users, events, faults>>

\* Mutated form: deliveries are acknowledged when they are received.
FailAcked(w) ==
    /\ ~At(w, "idle")
    /\ Ack(w)
    /\ Fault
    /\ UNCHANGED <<request, users, events>>

\* Mutated form: a failed delivery is not put back.
FailDrops(w) ==
    /\ ~At(w, "idle")
    /\ Ready(w)
    /\ Fault
    /\ UNCHANGED <<request, users, events, queue, settled>>

\* A database or gRPC call fails, the consumer's link breaks or the process
\* dies, at any point before the ack: the delivery returns to the queue.
Fail(w) ==
    /\ ~At(w, "idle")
    /\ Nack(w)
    /\ Fault
    /\ UNCHANGED <<request, users, events>>

\* The answer to COMMIT is lost: Save reports an error for a saved user.
CommitUnknown(w) ==
    /\ At(w, "hashed")
    /\ ~Exists(EmailOf(Cmd(w))) /\ EmailOf(Cmd(w)) \in Storable
    /\ Insert(Cmd(w))
    /\ Nack(w)
    /\ Fault
    /\ UNCHANGED request

-----------------------------------------------------------------------------
WorkerStep(w) ==
    \/ Discard(w) \/ FindNone(w) \/ Hash(w) \/ HashRefused(w)
    \/ Save(w) \/ SaveConflicts(w) \/ SaveRefused(w) \/ Finish(w)

Next ==
    \/ \E q \in Requests :
        \/ \E a \in Addresses, p \in Passwords : CheckRequest(q, a, p)
        \/ SaveCommand(q) \/ Send(q) \/ SendAgain(q)
        \/ \E w \in Workers : Receive(w, q)
    \/ \E w \in Workers : WorkerStep(w) \/ Fail(w) \/ CommitUnknown(w)

Spec == Init /\ [][Next]_vars

\* The bus delivers, a worker finishes what it began, and no command in the
\* queue is passed over for ever (the queue is first in, first out).
Fairness ==
    /\ \A q \in Requests : WF_vars(Send(q))
    /\ \A q \in Requests : SF_vars(\E w \in Workers : Receive(w, q))
    /\ \A w \in Workers : WF_vars(WorkerStep(w))
FairSpec == Spec /\ Fairness

-----------------------------------------------------------------------------
\* A user exists exactly if it has been announced, and exactly once, whatever
\* commands were duplicated, raced, failed after COMMIT or were retried.
AnnouncedOnce ==
    \A e \in Emails : events[e] = IF Exists(e) THEN 1 ELSE 0

\* No command is acknowledged while its address has no user: a crash or an
\* error between the steps of HandleCommand never costs a registration.
SettledHasUser ==
    \A q \in settled : EmailOf(q) \in Emails /\ Exists(EmailOf(q))

\* The user of an address was created from an accepted command for that very
\* address (after normalisation), with a password that could be hashed.
OwnerAsked ==
    \A e \in Emails : Exists(e) =>
        LET q == users[e]
        IN  Accepted(q) /\ EmailOf(q) = e /\ request[q].password # Empty

\* A command that was sent is in the queue, in the hands of a worker, or
\* acknowledged: no error, crash or lost answer of HandleCommand mislays it.
InHands(q) == \E w \in Workers : ~At(w, "idle") /\ Cmd(w) = q
NothingMislaid ==
    \A q \in Requests : request[q].pc = "sent" =>
        q \in settled \/ queue[q] > 0 \/ InHands(q)

\* What these rest on, about the commands workers hold (proved with them).
WorkersHoldCommands ==
    /\ \A q \in Requests :
        /\ request[q].pc = "checked" \/ Accepted(q) => EmailOf(q) \in Emails
        /\ queue[q] > 0 => request[q].pc = "sent"
    /\ \A q \in settled : Accepted(q)
    /\ \A w \in Workers :
        /\ ~At(w, "idle") => Cmd(w) \in Requests /\ request[Cmd(w)].pc = "sent"
        /\ At(w, "hashed") => request[Cmd(w)].password # Empty
        /\ At(w, "saved") => Exists(EmailOf(Cmd(w)))

\* Registration implements the abstract directory.
Directory == INSTANCE UserDirectory
    WITH mail <- [q \in Requests |-> IF Accepted(q) THEN EmailOf(q) ELSE None],
         owner <- users, announced <- events
ImplementsDirectory == Directory!Spec

\* Every accepted command with a password that can be hashed and an address that
\* can be stored is finished with, and so (SettledHasUser) its address gets a user.
\* The others are accepted just the same, and go round for ever.
UsableSettle ==
    \A q \in Requests :
        Accepted(q) /\ request[q].password # Empty /\ EmailOf(q) \in Storable ~> q \in settled
=============================================================================
