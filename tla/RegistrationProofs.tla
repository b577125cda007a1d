------------------------- MODULE RegistrationProofs -------------------------
(***************************************************************************)
(* For every set of requests, workers, addresses and passwords, and every  *)
(* number of faults, registration keeps its invariants and implements      *)
(* UserDirectory.                                                          *)
(***************************************************************************)
EXTENDS Registration, TLAPS

USE RegistrationAssumption

IInv == /\ TypeOK /\ WorkersHoldCommands
        /\ AnnouncedOnce /\ SettledHasUser /\ OwnerAsked /\ NothingMislaid

RequestRecord == [pc : {"new", "checked", "rejected", "accepted", "sent"},
                  address : Addresses \cup {None},
                  password : Passwords \cup {None}]
WorkerRecord == [pc : {"idle", "received", "absent", "hashed", "saved"},
                 cmd : Requests \cup {None}]

LEMMA Types ==
    ASSUME TypeOK
    PROVE  /\ request \in [Requests -> RequestRecord]
           /\ users \in [Emails -> Requests \cup {None}]
           /\ events \in [Emails -> Nat]
           /\ queue \in [Requests -> Nat]
           /\ worker \in [Workers -> WorkerRecord]
           /\ settled \subseteq Requests
           /\ faults \in 0..MaxFaults
BY DEF TypeOK, RequestRecord, WorkerRecord

LEMMA OneMore ==
    ASSUME NEW S, NEW f \in [S -> Nat], NEW x \in S
    PROVE  [f EXCEPT ![x] = @ + 1] \in [S -> Nat]
OBVIOUS

LEMMA FaultTyped ==
    ASSUME faults \in 0..MaxFaults, Fault
    PROVE  faults' \in 0..MaxFaults
BY DEF Fault

\* A busy worker holds a sent command for a valid address.
LEMMA Busy ==
    ASSUME TypeOK, WorkersHoldCommands, NEW w \in Workers, ~At(w, "idle")
    PROVE  /\ Cmd(w) \in Requests
           /\ Accepted(Cmd(w))
           /\ EmailOf(Cmd(w)) \in Emails
BY DEF WorkersHoldCommands, Accepted

LEMMA AckTyped ==
    ASSUME TypeOK, WorkersHoldCommands, NEW w \in Workers, ~At(w, "idle"), Ack(w)
    PROVE  /\ worker' \in [Workers -> WorkerRecord]
           /\ queue' \in [Requests -> Nat]
           /\ settled' \subseteq Requests
<1>1. Idle \in WorkerRecord
  BY DEF Idle, WorkerRecord
<1> QED BY <1>1, Types, Busy DEF Ack, Ready

LEMMA NackTyped ==
    ASSUME TypeOK, WorkersHoldCommands, NEW w \in Workers, ~At(w, "idle"), Nack(w)
    PROVE  /\ worker' \in [Workers -> WorkerRecord]
           /\ queue' \in [Requests -> Nat]
           /\ settled' \subseteq Requests
<1>1. Idle \in WorkerRecord
  BY DEF Idle, WorkerRecord
<1>2. queue' = [queue EXCEPT ![Cmd(w)] = @ + 1] /\ settled' = settled
  BY DEF Nack
<1>3. queue' \in [Requests -> Nat]
  BY <1>2, Types, Busy, OneMore
<1> QED BY <1>1, <1>2, <1>3, Types DEF Nack, Ready

LEMMA GotoTyped ==
    ASSUME TypeOK, NEW w \in Workers, NEW pc \in {"received", "absent", "hashed", "saved"},
           Goto(w, pc)
    PROVE  worker' \in [Workers -> WorkerRecord]
BY Types DEF Goto, WorkerRecord

LEMMA InsertTyped ==
    ASSUME TypeOK, NEW q \in Requests, EmailOf(q) \in Emails, Insert(q)
    PROVE  users' \in [Emails -> Requests \cup {None}] /\ events' \in [Emails -> Nat]
<1>1. /\ users' = [users EXCEPT ![EmailOf(q)] = q]
      /\ events' = [events EXCEPT ![EmailOf(q)] = @ + 1]
  BY DEF Insert
<1> QED BY <1>1, Types, OneMore

LEMMA TypeStep == TypeOK /\ WorkersHoldCommands /\ [Next]_vars => TypeOK'
<1> SUFFICES ASSUME TypeOK, WorkersHoldCommands, [Next]_vars
             PROVE  /\ request' \in [Requests -> RequestRecord]
                    /\ users' \in [Emails -> Requests \cup {None}]
                    /\ events' \in [Emails -> Nat]
                    /\ queue' \in [Requests -> Nat]
                    /\ worker' \in [Workers -> WorkerRecord]
                    /\ settled' \subseteq Requests
                    /\ faults' \in 0..MaxFaults
  BY DEF TypeOK, RequestRecord, WorkerRecord
<1>1. ASSUME NEW q \in Requests, NEW a \in Addresses, NEW p \in Passwords,
             CheckRequest(q, a, p)
      PROVE  request' \in [Requests -> RequestRecord]
  <2> DEFINE ok == NewEmail[a] # Invalid /\ ~Exists(NewEmail[a])
  <2> DEFINE r == [pc |-> IF ok THEN "checked" ELSE "rejected", address |-> a, password |-> p]
  <2>1. request' = [request EXCEPT ![q] = r]
    BY <1>1 DEF CheckRequest
  <2>2. r \in RequestRecord
    BY DEF RequestRecord
  <2> QED BY <2>1, <2>2, Types
<1>2. ASSUME NEW q \in Requests, SaveCommand(q)
      PROVE  request' \in [Requests -> RequestRecord]
  BY <1>2, Types DEF SaveCommand, RequestRecord
<1>3. ASSUME NEW q \in Requests, Send(q)
      PROVE  request' \in [Requests -> RequestRecord] /\ queue' \in [Requests -> Nat]
  <2>1. request' = [request EXCEPT ![q].pc = "sent"] /\ queue' = [queue EXCEPT ![q] = @ + 1]
    BY <1>3 DEF Send
  <2>2. request' \in [Requests -> RequestRecord]
    BY <2>1, Types DEF RequestRecord
  <2> QED BY <2>1, <2>2, Types, OneMore
<1>4. ASSUME NEW q \in Requests, SendAgain(q)
      PROVE  queue' \in [Requests -> Nat] /\ faults' \in 0..MaxFaults
  <2>1. Fault /\ queue' = [queue EXCEPT ![q] = @ + 1]
    BY <1>4 DEF SendAgain
  <2> QED BY <2>1, Types, OneMore, FaultTyped
<1>5. ASSUME NEW w \in Workers, NEW q \in Requests, Receive(w, q)
      PROVE  queue' \in [Requests -> Nat] /\ worker' \in [Workers -> WorkerRecord]
  <2>1. /\ queue[q] > 0
        /\ queue' = [queue EXCEPT ![q] = @ - 1]
        /\ worker' = [worker EXCEPT ![w] = [pc |-> "received", cmd |-> q]]
    BY <1>5 DEF Receive
  <2>2. [pc |-> "received", cmd |-> q] \in WorkerRecord
    BY DEF WorkerRecord
  <2>3. queue' \in [Requests -> Nat]
    BY <2>1, Types
  <2> QED BY <2>1, <2>2, <2>3, Types
<1>6. ASSUME NEW w \in Workers, Discard(w) \/ Finish(w)
      PROVE  /\ ~At(w, "idle") /\ Ack(w)
             /\ UNCHANGED <<request, users, events, faults>>
  BY <1>6 DEF Discard, Finish, At
<1>7. ASSUME NEW w \in Workers, HashRefused(w) \/ SaveRefused(w) \/ SaveConflicts(w)
      PROVE  /\ ~At(w, "idle") /\ Nack(w)
             /\ UNCHANGED <<request, users, events, faults>>
  BY <1>7 DEF HashRefused, SaveRefused, SaveConflicts, At
<1>8. ASSUME NEW w \in Workers, FindNone(w) \/ Hash(w)
      PROVE  /\ worker' \in [Workers -> WorkerRecord]
             /\ UNCHANGED <<request, users, events, queue, settled, faults>>
  BY <1>8, GotoTyped DEF FindNone, Hash
<1>9. ASSUME NEW w \in Workers, Save(w)
      PROVE  /\ users' \in [Emails -> Requests \cup {None}] /\ events' \in [Emails -> Nat]
             /\ worker' \in [Workers -> WorkerRecord]
             /\ UNCHANGED <<request, queue, settled, faults>>
  <2>1. Cmd(w) \in Requests /\ EmailOf(Cmd(w)) \in Emails
    BY <1>9, Busy DEF Save, At
  <2> QED BY <1>9, <2>1, InsertTyped, GotoTyped DEF Save
<1>10. ASSUME NEW w \in Workers, Fail(w)
       PROVE  /\ ~At(w, "idle") /\ Nack(w) /\ Fault
              /\ UNCHANGED <<request, users, events>>
  BY <1>10 DEF Fail
<1>11. ASSUME NEW w \in Workers, CommitUnknown(w)
       PROVE  /\ ~At(w, "idle") /\ Nack(w) /\ Fault
              /\ users' \in [Emails -> Requests \cup {None}] /\ events' \in [Emails -> Nat]
              /\ UNCHANGED request
  <2>1. ~At(w, "idle")
    BY <1>11 DEF CommitUnknown, At
  <2>2. Cmd(w) \in Requests /\ EmailOf(Cmd(w)) \in Emails
    BY <2>1, Busy
  <2> QED BY <1>11, <2>1, <2>2, InsertTyped DEF CommitUnknown
<1>12. CASE UNCHANGED vars
  BY <1>12, Types DEF vars
<1>13. ASSUME NEW q \in Requests,
              \/ \E a \in Addresses, p \in Passwords : CheckRequest(q, a, p)
              \/ SaveCommand(q) \/ Send(q) \/ SendAgain(q)
              \/ \E w \in Workers : Receive(w, q)
       PROVE  TypeOK'
  BY <1>1, <1>2, <1>3, <1>4, <1>5, <1>13, Types
  DEF CheckRequest, SaveCommand, Send, SendAgain, Receive, TypeOK, RequestRecord,
      WorkerRecord
<1>14. ASSUME NEW w \in Workers, WorkerStep(w) \/ Fail(w) \/ CommitUnknown(w)
       PROVE  TypeOK'
  BY <1>6, <1>7, <1>8, <1>9, <1>10, <1>11, <1>14, Types, AckTyped, NackTyped, FaultTyped
  DEF WorkerStep, TypeOK, RequestRecord, WorkerRecord
<1> QED BY <1>12, <1>13, <1>14, Types DEF Next, TypeOK, RequestRecord, WorkerRecord

-----------------------------------------------------------------------------
\* Who changes what: a step either works on one request, or is a worker's.
LEMMA NextCases ==
    ASSUME [Next]_vars
    PROVE  \/ \E q \in Requests, a \in Addresses, p \in Passwords : CheckRequest(q, a, p)
           \/ \E q \in Requests : SaveCommand(q) \/ Send(q) \/ SendAgain(q)
           \/ \E q \in Requests, w \in Workers : Receive(w, q)
           \/ \E w \in Workers : Discard(w) \/ Finish(w)
           \/ \E w \in Workers : FindNone(w) \/ Hash(w)
           \/ \E w \in Workers : HashRefused(w) \/ SaveRefused(w) \/ SaveConflicts(w)
                                 \/ Fail(w)
           \/ \E w \in Workers : Save(w) \/ CommitUnknown(w)
           \/ UNCHANGED vars
BY DEF Next, WorkerStep

\* An accepted request, and the user of an address, are never changed.
LEMMA RequestsKept ==
    ASSUME TypeOK, [Next]_vars, NEW q \in Requests, Accepted(q)
    PROVE  /\ Accepted(q)'
           /\ request[q].pc = "sent" => request'[q].pc = "sent"
           /\ request'[q].address = request[q].address
           /\ request'[q].password = request[q].password
<1>1. ASSUME NEW r \in Requests, NEW a \in Addresses, NEW p \in Passwords,
             CheckRequest(r, a, p)
      PROVE  request'[q] = request[q]
  <2>1. request[r].pc = "new"
    BY <1>1 DEF CheckRequest
  <2>2. r # q
    BY <2>1 DEF Accepted
  <2> DEFINE ok == NewEmail[a] # Invalid /\ ~Exists(NewEmail[a])
  <2> DEFINE new == [pc |-> IF ok THEN "checked" ELSE "rejected",
                     address |-> a, password |-> p]
  <2>3. request' = [request EXCEPT ![r] = new]
    BY <1>1 DEF CheckRequest
  <2> HIDE DEF new
  <2> QED BY <2>2, <2>3, Types
<1>2. ASSUME NEW r \in Requests, SaveCommand(r)
      PROVE  request'[q] = request[q]
  BY <1>2, Types DEF SaveCommand, Accepted
<1>3. ASSUME NEW r \in Requests, Send(r)
      PROVE  /\ request'[q].pc \in {request[q].pc, "sent"}
             /\ request'[q].address = request[q].address
             /\ request'[q].password = request[q].password
  <2>1. request' = [request EXCEPT ![r].pc = "sent"]
    BY <1>3 DEF Send
  <2> QED BY <2>1, Types DEF RequestRecord
<1>4. \/ UNCHANGED request
      \/ \E r \in Requests, a \in Addresses, p \in Passwords : CheckRequest(r, a, p)
      \/ \E r \in Requests : SaveCommand(r) \/ Send(r)
  BY NextCases DEF SendAgain, Receive, Discard, Finish, FindNone, Hash, HashRefused,
     SaveRefused,
     SaveConflicts, Fail, Save, CommitUnknown, vars
<1> QED BY <1>1, <1>2, <1>3, <1>4, Types DEF Accepted

\* What a transaction that inserts a user finds and leaves.
LEMMA Inserted ==
    ASSUME TypeOK, WorkersHoldCommands, NEW w \in Workers, Save(w) \/ CommitUnknown(w)
    PROVE  /\ ~At(w, "idle") /\ At(w, "hashed")
           /\ Cmd(w) \in Requests /\ Accepted(Cmd(w))
           /\ request[Cmd(w)].password # Empty
           /\ EmailOf(Cmd(w)) \in Emails
           /\ users[EmailOf(Cmd(w))] = None
           /\ users' = [users EXCEPT ![EmailOf(Cmd(w))] = Cmd(w)]
           /\ events' = [events EXCEPT ![EmailOf(Cmd(w))] = @ + 1]
           /\ UNCHANGED request
<1>1. At(w, "hashed") /\ ~At(w, "idle")
  BY DEF Save, CommitUnknown, At
<1> QED BY <1>1, Busy DEF Save, CommitUnknown, Insert, Exists, WorkersHoldCommands

LEMMA UsersChange ==
    ASSUME [Next]_vars
    PROVE  \/ UNCHANGED <<users, events>>
           \/ \E w \in Workers : Save(w) \/ CommitUnknown(w)
BY NextCases DEF CheckRequest, SaveCommand, Send, SendAgain, Receive, Discard, Finish,
   FindNone, Hash, HashRefused, SaveRefused, SaveConflicts, Fail, vars

LEMMA UsersKept ==
    ASSUME TypeOK, WorkersHoldCommands, [Next]_vars, NEW e \in Emails, Exists(e)
    PROVE  users'[e] = users[e]
<1>1. ASSUME NEW w \in Workers, Save(w) \/ CommitUnknown(w)
      PROVE  users'[e] = users[e]
  BY <1>1, Inserted, Types DEF Exists
<1> QED BY <1>1, UsersChange

\* A command stays for the same valid address.
LEMMA AddressKept ==
    ASSUME TypeOK, WorkersHoldCommands, [Next]_vars, NEW q \in Requests, Accepted(q)
    PROVE  EmailOf(q)' = EmailOf(q) /\ EmailOf(q) \in Emails
BY RequestsKept DEF EmailOf, WorkersHoldCommands

-----------------------------------------------------------------------------
\* How a worker gets from one step of HandleCommand to the next.
LEMMA WorkersMove ==
    ASSUME TypeOK, [Next]_vars, NEW w \in Workers
    PROVE  \/ worker'[w] \in {worker[w], Idle}
           \/ \E q \in Requests : Receive(w, q)
           \/ FindNone(w) \/ Hash(w) \/ Save(w)
<1>1. ASSUME NEW v \in Workers, Ready(v)
      PROVE  worker'[w] \in {worker[w], Idle}
  BY <1>1, Types DEF Ready
<1>2. ASSUME NEW v \in Workers,
             \/ Discard(v) \/ Finish(v) \/ HashRefused(v) \/ SaveRefused(v) \/ SaveConflicts(v)
             \/ Fail(v) \/ CommitUnknown(v)
      PROVE  Ready(v)
  BY <1>2 DEF Discard, Finish, HashRefused, SaveRefused, SaveConflicts, Fail,
     CommitUnknown, Ack, Nack
<1>3. ASSUME NEW v \in Workers, v # w,
             FindNone(v) \/ Hash(v) \/ Save(v) \/ \E q \in Requests : Receive(v, q)
      PROVE  worker'[w] = worker[w]
  BY <1>3, Types DEF FindNone, Hash, Save, Receive, Goto
<1>4. \/ UNCHANGED worker
      \/ \E v \in Workers :
            \/ Discard(v) \/ Finish(v) \/ HashRefused(v) \/ SaveRefused(v) \/ SaveConflicts(v)
            \/ Fail(v) \/ CommitUnknown(v) \/ FindNone(v) \/ Hash(v) \/ Save(v)
            \/ \E q \in Requests : Receive(v, q)
  BY NextCases DEF CheckRequest, SaveCommand, Send, SendAgain, vars
<1> QED BY <1>1, <1>2, <1>3, <1>4

LEMMA CommandsStep == TypeOK /\ WorkersHoldCommands /\ [Next]_vars => WorkersHoldCommands'
<1> SUFFICES ASSUME TypeOK, WorkersHoldCommands, [Next]_vars
             PROVE  WorkersHoldCommands'
  OBVIOUS
<1>1. ASSUME NEW q \in Requests, (request[q].pc = "checked" \/ Accepted(q))'
      PROVE  EmailOf(q)' \in Emails
  <2>1. CASE request[q].pc = "checked" \/ Accepted(q)
    <3>1. EmailOf(q) \in Emails
      BY <2>1 DEF WorkersHoldCommands
    <3>2. CASE request'[q].address = request[q].address
      BY <3>1, <3>2 DEF EmailOf
    <3>3. CASE Accepted(q)
      BY <3>3, AddressKept
    <3>4. CASE request[q].pc = "checked"
      <4>1. request'[q].address = request[q].address
        BY <1>1, <3>4, NextCases, Types, TypeStep
        DEF CheckRequest, SaveCommand, Send, SendAgain, Receive, Discard, Finish, FindNone,
            Hash, HashRefused, SaveRefused, SaveConflicts, Fail, Save, CommitUnknown, vars,
            RequestRecord
      <4> QED BY <3>2, <4>1
    <3> QED BY <2>1, <3>3, <3>4
  <2>2. CASE ~(request[q].pc = "checked" \/ Accepted(q))
    <3>1. ASSUME NEW r \in Requests, NEW a \in Addresses, NEW p \in Passwords,
                 CheckRequest(r, a, p)
          PROVE  EmailOf(q)' \in Emails
      <4> DEFINE ok == NewEmail[a] # Invalid /\ ~Exists(NewEmail[a])
      <4> DEFINE new == [pc |-> IF ok THEN "checked" ELSE "rejected",
                         address |-> a, password |-> p]
      <4>1. request' = [request EXCEPT ![r] = new]
        BY <3>1 DEF CheckRequest
      <4>2. CASE r # q
        <5> HIDE DEF new
        <5>1. request'[q] = request[q]
          BY <4>1, <4>2, Types
        <5> QED BY <1>1, <2>2, <5>1 DEF Accepted
      <4>3. CASE r = q
        <5>1. request'[q] = new
          BY <4>1, <4>3, Types
        <5>2. ok /\ request'[q].address = a
          BY <1>1, <5>1 DEF Accepted
        <5> QED BY <5>2 DEF EmailOf
      <4> QED BY <4>2, <4>3
    <3>2. ASSUME NEW r \in Requests, SaveCommand(r) \/ Send(r)
          PROVE  request'[q] = request[q]
      BY <2>2, <3>2, Types DEF SaveCommand, Send, Accepted
    <3>3. \/ UNCHANGED request
          \/ \E r \in Requests, a \in Addresses, p \in Passwords : CheckRequest(r, a, p)
          \/ \E r \in Requests : SaveCommand(r) \/ Send(r)
      BY NextCases DEF SendAgain, Receive, Discard, Finish, FindNone, Hash, HashRefused,
         SaveRefused,
         SaveConflicts, Fail, Save, CommitUnknown, vars
    <3> QED BY <1>1, <2>2, <3>1, <3>2, <3>3 DEF Accepted
  <2> QED BY <2>1, <2>2
<1>2. ASSUME NEW q \in Requests, queue'[q] > 0
      PROVE  request'[q].pc = "sent"
  <2>1. CASE request[q].pc = "sent"
    BY <2>1, RequestsKept DEF Accepted
  <2>2. CASE queue[q] > 0
    BY <2>1, <2>2 DEF WorkersHoldCommands
  <2>3. CASE ~(queue[q] > 0)
    <3>1. queue[q] = 0
      BY <2>3, Types
    <3>2. ASSUME NEW r \in Requests, Send(r) \/ SendAgain(r)
          PROVE  request'[q].pc = "sent"
      <4>1. queue' = [queue EXCEPT ![r] = @ + 1]
        BY <3>2 DEF Send, SendAgain
      <4>2. q = r
        BY <1>2, <2>3, <4>1, Types
      <4>3. CASE Send(r)
        <5>1. request' = [request EXCEPT ![r].pc = "sent"]
          BY <4>3 DEF Send
        <5> QED BY <4>2, <5>1, Types DEF RequestRecord
      <4>4. CASE SendAgain(r)
        BY <2>1, <4>2, <4>4 DEF SendAgain
      <4> QED BY <3>2, <4>3, <4>4
    <3>3. ASSUME NEW r \in Requests, NEW w \in Workers, Receive(w, r)
          PROVE  FALSE
      <4>1. queue[r] > 0 /\ queue' = [queue EXCEPT ![r] = @ - 1]
        BY <3>3 DEF Receive
      <4> QED BY <1>2, <3>1, <4>1, Types
    <3>4. ASSUME NEW w \in Workers, ~At(w, "idle"), Nack(w)
          PROVE  request'[q].pc = "sent"
      <4>1. Cmd(w) \in Requests /\ request[Cmd(w)].pc = "sent"
        BY <3>4 DEF WorkersHoldCommands
      <4>2. queue' = [queue EXCEPT ![Cmd(w)] = @ + 1]
        BY <3>4 DEF Nack
      <4>3. q = Cmd(w)
        BY <1>2, <2>3, <4>1, <4>2, Types
      <4> QED BY <2>1, <4>1, <4>3
    <3>5. ASSUME NEW w \in Workers,
                 HashRefused(w) \/ SaveRefused(w) \/ SaveConflicts(w) \/ Fail(w)
                 \/ CommitUnknown(w)
          PROVE  ~At(w, "idle") /\ Nack(w)
      BY <3>5 DEF HashRefused, SaveRefused, SaveConflicts, Fail, CommitUnknown, At
    <3>6. \/ UNCHANGED queue
          \/ \E r \in Requests : Send(r) \/ SendAgain(r)
          \/ \E r \in Requests, w \in Workers : Receive(w, r)
          \/ \E w \in Workers :
                HashRefused(w) \/ SaveRefused(w) \/ SaveConflicts(w) \/ Fail(w)
                \/ CommitUnknown(w)
      BY NextCases DEF CheckRequest, SaveCommand, Discard, Finish, FindNone, Hash, Save,
         Ack, vars
    <3> QED BY <1>2, <2>3, <3>2, <3>3, <3>4, <3>5, <3>6
  <2> QED BY <2>2, <2>3
<1>3. ASSUME NEW q \in settled'
      PROVE  Accepted(q)'
  <2>1. CASE q \in settled
    BY <2>1, RequestsKept, Types DEF WorkersHoldCommands
  <2>2. CASE q \notin settled
    <3>1. ASSUME NEW w \in Workers, Discard(w) \/ Finish(w)
          PROVE  q \in Requests /\ Accepted(q)
      BY <1>3, <2>2, <3>1, Busy DEF Discard, Finish, Ack, At
    <3>2. \/ UNCHANGED settled
          \/ \E w \in Workers : Discard(w) \/ Finish(w)
      BY NextCases DEF CheckRequest, SaveCommand, Send, SendAgain, Receive, FindNone, Hash,
         HashRefused, SaveRefused, SaveConflicts, Fail, Save, CommitUnknown, Nack, vars
    <3> QED BY <1>3, <2>2, <3>1, <3>2, RequestsKept
  <2> QED BY <2>1, <2>2
<1>4. ASSUME NEW w \in Workers, ~At(w, "idle")'
      PROVE  /\ Cmd(w)' \in Requests
             /\ request'[Cmd(w)'].pc = "sent"
             /\ At(w, "hashed")' => request'[Cmd(w)'].password # Empty
             /\ At(w, "saved")' => Exists(EmailOf(Cmd(w)))'
  <2>1. \/ worker'[w] \in {worker[w], Idle}
        \/ \E q \in Requests : Receive(w, q)
        \/ FindNone(w) \/ Hash(w) \/ Save(w)
    BY WorkersMove
  <2>2. CASE worker'[w] = worker[w]
    <3>1. /\ ~At(w, "idle") /\ Cmd(w)' = Cmd(w)
          /\ At(w, "hashed")' <=> At(w, "hashed")
          /\ At(w, "saved")' <=> At(w, "saved")
      BY <1>4, <2>2 DEF At, Cmd
    <3>2. Cmd(w) \in Requests /\ Accepted(Cmd(w)) /\ EmailOf(Cmd(w)) \in Emails
      BY <3>1, Busy
    <3>3. EmailOf(Cmd(w))' = EmailOf(Cmd(w))
      BY <3>1, <3>2, AddressKept DEF EmailOf
    <3>4. request[Cmd(w)].pc = "sent"
      BY <3>1 DEF WorkersHoldCommands
    <3>5. At(w, "saved")' => Exists(EmailOf(Cmd(w)))'
      BY <3>1, <3>2, <3>3, UsersKept DEF WorkersHoldCommands, Exists
    <3>6. At(w, "hashed")' => request'[Cmd(w)'].password # Empty
      BY <3>1, <3>2, RequestsKept DEF WorkersHoldCommands
    <3> QED BY <3>1, <3>2, <3>4, <3>5, <3>6, RequestsKept
  <2>3. CASE worker'[w] = Idle
    BY <1>4, <2>3 DEF At, Idle
  <2>4. ASSUME NEW q \in Requests, Receive(w, q)
        PROVE  /\ worker'[w] = [pc |-> "received", cmd |-> q]
               /\ request' = request /\ request[q].pc = "sent"
    BY <2>4, Types DEF Receive, WorkersHoldCommands
  <2>5. CASE FindNone(w) \/ Hash(w) \/ Save(w)
    <3>1. /\ ~At(w, "idle") /\ request' = request
          /\ \E pc \in {"absent", "hashed", "saved"} : Goto(w, pc)
      BY <2>5 DEF FindNone, Hash, Save, At
    <3>2. Cmd(w)' = Cmd(w)
      BY <3>1, Types DEF Goto, Cmd, WorkerRecord
    <3>3. Cmd(w) \in Requests /\ request[Cmd(w)].pc = "sent"
      BY <3>1 DEF WorkersHoldCommands
    <3>4. CASE FindNone(w)
      <4>1. worker' = [worker EXCEPT ![w].pc = "absent"]
        BY <3>4 DEF FindNone, Goto
      <4>2. worker'[w].pc = "absent"
        BY <4>1, Types DEF WorkerRecord
      <4> QED BY <3>1, <3>2, <3>3, <4>2 DEF At
    <3>5. CASE Hash(w)
      <4>1. worker' = [worker EXCEPT ![w].pc = "hashed"] /\ request[Cmd(w)].password # Empty
        BY <3>5 DEF Hash, Goto
      <4>2. worker'[w].pc = "hashed"
        BY <4>1, Types DEF WorkerRecord
      <4> QED BY <3>1, <3>2, <3>3, <4>1, <4>2 DEF At
    <3>6. CASE Save(w)
      <4>1. worker' = [worker EXCEPT ![w].pc = "saved"]
        BY <3>6 DEF Save, Goto
      <4>2. worker'[w].pc = "saved"
        BY <4>1, Types DEF WorkerRecord
      <4>3. users'[EmailOf(Cmd(w))] = Cmd(w)
        BY <3>6, Inserted, Types
      <4>4. Exists(EmailOf(Cmd(w)))'
        BY <3>1, <3>2, <3>3, <4>3 DEF Exists, EmailOf
      <4> QED BY <3>1, <3>2, <3>3, <4>2, <4>4 DEF At
    <3> QED BY <2>5, <3>4, <3>5, <3>6
  <2>6. CASE \E q \in Requests : Receive(w, q)
    <3>1. PICK q \in Requests : Receive(w, q)
      BY <2>6
    <3>2. worker'[w] = [pc |-> "received", cmd |-> q]
      BY <2>4, <3>1
    <3>3. worker'[w].pc = "received" /\ Cmd(w)' = q
      BY <3>2 DEF Cmd
    <3> QED BY <2>4, <3>1, <3>3 DEF At
  <2> QED BY <2>1, <2>2, <2>3, <2>5, <2>6
<1>5. \A q \in Requests :
        /\ (request[q].pc = "checked" \/ Accepted(q))' => EmailOf(q)' \in Emails
        /\ queue'[q] > 0 => request'[q].pc = "sent"
  BY <1>1, <1>2
<1>6. \A q \in settled' : Accepted(q)'
  BY <1>3
<1>7. \A w \in Workers :
        /\ ~At(w, "idle")' => Cmd(w)' \in Requests /\ request'[Cmd(w)'].pc = "sent"
        /\ At(w, "hashed")' => request'[Cmd(w)'].password # Empty
        /\ At(w, "saved")' => Exists(EmailOf(Cmd(w)))'
  <2>1. \A w \in Workers : ~(worker'[w].pc = "hashed" /\ worker'[w].pc = "idle")
                          /\ ~(worker'[w].pc = "saved" /\ worker'[w].pc = "idle")
    OBVIOUS
  <2> QED BY <1>4, <2>1 DEF At
<1> QED BY <1>5, <1>6, <1>7 DEF WorkersHoldCommands

LEMMA AnnouncedStep ==
    TypeOK /\ WorkersHoldCommands /\ AnnouncedOnce /\ [Next]_vars => AnnouncedOnce'
<1> SUFFICES ASSUME TypeOK, WorkersHoldCommands, AnnouncedOnce, [Next]_vars,
                    NEW e \in Emails
             PROVE  events'[e] = IF users'[e] # None THEN 1 ELSE 0
  BY DEF AnnouncedOnce, Exists
<1>1. events[e] = IF users[e] # None THEN 1 ELSE 0
  BY DEF AnnouncedOnce, Exists
<1>2. ASSUME NEW w \in Workers, Save(w) \/ CommitUnknown(w)
      PROVE  events'[e] = IF users'[e] # None THEN 1 ELSE 0
  <2>1. /\ Cmd(w) \in Requests
        /\ users[EmailOf(Cmd(w))] = None
        /\ users' = [users EXCEPT ![EmailOf(Cmd(w))] = Cmd(w)]
        /\ events' = [events EXCEPT ![EmailOf(Cmd(w))] = @ + 1]
    BY <1>2, Inserted
  <2>2. CASE e = EmailOf(Cmd(w))
    <3>1. events[e] = 0
      BY <1>1, <2>1, <2>2
    <3>2. events'[e] = 1 /\ users'[e] = Cmd(w)
      BY <2>1, <2>2, <3>1, Types
    <3> QED BY <2>1, <3>2
  <2>3. CASE e # EmailOf(Cmd(w))
    <3>1. events'[e] = events[e] /\ users'[e] = users[e]
      BY <2>1, <2>3, Types
    <3> QED BY <1>1, <3>1
  <2> QED BY <2>2, <2>3
<1> QED BY <1>1, <1>2, UsersChange

LEMMA SettledStep ==
    TypeOK /\ WorkersHoldCommands /\ SettledHasUser /\ [Next]_vars => SettledHasUser'
<1> SUFFICES ASSUME TypeOK, WorkersHoldCommands, SettledHasUser, [Next]_vars,
                    NEW q \in settled'
             PROVE  EmailOf(q)' \in Emails /\ Exists(EmailOf(q))'
  BY DEF SettledHasUser
<1>1. q \in Requests /\ Accepted(q) /\ EmailOf(q) \in Emails /\ Exists(EmailOf(q))
  <2>1. CASE q \in settled
    BY <2>1, Types DEF SettledHasUser, WorkersHoldCommands
  <2>2. CASE q \notin settled
    <3>1. PICK w \in Workers : Discard(w) \/ Finish(w)
      BY <2>2, NextCases DEF CheckRequest, SaveCommand, Send, SendAgain, Receive, FindNone,
         Hash, HashRefused, SaveRefused, SaveConflicts, Fail, Save, CommitUnknown, Nack, vars
    <3>2. q = Cmd(w) /\ ~At(w, "idle")
      BY <2>2, <3>1 DEF Discard, Finish, Ack, At
    <3>3. Cmd(w) \in Requests /\ Accepted(Cmd(w)) /\ EmailOf(Cmd(w)) \in Emails
      BY <3>2, Busy
    <3>4. Exists(EmailOf(Cmd(w)))
      BY <3>1, <3>3 DEF Discard, Finish, WorkersHoldCommands
    <3> QED BY <3>2, <3>3, <3>4
  <2> QED BY <2>1, <2>2
<1> QED BY <1>1, AddressKept, UsersKept DEF Exists

LEMMA OwnerStep ==
    TypeOK /\ WorkersHoldCommands /\ OwnerAsked /\ [Next]_vars => OwnerAsked'
<1> SUFFICES ASSUME TypeOK, WorkersHoldCommands, OwnerAsked, [Next]_vars,
                    NEW e \in Emails, NEW q, q = users'[e], q # None
             PROVE  /\ request'[q].pc \in {"accepted", "sent"}
                    /\ NewEmail[request'[q].address] = e
                    /\ request'[q].password # Empty
  BY DEF OwnerAsked, Exists, Accepted, EmailOf
<1>1. /\ q \in Requests /\ Accepted(q) /\ EmailOf(q) = e
      /\ request[q].password # Empty
  <2>1. CASE q = users[e]
    BY <2>1, Types DEF OwnerAsked, Exists
  <2>2. CASE q # users[e]
    <3>1. PICK w \in Workers : Save(w) \/ CommitUnknown(w)
      BY <2>2, UsersChange
    <3>2. users' = [users EXCEPT ![EmailOf(Cmd(w))] = Cmd(w)]
      BY <3>1, Inserted
    <3>3. e = EmailOf(Cmd(w)) /\ q = Cmd(w)
      BY <2>2, <3>2, Types
    <3> QED BY <3>1, <3>3, Inserted
  <2> QED BY <2>1, <2>2
<1>2. /\ Accepted(q)' /\ request'[q].address = request[q].address
      /\ request'[q].password = request[q].password
  BY <1>1, RequestsKept
<1> QED BY <1>1, <1>2 DEF EmailOf, Accepted

\* A worker that keeps its command, or is not concerned, leaves it in hand.
LEMMA HandsKept ==
    ASSUME NEW q, NEW v \in Workers, ~At(v, "idle"), Cmd(v) = q,
           worker'[v].pc # "idle", worker'[v].cmd = q
    PROVE  InHands(q)'
BY DEF InHands, At, Cmd

\* What an acknowledgement and a refusal do to the commands.
LEMMA AckHands ==
    ASSUME TypeOK, WorkersHoldCommands, NEW w \in Workers, ~At(w, "idle"), Ack(w),
           NEW q \in Requests, q \in settled \/ queue[q] > 0 \/ InHands(q)
    PROVE  (q \in settled \/ queue[q] > 0 \/ InHands(q))'
<1>1. /\ worker' = [worker EXCEPT ![w] = Idle]
      /\ settled' = settled \cup {Cmd(w)} /\ queue' = queue
  BY DEF Ack, Ready
<1>2. ASSUME NEW v \in Workers, ~At(v, "idle"), Cmd(v) = q, v # w
      PROVE  InHands(q)'
  <2>1. worker'[v] = worker[v]
    BY <1>1, <1>2, Types
  <2> QED BY <1>2, <2>1, HandsKept DEF At, Cmd
<1> QED BY <1>1, <1>2 DEF InHands

LEMMA NackHands ==
    ASSUME TypeOK, WorkersHoldCommands, NEW w \in Workers, ~At(w, "idle"), Nack(w),
           NEW q \in Requests, q \in settled \/ queue[q] > 0 \/ InHands(q)
    PROVE  (q \in settled \/ queue[q] > 0 \/ InHands(q))'
<1>1. /\ worker' = [worker EXCEPT ![w] = Idle] /\ settled' = settled
      /\ queue' = [queue EXCEPT ![Cmd(w)] = @ + 1]
  BY DEF Nack, Ready
<1>2. queue[q] \in Nat /\ Cmd(w) \in Requests
  BY Types, Busy
<1>3. queue'[q] >= queue[q] /\ (q = Cmd(w) => queue'[q] > 0)
  BY <1>1, <1>2, Types
<1>4. ASSUME NEW v \in Workers, ~At(v, "idle"), Cmd(v) = q, v # w
      PROVE  InHands(q)'
  <2>1. worker'[v] = worker[v]
    BY <1>1, <1>4, Types
  <2> QED BY <1>4, <2>1, HandsKept DEF At, Cmd
<1>5. CASE q \in settled
  BY <1>1, <1>5
<1>6. CASE queue[q] > 0
  <2>1. queue'[q] \in Nat
    BY NackTyped
  <2> QED BY <1>2, <1>3, <1>6, <2>1
<1>7. CASE InHands(q)
  BY <1>3, <1>4, <1>7 DEF InHands
<1> QED BY <1>5, <1>6, <1>7

LEMMA MislaidStep ==
    TypeOK /\ WorkersHoldCommands /\ NothingMislaid /\ [Next]_vars => NothingMislaid'
<1> SUFFICES ASSUME TypeOK, WorkersHoldCommands, NothingMislaid, [Next]_vars,
                    NEW q \in Requests, request'[q].pc = "sent"
             PROVE  (q \in settled \/ queue[q] > 0 \/ InHands(q))'
  BY DEF NothingMislaid
<1>1. ASSUME request[q].pc # "sent"
      PROVE  Send(q)
  <2>1. ASSUME NEW r \in Requests, NEW a \in Addresses, NEW p \in Passwords,
               CheckRequest(r, a, p)
        PROVE  FALSE
    <3> DEFINE ok == NewEmail[a] # Invalid /\ ~Exists(NewEmail[a])
    <3> DEFINE new == [pc |-> IF ok THEN "checked" ELSE "rejected",
                       address |-> a, password |-> p]
    <3>1. request' = [request EXCEPT ![r] = new] /\ new.pc # "sent"
      BY <2>1 DEF CheckRequest
    <3> HIDE DEF new
    <3> QED BY <1>1, <3>1, Types
  <2>2. ASSUME NEW r \in Requests, SaveCommand(r)
        PROVE  FALSE
    BY <1>1, <2>2, Types DEF SaveCommand, RequestRecord
  <2>3. ASSUME NEW r \in Requests, Send(r)
        PROVE  r = q
    BY <1>1, <2>3, Types DEF Send, RequestRecord
  <2>4. \/ UNCHANGED request
        \/ \E r \in Requests, a \in Addresses, p \in Passwords : CheckRequest(r, a, p)
        \/ \E r \in Requests : SaveCommand(r) \/ Send(r)
    BY NextCases DEF SendAgain, Receive, Discard, Finish, FindNone, Hash, HashRefused,
       SaveRefused,
       SaveConflicts, Fail, Save, CommitUnknown, vars
  <2> QED BY <1>1, <2>1, <2>2, <2>3, <2>4
<1>2. ASSUME NEW r \in Requests, Send(r) \/ SendAgain(r)
      PROVE  /\ UNCHANGED <<worker, settled>> /\ queue[q] \in Nat
             /\ queue'[q] >= queue[q] /\ (r = q => queue'[q] > 0)
  <2>1. queue' = [queue EXCEPT ![r] = @ + 1] /\ UNCHANGED <<worker, settled>>
    BY <1>2 DEF Send, SendAgain
  <2> QED BY <2>1, Types
<1>3. CASE request[q].pc # "sent"
  BY <1>1, <1>2, <1>3
<1>4. CASE request[q].pc = "sent"
  <2>1. q \in settled \/ queue[q] > 0 \/ InHands(q)
    BY <1>4 DEF NothingMislaid
  <2>2. CASE UNCHANGED <<worker, queue, settled>>
    BY <2>1, <2>2 DEF InHands, At, Cmd
  <2>3. ASSUME NEW r \in Requests, Send(r) \/ SendAgain(r)
        PROVE  (q \in settled \/ queue[q] > 0 \/ InHands(q))'
    <3>1. CASE queue[q] > 0
      <4>1. queue'[q] \in Nat
        BY <2>3, TypeStep, Types DEF TypeOK
      <4> QED BY <1>2, <2>3, <3>1, <4>1
    <3>2. CASE ~(queue[q] > 0)
      BY <1>2, <2>1, <2>3, <3>2 DEF InHands, At, Cmd
    <3> QED BY <3>1, <3>2
  <2>4. ASSUME NEW r \in Requests, NEW w \in Workers, Receive(w, r)
        PROVE  (q \in settled \/ queue[q] > 0 \/ InHands(q))'
    <3>1. /\ worker' = [worker EXCEPT ![w] = [pc |-> "received", cmd |-> r]]
          /\ queue' = [queue EXCEPT ![r] = @ - 1] /\ settled' = settled /\ At(w, "idle")
      BY <2>4 DEF Receive
    <3>2. CASE r = q
      <4>1. worker'[w].pc # "idle" /\ worker'[w].cmd = q
        BY <3>1, <3>2, Types
      <4> QED BY <4>1 DEF InHands, At, Cmd
    <3>3. CASE r # q
      <4>1. queue'[q] = queue[q]
        BY <3>1, <3>3, Types
      <4>2. ASSUME NEW v \in Workers, ~At(v, "idle"), Cmd(v) = q
            PROVE  InHands(q)'
        <5>1. worker'[v] = worker[v]
          BY <3>1, <4>2, Types DEF At
        <5> QED BY <4>2, <5>1, HandsKept DEF At, Cmd
      <4> QED BY <2>1, <3>1, <4>1, <4>2 DEF InHands
    <3> QED BY <3>2, <3>3
  <2>5. ASSUME NEW w \in Workers, FindNone(w) \/ Hash(w) \/ Save(w)
        PROVE  (q \in settled \/ queue[q] > 0 \/ InHands(q))'
    <3>1. PICK pc \in {"absent", "hashed", "saved"} : Goto(w, pc)
      BY <2>5 DEF FindNone, Hash, Save
    <3>2. UNCHANGED <<queue, settled>>
      BY <2>5 DEF FindNone, Hash, Save
    <3>3. ASSUME NEW v \in Workers, ~At(v, "idle"), Cmd(v) = q
          PROVE  InHands(q)'
      <4>1. worker'[v].pc # "idle" /\ worker'[v].cmd = worker[v].cmd
        BY <3>1, <3>3, Types DEF Goto, At, WorkerRecord
      <4> QED BY <3>3, <4>1, HandsKept DEF Cmd
    <3> QED BY <2>1, <3>2, <3>3 DEF InHands
  <2>6. ASSUME NEW w \in Workers, Discard(w) \/ Finish(w)
        PROVE  (q \in settled \/ queue[q] > 0 \/ InHands(q))'
    <3>1. ~At(w, "idle") /\ Ack(w)
      BY <2>6 DEF Discard, Finish, At
    <3> QED BY <2>1, <3>1, AckHands
  <2>7. ASSUME NEW w \in Workers,
               HashRefused(w) \/ SaveRefused(w) \/ SaveConflicts(w) \/ Fail(w)
               \/ CommitUnknown(w)
        PROVE  (q \in settled \/ queue[q] > 0 \/ InHands(q))'
    <3>1. ~At(w, "idle") /\ Nack(w)
      BY <2>7 DEF HashRefused, SaveRefused, SaveConflicts, Fail, CommitUnknown, At
    <3> QED BY <2>1, <3>1, NackHands
  <2>8. \/ UNCHANGED <<worker, queue, settled>>
        \/ \E r \in Requests : Send(r) \/ SendAgain(r)
        \/ \E r \in Requests, w \in Workers : Receive(w, r)
        \/ \E w \in Workers : FindNone(w) \/ Hash(w) \/ Save(w)
        \/ \E w \in Workers : Discard(w) \/ Finish(w)
        \/ \E w \in Workers :
              HashRefused(w) \/ SaveRefused(w) \/ SaveConflicts(w) \/ Fail(w)
              \/ CommitUnknown(w)
    BY NextCases DEF CheckRequest, SaveCommand, vars
  <2> QED BY <2>2, <2>3, <2>4, <2>5, <2>6, <2>7, <2>8
<1> QED BY <1>3, <1>4

-----------------------------------------------------------------------------
\* IInv is the inductive invariant of registration.
THEOREM Invariance == Spec => []IInv
<1>1. Init => IInv
  <2> SUFFICES ASSUME Init PROVE IInv
    OBVIOUS
  <2>1. TypeOK
    BY DEF Init, TypeOK, NewRequest, Idle
  <2>2. WorkersHoldCommands
    BY DEF Init, WorkersHoldCommands, Accepted, At, NewRequest, Idle
  <2>3. AnnouncedOnce /\ SettledHasUser /\ OwnerAsked
    BY DEF Init, AnnouncedOnce, SettledHasUser, OwnerAsked, Exists
  <2>4. NothingMislaid
    BY DEF Init, NothingMislaid, NewRequest
  <2> QED BY <2>1, <2>2, <2>3, <2>4 DEF IInv
<1>2. IInv /\ [Next]_vars => IInv'
  BY TypeStep, CommandsStep, AnnouncedStep, SettledStep, OwnerStep, MislaidStep DEF IInv
<1> QED BY <1>1, <1>2, PTL DEF Spec

\* The variables keep their types (the tables and the queue of the code).
THEOREM TypeCorrect == Spec => []TypeOK
<1>1. IInv => TypeOK
  BY DEF IInv
<1> QED BY <1>1, Invariance, PTL

\* A user exists exactly if one UserRegistered event was written for it, in
\* whatever interleaving of duplicated and retried commands (Save).
THEOREM UsersAnnouncedOnce == Spec => []AnnouncedOnce
<1>1. IInv => AnnouncedOnce
  BY DEF IInv
<1> QED BY <1>1, Invariance, PTL

\* No command is acknowledged before its address has a user (HandleCommand).
THEOREM NoRegistrationLost == Spec => []SettledHasUser
<1>1. IInv => SettledHasUser
  BY DEF IInv
<1> QED BY <1>1, Invariance, PTL

\* Every user comes from an accepted command for its address, whose password
\* could be hashed (Execute and HandleCommand).
THEOREM UsersWereAskedFor == Spec => []OwnerAsked
<1>1. IInv => OwnerAsked
  BY DEF IInv
<1> QED BY <1>1, Invariance, PTL

\* Whatever fails, and wherever in HandleCommand, a command that was sent is
\* in the queue, in a worker's hands or acknowledged.
THEOREM NoCommandMislaid == Spec => []NothingMislaid
<1>1. IInv => NothingMislaid
  BY DEF IInv
<1> QED BY <1>1, Invariance, PTL

-----------------------------------------------------------------------------
\* The refinement: what a step does to the addresses of accepted commands.
Mail == [q \in Requests |-> IF Accepted(q) THEN EmailOf(q) ELSE None]

LEMMA MailKept ==
    ASSUME TypeOK, WorkersHoldCommands, [Next]_vars,
           ~ \E q \in Requests : SaveCommand(q)
    PROVE  Mail' = Mail
<1> SUFFICES ASSUME NEW q \in Requests
             PROVE  /\ Accepted(q)' <=> Accepted(q)
                    /\ Accepted(q) => EmailOf(q)' = EmailOf(q)
  BY DEF Mail
<1>1. Accepted(q)' => Accepted(q)
  <2>1. ASSUME NEW r \in Requests, NEW a \in Addresses, NEW p \in Passwords,
               CheckRequest(r, a, p)
        PROVE  Accepted(q)' => Accepted(q)
    <3> DEFINE ok == NewEmail[a] # Invalid /\ ~Exists(NewEmail[a])
    <3> DEFINE new == [pc |-> IF ok THEN "checked" ELSE "rejected",
                       address |-> a, password |-> p]
    <3>1. request' = [request EXCEPT ![r] = new]
      BY <2>1 DEF CheckRequest
    <3>2. new.pc \notin {"accepted", "sent"}
      OBVIOUS
    <3> HIDE DEF new
    <3>3. request'[q] = IF q = r THEN new ELSE request[q]
      BY <3>1, Types
    <3> QED BY <3>2, <3>3 DEF Accepted
  <2>2. ASSUME NEW r \in Requests, Send(r)
        PROVE  Accepted(q)' => Accepted(q)
    BY <2>2, Types DEF Send, Accepted
  <2>3. \/ UNCHANGED request
        \/ \E r \in Requests, a \in Addresses, p \in Passwords : CheckRequest(r, a, p)
        \/ \E r \in Requests : Send(r)
    BY NextCases DEF SendAgain, Receive, Discard, Finish, FindNone, Hash, HashRefused,
       SaveRefused,
       SaveConflicts, Fail, Save, CommitUnknown, vars
  <2> QED BY <2>1, <2>2, <2>3 DEF Accepted
<1> QED BY <1>1, RequestsKept, AddressKept

\* Every step is one of the directory's, or leaves what it shows alone.
LEMMA DirectoryStep ==
    ASSUME TypeOK, WorkersHoldCommands, AnnouncedOnce, [Next]_vars
    PROVE  Directory!Next \/ UNCHANGED <<Mail, users, events, settled>>
<1>1. ASSUME NEW q \in Requests, SaveCommand(q)
      PROVE  Directory!Next
  <2>1. /\ request[q].pc = "checked" /\ request' = [request EXCEPT ![q].pc = "accepted"]
        /\ UNCHANGED <<users, events, settled>>
    BY <1>1 DEF SaveCommand
  <2>2. EmailOf(q) \in Emails
    BY <2>1 DEF WorkersHoldCommands
  <2>3. Mail[q] = None
    BY <2>1 DEF Mail, Accepted
  <2>4. Mail' = [Mail EXCEPT ![q] = EmailOf(q)]
    <3>1. ASSUME NEW r \in Requests, r # q
          PROVE  request'[r] = request[r]
      BY <2>1, <3>1, Types
    <3>2. request'[q].pc = "accepted" /\ request'[q].address = request[q].address
      BY <2>1, Types DEF RequestRecord
    <3>3. \A r \in Requests : Mail'[r] = IF r = q THEN EmailOf(q) ELSE Mail[r]
      BY <3>1, <3>2 DEF Mail, Accepted, EmailOf
    <3> QED BY <3>3 DEF Mail
  <2>5. Directory!Accept(q, EmailOf(q))
    BY <2>1, <2>3, <2>4 DEF Directory!Accept, Mail
  <2> QED BY <2>2, <2>5 DEF Directory!Next
<1>2. ASSUME NEW w \in Workers, Save(w) \/ CommitUnknown(w), UNCHANGED settled, Mail' = Mail
      PROVE  Directory!Next
  <2> DEFINE q == Cmd(w)
  <2>1. /\ q \in Requests /\ Accepted(q) /\ EmailOf(q) \in Emails
        /\ users[EmailOf(q)] = None
        /\ users' = [users EXCEPT ![EmailOf(q)] = q]
        /\ events' = [events EXCEPT ![EmailOf(q)] = @ + 1]
    BY <1>2, Inserted
  <2>2. events[EmailOf(q)] = 0
    BY <2>1 DEF AnnouncedOnce, Exists
  <2>3. events' = [events EXCEPT ![EmailOf(q)] = 1]
    BY <2>1, <2>2, Types
  <2>4. Mail[q] = EmailOf(q)
    BY <2>1 DEF Mail
  <2>5. Directory!Create(q, EmailOf(q))
    BY <1>2, <2>1, <2>3, <2>4 DEF Directory!Create, Mail
  <2> QED BY <2>1, <2>5 DEF Directory!Next
<1>3. ASSUME NEW w \in Workers, Discard(w) \/ Finish(w), Mail' = Mail
      PROVE  Directory!Next
  <2> DEFINE q == Cmd(w)
  <2>1. /\ ~At(w, "idle") /\ settled' = settled \cup {q} /\ UNCHANGED <<users, events>>
    BY <1>3 DEF Discard, Finish, Ack, At
  <2>2. q \in Requests /\ Accepted(q) /\ EmailOf(q) \in Emails
    BY <2>1, Busy
  <2>3. users[EmailOf(q)] # None
    BY <1>3, <2>2 DEF Discard, Finish, WorkersHoldCommands, Exists
  <2>4. Mail[q] = EmailOf(q)
    BY <2>2 DEF Mail
  <2>5. Directory!Settle(q, EmailOf(q))
    BY <1>3, <2>1, <2>3, <2>4 DEF Directory!Settle, Mail
  <2> QED BY <2>2, <2>5 DEF Directory!Next
<1>4. CASE ~ \E q \in Requests : SaveCommand(q)
  <2>1. Mail' = Mail
    BY <1>4, MailKept
  <2>2. \/ UNCHANGED <<users, events, settled>>
        \/ \E w \in Workers : (Save(w) \/ CommitUnknown(w)) /\ UNCHANGED settled
        \/ \E w \in Workers : Discard(w) \/ Finish(w)
    BY <1>4, NextCases
    DEF CheckRequest, Send, SendAgain, Receive, FindNone, Hash, HashRefused, SaveRefused,
        SaveConflicts,
        Fail, Save, CommitUnknown, Nack, vars
  <2> QED BY <1>2, <1>3, <2>1, <2>2
<1> QED BY <1>1, <1>4

\* Registration implements UserDirectory: the first command to reach Save owns
\* the address for good, and is the only one announced (Save, 23505, HandleCommand).
THEOREM RegistrationImplementsDirectory == Spec => ImplementsDirectory
<1>1. Init => Directory!Init
  BY DEF Init, Directory!Init, Accepted, NewRequest
<1>2. IInv /\ [Next]_vars => [Directory!Next]_(Directory!vars)
  BY DirectoryStep DEF IInv, Directory!vars, Mail
<1> QED BY <1>1, <1>2, Invariance, PTL DEF Spec, ImplementsDirectory, Directory!Spec
=============================================================================
