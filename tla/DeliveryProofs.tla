--------------------------- MODULE DeliveryProofs ---------------------------
(***************************************************************************)
(* For every set of rows, processes and bindings, and every batch limit,   *)
(* the pipeline keeps its invariants and implements DeliveryContract.      *)
(***************************************************************************)
EXTENDS Delivery, TLAPS

USE DeliveryAssumption DEF Procs

IInv == TypeOK /\ Bookkeeping /\ MarkedIsAccounted /\ OnlyStoredTravel

\* The operations on message counts, and on the fault bound, are typed.
LEMMA SomeMore ==
    ASSUME NEW f \in [Rows -> Nat], NEW r \in Rows, NEW k \in Nat
    PROVE  [f EXCEPT ![r] = @ + k] \in [Rows -> Nat]
OBVIOUS

LEMMA FaultTyped ==
    ASSUME faults \in 0..MaxFaults, Fault
    PROVE  faults' \in 0..MaxFaults
BY DEF Fault

\* Every variable keeps its type.
LEMMA TypeStep == TypeOK /\ Bookkeeping /\ [Next]_vars => TypeOK'
<1> SUFFICES ASSUME TypeOK, Bookkeeping, [Next]_vars PROVE TypeOK'
  OBVIOUS
<1> USE DEF outboxVars, relayVars, consumerVars
<1>a. NoCopies \in [Rows -> Nat]
  BY DEF NoCopies
<1>b. /\ wire \in [Procs -> [Rows -> Nat]]
      /\ queue \in [Rows -> Nat]
      /\ buffer \in [Workers -> [Rows -> Nat]]
      /\ faults \in 0..MaxFaults
      /\ lost \subseteq Rows
  BY DEF TypeOK
<1>1. ASSUME NEW r \in Rows, NEW t \in EventTypes, Insert(r, t) PROVE TypeOK'
  BY <1>1 DEF TypeOK, Insert
<1>2. ASSUME NEW p \in Procs, Poll(p) PROVE TypeOK'
  BY <1>2 DEF TypeOK, Poll, Oldest, Unpublished, Stored
<1>3. ASSUME NEW p \in Procs, NEW r \in Rows, PublishOk(p, r) PROVE TypeOK'
  <2>1. wire' \in [Procs -> [Rows -> Nat]]
    BY <1>3, <1>b DEF PublishOk
  <2> QED BY <1>3, <2>1 DEF TypeOK, PublishOk, NextRow
<1>4. ASSUME NEW p \in Procs, NEW r \in Rows, PublishErr(p, r) PROVE TypeOK'
  BY <1>4 DEF TypeOK, PublishErr, NextRow
<1>5. ASSUME NEW p \in Procs, CutShort(p) PROVE TypeOK'
  BY <1>5 DEF TypeOK, CutShort
<1>6. ASSUME NEW p \in Procs, Mark(p) PROVE TypeOK'
  BY <1>6 DEF TypeOK, Mark, BatchDone
<1>7. ASSUME NEW p \in Procs, MarkFails(p) PROVE TypeOK'
  BY <1>7 DEF TypeOK, MarkFails, BatchDone, Fault
<1>8. ASSUME NEW p \in Procs, RelayStops(p) PROVE TypeOK'
  BY <1>8 DEF TypeOK, RelayStops
<1>9. ASSUME NEW p \in Procs, NEW r \in Rows, Route(p, r) PROVE TypeOK'
  <2>1. wire' \in [Procs -> [Rows -> Nat]]
    BY <1>9, <1>b DEF Route
  <2>2. queue' \in [Rows -> Nat] /\ lost' \subseteq Rows
    <3>1. CASE Routed(eventType[r])
      <4>1. queue' = [queue EXCEPT ![r] = @ + 1] /\ lost' = lost
        BY <1>9, <3>1 DEF Route
      <4> QED BY <4>1, <1>b, SomeMore
    <3>2. CASE ~Routed(eventType[r]) BY <1>9, <1>b, <3>2 DEF Route
    <3> QED BY <3>1, <3>2
  <2>3. UNCHANGED <<outboxVars, relayVars, open, ctxDone, consumerVars, done, faults>>
    BY <1>9 DEF Route
  <2> QED BY <2>1, <2>2, <2>3 DEF TypeOK
<1>10. ASSUME NEW w \in Workers, NEW r \in Rows, Push(w, r) PROVE TypeOK'
  <2>1. buffer' \in [Workers -> [Rows -> Nat]]
    BY <1>10, <1>b DEF Push
  <2> QED BY <1>10, <2>1 DEF TypeOK, Push
<1>11. ASSUME NEW w \in Workers, NEW r \in Rows, Take(w, r) PROVE TypeOK'
  <2>1. buffer' \in [Workers -> [Rows -> Nat]]
    BY <1>11, <1>b DEF Take
  <2> QED BY <1>11, <2>1 DEF TypeOK, Take
<1>12. ASSUME NEW w \in Workers, HandlerOk(w) PROVE TypeOK'
  BY <1>12 DEF TypeOK, HandlerOk, HandlerReturns, Bookkeeping
<1>13. ASSUME NEW w \in Workers, HandlerErr(w) PROVE TypeOK'
  <2>1. handling[w] \in Rows
    BY <1>13 DEF TypeOK, HandlerErr, HandlerReturns, Bookkeeping
  <2>2. queue' \in [Rows -> Nat]
    <3>1. queue' = [queue EXCEPT ![handling[w]] = @ + (IF linked[w] THEN 1 ELSE 0)]
      BY <1>13 DEF HandlerErr
    <3> QED BY <3>1, <1>b, <2>1, SomeMore
  <2>3. faults' \in 0..MaxFaults
    BY <1>13, <1>b, FaultTyped DEF HandlerErr
  <2> QED BY <1>13, <2>2, <2>3 DEF TypeOK, HandlerErr, HandlerReturns
<1>14. ASSUME NEW w \in Workers, ConsumerStops(w) PROVE TypeOK'
  BY <1>14 DEF TypeOK, ConsumerStops
<1>15. ASSUME NEW w \in Workers, StartCtxExpires(w) PROVE TypeOK'
  BY <1>15 DEF TypeOK, StartCtxExpires
<1>16. ASSUME NEW p \in Procs, PublisherLost(p) PROVE TypeOK'
  <2>1. wire' \in [Procs -> [Rows -> Nat]]
    BY <1>16, <1>a, <1>b DEF PublisherLost
  <2>2. faults' \in 0..MaxFaults /\ lost' \subseteq Rows
    <3>1. Fault /\ lost' = lost \cup InWire(p)
      BY <1>16 DEF PublisherLost
    <3> QED BY <3>1, <1>b, FaultTyped DEF InWire
  <2> QED BY <1>16, <2>1, <2>2 DEF TypeOK, PublisherLost
<1>17. ASSUME NEW w \in Workers, ConsumerLost(w) PROVE TypeOK'
  <2>1. queue' \in [Rows -> Nat]
    BY <1>17, <1>b DEF ConsumerLost, Requeue
  <2>2. buffer' \in [Workers -> [Rows -> Nat]] /\ faults' \in 0..MaxFaults
    BY <1>17, <1>a, <1>b DEF ConsumerLost, Fault
  <2> QED BY <1>17, <2>1, <2>2 DEF TypeOK, ConsumerLost
<1>18. ASSUME NEW p \in Procs, Crash(p) PROVE TypeOK'
  <2>1. queue' \in [Rows -> Nat]
    <3>1. CASE p \in Workers BY <1>18, <1>b, <3>1 DEF Crash, Requeue
    <3>2. CASE p \notin Workers BY <1>18, <1>b, <3>2 DEF Crash
    <3> QED BY <3>1, <3>2
  <2>2. wire' \in [Procs -> [Rows -> Nat]]
    BY <1>18, <1>a, <1>b DEF Crash
  <2>3. faults' \in 0..MaxFaults /\ lost' \subseteq Rows
    <3>1. Fault /\ lost' = lost \cup InWire(p)
      BY <1>18 DEF Crash
    <3> QED BY <3>1, <1>b, FaultTyped DEF InWire
  <2>4. /\ consumer' \in [Workers -> {"waiting", "handling", "stopped", "down"}]
        /\ linked' \in [Workers -> BOOLEAN]
        /\ buffer' \in [Workers -> [Rows -> Nat]]
        /\ handling' \in [Workers -> Rows \cup {None}]
    <3>1. CASE p \in Workers
      <4>1. /\ consumer' = [consumer EXCEPT ![p] = "down"]
            /\ linked' = [linked EXCEPT ![p] = FALSE]
            /\ buffer' = [buffer EXCEPT ![p] = NoCopies]
            /\ handling' = [handling EXCEPT ![p] = None]
        BY <1>18, <3>1 DEF Crash
      <4> QED BY <4>1, <1>a, <3>1 DEF TypeOK
    <3>2. CASE p \notin Workers BY <1>18, <3>2 DEF TypeOK, Crash
    <3> QED BY <3>1, <3>2
  <2> QED BY <1>18, <2>1, <2>2, <2>3, <2>4 DEF TypeOK, Crash
<1>19. ASSUME NEW p \in Procs, Restart(p) PROVE TypeOK'
  BY <1>19 DEF TypeOK, Restart
<1>20. CASE UNCHANGED vars
  BY <1>20 DEF TypeOK, vars
<1> QED
  BY <1>1, <1>2, <1>3, <1>4, <1>5, <1>6, <1>7, <1>8, <1>9, <1>10, <1>11, <1>12,
     <1>13, <1>14, <1>15, <1>16, <1>17, <1>18, <1>19, <1>20
  DEF Next, RelayStep, BrokerStep, ConsumerStep

-----------------------------------------------------------------------------
(* Where the messages of a row x are after a step. *)

LEMMA Counts ==
    ASSUME TypeOK
    PROVE  /\ wire \in [Procs -> [Rows -> Nat]]
           /\ queue \in [Rows -> Nat]
           /\ buffer \in [Workers -> [Rows -> Nat]]
           /\ linked \in [Workers -> BOOLEAN]
           /\ handling \in [Workers -> Rows \cup {None}]
           /\ None \notin Rows
BY DEF TypeOK

LEMMA NothingMoves ==
    ASSUME UNCHANGED <<wire, queue, buffer, linked, handling>>
    PROVE  /\ Transit' = Transit
           /\ \A x \in Rows : AtBroker(x)' = AtBroker(x)
BY DEF Transit, InTransit, OnWire, AtBroker, Held

LEMMA WireSame ==
    ASSUME UNCHANGED wire, NEW x \in Rows
    PROVE  OnWire(x)' = OnWire(x)
BY DEF OnWire

LEMMA BrokerSame ==
    ASSUME UNCHANGED <<queue, buffer, linked, handling>>, NEW x \in Rows
    PROVE  AtBroker(x)' = AtBroker(x)
BY DEF AtBroker, Held

\* A successful Publish puts a message of its row on the wire.
LEMMA PublishOkMoves ==
    ASSUME TypeOK, NEW p \in Procs, NEW r \in Rows, PublishOk(p, r), NEW x \in Rows
    PROVE  OnWire(x)' <=> OnWire(x) \/ x = r
<1>1. wire' = [wire EXCEPT ![p] = [wire[p] EXCEPT ![r] = @ + 1]]
  BY DEF PublishOk
<1>2. \A q \in Procs : wire'[q][x] = IF q = p /\ x = r THEN wire[q][x] + 1 ELSE wire[q][x]
  BY <1>1, Counts
<1> QED BY <1>2, Counts DEF OnWire

\* Routing takes one message off the wire; the queue gets it, or nobody.
LEMMA RouteMoves ==
    ASSUME TypeOK, NEW p \in Procs, NEW r \in Rows, Route(p, r), NEW x \in Rows
    PROVE  /\ OnWire(r)
           /\ OnWire(x)' => OnWire(x)
           /\ x # r => OnWire(x)' = OnWire(x)
           /\ AtBroker(x)' <=> AtBroker(x) \/ (x = r /\ Routed(eventType[r]))
<1>1. wire' = [wire EXCEPT ![p] = [wire[p] EXCEPT ![r] = @ - 1]] /\ wire[p][r] > 0
  BY DEF Route
<1>2. \A q \in Procs : wire'[q][x] = IF q = p /\ x = r THEN wire[q][x] - 1 ELSE wire[q][x]
  BY <1>1, Counts
<1>3. OnWire(r) /\ (OnWire(x)' => OnWire(x)) /\ (x # r => OnWire(x)' = OnWire(x))
  BY <1>1, <1>2, Counts DEF OnWire
<1>4. UNCHANGED <<buffer, linked, handling>>
  BY DEF Route, consumerVars
<1>5. CASE Routed(eventType[r])
  <2>1. queue' = [queue EXCEPT ![r] = @ + 1]
    BY <1>5 DEF Route
  <2>2. queue'[x] = IF x = r THEN queue[x] + 1 ELSE queue[x]
    BY <2>1, Counts
  <2> QED BY <2>2, <1>3, <1>4, <1>5, Counts DEF AtBroker, Held
<1>6. CASE ~Routed(eventType[r])
  <2>1. queue' = queue
    BY <1>6 DEF Route
  <2> QED BY <2>1, <1>3, <1>4, <1>6, BrokerSame
<1> QED BY <1>5, <1>6

\* Pushing and taking a delivery move it within the broker's care.
LEMMA PushKeeps ==
    ASSUME TypeOK, NEW w \in Workers, NEW r \in Rows, Push(w, r), NEW x \in Rows
    PROVE  AtBroker(x)' = AtBroker(x)
<1>1. /\ queue[r] > 0
      /\ queue' = [queue EXCEPT ![r] = @ - 1]
      /\ buffer' = [buffer EXCEPT ![w] = [buffer[w] EXCEPT ![r] = @ + 1]]
      /\ UNCHANGED <<linked, handling>>
  BY DEF Push
<1>2. queue'[x] = IF x = r THEN queue[x] - 1 ELSE queue[x]
  BY <1>1, Counts
<1>3. \A v \in Workers :
        buffer'[v][x] = IF v = w /\ x = r THEN buffer[v][x] + 1 ELSE buffer[v][x]
  BY <1>1, Counts
<1>4. CASE x = r
  <2>1. AtBroker(x)
    BY <1>1, <1>4 DEF AtBroker
  <2>2. buffer'[w][x] > 0
    BY <1>3, <1>4, Counts
  <2> QED BY <2>1, <2>2 DEF AtBroker
<1>5. CASE x # r
  BY <1>1, <1>2, <1>3, <1>5 DEF AtBroker, Held
<1> QED BY <1>4, <1>5

LEMMA TakeKeeps ==
    ASSUME TypeOK, Bookkeeping, NEW w \in Workers, NEW r \in Rows, Take(w, r),
           NEW x \in Rows
    PROVE  AtBroker(x)' = AtBroker(x)
<1>1. /\ buffer[w][r] > 0
      /\ buffer' = [buffer EXCEPT ![w] = [buffer[w] EXCEPT ![r] = @ - 1]]
      /\ handling' = [handling EXCEPT ![w] = r]
      /\ UNCHANGED <<linked, queue>>
  BY DEF Take
<1>2. \A v \in Workers :
        buffer'[v][x] = IF v = w /\ x = r THEN buffer[v][x] - 1 ELSE buffer[v][x]
  BY <1>1, Counts
<1>3. linked[w]
  <2> SUFFICES ASSUME ~linked[w] PROVE FALSE
    OBVIOUS
  <2>1. buffer[w][r] = 0
    BY DEF Bookkeeping, NoCopies
  <2> QED BY <1>1, <2>1
<1>4. handling[w] = None
  BY DEF Take, Bookkeeping
<1>5. CASE x = r
  BY <1>1, <1>3, <1>5, Counts DEF AtBroker, Held
<1>6. CASE x # r
  <2>1. \A v \in Workers : Held(v, x)' = Held(v, x)
    BY <1>1, <1>4, <1>6, Counts DEF Held
  <2> QED BY <1>1, <1>2, <1>6, <2>1 DEF AtBroker
<1> QED BY <1>5, <1>6

\* Acknowledging ends the delivery at work, and no other.
LEMMA HandlerOkMoves ==
    ASSUME TypeOK, Bookkeeping, NEW w \in Workers, HandlerOk(w), NEW x \in Rows
    PROVE  /\ handling[w] \in Rows
           /\ AtBroker(x)' => AtBroker(x)
           /\ x # handling[w] => AtBroker(x)' = AtBroker(x)
<1>1. /\ handling' = [handling EXCEPT ![w] = None]
      /\ UNCHANGED <<linked, queue, buffer>>
      /\ consumer[w] = "handling"
  BY DEF HandlerOk, HandlerReturns
<1>2. handling[w] \in Rows
  BY <1>1, Counts DEF Bookkeeping
<1>3. \A v \in Workers : /\ Held(v, x)' => Held(v, x)
                         /\ x # handling[w] => Held(v, x)' = Held(v, x)
  BY <1>1, Counts DEF Held
<1> QED BY <1>1, <1>2, <1>3 DEF AtBroker

\* A rejected delivery goes back to the queue, by the nack or by the broker.
LEMMA HandlerErrKeeps ==
    ASSUME TypeOK, Bookkeeping, NEW w \in Workers, HandlerErr(w), NEW x \in Rows
    PROVE  AtBroker(x)' = AtBroker(x)
<1>1. /\ handling' = [handling EXCEPT ![w] = None]
      /\ queue' = [queue EXCEPT ![handling[w]] = @ + (IF linked[w] THEN 1 ELSE 0)]
      /\ UNCHANGED <<linked, buffer>>
      /\ consumer[w] = "handling"
  BY DEF HandlerErr, HandlerReturns
<1>2. handling[w] \in Rows
  BY <1>1, Counts DEF Bookkeeping
<1>3. queue'[x] = IF x = handling[w] /\ linked[w] THEN queue[x] + 1 ELSE queue[x]
  BY <1>1, <1>2, Counts
<1>4. \A v \in Workers :
        Held(v, x)' <=> Held(v, x) /\ ~(v = w /\ x = handling[w])
  BY <1>1, Counts DEF Held
<1>5. CASE x = handling[w] /\ linked[w]
  <2>1. AtBroker(x)
    BY <1>5 DEF AtBroker, Held
  <2>2. queue'[x] > 0
    BY <1>3, <1>5, Counts
  <2> QED BY <2>1, <2>2 DEF AtBroker
<1>6. CASE ~(x = handling[w] /\ linked[w])
  <2>1. \A v \in Workers : Held(v, x)' = Held(v, x)
    BY <1>4, <1>6 DEF Held
  <2> QED BY <1>1, <1>3, <1>6, <2>1 DEF AtBroker
<1> QED BY <1>5, <1>6

\* Requeuing what a closed channel left unacknowledged loses nothing.
LEMMA RequeueKeeps ==
    ASSUME TypeOK, NEW w \in Workers, Requeue(w), NEW x \in Rows,
           linked' = [linked EXCEPT ![w] = FALSE],
           buffer' = [buffer EXCEPT ![w] = NoCopies],
           \/ handling' = handling
           \/ handling' = [handling EXCEPT ![w] = None]
    PROVE  AtBroker(x)' = AtBroker(x)
<1>1. queue'[x] = queue[x] + buffer[w][x] + (IF Held(w, x) THEN 1 ELSE 0)
  BY DEF Requeue
<1>2. queue'[x] > 0 <=> queue[x] > 0 \/ buffer[w][x] > 0 \/ Held(w, x)
  BY <1>1, Counts
<1>3. \A v \in Workers : /\ ~Held(w, x)'
                         /\ v # w => Held(v, x)' = Held(v, x)
  BY Counts DEF Held
<1>4. \A v \in Workers : buffer'[v][x] = IF v = w THEN 0 ELSE buffer[v][x]
  BY Counts DEF NoCopies
<1> QED BY <1>2, <1>3, <1>4 DEF AtBroker

LEMMA RestartKeeps ==
    ASSUME TypeOK, Bookkeeping, NEW p \in Procs, Restart(p), NEW x \in Rows
    PROVE  AtBroker(x)' = AtBroker(x)
<1>1. UNCHANGED <<queue, buffer, handling>> /\ relay[p] = "down"
  BY DEF Restart
<1>2. CASE p \in Workers
  <2>1. linked' = [linked EXCEPT ![p] = TRUE] /\ handling[p] = None
    BY <1>1, <1>2 DEF Restart, Bookkeeping
  <2>2. \A v \in Workers : Held(v, x)' = Held(v, x)
    BY <1>1, <2>1, Counts DEF Held
  <2> QED BY <1>1, <2>2 DEF AtBroker
<1>3. CASE p \notin Workers
  BY <1>1, <1>3, BrokerSame DEF Restart
<1> QED BY <1>2, <1>3

\* A broken publisher connection drops at most what was on its wire.
LEMMA WireDropped ==
    ASSUME TypeOK, NEW p \in Procs, wire' = [wire EXCEPT ![p] = NoCopies], NEW x \in Rows
    PROVE  /\ OnWire(x)' => OnWire(x)
           /\ x \in InWire(p) => OnWire(x)
           /\ OnWire(x) => OnWire(x)' \/ x \in InWire(p)
<1>1. \A q \in Procs : wire'[q][x] = IF q = p THEN 0 ELSE wire[q][x]
  BY Counts DEF NoCopies
<1> QED BY <1>1 DEF OnWire, InWire

LEMMA CrashKeeps ==
    ASSUME TypeOK, NEW p \in Procs, Crash(p), NEW x \in Rows
    PROVE  AtBroker(x)' = AtBroker(x)
<1>1. CASE p \in Workers
  BY <1>1, RequeueKeeps DEF Crash
<1>2. CASE p \notin Workers
  BY <1>2, BrokerSame DEF Crash, consumerVars
<1> QED BY <1>1, <1>2

-----------------------------------------------------------------------------
(* Every step is a step of the contract, or invisible to it. *)

LEMMA Stutter ==
    ASSUME UNCHANGED <<eventType, published, done, lost>>, Transit' = Transit
    PROVE  [Contract!Next]_Contract!vars
BY DEF Contract!vars, Stored

LEMMA ContractStep == TypeOK /\ Bookkeeping /\ [Next]_vars => [Contract!Next]_Contract!vars
<1> SUFFICES ASSUME TypeOK, Bookkeeping, [Next]_vars
             PROVE  [Contract!Next]_Contract!vars
  OBVIOUS
<1> USE DEF outboxVars, relayVars, consumerVars
<1>1. ASSUME NEW r \in Rows, NEW t \in EventTypes, Insert(r, t) PROVE Contract!Store(r)
  <2>1. /\ \A x \in Rows : eventType'[x] = IF x = r THEN t ELSE eventType[x]
        /\ t # None
        /\ r \notin Stored
    BY <1>1 DEF Insert, TypeOK
  <2>3. Stored' = Stored \cup {r}
    BY <2>1 DEF Stored
  <2>2. Transit' = Transit
    BY <1>1, NothingMoves DEF Insert
  <2> QED BY <1>1, <2>1, <2>2, <2>3 DEF Insert, Contract!Store
<1>2. ASSUME NEW p \in Procs, NEW r \in Rows, PublishOk(p, r) PROVE Contract!Send(r)
  <2>1. r \in Stored /\ Stored' = Stored
    BY <1>2 DEF PublishOk, NextRow, Bookkeeping, Stored
  <2>2. \A x \in Rows : InTransit(x)' <=> InTransit(x) \/ x = r
    BY <1>2, PublishOkMoves, BrokerSame DEF InTransit, PublishOk
  <2>3. Transit' = Transit \cup {r}
    BY <2>2 DEF Transit
  <2> QED BY <1>2, <2>1, <2>3 DEF PublishOk, Contract!Send
<1>3. ASSUME NEW p \in Procs, Mark(p) PROVE Contract!Mark(toMark[p])
  <2>1. Transit' = Transit /\ Stored' = Stored
    BY <1>3, NothingMoves DEF Mark, BatchDone, Stored
  <2> QED BY <1>3, <2>1 DEF Mark, BatchDone, Bookkeeping, Contract!Mark
<1>4. ASSUME NEW p \in Procs, NEW r \in Rows, Route(p, r)
      PROVE  [Contract!Next]_Contract!vars
  <2>1. UNCHANGED <<eventType, published, done>> /\ Stored' = Stored
    BY <1>4 DEF Route, Stored
  <2>2. CASE Routed(eventType[r])
    <3>1. \A x \in Rows : InTransit(x)' <=> InTransit(x)
      BY <1>4, <2>2, RouteMoves DEF InTransit
    <3> QED BY <1>4, <2>1, <2>2, <3>1, Stutter DEF Transit, Route
  <2>3. CASE ~Routed(eventType[r])
    <3>1. \A x \in Rows : /\ InTransit(x)' => InTransit(x)
                          /\ x # r => InTransit(x)' = InTransit(x)
      BY <1>4, <2>3, RouteMoves DEF InTransit
    <3>2. r \in Transit /\ Transit' = Transit \ ({r} \ Transit')
      BY <1>4, <3>1, RouteMoves DEF Transit, InTransit
    <3>3. Contract!Drop({r})
      BY <1>4, <2>1, <2>3, <3>2 DEF Route, Contract!Drop
    <3> QED BY <3>3 DEF Contract!Next
  <2> QED BY <2>2, <2>3
<1>5. ASSUME NEW w \in Workers, NEW r \in Rows, Push(w, r)
      PROVE  [Contract!Next]_Contract!vars
  <2>1. \A x \in Rows : InTransit(x)' = InTransit(x)
    BY <1>5, PushKeeps, WireSame DEF InTransit, Push
  <2> QED BY <1>5, <2>1, Stutter DEF Transit, Push
<1>6. ASSUME NEW w \in Workers, NEW r \in Rows, Take(w, r)
      PROVE  [Contract!Next]_Contract!vars
  <2>1. \A x \in Rows : InTransit(x)' = InTransit(x)
    BY <1>6, TakeKeeps, WireSame DEF InTransit, Take
  <2> QED BY <1>6, <2>1, Stutter DEF Transit, Take
<1>7. ASSUME NEW w \in Workers, HandlerOk(w)
      PROVE  handling[w] \in Rows /\ Contract!Complete(handling[w])
  <2>0. handling[w] \in Rows
    BY <1>7 DEF HandlerOk, HandlerReturns, Bookkeeping, TypeOK
  <2>1. handling[w] \in Transit \cup done
    BY <2>0 DEF Bookkeeping, Transit, InTransit
  <2>2. \A x \in Rows : /\ InTransit(x)' => InTransit(x)
                        /\ x # handling[w] => InTransit(x)' = InTransit(x)
    BY <1>7, HandlerOkMoves, WireSame DEF InTransit, HandlerOk, HandlerReturns
  <2>3. Transit' \in {Transit, Transit \ {handling[w]}}
    BY <2>2 DEF Transit
  <2>4. UNCHANGED <<eventType, published, lost>> /\ Stored' = Stored
    BY <1>7 DEF HandlerOk, HandlerReturns, Stored
  <2> QED BY <1>7, <2>0, <2>1, <2>3, <2>4 DEF HandlerOk, Contract!Complete
<1>8. ASSUME NEW w \in Workers, HandlerErr(w) PROVE [Contract!Next]_Contract!vars
  <2>1. \A x \in Rows : InTransit(x)' = InTransit(x)
    BY <1>8, HandlerErrKeeps, WireSame DEF InTransit, HandlerErr, HandlerReturns
  <2> QED BY <1>8, <2>1, Stutter DEF Transit, HandlerErr, HandlerReturns
<1>9. ASSUME NEW w \in Workers, ConsumerLost(w) PROVE [Contract!Next]_Contract!vars
  <2>1. \A x \in Rows : InTransit(x)' = InTransit(x)
    BY <1>9, RequeueKeeps, WireSame DEF InTransit, ConsumerLost
  <2> QED BY <1>9, <2>1, Stutter DEF Transit, ConsumerLost
<1>10. ASSUME NEW p \in Procs, Restart(p) PROVE [Contract!Next]_Contract!vars
  <2>1. \A x \in Rows : InTransit(x)' = InTransit(x)
    BY <1>10, RestartKeeps, WireSame DEF InTransit, Restart
  <2> QED BY <1>10, <2>1, Stutter DEF Transit, Restart
<1>11. ASSUME NEW p \in Procs, PublisherLost(p) \/ Crash(p)
       PROVE  Contract!Drop(InWire(p))
  <2>1. /\ wire' = [wire EXCEPT ![p] = NoCopies]
        /\ lost' = lost \cup InWire(p)
        /\ UNCHANGED <<eventType, published, done>>
    BY <1>11 DEF PublisherLost, Crash
  <2>2. \A x \in Rows : AtBroker(x)' = AtBroker(x)
    BY <1>11, CrashKeeps, BrokerSame DEF PublisherLost
  <2>3. \A x \in Rows : /\ InTransit(x)' => InTransit(x)
                        /\ x \in InWire(p) => InTransit(x)
                        /\ InTransit(x) => InTransit(x)' \/ x \in InWire(p)
    BY <2>1, <2>2, WireDropped DEF InTransit
  <2>4. /\ InWire(p) \subseteq Transit
        /\ Transit' = Transit \ (InWire(p) \ Transit')
    BY <2>3 DEF Transit, InWire
  <2>5. Stored' = Stored
    BY <2>1 DEF Stored
  <2> QED BY <2>1, <2>4, <2>5 DEF Contract!Drop
<1>12. ASSUME NEW p \in Procs, Poll(p) \/ CutShort(p) \/ MarkFails(p) \/ RelayStops(p)
       PROVE  [Contract!Next]_Contract!vars
  BY <1>12, NothingMoves, Stutter DEF Poll, CutShort, MarkFails, BatchDone, RelayStops
<1>13. ASSUME NEW p \in Procs, NEW r \in Rows, PublishErr(p, r)
       PROVE  [Contract!Next]_Contract!vars
  BY <1>13, NothingMoves, Stutter DEF PublishErr, NextRow
<1>14. ASSUME NEW w \in Workers, ConsumerStops(w) \/ StartCtxExpires(w)
       PROVE  [Contract!Next]_Contract!vars
  BY <1>14, NothingMoves, Stutter DEF ConsumerStops, StartCtxExpires
<1>15. CASE UNCHANGED vars
  BY <1>15, NothingMoves, Stutter DEF vars
<1>16. \A p \in Procs : toMark[p] \in SUBSET Rows /\ InWire(p) \in SUBSET Rows
  BY DEF TypeOK, InWire
<1> QED
  BY <1>1, <1>2, <1>3, <1>4, <1>5, <1>6, <1>7, <1>8, <1>9, <1>10, <1>11, <1>12,
     <1>13, <1>14, <1>15, <1>16
  DEF Next, RelayStep, BrokerStep, ConsumerStep, Contract!Next

-----------------------------------------------------------------------------
(* The contract keeps its promises in every step ... *)

\* Stored rows stay stored, and what has left stays accounted for.
LEMMA ContractMonotone ==
    ASSUME [Contract!Next]_Contract!vars
    PROVE  /\ Stored \subseteq Stored'
           /\ Transit \cup done \cup lost \subseteq (Transit \cup done \cup lost)'
           /\ done \subseteq done'
BY DEF Contract!Next, Contract!vars, Contract!Store, Contract!Send, Contract!Mark,
       Contract!Complete, Contract!Drop

LEMMA ContractSafe ==
    ASSUME [Contract!Next]_Contract!vars, MarkedIsAccounted, OnlyStoredTravel
    PROVE  MarkedIsAccounted' /\ OnlyStoredTravel'
BY DEF Contract!Next, Contract!vars, Contract!Store, Contract!Send, Contract!Mark,
       Contract!Complete, Contract!Drop, MarkedIsAccounted, OnlyStoredTravel

(* ... and the pipeline keeps the books the contract needs. *)

LEMMA RelayBooks ==
    ASSUME TypeOK, Bookkeeping, [Next]_vars, NEW p \in Procs
    PROVE  (batch[p] \subseteq Stored /\ toMark[p] \subseteq Transit \cup done \cup lost)'
<1> USE DEF outboxVars, relayVars, consumerVars
<1>1. /\ Stored \subseteq Stored'
      /\ Transit \cup done \cup lost \subseteq (Transit \cup done \cup lost)'
  BY ContractStep, ContractMonotone
<1>2. batch[p] \subseteq Stored /\ toMark[p] \subseteq Transit \cup done \cup lost
  BY DEF Bookkeeping
<1>3. batch \in [Procs -> SUBSET Rows] /\ toMark \in [Procs -> SUBSET Rows]
  BY DEF TypeOK
<1>4. ASSUME batch'[p] \subseteq batch[p], toMark'[p] \subseteq toMark[p]
      PROVE  (batch[p] \subseteq Stored /\ toMark[p] \subseteq Transit \cup done \cup lost)'
  BY <1>1, <1>2, <1>4
<1>5. ASSUME NEW q \in Procs, Poll(q)
      PROVE  (batch[p] \subseteq Stored /\ toMark[p] \subseteq Transit \cup done \cup lost)'
  <2>1. batch'[p] \subseteq batch[p] \cup Stored /\ toMark'[p] \subseteq toMark[p]
    BY <1>3, <1>5 DEF Poll, Oldest, Unpublished
  <2> QED BY <1>1, <1>2, <2>1
<1>6. ASSUME NEW q \in Procs, NEW r \in Rows, PublishOk(q, r)
      PROVE  (batch[p] \subseteq Stored /\ toMark[p] \subseteq Transit \cup done \cup lost)'
  <2>1. batch'[p] \subseteq batch[p] /\ toMark'[p] \subseteq toMark[p] \cup {r}
    BY <1>3, <1>6 DEF PublishOk, NextRow
  <2>2. r \in Transit'
    BY <1>6, PublishOkMoves DEF Transit, InTransit
  <2> QED BY <1>1, <1>2, <2>1, <2>2
<1>7. ASSUME NEW q \in Procs,
             \/ CutShort(q) \/ Mark(q) \/ MarkFails(q) \/ RelayStops(q)
             \/ PublisherLost(q) \/ Crash(q) \/ Restart(q)
             \/ \E r \in Rows : PublishErr(q, r) \/ Route(q, r)
      PROVE  batch'[p] \subseteq batch[p] /\ toMark'[p] \subseteq toMark[p]
  BY <1>3, <1>7 DEF CutShort, Mark, MarkFails, BatchDone, RelayStops, PublisherLost,
     Crash, Restart, PublishErr, NextRow, Route
<1>8. ASSUME \/ \E r \in Rows, t \in EventTypes : Insert(r, t)
             \/ \E w \in Workers : \/ ConsumerStep(w) \/ StartCtxExpires(w) \/ ConsumerLost(w)
                                  \/ \E r \in Rows : Push(w, r)
             \/ UNCHANGED vars
      PROVE  batch' = batch /\ toMark' = toMark
  BY <1>8 DEF Insert, ConsumerStep, Take, HandlerOk, HandlerErr, HandlerReturns,
     ConsumerStops, StartCtxExpires, ConsumerLost, Push, vars
<1> QED
  BY <1>4, <1>5, <1>6, <1>7, <1>8 DEF Next, RelayStep, BrokerStep

\* What has reached the broker stays there until a handler completes it.
LEMMA BrokerKeeps ==
    ASSUME TypeOK, Bookkeeping, [Next]_vars, NEW x \in Rows, AtBroker(x) \/ x \in done
    PROVE  AtBroker(x)' \/ x \in done'
<1> USE DEF outboxVars, relayVars, consumerVars
<1>1. done \subseteq done'
  BY ContractStep, ContractMonotone
<1>2. ASSUME NEW w \in Workers, HandlerOk(w) PROVE AtBroker(x)' \/ x \in done'
  BY <1>1, <1>2, HandlerOkMoves DEF HandlerOk
<1>3. ASSUME NEW w \in Workers,
             \/ HandlerErr(w) \/ ConsumerLost(w)
             \/ \E r \in Rows : Push(w, r) \/ Take(w, r)
      PROVE  AtBroker(x)' = AtBroker(x)
  BY <1>3, HandlerErrKeeps, RequeueKeeps, PushKeeps, TakeKeeps DEF ConsumerLost
<1>4. ASSUME NEW p \in Procs,
             Crash(p) \/ Restart(p) \/ \E r \in Rows : Route(p, r)
      PROVE  AtBroker(x) => AtBroker(x)'
  BY <1>4, CrashKeeps, RestartKeeps, RouteMoves
<1>5. ASSUME \/ \E r \in Rows, t \in EventTypes : Insert(r, t)
             \/ \E p \in Procs : RelayStep(p) \/ PublisherLost(p)
             \/ \E w \in Workers : ConsumerStops(w) \/ StartCtxExpires(w)
             \/ UNCHANGED vars
      PROVE  AtBroker(x)' = AtBroker(x)
  <2>1. UNCHANGED <<queue, buffer, linked, handling>>
    BY <1>5 DEF Insert, RelayStep, Poll, CutShort, Mark, MarkFails, BatchDone,
       RelayStops, PublishOk, PublishErr, NextRow, PublisherLost, ConsumerStops,
       StartCtxExpires, vars
  <2> QED BY <2>1, BrokerSame
<1> QED
  BY <1>1, <1>2, <1>3, <1>4, <1>5 DEF Next, BrokerStep, ConsumerStep

LEMMA ConsumerBooks ==
    ASSUME TypeOK, Bookkeeping, [Next]_vars, NEW w \in Workers
    PROVE  /\ (handling[w] # None <=> consumer[w] = "handling")'
           /\ (~linked[w] => buffer[w] = NoCopies)'
           /\ (relay[w] = "down" => ~linked[w] /\ consumer[w] = "down")'
<1> DEFINE Books == /\ handling[w] # None <=> consumer[w] = "handling"
                    /\ ~linked[w] => buffer[w] = NoCopies
                    /\ relay[w] = "down" => ~linked[w] /\ consumer[w] = "down"
<1> USE DEF outboxVars, relayVars, consumerVars
<1>1. /\ relay \in [Procs -> {"idle", "publishing", "stopped", "down"}]
      /\ consumer \in [Workers -> {"waiting", "handling", "stopped", "down"}]
      /\ linked \in [Workers -> BOOLEAN]
      /\ buffer \in [Workers -> [Rows -> Nat]]
      /\ handling \in [Workers -> Rows \cup {None}]
      /\ None \notin Rows
  BY DEF TypeOK
<1>2. Books /\ (NoCopies' = NoCopies) /\ w \in Procs
  BY DEF Bookkeeping, NoCopies
<1>3. ASSUME NEW p \in Procs, RelayStep(p) PROVE Books'
  <2>1. UNCHANGED <<consumer, linked, buffer, handling>>
    BY <1>3 DEF RelayStep, Poll, CutShort, Mark, MarkFails, BatchDone, RelayStops,
       PublishOk, PublishErr, NextRow
  <2>2. relay[p] # "down" /\ relay' \in {relay, [relay EXCEPT ![p] = relay'[p]]}
        /\ relay'[p] # "down"
    BY <1>1, <1>3 DEF RelayStep, Poll, CutShort, Mark, MarkFails, BatchDone, RelayStops,
       PublishOk, PublishErr, NextRow
  <2> QED BY <1>1, <1>2, <2>1, <2>2
<1>4. ASSUME NEW p \in Procs, Crash(p) PROVE Books'
  <2>1. relay' = [relay EXCEPT ![p] = "down"]
    BY <1>4 DEF Crash
  <2>2. CASE p \in Workers
    <3>1. /\ consumer' = [consumer EXCEPT ![p] = "down"]
          /\ linked' = [linked EXCEPT ![p] = FALSE]
          /\ buffer' = [buffer EXCEPT ![p] = NoCopies]
          /\ handling' = [handling EXCEPT ![p] = None]
      BY <1>4, <2>2 DEF Crash
    <3> QED BY <1>1, <1>2, <2>1, <3>1
  <2>3. CASE p \notin Workers
    <3>1. UNCHANGED <<consumer, linked, buffer, handling>> /\ p # w
      BY <1>4, <2>3 DEF Crash
    <3> QED BY <1>1, <1>2, <2>1, <3>1
  <2> QED BY <2>2, <2>3
<1>5. ASSUME NEW p \in Procs, Restart(p) PROVE Books'
  <2>1. relay' = [relay EXCEPT ![p] = "idle"] /\ relay[p] = "down"
        /\ UNCHANGED <<buffer, handling>>
    BY <1>5 DEF Restart
  <2>2. CASE p \in Workers
    <3>1. /\ consumer' = [consumer EXCEPT ![p] = "waiting"]
          /\ linked' = [linked EXCEPT ![p] = TRUE]
          /\ handling[p] = None
      BY <1>5, <2>1, <2>2 DEF Restart, Bookkeeping
    <3> QED BY <1>1, <1>2, <2>1, <3>1
  <2>3. CASE p \notin Workers
    <3>1. UNCHANGED <<consumer, linked>> /\ p # w
      BY <1>5, <2>3 DEF Restart
    <3> QED BY <1>1, <1>2, <2>1, <3>1
  <2> QED BY <2>2, <2>3
<1>6. ASSUME NEW v \in Workers, NEW r \in Rows, Push(v, r) PROVE Books'
  <2>1. /\ linked[v]
        /\ buffer' = [buffer EXCEPT ![v] = [buffer[v] EXCEPT ![r] = @ + 1]]
        /\ UNCHANGED <<relay, consumer, linked, handling>>
    BY <1>6 DEF Push
  <2>2. v # w => buffer'[w] = buffer[w]
    BY <1>1, <2>1
  <2> QED BY <1>2, <2>1, <2>2
<1>7. ASSUME NEW v \in Workers, NEW r \in Rows, Take(v, r) PROVE Books'
  <2>1. /\ consumer[v] = "waiting" /\ buffer[v][r] > 0
        /\ consumer' = [consumer EXCEPT ![v] = "handling"]
        /\ handling' = [handling EXCEPT ![v] = r]
        /\ buffer' = [buffer EXCEPT ![v] = [buffer[v] EXCEPT ![r] = @ - 1]]
        /\ UNCHANGED <<relay, linked>>
    BY <1>7 DEF Take
  <2>2. linked[v]
    <3> SUFFICES ASSUME ~linked[v] PROVE FALSE
      OBVIOUS
    <3>1. buffer[v][r] = 0
      BY DEF Bookkeeping, NoCopies
    <3> QED BY <2>1, <3>1
  <2>3. v # w => buffer'[w] = buffer[w]
    BY <1>1, <2>1
  <2>4. relay[v] # "down"
    BY <2>2 DEF Bookkeeping
  <2> QED BY <1>1, <1>2, <2>1, <2>2, <2>3, <2>4
<1>8. ASSUME NEW v \in Workers, HandlerOk(v) \/ HandlerErr(v) PROVE Books'
  <2>1. /\ consumer[v] = "handling"
        /\ consumer' = [consumer EXCEPT ![v] = "waiting"]
        /\ handling' = [handling EXCEPT ![v] = None]
        /\ UNCHANGED <<relay, linked, buffer>>
    BY <1>8 DEF HandlerOk, HandlerErr, HandlerReturns
  <2>2. relay[v] # "down"
    BY <2>1 DEF Bookkeeping
  <2> QED BY <1>1, <1>2, <2>1, <2>2
<1>9. ASSUME NEW v \in Workers, ConsumerStops(v) PROVE Books'
  <2>1. /\ consumer[v] = "waiting"
        /\ consumer' = [consumer EXCEPT ![v] = "stopped"]
        /\ UNCHANGED <<relay, linked, buffer, handling>>
    BY <1>9 DEF ConsumerStops
  <2>2. relay[v] # "down"
    BY <2>1 DEF Bookkeeping
  <2> QED BY <1>1, <1>2, <2>1, <2>2
<1>10. ASSUME NEW v \in Workers, ConsumerLost(v) PROVE Books'
  <2>1. /\ linked' = [linked EXCEPT ![v] = FALSE]
        /\ buffer' = [buffer EXCEPT ![v] = NoCopies]
        /\ UNCHANGED <<relay, consumer, handling>>
    BY <1>10 DEF ConsumerLost
  <2> QED BY <1>1, <1>2, <2>1
<1>11. ASSUME \/ \E r \in Rows, t \in EventTypes : Insert(r, t)
              \/ \E p \in Procs : PublisherLost(p) \/ \E r \in Rows : Route(p, r)
              \/ \E v \in Workers : StartCtxExpires(v)
              \/ UNCHANGED vars
       PROVE  Books'
  <2>1. UNCHANGED <<relay, consumer, linked, buffer, handling>>
    BY <1>11 DEF Insert, PublisherLost, Route, StartCtxExpires, vars
  <2> QED BY <1>2, <2>1
<1> QED
  BY <1>3, <1>4, <1>5, <1>6, <1>7, <1>8, <1>9, <1>10, <1>11
  DEF Next, BrokerStep, ConsumerStep

LEMMA HandlingBooks ==
    ASSUME TypeOK, Bookkeeping, [Next]_vars, NEW w \in Workers, NEW r \in Rows,
           handling'[w] = r
    PROVE  AtBroker(r)' \/ r \in done'
<1> USE DEF outboxVars, relayVars, consumerVars
<1>1. CASE handling[w] = r
  BY <1>1, BrokerKeeps DEF Bookkeeping
<1>2. CASE handling[w] # r
  <2>1. PICK v \in Workers, x \in Rows : Take(v, x)
    <3>1. handling \in [Workers -> Rows \cup {None}] /\ None \notin Rows
      BY DEF TypeOK
    <3> SUFFICES ASSUME ~\E v \in Workers, x \in Rows : Take(v, x)
                 PROVE  handling'[w] \in {handling[w], None}
      BY <1>2, <3>1
    <3> QED BY <3>1 DEF Next, Insert, RelayStep, Poll, CutShort, Mark, MarkFails,
      BatchDone, RelayStops, PublishOk, PublishErr, NextRow, BrokerStep, Route, Push,
      ConsumerStep, HandlerOk, HandlerErr, HandlerReturns, ConsumerStops,
      StartCtxExpires, PublisherLost, ConsumerLost, Crash, Restart, vars
  <2>2. v = w /\ x = r
    BY <1>2, <2>1 DEF Take, TypeOK
  <2>3. AtBroker(r)
    BY <2>1, <2>2 DEF Take, AtBroker
  <2> QED BY <2>3, BrokerKeeps
<1> QED BY <1>1, <1>2

-----------------------------------------------------------------------------
LEMMA InitialState == Init => IInv /\ Contract!Init
<1> SUFFICES ASSUME Init PROVE IInv /\ Contract!Init
  OBVIOUS
<1>1. NoCopies \in [Rows -> Nat] /\ \A r \in Rows : NoCopies[r] = 0
  BY DEF NoCopies
<1>2. TypeOK
  <2>1. 0 \in 0..MaxFaults
    OBVIOUS
  <2>2. /\ wire \in [Procs -> [Rows -> Nat]]
        /\ queue \in [Rows -> Nat]
        /\ buffer \in [Workers -> [Rows -> Nat]]
    BY <1>1 DEF Init
  <2> QED BY <2>1, <2>2 DEF Init, TypeOK
<1>3. Stored = {}
  BY DEF Init, Stored
<1>4. Transit = {}
  <2> SUFFICES ASSUME NEW r \in Rows PROVE ~InTransit(r)
    BY DEF Transit
  <2>1. ~OnWire(r)
    BY <1>1 DEF Init, OnWire
  <2>2. \A w \in Workers : handling[w] = None /\ buffer[w] = NoCopies
    BY DEF Init
  <2>3. ~AtBroker(r)
    <3>1. queue[r] = 0
      BY <1>1 DEF Init
    <3>2. \A w \in Workers : buffer[w][r] = 0
      BY <1>1, <2>2
    <3>3. \A w \in Workers : ~Held(w, r)
      BY <2>2 DEF Held
    <3> QED BY <3>1, <3>2, <3>3 DEF AtBroker
  <2> QED BY <2>1, <2>3 DEF InTransit
<1>5. Bookkeeping
  BY <1>1 DEF Init, Bookkeeping
<1> QED
  BY <1>2, <1>3, <1>4, <1>5
  DEF Init, IInv, MarkedIsAccounted, OnlyStoredTravel, Contract!Init

LEMMA Step == IInv /\ [Next]_vars => IInv' /\ [Contract!Next]_Contract!vars
<1> SUFFICES ASSUME IInv, [Next]_vars
             PROVE  IInv' /\ [Contract!Next]_Contract!vars
  OBVIOUS
<1>1. TypeOK'
  BY TypeStep DEF IInv
<1>2. [Contract!Next]_Contract!vars
  BY ContractStep DEF IInv
<1>3. MarkedIsAccounted' /\ OnlyStoredTravel'
  BY <1>2, ContractSafe DEF IInv
<1>4. Bookkeeping'
  BY RelayBooks, ConsumerBooks, HandlingBooks DEF IInv, Bookkeeping
<1> QED BY <1>1, <1>2, <1>3, <1>4 DEF IInv

\* IInv is an inductive invariant of the pipeline.
THEOREM Invariance == Spec => []IInv
<1>1. Init => IInv
  BY InitialState
<1>2. IInv /\ [Next]_vars => IInv'
  BY Step
<1> QED BY <1>1, <1>2, PTL DEF Spec

\* Every variable of the pipeline keeps its type, message counts never go
\* negative and the fault bound is respected.
THEOREM TypeCorrect == Spec => []TypeOK
<1>1. IInv => TypeOK
  BY DEF IInv
<1> QED BY <1>1, Invariance, PTL

\* A row whose publication is recorded is under way, handled, or had a
\* message dropped: processOutbox never marks what it has not published.
THEOREM AllMarkedAccounted == Spec => []MarkedIsAccounted
<1>1. IInv => MarkedIsAccounted
  BY DEF IInv
<1> QED BY <1>1, Invariance, PTL

\* Nothing travels, is handled or is dropped that was not committed.
THEOREM AllTravellersStored == Spec => []OnlyStoredTravel
<1>1. IInv => OnlyStoredTravel
  BY DEF IInv
<1> QED BY <1>1, Invariance, PTL

\* The relay, broker and consumer together implement DeliveryContract.
THEOREM PipelineKeepsContract == Spec => KeepsContract
<1>1. Init => Contract!Init
  BY InitialState
<1>2. IInv /\ [Next]_vars => [Contract!Next]_Contract!vars
  BY Step
<1> QED BY <1>1, <1>2, Invariance, PTL DEF Spec, KeepsContract, Contract!Spec

-----------------------------------------------------------------------------
(* Which rows arrive at all. *)

\* A row comes to the broker's queue or a handler only by being routed.
LEMMA ArrivalStep ==
    ASSUME TypeOK, Bookkeeping, [Next]_vars, NEW x \in Rows, AtBroker(x)' \/ x \in done'
    PROVE  AtBroker(x) \/ x \in done \/ (Routed(eventType[x]) /\ eventType' = eventType)
<1> USE DEF outboxVars, relayVars, consumerVars
<1>1. ASSUME NEW w \in Workers, HandlerOk(w) PROVE AtBroker(x) \/ x \in done
  <2>1. done' = done \cup {handling[w]}
    BY <1>1 DEF HandlerOk
  <2>2. x = handling[w] => AtBroker(x) \/ x \in done
    BY DEF Bookkeeping
  <2>3. AtBroker(x)' => AtBroker(x)
    BY <1>1, HandlerOkMoves
  <2> QED BY <2>1, <2>2, <2>3
<1>2. ASSUME NEW w \in Workers,
             \/ HandlerErr(w) \/ ConsumerLost(w)
             \/ \E r \in Rows : Push(w, r) \/ Take(w, r)
      PROVE  AtBroker(x)' = AtBroker(x) /\ done' = done
  BY <1>2, HandlerErrKeeps, RequeueKeeps, PushKeeps, TakeKeeps
     DEF ConsumerLost, HandlerErr, HandlerReturns, Push, Take
<1>3. ASSUME NEW p \in Procs, Crash(p) \/ Restart(p)
      PROVE  AtBroker(x)' = AtBroker(x) /\ done' = done
  BY <1>3, CrashKeeps, RestartKeeps DEF Crash, Restart
<1>4. ASSUME NEW p \in Procs, NEW r \in Rows, Route(p, r)
      PROVE  AtBroker(x) \/ x \in done \/ (Routed(eventType[x]) /\ eventType' = eventType)
  <2>1. done' = done /\ eventType' = eventType
    BY <1>4 DEF Route
  <2>2. AtBroker(x)' => AtBroker(x) \/ (x = r /\ Routed(eventType[r]))
    BY <1>4, RouteMoves
  <2> QED BY <2>1, <2>2
<1>5. ASSUME \/ \E r \in Rows, t \in EventTypes : Insert(r, t)
             \/ \E p \in Procs : RelayStep(p) \/ PublisherLost(p)
             \/ \E w \in Workers : ConsumerStops(w) \/ StartCtxExpires(w)
             \/ UNCHANGED vars
      PROVE  AtBroker(x)' = AtBroker(x) /\ done' = done
  <2>1. UNCHANGED <<queue, buffer, linked, handling, done>>
    BY <1>5 DEF Insert, RelayStep, Poll, CutShort, Mark, MarkFails, BatchDone,
       RelayStops, PublishOk, PublishErr, NextRow, PublisherLost, ConsumerStops,
       StartCtxExpires, vars
  <2> QED BY <2>1, BrokerSame
<1> QED
  BY <1>1, <1>2, <1>3, <1>4, <1>5 DEF Next, BrokerStep, ConsumerStep

\* The type of a committed row never changes.
LEMMA StoredKeepType ==
    ASSUME TypeOK, [Next]_vars, NEW x \in Stored
    PROVE  eventType'[x] = eventType[x]
<1> USE DEF outboxVars, relayVars, consumerVars
<1>1. ASSUME NEW r \in Rows, NEW t \in EventTypes, Insert(r, t)
      PROVE  eventType'[x] = eventType[x]
  BY <1>1 DEF Insert, TypeOK, Stored
<1>2. CASE eventType' = eventType
  BY <1>2
<1>3. ASSUME ~\E r \in Rows, t \in EventTypes : Insert(r, t)
      PROVE  eventType' = eventType
  BY <1>3 DEF Next, RelayStep, BrokerStep, ConsumerStep, Poll, CutShort, Mark, MarkFails,
     BatchDone, RelayStops, PublishOk, PublishErr, NextRow, PublisherLost, Route, Push,
     Take, HandlerOk, HandlerErr, HandlerReturns, ConsumerStops, StartCtxExpires,
     ConsumerLost, Crash, Restart, vars
<1> QED BY <1>1, <1>2, <1>3

\* Only what a binding routes reaches the queue or a handler, whatever is
\* requeued, redelivered or crashes (Publish is not mandatory; Route is the only
\* way in).
THEOREM ArrivalsAreRouted == Spec => []OnlyRoutedArrive
<1>1. Init => OnlyRoutedArrive
  <2> SUFFICES ASSUME Init, NEW r \in Rows PROVE ~AtBroker(r) /\ r \notin done
    BY DEF OnlyRoutedArrive
  <2>1. Transit = {}
    BY InitialState DEF Contract!Init
  <2>2. done = {}
    BY DEF Init
  <2> QED BY <2>1, <2>2 DEF Transit, InTransit
<1>2. IInv /\ OnlyRoutedArrive /\ [Next]_vars => OnlyRoutedArrive'
  <2> SUFFICES ASSUME IInv, OnlyRoutedArrive, [Next]_vars, NEW x \in Rows,
                      AtBroker(x)' \/ x \in done', NEW t, t = eventType'[x]
               PROVE  Routed(t)
    BY DEF OnlyRoutedArrive, Routed
  <2>1. CASE AtBroker(x) \/ x \in done
    <3>1. Routed(eventType[x])
      BY <2>1 DEF OnlyRoutedArrive
    <3>2. x \in Stored
      BY <2>1 DEF IInv, OnlyStoredTravel, Transit, InTransit
    <3> QED BY <3>1, <3>2, StoredKeepType DEF IInv
  <2>2. CASE Routed(eventType[x]) /\ eventType' = eventType
    BY <2>2
  <2> QED BY <2>1, <2>2, ArrivalStep DEF IInv
<1> QED BY <1>1, <1>2, Invariance, PTL DEF Spec

\* The worker's own binding does not route what the relay publishes; nor do
\* others on other exchanges.
LEMMA UnboundRoutesNothing ==
    ASSUME \A b \in ExtraBindings : b.exchange # RelayExchange, NEW t
    PROVE  ~Routed(t)
<1>1. WorkerBinding.exchange # RelayExchange
  BY DEF WorkerBinding, RelayExchange
<1> QED BY <1>1 DEF Routed

\* In the topology of the repository the queue of the worker stays empty for ever
\* (worker binding and relay exchange), for any rows, processes and faults: what
\* the run delivery_as_wired shows on two rows.
THEOREM NothingArrives == Spec => []NothingArrivesAsWired
<1>1. IInv /\ OnlyRoutedArrive => NothingArrivesAsWired
  <2> SUFFICES ASSUME IInv, OnlyRoutedArrive,
                      \A b \in ExtraBindings : b.exchange # RelayExchange
               PROVE  done = {} /\ published \subseteq {r \in Rows : OnWire(r)} \cup lost
    BY DEF NothingArrivesAsWired
  <2>1. \A r \in Rows : ~AtBroker(r) /\ r \notin done
    BY UnboundRoutesNothing DEF OnlyRoutedArrive
  <2>2. done = {}
    BY <2>1 DEF IInv, TypeOK
  <2>3. Transit \subseteq {r \in Rows : OnWire(r)}
    BY <2>1 DEF Transit, InTransit
  <2> QED BY <2>2, <2>3 DEF IInv, MarkedIsAccounted
<1> QED BY <1>1, Invariance, ArrivalsAreRouted, PTL

\* A pattern of two words does not match the three words of a command's key.
LEMMA CommandKeys ==
    ASSUME NEW t \in {Register, UpdateRoles}
    PROVE  Len(RelayKey(t)) = 3
<1>1. \A a, b, c : Len(<<a>> \o <<b, c>>) = 3
  <2> SUFFICES ASSUME NEW a, NEW b, NEW c PROVE Len(<<a>> \o <<b, c>>) = 3
    OBVIOUS
  <2>1. <<a>> \in Seq({a, b, c}) /\ Len(<<a>>) = 1
    OBVIOUS
  <2>2. <<b, c>> \in Seq({a, b, c}) /\ Len(<<b, c>>) = 2
    OBVIOUS
  <2> QED BY <2>1, <2>2
<1>2. \E b, c : t = <<b, c>>
  BY DEF Register, UpdateRoles
<1> QED BY <1>1, <1>2 DEF RelayKey

\* With the worker's own pattern on the right exchange, events arrive and commands
\* still do not (RelayKey prefixes user. to user.register).
THEOREM CommandsAreStranded == Spec => []CommandsNeverArrive
<1>1. IInv /\ OnlyRoutedArrive => CommandsNeverArrive
  <2> SUFFICES ASSUME IInv, OnlyRoutedArrive, NEW r \in done,
                      \A b \in ExtraBindings : b.exchange = RelayExchange => Len(b.pattern) = 2,
                      eventType[r] \in {Register, UpdateRoles}
               PROVE  FALSE
    BY DEF CommandsNeverArrive
  <2>1. PICK b \in {WorkerBinding} \cup ExtraBindings :
            b.exchange = RelayExchange /\ TopicMatch(b.pattern, RelayKey(eventType[r]))
    BY DEF IInv, TypeOK, OnlyRoutedArrive, Routed
  <2>2. Len(b.pattern) = Len(RelayKey(eventType[r]))
    BY <2>1 DEF TopicMatch
  <2>3. b \in ExtraBindings
    BY <2>1 DEF WorkerBinding, RelayExchange
  <2> QED BY <2>1, <2>2, <2>3, CommandKeys
<1> QED BY <1>1, Invariance, ArrivalsAreRouted, PTL

-----------------------------------------------------------------------------
(* Duplicates of a row. *)

\* A step sends a row only from a batch, and fills a batch only with rows that are
\* not marked.
LEMMA SendStep ==
    ASSUME TypeOK, [Next]_vars, NEW r \in published, NEW p \in Procs, r \notin batch[p]
    PROVE  r \notin batch'[p] /\ wire'[p][r] <= wire[p][r]
<1> USE DEF outboxVars, relayVars, consumerVars
<1>0. /\ batch \in [Procs -> SUBSET Rows] /\ wire \in [Procs -> [Rows -> Nat]]
      /\ r \in Rows
  BY DEF TypeOK
<1>1. ASSUME NEW q \in Procs, Poll(q)
      PROVE  r \notin batch'[p] /\ wire' = wire
  <2>1. batch' = [batch EXCEPT ![q] = Oldest(Unpublished)] /\ wire' = wire
    BY <1>1 DEF Poll
  <2>2. r \notin Oldest(Unpublished)
    BY DEF Oldest, Unpublished
  <2> QED BY <1>0, <2>1, <2>2
<1>2. ASSUME NEW q \in Procs, NEW s \in Rows, PublishOk(q, s)
      PROVE  r \notin batch'[p] /\ wire'[p][r] = wire[p][r]
  <2>1. /\ s \in batch[q] /\ batch' = [batch EXCEPT ![q] = @ \ {s}]
        /\ wire' = [wire EXCEPT ![q] = [wire[q] EXCEPT ![s] = @ + 1]]
    BY <1>2 DEF PublishOk, NextRow
  <2>2. ~(q = p /\ s = r)
    BY <2>1
  <2> QED BY <1>0, <2>1, <2>2
<1>3. ASSUME NEW q \in Procs, NEW s \in Rows, Route(q, s)
      PROVE  batch' = batch /\ wire'[p][r] <= wire[p][r]
  <2>1. batch' = batch /\ wire[q][s] > 0
        /\ wire' = [wire EXCEPT ![q] = [wire[q] EXCEPT ![s] = @ - 1]]
    BY <1>3 DEF Route
  <2> QED BY <1>0, <2>1
<1>4. ASSUME NEW q \in Procs, PublisherLost(q) \/ Crash(q)
      PROVE  r \notin batch'[p] /\ wire'[p][r] <= wire[p][r]
  <2>1. /\ batch' = batch \/ batch' = [batch EXCEPT ![q] = {}]
        /\ wire' = [wire EXCEPT ![q] = NoCopies]
    BY <1>4 DEF PublisherLost, Crash
  <2>2. wire'[p][r] = IF p = q THEN 0 ELSE wire[p][r]
    BY <1>0, <2>1 DEF NoCopies
  <2> QED BY <1>0, <2>1, <2>2
<1>5. ASSUME NEW q \in Procs,
             \/ CutShort(q) \/ Mark(q) \/ MarkFails(q) \/ RelayStops(q) \/ Restart(q)
             \/ \E s \in Rows : PublishErr(q, s)
      PROVE  r \notin batch'[p] /\ wire' = wire
  BY <1>0, <1>5 DEF CutShort, Mark, MarkFails, BatchDone, RelayStops, Restart, PublishErr,
     NextRow
<1>6. ASSUME \/ \E s \in Rows, t \in EventTypes : Insert(s, t)
             \/ \E w \in Workers : \/ ConsumerStep(w) \/ StartCtxExpires(w) \/ ConsumerLost(w)
                                  \/ \E s \in Rows : Push(w, s)
             \/ UNCHANGED vars
      PROVE  batch' = batch /\ wire' = wire
  BY <1>6 DEF Insert, ConsumerStep, Take, HandlerOk, HandlerErr, HandlerReturns,
     ConsumerStops, StartCtxExpires, ConsumerLost, Push, vars
<1>7. wire[p][r] <= wire[p][r]
  BY <1>0
<1> QED
  BY <1>1, <1>2, <1>3, <1>4, <1>5, <1>6, <1>7 DEF Next, RelayStep, BrokerStep

\* A marked row no relay has in its batch is not read or sent again
\* (processOutbox).
THEOREM MarkedRowsAreLeft == Spec => MarkedRowsRest
<1>1. IInv => TypeOK
  BY DEF IInv
<1>2. TypeOK /\ [Next]_vars =>
          [\A r \in published :
              (\A p \in Procs : r \notin batch[p]) =>
                  \A p \in Procs : r \notin batch'[p] /\ wire'[p][r] <= wire[p][r]]_vars
  BY SendStep
<1> QED BY <1>1, <1>2, Invariance, PTL DEF Spec, MarkedRowsRest
=============================================================================
