------------------------------ MODULE Delivery ------------------------------
(***************************************************************************)
(* The outbox pipeline.  A row of outbox_events is read by the relay of    *)
(* an API or of a worker process, published to RabbitMQ, marked, routed to *)
(* the worker's queue, pushed to a consumer and handled.                   *)
(*                                                                         *)
(* Messages are counted, not ordered: wire, queue and buffer say how many  *)
(* copies of a row's message are at each place.  AMQP's FIFO order plays   *)
(* no part in the properties, because a nack or a lost link reorders.      *)
(***************************************************************************)
EXTENDS Topology, FiniteSets

CONSTANTS Rows,        \* ids of outbox_events; created_at is taken to follow id
          EventTypes,  \* the event types written in this instance
          Apis,        \* api-write processes: a relay on context.Background()
          Workers,     \* worker-events processes: a relay and a consumer on
                       \* the context of fx's OnStart
          BatchLimit,  \* LIMIT of the relay's query (50 in the code)
          None,        \* no event type, no row
          MaxFaults    \* bound on crashes, lost connections, failed statements
                       \* and failed handlers

Procs == Apis \cup Workers

ASSUME DeliveryAssumption ==
    /\ Rows \subseteq Nat /\ IsFiniteSet(Rows)
    /\ EventTypes \subseteq AllEventTypes
    /\ None \notin Rows /\ None \notin AllEventTypes
    /\ Apis \cap Workers = {}
    /\ BatchLimit \in Nat \ {0}
    /\ MaxFaults \in Nat

VARIABLES
    eventType,   \* row -> its type, None before the row is committed
    published,   \* rows with published_at set
    relay,       \* process -> where its relay goroutine is
    batch,       \* process -> rows of the open result set not yet published
    toMark,      \* process -> eventsToMark
    open,        \* process -> the publisher's only channel still works
    ctxDone,     \* process -> the context given to its goroutines is cancelled
    wire,        \* process -> row -> messages written to the socket
    queue,       \* row -> messages ready in the worker's durable queue
    consumer,    \* worker -> where its consumer goroutine is
    linked,      \* worker -> the consumer's channel is open
    buffer,      \* worker -> row -> deliveries waiting in the client library
    handling,    \* worker -> row its handler is working on
    done,        \* history: rows for which a handler returned nil
    lost,        \* history: rows of which a message was dropped
    faults       \* faults so far

outboxVars   == <<eventType, published>>
relayVars    == <<relay, batch, toMark>>
consumerVars == <<consumer, linked, buffer, handling>>
vars == <<eventType, published, relay, batch, toMark, open, ctxDone, wire,
          queue, consumer, linked, buffer, handling, done, lost, faults>>

NoCopies == [r \in Rows |-> 0]

TypeOK ==
    /\ eventType \in [Rows -> EventTypes \cup {None}]
    /\ published \subseteq Rows
    /\ relay \in [Procs -> {"idle", "publishing", "stopped", "down"}]
    /\ batch \in [Procs -> SUBSET Rows]
    /\ toMark \in [Procs -> SUBSET Rows]
    /\ open \in [Procs -> BOOLEAN]
    /\ ctxDone \in [Procs -> BOOLEAN]
    /\ wire \in [Procs -> [Rows -> Nat]]
    /\ queue \in [Rows -> Nat]
    /\ consumer \in [Workers -> {"waiting", "handling", "stopped", "down"}]
    /\ linked \in [Workers -> BOOLEAN]
    /\ buffer \in [Workers -> [Rows -> Nat]]
    /\ handling \in [Workers -> Rows \cup {None}]
    /\ done \subseteq Rows
    /\ lost \subseteq Rows
    /\ faults \in 0..MaxFaults

Stored == {r \in Rows : eventType[r] # None}

\* Where a message of row r can be: on a publisher's wire, or at the broker
\* (ready, pushed to a consumer, or unacknowledged while its handler works).
OnWire(r)    == \E p \in Procs : wire[p][r] > 0
Held(w, r)   == linked[w] /\ handling[w] = r
AtBroker(r)  == queue[r] > 0 \/ \E w \in Workers : buffer[w][r] > 0 \/ Held(w, r)
InTransit(r) == OnWire(r) \/ AtBroker(r)
Transit      == {r \in Rows : InTransit(r)}

Init ==
    /\ eventType = [r \in Rows |-> None]
    /\ published = {}
    /\ relay = [p \in Procs |-> "idle"]
    /\ batch = [p \in Procs |-> {}]
    /\ toMark = [p \in Procs |-> {}]
    /\ open = [p \in Procs |-> TRUE]
    /\ ctxDone = [p \in Procs |-> FALSE]
    /\ wire = [p \in Procs |-> NoCopies]
    /\ queue = NoCopies
    /\ consumer = [w \in Workers |-> "waiting"]
    /\ linked = [w \in Workers |-> TRUE]
    /\ buffer = [w \in Workers |-> NoCopies]
    /\ handling = [w \in Workers |-> None]
    /\ done = {}
    /\ lost = {}
    /\ faults = 0

Fault == faults < MaxFaults /\ faults' = faults + 1

-----------------------------------------------------------------------------
\* A transaction that writes an outbox row commits.  Ids are drawn from a
\* sequence before the commit, so they may become visible in any order.
Insert(r, t) ==
    /\ r \notin Stored
    /\ eventType' = [eventType EXCEPT ![r] = t]
    /\ UNCHANGED <<published, relayVars, open, ctxDone, wire, queue,
                   consumerVars, done, lost, faults>>

-----------------------------------------------------------------------------
(* The relay: Start and processOutbox. *)

Unpublished == Stored \ published
Oldest(R) == {r \in R : Cardinality({s \in R : s < r}) < BatchLimit}

\* Mutated form: the whole result set is noted for marking before it is published.
PollMarksAll(p) ==
    /\ relay[p] = "idle"
    /\ ~ctxDone[p]
    /\ Unpublished # {}
    /\ relay' = [relay EXCEPT ![p] = "publishing"]
    /\ batch' = [batch EXCEPT ![p] = Oldest(Unpublished)]
    /\ toMark' = [toMark EXCEPT ![p] = Oldest(Unpublished)]
    /\ UNCHANGED <<outboxVars, open, ctxDone, wire, queue, consumerVars, done,
                   lost, faults>>

\* A tick: the query of processOutbox.  Nothing is locked, so two relays may
\* read the same rows.  With a cancelled context the query fails.
Poll(p) ==
    /\ relay[p] = "idle"
    /\ ~ctxDone[p]
    /\ Unpublished # {}
    /\ relay' = [relay EXCEPT ![p] = "publishing"]
    /\ batch' = [batch EXCEPT ![p] = Oldest(Unpublished)]
    /\ toMark' = [toMark EXCEPT ![p] = {}]
    /\ UNCHANGED <<outboxVars, open, ctxDone, wire, queue, consumerVars, done,
                   lost, faults>>

\* The next row of the result set, in created_at order.
NextRow(p, r) ==
    /\ relay[p] = "publishing"
    /\ r \in batch[p]
    /\ \A s \in batch[p] : r <= s
    /\ batch' = [batch EXCEPT ![p] = @ \ {r}]

\* Publish returns nil once the frames are written: no confirm is awaited.
PublishOk(p, r) ==
    /\ NextRow(p, r)
    /\ open[p]
    /\ wire' = [wire EXCEPT ![p][r] = @ + 1]
    /\ toMark' = [toMark EXCEPT ![p] = @ \cup {r}]
    /\ UNCHANGED <<outboxVars, relay, open, ctxDone, queue, consumerVars, done,
                   lost, faults>>

\* Mutated form: the continue after a failed Publish is forgotten.
PublishErrMarks(p, r) ==
    /\ NextRow(p, r)
    /\ ~open[p]
    /\ toMark' = [toMark EXCEPT ![p] = @ \cup {r}]
    /\ UNCHANGED <<outboxVars, relay, open, ctxDone, wire, queue, consumerVars,
                   done, lost, faults>>

\* The channel is gone and never reopened: log, continue with the next row.
PublishErr(p, r) ==
    /\ NextRow(p, r)
    /\ ~open[p]
    /\ UNCHANGED <<outboxVars, relay, toMark, open, ctxDone, wire, queue,
                   consumerVars, done, lost, faults>>

\* A cancelled context ends the result set early.
CutShort(p) ==
    /\ relay[p] = "publishing"
    /\ ctxDone[p]
    /\ batch[p] # {}
    /\ batch' = [batch EXCEPT ![p] = {}]
    /\ UNCHANGED <<outboxVars, relay, toMark, open, ctxDone, wire, queue,
                   consumerVars, done, lost, faults>>

BatchDone(p) ==
    /\ relay[p] = "publishing"
    /\ batch[p] = {}
    /\ relay' = [relay EXCEPT ![p] = "idle"]
    /\ toMark' = [toMark EXCEPT ![p] = {}]
    /\ UNCHANGED <<eventType, batch, open, ctxDone, wire, queue, consumerVars,
                   done, lost>>

\* The one UPDATE for the batch; with nothing to mark it is not executed.
Mark(p) ==
    /\ BatchDone(p)
    /\ toMark[p] = {} \/ ~ctxDone[p]
    /\ published' = published \cup toMark[p]
    /\ UNCHANGED faults

\* Mutated form: the relay goroutine returns when the UPDATE fails.
MarkFailsStops(p) ==
    /\ relay[p] = "publishing" /\ batch[p] = {} /\ toMark[p] # {}
    /\ relay' = [relay EXCEPT ![p] = "stopped"]
    /\ toMark' = [toMark EXCEPT ![p] = {}]
    /\ IF ctxDone[p] THEN UNCHANGED faults ELSE Fault
    /\ UNCHANGED <<outboxVars, batch, open, ctxDone, wire, queue, consumerVars,
                   done, lost>>

\* The UPDATE fails, always so under a cancelled context; it is only logged.
MarkFails(p) ==
    /\ BatchDone(p)
    /\ toMark[p] # {}
    /\ IF ctxDone[p] THEN UNCHANGED faults ELSE Fault
    /\ UNCHANGED published

\* select sees ctx.Done (it may also have taken ticks whose query failed).
RelayStops(p) ==
    /\ relay[p] = "idle"
    /\ ctxDone[p]
    /\ relay' = [relay EXCEPT ![p] = "stopped"]
    /\ UNCHANGED <<outboxVars, batch, toMark, open, ctxDone, wire, queue,
                   consumerVars, done, lost, faults>>

-----------------------------------------------------------------------------
(* The broker. *)

\* The broker reads a message.  mandatory is false: what no binding matches
\* is dropped without notice to the publisher.
Route(p, r) ==
    /\ wire[p][r] > 0
    /\ wire' = [wire EXCEPT ![p][r] = @ - 1]
    /\ IF Routed(eventType[r])
       THEN queue' = [queue EXCEPT ![r] = @ + 1] /\ UNCHANGED lost
       ELSE lost' = lost \cup {r} /\ UNCHANGED queue
    /\ UNCHANGED <<outboxVars, relayVars, open, ctxDone, consumerVars, done,
                   faults>>

\* Mutated form: a delivery is pushed without being taken from the ready ones.
PushTwice(w, r) ==
    /\ linked[w]
    /\ queue' = [queue EXCEPT ![r] = @ - 1]
    /\ buffer' = [buffer EXCEPT ![w][r] = @ + 1]
    /\ UNCHANGED <<outboxVars, relayVars, open, ctxDone, wire, consumer, linked,
                   handling, done, lost, faults>>

\* No prefetch limit is set: a ready message is pushed to any open consumer
\* channel, whether or not its goroutine still reads.
Push(w, r) ==
    /\ linked[w]
    /\ queue[r] > 0
    /\ queue' = [queue EXCEPT ![r] = @ - 1]
    /\ buffer' = [buffer EXCEPT ![w][r] = @ + 1]
    /\ UNCHANGED <<outboxVars, relayVars, open, ctxDone, wire, consumer, linked,
                   handling, done, lost, faults>>

-----------------------------------------------------------------------------
(* The consumer goroutine. *)

Take(w, r) ==
    /\ consumer[w] = "waiting"
    /\ buffer[w][r] > 0
    /\ buffer' = [buffer EXCEPT ![w][r] = @ - 1]
    /\ handling' = [handling EXCEPT ![w] = r]
    /\ consumer' = [consumer EXCEPT ![w] = "handling"]
    /\ UNCHANGED <<outboxVars, relayVars, open, ctxDone, wire, queue, linked,
                   done, lost, faults>>

HandlerReturns(w) ==
    /\ consumer[w] = "handling"
    /\ consumer' = [consumer EXCEPT ![w] = "waiting"]
    /\ handling' = [handling EXCEPT ![w] = None]
    /\ UNCHANGED <<outboxVars, relayVars, open, ctxDone, wire, linked, buffer,
                   lost>>

\* nil: Ack.  Without a link the ack is void, and the broker has requeued.
HandlerOk(w) ==
    /\ HandlerReturns(w)
    /\ done' = done \cup {handling[w]}
    /\ UNCHANGED <<queue, faults>>

\* Mutated form: Nack without requeue.
HandlerErrDrops(w) ==
    /\ HandlerReturns(w)
    /\ Dispatched(eventType[handling[w]])
    /\ Fault
    /\ UNCHANGED <<queue, done>>

\* Nack with requeue. An unknown routing key is never an error.
HandlerErr(w) ==
    /\ HandlerReturns(w)
    /\ Dispatched(eventType[handling[w]])
    /\ queue' = [queue EXCEPT ![handling[w]] = @ + (IF linked[w] THEN 1 ELSE 0)]
    /\ Fault
    /\ UNCHANGED done

\* select sees ctx.Done, or the delivery channel closed.  With ctx.Done the
\* subscription stays open, and with it what was pushed to it.
ConsumerStops(w) ==
    /\ consumer[w] = "waiting"
    /\ ctxDone[w] \/ ~linked[w]
    /\ consumer' = [consumer EXCEPT ![w] = "stopped"]
    /\ UNCHANGED <<outboxVars, relayVars, open, ctxDone, wire, queue, linked,
                   buffer, handling, done, lost, faults>>

-----------------------------------------------------------------------------
(* Contexts, connections, processes. *)

\* fx cancels the context of OnStart when its start timeout has passed.
StartCtxExpires(w) ==
    /\ relay[w] # "down"
    /\ ~ctxDone[w]
    /\ ctxDone' = [ctxDone EXCEPT ![w] = TRUE]
    /\ UNCHANGED <<outboxVars, relayVars, open, wire, queue, consumerVars, done,
                   lost, faults>>

InWire(p) == {r \in Rows : wire[p][r] > 0}

\* The publisher's connection breaks: what is under way may be lost, and the
\* channel is never reopened.
PublisherLost(p) ==
    /\ open[p]
    /\ open' = [open EXCEPT ![p] = FALSE]
    /\ wire' = [wire EXCEPT ![p] = NoCopies]
    /\ lost' = lost \cup InWire(p)
    /\ Fault
    /\ UNCHANGED <<outboxVars, relayVars, ctxDone, queue, consumerVars, done>>

\* The broker requeues every unacknowledged delivery of a closed channel.
Requeue(w) ==
    queue' = [r \in Rows |->
                queue[r] + buffer[w][r] + (IF Held(w, r) THEN 1 ELSE 0)]

\* The consumer's connection breaks; a handler at work keeps working.
ConsumerLost(w) ==
    /\ linked[w]
    /\ linked' = [linked EXCEPT ![w] = FALSE]
    /\ buffer' = [buffer EXCEPT ![w] = NoCopies]
    /\ Requeue(w)
    /\ Fault
    /\ UNCHANGED <<outboxVars, relayVars, open, ctxDone, wire, consumer,
                   handling, done, lost>>

\* A process dies, with all its connections and everything in its memory.
Crash(p) ==
    /\ relay[p] # "down"
    /\ relay' = [relay EXCEPT ![p] = "down"]
    /\ batch' = [batch EXCEPT ![p] = {}]
    /\ toMark' = [toMark EXCEPT ![p] = {}]
    /\ open' = [open EXCEPT ![p] = FALSE]
    /\ ctxDone' = [ctxDone EXCEPT ![p] = FALSE]
    /\ wire' = [wire EXCEPT ![p] = NoCopies]
    /\ lost' = lost \cup InWire(p)
    /\ IF p \in Workers
       THEN /\ consumer' = [consumer EXCEPT ![p] = "down"]
            /\ linked' = [linked EXCEPT ![p] = FALSE]
            /\ buffer' = [buffer EXCEPT ![p] = NoCopies]
            /\ handling' = [handling EXCEPT ![p] = None]
            /\ Requeue(p)
       ELSE UNCHANGED <<queue, consumerVars>>
    /\ Fault
    /\ UNCHANGED <<outboxVars, done>>

\* An operator starts it again (no restart policy is configured).
Restart(p) ==
    /\ relay[p] = "down"
    /\ relay' = [relay EXCEPT ![p] = "idle"]
    /\ open' = [open EXCEPT ![p] = TRUE]
    /\ IF p \in Workers
       THEN /\ consumer' = [consumer EXCEPT ![p] = "waiting"]
            /\ linked' = [linked EXCEPT ![p] = TRUE]
       ELSE UNCHANGED <<consumer, linked>>
    /\ UNCHANGED <<outboxVars, batch, toMark, ctxDone, wire, queue, buffer,
                   handling, done, lost, faults>>

-----------------------------------------------------------------------------
RelayStep(p) ==
    \/ Poll(p) \/ CutShort(p) \/ Mark(p) \/ MarkFails(p) \/ RelayStops(p)
    \/ \E r \in Rows : PublishOk(p, r) \/ PublishErr(p, r)

BrokerStep ==
    \E r \in Rows : \/ \E p \in Procs : Route(p, r)
                    \/ \E w \in Workers : Push(w, r)

ConsumerStep(w) ==
    \/ \E r \in Rows : Take(w, r)
    \/ HandlerOk(w) \/ HandlerErr(w) \/ ConsumerStops(w)

Next ==
    \/ \E r \in Rows, t \in EventTypes : Insert(r, t)
    \/ \E p \in Procs : RelayStep(p) \/ PublisherLost(p) \/ Crash(p) \/ Restart(p)
    \/ BrokerStep
    \/ \E w \in Workers : ConsumerStep(w) \/ StartCtxExpires(w) \/ ConsumerLost(w)

Spec == Init /\ [][Next]_vars

\* Running goroutines and a running broker make progress; nothing obliges a
\* transaction to commit, a fault to occur, or an operator to restart.
Fairness ==
    /\ \A p \in Procs : WF_vars(RelayStep(p))
    /\ WF_vars(BrokerStep)
    /\ \A w \in Workers : WF_vars(ConsumerStep(w))
FairSpec == Spec /\ Fairness

-----------------------------------------------------------------------------
\* A row marked as published is never simply gone: a message of it is under
\* way, or a handler has completed it, or one was dropped on the way.
\* (processOutbox marks only what Publish accepted, in whatever interleaving
\* of relays, failed updates, crashes, requeues and redeliveries.)
MarkedIsAccounted == published \subseteq Transit \cup done \cup lost

\* A message under way, handled or dropped belongs to a committed row: the
\* relay never publishes what a transaction has not stored.
OnlyStoredTravel == Transit \cup done \cup lost \subseteq Stored

\* Nothing reaches the worker's queue, or a handler, that no binding routes: a
\* requeue, a redelivery or a crash never brings a dropped message back.
OnlyRoutedArrive == \A r \in Rows : AtBroker(r) \/ r \in done => Routed(eventType[r])

\* Without a binding to the relay's exchange, as in the repository, the queue
\* stays empty and no handler ever runs: every row that is marked is on a wire
\* or lost (WorkerBinding names auth.commands, the relay publishes to
\* auth.events).
NothingArrivesAsWired ==
    (\A b \in ExtraBindings : b.exchange # RelayExchange) =>
        done = {} /\ published \subseteq {r \in Rows : OnWire(r)} \cup lost

\* If an operator binds the queue with patterns of two words only, like the
\* worker's own, commands still never arrive: the relay's prefix gives their
\* keys three words.
CommandsNeverArrive ==
    (\A b \in ExtraBindings : b.exchange = RelayExchange => Len(b.pattern) = 2) =>
        \A r \in done : eventType[r] \notin {Register, UpdateRoles}

\* A row is published again only by a relay that read it before it was marked:
\* once no relay has a marked row in its batch, none reads or sends it again
\* (the WHERE clause of processOutbox, with any number of relays and faults).
MarkedRowsRest == [][
    \A r \in published :
        (\A p \in Procs : r \notin batch[p]) =>
            \A p \in Procs : r \notin batch'[p] /\ wire'[p][r] <= wire[p][r]]_vars

\* What the two rest on, process by process (checked and proved with them).
Bookkeeping ==
    /\ \A p \in Procs : /\ batch[p] \subseteq Stored
                        /\ toMark[p] \subseteq Transit \cup done \cup lost
    /\ \A w \in Workers :
        /\ handling[w] # None <=> consumer[w] = "handling"
        /\ \A r \in Rows : handling[w] = r => AtBroker(r) \/ r \in done
        /\ ~linked[w] => buffer[w] = NoCopies
        /\ relay[w] = "down" => ~linked[w] /\ consumer[w] = "down"

\* The pipeline implements the contract of a transactional outbox.
Contract == INSTANCE DeliveryContract
    WITH stored <- Stored, marked <- published,
         transit <- Transit
KeepsContract == Contract!Spec

\* Every committed row is eventually marked as published, unless every API
\* has lost its publisher: the worker relays are not needed for it, and it
\* survives their contexts being cancelled in the middle of a batch.
OutboxDrains ==
    \A r \in Rows :
        r \in Stored ~> r \in published \/ \A a \in Apis : ~open[a]

\* Every committed row that can be routed is eventually handled, unless a
\* message of it was dropped, no API can publish, or some worker has stopped
\* consuming (cancelled start context, lost link or crash).
Interrupted(w) == ctxDone[w] \/ ~linked[w]
HandledUnlessCutOff ==
    \A r \in Rows :
        (r \in Stored /\ Routed(eventType[r]))
            ~> \/ r \in done \cup lost
               \/ \A a \in Apis : ~open[a]
               \/ \E w \in Workers : Interrupted(w)

\* README.md, "O Outbox garante entrega at-least-once", as a guarantee about
\* the rows whose publication is recorded.
PublishedIsDelivered == published \subseteq Transit \cup done

\* The same guarantee as progress: a routable row is eventually handled.
EventuallyHandled ==
    \A r \in Rows : (r \in Stored /\ Routed(eventType[r])) ~> r \in done
=============================================================================
