------------------------------- MODULE Lifecycle -------------------------------
(***************************************************************************)
(* How a process of the system starts and stops.  fx builds the objects in *)
(* the order they are needed and collects their hooks; it runs the OnStart *)
(* hooks in that order and, on a signal or after a failed start, the       *)
(* OnStop hooks in the opposite order.  Meanwhile requests, deliveries and *)
(* ticks of the relay are under way and use what the hooks close.          *)
(***************************************************************************)
EXTENDS Naturals, Sequences

CONSTANTS Tasks,   \* work under way in the process
          None

VARIABLES
    program,  \* which of the five programs the process runs
    phase,    \* "building", "starting", "running", "stopping", "exited"
    at,       \* the hook that is built, started or stopped next
    open,     \* what is usable: connected, listening, running (named by its hook)
    task,     \* task -> [kind, pc]
    exit      \* how the process ended: by its hooks, or cut short

vars == <<program, phase, at, open, task, exit>>

\* The order in which the constructors append their hooks.
ApiWriteHooks == <<"tracer", "db", "redis", "http", "publisher", "relay">>
\* Mutated form: api-read builds its server before what the server uses.
ApiReadServerFirst == <<"tracer", "http", "db", "redis">>
ApiReadHooks == <<"tracer", "db", "redis", "http">>
WorkerHooks == <<"db", "publisher", "consumer", "redis", "workers">>
GrpcPasswordHooks == <<"tracer", "grpc">>
GrpcTokenHooks == <<"tracer", "grpc">>

Programs == {"api-write", "api-read", "worker-events", "grpc-password", "grpc-token"}

HooksOf(p) ==
    CASE p = "api-write" -> ApiWriteHooks
      [] p = "api-read" -> ApiReadHooks
      [] p = "worker-events" -> WorkerHooks
      [] p = "grpc-password" -> GrpcPasswordHooks
      [] p = "grpc-token" -> GrpcTokenHooks
Hooks == HooksOf(program)

\* What the handlers of a program use besides other services.
Uses == IF program \in {"api-write", "api-read"} THEN {"db", "redis"} ELSE {}

Servers == {"http", "grpc"}
Loops == {"relay", "workers"}   \* goroutines without an OnStop
Connections == {"tracer", "db", "redis", "publisher", "consumer"}
Clients == {"clients"}          \* gRPC client connections, which no hook closes
Objects == Servers \cup Loops \cup Connections \cup Clients

\* The clients are connected on the way to the hook x of those who call through them:
\* use cases in api-write, the handler of registrations in worker-events.
Dialled(x) ==
    IF <<program, x>> \in {<<"api-write", "http">>, <<"worker-events", "workers">>}
    THEN Clients ELSE {}

Idle == [kind |-> None, pc |-> "idle"]
Kinds == {"request", "delivery", "tick", "fill"}

ASSUME LifecycleAssumption == None \notin Kinds \cup {"hooks", "cut"}

TypeOK ==
    /\ program \in Programs
    /\ phase \in {"building", "starting", "running", "stopping", "exited"}
    /\ at \in 0..Len(Hooks)
    /\ open \subseteq Objects
    /\ task \in [Tasks -> {Idle} \cup [kind : Kinds, pc : {"working", "querying"}]]
    /\ exit \in {None, "hooks", "cut"}

Init ==
    /\ program \in Programs
    /\ phase = "building"
    /\ at = 1
    /\ open = {}
    /\ task = [k \in Tasks |-> Idle]
    /\ exit = None

Exit(how) == phase' = "exited" /\ exit' = how
Idling(k) == task[k] = Idle
Is(k, kind) == task[k].kind = kind
Become(k, kind, pc) == task' = [task EXCEPT ![k] = [kind |-> kind, pc |-> pc]]

-----------------------------------------------------------------------------
(* Building and starting. *)

\* The constructor connects, pings and appends its hook; what is not a
\* connection becomes usable with OnStart.
Build ==
    /\ phase = "building"
    /\ open' = open \cup ({Hooks[at]} \cap Connections) \cup Dialled(Hooks[at])
    /\ IF at < Len(Hooks) THEN at' = at + 1 /\ UNCHANGED phase
                          ELSE at' = 1 /\ phase' = "starting"
    /\ UNCHANGED <<program, task, exit>>

\* No connection: logger.Fatal, or an error of the constructor.
BuildFails ==
    /\ phase = "building"
    /\ Exit("cut")
    /\ UNCHANGED <<program, at, open, task>>

\* Mutated form: one hook too many.
StartHookPastTheLast ==
    /\ phase = "starting"
    /\ open' = open \cup {Hooks[at]}
    /\ IF at <= Len(Hooks) THEN at' = at + 1 /\ UNCHANGED phase
                           ELSE at' = Len(Hooks) /\ phase' = "running"
    /\ UNCHANGED <<program, task, exit>>

\* OnStart listens, or starts the relay and the consumer, or there is none.
StartHook ==
    /\ phase = "starting"
    /\ open' = open \cup {Hooks[at]}
    /\ IF at < Len(Hooks) THEN at' = at + 1 /\ UNCHANGED phase
                          ELSE at' = Len(Hooks) /\ phase' = "running"
    /\ UNCHANGED <<program, task, exit>>

\* The gRPC port is taken, or Consume fails (after the relay has been started):
\* fx stops the hooks it has started.
StartFails ==
    /\ phase = "starting"
    /\ Hooks[at] \in {"grpc", "workers"}
    /\ phase' = "stopping"
    /\ at' = at - 1
    /\ open' = IF Hooks[at] = "workers" THEN open \cup {"relay"} ELSE open
    /\ UNCHANGED <<program, task, exit>>

-----------------------------------------------------------------------------
(* Work. *)

Alive == phase # "exited"

\* A request or call is accepted.
Arrive(k) ==
    /\ Alive
    /\ open \cap Servers # {}
    /\ Idling(k)
    /\ Become(k, "request", "working")
    /\ UNCHANGED <<program, phase, at, open, exit>>

\* The consumer hands over the next delivery when the handler has returned.
Deliver(k) ==
    /\ Alive
    /\ {"consumer", "workers"} \subseteq open
    /\ Idling(k)
    /\ \A j \in Tasks : ~Is(j, "delivery")
    /\ Become(k, "delivery", "working")
    /\ UNCHANGED <<program, phase, at, open, exit>>

\* The relay ticks for as long as the process lives.
Tick(k) ==
    /\ Alive
    /\ open \cap Loops # {}
    /\ Idling(k)
    /\ \A j \in Tasks : ~Is(j, "tick")
    /\ Become(k, "tick", "working")
    /\ UNCHANGED <<program, phase, at, open, exit>>

\* A statement takes a connection of the pool; a closed pool gives none, and the
\* statement fails.  (Redis and RabbitMQ connections are shared and not held.)
Acquire(k) ==
    /\ Alive
    /\ task[k].pc = "working" /\ ~Is(k, "fill")
    /\ "db" \in open
    /\ Become(k, task[k].kind, "querying")
    /\ UNCHANGED <<program, phase, at, open, exit>>

Release(k) ==
    /\ Alive
    /\ task[k].pc = "querying"
    /\ Become(k, task[k].kind, "working")
    /\ UNCHANGED <<program, phase, at, open, exit>>

\* The handler or the tick returns, with or without an error.
Return(k) ==
    /\ Alive
    /\ task[k].pc = "working"
    /\ task' = [task EXCEPT ![k] = Idle]
    /\ UNCHANGED <<program, phase, at, open, exit>>

\* api-read: a profile that came from the database is stored in the cache by a
\* goroutine of its own, after the answer.
AnswerAndFill(k) ==
    /\ Alive
    /\ program = "api-read"
    /\ Is(k, "request") /\ task[k].pc = "working"
    /\ Become(k, "fill", "working")
    /\ UNCHANGED <<program, phase, at, open, exit>>

-----------------------------------------------------------------------------
(* Stopping. *)

\* SIGTERM or SIGINT.
Signal ==
    /\ phase = "running"
    /\ phase' = "stopping"
    /\ UNCHANGED <<program, at, open, task, exit>>

\* Mutated form: the servers are closed, not shut down.
DrainedPoolOnly(x) == x = "db" => \A k \in Tasks : task[k].pc # "querying"

\* What an OnStop waits for once it has begun: Shutdown and GracefulStop for the
\* requests, Close of the pool for its connections; the others for nothing.
Drained(x) ==
    /\ x \in Servers => \A k \in Tasks : ~Is(k, "request")
    /\ x = "db" => \A k \in Tasks : task[k].pc # "querying"

\* Mutated form: the pool hands out connections until it is closed.
StopAfterDraining ==
    /\ phase = "stopping" /\ at > 0
    /\ Hooks[at] \in open \ Loops
    /\ Drained(Hooks[at])
    /\ open' = open \ {Hooks[at]}
    /\ UNCHANGED <<program, phase, at, task, exit>>

\* An OnStop begins: no new request, delivery or connection from now on.
StopHook ==
    /\ phase = "stopping" /\ at > 0
    /\ Hooks[at] \in open \ Loops
    /\ open' = open \ {Hooks[at]}
    /\ UNCHANGED <<program, phase, at, task, exit>>

\* It has done its waiting, or there is no OnStop: on to the hook before.
NextHook ==
    /\ phase = "stopping" /\ at > 0
    /\ Hooks[at] \notin open \/ Hooks[at] \in Loops
    /\ Drained(Hooks[at])
    /\ at' = at - 1
    /\ UNCHANGED <<program, phase, open, task, exit>>

\* All hooks have run: main returns, and what is still under way dies with it.
Stopped ==
    /\ phase = "stopping" /\ at = 0
    /\ Exit("hooks")
    /\ UNCHANGED <<program, at, open, task>>

\* A signal that cannot be caught, a server that fails with logger.Fatal, or
\* fx's stop timeout, after which it runs no more hooks.
CutShort ==
    /\ phase \in {"starting", "running", "stopping"}
    /\ Exit("cut")
    /\ UNCHANGED <<program, at, open, task>>

-----------------------------------------------------------------------------
Work(k) == Acquire(k) \/ Release(k) \/ Return(k) \/ AnswerAndFill(k)
Stopping == StopHook \/ NextHook \/ Stopped

Managing == Build \/ BuildFails \/ StartHook \/ StartFails \/ Signal \/ Stopping \/ CutShort

Next == Managing \/ \E k \in Tasks : Arrive(k) \/ Deliver(k) \/ Tick(k) \/ Work(k)

Spec == Init /\ [][Next]_vars

-----------------------------------------------------------------------------
\* While a request is under way, everything its handler uses is usable: a stop
\* drains the server before it closes the pool and Redis, whenever the signal
\* comes.  (The hooks run against the order in which the constructors were
\* called, which nobody wrote down.  In api-read a closed pool would report
\* every user as not found.)
RequestsUndisturbed ==
    Alive => \A k \in Tasks : Is(k, "request") => Uses \subseteq open

\* A process that ended by its hooks has answered every request it accepted and
\* cut off no statement: only a delivery, a tick or a cache write between two
\* calls dies with it, and those come again.
NothingCutOff ==
    exit = "hooks" => \A k \in Tasks : ~Is(k, "request") /\ task[k].pc # "querying"

\* A process that ended by its hooks has closed every server and every connection
\* that has an OnStop, also when the stop came from a start that failed half-way.
\* Left to the operating system are the loops and the gRPC clients, which have none.
NothingLeftOpen == exit = "hooks" => open \subseteq Loops \cup Clients

\* A stop comes to its end, although the relay is never told to stop and goes
\* on asking for connections.
StopEnds == phase = "stopping" ~> phase = "exited"
=============================================================================
