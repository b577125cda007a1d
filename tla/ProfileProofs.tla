----------------------------- MODULE ProfileProofs -----------------------------
(***************************************************************************)
(* Proofs about Lifecycle and Profile: for any number of tasks, the stop   *)
(* of a program takes nothing away from a request and cuts none off, and a *)
(* profile is denied only when a statement failed.                         *)
(***************************************************************************)
EXTENDS Profile, TLAPS

\* Where the hooks of the server and of the pool come; past all hooks if the
\* program has none.
ServerAt == CASE program \in {"api-write", "api-read"} -> 4
              [] program \in {"grpc-password", "grpc-token"} -> 2
              [] program = "worker-events" -> 7
DbAt == CASE program \in {"api-write", "api-read"} -> 2
          [] program \in {"grpc-password", "grpc-token"} -> 7
          [] program = "worker-events" -> 1

Serves == open \cap Servers # {} \/ \E k \in Tasks : Is(k, "request")
Pools == "db" \in open \/ \E k \in Tasks : task[k].pc = "querying"

\* The position of the next hook fits the phase.
Placed ==
    /\ phase \in {"building", "starting"} => at \in 1..Len(Hooks)
    /\ phase = "running" => at = Len(Hooks)
    /\ Alive => exit = None
Own == \A x \in open \cap Servers : \E i \in 1..Len(Hooks) : Hooks[i] = x
\* Requests come and are under way only between the hooks of the server, and
\* connections are held only between those of the pool.
Served == Alive /\ Serves =>
    phase # "building" /\ (at > ServerAt \/ (phase # "starting" /\ at = ServerAt))
Pooled == Alive /\ Pools => DbAt # 7 /\ (phase = "stopping" => at >= DbAt)
\* What handlers use is opened before the server and closed after it.
Built == phase = "building" =>
    \A i \in 1..(at - 1) : Hooks[i] \in Connections => Hooks[i] \in open
Kept == phase \in {"starting", "running"} \/ (phase = "stopping" /\ at >= ServerAt)
            => Uses \subseteq open

LInv == TypeOK /\ Placed /\ Own /\ Served /\ Pooled /\ Built /\ Kept /\ NothingCutOff

-----------------------------------------------------------------------------
(* The programs. *)

LEMMA HookFacts ==
    ASSUME program \in Programs
    PROVE  /\ Len(Hooks) \in 2..6
           /\ \A i \in 1..Len(Hooks) :
                /\ Hooks[i] \in Servers \cup Loops \cup Connections
                /\ Hooks[i] \in Servers => i = ServerAt
                /\ Hooks[i] = "grpc" => DbAt = 7 /\ Uses = {}
                /\ Hooks[i] = "workers" => i = 5 /\ DbAt = 1 /\ Uses = {} /\ ServerAt = 7
                /\ Hooks[i] = "db" => i = DbAt
                /\ i = DbAt => Hooks[i] = "db"
                /\ i = ServerAt => Hooks[i] \in Servers
                /\ i >= ServerAt => Hooks[i] \notin Uses
           /\ \A x \in Uses : \E i \in 1..Len(Hooks) : Hooks[i] = x /\ x \in Connections
           /\ ServerAt \in {2, 4, 7} /\ DbAt \in {1, 2, 7}
           /\ ServerAt # 7 => ServerAt <= Len(Hooks)
           /\ DbAt # 7 => DbAt <= Len(Hooks)
<1> USE DEF Hooks, HooksOf, Servers, Loops, Connections, Uses, ServerAt, DbAt
<1>1. CASE program = "api-write"
  BY <1>1 DEF ApiWriteHooks
<1>2. CASE program = "api-read"
  BY <1>2 DEF ApiReadHooks
<1>3. CASE program = "worker-events"
  BY <1>3 DEF WorkerHooks
<1>4. CASE program = "grpc-password"
  BY <1>4 DEF GrpcPasswordHooks
<1>5. CASE program = "grpc-token"
  BY <1>5 DEF GrpcTokenHooks
<1> QED BY <1>1, <1>2, <1>3, <1>4, <1>5 DEF Programs

LEMMA HooksSame ==
    ASSUME program' = program
    PROVE  Hooks' = Hooks /\ Uses' = Uses /\ ServerAt' = ServerAt /\ DbAt' = DbAt
BY DEF Hooks, HooksOf, Uses, ServerAt, DbAt

-----------------------------------------------------------------------------
(* Work changes tasks only. *)

Working == \E k \in Tasks : Arrive(k) \/ Deliver(k) \/ Tick(k) \/ Work(k)
Jobs == [kind : Kinds, pc : {"working", "querying"}]

LEMMA TaskTypes ==
    ASSUME TypeOK, NEW k \in Tasks
    PROVE  /\ task[k] \in {Idle} \cup Jobs
           /\ task[k] # Idle => task[k] \in Jobs /\ task[k].kind \in Kinds
           /\ task[k].pc \in {"idle", "working", "querying"}
           /\ task[k].pc # "idle" => task[k] # Idle
           /\ Is(k, "request") => task[k] # Idle
BY LifecycleAssumption DEF TypeOK, Jobs, Idle, Is, Kinds

LEMMA WorkMoves ==
    ASSUME TypeOK, NEW k \in Tasks, Arrive(k) \/ Deliver(k) \/ Tick(k) \/ Work(k)
    PROVE  /\ Alive /\ UNCHANGED <<program, phase, at, open, exit>>
           /\ \A j \in Tasks \ {k} : task'[j] = task[j]
           /\ task' \in [Tasks -> {Idle} \cup Jobs]
           /\ task'[k].kind = "request" => Serves
           /\ task'[k].pc = "querying" => Pools
<1>0. task \in [Tasks -> {Idle} \cup Jobs]
  BY DEF TypeOK, Jobs
<1>1. ASSUME NEW kind \in Kinds, NEW pc \in {"working", "querying"}, Become(k, kind, pc)
      PROVE  /\ \A j \in Tasks \ {k} : task'[j] = task[j]
             /\ task' \in [Tasks -> {Idle} \cup Jobs]
             /\ task'[k].kind = kind /\ task'[k].pc = pc
  <2>1. [kind |-> kind, pc |-> pc] \in Jobs
    BY DEF Jobs
  <2> QED BY <1>0, <1>1, <2>1 DEF Become
<1>2. "request" \in Kinds /\ "delivery" \in Kinds /\ "tick" \in Kinds /\ "fill" \in Kinds
  BY DEF Kinds
<1>3. CASE Arrive(k)
  <2>1. Become(k, "request", "working") /\ Serves
    BY <1>3 DEF Arrive, Serves
  <2> QED BY <1>1, <1>2, <1>3, <2>1 DEF Arrive
<1>4. CASE Deliver(k)
  BY <1>1, <1>2, <1>4 DEF Deliver
<1>5. CASE Tick(k)
  BY <1>1, <1>2, <1>5 DEF Tick
<1>6. CASE Acquire(k)
  <2>1. task[k] # Idle /\ task[k].kind \in Kinds /\ Become(k, task[k].kind, "querying")
    BY <1>6, TaskTypes DEF Acquire
  <2>2. Pools
    BY <1>6 DEF Acquire, Pools
  <2>3. task[k].kind = "request" => Serves
    BY DEF Serves, Is
  <2> QED BY <1>1, <1>6, <2>1, <2>2, <2>3 DEF Acquire
<1>7. CASE Release(k)
  <2>1. task[k] # Idle /\ task[k].kind \in Kinds /\ Become(k, task[k].kind, "working")
    BY <1>7, TaskTypes DEF Release
  <2>2. task[k].kind = "request" => Serves
    BY DEF Serves, Is
  <2> QED BY <1>1, <1>7, <2>1, <2>2 DEF Release
<1>8. CASE Return(k)
  <2>1. task' = [task EXCEPT ![k] = Idle]
    BY <1>8 DEF Return
  <2>2. task'[k] = Idle
    BY <1>0, <2>1
  <2>3. task'[k].kind # "request" /\ task'[k].pc # "querying"
    BY <2>2, LifecycleAssumption DEF Idle, Kinds
  <2> QED BY <1>0, <1>8, <2>1, <2>3 DEF Return
<1>9. CASE AnswerAndFill(k)
  BY <1>1, <1>2, <1>9 DEF AnswerAndFill
<1> QED BY <1>3, <1>4, <1>5, <1>6, <1>7, <1>8, <1>9 DEF Work

\* Work makes no request without a server or another request, and takes no
\* connection without the pool.
LEMMA WorkKeeps ==
    ASSUME TypeOK, Working
    PROVE  /\ Alive /\ UNCHANGED <<program, phase, at, open, exit>>
           /\ task' \in [Tasks -> {Idle} \cup Jobs]
           /\ Serves' => Serves
           /\ Pools' => Pools
<1>1. PICK k \in Tasks : Arrive(k) \/ Deliver(k) \/ Tick(k) \/ Work(k)
  BY DEF Working
<1>2. ASSUME Serves' PROVE Serves
  <2>1. CASE open' \cap Servers # {}
    BY <1>1, <2>1, WorkMoves DEF Serves
  <2>2. ASSUME NEW j \in Tasks, Is(j, "request")'
        PROVE  Serves
    <3>1. CASE j = k
      BY <1>1, <2>2, <3>1, WorkMoves DEF Is
    <3>2. CASE j # k
      BY <1>1, <2>2, <3>2, WorkMoves DEF Is, Serves
    <3> QED BY <3>1, <3>2
  <2> QED BY <1>2, <2>1, <2>2 DEF Serves
<1>3. ASSUME Pools' PROVE Pools
  <2>1. CASE "db" \in open'
    BY <1>1, <2>1, WorkMoves DEF Pools
  <2>2. ASSUME NEW j \in Tasks, task'[j].pc = "querying"
        PROVE  Pools
    <3>1. CASE j = k
      BY <1>1, <2>2, <3>1, WorkMoves
    <3>2. CASE j # k
      BY <1>1, <2>2, <3>2, WorkMoves DEF Pools
    <3> QED BY <3>1, <3>2
  <2> QED BY <1>3, <2>1, <2>2 DEF Pools
<1> QED BY <1>1, <1>2, <1>3, WorkMoves

LEMMA WorkStep ==
    ASSUME LInv, Working
    PROVE  LInv'
<1> USE DEF LInv
<1>1. UNCHANGED <<program, phase, at, open, exit>> /\ Alive /\ Alive'
  BY WorkKeeps DEF Alive
<1>2. Hooks' = Hooks /\ Uses' = Uses /\ ServerAt' = ServerAt /\ DbAt' = DbAt
  BY <1>1, HooksSame
<1>3. TypeOK'
  BY <1>1, <1>2, WorkKeeps DEF TypeOK, Jobs
<1>4. Served'
  BY <1>1, <1>2, WorkKeeps DEF Served
<1>5. Pooled'
  BY <1>1, <1>2, WorkKeeps DEF Pooled
<1>6. Placed' /\ Own' /\ Built' /\ Kept'
  BY <1>1, <1>2 DEF Placed, Own, Built, Kept
<1>7. exit' # "hooks"
  BY <1>1, LifecycleAssumption DEF Placed
<1> QED BY <1>3, <1>4, <1>5, <1>6, <1>7 DEF NothingCutOff

-----------------------------------------------------------------------------
(* Managing the hooks leaves the tasks alone. *)

LEMMA ServesFewer ==
    ASSUME task' = task, open' \cap Servers \subseteq open
    PROVE  Serves' => Serves
BY DEF Serves, Is

LEMMA PoolsFewer ==
    ASSUME task' = task, "db" \in open' => "db" \in open
    PROVE  Pools' => Pools
BY DEF Pools

\* After an exit nothing is left to keep but the answered requests.
LEMMA ExitStep ==
    ASSUME LInv, phase' = "exited", exit' \in {"hooks", "cut"},
           UNCHANGED <<program, at, open, task>>,
           exit' = "hooks" => ~Serves /\ ~Pools
    PROVE  LInv'
<1> USE DEF LInv
<1>1. Hooks' = Hooks
  BY HooksSame
<1>2. TypeOK'
  BY <1>1 DEF TypeOK
<1>3. ~Alive'
  BY DEF Alive
<1>4. Placed' /\ Own' /\ Served' /\ Pooled' /\ Built' /\ Kept'
  BY <1>1, <1>3 DEF Placed, Own, Served, Pooled, Built, Kept
<1>5. NothingCutOff'
  BY DEF NothingCutOff, Serves, Pools, Is
<1> QED BY <1>2, <1>4, <1>5

\* The parts of LInv that hold while the process lives.
LEMMA LivingStep ==
    ASSUME LInv, Alive, Alive', UNCHANGED <<program, task, exit>>,
           phase' \in {"building", "starting", "running", "stopping"},
           at' \in 0..Len(Hooks), open' \subseteq Objects
    PROVE  /\ TypeOK' /\ NothingCutOff'
           /\ Hooks' = Hooks /\ Uses' = Uses /\ ServerAt' = ServerAt /\ DbAt' = DbAt
<1> USE DEF LInv
<1>1. Hooks' = Hooks /\ Uses' = Uses /\ ServerAt' = ServerAt /\ DbAt' = DbAt
  BY HooksSame
<1>2. TypeOK'
  BY <1>1 DEF TypeOK
<1>3. exit' # "hooks"
  BY LifecycleAssumption DEF Placed
<1> QED BY <1>1, <1>2, <1>3 DEF NothingCutOff

LEMMA BuildStep ==
    ASSUME LInv, Build
    PROVE  LInv'
<1> USE DEF LInv
<1>1. /\ at \in 1..Len(Hooks) /\ Len(Hooks) \in 2..6 /\ program \in Programs
      /\ open \subseteq Objects
  BY HookFacts DEF Build, Placed, TypeOK
<1>2. /\ phase = "building"
      /\ open' = open \cup ({Hooks[at]} \cap Connections) \cup Dialled(Hooks[at])
      /\ Dialled(Hooks[at]) \cap (Servers \cup Connections) = {}
      /\ "db" \notin Dialled(Hooks[at])
      /\ \/ at < Len(Hooks) /\ at' = at + 1 /\ phase' = "building"
         \/ at = Len(Hooks) /\ at' = 1 /\ phase' = "starting"
      /\ UNCHANGED <<program, task, exit>>
  BY <1>1 DEF Build, Dialled, Clients, Servers, Connections
<1>3. /\ Alive /\ Alive' /\ at' \in 1..Len(Hooks)
      /\ open' \subseteq Objects
  BY <1>1, <1>2 DEF Alive, Objects, Dialled
<1>4. /\ TypeOK' /\ NothingCutOff'
      /\ Hooks' = Hooks /\ Uses' = Uses /\ ServerAt' = ServerAt /\ DbAt' = DbAt
  BY <1>1, <1>2, <1>3, LivingStep
<1>5. Placed' /\ Own'
  <2>1. open' \cap Servers \subseteq open \cup {Hooks[at]}
    BY <1>2
  <2>2. Own'
    BY <1>1, <1>4, <2>1 DEF Own
  <2> QED BY <1>2, <1>3, <1>4, <2>2 DEF Placed
<1>6. Served'
  <2>1. ~Serves
    BY <1>2, <1>3 DEF Served
  <2>2. Connections \cap Servers = {}
    BY DEF Connections, Servers
  <2>3. ~Serves'
    BY <1>2, <2>1, <2>2, ServesFewer DEF Serves
  <2> QED BY <2>3 DEF Served
<1>7. Pooled'
  <2>1. CASE Hooks[at] = "db"
    <3>1. DbAt = at
      BY <1>1, <2>1, HookFacts
    <3>2. DbAt # 7
      <4>1. \A n \in 2..6 : \A i \in 1..n : i # 7
        OBVIOUS
      <4>2. at # 7
        BY <1>1, <4>1
      <4> QED BY <3>1, <4>2
    <3>3. phase' # "stopping"
      BY <1>2
    <3> QED BY <1>4, <3>2, <3>3 DEF Pooled
  <2>2. CASE Hooks[at] # "db"
    <3>1. Pools' => Pools
      BY <1>2, <2>2, PoolsFewer
    <3> QED BY <1>2, <1>3, <1>4, <3>1 DEF Pooled
  <2> QED BY <2>1, <2>2
<1>8. \A i \in 1..at : Hooks[i] \in Connections => Hooks[i] \in open'
  <2>1. \A i \in 1..at : i \in 1..(at - 1) \/ i = at
    BY <1>1
  <2> QED BY <1>2, <2>1 DEF Built
<1>9. Built'
  BY <1>1, <1>2, <1>4, <1>8 DEF Built
<1>10. Kept'
  <2>1. CASE at = Len(Hooks)
    <3>1. \A x \in Uses : x \in open'
      BY <1>1, <1>8, <2>1, HookFacts
    <3> QED BY <1>4, <3>1 DEF Kept
  <2>2. CASE phase' = "building"
    BY <2>2 DEF Kept
  <2> QED BY <1>2, <2>1, <2>2
<1> QED BY <1>4, <1>5, <1>6, <1>7, <1>9, <1>10

LEMMA StartStep ==
    ASSUME LInv, StartHook
    PROVE  LInv'
<1> USE DEF LInv
<1>1. /\ at \in 1..Len(Hooks) /\ Len(Hooks) \in 2..6 /\ program \in Programs
      /\ open \subseteq Objects
      /\ ServerAt \in {2, 4, 7}
  BY HookFacts DEF StartHook, Placed, TypeOK
<1>2. /\ phase = "starting" /\ open' = open \cup {Hooks[at]}
      /\ \/ at < Len(Hooks) /\ at' = at + 1 /\ phase' = "starting"
         \/ at = Len(Hooks) /\ at' = at /\ phase' = "running"
      /\ UNCHANGED <<program, task, exit>>
  BY <1>1 DEF StartHook
<1>3. /\ Alive /\ Alive' /\ at' \in 1..Len(Hooks)
      /\ open' \subseteq Objects
  BY <1>1, <1>2, HookFacts DEF Alive, Objects
<1>4. /\ TypeOK' /\ NothingCutOff'
      /\ Hooks' = Hooks /\ Uses' = Uses /\ ServerAt' = ServerAt /\ DbAt' = DbAt
  BY <1>1, <1>2, <1>3, LivingStep
<1>5. Placed' /\ Own'
  <2>1. open' \cap Servers \subseteq open \cup {Hooks[at]}
    BY <1>2
  <2>2. Own'
    BY <1>1, <1>4, <2>1 DEF Own
  <2> QED BY <1>2, <1>3, <1>4, <2>2 DEF Placed
<1>6. Served'
  <2>1. CASE Hooks[at] \in Servers
    <3>1. at = ServerAt
      BY <1>1, <2>1, HookFacts
    <3>2. at' > ServerAt \/ (phase' # "starting" /\ at' = ServerAt)
      BY <1>1, <1>2, <3>1
    <3> QED BY <1>2, <1>4, <3>2 DEF Served
  <2>2. CASE Hooks[at] \notin Servers
    <3>1. Serves' => Serves
      BY <1>2, <2>2, ServesFewer
    <3>2. Serves => at > ServerAt
      BY <1>2, <1>3 DEF Served
    <3>3. Serves => at' > ServerAt
      BY <1>1, <1>2, <3>2
    <3> QED BY <1>2, <1>4, <3>1, <3>3 DEF Served
  <2> QED BY <2>1, <2>2
<1>7. Pooled'
  <2>1. CASE Hooks[at] = "db"
    <3>1. DbAt = at
      BY <1>1, <2>1, HookFacts
    <3>2. DbAt # 7
      <4>1. \A n \in 2..6 : \A i \in 1..n : i # 7
        OBVIOUS
      <4>2. at # 7
        BY <1>1, <4>1
      <4> QED BY <3>1, <4>2
    <3>3. phase' # "stopping"
      BY <1>2
    <3> QED BY <1>4, <3>2, <3>3 DEF Pooled
  <2>2. CASE Hooks[at] # "db"
    <3>1. Pools' => Pools
      BY <1>2, <2>2, PoolsFewer
    <3> QED BY <1>2, <1>3, <1>4, <3>1 DEF Pooled
  <2> QED BY <2>1, <2>2
<1>8. Built'
  BY <1>2 DEF Built
<1>9. Kept'
  BY <1>2, <1>4 DEF Kept
<1> QED BY <1>4, <1>5, <1>6, <1>7, <1>8, <1>9

LEMMA StartFailsStep ==
    ASSUME LInv, StartFails
    PROVE  LInv'
<1> USE DEF LInv
<1>1. /\ at \in 1..Len(Hooks) /\ Len(Hooks) \in 2..6 /\ program \in Programs
      /\ open \subseteq Objects
  BY HookFacts DEF StartFails, Placed, TypeOK
<1>2. /\ phase = "starting" /\ phase' = "stopping" /\ at' = at - 1
      /\ Hooks[at] \in {"grpc", "workers"}
      /\ open \subseteq open' /\ open' \subseteq open \cup {"relay"}
      /\ UNCHANGED <<program, task, exit>>
  BY DEF StartFails
<1>3. /\ Alive /\ Alive' /\ at' \in 0..Len(Hooks)
      /\ open' \subseteq Objects
  BY <1>1, <1>2 DEF Alive, Objects, Loops
<1>4. /\ TypeOK' /\ NothingCutOff'
      /\ Hooks' = Hooks /\ Uses' = Uses /\ ServerAt' = ServerAt /\ DbAt' = DbAt
  BY <1>2, <1>3, LivingStep
<1>5. Placed' /\ Own'
  <2>1. open' \cap Servers \subseteq open \cup {Hooks[at]}
    BY <1>2 DEF Servers
  <2>2. Own'
    BY <1>1, <1>4, <2>1 DEF Own
  <2> QED BY <1>2, <1>3, <1>4, <2>2 DEF Placed
<1>6. Served'
  <2>1. Serves' => Serves
    BY <1>2, ServesFewer DEF Servers
  <2>2. Serves => at > ServerAt
    BY <1>2, <1>3 DEF Served
  <2>3. at <= ServerAt
    <3>1. CASE Hooks[at] = "grpc"
      BY <1>1, <3>1, HookFacts DEF Servers
    <3>2. CASE Hooks[at] = "workers"
      BY <1>1, <3>2, HookFacts
    <3> QED BY <1>2, <3>1, <3>2
  <2>4. ~Serves
    BY <1>1, <2>2, <2>3, HookFacts
  <2> QED BY <2>1, <2>4 DEF Served
<1>7. Pooled'
  <2>1. Pools' => Pools
    BY <1>2, PoolsFewer
  <2>2. Pools => DbAt # 7
    BY <1>3 DEF Pooled
  <2>3. Pools => at = 5 /\ DbAt = 1
    BY <1>1, <1>2, <2>2, HookFacts
  <2>4. Pools => DbAt # 7 /\ at' >= DbAt
    BY <1>2, <2>3
  <2> QED BY <1>4, <2>1, <2>4 DEF Pooled
<1>8. Built'
  BY <1>2 DEF Built
<1>9. Kept'
  <2>1. Uses = {}
    BY <1>1, <1>2, HookFacts
  <2> QED BY <1>4, <2>1 DEF Kept
<1> QED BY <1>4, <1>5, <1>6, <1>7, <1>8, <1>9

LEMMA SignalStep ==
    ASSUME LInv, Signal
    PROVE  LInv'
<1> USE DEF LInv
<1>1. /\ program \in Programs /\ Len(Hooks) \in 2..6 /\ at = Len(Hooks)
      /\ phase = "running" /\ phase' = "stopping"
      /\ UNCHANGED <<program, at, open, task, exit>>
      /\ open \subseteq Objects
  BY HookFacts DEF Signal, Placed, TypeOK
<1>2. Alive /\ Alive' /\ at' \in 0..Len(Hooks)
  BY <1>1 DEF Alive
<1>3. /\ TypeOK' /\ NothingCutOff'
      /\ Hooks' = Hooks /\ Uses' = Uses /\ ServerAt' = ServerAt /\ DbAt' = DbAt
  BY <1>1, <1>2, LivingStep
<1>4. Serves' = Serves /\ Pools' = Pools
  BY <1>1 DEF Serves, Pools, Is
<1>5. Served'
  BY <1>1, <1>2, <1>3, <1>4 DEF Served
<1>6. Pooled'
  BY <1>1, <1>2, <1>3, <1>4, HookFacts DEF Pooled
<1>7. Placed' /\ Own' /\ Built' /\ Kept'
  BY <1>1, <1>2, <1>3 DEF Placed, Own, Built, Kept
<1> QED BY <1>3, <1>5, <1>6, <1>7

LEMMA StopStep ==
    ASSUME LInv, StopHook
    PROVE  LInv'
<1> USE DEF LInv
<1>1. /\ program \in Programs /\ Len(Hooks) \in 2..6 /\ at \in 1..Len(Hooks)
      /\ phase = "stopping" /\ open' = open \ {Hooks[at]}
      /\ UNCHANGED <<program, phase, at, task, exit>>
      /\ open \subseteq Objects
  BY HookFacts DEF StopHook, TypeOK
<1>2. Alive /\ Alive' /\ at' \in 0..Len(Hooks)
  BY <1>1 DEF Alive
<1>3. /\ TypeOK' /\ NothingCutOff'
      /\ Hooks' = Hooks /\ Uses' = Uses /\ ServerAt' = ServerAt /\ DbAt' = DbAt
  BY <1>1, <1>2, LivingStep
<1>4. (Serves' => Serves) /\ (Pools' => Pools)
  BY <1>1, ServesFewer, PoolsFewer
<1>5. Served' /\ Pooled'
  BY <1>1, <1>2, <1>3, <1>4 DEF Served, Pooled
<1>6. Placed' /\ Own' /\ Built'
  BY <1>1, <1>2, <1>3 DEF Placed, Own, Built
<1>7. Kept'
  <2>1. CASE at >= ServerAt
    <3>1. Hooks[at] \notin Uses /\ Uses \subseteq open
      BY <1>1, <2>1, HookFacts DEF Kept
    <3> QED BY <1>1, <1>3, <3>1 DEF Kept
  <2>2. CASE ~(at >= ServerAt)
    BY <1>1, <1>3, <2>2 DEF Kept
  <2> QED BY <2>1, <2>2
<1> QED BY <1>3, <1>5, <1>6, <1>7

LEMMA NextHookStep ==
    ASSUME LInv, NextHook
    PROVE  LInv'
<1> USE DEF LInv
<1>1. /\ program \in Programs /\ Len(Hooks) \in 2..6 /\ at \in 1..Len(Hooks)
      /\ phase = "stopping" /\ at' = at - 1
      /\ Hooks[at] \notin open \/ Hooks[at] \in Loops
      /\ Drained(Hooks[at])
      /\ UNCHANGED <<program, phase, open, task, exit>>
      /\ open \subseteq Objects
  BY HookFacts DEF NextHook, TypeOK
<1>2. Alive /\ Alive' /\ at' \in 0..Len(Hooks)
  BY <1>1 DEF Alive
<1>3. /\ TypeOK' /\ NothingCutOff'
      /\ Hooks' = Hooks /\ Uses' = Uses /\ ServerAt' = ServerAt /\ DbAt' = DbAt
  BY <1>1, <1>2, LivingStep
<1>4. Serves' = Serves /\ Pools' = Pools
  BY <1>1 DEF Serves, Pools, Is
<1>5. ServerAt \in {2, 4, 7} /\ DbAt \in {1, 2, 7}
  BY <1>1, HookFacts
<1>6. Placed' /\ Own' /\ Built'
  BY <1>1, <1>2, <1>3 DEF Placed, Own, Built
<1>7. Kept'
  BY <1>1, <1>3, <1>5 DEF Kept
<1>8. Served'
  <2>1. Serves => at > ServerAt \/ at = ServerAt
    BY <1>1, <1>2 DEF Served
  <2>2. ASSUME at = ServerAt
        PROVE  ~Serves
    <3>1. Hooks[at] \in Servers
      BY <1>1, <2>2, HookFacts
    <3>2. \A x \in open \cap Servers : x = Hooks[at]
      BY <1>1, <2>2, HookFacts DEF Own
    <3>3. Hooks[at] \notin open
      BY <1>1, <3>1 DEF Servers, Loops
    <3>4. \A k \in Tasks : ~Is(k, "request")
      BY <1>1, <3>1 DEF Drained
    <3> QED BY <3>2, <3>3, <3>4 DEF Serves
  <2>3. Serves => at > ServerAt
    BY <2>1, <2>2
  <2>4. Serves => at' > ServerAt \/ at' = ServerAt
    BY <1>1, <1>5, <2>3
  <2> QED BY <1>1, <1>3, <1>4, <2>4 DEF Served
<1>9. Pooled'
  <2>1. Pools => DbAt # 7 /\ at >= DbAt
    BY <1>1, <1>2 DEF Pooled
  <2>2. ASSUME at = DbAt
        PROVE  ~Pools
    <3>1. Hooks[at] = "db"
      BY <1>1, <2>2, HookFacts
    <3>2. "db" \notin open
      BY <1>1, <3>1 DEF Loops
    <3>3. \A k \in Tasks : task[k].pc # "querying"
      BY <1>1, <3>1 DEF Drained
    <3> QED BY <3>2, <3>3 DEF Pools
  <2>3. Pools => DbAt # 7 /\ at' >= DbAt
    BY <1>1, <1>5, <2>1, <2>2
  <2> QED BY <1>1, <1>3, <1>4, <2>3 DEF Pooled
<1> QED BY <1>3, <1>6, <1>7, <1>8, <1>9

LEMMA StoppedStep ==
    ASSUME LInv, Stopped
    PROVE  LInv'
<1> USE DEF LInv
<1>1. /\ phase = "stopping" /\ at = 0 /\ phase' = "exited" /\ exit' = "hooks"
      /\ UNCHANGED <<program, at, open, task>> /\ Alive
  BY DEF Stopped, Exit, Alive
<1>2. ServerAt \in {2, 4, 7} /\ DbAt \in {1, 2, 7}
  BY HookFacts DEF TypeOK
<1>3. ~Serves
  BY <1>1, <1>2 DEF Served
<1>4. ~Pools
  BY <1>1, <1>2 DEF Pooled
<1> QED BY <1>1, <1>3, <1>4, ExitStep

\* LInv is the inductive invariant of a process.
LEMMA LifecycleStep ==
    ASSUME LInv, [Next]_vars
    PROVE  LInv'
<1>1. ASSUME BuildFails \/ CutShort
      PROVE  LInv'
  <2>1. /\ phase' = "exited" /\ exit' \in {"hooks", "cut"} /\ exit' # "hooks"
        /\ UNCHANGED <<program, at, open, task>>
    BY <1>1 DEF BuildFails, CutShort, Exit
  <2> QED BY <2>1, ExitStep
<1>2. CASE UNCHANGED vars
  <2>1. UNCHANGED <<program, phase, at, open, task, exit>>
    BY <1>2 DEF vars
  <2>2. Hooks' = Hooks /\ Uses' = Uses /\ ServerAt' = ServerAt /\ DbAt' = DbAt
    BY <2>1, HooksSame
  <2>3. Alive' = Alive /\ Serves' = Serves /\ Pools' = Pools
    BY <2>1 DEF Alive, Serves, Pools, Is
  <2>4. TypeOK' /\ Placed' /\ Own' /\ Built' /\ Kept'
    BY <2>1, <2>2, <2>3 DEF LInv, TypeOK, Placed, Own, Built, Kept
  <2>5. Served' /\ Pooled'
    BY <2>1, <2>2, <2>3 DEF LInv, Served, Pooled
  <2>6. NothingCutOff'
    BY <2>1 DEF LInv, NothingCutOff, Is
  <2> QED BY <2>4, <2>5, <2>6 DEF LInv
<1> QED BY <1>1, <1>2, BuildStep, StartStep, StartFailsStep, SignalStep, StopStep,
           NextHookStep, StoppedStep, WorkStep DEF Next, Managing, Stopping, Working

LEMMA LifecycleInit ==
    ASSUME Init
    PROVE  LInv
<1>1. /\ program \in Programs /\ phase = "building" /\ at = 1 /\ open = {}
      /\ task = [k \in Tasks |-> Idle] /\ exit = None
  BY DEF Init
<1>2. Len(Hooks) \in 2..6
  BY <1>1, HookFacts
<1>3. task \in [Tasks -> {Idle} \cup Jobs]
  BY <1>1
<1>4. TypeOK /\ Placed
  <2>1. at \in 0..Len(Hooks) /\ at \in 1..Len(Hooks)
    BY <1>1, <1>2
  <2>2. task \in [Tasks -> {Idle} \cup [kind : Kinds, pc : {"working", "querying"}]]
    BY <1>3 DEF Jobs
  <2>3. TypeOK
    BY <1>1, <2>1, <2>2 DEF TypeOK
  <2> QED BY <1>1, <2>1, <2>3 DEF Placed
<1>5. \A k \in Tasks : ~Is(k, "request") /\ task[k].pc # "querying"
  BY <1>1, LifecycleAssumption DEF Is, Idle, Kinds
<1>6. ~Serves /\ ~Pools
  BY <1>1, <1>5 DEF Serves, Pools
<1>7. Own /\ Served /\ Pooled /\ Built /\ Kept
  BY <1>1, <1>6 DEF Own, Served, Pooled, Built, Kept
<1>8. NothingCutOff
  BY <1>5 DEF NothingCutOff
<1> QED BY <1>4, <1>7, <1>8 DEF LInv

-----------------------------------------------------------------------------
(* What a stop has passed is closed. *)

\* What is open has a hook, and while the process stops one that is still to
\* come, except for the loops and the gRPC clients, which have no OnStop.
Owned == \A x \in open \ (Loops \cup Clients) : \E i \in 1..Len(Hooks) : Hooks[i] = x
ClosedBehind == phase = "stopping" =>
    \A x \in open \ (Loops \cup Clients) : \E i \in 1..at : Hooks[i] = x

CInv == LInv /\ Owned /\ ClosedBehind /\ NothingLeftOpen

\* A start can fail only at the last hook.
LEMMA LastFails ==
    ASSUME program \in Programs, NEW i \in 1..Len(Hooks), Hooks[i] \in {"grpc", "workers"}
    PROVE  i = Len(Hooks)
<1> USE DEF Hooks, HooksOf
<1>1. CASE program = "api-write"
  BY <1>1 DEF ApiWriteHooks
<1>2. CASE program = "api-read"
  BY <1>2 DEF ApiReadHooks
<1>3. CASE program = "worker-events"
  BY <1>3 DEF WorkerHooks
<1>4. CASE program = "grpc-password"
  BY <1>4 DEF GrpcPasswordHooks
<1>5. CASE program = "grpc-token"
  BY <1>5 DEF GrpcTokenHooks
<1> QED BY <1>1, <1>2, <1>3, <1>4, <1>5 DEF Programs

\* No step opens anything without a hook but the relay of worker-events.
LEMMA OwnedStep ==
    ASSUME LInv, Owned, [Next]_vars
    PROVE  Owned'
<1>1. program' = program
  BY WorkKeeps DEF LInv, Next, Managing, Stopping, Working, Build, BuildFails, StartHook,
     StartFails, Signal, StopHook, NextHook, Stopped, CutShort, vars
<1>2. Hooks' = Hooks
  BY <1>1, HooksSame
<1>3. CASE Build \/ StartHook
  <2>1. open' \subseteq open \cup {Hooks[at]} \cup Clients /\ at \in 1..Len(Hooks)
    BY <1>3 DEF Build, StartHook, Dialled, LInv, Placed
  <2> QED BY <1>2, <2>1 DEF Owned
<1>4. CASE StartFails
  <2>1. open' \ (Loops \cup Clients) \subseteq open \ (Loops \cup Clients)
    BY <1>4 DEF StartFails, Loops
  <2> QED BY <1>2, <2>1 DEF Owned
<1>5. CASE ~(Build \/ StartHook \/ StartFails)
  <2>1. open' \subseteq open
    BY <1>5, WorkKeeps DEF LInv, Next, Managing, Stopping, Working, BuildFails, Signal,
       StopHook, NextHook, Stopped, CutShort, Exit, vars
  <2> QED BY <1>2, <2>1 DEF Owned
<1> QED BY <1>3, <1>4, <1>5

LEMMA ClosedStep ==
    ASSUME LInv, Owned, ClosedBehind, [Next]_vars
    PROVE  ClosedBehind'
<1> SUFFICES ASSUME phase' = "stopping", NEW x \in open' \ (Loops \cup Clients)
             PROVE  \E i \in 1..at' : Hooks'[i] = x
  BY DEF ClosedBehind
<1>1. program' = program /\ program \in Programs /\ at \in 0..Len(Hooks)
  BY WorkKeeps DEF LInv, TypeOK, Next, Managing, Stopping, Working, Build, BuildFails,
     StartHook, StartFails, Signal, StopHook, NextHook, Stopped, CutShort, vars
<1>2. Hooks' = Hooks /\ Len(Hooks) \in 2..6
  BY <1>1, HooksSame, HookFacts
<1>3. CASE StartFails
  <2>1. /\ phase = "starting" /\ Hooks[at] \in {"grpc", "workers"} /\ at' = at - 1
        /\ x \in open \ (Loops \cup Clients) /\ at \in 1..Len(Hooks)
    BY <1>3 DEF StartFails, Loops, LInv, Placed
  <2>2. at = Len(Hooks)
    BY <1>1, <2>1, LastFails
  <2>3. x # Hooks[at]
    <3>1. CASE Hooks[at] = "workers"
      BY <2>1, <3>1 DEF Loops
    <3>2. CASE Hooks[at] = "grpc"
      <4>1. at = ServerAt
        BY <1>1, <2>1, <3>2, HookFacts DEF Servers
      <4>2. ~Serves
        BY <1>1, <1>2, <2>1, <4>1 DEF LInv, Served, Alive
      <4> QED BY <2>1, <3>2, <4>2 DEF Serves, Servers
    <3> QED BY <2>1, <3>1, <3>2
  <2>4. PICK i \in 1..Len(Hooks) : Hooks[i] = x
    BY <2>1 DEF Owned
  <2>5. i \in 1..at'
    BY <1>2, <2>1, <2>2, <2>3, <2>4
  <2> QED BY <1>2, <2>4, <2>5
<1>4. CASE Signal
  <2>1. at' = Len(Hooks) /\ x \in open \ (Loops \cup Clients)
    BY <1>4 DEF Signal, LInv, Placed
  <2> QED BY <1>2, <2>1 DEF Owned
<1>5. CASE StopHook
  <2>1. phase = "stopping" /\ at' = at /\ x \in open \ (Loops \cup Clients)
    BY <1>5 DEF StopHook
  <2> QED BY <1>2, <2>1 DEF ClosedBehind
<1>6. CASE NextHook
  <2>1. /\ phase = "stopping" /\ at > 0 /\ at' = at - 1 /\ x \in open \ (Loops \cup Clients)
        /\ Hooks[at] \notin open \/ Hooks[at] \in Loops
    BY <1>6 DEF NextHook
  <2>2. PICK i \in 1..at : Hooks[i] = x
    BY <2>1 DEF ClosedBehind
  <2>3. i # at
    BY <2>1, <2>2
  <2>4. i \in 1..at'
    BY <1>1, <1>2, <2>1, <2>2, <2>3
  <2> QED BY <1>2, <2>2, <2>4
<1>7. CASE Working \/ UNCHANGED vars
  <2>1. phase = "stopping" /\ at' = at /\ x \in open \ (Loops \cup Clients)
    BY <1>7, WorkKeeps DEF LInv, vars
  <2> QED BY <1>2, <2>1 DEF ClosedBehind
<1>8. ~(Build \/ StartHook \/ BuildFails \/ Stopped \/ CutShort)
  BY DEF Build, StartHook, BuildFails, Stopped, CutShort, Exit
<1> QED BY <1>3, <1>4, <1>5, <1>6, <1>7, <1>8 DEF Next, Managing, Stopping, Working

LEMMA LeftStep ==
    ASSUME LInv, ClosedBehind, NothingLeftOpen, [Next]_vars
    PROVE  NothingLeftOpen'
<1> SUFFICES ASSUME exit' = "hooks"
             PROVE  open' \subseteq Loops \cup Clients
  BY DEF NothingLeftOpen
<1>1. CASE exit = "hooks"
  <2>1. phase = "exited"
    BY <1>1, LifecycleAssumption DEF LInv, Placed, Alive
  <2>2. ~Working
    BY <2>1, WorkKeeps DEF LInv, Alive
  <2>3. UNCHANGED vars
    BY <2>1, <2>2 DEF Next, Managing, Stopping, Working, Build, BuildFails, StartHook,
       StartFails, Signal, StopHook, NextHook, Stopped, CutShort
  <2> QED BY <1>1, <2>3 DEF vars, NothingLeftOpen
<1>2. CASE exit # "hooks"
  <2>1. Stopped
    BY <1>2, WorkKeeps DEF LInv, Next, Managing, Stopping, Working, Build, BuildFails,
       StartHook, StartFails, Signal, StopHook, NextHook, CutShort, Exit, vars
  <2>2. phase = "stopping" /\ at = 0 /\ open' = open
    BY <2>1 DEF Stopped
  <2> QED BY <2>2 DEF ClosedBehind
<1> QED BY <1>1, <1>2

\* The inductive invariant gives what a request needs.
LEMMA Undisturbed ==
    ASSUME LInv
    PROVE  RequestsUndisturbed
<1> SUFFICES ASSUME Alive, NEW k \in Tasks, Is(k, "request")
             PROVE  Uses \subseteq open
  BY DEF RequestsUndisturbed
<1>1. Serves
  BY DEF Serves
<1>2. phase # "building" /\ (at > ServerAt \/ (phase # "starting" /\ at = ServerAt))
  BY <1>1 DEF LInv, Served
<1>3. ServerAt \in {2, 4, 7} /\ at \in 0..Len(Hooks) /\ Len(Hooks) \in 2..6
  BY HookFacts DEF LInv, TypeOK
<1>4. at >= ServerAt
  BY <1>2, <1>3
<1>5. phase \in {"starting", "running", "stopping"}
  BY <1>2 DEF LInv, TypeOK, Alive
<1> QED BY <1>4, <1>5 DEF LInv, Kept

-----------------------------------------------------------------------------
(* The profile query. *)

QTypes ==
    /\ master \in BOOLEAN /\ replica \in BOOLEAN /\ legacy \in BOOLEAN /\ cache \in BOOLEAN
    /\ query \in [Tasks -> Steps]
    /\ visible \in [Tasks -> BOOLEAN]
    /\ denied \in BOOLEAN /\ failed \in BOOLEAN

\* A task that serves no request has no query under way; a row that was visible
\* stays so, and its query comes out empty only after a failed statement.
Sound(k) ==
    /\ program = "api-read" /\ ~Is(k, "request") => query[k] = "asked"
    /\ visible[k] => replica /\ ~legacy
    /\ query[k] = "absent" /\ visible[k] => failed
AllSound == \A k \in Tasks : Sound(k)

IInv == LInv /\ QTypes /\ AllSound /\ MissingForCause

\* Every step of Profile is a step of Lifecycle, or none.
LEMMA StepImplements ==
    ASSUME [ProfileNext]_allVars
    PROVE  [Next]_vars
<1>1. ASSUME NEW k \in Tasks, Serving(k)
      PROVE  [Next]_vars
  <2>1. Arrive(k) \/ Work(k) \/ UNCHANGED vars
    BY <1>1 DEF Serving, Ask, Hit, Miss, Query, Found, Absent, QueryFails, AnswerAbsent,
                AnswerFound, Fill, Work
  <2> QED BY <2>1 DEF Next
<1>2. ASSUME NEW k \in Tasks, Otherwise(k)
      PROVE  [Next]_vars
  BY <1>2 DEF Otherwise, Next
<1>3. CASE Register \/ Replicate \/ CacheExpires
  BY <1>3 DEF Register, Replicate, CacheExpires
<1>4. CASE Managing
  BY <1>4 DEF Next
<1>5. CASE UNCHANGED allVars
  BY <1>5 DEF allVars
<1> QED BY <1>1, <1>2, <1>3, <1>4, <1>5 DEF ProfileNext

\* A step of one query leaves the others alone.
LEMMA ServeMoves ==
    ASSUME LInv, QTypes, NEW k \in Tasks, Serving(k)
    PROVE  /\ \A j \in Tasks \ {k} : task'[j] = task[j] /\ query'[j] = query[j]
                                     /\ (visible'[j] <=> visible[j])
           /\ query' \in [Tasks -> Steps] /\ visible' \in [Tasks -> BOOLEAN]
           /\ UNCHANGED <<program, master, replica, legacy>>
<1>1. query \in [Tasks -> Steps] /\ visible \in [Tasks -> BOOLEAN]
  BY DEF QTypes
<1>2. /\ program' = program
      /\ \A j \in Tasks \ {k} : task'[j] = task[j]
  <2>1. Arrive(k) \/ Work(k) \/ UNCHANGED vars
    BY DEF Serving, Ask, Hit, Miss, Query, Found, Absent, QueryFails, AnswerAbsent,
           AnswerFound, Fill, Work
  <2>2. CASE Arrive(k) \/ Work(k)
    BY <2>2, WorkMoves DEF LInv
  <2>3. CASE UNCHANGED vars
    BY <2>3 DEF vars
  <2> QED BY <2>1, <2>2, <2>3
<1>3. \/ query' = query
      \/ \E step \in Steps : query' = [query EXCEPT ![k] = step]
  BY DEF Serving, Ask, Hit, Miss, Query, Found, Absent, QueryFails, AnswerAbsent,
         AnswerFound, Fill, Ended, Goto, Steps
<1>4. \/ visible' = visible
      \/ visible' = [visible EXCEPT ![k] = FALSE]
      \/ visible' = [visible EXCEPT ![k] = replica /\ ~legacy]
  BY DEF Serving, Ask, Hit, Miss, Query, Found, Absent, QueryFails, AnswerAbsent,
         AnswerFound, Fill, Ended
<1>5. UNCHANGED <<master, replica, legacy>>
  BY DEF Serving, Ask, Hit, Miss, Query, Found, Absent, QueryFails, AnswerAbsent,
         AnswerFound, Fill
<1>6. /\ \A j \in Tasks \ {k} : query'[j] = query[j]
      /\ query' \in [Tasks -> Steps]
  BY <1>1, <1>3
<1>7. /\ \A j \in Tasks \ {k} : visible'[j] <=> visible[j]
      /\ visible' \in [Tasks -> BOOLEAN]
  <2>1. CASE visible' = visible
    BY <1>1, <2>1
  <2>2. CASE visible' = [visible EXCEPT ![k] = FALSE]
    BY <1>1, <2>2
  <2>3. CASE visible' = [visible EXCEPT ![k] = replica /\ ~legacy]
    <3>1. (replica /\ ~legacy) \in BOOLEAN
      OBVIOUS
    <3> QED BY <1>1, <2>3, <3>1
  <2> QED BY <1>4, <2>1, <2>2, <2>3
<1> QED BY <1>2, <1>5, <1>6, <1>7

LEMMA SoundSame ==
    ASSUME NEW j \in Tasks, Sound(j), UNCHANGED <<program, replica, legacy>>,
           task'[j] = task[j], query'[j] = query[j], visible'[j] <=> visible[j],
           failed => failed'
    PROVE  Sound(j)'
BY DEF Sound, Is

\* A step of a query keeps it sound.
LEMMA ServeStep ==
    ASSUME LInv, QTypes, AllSound, MissingForCause, NEW k \in Tasks, Serving(k)
    PROVE  Sound(k)' /\ MissingForCause' /\ (failed => failed')
<1>0. /\ query \in [Tasks -> Steps] /\ visible \in [Tasks -> BOOLEAN]
      /\ UNCHANGED <<program, replica, legacy>>
      /\ Sound(k)
  BY ServeMoves DEF QTypes, AllSound
<1>1. task \in [Tasks -> {Idle} \cup Jobs]
  BY DEF LInv, TypeOK, Jobs
<1>2. ASSUME Goto(k, "asked"), visible' = [visible EXCEPT ![k] = FALSE]
      PROVE  query'[k] = "asked" /\ ~visible'[k]
  BY <1>0, <1>2 DEF Goto
<1>3. ASSUME Ended(k) PROVE Sound(k)'
  BY <1>2, <1>3 DEF Ended, Sound
<1>4. CASE Ask(k)
  <2>1. task[k] = Idle /\ ~Is(k, "request")
    BY <1>4, LifecycleAssumption DEF Ask, Arrive, Idling, Is, Idle, Kinds
  <2>2. query[k] = "asked" /\ query' = query /\ failed' = failed /\ denied' = denied
    BY <1>0, <1>4, <2>1 DEF Ask, Sound
  <2>3. visible'[k] <=> (replica /\ ~legacy)
    BY <1>0, <1>4 DEF Ask
  <2> QED BY <1>0, <2>2, <2>3 DEF Sound, MissingForCause
<1>5. CASE Hit(k) \/ Fill(k)
  <2>1. failed' = failed /\ denied' = denied
    BY <1>5 DEF Hit, Fill
  <2>2. CASE Hit(k)
    BY <1>3, <2>1, <2>2 DEF Hit, MissingForCause
  <2>3. CASE Fill(k)
    <3>1. ~Is(k, "request")
      BY <2>3 DEF Fill, Is
    <3>2. query' = query /\ visible' = visible
      BY <2>3 DEF Fill
    <3>3. task'[k] = Idle
      BY <1>1, <2>3 DEF Fill, Return
    <3>4. ~Is(k, "request")'
      BY <3>3, LifecycleAssumption DEF Is, Idle, Kinds
    <3> QED BY <1>0, <2>1, <3>1, <3>2, <3>4 DEF Sound, MissingForCause
  <2> QED BY <1>5, <2>2, <2>3
<1>6. ASSUME NEW kind, NEW pc, Become(k, kind, pc), kind = "request"
      PROVE  Is(k, "request")'
  BY <1>1, <1>6 DEF Become, Is
<1>7. CASE Miss(k)
  <2>1. Is(k, "request") /\ query' = [query EXCEPT ![k] = "missed"]
        /\ UNCHANGED <<task, failed, denied, visible>>
    BY <1>7 DEF Miss, Reads, Goto, vars
  <2>2. Is(k, "request")' /\ query'[k] = "missed"
    BY <1>0, <2>1 DEF Is
  <2> QED BY <1>0, <2>1, <2>2 DEF Sound, MissingForCause
<1>8. CASE Query(k)
  <2>1. Alive /\ program = "api-read" /\ Is(k, "request") /\ query[k] = "missed"
        /\ UNCHANGED <<failed, denied, visible>>
    BY <1>8 DEF Query, Reads
  <2>2. "db" \in open
    BY <2>1, Undisturbed DEF RequestsUndisturbed, Uses
  <2>3. Acquire(k) /\ query' = query
    BY <1>8, <2>2 DEF Query
  <2>4. Is(k, "request")'
    BY <1>6, <2>1, <2>3 DEF Acquire, Is
  <2> QED BY <1>0, <2>1, <2>3, <2>4 DEF Sound, MissingForCause
<1>9. CASE Found(k) \/ Absent(k) \/ QueryFails(k)
  <2>1. Is(k, "request") /\ Release(k) /\ UNCHANGED <<denied, visible>>
    BY <1>9 DEF Found, Absent, QueryFails, Reads
  <2>2. Is(k, "request")'
    BY <1>6, <2>1 DEF Release, Is
  <2>3. \/ Goto(k, "found") /\ failed' = failed
        \/ Goto(k, "absent") /\ (~replica \/ legacy) /\ failed' = failed
        \/ failed'
    BY <1>9 DEF Found, Absent, QueryFails
  <2>4. \/ query'[k] = "found" /\ failed' = failed
        \/ (~replica \/ legacy) /\ failed' = failed
        \/ failed'
    BY <1>0, <2>3 DEF Goto
  <2>5. visible'[k] => replica /\ ~legacy
    BY <1>0, <2>1 DEF Sound
  <2> QED BY <1>0, <2>1, <2>2, <2>4, <2>5 DEF Sound, MissingForCause
<1>10. CASE AnswerAbsent(k)
  <2>1. query[k] = "absent" /\ Ended(k) /\ failed' = failed
        /\ (denied' <=> denied \/ visible[k])
    BY <1>10 DEF AnswerAbsent
  <2> QED BY <1>0, <1>3, <2>1 DEF Sound, MissingForCause
<1>11. CASE AnswerFound(k)
  <2>1. Ended(k) /\ failed' = failed /\ denied' = denied
    BY <1>11 DEF AnswerFound
  <2> QED BY <1>3, <2>1 DEF MissingForCause
<1> QED BY <1>4, <1>5, <1>7, <1>8, <1>9, <1>10, <1>11 DEF Serving

\* The histories and the cache keep their types.
LEMMA QTypesStep ==
    ASSUME LInv, QTypes, [ProfileNext]_allVars
    PROVE  QTypes'
<1>1. ASSUME NEW k \in Tasks, Serving(k)
      PROVE  QTypes'
  <2>1. cache' \in BOOLEAN
    <3>1. cache' = cache \/ cache' \in {cache, cache \/ "redis" \in open}
      BY <1>1 DEF Serving, Ask, Hit, Miss, Query, Found, Absent, QueryFails, AnswerAbsent,
                  AnswerFound, Fill
    <3>2. (cache \/ "redis" \in open) \in BOOLEAN
      OBVIOUS
    <3> QED BY <3>1, <3>2 DEF QTypes
  <2>2. denied' \in BOOLEAN
    <3>1. denied' = denied \/ denied' = (denied \/ visible[k])
      BY <1>1 DEF Serving, Ask, Hit, Miss, Query, Found, Absent, QueryFails, AnswerAbsent,
                  AnswerFound, Fill
    <3>2. (denied \/ visible[k]) \in BOOLEAN
      OBVIOUS
    <3> QED BY <3>1, <3>2 DEF QTypes
  <2>3. failed' \in BOOLEAN
    <3>1. failed' = failed \/ failed' = TRUE
      BY <1>1 DEF Serving, Ask, Hit, Miss, Query, Found, Absent, QueryFails, AnswerAbsent,
                  AnswerFound, Fill
    <3> QED BY <3>1 DEF QTypes
  <2>4. /\ query' \in [Tasks -> Steps] /\ visible' \in [Tasks -> BOOLEAN]
        /\ UNCHANGED <<master, replica, legacy>>
    BY <1>1, ServeMoves
  <2> QED BY <2>1, <2>2, <2>3, <2>4 DEF QTypes
<1>2. CASE UNCHANGED profileVars
  BY <1>2 DEF QTypes, profileVars
<1>3. CASE Register \/ Replicate \/ CacheExpires
  BY <1>3 DEF Register, Replicate, CacheExpires, QTypes
<1>4. CASE UNCHANGED allVars
  BY <1>2, <1>4 DEF allVars
<1> QED BY <1>1, <1>2, <1>3, <1>4 DEF ProfileNext, Otherwise

LEMMA SoundStep ==
    ASSUME IInv, [ProfileNext]_allVars
    PROVE  AllSound' /\ MissingForCause'
<1> USE DEF IInv
<1>1. ASSUME NEW k \in Tasks, Serving(k)
      PROVE  AllSound' /\ MissingForCause'
  <2>1. Sound(k)' /\ MissingForCause' /\ (failed => failed')
    BY <1>1, ServeStep
  <2>2. ASSUME NEW j \in Tasks, j # k
        PROVE  Sound(j)'
    BY <1>1, <2>1, <2>2, ServeMoves, SoundSame DEF AllSound
  <2> QED BY <2>1, <2>2 DEF AllSound
<1>2. ASSUME UNCHANGED profileVars, program' = program, task' = task
      PROVE  AllSound' /\ MissingForCause'
  BY <1>2 DEF AllSound, Sound, MissingForCause, profileVars, Is
<1>3. ASSUME NEW k \in Tasks, Otherwise(k)
      PROVE  AllSound' /\ MissingForCause'
  <2>1. UNCHANGED <<replica, legacy, query, visible, denied, failed>>
    BY <1>3 DEF Otherwise, profileVars
  <2>2. program # "api-read" /\ program' = program
    <3>1. program # "api-read" /\ (Arrive(k) \/ Deliver(k) \/ Tick(k) \/ Work(k))
      BY <1>3 DEF Otherwise
    <3> QED BY <3>1, WorkMoves DEF LInv
  <2> QED BY <2>1, <2>2 DEF AllSound, Sound, MissingForCause
<1>4. CASE Managing /\ UNCHANGED profileVars
  <2>1. program' = program /\ task' = task
    BY <1>4 DEF Managing, Build, BuildFails, StartHook, StartFails, Signal, Stopping, StopHook,
                NextHook, Stopped, CutShort
  <2> QED BY <1>2, <1>4, <2>1
<1>5. CASE Register \/ CacheExpires
  <2>1. UNCHANGED <<program, task, replica, legacy, query, visible, denied, failed>>
    BY <1>5 DEF Register, CacheExpires, vars
  <2> QED BY <2>1 DEF AllSound, Sound, MissingForCause, Is
<1>6. CASE Replicate
  <2>1. UNCHANGED <<program, task, legacy, query, visible, denied, failed>> /\ ~replica
    BY <1>6 DEF Replicate, vars
  <2>2. \A k \in Tasks : ~visible[k]
    BY <2>1 DEF AllSound, Sound
  <2> QED BY <2>1, <2>2 DEF AllSound, Sound, MissingForCause, Is
<1>7. CASE UNCHANGED allVars
  BY <1>2, <1>7 DEF allVars, vars
<1> QED BY <1>1, <1>3, <1>4, <1>5, <1>6, <1>7 DEF ProfileNext

-----------------------------------------------------------------------------
\* Profile is Lifecycle with a query in it.
THEOREM ProfileImplementsLifecycle == ProfileSpec => Spec
<1>1. ProfileInit => Init
  BY DEF ProfileInit
<1>2. [ProfileNext]_allVars => [Next]_vars
  BY StepImplements
<1> QED BY <1>1, <1>2, PTL DEF ProfileSpec, Spec

\* IInv is the inductive invariant of the profile query in its process.
THEOREM Invariance == ProfileSpec => []IInv
<1>1. ProfileInit => IInv
  <2> SUFFICES ASSUME ProfileInit PROVE IInv
    OBVIOUS
  <2>1. LInv
    BY LifecycleInit DEF ProfileInit
  <2>2. /\ legacy \in BOOLEAN /\ master = legacy /\ replica = legacy /\ cache = FALSE
        /\ query = [k \in Tasks |-> "asked"] /\ visible = [k \in Tasks |-> FALSE]
        /\ denied = FALSE /\ failed = FALSE
    BY DEF ProfileInit
  <2>3. QTypes
    BY <2>2 DEF QTypes, Steps
  <2>4. AllSound
    BY <2>2 DEF AllSound, Sound
  <2>5. MissingForCause
    BY <2>2 DEF MissingForCause
  <2> QED BY <2>1, <2>3, <2>4, <2>5 DEF IInv
<1>2. IInv /\ [ProfileNext]_allVars => IInv'
  <2> SUFFICES ASSUME IInv, [ProfileNext]_allVars PROVE IInv'
    OBVIOUS
  <2>1. LInv'
    BY StepImplements, LifecycleStep DEF IInv
  <2>2. QTypes'
    BY QTypesStep DEF IInv
  <2> QED BY <2>1, <2>2, SoundStep DEF IInv
<1> QED BY <1>1, <1>2, PTL DEF ProfileSpec

\* The variables of the process and of the query keep their types.
THEOREM TypeCorrect == ProfileSpec => []ProfileTypeOK
<1>1. IInv => ProfileTypeOK
  BY DEF IInv, LInv, QTypes, ProfileTypeOK
<1> QED BY <1>1, Invariance, PTL

\* While a request is under way the pool and Redis are there for it (the order in
\* which the five programs append their hooks, and fx's stopping in reverse).
THEOREM RequestsAreUndisturbed == Spec => []RequestsUndisturbed
<1>1. LInv => RequestsUndisturbed
  BY Undisturbed
<1>2. Init => LInv
  BY LifecycleInit
<1>3. LInv /\ [Next]_vars => LInv'
  BY LifecycleStep
<1> QED BY <1>1, <1>2, <1>3, PTL DEF Spec

\* A process that ends by its hooks leaves no request unanswered and no statement
\* cut off (Shutdown, GracefulStop and Close of the pool wait for them).
THEOREM StopsCutNothingOff == Spec => []NothingCutOff
<1>1. LInv => NothingCutOff
  BY DEF LInv
<1>2. Init => LInv
  BY LifecycleInit
<1>3. LInv /\ [Next]_vars => LInv'
  BY LifecycleStep
<1> QED BY <1>1, <1>2, <1>3, PTL DEF Spec

\* A process that ends by its hooks has closed everything that has an OnStop, after a
\* start that failed half-way too: what is left are the relay and the consumer, and
\* the gRPC clients of api-write and worker-events, which their mains never close.
THEOREM StopsCloseEverything == Spec => []NothingLeftOpen
<1>1. CInv => NothingLeftOpen
  BY DEF CInv
<1>2. Init => CInv
  <2> SUFFICES ASSUME Init PROVE CInv
    OBVIOUS
  <2>1. open = {} /\ phase = "building" /\ LInv
    BY LifecycleInit DEF Init
  <2> QED BY <2>1 DEF CInv, Owned, ClosedBehind, NothingLeftOpen
<1>3. CInv /\ [Next]_vars => CInv'
  BY LifecycleStep, OwnedStep, ClosedStep, LeftStep DEF CInv
<1> QED BY <1>1, <1>2, <1>3, PTL DEF Spec

\* Only a failed statement makes a readable profile disappear (FindByID of
\* api-read, the cache, and the stop of the process).
THEOREM DeniedForCause == ProfileSpec => []MissingForCause
<1>1. IInv => MissingForCause
  BY DEF IInv
<1> QED BY <1>1, Invariance, PTL
=============================================================================
