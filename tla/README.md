# Verification of auth-system

TLA+ specifications of the identity backend in this repository (`src/`), model
checked with TLC on small instances, and theorems about them that TLAPS has
checked for all instances. File and line references are to `src/`.

## 1. The system

| Part | State it keeps | Operations |
| :--- | :--- | :--- |
| `api-write` (`cmd/api-write`, `internal/identity`) | none of its own; a relay goroutine, one AMQP channel | register, login, verify-mfa, refresh-token, logout, confirm-email, forgot-password, reset-password, setup-mfa, roles |
| `worker-events` (`cmd/worker-events`) | a relay goroutine and a consumer goroutine, one AMQP channel each | handles register, update_roles, UserRegistered, UserForgotPasswordRequested, UserPasswordUpgradeRequested |
| PostgreSQL (master) | `users`, `outbox_events` | `Save`, `Update`, `UpdateRoles`, `SaveCommand`, the relay's SELECT and UPDATE |
| RabbitMQ | exchange, one durable queue | routes, pushes, requeues |
| Redis | refresh tokens, MFA challenges, confirmation and reset tokens, rate counters, cached profiles | GET, SET with TTL, DEL, INCR, EXPIRE |
| `api-read` | a read-only pool, a cache in Redis | profile query |
| `grpc-password`, `grpc-token` | keys and parameters only | Hash, Compare; GenerateToken, ValidateToken |

How they interact: the API writes *commands* to the outbox table; relays (one in
every `api-write`, one in every `worker-events`) publish them to RabbitMQ and mark
them; a worker's consumer handles them, calls `grpc-password`, writes the user and
a further *event* to the outbox, which takes the same way. Everything else (login,
sessions, confirmation, reset) is synchronous between a handler, PostgreSQL, Redis
and the gRPC services, with no transaction or lock spanning two of them.

What is hard here: at-least-once delivery over an unconfirmed channel with two
relays on one table; goroutines bound to contexts; read-modify-write of a user's
row by concurrent use cases; multi-step protocols over Redis and PostgreSQL that
may stop after any step; retries of what was already done. The hazards, each at
its line and with the properties that cover it, are listed in `PROJECT.json`.

What makes each part correct, in a sentence:

- *Outbox pipeline*: a row recorded as published is under way, handled or known
  to be dropped; rows keep coming until they are.
- *Registration*: one user and one announcement per address, from a command that
  asked for it; nothing is acknowledged before that.
- *Accounts*: columns a use case does not mean to change keep their value unless
  two writers race; a link is spent by its effect and not by a failure, and every
  link comes to rest.
- *Sessions*: a session does not vanish, is not resurrected, is not shared, and is
  spent in the end.
- *Access*: the right to change roles comes from somebody who had it; a role
  change is undone only by an older command that came late.
- *Processes*: a stop leaves no request without the connections it uses and none
  unanswered.
- *Profile query*: a user that can be read is not reported as missing.
- *Rate limiter*: the places of a window are given out exactly, and windows end.
- *Password hashes*: every stored hash stays comparable; an upgrade keeps the
  password; an older password returns only with what was under way before a reset.

## 2. Modules

| Module | Stands for | Extends / composes |
| :--- | :--- | :--- |
| `Topology` | event types, routing keys, the queue's binding, the worker's switch | - |
| `DeliveryContract` | abstract: what a transactional outbox promises | - |
| `Delivery` | relay, publisher, broker, consumer, contexts, crashes | `Topology`; implements `DeliveryContract` |
| `UserDirectory` | abstract: an address is given away once, for good | - |
| `Registration` | `RegisterUserUseCase`, `ProcessUserRegistrationUseCase`, `Save`; bus taken from the contract | implements `UserDirectory` |
| `UserRow` | abstract: a row whose columns are changed one at a time, until writers race | - |
| `Accounts` | the five use cases that rewrite a user's row, with their tokens | implements `UserRow` |
| `Sessions` | login, verify-mfa, refresh, logout over Redis | - |
| `FixedWindow` | abstract: a window whose places are given out one at a time | - |
| `RateLimiter` | the fixed window in front of the public commands | implements `FixedWindow` |
| `Passwords` | hash versions in `grpc-password`, the upgrade on login, resets and the other writers of the hash beside it | - |
| `Access` | the roles in access tokens, the guard and the admin route, role commands late or twice | - |
| `Lifecycle` | how the five programs start and stop, and the work under way meanwhile | - |
| `Profile` | the profile query of `api-read` with its cache and replica, in a process that starts and stops | extends `Lifecycle`, implements it |
| `DeliveryProofs`, `RegistrationProofs`, `AccountsProofs`, `SessionsProofs`, `PasswordsProofs`, `RateLimiterProofs`, `AccessProofs`, `ProfileProofs` | theorems | the module they are named after (`ProfileProofs`: also those of `Lifecycle`) |
| `MCDelivery`, `MCRegistration`, `MCAccounts`, `MCSessions`, `MCRateLimiter`, `MCPasswords`, `MCAccess`, `MCProfile` | constants for TLC | the module they are named after |

### Delivery

`relay[p]` is the position of the relay goroutine of process `p` in
`processOutbox`; `batch` is what is left of its open result set and `toMark` is
`eventsToMark`. `Poll`, `PublishOk`/`PublishErr`, `Mark`/`MarkFails` are the query,
the body of the loop, and the UPDATE with its error branch. `wire` holds frames
that `Publish` has written and the broker has not read, which is where a message
can be lost unnoticed. `Route` applies `Topology` to them. `buffer` and `handling`
are the deliveries pushed to a consumer and the one its goroutine works on;
`linked` says whether that channel still exists, so that an ack after a lost link
has no effect. `ctxDone[p]` is the cancellation of the context the goroutines
run on: fx's start context in workers, and `context.Background()`, never
cancelled, in the API's relay.

Messages are counted per row rather than kept in order: a nack or a lost link
reorders anyway, and no property speaks of order. Ids stand for `created_at` in
the relay's ORDER BY.

`ExtraBindings` is the set of bindings made outside the code. It is `{}` as
deployed; the runs that ask whether the pipeline works *given* a matching binding
add one from the relay's exchange. With the worker's own pattern `user.*` it routes
the two-word keys of events but not the three-word keys of commands
(`user.user.register`), so both fates are explored.

### Registration

A request is checked and then committed as a command, in two steps (the lookup is
not repeated). `Send`/`SendAgain` are the bus as `DeliveryContract` describes it:
a command arrives, possibly more than once. A worker's position in
`HandleCommand` is `received`, `absent` (no user found), `hashed`, `saved`; the
handler's return is an acknowledgement or a requeue. `Fail` is any error or crash
before the acknowledgement and `CommitUnknown` is a COMMIT whose answer is lost.
`NewEmail` is a constant function from what clients type to what the database
stores, so that two spellings may name one address. The composition with
`Delivery` is through the contract, which `Delivery` is proved to implement. A
command with an empty password is accepted and then refused by the hasher at every
delivery (`HashRefused`), and one whose address is longer than its column by the
database (`SaveRefused`; `Storable` are the addresses that fit, since `NewEmail`
bounds no length). `UsableSettle` therefore speaks of the others (section 3).

### Accounts

One user's row, and the executions in progress. `Get` (confirm and reset find
their token), `Find` and `Begin` (FindByID copies the row, `Restored` applying
`RestoreUser`), `Write` (the change on the copy and the UPDATE of all its
columns), `WriteRoles`, `Burn` (DEL), and `Abort` anywhere. `Kinds` says which use
cases are reached: as wired, `setup-mfa` panics before its use case
(`http_handler.go:113`) and upgrade commands are never sent (one hash version), so
`MCAccounts_confirm` takes the other three; `MCAccounts` takes all five, since the
use cases are in the code and one line away from being reached. `timed` are the
tokens stored with a TTL: only these expire. `intended`, `raced`, `used`, `left`,
`minted` and `expired` are history; `left` are the tokens whose DEL failed or was
never reached. A confirmation has no effect on the row (section 3): of it, `used`
says that its UPDATE was executed.

### Sessions

`ReadRefresh`, `StoreNew`, `DeleteOld` are the GET and the two commands of the
pipeline; `ReadChallenge`, `BurnChallenge` (or `BurnFails`, whose error the code
ignores) and `OpenSession` are VerifyMFA; `LoginPassword` or `LoginChallenge` is
Login after a matching password; `Abort` is a failing call, a connection broken
inside the pipeline, or a crash. A new token is a uuid, fresh with respect to what
was stored and what other requests have drawn. `heirs` records what was stored in
whose place, and `timed` which keys were stored with a TTL: only these expire. What
becomes of an answer is not modelled, so `GoneHasHeir` says that the heir is in Redis
and not that the client knows it. Several steps that only read are merged with the next one where what
they read does not change afterwards (the user's row in Login: `EnableMFA` is the
only change and MFA is never disabled).

### RateLimiter

One key. `Incr` and `Expire` are the two Redis commands, with the window free to
end, and other requests free to run, between any two steps of a request
(`request[q].window` says whether the key it counted on still exists). `FailOpen`
is an INCR that was not executed, `AnswerLost` one that was, whose answer did not
arrive; `ExpireFails` and `Crash` lose the EXPIRE. `admitted`, `wasted` and
`leaked` are history. Requests of different api-write processes do not differ,
since a process keeps no state of its own here. How `getIP` makes the key is left
out.

### Passwords

A hash is its version prefix (`None` for the unprefixed form) and the password it
was made of. `Services` and `Current` are what `NewGrpcServer` builds, `Known` and
`NeedsUpgrade` what `Compare` computes. `Find`, `CompareLegacy`, `Rehash`,
`SaveUpgrade` are the steps of Login (it goes on in `Sessions`); `Handle` and
`HandleAgain` are the worker. `Deploy` replaces the running `grpc-password` by the
next of `Releases`, the extension its `main` announces ("Quando V2 existir, basta
adicionar aqui"); one release runs at a time, so a rolling update, in which an
old process is asked about a new hash, is not covered. With one release the
upgrade is never reached, as in the repository today (`OneServiceNoUpgrade`).

`Load` and `WriteBack` are the use cases that write the hash without meaning to:
ConfirmEmail and SetupMFA write the whole copy back that FindByID made
(`confirm_email_usecase.go:48` and `:59`, `setup_mfa_usecase.go:29` and `:52`). So an
older password can return in three ways: by an upgrade command handled after a
reset, by a login that sends one, and by such a copy. The code has nothing against
any of them, and `OnlyAResetUnsettles` says what does hold: each of them was under way
before the reset was written. The upgrade's own FindByID is not a step, since the
one column of interest here is the one it sets.

### Access

`Begin` is the read of the user in Login, RefreshToken or VerifyMFA (`login[l]` is
the copy, with the role `user` that `RestoreUser` adds), `Sign` is `Generate` of
`grpc-token`, `Abandon` its failure. A token is its subject, its roles and the key
it was signed with; `Expire` is its 24 hours. `Admit` is `JWTGuard`,
`RequireRoles("admin")` and the decoding of the body, `Accept` the lookup and
`SaveCommand`, with `Fail` between. `Apply`, `Ack` and `Redeliver` are
`ProcessUserRolesUpdateUseCase` on a bus that delivers at least once and in any
order, which is what `Delivery` shows of it. `log` is the outbox seen as the order
in which commands were stored. `FirstAdmins` have the role from outside: no code
grants it without an admin. `Null` is a body without roles.

`SigningKey` and `GuardKey` are constants of their own because the code takes them
from two places: `grpc-token` signs with a pair under `configs/rsa`, the guard reads
the file `TLS_CERT_PATH` names (`configs/envs/.env.api-write.example:9`: a server
certificate), while `README.md:172` shows the public key of the signer. With
different keys no token passes and `Admit` never happens; the run gives both the
same value, as the README intends.

### Lifecycle and Profile

`HooksOf` lists, for each program, the hooks in the order in which its constructors
append them, which fx derives from their parameters. `Build` is a constructor that
connects and pings, `StartHook` an OnStart, `StopHook` the beginning of an OnStop,
`NextHook` its end (`Drained` says what it waits for). `BuildFails`, `StartFails`
and `CutShort` are the fatal paths: no connection, a port that is taken, SIGKILL, a
server's `logger.Fatal`, fx's stop timeout. A task is a request, a delivery, a tick
of the relay or, in `api-read`, the goroutine that fills the cache; it is
`querying` while it holds a connection of the pool. The relay and the consumer have
no OnStop, and `Tick` goes on while hooks are being stopped. The gRPC clients of
`api-write` and `worker-events` are connections without any hook: constructors open
them (`Dialled`; `cmd/api-write/main.go:214`, `cmd/worker-events/main.go:122`) and
nothing closes them.

`Profile` adds the query to `Lifecycle`'s requests: `Hit`, `Miss`, `Query`, `Found`,
`Absent`, `QueryFails`, then the answer, and `Fill` for `SetProfile` in its own
goroutine. Each of its actions contains the action of `Lifecycle` that it is
(`Found` a `Release`, `AnswerFound` an `AnswerAndFill`, ...), so that every step of
`Profile` is one of `Lifecycle` or leaves the process alone
(`ProfileImplementsLifecycle`). For the programs other than `api-read`
(`Otherwise`) it is `Lifecycle` itself. `Register` and `Replicate` are the row and
the replica's delay, `legacy` a row whose `totp_secret` is NULL, which `Scan` into a
string refuses. `visible` remembers whether the row could be read when the request
came.

## 3. Runs

| Run | Bounds | Result |
| :--- | :--- | :--- |
| `delivery_safety` | 2 rows, 2 event types, 1 API, 1 worker (2 relays), batch of 1, 1 fault | `TypeOK`, `MarkedIsAccounted`, `KeepsContract` hold (469 385 states) |
| `delivery_progress` | 1 row, routable type, 2 relays, 2 faults | `OutboxDrains`, `HandledUnlessCutOff` hold |
| `delivery_as_wired` | 1 row, no extra binding, no fault | `PublishedIsDelivered` is violated |
| `delivery_start_context` | 1 row, routable, no fault | `EventuallyHandled` is violated |
| `registration` | 2 requests, two spellings of an address, another one, one too long and an invalid one, 2 passwords, 2 workers, 2 faults | `TypeOK`, `AnnouncedOnce`, `SettledHasUser`, `OwnerAsked`, `ImplementsDirectory`, `UsableSettle` hold (68 621 states) |
| `accounts` | 2 executions, all kinds, 1 token per kind, 2 hashes, 1 secret, 1 fault | `TypeOK`, `MFAPaired`, `RolesNotLost`, `LostOnlyByRace`, `TokenNotWasted`, `UsedIsBurnt`, `LinksRest` hold (358 844 states) |
| `accounts_confirm` | 1 execution, kinds as wired, no fault | `ConfirmedIsVerified` is violated |
| `sessions` | 2 requests, 3 refresh tokens, 1 challenge, 1 fault | `TypeOK`, `GoneHasHeir`, `LogoutIsFinal`, `TradedIsBurnt`, `AllSpentInTheEnd` hold (114 458 states) |
| `access` | 2 users, one a first admin, 1 login, 2 tokens, 1 request, 2 commands | `TypeOK`, `HandedDown`, `OnlyLateOnesRevert`, `RevocationEnds` hold (253 386 states) |
| `profile` | 5 programs, 3 tasks, 1 user | `ProfileTypeOK`, `RequestsUndisturbed`, `NothingCutOff`, `MissingForCause`, `StopEnds` hold (58 334 states) |
| `rate_limiter` | 3 requests, limit 2, counter up to 4, 2 faults | `TypeOK`, `PlacesAddUp`, `WindowsEnd` hold (36 963 states) |
| `passwords` | 2 requests, 2 passwords, releases v1 and v1+v2, 1 fault | `TypeOK`, `AlwaysComparable`, `OnlyChosen`, `OnlyAResetUnsettles`, `LegacyReplaced` hold (66 184 states) |

`MaxFaults`, `MaxCount` of the rate limiter and `MaxCommands` of `Access` are the
only bounds on behaviour; `MaxFaults` limits crashes, lost connections, failed calls
and lost answers together (`Access` and `Profile` bound no faults). The other limits are sizes of constant
sets. Two rows with a batch of one make both relays hold different or equal rows
and make marking lag behind polling; two requests on one address with two workers
give every race for the UNIQUE constraint; two executions are what a lost update
takes; three tokens give a rotation, its heir, and a second heir or login; two tokens
and two commands give an admin who is demoted while a token of its is valid and an
older command overtakes a newer one; three tasks let a request, a statement and a
tick overlap with a stop. One or two faults suffice to put a failure between any two steps and one more in its
repair; the theorems of section 5 remove these bounds for safety.

`CHECK_DEADLOCK` is off in every configuration: with all rows handled or all
processes down, all requests answered, or all tokens drawn, the system has nothing
left to do.

### What the violations say

Each quotes a claim of the repository that the code does not keep (`findings` in
`PROJECT.json`):

- `delivery_as_wired`: the relay publishes to `auth.events`, the queue is bound to
  `auth.commands`; the broker drops the message and the row is marked.
- `delivery_start_context`: the consumer goroutine ends with fx's start context.
- `accounts_confirm`: no UPDATE writes `email_verified`.

Other disagreements, met while modelling, that no run repeats:

- a command with an empty password is refused by the hasher and requeued for ever,
  although the comment at `process_user_registration_usecase.go:36` wants invalid
  data acknowledged so that it does not become a poison message (the call at `:49`
  fails and its error is returned); `Registration` allows it, and `UsableSettle`
  excludes it;
- an address of more than 255 characters passes `NewEmail` (`email.go:13`), is answered
  201, and is refused by its column (`000001_initial_schema.up.sql:5`) at every
  delivery: its command circulates for ever too, and is excluded in the same way;
- a confirmation or an MFA setup that has read the user before a password reset writes
  the old hash back after it (`postgres_repository.go:156`); `Accounts` says so with
  `raced`, `Passwords` with `Load` and `WriteBack`;
- concurrent refreshes of one token both succeed (`refresh_token_usecase.go:77`: the
  GET is not part of the pipeline; `README.md:85` says the old token is destroyed
  atomically); `Sessions` allows it, and `GoneHasHeir` says "an heir", not "one";
- a role command without `roles` in its body (`http_handler.go:158`) becomes a nil
  slice, so NULL for a NOT NULL column: UPDATE fails and the command circulates for
  ever (`process_user_roles_update_usecase.go:43`); in `Access` it is `Null`;
- the guard's key is not the signer's as the environment files have it (section 2,
  Access);
- `SetupMFA` reads a context key nobody sets and panics (`http_handler.go:113`).

## 4. Fairness

Weak fairness of each process's own steps (`RelayStep`, `ConsumerStep`,
`WorkerStep`, `Proceed`): goroutines that can run do run, tickers tick and
calls return. Weak fairness of the broker, and of Redis removing what has outlived
its TTL. `Registration` asks strong fairness of receiving each command: the queue
is first in, first out, so a command is not overtaken for ever while workers
become free again and again. `Access` asks only that tokens expire. `Profile` asks
that fx runs hook after hook and that statements and handlers return; for the relay's
tick, strong fairness of its return, since it takes connections in between and is
able to return again and again. Nothing is asked of requests, which may keep coming:
`StopEnds` holds because the first step of an OnStop stops accepting them. `Passwords` asks weak fairness of `Handle`: it takes
a bus that delivers, which `Delivery` shows to depend on a binding the code does
not make. No fairness for faults, client requests, commits of
new rows, the expiry of contexts, or an operator's restart: liveness properties
name these as alternatives (`HandledUnlessCutOff`, `OutboxDrains`) rather than
assume them away.

## 5. Theorems

All are of the form `Spec => []...`, or refinement, for arbitrary constants under
the named assumptions (`DeliveryAssumption`, `RegistrationAssumption`, ...), which
say that sizes are numbers, that special values are distinct, that roles are names
of roles, and, for `Passwords`, that releases keep the services of earlier ones.

**DeliveryProofs.** `MarkedIsAccounted` alone is not inductive: the UPDATE marks
`toMark`, so what is in `toMark` must already be accounted for, and an ack marks a
row done, so what a handler works on must still be at the broker or done. That is
`Bookkeeping`. `OnlyStoredTravel` further needs that result sets hold stored rows.
The invariant `IInv` is their conjunction with `TypeOK`; one lemma per action shows
that rows in transit only leave it into `done` or `lost`. `PipelineKeepsContract`
maps every step to a step of `DeliveryContract` or a stutter.

`ArrivalsAreRouted` is an invariant of its own (whatever a requeue or a lost link does
to a message, it was routed once) and turns the two gaps of the wiring into theorems
about every number of rows, processes and faults: `NothingArrives` (no binding to the
relay's exchange, so nothing is ever handled) and `CommandsAreStranded` (bindings of two
words do not match the three-word keys of commands). `delivery_as_wired` shows one
trace of the first. `MarkedRowsAreLeft` is an action property: the SELECT and the loop
are the only steps that add to a batch or a wire, and both start from unmarked rows or
from a batch.

**RegistrationProofs.** `AnnouncedOnce` is inductive with `TypeOK`.
`SettledHasUser` needs `WorkersHoldCommands` (a worker at `saved` has its user;
commands in the queue are committed and valid), and so does `OwnerAsked` (a
worker at `hashed` has a non-empty password). `RegistrationImplementsDirectory`
maps `SaveCommand` to `Accept`, `Save` and `CommitUnknown` to `Create`,
acknowledgements to `Settle`, and the rest to stutters.
`NoCommandMislaid` is the safety half of `UsableSettle`: a sent command is always
somewhere. It is inductive with `WorkersHoldCommands`; its two lemmas, `AckHands` and
`NackHands`, say what becomes of every command when one worker returns.

**SessionsProofs.** The properties say nothing of requests under way, and are not
inductive without them. `Bookkeeping` says what a request holds at each step: the
token it came with was stored once, the one it has drawn is not stored before its
SET and is drawn by nobody else, `stored` means there is an heir, and `burnt` that
the challenge is gone or its DEL failed. `SpentIsForGood` needs it too: only a request
that holds a token stores something in its place. It is the safety half of
`AllSpentInTheEnd`; that every key comes to be spent takes the TTLs and stays with TLC. `SessionsDescend`
gives the tokens numbers that grow from a token to its heirs: a new token has no heirs
yet (`ParentsStored`), so it can be put behind all that there are.

**PasswordsProofs.** `AlwaysComparable` rests on the assumption on releases (every
release has v1 and a newest service, and no release takes one away); `OnlyChosen`
on what a login holds after `Compare` has matched, and a copy of the user from its
load on. `SettledUntilReset` shows where an old password can come from: only from a
command, a login or a copy that was there when the reset was written.
`NothingToUpgrade` is the case of one hash service, as the repository has it: it says
that no upgrade exists, and nothing of the row, which a stale copy may still take back.

**AccountsProofs.** `MFAPaired` includes the copies, since any of them may be written
next. `Bookkeeping` types the executions step by step, says that an execution which
has written with a link is entered in `used` (which is what the DEL relies on for
`TokenNotWasted`), and that use cases not reached have no links. `LostOnlyByRace` needs
no more: without a race a copy's hash and secret are the row's. `EffectsAreBurnt` adds
that an execution past its UPDATE is the one whose token is in `used`, and that a
token gone from Redis is never stored again, so that a DEL, once executed, settles it.

`AtomicUntilTorn` is the refinement of `UserRow`: while nobody has raced, the copy a
use case writes back equals the row in every column but the one it means to change
(`FreshCopy`), so the read and the write together are one atomic change; a stale writer
is `Tear`, which touches the hash and the pair of MFA columns only. `MFAStaysOn` is
what this says of `mfa_enabled`. `NobodyIsEverVerified` is the general form of the
violation `accounts_confirm` shows. `NoMFAWithoutSetup`: as the handlers are wired no
row ever has MFA.

**RateLimiterProofs.** `PlacesAddUp` is the cardinality of the requests that are on
their way with a place; each step adds or removes one of them, by the theorems on finite
sets. It holds together with `EndIsComing`: a window without a TTL has a request that
is about to set it, or a fault has cost it the EXPIRE. `RefusalsHaveCause` and
`LimiterKeepsWindow` are consequences: with the places exactly accounted for, an INCR
within the limit is `Take`, the request's admission `Serve`, a crash `Spoil`, a lost
answer `Waste`, the end of the key `Renew`, and an INCR past the limit no step of
`FixedWindow`.

**AccessProofs.** `HandedDown` speaks of accepted commands; before acceptance the right
travels from a row through a copy and a token to a request, so `Traced` says of each of
the four that the role there belongs to somebody entitled by the log. Entitlement only
grows with the log, which is why a late or repeated command does no harm to it.
`OnlyLateOnesRevert` is inductive with the types.

`PowerComesByCommand` is an action property over the same four places: a user without
the role in any of them (`Powerless`) stays so until a handled command gives its row
the role, and has no command accepted meanwhile. `AnotherKeyIsDead` and
`NobodyCanStart` are the two configurations in which the route never works: the guard's
key is not the signer's, or nobody was made an admin by hand.

**ProfileProofs.** The five lists of hooks enter through one lemma, `HookFacts`: where
the server and the pool stand, and that nothing handlers use comes after the server.
From then on `ServerAt` and `DbAt` suffice: requests exist only between the server's
hooks (`Served`), connections are held only between the pool's (`Pooled`), and what
handlers use is open whenever the server may be (`Kept`, which `Built` prepares).
`MissingForCause` then needs that a visible row stays visible and that a query is empty
only after a failed statement (`Sound`); the closed pool, the case that would break it,
is excluded by `RequestsUndisturbed`. `StopsCloseEverything` speaks of what has an
OnStop: the relay, the consumer and the gRPC clients are left to the operating system.
It needs that a stop leaves nothing open behind it (`ClosedBehind`) and, for a start that failed half-way, that only
the last hook of a program can fail (`LastFails`).

Proved without a run of their own: the formulas of the theorems above that section 3
does not name (`NothingMislaid`, `SpentForGood`, `KeepsWindow`, `OnlyACommandRearms`,
`NothingArrivesAsWired`, `WritesAreAtomic`, `OneServiceNoUpgrade`, `NothingLeftOpen`, ...).
They stand in the module whose variables they speak of, beside the properties the
runs check.

Only model-checked: every liveness property (fairness and ENABLED are out of the
prover's reach): `OutboxDrains`, `HandledUnlessCutOff`, `UsableSettle`, `LinksRest`,
`AllSpentInTheEnd`, `RevocationEnds`, `StopEnds`, `WindowsEnd`, `LegacyReplaced`. Every safety
invariant and action property of the passing runs, and every refinement, is proved.

## 6. Not modelled, and why

- *Argon2, RSA, TOTP*: arithmetic; only success, refusal and failure matter here.
- *HTTP decoding, status codes, nginx, telemetry export, health probes,
  configuration, generated code*: no state of interest, or external. Of the pools,
  only that Close waits for connections is modelled, not their size.
- *Code without a caller*: `ValidateToken` of `grpc-token`, `ReadSetup`, `FindByEmail`
  of the read repository.
- *Time*: TTLs and timeouts are events that may happen at any moment.
- *Age of a cached profile*: its columns (id, email, created_at) have no writer, so a
  profile is present or absent, never old.
- *Rows older than the migrations* outside the profile query (NULL `totp_secret`,
  `postgres_repository.go:138`): there too every lookup of such a user fails.
- *Order across subsystems*: a confirmation link following its registration through
  the pipeline is not composed; each part meets the others through its contract.

## 7. Plan

Done: all modules of section 2; proofs of every safety property that the passing runs
check; the refinements of the four abstract specifications; the action properties and
the general forms of two of the three violations.

What could follow:

1. Proofs: the general form of the third violation (nothing is handled by a worker whose
   start context has ended); an abstract specification of sessions (a forest of tokens)
   and of the role log, with their refinements; the ranking arguments behind `StopEnds`
   and `WindowsEnd` as action properties.
2. Composition of `Registration`, `Delivery` and `Accounts` on one outbox, so that
   a confirmation link follows a registration; `Registration` over the real
   `Delivery` instead of its contract, as a refinement.
3. Legacy rows in `Accounts` and `Sessions`, and a rolling update of `grpc-password`
   in `Passwords`.
4. `Delivery` inside `Lifecycle`: a worker's stop between handling and acknowledging,
   which both modules allow separately.
5. The claims of section 3 that no run repeats, as runs of their own.
