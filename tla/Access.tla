-------------------------------- MODULE Access --------------------------------
(***************************************************************************)
(* Who may change roles.  A login, a refresh or a second factor reads the  *)
(* user and has grpc-token sign an access token with the roles it read;    *)
(* the token is valid for 24 hours, whatever becomes of the row.  The      *)
(* guard of api-write believes the token; a request of an admin becomes a  *)
(* command in the outbox, and worker-events replaces the roles of the row. *)
(*                                                                         *)
(* A refused request (401 or 403) changes nothing and is no step.          *)
(***************************************************************************)
EXTENDS Naturals, Sequences

CONSTANTS Users,
          FirstAdmins,  \* users whose row was given the role by hand: no code
                        \* does that without an admin
          Roles,        \* names of roles
          RoleSets,     \* roles a request may ask for
          Null,         \* a body without roles: a nil slice
          Logins,       \* executions that issue a token
          Tokens,       \* tokens outstanding at a time
          Calls,        \* requests to the admin route
          SigningKey,   \* the pair grpc-token signs with (configs/rsa)
          GuardKey,     \* the pair whose public half TLS_CERT_PATH names
          None,
          MaxCommands   \* bound on accepted commands

ASSUME AccessAssumption ==
    /\ FirstAdmins \subseteq Users
    /\ None \notin Users
    /\ {"user", "admin"} \subseteq Roles /\ RoleSets \subseteq SUBSET Roles
    /\ MaxCommands \in Nat

VARIABLES
    roles,      \* user -> the roles column
    token,      \* token -> [sub, roles, key]; sub = None: not issued, or expired
    login,      \* execution -> [user, roles]: the copy it read
    call,       \* request -> [by, target, new]: past the guard
    log,        \* the accepted commands, in the order they were stored
    stage,      \* command -> "queued", "applied" (not yet acknowledged), "done"
    newest,     \* history: user -> the latest command applied to it, or 0
    overtaken   \* history: users whose command was applied after a later one

vars == <<roles, token, login, call, log, stage, newest, overtaken>>

Unissued == [sub |-> None, roles |-> {}, key |-> None]
NoLogin == [user |-> None, roles |-> {}]
NoCall == [by |-> None, target |-> None, new |-> Null]

Command == [by : Users, target : Users, new : RoleSets \cup {Null}]

TypeOK ==
    /\ roles \in [Users -> SUBSET Roles]
    /\ token \in [Tokens -> [sub : Users, roles : SUBSET Roles, key : {SigningKey}]
                                \cup {Unissued}]
    /\ login \in [Logins -> [user : Users, roles : SUBSET Roles] \cup {NoLogin}]
    /\ call \in [Calls -> Command \cup {NoCall}]
    /\ log \in Seq(Command) /\ Len(log) <= MaxCommands
    /\ stage \in [1..Len(log) -> {"queued", "applied", "done"}]
    /\ newest \in [Users -> 0..Len(log)]
    /\ overtaken \subseteq Users

FirstRoles == [u \in Users |-> IF u \in FirstAdmins THEN {"user", "admin"} ELSE {"user"}]

Init ==
    /\ roles = FirstRoles
    /\ token = [t \in Tokens |-> Unissued]
    /\ login = [l \in Logins |-> NoLogin]
    /\ call = [q \in Calls |-> NoCall]
    /\ log = <<>> /\ stage = <<>>
    /\ newest = [u \in Users |-> 0]
    /\ overtaken = {}

-----------------------------------------------------------------------------
(* Issuing a token. *)

Valid(t) == token[t].sub # None

\* Mutated form: a refresh takes the roles of the token it replaces.
BeginFromToken(l, u) ==
    /\ login[l] = NoLogin
    /\ \E read \in {roles[u] \cup {"user"}} \cup
                   {token[t].roles : t \in {x \in Tokens : token[x].sub = u}} :
           login' = [login EXCEPT ![l] = [user |-> u, roles |-> read]]
    /\ UNCHANGED <<roles, token, call, log, stage, newest, overtaken>>

\* The user, authenticated by a password, a refresh token or a challenge, is
\* read.  RestoreUser gives every copy the role user, AddRole those of the row.
Begin(l, u) ==
    /\ login[l] = NoLogin
    /\ login' = [login EXCEPT ![l] = [user |-> u, roles |-> roles[u] \cup {"user"}]]
    /\ UNCHANGED <<roles, token, call, log, stage, newest, overtaken>>

\* grpc-token signs what the caller says.
Sign(l, t) ==
    /\ login[l] # NoLogin
    /\ ~Valid(t)
    /\ token' = [token EXCEPT ![t] = [sub |-> login[l].user, roles |-> login[l].roles,
                                      key |-> SigningKey]]
    /\ login' = [login EXCEPT ![l] = NoLogin]
    /\ UNCHANGED <<roles, call, log, stage, newest, overtaken>>

\* grpc-token fails or the process dies: no token, although a challenge may
\* have been burnt.
Abandon(l) ==
    /\ login[l] # NoLogin
    /\ login' = [login EXCEPT ![l] = NoLogin]
    /\ UNCHANGED <<roles, token, call, log, stage, newest, overtaken>>

\* 24 hours have passed.  Nothing else ends a token.
Expire(t) ==
    /\ Valid(t)
    /\ token' = [token EXCEPT ![t] = Unissued]
    /\ UNCHANGED <<roles, login, call, log, stage, newest, overtaken>>

-----------------------------------------------------------------------------
(* The admin route of api-write. *)

\* JWTGuard: signature and exp; the claims go with the request.
Guarded(t) == Valid(t) /\ token[t].key = GuardKey

\* Mutated form: the route is mounted beside the admin group, not in it.
AdmitAnyone(q, t, target, new) ==
    /\ call[q] = NoCall
    /\ Guarded(t)
    /\ call' = [call EXCEPT ![q] = [by |-> token[t].sub, target |-> target, new |-> new]]
    /\ UNCHANGED <<roles, token, login, log, stage, newest, overtaken>>

\* Guard, then RequireRoles("admin"), then UpdateRoles decodes the body.
Admit(q, t, target, new) ==
    /\ call[q] = NoCall
    /\ Guarded(t)
    /\ "admin" \in token[t].roles
    /\ call' = [call EXCEPT ![q] = [by |-> token[t].sub, target |-> target, new |-> new]]
    /\ UNCHANGED <<roles, token, login, log, stage, newest, overtaken>>

\* Mutated form: the command is stored without an event for the worker.
AcceptUnannounced(q) ==
    /\ call[q] # NoCall
    /\ Len(log) < MaxCommands
    /\ log' = Append(log, call[q])
    /\ stage' = stage
    /\ call' = [call EXCEPT ![q] = NoCall]
    /\ UNCHANGED <<roles, token, login, newest, overtaken>>

\* The target exists: SaveCommand, 202.
Accept(q) ==
    /\ call[q] # NoCall
    /\ Len(log) < MaxCommands
    /\ log' = Append(log, call[q])
    /\ stage' = Append(stage, "queued")
    /\ call' = [call EXCEPT ![q] = NoCall]
    /\ UNCHANGED <<roles, token, login, newest, overtaken>>

\* The lookup or the INSERT fails (500), or the process dies.
Fail(q) ==
    /\ call[q] # NoCall
    /\ call' = [call EXCEPT ![q] = NoCall]
    /\ UNCHANGED <<roles, token, login, log, stage, newest, overtaken>>

-----------------------------------------------------------------------------
(* The worker.  The pipeline delivers a command at least once, in any order. *)

\* Mutated form: the roles of the command are added to those of the row.
ApplyByAdding(i) ==
    LET c == log[i] IN
    /\ stage[i] = "queued"
    /\ c.new # Null
    /\ roles' = [roles EXCEPT ![c.target] = @ \cup c.new]
    /\ newest' = [newest EXCEPT ![c.target] = IF @ < i THEN i ELSE @]
    /\ overtaken' = IF i < newest[c.target] THEN overtaken \cup {c.target} ELSE overtaken
    /\ stage' = [stage EXCEPT ![i] = "applied"]
    /\ UNCHANGED <<token, login, call, log>>

\* UpdateRoles replaces the column.  It is NOT NULL, so a command without roles
\* fails, is requeued and fails again: nothing happens.
Apply(i) ==
    LET c == log[i] IN
    /\ stage[i] = "queued"
    /\ c.new # Null
    /\ roles' = [roles EXCEPT ![c.target] = c.new]
    /\ newest' = [newest EXCEPT ![c.target] = IF @ < i THEN i ELSE @]
    /\ overtaken' = IF i < newest[c.target] THEN overtaken \cup {c.target} ELSE overtaken
    /\ stage' = [stage EXCEPT ![i] = "applied"]
    /\ UNCHANGED <<token, login, call, log>>

Ack(i) ==
    /\ stage[i] = "applied"
    /\ stage' = [stage EXCEPT ![i] = "done"]
    /\ UNCHANGED <<roles, token, login, call, log, newest, overtaken>>

\* The answer of the UPDATE or the ack is lost, or a relay published the
\* command twice: it comes (back) although it has been applied.
Redeliver(i) ==
    /\ stage[i] \in {"applied", "done"}
    /\ stage' = [stage EXCEPT ![i] = "queued"]
    /\ UNCHANGED <<roles, token, login, call, log, newest, overtaken>>

-----------------------------------------------------------------------------
Next ==
    \/ \E l \in Logins :
        \/ \E u \in Users : Begin(l, u)
        \/ \E t \in Tokens : Sign(l, t)
        \/ Abandon(l)
    \/ \E t \in Tokens : Expire(t)
    \/ \E q \in Calls :
        \/ \E t \in Tokens, target \in Users, new \in RoleSets \cup {Null} :
               Admit(q, t, target, new)
        \/ Accept(q) \/ Fail(q)
    \/ \E i \in 1..Len(log) : Apply(i) \/ Ack(i) \/ Redeliver(i)

Spec == Init /\ [][Next]_vars

\* Time passes.
Fairness == \A t \in Tokens : WF_vars(Expire(t))
FairSpec == Spec /\ Fairness

-----------------------------------------------------------------------------
\* The right to change roles is handed down: whoever has a command accepted is
\* a first admin, or was made one by an earlier command of somebody who was
\* entitled in the same way, however old the token, in whatever order commands
\* are handled.  (JWTGuard and RequireRoles in front of UpdateRoles, and the
\* roles grpc-token is given by the three use cases.)
MadeAdminBefore(u, i) ==
    \E j \in 1..(i - 1) : log[j].target = u /\ log[j].new # Null /\ "admin" \in log[j].new
HandedDown == \A i \in 1..Len(log) : log[i].by \in FirstAdmins \/ MadeAdminBefore(log[i].by, i)

\* A row holds what the latest command applied to it says, unless a command was
\* handled, or handled again, after a later one: at-least-once delivery without
\* order is the only thing that takes a role change back.
OnlyLateOnesRevert ==
    \A u \in Users \ overtaken :
        roles[u] = IF newest[u] = 0 THEN FirstRoles[u] ELSE log[newest[u]].new

\* Tokens outlive a demotion, but not for good: once a user has lost the role
\* for ever, a time comes after which no valid token of its carries it, however
\* many logins had read the row before.
Demoted(u) == "admin" \notin roles[u]
Disarmed(u) == \A t \in Tokens : token[t].sub = u => "admin" \notin token[t].roles
RevocationEnds == \A u \in Users : <>[]Demoted(u) => <>[]Disarmed(u)

\* A user from whom the role, the tokens, the copies logins hold and the admitted
\* requests are gone stays without power, and has no command accepted, until a
\* command of somebody else gives its row the role again: nothing it does with a
\* login or a refresh brings the power back (RestoreUser, GenerateTokens, JWTGuard).
Powerless(u) ==
    /\ Demoted(u) /\ Disarmed(u)
    /\ \A l \in Logins : login[l].user = u => "admin" \notin login[l].roles
    /\ \A q \in Calls : call[q].by # u
OnlyACommandRearms == [][
    \A u \in Users : Powerless(u) =>
        /\ Powerless(u)' \/ "admin" \in roles'[u]
        /\ \A i \in (Len(log) + 1)..Len(log') : log'[i].by # u]_vars

\* With a guard that verifies against another pair than grpc-token signs with, or
\* with no admin made by hand, the admin route is dead: no command is accepted,
\* and no row changes (the key files of the env files; UpdateRoles is the only
\* writer of roles).
RouteIsDead == log = <<>> /\ roles = FirstRoles
AnotherKeyKills == GuardKey # SigningKey => RouteIsDead
NobodyStartsIt == FirstAdmins = {} => RouteIsDead
=============================================================================
