------------------------------ MODULE Accounts ------------------------------
(***************************************************************************)
(* The use cases that change an existing user: confirming the address,     *)
(* resetting the password, upgrading its hash, enabling MFA and replacing  *)
(* the roles.  Each reads the whole user (FindByID), changes the copy and  *)
(* writes the row back (Update, or UpdateRoles), with no lock, version or  *)
(* transaction around the two.  Confirmation and reset are authorised by   *)
(* a token in Redis, deleted after the row has been written.               *)
(*                                                                         *)
(* The row is that of one user: every statement has WHERE id, and tokens   *)
(* name their user, so users do not touch each other.                      *)
(***************************************************************************)
EXTENDS Naturals

CONSTANTS Ops,        \* executions of the use cases, running concurrently
          Kinds,      \* the use cases that are reached, a subset of AllKinds.
                      \* As the services are wired: {"confirm", "reset", "roles"}
          Tokens,     \* uuids drawn for confirmation and reset links
          Hashes,     \* password hashes
          Secrets,    \* TOTP secrets
          Roles,      \* names of roles
          RoleSets,   \* roles a command may carry
          FirstHash,  \* the hash registration stored
          None,
          MaxFaults   \* bound on failed calls, lost answers and crashes

Mailed == {"confirm", "reset"}   \* the kinds authorised by a token
AllKinds == Mailed \cup {"upgrade", "enroll", "roles"}

ASSUME AccountsAssumption ==
    /\ Kinds \subseteq AllKinds
    /\ FirstHash \in Hashes
    /\ None \notin Secrets
    /\ "user" \in Roles /\ RoleSets \subseteq SUBSET Roles
    /\ MaxFaults \in Nat

VARIABLES
    row,      \* the user's row in the users table
    live,     \* kind -> tokens of this user present in Redis
    timed,    \* kind -> tokens stored with a TTL
    minted,   \* history: kind -> tokens ever stored
    expired,  \* history: kind -> tokens removed by their TTL
    used,     \* history: kind -> tokens with which a row was written
    left,     \* history: kind -> tokens whose DEL failed, or was not reached,
              \* after the row had been written
    op,       \* execution -> [pc, kind, token, new, user]
    intended, \* history: the last value each column was meant to get
    raced,    \* history: a row was written from a copy that was out of date
    faults

vars == <<row, live, timed, minted, expired, used, left, op, intended, raced, faults>>

User == [password : Hashes, verified : BOOLEAN, mfa : BOOLEAN,
         secret : Secrets \cup {None}, roles : SUBSET Roles]

\* What an execution was asked to store: a hash, a secret or roles.
Argument(kind) ==
    CASE kind = "confirm" -> {None}
      [] kind \in {"reset", "upgrade"} -> Hashes \ {FirstHash}   \* salted anew
      [] kind = "enroll" -> Secrets
      [] kind = "roles" -> RoleSets

Idle == [pc |-> "idle", kind |-> None, token |-> None, new |-> None, user |-> None]

TypeOK ==
    /\ row \in User
    /\ live \in [Mailed -> SUBSET Tokens]
    /\ timed \in [Mailed -> SUBSET Tokens]
    /\ minted \in [Mailed -> SUBSET Tokens]
    /\ expired \in [Mailed -> SUBSET Tokens]
    /\ used \in [Mailed -> SUBSET Tokens]
    /\ left \in [Mailed -> SUBSET Tokens]
    /\ \A o \in Ops :
        /\ op[o].pc \in {"idle", "started", "loaded", "written"}
        /\ op[o].pc # "idle" =>
            /\ op[o].kind \in Kinds
            /\ op[o].new \in Argument(op[o].kind)
            /\ op[o].kind \in Mailed => op[o].token \in Tokens
        /\ op[o].pc = "loaded" => op[o].user \in User
    /\ intended \in User
    /\ raced \in BOOLEAN
    /\ faults \in 0..MaxFaults

\* NewUser as Save stores it (roles is the column's default).
Registered == [password |-> FirstHash, verified |-> FALSE, mfa |-> FALSE,
               secret |-> None, roles |-> {"user"}]
NoTokens == [k \in Mailed |-> {}]

Init ==
    /\ row = Registered
    /\ live = NoTokens /\ timed = NoTokens /\ minted = NoTokens
    /\ expired = NoTokens /\ used = NoTokens /\ left = NoTokens
    /\ op = [o \in Ops |-> Idle]
    /\ intended = Registered
    /\ raced = FALSE
    /\ faults = 0

-----------------------------------------------------------------------------
(* Tokens. *)

\* Mutated form: the key is stored without a TTL.
MintForever(kind, t) ==
    /\ kind \in Kinds
    /\ t \notin minted[kind]
    /\ live' = [live EXCEPT ![kind] = @ \cup {t}]
    /\ minted' = [minted EXCEPT ![kind] = @ \cup {t}]
    /\ UNCHANGED <<row, timed, expired, used, left, op, intended, raced, faults>>

\* The worker handles UserRegistered or UserForgotPasswordRequested, and stores
\* the token with a TTL (24 hours or 15 minutes); a redelivered event stores one
\* more token.
Mint(kind, t) ==
    /\ kind \in Kinds
    /\ t \notin minted[kind]
    /\ live' = [live EXCEPT ![kind] = @ \cup {t}]
    /\ timed' = [timed EXCEPT ![kind] = @ \cup {t}]
    /\ minted' = [minted EXCEPT ![kind] = @ \cup {t}]
    /\ UNCHANGED <<row, expired, used, left, op, intended, raced, faults>>

\* The TTL has passed.
Expire(kind, t) ==
    /\ t \in live[kind] \cap timed[kind]
    /\ live' = [live EXCEPT ![kind] = @ \ {t}]
    /\ expired' = [expired EXCEPT ![kind] = @ \cup {t}]
    /\ UNCHANGED <<row, timed, minted, used, left, op, intended, raced, faults>>

-----------------------------------------------------------------------------
(* The use cases, call by call. *)

At(o, pc) == op[o].pc = pc
Start(o, kind, t, new) ==
    /\ At(o, "idle")
    /\ op' = [op EXCEPT ![o] = [pc |-> "started", kind |-> kind, token |-> t,
                                new |-> new, user |-> None]]

\* Confirm and reset: GET finds the token.  (Otherwise nothing happens.)
Get(o, kind, t, new) ==
    /\ Start(o, kind, t, new)
    /\ t \in live[kind]
    /\ UNCHANGED <<row, live, timed, minted, expired, used, left, intended, raced, faults>>

\* RestoreUser gives every copy the role user, whatever the row says.
Restored == [row EXCEPT !.roles = @ \cup {"user"}]

\* Upgrade, MFA setup and roles come as a command or an authorised request, and
\* begin with FindByID.
Begin(o, kind, new) ==
    /\ At(o, "idle")
    /\ kind \in Kinds \ Mailed
    /\ op' = [op EXCEPT ![o] = [pc |-> "loaded", kind |-> kind, token |-> None,
                                new |-> new, user |-> Restored]]
    /\ UNCHANGED <<row, live, timed, minted, expired, used, left, intended, raced, faults>>

\* Mutated form: a user that is not found is not an error (as in FindByEmail).
FindNil(o) ==
    /\ At(o, "started")
    /\ op' = [op EXCEPT ![o].pc = "loaded"]
    /\ UNCHANGED <<row, live, timed, minted, expired, used, left, intended, raced, faults>>

\* Mutated form: the token is burnt as soon as the user has been found.
FindBurns(o) ==
    /\ At(o, "started")
    /\ op' = [op EXCEPT ![o].pc = "loaded", ![o].user = Restored]
    /\ live' = [live EXCEPT ![op[o].kind] = @ \ {op[o].token}]
    /\ UNCHANGED <<row, timed, minted, expired, used, left, intended, raced, faults>>

\* Confirm and reset: FindByID copies the row.
Find(o) ==
    /\ At(o, "started")
    /\ op' = [op EXCEPT ![o].pc = "loaded", ![o].user = Restored]
    /\ UNCHANGED <<row, live, timed, minted, expired, used, left, intended, raced, faults>>

\* ConfirmEmail, UpdatePassword and EnableMFA on a copy u of the user.
Change(kind, new, u) ==
    CASE kind = "confirm" -> [u EXCEPT !.verified = TRUE]
      [] kind \in {"reset", "upgrade"} -> [u EXCEPT !.password = new]
      [] kind = "enroll" -> [u EXCEPT !.mfa = TRUE, !.secret = new]

\* Mutated forms: the UPDATE misses columns, or writes the roles too.
UpdateWithoutHash(u) == [row EXCEPT !.mfa = u.mfa, !.secret = u.secret]
UpdateWithoutSecret(u) == [row EXCEPT !.password = u.password, !.mfa = u.mfa]
UpdateWithRoles(u) == [u EXCEPT !.verified = row.verified]

\* Update writes the hash and the MFA columns of the copy, whichever of them was
\* changed, and never email_verified.
Update(u) == [row EXCEPT !.password = u.password, !.mfa = u.mfa, !.secret = u.secret]

\* Has a column that Update writes been changed since the copy u was made?
Stale(u) == u.password # row.password \/ u.secret # row.secret

\* Hashing (reset) and generating the secret (MFA setup) touch nothing shared
\* and come before the UPDATE; with their result the row is written.
Write(o) ==
    /\ At(o, "loaded")
    /\ op[o].kind # "roles"
    /\ LET k == op[o].kind
           u == op[o].user
       IN  /\ row' = Update(Change(k, op[o].new, u))
           /\ intended' = Change(k, op[o].new, intended)
           /\ raced' = (raced \/ Stale(u))
           /\ IF k \in Mailed
              THEN /\ op' = [op EXCEPT ![o].pc = "written", ![o].user = None]
                   /\ used' = [used EXCEPT ![k] = @ \cup {op[o].token}]
              ELSE /\ op' = [op EXCEPT ![o] = Idle]
                   /\ UNCHANGED used
    /\ UNCHANGED <<live, timed, minted, expired, left, faults>>

\* UpdateRoles has a statement of its own.  RemoveRole worked on the copy, which
\* is not written: the payload replaces the roles.
WriteRoles(o) ==
    /\ At(o, "loaded")
    /\ op[o].kind = "roles"
    /\ row' = [row EXCEPT !.roles = op[o].new]
    /\ intended' = [intended EXCEPT !.roles = op[o].new]
    /\ op' = [op EXCEPT ![o] = Idle]
    /\ UNCHANGED <<live, timed, minted, expired, used, left, raced, faults>>

\* Mutated form: every DEL is one of a confirmation's key.
BurnConfirmation(o) ==
    /\ At(o, "written")
    /\ live' = [live EXCEPT !["confirm"] = @ \ {op[o].token}]
    /\ op' = [op EXCEPT ![o] = Idle]
    /\ UNCHANGED <<row, timed, minted, expired, used, left, intended, raced, faults>>

\* DEL: burn after reading.
Burn(o) ==
    /\ At(o, "written")
    /\ live' = [live EXCEPT ![op[o].kind] = @ \ {op[o].token}]
    /\ op' = [op EXCEPT ![o] = Idle]
    /\ UNCHANGED <<row, timed, minted, expired, used, left, intended, raced, faults>>

\* A call fails (GET, FindByID, Hash, UPDATE, or DEL, whose error is ignored),
\* its answer is lost, or the process dies: the rest is not executed.
Abort(o) ==
    /\ ~At(o, "idle")
    /\ left' = IF At(o, "written")
               THEN [left EXCEPT ![op[o].kind] = @ \cup {op[o].token}] ELSE left
    /\ op' = [op EXCEPT ![o] = Idle]
    /\ faults < MaxFaults /\ faults' = faults + 1
    /\ UNCHANGED <<row, live, timed, minted, expired, used, intended, raced>>

-----------------------------------------------------------------------------
Proceed(o) == Find(o) \/ Write(o) \/ WriteRoles(o) \/ Burn(o)

Next ==
    \/ \E kind \in Mailed, t \in Tokens :
        \/ Mint(kind, t) \/ Expire(kind, t)
        \/ \E o \in Ops, new \in Argument(kind) : Get(o, kind, t, new)
    \/ \E kind \in AllKinds : \E o \in Ops, new \in Argument(kind) : Begin(o, kind, new)
    \/ \E o \in Ops : Proceed(o) \/ Abort(o)

Spec == Init /\ [][Next]_vars

\* Executions go on, and Redis removes what has outlived its TTL.
Fairness ==
    /\ \A o \in Ops : WF_vars(Proceed(o))
    /\ \A kind \in Mailed, t \in Tokens : WF_vars(Expire(kind, t))
FairSpec == Spec /\ Fairness

-----------------------------------------------------------------------------
\* MFA is on exactly if there is a secret to check codes against, in the row
\* and in every copy, however the writers overwrite each other.
MFAPaired ==
    /\ row.mfa <=> row.secret # None
    /\ \A o \in Ops : At(o, "loaded") => (op[o].user.mfa <=> op[o].user.secret # None)

\* Roles have a statement of their own: no reset, confirmation, upgrade or MFA
\* setup that read the row earlier takes a role command back.
RolesNotLost == row.roles = intended.roles

\* A password or secret is only ever lost to a racing writer: while no copy
\* was out of date when written, the row holds what was last stored.
LostOnlyByRace ==
    raced \/ (row.password = intended.password /\ row.secret = intended.secret)

\* A link that stops working has been used for a write, or its time was up: an
\* execution that fails before the UPDATE leaves the token for a retry.
TokenNotWasted ==
    \A kind \in Mailed : minted[kind] \subseteq live[kind] \cup expired[kind] \cup used[kind]

\* The gap between a link's effect and its DEL is as wide as one execution and no
\* wider: a link that has been used for a write can be used once more only while
\* its user is on the way to the DEL, or if that DEL failed or was never reached.
Holds(o, kind, t) == ~At(o, "idle") /\ op[o].kind = kind /\ op[o].token = t
UsedIsBurnt ==
    \A kind \in Mailed : \A t \in used[kind] \cap live[kind] :
        t \in left[kind] \/ \E o \in Ops : At(o, "written") /\ Holds(o, kind, t)

\* MFA is never switched off, except by a writer whose copy was out of date: no
\* use case disables it, and a reset or an upgrade that read the row after the
\* setup writes it back as it was.
OnlyRacesDisableMFA == [][row.mfa => row'.mfa \/ raced']_vars

\* Nobody's address is ever verified in the table, however many links are used:
\* ConfirmEmail changes the copy, and Update has no such column.
NobodyIsVerified == ~row.verified

\* While no handler of MFA setup is reached, as the services are wired, no row
\* has MFA and no login asks for a code.
NoMFAUnreached == "enroll" \notin Kinds => ~row.mfa

\* Until a writer's copy is out of date, the use cases change the row as if each
\* were one atomic step on its own column; a confirmation is no change at all.
Atomic == INSTANCE UserRow WITH First <- Registered, torn <- raced
WritesAreAtomic == Atomic!Spec

\* Whatever fails, every link comes to rest: some time after it was mailed it is
\* gone, nobody is at work with it, and so it stays.
AtRest(kind, t) == t \notin live[kind] /\ \A o \in Ops : ~Holds(o, kind, t)
LinksRest == \A kind \in Mailed, t \in Tokens : t \in minted[kind] ~> []AtRest(kind, t)

\* README.md, flow 5: confirm-email "seta email_verified=true diretamente no
\* Master DB".
ConfirmedIsVerified == used["confirm"] # {} => row.verified
=============================================================================
