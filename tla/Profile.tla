-------------------------------- MODULE Profile --------------------------------
(***************************************************************************)
(* The profile query of api-read, served by a process that starts and      *)
(* stops as Lifecycle says: a cache in Redis in front of the replica, for  *)
(* one user (keys and rows do not touch each other).  The columns a        *)
(* profile shows are never rewritten, so a profile is there or it is not.  *)
(* The requests of the other programs stay what they are in Lifecycle.     *)
(***************************************************************************)
EXTENDS Lifecycle

VARIABLES
    master,   \* the user's row is committed
    replica,  \* the row has reached postgres-read
    legacy,   \* it dates from before totp_secret, which is NULL in it
    cache,    \* user:profile:<id> is in Redis
    query,    \* request -> how far its query is
    visible,  \* history: request -> the row was on the replica when it came
    denied,   \* history: such a request was answered 404
    failed    \* history: a statement failed on an open pool

profileVars == <<master, replica, legacy, cache, query, visible, denied, failed>>
allVars == <<vars, profileVars>>

Steps == {"asked", "missed", "found", "absent"}

ProfileTypeOK ==
    /\ TypeOK
    /\ master \in BOOLEAN /\ replica \in BOOLEAN /\ legacy \in BOOLEAN /\ cache \in BOOLEAN
    /\ query \in [Tasks -> Steps]
    /\ visible \in [Tasks -> BOOLEAN]
    /\ denied \in BOOLEAN /\ failed \in BOOLEAN

ProfileInit ==
    /\ Init
    /\ legacy \in BOOLEAN
    /\ master = legacy /\ replica = legacy   \* registered long ago
    /\ cache = FALSE
    /\ query = [k \in Tasks |-> "asked"]
    /\ visible = [k \in Tasks |-> FALSE]
    /\ denied = FALSE /\ failed = FALSE

-----------------------------------------------------------------------------
(* The environment. *)

\* A worker commits the user.
Register ==
    /\ ~master
    /\ master' = TRUE
    /\ UNCHANGED <<vars, replica, legacy, cache, query, visible, denied, failed>>

\* The replica catches up.
Replicate ==
    /\ master /\ ~replica
    /\ replica' = TRUE
    /\ UNCHANGED <<vars, master, legacy, cache, query, visible, denied, failed>>

\* The ten minutes are over.
CacheExpires ==
    /\ cache
    /\ cache' = FALSE
    /\ UNCHANGED <<vars, master, replica, legacy, query, visible, denied, failed>>

-----------------------------------------------------------------------------
(* GetProfile. *)

Reads(k) == program = "api-read" /\ Is(k, "request")
Goto(k, step) == query' = [query EXCEPT ![k] = step]
Ended(k) == Goto(k, "asked") /\ visible' = [visible EXCEPT ![k] = FALSE]

Ask(k) ==
    /\ program = "api-read"
    /\ Arrive(k)
    /\ visible' = [visible EXCEPT ![k] = replica /\ ~legacy]
    /\ UNCHANGED <<master, replica, legacy, cache, query, denied, failed>>

\* GET finds the profile: 200.
Hit(k) ==
    /\ Reads(k) /\ query[k] = "asked"
    /\ cache /\ "redis" \in open
    /\ Return(k)
    /\ Ended(k)
    /\ UNCHANGED <<master, replica, legacy, cache, denied, failed>>

\* It does not, or Redis fails, which is the same to Execute.
Miss(k) ==
    /\ Alive
    /\ Reads(k) /\ query[k] = "asked"
    /\ Goto(k, "missed")
    /\ UNCHANGED <<vars, master, replica, legacy, cache, visible, denied, failed>>

\* FindByID takes a connection; a closed pool has none, and its error is
\* ErrUserNotFound like every other.
Query(k) ==
    /\ Alive
    /\ Reads(k) /\ query[k] = "missed"
    /\ IF "db" \in open THEN Acquire(k) /\ UNCHANGED query
                       ELSE Goto(k, "absent") /\ UNCHANGED vars
    /\ UNCHANGED <<master, replica, legacy, cache, visible, denied, failed>>

\* The row is there and can be scanned.
Found(k) ==
    /\ Reads(k) /\ task[k].pc = "querying"
    /\ replica /\ ~legacy
    /\ Release(k)
    /\ Goto(k, "found")
    /\ UNCHANGED <<master, replica, legacy, cache, visible, denied, failed>>

\* There is no row, or its totp_secret is NULL and Scan fails.
Absent(k) ==
    /\ Reads(k) /\ task[k].pc = "querying"
    /\ ~replica \/ legacy
    /\ Release(k)
    /\ Goto(k, "absent")
    /\ UNCHANGED <<master, replica, legacy, cache, visible, denied, failed>>

\* The statement fails: every error is ErrUserNotFound.
QueryFails(k) ==
    /\ Reads(k) /\ task[k].pc = "querying"
    /\ Release(k)
    /\ Goto(k, "absent")
    /\ failed' = TRUE
    /\ UNCHANGED <<master, replica, legacy, cache, visible, denied>>

\* 404.
AnswerAbsent(k) ==
    /\ Reads(k) /\ query[k] = "absent"
    /\ Return(k)
    /\ Ended(k)
    /\ denied' = (denied \/ visible[k])
    /\ UNCHANGED <<master, replica, legacy, cache, failed>>

\* 200; SetProfile is left to a goroutine.
AnswerFound(k) ==
    /\ query[k] = "found"
    /\ AnswerAndFill(k)
    /\ Ended(k)
    /\ UNCHANGED <<master, replica, legacy, cache, denied, failed>>

\* SetProfile stores the profile with its TTL, or fails unnoticed.
Fill(k) ==
    /\ Is(k, "fill")
    /\ Return(k)
    /\ cache' \in {cache, cache \/ "redis" \in open}
    /\ UNCHANGED <<master, replica, legacy, query, visible, denied, failed>>

-----------------------------------------------------------------------------
Serving(k) ==
    \/ Ask(k) \/ Hit(k) \/ Miss(k) \/ Query(k) \/ Found(k) \/ Absent(k) \/ QueryFails(k)
    \/ AnswerAbsent(k) \/ AnswerFound(k) \/ Fill(k)

Otherwise(k) ==
    /\ program # "api-read"
    /\ Arrive(k) \/ Deliver(k) \/ Tick(k) \/ Work(k)
    /\ UNCHANGED profileVars

ProfileNext ==
    \/ Managing /\ UNCHANGED profileVars
    \/ Register \/ Replicate \/ CacheExpires
    \/ \E k \in Tasks : Serving(k) \/ Otherwise(k)

ProfileSpec == ProfileInit /\ [][ProfileNext]_allVars

\* fx runs hook after hook; statements and handlers return, a tick too, although
\* it takes connections in between.
ProfileFairness ==
    /\ WF_allVars(Stopping /\ UNCHANGED profileVars)
    /\ \A k \in Tasks :
        /\ WF_allVars(Serving(k) /\ ~Ask(k))
        /\ WF_allVars(Otherwise(k) /\ Release(k))
        /\ SF_allVars(Otherwise(k) /\ Return(k))
ProfileFairSpec == ProfileSpec /\ ProfileFairness

-----------------------------------------------------------------------------
\* A profile that could be read when the request came is reported as not found
\* only if a statement failed on an open pool: neither the replica's delay, nor
\* the cache, its detached writes and its expiry, nor a stop of the process in
\* the middle of the query makes a user disappear.  (FindByID calls every error
\* ErrUserNotFound.)
MissingForCause == denied => failed
=============================================================================
