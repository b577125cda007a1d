------------------------------ MODULE Sessions ------------------------------
(***************************************************************************)
(* Sessions: login, the second factor, refresh and logout.  A session is   *)
(* an opaque refresh token in Redis; a login with MFA leaves a challenge   *)
(* (mfa_token) there instead, which verification trades for a session.     *)
(*                                                                         *)
(* A use case is a sequence of Redis commands and other calls; those of    *)
(* different requests interleave.  The two commands of the pipeline in     *)
(* RefreshToken are no transaction.                                        *)
(***************************************************************************)
EXTENDS Naturals

CONSTANTS Calls,       \* requests being served
          Tokens,      \* uuids drawn for refresh tokens
          Challenges,  \* uuids drawn for mfa tokens
          None,
          MaxFaults    \* bound on failed calls, lost answers and crashes

ASSUME SessionsAssumption ==
    /\ None \notin Tokens \cup Challenges
    /\ Tokens \cap Challenges = {}
    /\ MaxFaults \in Nat

VARIABLES
    refresh,    \* tokens present in Redis (refresh_token:t)
    challenge,  \* challenges present in Redis (mfa_token:c)
    timed,      \* the keys that were stored with a TTL
    mfa,        \* mfa_enabled of the user's row
    call,       \* request -> [pc, from, to]: its step, the token or challenge
                \* it came with, the token it has drawn
    minted,     \* history: tokens that were stored
    offered,    \* history: challenges that were stored
    heirs,      \* history: token or challenge -> tokens stored in its place
    out,        \* history: tokens logged out
    expired,    \* history: tokens removed by their TTL
    unburnt,    \* history: challenges whose DEL failed
    faults

redis == <<refresh, challenge, timed>>
history == <<minted, offered, heirs, out, expired, unburnt>>
vars == <<redis, mfa, call, history, faults>>

Idle == [pc |-> "idle", from |-> None, to |-> None]

TypeOK ==
    /\ refresh \subseteq minted /\ minted \subseteq Tokens
    /\ challenge \subseteq offered /\ offered \subseteq Challenges
    /\ timed \subseteq Tokens \cup Challenges
    /\ mfa \in BOOLEAN
    /\ call \in [Calls -> [pc : {"idle", "signed", "read", "coded", "burnt", "stored"},
                           from : Tokens \cup Challenges \cup {None},
                           to : Tokens \cup {None}]]
    /\ heirs \in [Tokens \cup Challenges -> SUBSET Tokens]
    /\ out \subseteq Tokens /\ expired \subseteq Tokens
    /\ unburnt \subseteq Challenges
    /\ faults \in 0..MaxFaults

Init ==
    /\ refresh = {} /\ challenge = {} /\ timed = {}
    /\ mfa \in BOOLEAN
    /\ call = [c \in Calls |-> Idle]
    /\ minted = {} /\ offered = {}
    /\ heirs = [x \in Tokens \cup Challenges |-> {}]
    /\ out = {} /\ expired = {} /\ unburnt = {}
    /\ faults = 0

At(c, pc) == call[c].pc = pc
Goto(c, pc) == call' = [call EXCEPT ![c].pc = pc]
Done(c) == call' = [call EXCEPT ![c] = Idle]
Fault == faults < MaxFaults /\ faults' = faults + 1

\* A uuid nobody has drawn: not stored, and not under way to being stored.
Fresh(t) == t \notin minted /\ \A c \in Calls : call[c].to # t

\* What a SET of refresh_token:t, in place of the token or challenge x, puts there.
Put(t, x) ==
    /\ refresh' = refresh \cup {t}
    /\ minted' = minted \cup {t}
    /\ heirs' = IF x = None THEN heirs ELSE [heirs EXCEPT ![x] = @ \cup {t}]

\* Login, verification and the pipeline all store with a TTL (seven days).
StoreFor(t, x) == Put(t, x) /\ timed' = timed \cup {t}

-----------------------------------------------------------------------------
(* LoginUserUseCase, from a matching password on.  What fails before the   *)
(* SET changes nothing.                                                    *)

\* The row is read without MFA; the access token is generated.
LoginPassword(c, t) ==
    /\ At(c, "idle")
    /\ ~mfa
    /\ Fresh(t)
    /\ call' = [call EXCEPT ![c] = [pc |-> "signed", from |-> None, to |-> t]]
    /\ UNCHANGED <<redis, mfa, history, faults>>

\* With MFA the login ends with a challenge.  (No use case disables MFA, so what
\* was read of the row still holds when the challenge is stored.)  Its TTL is five
\* minutes.
LoginChallenge(m) ==
    /\ mfa
    /\ m \notin offered
    /\ challenge' = challenge \cup {m}
    /\ offered' = offered \cup {m}
    /\ timed' = timed \cup {m}
    /\ UNCHANGED <<refresh, mfa, call, minted, heirs, out, expired, unburnt, faults>>

-----------------------------------------------------------------------------
(* VerifyMFAUseCase. *)

\* Mutated form: the session gets the uuid of its challenge.
ReadChallengeAsToken(c, m, t) ==
    /\ At(c, "idle")
    /\ m \in challenge
    /\ Fresh(t)
    /\ call' = [call EXCEPT ![c] = [pc |-> "coded", from |-> m, to |-> m]]
    /\ UNCHANGED <<redis, mfa, history, faults>>

\* GET finds the challenge, the user is found, and the code is the right one.
ReadChallenge(c, m, t) ==
    /\ At(c, "idle")
    /\ m \in challenge
    /\ Fresh(t)
    /\ call' = [call EXCEPT ![c] = [pc |-> "coded", from |-> m, to |-> t]]
    /\ UNCHANGED <<redis, mfa, history, faults>>

\* Mutated form: the key that is deleted is not the challenge's.
BurnNothing(c) ==
    /\ At(c, "coded")
    /\ Goto(c, "burnt")
    /\ UNCHANGED <<redis, mfa, history, faults>>

\* DEL of the challenge.
BurnChallenge(c) ==
    /\ At(c, "coded")
    /\ challenge' = challenge \ {call[c].from}
    /\ Goto(c, "burnt")
    /\ UNCHANGED <<refresh, timed, mfa, history, faults>>

\* The result of the DEL is not looked at.
BurnFails(c) ==
    /\ At(c, "coded")
    /\ unburnt' = unburnt \cup {call[c].from}
    /\ Goto(c, "burnt")
    /\ Fault
    /\ UNCHANGED <<redis, mfa, minted, offered, heirs, out, expired>>

-----------------------------------------------------------------------------
\* Login and verification end with the SET of the session.
OpenSession(c) ==
    /\ At(c, "signed") \/ At(c, "burnt")
    /\ StoreFor(call[c].to, call[c].from)
    /\ Done(c)
    /\ UNCHANGED <<challenge, mfa, offered, out, expired, unburnt, faults>>

-----------------------------------------------------------------------------
(* RefreshTokenUseCase. *)

\* Mutated form: sliding the window keeps the token and renews its TTL.
ReadKeeps(c, r, t) ==
    /\ At(c, "idle")
    /\ r \in refresh
    /\ t = r
    /\ call' = [call EXCEPT ![c] = [pc |-> "read", from |-> r, to |-> r]]
    /\ UNCHANGED <<redis, mfa, history, faults>>

\* GET finds the token; the user is found and the access token generated.
ReadRefresh(c, r, t) ==
    /\ At(c, "idle")
    /\ r \in refresh
    /\ Fresh(t)
    /\ call' = [call EXCEPT ![c] = [pc |-> "read", from |-> r, to |-> t]]
    /\ UNCHANGED <<redis, mfa, history, faults>>

\* Mutated form: the pipeline deletes the old token first.
DeleteFirst(c) ==
    /\ At(c, "read")
    /\ refresh' = refresh \ {call[c].from}
    /\ Goto(c, "stored")
    /\ UNCHANGED <<challenge, timed, mfa, history, faults>>

\* Mutated form: the new token is stored without a TTL.
StoreNewForever(c) ==
    /\ At(c, "read")
    /\ Put(call[c].to, call[c].from)
    /\ Goto(c, "stored")
    /\ UNCHANGED <<challenge, timed, mfa, offered, out, expired, unburnt, faults>>

\* The pipeline's SET of the new token.
StoreNew(c) ==
    /\ At(c, "read")
    /\ StoreFor(call[c].to, call[c].from)
    /\ Goto(c, "stored")
    /\ UNCHANGED <<challenge, mfa, offered, out, expired, unburnt, faults>>

\* The pipeline's DEL of the old token.
DeleteOld(c) ==
    /\ At(c, "stored")
    /\ refresh' = refresh \ {call[c].from}
    /\ Done(c)
    /\ UNCHANGED <<challenge, timed, mfa, history, faults>>

-----------------------------------------------------------------------------
\* LogoutUseCase: DEL, whether or not the key exists.
Logout(r) ==
    /\ r \in minted
    /\ refresh' = refresh \ {r}
    /\ out' = out \cup {r}
    /\ UNCHANGED <<challenge, timed, mfa, call, minted, offered, heirs, expired, unburnt, faults>>

\* The TTL of a token has passed; a key without one stays.
ExpireToken(r) ==
    /\ r \in refresh \cap timed
    /\ refresh' = refresh \ {r}
    /\ expired' = expired \cup {r}
    /\ UNCHANGED <<challenge, timed, mfa, call, minted, offered, heirs, out, unburnt, faults>>

ExpireChallenge(m) ==
    /\ m \in challenge \cap timed
    /\ challenge' = challenge \ {m}
    /\ UNCHANGED <<refresh, timed, mfa, call, history, faults>>

\* SetupMFAUseCase, seen from here.
EnableMFA == ~mfa /\ mfa' = TRUE /\ UNCHANGED <<redis, call, history, faults>>

\* A call fails, the connection breaks in the middle of the pipeline, or the
\* process dies: the rest of the use case is not executed.
Abort(c) ==
    /\ ~At(c, "idle")
    /\ Done(c)
    /\ Fault
    /\ UNCHANGED <<redis, mfa, history>>

-----------------------------------------------------------------------------
Proceed(c) == BurnChallenge(c) \/ BurnFails(c) \/ OpenSession(c) \/ StoreNew(c) \/ DeleteOld(c)

Next ==
    \/ \E c \in Calls, t \in Tokens :
        \/ LoginPassword(c, t)
        \/ \E m \in Challenges : ReadChallenge(c, m, t)
        \/ \E r \in Tokens : ReadRefresh(c, r, t)
    \/ \E c \in Calls : Proceed(c) \/ Abort(c)
    \/ \E m \in Challenges : LoginChallenge(m) \/ ExpireChallenge(m)
    \/ \E r \in Tokens : Logout(r) \/ ExpireToken(r)
    \/ EnableMFA

Spec == Init /\ [][Next]_vars

\* Requests go on, and Redis removes what has outlived its TTL.
Fairness ==
    /\ \A c \in Calls : WF_vars(Proceed(c))
    /\ \A r \in Tokens : WF_vars(ExpireToken(r))
    /\ \A m \in Challenges : WF_vars(ExpireChallenge(m))
FairSpec == Spec /\ Fairness

-----------------------------------------------------------------------------
\* A refresh never deletes a token without having stored its successor: a token
\* that is gone was logged out, outlived its TTL, or has been replaced, whatever
\* failed in RefreshToken and whoever refreshed at the same time.  (Whether the
\* client was told of the successor is another matter: an answer may be lost.)
GoneHasHeir ==
    \A t \in minted : t \in refresh \cup out \cup expired \/ heirs[t] # {}

\* A token that was logged out is not accepted again: no refresh that was
\* under way, and no pipeline that was cut short, brings it back.
LogoutIsFinal == out \cap refresh = {}

\* Request c came with the token or challenge x.
Holds(c, x) == ~At(c, "idle") /\ call[c].from = x

\* What is gone stays gone: a token or challenge that has left Redis, and that no
\* request holds any more, never comes back, is never held again, and gets no
\* further heir.
Gone(x) == x \in minted \ refresh \/ x \in offered \ challenge
Spent(x) == Gone(x) /\ \A c \in Calls : ~Holds(c, x)
SpentForGood ==
    [][\A x \in Tokens \cup Challenges : Spent(x) => Spent(x)' /\ heirs'[x] = heirs[x]]_vars

\* A challenge that has been traded for a session is no longer in Redis, unless
\* the DEL failed: the burn comes first in VerifyMFA.
TradedIsBurnt ==
    \A m \in Challenges : heirs[m] # {} => m \notin challenge \/ m \in unburnt

\* Sessions do not share tokens: a token takes the place of at most one other.
OneOrigin ==
    \A x, y \in Tokens \cup Challenges : heirs[x] \cap heirs[y] # {} => x = y

\* Whatever was stored is spent in the end, and stays so: it is out of Redis, no
\* request that read it is still under way, and none ever comes with it again.  That
\* goes for a token whose pipeline was cut short between SET and DEL, for the heirs
\* of racing refreshes, for a challenge whose DEL failed: every use case that stores
\* a key must give it a TTL, and none may store it again.
AllSpentInTheEnd ==
    \A x \in Tokens \cup Challenges : x \in minted \cup offered ~> []Spent(x)
=============================================================================
