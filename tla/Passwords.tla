------------------------------ MODULE Passwords ------------------------------
(***************************************************************************)
(* The versions of password hashes.  grpc-password compares a hash with    *)
(* the service its prefix names, hashes with the newest one, and tells a   *)
(* login when the two differ; the login then sends the new hash to a       *)
(* worker, through the outbox.  Meanwhile the password may be reset, and   *)
(* whoever else updates the user writes the hash back as it was read.      *)
(*                                                                         *)
(* One user's hash; its other columns are the subject of Accounts, and the *)
(* way through the outbox that of Delivery.  The repository registers v1   *)
(* only; the code is written for the releases that will register more.     *)
(***************************************************************************)
EXTENDS Naturals, Sequences

CONSTANTS Calls,      \* logins, resets and other updates being served
          Plain,      \* passwords
          Releases,   \* the releases of grpc-password: for each, the versions
                      \* of the services handed to NewGrpcServer, in order
          None,
          MaxFaults   \* bound on failed calls, crashes and redeliveries

Versions == UNION {{Releases[r][i] : i \in DOMAIN Releases[r]} : r \in DOMAIN Releases}
V1 == "v1"

\* Releases add services, behind those there are.
ASSUME PasswordsAssumption ==
    /\ Releases \in Seq(Seq(STRING)) /\ Releases # <<>>
    /\ V1 \in {Releases[1][i] : i \in DOMAIN Releases[1]}
    /\ \A r, s \in DOMAIN Releases : r < s =>
        \A i \in DOMAIN Releases[r] :
            i \in DOMAIN Releases[s] /\ Releases[s][i] = Releases[r][i]
    /\ None \notin Versions
    /\ MaxFaults \in Nat

VARIABLES
    row,       \* users.password_hash
    release,   \* the release of grpc-password that is running
    call,      \* call -> [pc, plain, hash]: the password it came with, and the
               \* hash it has read or computed
    outbox,    \* hashes of upgrade commands that have not been handled
    chosen,    \* history: passwords the user has set
    latest,    \* history: the password set last
    lost,      \* history: an upgrade command was not sent
    faults

vars == <<row, release, call, outbox, chosen, latest, lost, faults>>

\* A hash is its prefix (None for the unprefixed form) and what it was made of.
\* Salts are not modelled: nothing compares hashes with each other.
HashOf(v, p) == [version |-> v, plain |-> p]
AllHashes == [version : Versions \cup {None}, plain : Plain]

Idle == [pc |-> "idle", plain |-> None, hash |-> None]

TypeOK ==
    /\ row \in AllHashes
    /\ release \in DOMAIN Releases
    /\ call \in [Calls -> [pc : {"idle", "found", "matched", "rehashed", "reset", "loaded"},
                           plain : Plain \cup {None},
                           hash : AllHashes \cup {None}]]
    /\ \A c \in Calls : call[c].pc # "idle" => call[c].plain \in Plain /\ call[c].hash \in AllHashes
    /\ outbox \subseteq AllHashes
    /\ chosen \subseteq Plain
    /\ latest \in chosen
    /\ lost \in BOOLEAN
    /\ faults \in 0..MaxFaults

Services == {Releases[release][i] : i \in DOMAIN Releases[release]}
\* Mutated form: new hashes are made by a fixed service, registered or not.
CurrentFixed == Releases[Len(Releases)][Len(Releases[Len(Releases)])]

\* The service registered last.
Current == Releases[release][Len(Releases[release])]

DetectVersion(h) == IF h.version = None THEN V1 ELSE h.version

Init ==
    /\ \E p \in Plain :
        /\ row \in {HashOf(None, p), HashOf(V1, p)}
        /\ chosen = {p} /\ latest = p
    /\ release = 1
    /\ call = [c \in Calls |-> Idle]
    /\ outbox = {}
    /\ lost = FALSE
    /\ faults = 0

At(c, pc) == call[c].pc = pc
Done(c) == call' = [call EXCEPT ![c] = Idle]
Fault == faults < MaxFaults /\ faults' = faults + 1

-----------------------------------------------------------------------------
(* LoginUserUseCase, up to the end of the upgrade. *)

\* FindByEmail.
Find(c, p) ==
    /\ At(c, "idle")
    /\ call' = [call EXCEPT ![c] = [pc |-> "found", plain |-> p, hash |-> row]]
    /\ UNCHANGED <<row, release, outbox, chosen, latest, lost, faults>>

\* Compare looks up the service of the hash's version, and that one compares.
Known(h) == DetectVersion(h) \in Services
Match(h, p) == Known(h) /\ h.plain = p
NeedsUpgrade(h) == DetectVersion(h) # Current

\* ErrInvalidLogin: the version is not known, or the password another.
Refuse(c) ==
    /\ At(c, "found")
    /\ ~Match(call[c].hash, call[c].plain)
    /\ Done(c)
    /\ UNCHANGED <<row, release, outbox, chosen, latest, lost, faults>>

\* The login goes on (see Sessions).
Accept(c) ==
    /\ At(c, "found")
    /\ Match(call[c].hash, call[c].plain)
    /\ ~NeedsUpgrade(call[c].hash)
    /\ Done(c)
    /\ UNCHANGED <<row, release, outbox, chosen, latest, lost, faults>>

\* Mutated form: needs_upgrade is acted upon before the match is looked at.
CompareUnmatched(c) ==
    /\ At(c, "found")
    /\ Known(call[c].hash)
    /\ NeedsUpgrade(call[c].hash)
    /\ call' = [call EXCEPT ![c].pc = "matched"]
    /\ UNCHANGED <<row, release, outbox, chosen, latest, lost, faults>>

CompareLegacy(c) ==
    /\ At(c, "found")
    /\ Match(call[c].hash, call[c].plain)
    /\ NeedsUpgrade(call[c].hash)
    /\ call' = [call EXCEPT ![c].pc = "matched"]
    /\ UNCHANGED <<row, release, outbox, chosen, latest, lost, faults>>

\* Mutated form: the error of Hash is not looked at, and no hash is sent on.
RehashUnchecked(c) ==
    /\ At(c, "matched")
    /\ call' = [call EXCEPT ![c].pc = "rehashed", ![c].hash = None]
    /\ UNCHANGED <<row, release, outbox, chosen, latest, lost, faults>>

\* Hash, by the newest service.
Rehash(c) ==
    /\ At(c, "matched")
    /\ call' = [call EXCEPT ![c].pc = "rehashed",
                            ![c].hash = HashOf(Current, call[c].plain)]
    /\ UNCHANGED <<row, release, outbox, chosen, latest, lost, faults>>

SaveUpgrade(c) ==
    /\ At(c, "rehashed")
    /\ outbox' = outbox \cup {call[c].hash}
    /\ Done(c)
    /\ UNCHANGED <<row, release, chosen, latest, lost, faults>>

\* Errors of Hash and SaveCommand are ignored; with a crash the rest is not
\* executed either.
Abort(c) ==
    /\ ~At(c, "idle")
    /\ lost' = (lost \/ At(c, "matched") \/ At(c, "rehashed"))
    /\ Done(c)
    /\ Fault
    /\ UNCHANGED <<row, release, outbox, chosen, latest>>

-----------------------------------------------------------------------------
(* ProcessPasswordUpgradeUseCase, and ResetPasswordUseCase from Hash on. *)

Upgrade(h) ==
    /\ h \in outbox
    /\ row' = h
    /\ UNCHANGED <<release, call, chosen, latest, lost>>

\* Mutated form: the command is acknowledged and the row is not written.
HandleNothing(h) ==
    /\ h \in outbox
    /\ outbox' = outbox \ {h}
    /\ UNCHANGED <<row, release, call, chosen, latest, lost, faults>>

Handle(h) == Upgrade(h) /\ outbox' = outbox \ {h} /\ UNCHANGED faults

\* The command is handled and comes again: a copy, or a lost acknowledgement.
HandleAgain(h) == Upgrade(h) /\ UNCHANGED outbox /\ Fault

ResetHash(c, p) ==
    /\ At(c, "idle")
    /\ call' = [call EXCEPT ![c] = [pc |-> "reset", plain |-> p, hash |-> HashOf(Current, p)]]
    /\ UNCHANGED <<row, release, outbox, chosen, latest, lost, faults>>

ResetWrite(c) ==
    /\ At(c, "reset")
    /\ row' = call[c].hash
    /\ chosen' = chosen \cup {call[c].plain}
    /\ latest' = call[c].plain
    /\ Done(c)
    /\ UNCHANGED <<release, outbox, lost, faults>>

-----------------------------------------------------------------------------
(* ConfirmEmailUseCase and SetupMFAUseCase: neither is about the password, and *)
(* Update writes password_hash from the copy that FindByID made.             *)

\* Mutated form: the user is read from a cache that resets do not invalidate.
LoadCached(c) ==
    /\ At(c, "idle")
    /\ \E p \in chosen :
        call' = [call EXCEPT ![c] = [pc |-> "loaded", plain |-> p, hash |-> HashOf(V1, p)]]
    /\ UNCHANGED <<row, release, outbox, chosen, latest, lost, faults>>

Load(c) ==
    /\ At(c, "idle")
    /\ call' = [call EXCEPT ![c] = [pc |-> "loaded", plain |-> row.plain, hash |-> row]]
    /\ UNCHANGED <<row, release, outbox, chosen, latest, lost, faults>>

WriteBack(c) ==
    /\ At(c, "loaded")
    /\ row' = call[c].hash
    /\ Done(c)
    /\ UNCHANGED <<release, outbox, chosen, latest, lost, faults>>

-----------------------------------------------------------------------------
\* The next release replaces the running one.
Deploy ==
    /\ release < Len(Releases)
    /\ release' = release + 1
    /\ UNCHANGED <<row, call, outbox, chosen, latest, lost, faults>>

Proceed(c) ==
    \/ Refuse(c) \/ Accept(c) \/ CompareLegacy(c) \/ Rehash(c) \/ SaveUpgrade(c)
    \/ ResetWrite(c) \/ WriteBack(c)

Next ==
    \/ \E c \in Calls, p \in Plain : Find(c, p) \/ ResetHash(c, p)
    \/ \E c \in Calls : Load(c) \/ Proceed(c) \/ Abort(c)
    \/ \E h \in AllHashes : Handle(h) \/ HandleAgain(h)
    \/ Deploy

Spec == Init /\ [][Next]_vars

\* Calls go on, and the outbox delivers.
Fairness ==
    /\ \A c \in Calls : WF_vars(Proceed(c))
    /\ \A h \in AllHashes : WF_vars(Handle(h))
FairSpec == Spec /\ Fairness

-----------------------------------------------------------------------------
\* Whatever is stored, or on its way to being stored, can be compared by the
\* running release, and so by every later one.
AlwaysComparable ==
    /\ Known(row)
    /\ \A h \in outbox : Known(h)
    /\ \A c \in Calls : ~At(c, "idle") => Known(call[c].hash)

\* An upgrade never stores a password the user has not set, whatever was typed
\* into a login.
OnlyChosen == row.plain \in chosen /\ \A h \in outbox : h.plain \in chosen

\* Once the row, the commands and the calls under way all belong to the password
\* set last, they do so until another is set.  So an older password can come back
\* (nothing orders these writes, and it does), but only with what is left over
\* from before the reset: a command, a login, or the copy of the user that a
\* confirmation or an MFA setup has read.  It never comes back anew.
Settled ==
    /\ row.plain = latest
    /\ \A h \in outbox : h.plain = latest
    /\ \A c \in Calls :
        /\ At(c, "found") \/ At(c, "loaded") => call[c].hash.plain = latest
        /\ At(c, "matched") \/ At(c, "rehashed") => call[c].plain = latest
OnlyAResetUnsettles == [][Settled => Settled' \/ latest' # latest]_vars

\* With one service, as grpc-password is built, nothing needs an upgrade: no login
\* gets beyond the comparison, and no command is ever sent.
OneServiceNoUpgrade ==
    (\A r \in DOMAIN Releases : Len(Releases[r]) = 1) =>
        /\ outbox = {}
        /\ \A c \in Calls : ~At(c, "matched") /\ ~At(c, "rehashed")

\* A legacy hash someone has logged in with is replaced, unless the command
\* could not be sent.
LegacyReplaced ==
    \A h \in AllHashes :
        (\E c \in Calls : At(c, "matched") /\ call[c].hash = h) ~> row # h \/ lost
=============================================================================
