--------------------------- MODULE PasswordsProofs ---------------------------
(***************************************************************************)
(* For every sequence of releases that only add services, and every number *)
(* of logins, resets and faults: hashes stay comparable, upgrades store    *)
(* nothing but what the user has set, and an older password comes back     *)
(* only with what is left over from before a reset.                        *)
(***************************************************************************)
EXTENDS Passwords, TLAPS

USE PasswordsAssumption

\* What a request holds at each of its steps.
HoldsWhatItRead(c) ==
    /\ At(c, "found") \/ At(c, "loaded") => call[c].hash.plain \in chosen
    /\ At(c, "matched") \/ At(c, "rehashed") => call[c].plain \in chosen
    /\ At(c, "matched") \/ At(c, "rehashed") \/ At(c, "reset") => call[c].hash.plain = call[c].plain

Bookkeeping == \A c \in Calls : HoldsWhatItRead(c)

IInv == /\ TypeOK /\ Bookkeeping
        /\ AlwaysComparable /\ OnlyChosen

CallRecord == [pc : {"idle", "found", "matched", "rehashed", "reset", "loaded"},
               plain : Plain \cup {None},
               hash : AllHashes \cup {None}]

LEMMA Types ==
    ASSUME TypeOK
    PROVE  /\ row \in AllHashes
           /\ release \in DOMAIN Releases
           /\ call \in [Calls -> CallRecord]
           /\ \A c \in Calls : ~At(c, "idle") => call[c].plain \in Plain /\ call[c].hash \in AllHashes
           /\ outbox \subseteq AllHashes
           /\ chosen \subseteq Plain /\ latest \in chosen
           /\ lost \in BOOLEAN
           /\ faults \in 0..MaxFaults
BY DEF TypeOK, CallRecord, At

LEMMA FaultTyped ==
    ASSUME faults \in 0..MaxFaults, Fault
    PROVE  faults' \in 0..MaxFaults
BY DEF Fault

-----------------------------------------------------------------------------
\* Every release has the service v1 and a newest service, and keeps the services
\* of the one before it.
LEMMA ReleaseHasV1 ==
    ASSUME NEW r \in DOMAIN Releases
    PROVE  \E i \in DOMAIN Releases[r] : Releases[r][i] = V1
<1>1. r \in 1..Len(Releases) /\ 1 \in DOMAIN Releases
  OBVIOUS
<1>2. PICK i \in DOMAIN Releases[1] : Releases[1][i] = V1
  OBVIOUS
<1>3. CASE r = 1
  BY <1>2, <1>3
<1>4. CASE r # 1
  <2>1. 1 < r
    BY <1>1, <1>4
  <2>2. i \in DOMAIN Releases[r] /\ Releases[r][i] = Releases[1][i]
    BY <1>1, <2>1
  <2> QED BY <1>2, <2>2
<1> QED BY <1>3, <1>4

LEMMA CurrentRuns ==
    ASSUME release \in DOMAIN Releases
    PROVE  /\ V1 \in Services
           /\ Current \in Services
           /\ Current \in Versions
<1>1. PICK i \in DOMAIN Releases[release] : Releases[release][i] = V1
  BY ReleaseHasV1
<1>2. Releases[release] \in Seq(STRING)
  OBVIOUS
<1>3. Len(Releases[release]) \in DOMAIN Releases[release]
  BY <1>1, <1>2
<1> QED BY <1>1, <1>3 DEF Services, Current, Versions

LEMMA ServicesKept ==
    ASSUME release \in DOMAIN Releases, Deploy
    PROVE  release' \in DOMAIN Releases /\ Services \subseteq Services'
<1>1. release' \in DOMAIN Releases /\ release < release'
  BY DEF Deploy
<1>2. ASSUME NEW i \in DOMAIN Releases[release]
      PROVE  i \in DOMAIN Releases[release'] /\ Releases[release'][i] = Releases[release][i]
  BY <1>1
<1> QED BY <1>1, <1>2 DEF Services

-----------------------------------------------------------------------------
\* Who changes what.
Rewrites(h) == Handle(h) \/ HandleAgain(h)

LEMMA NextCases ==
    ASSUME [Next]_vars
    PROVE  \/ \E c \in Calls, p \in Plain : Find(c, p) \/ ResetHash(c, p)
           \/ \E c \in Calls : Refuse(c) \/ Accept(c) \/ Abort(c)
           \/ \E c \in Calls : CompareLegacy(c) \/ Rehash(c)
           \/ \E c \in Calls : SaveUpgrade(c)
           \/ \E c \in Calls : ResetWrite(c)
           \/ \E c \in Calls : Load(c)
           \/ \E c \in Calls : WriteBack(c)
           \/ \E h \in AllHashes : Rewrites(h)
           \/ Deploy
           \/ UNCHANGED vars
BY DEF Next, Proceed, Rewrites

\* A hash made now: of a known version, and of the password it was made of.
LEMMA NewHash ==
    ASSUME release \in DOMAIN Releases, NEW p \in Plain
    PROVE  /\ HashOf(Current, p) \in AllHashes
           /\ HashOf(Current, p).plain = p
           /\ Known(HashOf(Current, p))
<1>1. Current \in Versions /\ Current \in Services
  BY CurrentRuns
<1>2. /\ HashOf(Current, p) = [version |-> Current, plain |-> p]
      /\ HashOf(Current, p) \in AllHashes
  BY <1>1 DEF HashOf, AllHashes
<1>3. DetectVersion(HashOf(Current, p)) = Current
  BY <1>1, <1>2 DEF DetectVersion
<1> QED BY <1>1, <1>2, <1>3 DEF Known

LEMMA TypeStep == TypeOK /\ Bookkeeping /\ [Next]_vars => TypeOK'
<1> SUFFICES ASSUME TypeOK, Bookkeeping, [Next]_vars
             PROVE  TypeOK'
  OBVIOUS
<1>1. Idle \in CallRecord
  BY DEF Idle, CallRecord
<1>2. ASSUME NEW c \in Calls, Done(c)
      PROVE  /\ call' \in [Calls -> CallRecord]
             /\ \A d \in Calls : call'[d].pc # "idle" => call'[d].plain \in Plain /\ call'[d].hash \in AllHashes
  <2>1. \A d \in Calls : call'[d] = IF d = c THEN Idle ELSE call[d]
    BY <1>2, Types DEF Done
  <2>2. call' \in [Calls -> CallRecord]
    BY <1>1, <1>2, Types DEF Done
  <2> QED BY <2>1, <2>2, Types DEF At, Idle
<1>3. ASSUME NEW c \in Calls, NEW p \in Plain, NEW h \in AllHashes, NEW pc,
             pc \in {"found", "matched", "rehashed", "reset", "loaded"},
             call' = [call EXCEPT ![c] = [pc |-> pc, plain |-> p, hash |-> h]]
      PROVE  /\ call' \in [Calls -> CallRecord]
             /\ \A d \in Calls : call'[d].pc # "idle" => call'[d].plain \in Plain /\ call'[d].hash \in AllHashes
  BY <1>3, Types DEF CallRecord, At
<1>4. ASSUME NEW c \in Calls, NEW p \in Plain, Find(c, p) \/ ResetHash(c, p)
      PROVE  TypeOK'
  <2>1. CASE Find(c, p)
    BY <1>3, <2>1, Types DEF Find, TypeOK, CallRecord
  <2>2. CASE ResetHash(c, p)
    <3> DEFINE h == HashOf(Current, p)
    <3>1. h \in AllHashes
      BY NewHash, Types
    <3>2. call' = [call EXCEPT ![c] = [pc |-> "reset", plain |-> p, hash |-> h]]
      BY <2>2 DEF ResetHash
    <3> HIDE DEF h
    <3> QED BY <1>3, <2>2, <3>1, <3>2, Types DEF ResetHash, TypeOK, CallRecord
  <2> QED BY <1>4, <2>1, <2>2
<1>5. ASSUME NEW c \in Calls, Refuse(c) \/ Accept(c) \/ Abort(c)
      PROVE  TypeOK'
  BY <1>2, <1>5, Types, FaultTyped DEF Refuse, Accept, Abort, TypeOK, CallRecord
<1>6. ASSUME NEW c \in Calls, CompareLegacy(c) \/ Rehash(c)
      PROVE  TypeOK'
  <2>1. call[c] \in CallRecord /\ call[c].plain \in Plain /\ call[c].hash \in AllHashes
    BY <1>6, Types DEF CompareLegacy, Rehash, At
  <2>2. CASE CompareLegacy(c)
    <3> DEFINE r == [call[c] EXCEPT !.pc = "matched"]
    <3>1. call' = [call EXCEPT ![c] = r]
      BY <2>2, Types DEF CompareLegacy
    <3>2. r \in CallRecord /\ r.plain = call[c].plain /\ r.hash = call[c].hash
      BY <2>1 DEF CallRecord
    <3> HIDE DEF r
    <3>3. UNCHANGED <<row, release, outbox, chosen, latest, lost, faults>>
      BY <2>2 DEF CompareLegacy
    <3>4. /\ call' \in [Calls -> CallRecord]
          /\ \A d \in Calls : call'[d].pc # "idle" => call'[d].plain \in Plain /\ call'[d].hash \in AllHashes
      BY <2>1, <3>1, <3>2, Types DEF At
    <3> QED BY <3>3, <3>4 DEF TypeOK, CallRecord
  <2>3. CASE Rehash(c)
    <3> DEFINE h == HashOf(Current, call[c].plain)
    <3> DEFINE r == [call[c] EXCEPT !.pc = "rehashed", !.hash = h]
    <3>1. h \in AllHashes
      BY <2>1, NewHash, Types
    <3>2. call' = [call EXCEPT ![c].pc = "rehashed", ![c].hash = h]
      BY <2>3 DEF Rehash
    <3> HIDE DEF h
    <3>3. call' = [call EXCEPT ![c] = r]
      BY <3>2, Types
    <3>4. r \in CallRecord /\ r.plain = call[c].plain /\ r.hash = h
      BY <2>1, <3>1 DEF CallRecord
    <3> HIDE DEF r
    <3>5. UNCHANGED <<row, release, outbox, chosen, latest, lost, faults>>
      BY <2>3 DEF Rehash
    <3>6. /\ call' \in [Calls -> CallRecord]
          /\ \A d \in Calls : call'[d].pc # "idle" => call'[d].plain \in Plain /\ call'[d].hash \in AllHashes
      BY <2>1, <3>1, <3>3, <3>4, Types DEF At
    <3> QED BY <3>5, <3>6 DEF TypeOK, CallRecord
  <2> QED BY <1>6, <2>2, <2>3
<1>7. ASSUME NEW c \in Calls, SaveUpgrade(c)
      PROVE  TypeOK'
  BY <1>2, <1>7, Types DEF SaveUpgrade, At, TypeOK, CallRecord
<1>8. ASSUME NEW c \in Calls, ResetWrite(c)
      PROVE  TypeOK'
  BY <1>2, <1>8, Types DEF ResetWrite, At, TypeOK, CallRecord
<1>12. ASSUME NEW c \in Calls, Load(c)
      PROVE  TypeOK'
  <2>1. row.plain \in Plain /\ row \in AllHashes
    BY Types DEF AllHashes
  <2> QED BY <1>3, <1>12, <2>1, Types DEF Load, TypeOK, CallRecord
<1>13. ASSUME NEW c \in Calls, WriteBack(c)
      PROVE  TypeOK'
  BY <1>2, <1>13, Types DEF WriteBack, At, TypeOK, CallRecord
<1>9. ASSUME NEW h \in AllHashes, Rewrites(h)
      PROVE  TypeOK'
  BY <1>9, Types, FaultTyped DEF Rewrites, Handle, HandleAgain, Upgrade, TypeOK, At
<1>10. CASE Deploy
  BY <1>10, Types, ServicesKept DEF Deploy, TypeOK
<1>11. CASE UNCHANGED vars
  BY <1>11 DEF vars, TypeOK
<1> QED BY <1>4, <1>5, <1>6, <1>7, <1>8, <1>9, <1>10, <1>11, <1>12, <1>13, NextCases

-----------------------------------------------------------------------------
\* How a request gets from one step to the next.
LEMMA CallsMove ==
    ASSUME TypeOK, [Next]_vars, NEW c \in Calls
    PROVE  \/ call'[c] = call[c]
           \/ call'[c] = Idle
           \/ /\ call'[c].pc = "found"
              /\ call'[c].plain \in Plain /\ call'[c].hash = row
           \/ call'[c].pc = "loaded" /\ call'[c].hash = row
           \/ /\ call'[c].pc = "reset"
              /\ call'[c].plain \in Plain /\ call'[c].hash = HashOf(Current, call'[c].plain)
           \/ /\ At(c, "found") /\ Match(call[c].hash, call[c].plain)
              /\ call'[c].pc = "matched"
              /\ call'[c].plain = call[c].plain /\ call'[c].hash = call[c].hash
           \/ /\ At(c, "matched")
              /\ call'[c].pc = "rehashed" /\ call'[c].plain = call[c].plain
              /\ call'[c].hash = HashOf(Current, call[c].plain)
<1>1. ASSUME NEW d \in Calls, Done(d)
      PROVE  call'[c] \in {call[c], Idle}
  BY <1>1, Types DEF Done
<1>2. ASSUME NEW d \in Calls, NEW p \in Plain, Find(d, p)
      PROVE  IF c = d
             THEN call'[c].pc = "found" /\ call'[c].plain \in Plain /\ call'[c].hash = row
             ELSE call'[c] = call[c]
  BY <1>2, Types DEF Find
<1>3. ASSUME NEW d \in Calls, NEW p \in Plain, ResetHash(d, p)
      PROVE  IF c = d
             THEN /\ call'[c].pc = "reset" /\ call'[c].plain \in Plain
                  /\ call'[c].hash = HashOf(Current, call'[c].plain)
             ELSE call'[c] = call[c]
  <2> DEFINE h == HashOf(Current, p)
  <2>1. call' = [call EXCEPT ![d] = [pc |-> "reset", plain |-> p, hash |-> h]]
    BY <1>3 DEF ResetHash
  <2> HIDE DEF h
  <2>2. IF c = d
        THEN call'[c].pc = "reset" /\ call'[c].plain = p /\ call'[c].hash = h
        ELSE call'[c] = call[c]
    BY <2>1, Types
  <2> QED BY <2>2 DEF h
<1>7. ASSUME NEW d \in Calls, Load(d)
      PROVE  IF c = d
             THEN call'[c].pc = "loaded" /\ call'[c].hash = row
             ELSE call'[c] = call[c]
  BY <1>7, Types DEF Load
<1>4. ASSUME NEW d \in Calls, CompareLegacy(d)
      PROVE  IF c = d
             THEN /\ At(c, "found") /\ Match(call[c].hash, call[c].plain)
                  /\ call'[c].pc = "matched"
                  /\ call'[c].plain = call[c].plain /\ call'[c].hash = call[c].hash
             ELSE call'[c] = call[c]
  <2>1. /\ At(d, "found") /\ Match(call[d].hash, call[d].plain)
        /\ call' = [call EXCEPT ![d].pc = "matched"]
    BY <1>4 DEF CompareLegacy
  <2> QED BY <2>1, Types DEF CallRecord
<1>5. ASSUME NEW d \in Calls, Rehash(d)
      PROVE  IF c = d
             THEN /\ At(c, "matched")
                  /\ call'[c].pc = "rehashed" /\ call'[c].plain = call[c].plain
                  /\ call'[c].hash = HashOf(Current, call[c].plain)
             ELSE call'[c] = call[c]
  <2> DEFINE h == HashOf(Current, call[d].plain)
  <2>1. At(d, "matched") /\ call' = [call EXCEPT ![d].pc = "rehashed", ![d].hash = h]
    BY <1>5 DEF Rehash
  <2> HIDE DEF h
  <2>2. IF c = d
        THEN call'[c].pc = "rehashed" /\ call'[c].plain = call[c].plain /\ call'[c].hash = h
        ELSE call'[c] = call[c]
    BY <2>1, Types DEF CallRecord
  <2> QED BY <2>1, <2>2 DEF h
<1>6. \/ UNCHANGED call
      \/ \E d \in Calls : Done(d) \/ CompareLegacy(d) \/ Rehash(d) \/ Load(d)
      \/ \E d \in Calls, p \in Plain : Find(d, p) \/ ResetHash(d, p)
  BY NextCases DEF Refuse, Accept, Abort, SaveUpgrade, ResetWrite, WriteBack, Rewrites, Handle,
     HandleAgain, Upgrade, Deploy, vars
<1> QED BY <1>1, <1>2, <1>3, <1>4, <1>5, <1>6, <1>7

\* Who writes the row and the outbox.
LEMMA RowMoves ==
    ASSUME [Next]_vars
    PROVE  \/ UNCHANGED <<row, outbox, chosen, latest>>
           \/ \E c \in Calls : SaveUpgrade(c)
           \/ \E c \in Calls : ResetWrite(c)
           \/ \E c \in Calls : WriteBack(c)
           \/ \E h \in AllHashes : Rewrites(h)
BY NextCases DEF Find, Load, ResetHash, Refuse, Accept, Abort, CompareLegacy, Rehash, Deploy, vars

LEMMA ChosenGrow ==
    ASSUME [Next]_vars
    PROVE  chosen \subseteq chosen'
BY RowMoves DEF SaveUpgrade, ResetWrite, WriteBack, Rewrites, Handle, HandleAgain, Upgrade

LEMMA BookkeepingStep ==
    TypeOK /\ Bookkeeping /\ OnlyChosen /\ [Next]_vars => Bookkeeping'
<1> SUFFICES ASSUME TypeOK, Bookkeeping, OnlyChosen, [Next]_vars, NEW c \in Calls
             PROVE  HoldsWhatItRead(c)'
  BY DEF Bookkeeping
<1>1. HoldsWhatItRead(c) /\ chosen \subseteq chosen'
  BY ChosenGrow DEF Bookkeeping
<1>2. \A p \in Plain : HashOf(Current, p).plain = p
  BY NewHash, Types
<1>3. row.plain \in chosen
  BY DEF OnlyChosen
<1> USE DEF HoldsWhatItRead, At
<1>4. CASE call'[c] = call[c]
  BY <1>1, <1>4
<1>5. CASE call'[c] = Idle
  BY <1>5 DEF Idle
<1>6. CASE call'[c].pc \in {"found", "loaded"} /\ call'[c].hash = row
  BY <1>1, <1>3, <1>6
<1>7. CASE /\ call'[c].pc = "reset"
           /\ call'[c].plain \in Plain /\ call'[c].hash = HashOf(Current, call'[c].plain)
  BY <1>2, <1>7
<1>8. CASE /\ At(c, "found") /\ Match(call[c].hash, call[c].plain)
           /\ call'[c].pc = "matched"
           /\ call'[c].plain = call[c].plain /\ call'[c].hash = call[c].hash
  BY <1>1, <1>8 DEF Match
<1>9. CASE /\ At(c, "matched")
           /\ call'[c].pc = "rehashed" /\ call'[c].plain = call[c].plain
           /\ call'[c].hash = HashOf(Current, call[c].plain)
  BY <1>1, <1>2, <1>9, Types
<1> QED BY <1>4, <1>5, <1>6, <1>7, <1>8, <1>9, CallsMove

-----------------------------------------------------------------------------
LEMMA ComparableStep ==
    TypeOK /\ AlwaysComparable /\ [Next]_vars => AlwaysComparable'
<1> SUFFICES ASSUME TypeOK, AlwaysComparable, [Next]_vars
             PROVE  AlwaysComparable'
  OBVIOUS
<1>1. Services \subseteq Services'
  <2>1. UNCHANGED release => Services' = Services
    BY DEF Services
  <2>2. UNCHANGED release \/ Deploy
    BY NextCases DEF Find, ResetHash, Load, Refuse, Accept, Abort, CompareLegacy, Rehash,
       SaveUpgrade, ResetWrite, WriteBack, Rewrites, Handle, HandleAgain, Upgrade, vars
  <2> QED BY <2>1, <2>2, ServicesKept, Types
<1>2. ASSUME NEW h, Known(h)
      PROVE  DetectVersion(h) \in Services'
  BY <1>1, <1>2 DEF Known
<1>3. \A p \in Plain : Known(HashOf(Current, p))
  BY NewHash, Types
<1>4. Known(row) /\ \A h \in outbox : Known(h)
  BY DEF AlwaysComparable
<1>5. \A c \in Calls : ~At(c, "idle") => Known(call[c].hash)
  BY DEF AlwaysComparable
<1>6. ASSUME NEW c \in Calls, call'[c].pc # "idle"
      PROVE  \E h : call'[c].hash = h /\ Known(h)
  <2>1. CASE At(c, "idle") /\ call'[c] = call[c]
    BY <1>6, <2>1 DEF At
  <2>2. CASE ~At(c, "idle") /\ call'[c].hash = call[c].hash
    BY <1>5, <2>2
  <2>3. CASE call'[c].hash = row
    BY <1>4, <2>3
  <2>4. ASSUME NEW p \in Plain, call'[c].hash = HashOf(Current, p)
        PROVE  \E h : call'[c].hash = h /\ Known(h)
    BY <1>3, <2>4
  <2>5. call'[c] # Idle
    BY <1>6 DEF Idle
  <2>6. ~At(c, "idle") => call[c].plain \in Plain
    BY Types
  <2>7. At(c, "found") \/ At(c, "matched") => ~At(c, "idle")
    BY DEF At
  <2> QED BY <2>1, <2>2, <2>3, <2>4, <2>5, <2>6, <2>7, CallsMove
<1>7. /\ \E h : row' = h /\ Known(h)
      /\ \A h \in outbox' : Known(h)
  BY <1>4, <1>5, RowMoves
  DEF SaveUpgrade, ResetWrite, WriteBack, Rewrites, Handle, HandleAgain, Upgrade, At
<1> QED BY <1>2, <1>6, <1>7 DEF AlwaysComparable, Known, At, DetectVersion

LEMMA ChosenStep == TypeOK /\ Bookkeeping /\ OnlyChosen /\ [Next]_vars => OnlyChosen'
<1> SUFFICES ASSUME TypeOK, Bookkeeping, OnlyChosen, [Next]_vars
             PROVE  OnlyChosen'
  OBVIOUS
<1> USE DEF OnlyChosen
<1>1. ASSUME NEW c \in Calls, SaveUpgrade(c)
      PROVE  OnlyChosen'
  <2>1. call[c].hash.plain \in chosen
    BY <1>1 DEF SaveUpgrade, Bookkeeping, HoldsWhatItRead, At
  <2> QED BY <1>1, <2>1 DEF SaveUpgrade
<1>2. ASSUME NEW c \in Calls, ResetWrite(c)
      PROVE  OnlyChosen'
  <2>1. call[c].hash.plain = call[c].plain
    BY <1>2 DEF ResetWrite, Bookkeeping, HoldsWhatItRead, At
  <2> QED BY <1>2, <2>1 DEF ResetWrite
<1>3. ASSUME NEW c \in Calls, WriteBack(c)
      PROVE  OnlyChosen'
  BY <1>3 DEF WriteBack, Bookkeeping, HoldsWhatItRead, At
<1>4. ASSUME NEW h \in AllHashes, Rewrites(h)
      PROVE  OnlyChosen'
  BY <1>4 DEF Rewrites, Handle, HandleAgain, Upgrade
<1> QED BY <1>1, <1>2, <1>3, <1>4, RowMoves

-----------------------------------------------------------------------------
\* IInv is the inductive invariant of the hash versions.
THEOREM Invariance == Spec => []IInv
<1>1. Init => IInv
  <2> SUFFICES ASSUME Init PROVE IInv
    OBVIOUS
  <2>1. release = 1 /\ 1 \in DOMAIN Releases /\ V1 \in Services /\ V1 \in Versions
    BY CurrentRuns DEF Init, Services, Versions
  <2>2. PICK p \in Plain : row \in {HashOf(None, p), HashOf(V1, p)} /\ chosen = {p} /\ latest = p
    BY DEF Init
  <2>3. row \in AllHashes /\ row.plain = p /\ DetectVersion(row) = V1
    BY <2>1, <2>2 DEF HashOf, AllHashes, DetectVersion
  <2>4. TypeOK
    <3>1. call \in [Calls -> CallRecord] /\ \A c \in Calls : call[c].pc = "idle"
      BY DEF Init, CallRecord, Idle
    <3>2. MaxFaults \in Nat /\ faults = 0 /\ lost = FALSE /\ outbox = {} /\ p \in Plain
      BY <2>2 DEF Init
    <3>3. faults \in 0..MaxFaults
      BY <3>2
    <3>4. release \in DOMAIN Releases /\ lost \in BOOLEAN
      BY <2>1, <3>2, Zenon
    <3>5. /\ outbox \subseteq AllHashes
          /\ chosen \subseteq Plain /\ latest \in chosen
      BY <2>2, <3>2
    <3> QED BY <2>3, <3>1, <3>3, <3>4, <3>5 DEF TypeOK, CallRecord
  <2>5. Bookkeeping
    BY DEF Init, Bookkeeping, HoldsWhatItRead, At, Idle
  <2>6. AlwaysComparable /\ OnlyChosen
    BY <2>1, <2>2, <2>3 DEF Init, AlwaysComparable, Known, OnlyChosen, At, Idle
  <2> QED BY <2>4, <2>5, <2>6 DEF IInv
<1>2. IInv /\ [Next]_vars => IInv'
  BY TypeStep, BookkeepingStep, ComparableStep, ChosenStep DEF IInv
<1> QED BY <1>1, <1>2, PTL DEF Spec

\* The variables keep their types; a request never goes on with a hash that
\* grpc-password has not made or the row has not held.
THEOREM TypeCorrect == Spec => []TypeOK
<1>1. IInv => TypeOK
  BY DEF IInv
<1> QED BY <1>1, Invariance, PTL

\* However many versions are released, one after the other, every hash that is
\* stored, queued or being handled has a service that can compare it (Compare).
THEOREM HashesStayComparable == Spec => []AlwaysComparable
<1>1. IInv => AlwaysComparable
  BY DEF IInv
<1> QED BY <1>1, Invariance, PTL

\* What logins send to be stored is a password the user has set (Compare before
\* the upgrade in LoginUserUseCase).
THEOREM UpgradesStoreChosen == Spec => []OnlyChosen
<1>1. IInv => OnlyChosen
  BY DEF IInv
<1> QED BY <1>1, Invariance, PTL

-----------------------------------------------------------------------------
\* What is under way for the present password leads to nothing else.
LEMMA SettledStep ==
    ASSUME TypeOK, Bookkeeping, [Next]_vars, Settled, latest' = latest
    PROVE  Settled'
<1>1. \A p \in Plain : HashOf(Current, p).plain = p
  BY NewHash, Types
<1>2. ASSUME NEW c \in Calls
      PROVE  /\ call'[c].pc \in {"found", "loaded"} => call'[c].hash.plain = latest
             /\ call'[c].pc \in {"matched", "rehashed"} => call'[c].plain = latest
  <2> USE DEF Settled, At
  <2>1. CASE call'[c] = call[c]
    BY <2>1
  <2>2. CASE call'[c] = Idle
    BY <2>2 DEF Idle
  <2>3. CASE call'[c].pc \in {"found", "loaded"} /\ call'[c].hash = row
    BY <2>3
  <2>4. CASE call'[c].pc = "reset"
    BY <2>4
  <2>5. CASE /\ At(c, "found") /\ Match(call[c].hash, call[c].plain)
             /\ call'[c].pc = "matched" /\ call'[c].plain = call[c].plain
    BY <2>5 DEF Match
  <2>6. CASE At(c, "matched") /\ call'[c].pc = "rehashed" /\ call'[c].plain = call[c].plain
    BY <2>6
  <2> QED BY <2>1, <2>2, <2>3, <2>4, <2>5, <2>6, CallsMove
<1>3. row'.plain = latest /\ \A h \in outbox' : h.plain = latest
  <2>1. ASSUME NEW c \in Calls, SaveUpgrade(c)
        PROVE  row'.plain = latest /\ \A h \in outbox' : h.plain = latest
    <3>1. call[c].hash.plain = latest
      BY <2>1 DEF SaveUpgrade, Bookkeeping, HoldsWhatItRead, Settled, At
    <3> QED BY <2>1, <3>1 DEF SaveUpgrade, Settled
  <2>2. ASSUME NEW c \in Calls, ResetWrite(c)
        PROVE  row'.plain = latest /\ \A h \in outbox' : h.plain = latest
    <3>1. call[c].hash.plain = call[c].plain /\ call[c].plain = latest
      BY <2>2 DEF ResetWrite, Bookkeeping, HoldsWhatItRead, At
    <3> QED BY <2>2, <3>1 DEF ResetWrite, Settled
  <2>3. ASSUME NEW h \in AllHashes, Rewrites(h)
        PROVE  row'.plain = latest /\ \A x \in outbox' : x.plain = latest
    BY <2>3 DEF Rewrites, Handle, HandleAgain, Upgrade, Settled
  <2>4. CASE UNCHANGED <<row, outbox, chosen, latest>>
    BY <2>4 DEF Settled
  <2>5. ASSUME NEW c \in Calls, WriteBack(c)
        PROVE  row'.plain = latest /\ \A h \in outbox' : h.plain = latest
    BY <2>5 DEF WriteBack, Settled
  <2> QED BY <2>1, <2>2, <2>3, <2>4, <2>5, RowMoves
<1> QED BY <1>2, <1>3 DEF Settled, At

\* An older password comes back only with what was under way for it when the reset
\* was written: an upgrade (LoginUserUseCase, ProcessPasswordUpgradeUseCase), or the
\* copy of the user that ConfirmEmailUseCase or SetupMFAUseCase writes back (Update).
THEOREM SettledUntilReset == Spec => OnlyAResetUnsettles
<1>1. IInv /\ [Next]_vars => [Settled => Settled' \/ latest' # latest]_vars
  BY SettledStep DEF IInv
<1> QED BY <1>1, Invariance, PTL DEF Spec, OnlyAResetUnsettles

-----------------------------------------------------------------------------
\* One service: v1, and with it every hash that can be compared is up to date.
LEMMA OneService ==
    ASSUME \A r \in DOMAIN Releases : Len(Releases[r]) = 1, release \in DOMAIN Releases
    PROVE  Current = V1 /\ Services = {V1}
<1>1. Releases[release] \in Seq(STRING) /\ Len(Releases[release]) = 1
  OBVIOUS
<1>2. DOMAIN Releases[release] = {1}
  BY <1>1
<1>3. PICK i \in DOMAIN Releases[release] : Releases[release][i] = V1
  BY ReleaseHasV1
<1>4. Releases[release][1] = V1
  BY <1>2, <1>3
<1> QED BY <1>1, <1>2, <1>4 DEF Current, Services

\* With grpc-password as it is built no upgrade is ever computed or sent
\* (NewGrpcServer is handed one service).
THEOREM NothingToUpgrade == Spec => []OneServiceNoUpgrade
<1> DEFINE One == \A r \in DOMAIN Releases : Len(Releases[r]) = 1
           NoneSent == One => /\ outbox = {}
                              /\ \A c \in Calls : ~At(c, "matched") /\ ~At(c, "rehashed")
<1>1. Init => NoneSent
  BY DEF Init, At, Idle
<1>2. IInv /\ NoneSent /\ [Next]_vars => NoneSent'
  <2> SUFFICES ASSUME IInv, One, outbox = {}, [Next]_vars,
                      \A c \in Calls : ~At(c, "matched") /\ ~At(c, "rehashed")
               PROVE  /\ outbox' = {}
                      /\ \A c \in Calls : call'[c].pc \notin {"matched", "rehashed"}
    BY DEF At
  <2>1. TypeOK /\ AlwaysComparable /\ release \in DOMAIN Releases
    BY Types DEF IInv
  <2>2. outbox' = {}
    <3>1. \A c \in Calls : ~SaveUpgrade(c)
      BY DEF SaveUpgrade
    <3>2. \A h \in AllHashes : ~Rewrites(h)
      BY DEF Rewrites, Handle, HandleAgain, Upgrade
    <3> QED BY <3>1, <3>2, RowMoves DEF ResetWrite, WriteBack
  <2>3. ASSUME NEW c \in Calls
        PROVE  ~CompareLegacy(c)
    <3>1. At(c, "found") => DetectVersion(call[c].hash) = V1
      BY <2>1, OneService DEF AlwaysComparable, Known, At
    <3> QED BY <2>1, <3>1, OneService DEF CompareLegacy, NeedsUpgrade
  <2>4. ASSUME NEW c \in Calls
        PROVE  call'[c].pc \notin {"matched", "rehashed"}
    <3>1. call'[c] \in {call[c], Idle} \/ call'[c].pc \in {"found", "reset", "loaded"}
      <4>1. ASSUME NEW d \in Calls, Done(d)
            PROVE  call'[c] \in {call[c], Idle}
        BY <2>1, <4>1, Types DEF Done
      <4>2. ASSUME NEW d \in Calls, NEW p \in Plain, NEW h, NEW pc \in {"found", "reset", "loaded"},
                   call' = [call EXCEPT ![d] = [pc |-> pc, plain |-> p, hash |-> h]]
            PROVE  call'[c] = call[c] \/ call'[c].pc \in {"found", "reset", "loaded"}
        BY <2>1, <4>2, Types
      <4>3. ASSUME NEW d \in Calls, NEW p \in Plain, Find(d, p) \/ ResetHash(d, p)
            PROVE  call'[c] = call[c] \/ call'[c].pc \in {"found", "reset", "loaded"}
        BY <4>2, <4>3 DEF Find, ResetHash
      <4>6. ASSUME NEW d \in Calls, Load(d)
            PROVE  call'[c] = call[c] \/ call'[c].pc \in {"found", "reset", "loaded"}
        BY <2>1, <4>6, Types DEF Load
      <4>4. \A d \in Calls : ~Rehash(d)
        BY DEF Rehash
      <4>5. \/ UNCHANGED call
            \/ \E d \in Calls : Done(d) \/ Load(d)
            \/ \E d \in Calls, p \in Plain : Find(d, p) \/ ResetHash(d, p)
        BY <2>3, <4>4, NextCases DEF Refuse, Accept, Abort, SaveUpgrade, ResetWrite,
           WriteBack, Rewrites, Handle, HandleAgain, Upgrade, Deploy, vars
      <4> QED BY <4>1, <4>3, <4>5, <4>6
    <3> QED BY <3>1 DEF At, Idle
  <2> QED BY <2>2, <2>4
<1>3. IInv /\ NoneSent => OneServiceNoUpgrade
  BY DEF IInv, OneServiceNoUpgrade
<1> QED BY <1>1, <1>2, <1>3, Invariance, PTL DEF Spec
=============================================================================
