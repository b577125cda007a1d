---------------------------- MODULE AccountsProofs ----------------------------
(***************************************************************************)
(* For every set of executions, tokens, hashes, secrets and roles, and     *)
(* every number of faults: what concurrent writers of a user's row cannot  *)
(* destroy, and what becomes of the links that authorise them.             *)
(***************************************************************************)
EXTENDS Accounts, TLAPS

USE AccountsAssumption

Values == UNION {Argument(k) : k \in AllKinds}
OpRecord == [pc : {"idle", "started", "loaded", "written"},
             kind : AllKinds \cup {None}, token : Tokens \cup {None},
             new : Values \cup {None},
             user : User \cup {None}]

\* Executions are records; only the kinds that are reached have links; and who
\* has written the row is entered with its token among the used ones.
Bookkeeping ==
    /\ op \in [Ops -> OpRecord]
    /\ \A k \in Mailed : live[k] \subseteq minted[k] /\ (k \notin Kinds => minted[k] = {})
    /\ \A o \in Ops :
        At(o, "written") => op[o].kind \in Mailed /\ op[o].token \in used[op[o].kind]

\* Executions work with links that were stored, and so are the used ones.
Provenance ==
    /\ \A k \in Mailed : used[k] \subseteq minted[k]
    /\ \A o \in Ops, k \in Mailed, t \in Tokens : Holds(o, k, t) => t \in minted[k]

IInv == /\ TypeOK /\ Bookkeeping /\ Provenance
        /\ MFAPaired /\ RolesNotLost /\ LostOnlyByRace /\ TokenNotWasted /\ UsedIsBurnt

LEMMA Types ==
    ASSUME TypeOK, Bookkeeping
    PROVE  /\ row \in User /\ intended \in User
           /\ live \in [Mailed -> SUBSET Tokens] /\ minted \in [Mailed -> SUBSET Tokens]
           /\ timed \in [Mailed -> SUBSET Tokens] /\ left \in [Mailed -> SUBSET Tokens]
           /\ expired \in [Mailed -> SUBSET Tokens] /\ used \in [Mailed -> SUBSET Tokens]
           /\ op \in [Ops -> OpRecord]
           /\ raced \in BOOLEAN /\ faults \in 0..MaxFaults
BY DEF TypeOK, Bookkeeping

\* An execution under way has an argument of its kind, and its copy is a user.
Sound(o) ==
    /\ op[o].pc \in {"idle", "started", "loaded", "written"}
    /\ op[o].pc # "idle" =>
        /\ op[o].kind \in Kinds
        /\ op[o].new \in Argument(op[o].kind)
        /\ op[o].kind \in Mailed => op[o].token \in Tokens
    /\ op[o].pc = "loaded" => op[o].user \in User

LEMMA AllSound ==
    ASSUME TypeOK, NEW o \in Ops
    PROVE  Sound(o)
BY DEF TypeOK, Sound

-----------------------------------------------------------------------------
(* The operators. *)

LEMMA RegisteredTyped == Registered \in User
<1>1. {"user"} \in SUBSET Roles
  OBVIOUS
<1>2. None \in Secrets \cup {None} /\ FirstHash \in Hashes
  OBVIOUS
<1> QED BY <1>1, <1>2 DEF Registered, User

LEMMA RestoredTyped ==
    ASSUME row \in User
    PROVE  /\ Restored \in User
           /\ Restored.mfa = row.mfa /\ Restored.secret = row.secret
           /\ Restored.password = row.password
<1>1. row.roles \cup {"user"} \in SUBSET Roles
  BY DEF User
<1>2. Restored \in [password : Hashes, verified : BOOLEAN, mfa : BOOLEAN,
                    secret : Secrets \cup {None}, roles : SUBSET Roles]
  BY <1>1 DEF Restored, User
<1>3. /\ Restored.mfa = row.mfa /\ Restored.secret = row.secret
      /\ Restored.password = row.password
  BY DEF Restored, User
<1> QED BY <1>2, <1>3 DEF User

\* What each kind changes, and what none does.
LEMMA ChangeTyped ==
    ASSUME NEW k \in AllKinds \ {"roles"}, NEW new \in Argument(k), NEW u \in User
    PROVE  /\ Change(k, new, u) \in User
           /\ Change(k, new, u).roles = u.roles
           /\ (u.mfa <=> u.secret # None) =>
                  (Change(k, new, u).mfa <=> Change(k, new, u).secret # None)
<1>1. CASE k = "confirm"
  BY <1>1 DEF Change, User
<1>2. CASE k \in {"reset", "upgrade"}
  <2>1. Change(k, new, u) = [u EXCEPT !.password = new] /\ new \in Hashes
    BY <1>2 DEF Change, Argument
  <2> QED BY <2>1 DEF User
<1>3. CASE k = "enroll"
  <2>1. Change(k, new, u) = [u EXCEPT !.mfa = TRUE, !.secret = new] /\ new \in Secrets
    BY <1>3 DEF Change, Argument
  <2>2. Change(k, new, u).mfa = TRUE /\ Change(k, new, u).secret = new
    BY <2>1 DEF User
  <2>3. new # None
    BY <2>1
  <2>4. Change(k, new, u) \in User /\ Change(k, new, u).roles = u.roles
    BY <2>1 DEF User
  <2> QED BY <2>2, <2>3, <2>4
<1> QED BY <1>1, <1>2, <1>3 DEF AllKinds, Mailed

LEMMA ChangeSame ==
    ASSUME NEW k \in AllKinds \ {"roles"}, NEW new \in Argument(k), NEW u \in User, NEW v \in User
    PROVE  /\ u.password = v.password => Change(k, new, u).password = Change(k, new, v).password
           /\ u.secret = v.secret => Change(k, new, u).secret = Change(k, new, v).secret
<1>1. CASE k = "confirm"
  BY <1>1 DEF Change, User
<1>2. CASE k \in {"reset", "upgrade"}
  BY <1>2 DEF Change, User
<1>3. CASE k = "enroll"
  BY <1>3 DEF Change, User
<1> QED BY <1>1, <1>2, <1>3 DEF AllKinds, Mailed

LEMMA UpdateTyped ==
    ASSUME row \in User, NEW u \in User
    PROVE  /\ Update(u) \in User
           /\ Update(u).roles = row.roles
           /\ Update(u).mfa = u.mfa /\ Update(u).secret = u.secret
           /\ Update(u).password = u.password
BY DEF Update, User

LEMMA RecordTyped ==
    ASSUME NEW pc \in {"idle", "started", "loaded", "written"}, NEW k \in AllKinds,
           NEW t \in Tokens \cup {None}, NEW new \in Argument(k), NEW u \in User \cup {None}
    PROVE  [pc |-> pc, kind |-> k, token |-> t, new |-> new, user |-> u] \in OpRecord
<1>1. new \in Values
  BY DEF Values
<1> QED BY <1>1 DEF OpRecord

LEMMA IdleTyped == Idle \in OpRecord
BY DEF Idle, OpRecord

-----------------------------------------------------------------------------
(* Who changes what. *)

LEMMA NextCases ==
    ASSUME [Next]_vars
    PROVE  \/ \E k \in Mailed, t \in Tokens : Mint(k, t) \/ Expire(k, t)
           \/ \E o \in Ops, k \in Mailed, t \in Tokens : \E new \in Argument(k) : Get(o, k, t, new)
           \/ \E o \in Ops, k \in AllKinds : \E new \in Argument(k) : Begin(o, k, new)
           \/ \E o \in Ops : Find(o)
           \/ \E o \in Ops : Write(o)
           \/ \E o \in Ops : WriteRoles(o)
           \/ \E o \in Ops : Burn(o)
           \/ \E o \in Ops : Abort(o)
           \/ UNCHANGED vars
BY DEF Next, Proceed

\* A record the execution o gets, the others keep theirs.
LEMMA OneMoves ==
    ASSUME TypeOK, Bookkeeping, NEW o \in Ops, NEW rec \in OpRecord, op' = [op EXCEPT ![o] = rec]
    PROVE  /\ op' \in [Ops -> OpRecord] /\ op'[o] = rec
           /\ \A x \in Ops \ {o} : op'[x] = op[x]
BY Types

\* A use case begins with a link that is live, in a kind that is reached, ...
LEMMA GetMoves ==
    ASSUME TypeOK, Bookkeeping, NEW o \in Ops, NEW k \in Mailed, NEW t \in Tokens,
           NEW new \in Argument(k), Get(o, k, t, new)
    PROVE  /\ op' \in [Ops -> OpRecord]
           /\ \A x \in Ops \ {o} : op'[x] = op[x]
           /\ op'[o].pc = "started" /\ op'[o].kind = k /\ op'[o].token = t /\ op'[o].new = new
           /\ k \in Kinds /\ t \in live[k]
           /\ UNCHANGED <<row, live, timed, minted, expired, used, left, intended, raced, faults>>
<1> DEFINE rec == [pc |-> "started", kind |-> k, token |-> t, new |-> new, user |-> None]
<1>1. rec \in OpRecord
  <2>1. k \in AllKinds
    BY DEF AllKinds
  <2> QED BY <2>1, RecordTyped
<1>2. op' = [op EXCEPT ![o] = rec]
  BY DEF Get, Start
<1>3. op'[o] = rec /\ op' \in [Ops -> OpRecord] /\ \A x \in Ops \ {o} : op'[x] = op[x]
  BY <1>1, <1>2, OneMoves
<1>4. t \in live[k]
  BY DEF Get
<1>5. k \in Kinds
  BY <1>4 DEF Bookkeeping
<1> QED BY <1>3, <1>4, <1>5 DEF Get

\* ... or with a copy of the row.
LEMMA BeginMoves ==
    ASSUME TypeOK, Bookkeeping, NEW o \in Ops, NEW k \in AllKinds, NEW new \in Argument(k),
           Begin(o, k, new)
    PROVE  /\ op' \in [Ops -> OpRecord]
           /\ \A x \in Ops \ {o} : op'[x] = op[x]
           /\ op'[o].pc = "loaded" /\ op'[o].kind = k /\ op'[o].new = new
           /\ op'[o].user = Restored
           /\ k \in Kinds \ Mailed
           /\ UNCHANGED <<row, live, timed, minted, expired, used, left, intended, raced, faults>>
<1> DEFINE rec == [pc |-> "loaded", kind |-> k, token |-> None, new |-> new, user |-> Restored]
<1>1. rec \in OpRecord
  BY RecordTyped, RestoredTyped, Types
<1>2. op' = [op EXCEPT ![o] = rec]
  BY DEF Begin
<1>3. op'[o] = rec /\ op' \in [Ops -> OpRecord] /\ \A x \in Ops \ {o} : op'[x] = op[x]
  BY <1>1, <1>2, OneMoves
<1> QED BY <1>3 DEF Begin

LEMMA FindMoves ==
    ASSUME TypeOK, Bookkeeping, NEW o \in Ops, Find(o)
    PROVE  /\ op' \in [Ops -> OpRecord]
           /\ \A x \in Ops \ {o} : op'[x] = op[x]
           /\ op[o].pc = "started" /\ op'[o].pc = "loaded" /\ op'[o].user = Restored
           /\ op'[o].kind = op[o].kind /\ op'[o].token = op[o].token /\ op'[o].new = op[o].new
<1>1. Restored \in User
  BY RestoredTyped, Types
<1> QED BY <1>1, Types DEF Find, At, OpRecord

\* The row is written: by a copy that is changed and put in its place.
LEMMA WriteMoves ==
    ASSUME TypeOK, Bookkeeping, NEW o \in Ops, Write(o)
    PROVE  LET k == op[o].kind
               u == op[o].user
           IN  /\ op[o].pc = "loaded" /\ u \in User
               /\ k \in AllKinds \ {"roles"} /\ k \in Kinds /\ op[o].new \in Argument(k)
               /\ row' = Update(Change(k, op[o].new, u))
               /\ intended' = Change(k, op[o].new, intended)
               /\ raced' = (raced \/ Stale(u))
               /\ op' \in [Ops -> OpRecord]
               /\ \A x \in Ops \ {o} : op'[x] = op[x]
               /\ used' \in [Mailed -> SUBSET Tokens]
               /\ \A j \in Mailed : used[j] \subseteq used'[j]
               /\ \/ /\ op'[o].pc = "written" /\ k \in Mailed /\ op[o].token \in used'[k]
                     /\ op'[o].kind = k /\ op'[o].token = op[o].token
                     /\ op'[o].new = op[o].new
                  \/ op'[o] = Idle
               /\ UNCHANGED <<live, timed, minted, expired, left, faults>>
<1>1. op[o].pc = "loaded" /\ op[o].kind # "roles"
  BY DEF Write, At
<1>2. op[o].kind \in Kinds /\ op[o].new \in Argument(op[o].kind) /\ op[o].user \in User
  BY <1>1, AllSound DEF Sound
<1>3. CASE op[o].kind \in Mailed
  <2>1. /\ op' = [op EXCEPT ![o].pc = "written", ![o].user = None]
        /\ used' = [used EXCEPT ![op[o].kind] = @ \cup {op[o].token}]
    BY <1>3 DEF Write
  <2>2. op[o].token \in Tokens
    BY <1>1, <1>3, AllSound DEF Sound
  <2>3. /\ op' \in [Ops -> OpRecord] /\ \A x \in Ops \ {o} : op'[x] = op[x]
        /\ op'[o].pc = "written" /\ op'[o].kind = op[o].kind
        /\ op'[o].token = op[o].token /\ op'[o].new = op[o].new
    BY <2>1, Types DEF OpRecord
  <2>4. /\ used' \in [Mailed -> SUBSET Tokens]
        /\ \A j \in Mailed : used[j] \subseteq used'[j]
        /\ op[o].token \in used'[op[o].kind]
    BY <1>3, <2>1, <2>2, Types
  <2> QED BY <1>1, <1>2, <1>3, <2>3, <2>4 DEF Write
<1>4. CASE op[o].kind \notin Mailed
  <2>1. op' = [op EXCEPT ![o] = Idle] /\ used' = used
    BY <1>4 DEF Write
  <2>2. op' \in [Ops -> OpRecord] /\ op'[o] = Idle /\ \A x \in Ops \ {o} : op'[x] = op[x]
    BY <2>1, IdleTyped, OneMoves
  <2> QED BY <1>1, <1>2, <2>1, <2>2, Types DEF Write
<1> QED BY <1>3, <1>4

\* An execution ends: after the roles, after the DEL, or by a fault.
LEMMA EndMoves ==
    ASSUME TypeOK, Bookkeeping, NEW o \in Ops, WriteRoles(o) \/ Burn(o) \/ Abort(o)
    PROVE  /\ op' \in [Ops -> OpRecord] /\ op'[o] = Idle
           /\ \A x \in Ops \ {o} : op'[x] = op[x]
           /\ UNCHANGED <<minted, expired, used, raced>>
BY IdleTyped, OneMoves DEF WriteRoles, Burn, Abort

-----------------------------------------------------------------------------
LEMMA TypeStep == TypeOK /\ Bookkeeping /\ [Next]_vars => TypeOK'
<1> SUFFICES ASSUME TypeOK, Bookkeeping, [Next]_vars
             PROVE  TypeOK'
  OBVIOUS
<1> DEFINE Data == /\ row \in User /\ intended \in User
                   /\ live \in [Mailed -> SUBSET Tokens]
                   /\ minted \in [Mailed -> SUBSET Tokens]
                   /\ expired \in [Mailed -> SUBSET Tokens]
                   /\ used \in [Mailed -> SUBSET Tokens]
                   /\ timed \in [Mailed -> SUBSET Tokens]
                   /\ left \in [Mailed -> SUBSET Tokens]
                   /\ raced \in BOOLEAN /\ faults \in 0..MaxFaults
<1>a. Data
  BY Types
<1>b. ASSUME Data', \A x \in Ops : Sound(x)'
      PROVE  TypeOK'
  BY <1>b DEF TypeOK, Sound
<1>c. ASSUME NEW o \in Ops, Sound(o)', \A x \in Ops \ {o} : op'[x] = op[x]
      PROVE  \A x \in Ops : Sound(x)'
  <2> SUFFICES ASSUME NEW x \in Ops, x # o PROVE Sound(x)'
    BY <1>c
  <2> QED BY <1>c, AllSound DEF Sound
<1>1. ASSUME NEW k \in Mailed, NEW t \in Tokens, Mint(k, t) \/ Expire(k, t)
      PROVE  TypeOK'
  <2>1. UNCHANGED <<row, used, left, op, intended, raced, faults>>
    BY <1>1 DEF Mint, Expire
  <2>2. Data'
    BY <1>a, <1>1, <2>1 DEF Mint, Expire
  <2> QED BY <1>b, <2>1, <2>2, AllSound DEF Sound
<1>2. ASSUME NEW o \in Ops, NEW k \in Mailed, NEW t \in Tokens, NEW new \in Argument(k),
             Get(o, k, t, new)
      PROVE  TypeOK'
  <2>1. Data'
    BY <1>a, <1>2, GetMoves
  <2>2. Sound(o)'
    BY <1>2, GetMoves DEF Sound
  <2> QED BY <1>2, <1>b, <1>c, <2>1, <2>2, GetMoves
<1>7. ASSUME NEW o \in Ops, NEW k \in AllKinds, NEW new \in Argument(k), Begin(o, k, new)
      PROVE  TypeOK'
  <2>1. Data'
    BY <1>a, <1>7, BeginMoves
  <2>2. Sound(o)'
    BY <1>7, BeginMoves, RestoredTyped, Types DEF Sound
  <2> QED BY <1>7, <1>b, <1>c, <2>1, <2>2, BeginMoves
<1>3. ASSUME NEW o \in Ops, Find(o)
      PROVE  TypeOK'
  <2>1. Data'
    BY <1>a, <1>3 DEF Find
  <2>2. Sound(o)'
    BY <1>3, FindMoves, AllSound, RestoredTyped, Types DEF Sound
  <2> QED BY <1>3, <1>b, <1>c, <2>1, <2>2, FindMoves
<1>4. ASSUME NEW o \in Ops, Write(o)
      PROVE  TypeOK'
  <2>1. row' \in User /\ intended' \in User
    BY <1>4, WriteMoves, ChangeTyped, UpdateTyped, Types
  <2>2. raced' \in BOOLEAN
    BY <1>4, WriteMoves, Types DEF Stale
  <2>3. Data'
    BY <1>a, <1>4, <2>1, <2>2, WriteMoves
  <2>4. Sound(o)'
    BY <1>4, WriteMoves, AllSound DEF Sound, Idle
  <2> QED BY <1>4, <1>b, <1>c, <2>3, <2>4, WriteMoves
<1>5. ASSUME NEW o \in Ops, WriteRoles(o) \/ Burn(o) \/ Abort(o)
      PROVE  TypeOK'
  <2>1. Sound(o)'
    BY <1>5, EndMoves DEF Sound, Idle
  <2>2. Data'
    <3>1. CASE WriteRoles(o)
      <4>1. op[o].new \in SUBSET Roles
        BY <3>1, AllSound DEF WriteRoles, At, Sound, Argument
      <4> QED BY <1>a, <3>1, <4>1 DEF WriteRoles, User
    <3>2. CASE Burn(o)
      <4>1. live' = [live EXCEPT ![op[o].kind] = @ \ {op[o].token}]
            /\ UNCHANGED <<row, timed, minted, expired, used, left, intended, raced, faults>>
        BY <3>2 DEF Burn
      <4> QED BY <1>a, <4>1
    <3>3. CASE Abort(o)
      <4>1. left' \in [Mailed -> SUBSET Tokens]
        <5>1. CASE At(o, "written")
          <6>1. op[o].kind \in Mailed /\ op[o].token \in Tokens
            BY <5>1, AllSound DEF Bookkeeping, Sound, At
          <6> QED BY <1>a, <3>3, <5>1, <6>1 DEF Abort
        <5> QED BY <1>a, <3>3, <5>1 DEF Abort
      <4> QED BY <1>a, <3>3, <4>1 DEF Abort
    <3> QED BY <1>5, <3>1, <3>2, <3>3
  <2> QED BY <1>5, <1>b, <1>c, <2>1, <2>2, EndMoves
<1>6. CASE UNCHANGED vars
  BY <1>6 DEF vars, TypeOK, At
<1> QED BY <1>1, <1>2, <1>3, <1>4, <1>5, <1>6, <1>7, NextCases

-----------------------------------------------------------------------------
LEMMA BookkeepingStep == TypeOK /\ Bookkeeping /\ [Next]_vars => Bookkeeping'
<1> SUFFICES ASSUME TypeOK, Bookkeeping, [Next]_vars
             PROVE  Bookkeeping'
  OBVIOUS
<1> DEFINE Links == \A k \in Mailed :
                        live[k] \subseteq minted[k] /\ (k \notin Kinds => minted[k] = {})
           Through(o) == At(o, "written") =>
                             op[o].kind \in Mailed /\ op[o].token \in used[op[o].kind]
<1>a. Links /\ \A o \in Ops : Through(o)
  BY DEF Bookkeeping
<1>b. ASSUME op' \in [Ops -> OpRecord], Links', \A x \in Ops : Through(x)'
      PROVE  Bookkeeping'
  BY <1>b DEF Bookkeeping
<1>c. ASSUME NEW o \in Ops, Through(o)', \A x \in Ops \ {o} : op'[x] = op[x],
             \A j \in Mailed : used[j] \subseteq used'[j]
      PROVE  \A x \in Ops : Through(x)'
  <2> SUFFICES ASSUME NEW x \in Ops, x # o PROVE Through(x)'
    BY <1>c
  <2> QED BY <1>a, <1>c DEF At
<1>1. ASSUME NEW k \in Mailed, NEW t \in Tokens, Mint(k, t) \/ Expire(k, t)
      PROVE  Bookkeeping'
  <2>1. UNCHANGED <<used, op>>
    BY <1>1 DEF Mint, Expire
  <2>2. Links'
    BY <1>a, <1>1, Types DEF Mint, Expire
  <2>3. \A x \in Ops : Through(x)'
    BY <1>a, <2>1 DEF At
  <2> QED BY <1>b, <2>1, <2>2, <2>3, Types
<1>2. ASSUME NEW o \in Ops, NEW k \in Mailed, NEW t \in Tokens, NEW new \in Argument(k),
             Get(o, k, t, new)
      PROVE  Bookkeeping'
  <2>1. Links' /\ Through(o)'
    BY <1>a, <1>2, GetMoves DEF At
  <2> QED BY <1>2, <1>b, <1>c, <2>1, GetMoves
<1>3. ASSUME NEW o \in Ops, NEW k \in AllKinds, NEW new \in Argument(k), Begin(o, k, new)
      PROVE  Bookkeeping'
  <2>1. Links' /\ Through(o)'
    BY <1>a, <1>3, BeginMoves DEF At
  <2> QED BY <1>3, <1>b, <1>c, <2>1, BeginMoves
<1>4. ASSUME NEW o \in Ops, Find(o)
      PROVE  Bookkeeping'
  <2>1. UNCHANGED <<live, minted, used>>
    BY <1>4 DEF Find
  <2>2. Links' /\ Through(o)'
    BY <1>a, <1>4, <2>1, FindMoves DEF At
  <2> QED BY <1>4, <1>b, <1>c, <2>1, <2>2, FindMoves
<1>5. ASSUME NEW o \in Ops, Write(o)
      PROVE  Bookkeeping'
  <2>1. Links'
    BY <1>a, <1>5, WriteMoves
  <2>2. Through(o)'
    BY <1>5, WriteMoves DEF At, Idle
  <2> QED BY <1>5, <1>b, <1>c, <2>1, <2>2, WriteMoves
<1>6. ASSUME NEW o \in Ops, WriteRoles(o) \/ Burn(o) \/ Abort(o)
      PROVE  Bookkeeping'
  <2>1. \A j \in Mailed : live'[j] \subseteq live[j]
    BY <1>6, Types DEF WriteRoles, Burn, Abort
  <2>2. Links' /\ Through(o)'
    BY <1>a, <1>6, <2>1, EndMoves DEF At, Idle
  <2> QED BY <1>6, <1>b, <1>c, <2>2, EndMoves
<1>7. CASE UNCHANGED vars
  BY <1>7 DEF vars, Bookkeeping, At
<1> QED BY <1>1, <1>2, <1>3, <1>4, <1>5, <1>6, <1>7, NextCases

-----------------------------------------------------------------------------
\* MFA is on exactly if there is a secret, in the row and in every copy.
LEMMA MFAStep == TypeOK /\ Bookkeeping /\ MFAPaired /\ [Next]_vars => MFAPaired'
<1> SUFFICES ASSUME TypeOK, Bookkeeping, MFAPaired, [Next]_vars
             PROVE  MFAPaired'
  OBVIOUS
<1> DEFINE Paired(u) == u.mfa <=> u.secret # None
           CopyPaired(o) == At(o, "loaded") => Paired(op[o].user)
<1>a. Paired(row) /\ \A o \in Ops : CopyPaired(o)
  BY DEF MFAPaired
<1>b. ASSUME Paired(row)', \A x \in Ops : CopyPaired(x)'
      PROVE  MFAPaired'
  BY <1>b DEF MFAPaired
<1>c. ASSUME NEW o \in Ops, CopyPaired(o)', \A x \in Ops \ {o} : op'[x] = op[x]
      PROVE  \A x \in Ops : CopyPaired(x)'
  <2> SUFFICES ASSUME NEW x \in Ops, x # o PROVE CopyPaired(x)'
    BY <1>c
  <2> QED BY <1>a, <1>c DEF At
<1>d. Paired(Restored)
  BY <1>a, RestoredTyped, Types
<1>1. ASSUME NEW k \in Mailed, NEW t \in Tokens, Mint(k, t) \/ Expire(k, t)
      PROVE  MFAPaired'
  <2>1. UNCHANGED <<row, op>>
    BY <1>1 DEF Mint, Expire
  <2> QED BY <2>1, <1>a, <1>b DEF At
<1>2. ASSUME NEW o \in Ops, NEW k \in Mailed, NEW t \in Tokens, NEW new \in Argument(k),
             Get(o, k, t, new)
      PROVE  MFAPaired'
  <2>1. CopyPaired(o)' /\ Paired(row)'
    BY <1>a, <1>2, GetMoves DEF At
  <2> QED BY <1>2, <1>b, <1>c, <2>1, GetMoves
<1>3. ASSUME NEW o \in Ops, NEW k \in AllKinds, NEW new \in Argument(k), Begin(o, k, new)
      PROVE  MFAPaired'
  <2>1. CopyPaired(o)' /\ Paired(row)'
    BY <1>a, <1>d, <1>3, BeginMoves DEF At
  <2> QED BY <1>3, <1>b, <1>c, <2>1, BeginMoves
<1>4. ASSUME NEW o \in Ops, Find(o)
      PROVE  MFAPaired'
  <2>1. CopyPaired(o)'
    BY <1>d, <1>4, FindMoves DEF At
  <2>2. Paired(row)'
    BY <1>a, <1>4 DEF Find
  <2> QED BY <1>4, <1>b, <1>c, <2>1, <2>2, FindMoves
<1>5. ASSUME NEW o \in Ops, Write(o)
      PROVE  MFAPaired'
  <2>1. Paired(op[o].user)
    BY <1>a, <1>5, WriteMoves DEF At
  <2>2. Paired(Change(op[o].kind, op[o].new, op[o].user))
    BY <1>5, <2>1, WriteMoves, ChangeTyped
  <2>3. Paired(row)'
    BY <1>5, <2>2, WriteMoves, ChangeTyped, UpdateTyped, Types
  <2>4. CopyPaired(o)'
    BY <1>5, WriteMoves DEF At, Idle
  <2> QED BY <1>5, <1>b, <1>c, <2>3, <2>4, WriteMoves
<1>6. ASSUME NEW o \in Ops, WriteRoles(o) \/ Burn(o) \/ Abort(o)
      PROVE  MFAPaired'
  <2>1. row'.mfa = row.mfa /\ row'.secret = row.secret
    BY <1>6, Types DEF WriteRoles, Burn, Abort, User
  <2>2. Paired(row)'
    BY <1>a, <2>1
  <2>3. CopyPaired(o)'
    BY <1>6, EndMoves DEF At, Idle
  <2> QED BY <1>6, <1>b, <1>c, <2>2, <2>3, EndMoves
<1>7. CASE UNCHANGED vars
  BY <1>7 DEF vars, MFAPaired, At
<1> QED BY <1>1, <1>2, <1>3, <1>4, <1>5, <1>6, <1>7, NextCases

\* Only Write and WriteRoles touch the row and what was meant for it.
LEMMA RowMoves ==
    ASSUME TypeOK, Bookkeeping, [Next]_vars
    PROVE  \/ \E o \in Ops : Write(o)
           \/ \E o \in Ops : WriteRoles(o)
           \/ UNCHANGED <<row, intended, raced>>
<1>1. ASSUME NEW o \in Ops, NEW k \in Mailed, NEW t \in Tokens, NEW new \in Argument(k),
             Get(o, k, t, new)
      PROVE  UNCHANGED <<row, intended, raced>>
  BY <1>1 DEF Get
<1>2. ASSUME NEW o \in Ops, NEW k \in AllKinds, NEW new \in Argument(k), Begin(o, k, new)
      PROVE  UNCHANGED <<row, intended, raced>>
  BY <1>2 DEF Begin
<1> QED BY <1>1, <1>2, NextCases DEF Mint, Expire, Find, Burn, Abort, vars

LEMMA RolesStep == TypeOK /\ Bookkeeping /\ RolesNotLost /\ [Next]_vars => RolesNotLost'
<1> SUFFICES ASSUME TypeOK, Bookkeeping, RolesNotLost, [Next]_vars
             PROVE  row'.roles = intended'.roles
  BY DEF RolesNotLost
<1>a. row.roles = intended.roles
  BY DEF RolesNotLost
<1>1. ASSUME NEW o \in Ops, Write(o)
      PROVE  row'.roles = intended'.roles
  <2>1. row'.roles = row.roles
    BY <1>1, WriteMoves, ChangeTyped, UpdateTyped, Types
  <2>2. intended'.roles = intended.roles
    BY <1>1, WriteMoves, ChangeTyped, Types
  <2> QED BY <1>a, <2>1, <2>2
<1>2. ASSUME NEW o \in Ops, WriteRoles(o)
      PROVE  row'.roles = intended'.roles
  BY <1>2, Types DEF WriteRoles, User
<1>3. CASE UNCHANGED <<row, intended, raced>>
  BY <1>a, <1>3
<1> QED BY <1>1, <1>2, <1>3, RowMoves

\* While no copy was out of date when it was written, Write changes the row and
\* what was meant for it in the same way.
LEMMA RaceStep == TypeOK /\ Bookkeeping /\ LostOnlyByRace /\ [Next]_vars => LostOnlyByRace'
<1> SUFFICES ASSUME TypeOK, Bookkeeping, LostOnlyByRace, [Next]_vars, ~raced'
             PROVE  row'.password = intended'.password /\ row'.secret = intended'.secret
  BY DEF LostOnlyByRace
<1>1. ASSUME NEW o \in Ops, Write(o)
      PROVE  row'.password = intended'.password /\ row'.secret = intended'.secret
  <2> DEFINE u == op[o].user
             k == op[o].kind
             new == op[o].new
  <2>1. ~raced /\ ~Stale(u)
    BY <1>1, WriteMoves
  <2>2. u.password = intended.password /\ u.secret = intended.secret
    BY <2>1 DEF LostOnlyByRace, Stale
  <2>3. /\ Change(k, new, u).password = Change(k, new, intended).password
        /\ Change(k, new, u).secret = Change(k, new, intended).secret
    BY <1>1, <2>2, WriteMoves, ChangeSame, Types
  <2>4. /\ row'.password = Change(k, new, u).password
        /\ row'.secret = Change(k, new, u).secret
    BY <1>1, WriteMoves, ChangeTyped, UpdateTyped, Types
  <2> QED BY <1>1, <2>3, <2>4, WriteMoves
<1>2. ASSUME NEW o \in Ops, WriteRoles(o)
      PROVE  row'.password = intended'.password /\ row'.secret = intended'.secret
  <2>1. /\ row'.password = row.password /\ row'.secret = row.secret
        /\ intended'.password = intended.password /\ intended'.secret = intended.secret
        /\ raced' = raced
    BY <1>2, Types DEF WriteRoles, User
  <2> QED BY <2>1 DEF LostOnlyByRace
<1>3. CASE UNCHANGED <<row, intended, raced>>
  BY <1>3 DEF LostOnlyByRace
<1> QED BY <1>1, <1>2, <1>3, RowMoves

-----------------------------------------------------------------------------
\* A link goes when its time is up, or after the row has been written with it.
LEMMA WasteStep == TypeOK /\ Bookkeeping /\ TokenNotWasted /\ [Next]_vars => TokenNotWasted'
<1> SUFFICES ASSUME TypeOK, Bookkeeping, TokenNotWasted, [Next]_vars, NEW j \in Mailed
             PROVE  (minted[j] \subseteq live[j] \cup expired[j] \cup used[j])'
  BY DEF TokenNotWasted
<1>a. minted[j] \subseteq live[j] \cup expired[j] \cup used[j]
  BY DEF TokenNotWasted
<1>1. ASSUME NEW k \in Mailed, NEW t \in Tokens, Mint(k, t) \/ Expire(k, t)
      PROVE  (minted[j] \subseteq live[j] \cup expired[j] \cup used[j])'
  BY <1>a, <1>1, Types DEF Mint, Expire
<1>2. ASSUME NEW o \in Ops, Write(o)
      PROVE  (minted[j] \subseteq live[j] \cup expired[j] \cup used[j])'
  BY <1>a, <1>2, WriteMoves
<1>3. ASSUME NEW o \in Ops, Burn(o)
      PROVE  (minted[j] \subseteq live[j] \cup expired[j] \cup used[j])'
  <2>1. op[o].kind \in Mailed /\ op[o].token \in used[op[o].kind]
    BY <1>3 DEF Burn, Bookkeeping
  <2>2. live'[j] = IF j = op[o].kind THEN live[j] \ {op[o].token} ELSE live[j]
    BY <1>3, <2>1, Types DEF Burn
  <2>3. UNCHANGED <<minted, expired, used>>
    BY <1>3 DEF Burn
  <2> QED BY <1>a, <2>1, <2>2, <2>3
<1>4. CASE UNCHANGED <<live, minted, expired, used>>
  BY <1>a, <1>4
<1>5. ASSUME NEW o \in Ops, NEW k \in Mailed, NEW t \in Tokens, NEW new \in Argument(k),
             Get(o, k, t, new)
      PROVE  UNCHANGED <<live, minted, expired, used>>
  BY <1>5 DEF Get
<1>6. ASSUME NEW o \in Ops, NEW k \in AllKinds, NEW new \in Argument(k), Begin(o, k, new)
      PROVE  UNCHANGED <<live, minted, expired, used>>
  BY <1>6 DEF Begin
<1>7. ASSUME NEW o \in Ops, Find(o) \/ WriteRoles(o) \/ Abort(o)
      PROVE  UNCHANGED <<live, minted, expired, used>>
  BY <1>7 DEF Find, WriteRoles, Abort
<1>8. UNCHANGED vars => UNCHANGED <<live, minted, expired, used>>
  BY DEF vars
<1> QED BY <1>1, <1>2, <1>3, <1>4, <1>5, <1>6, <1>7, <1>8, NextCases

\* Who comes to hold a link: an execution that finds it by GET.
LEMMA HoldersMove ==
    ASSUME TypeOK, Bookkeeping, [Next]_vars, NEW x \in Ops, NEW k \in Mailed, NEW t \in Tokens,
           Holds(x, k, t)'
    PROVE  Holds(x, k, t) \/ t \in live[k]
<1> USE DEF Holds, At
<1>1. ASSUME NEW o \in Ops, NEW l \in Mailed, NEW s \in Tokens, NEW new \in Argument(l),
             Get(o, l, s, new)
      PROVE  Holds(x, k, t) \/ t \in live[k]
  BY <1>1, GetMoves
<1>2. ASSUME NEW o \in Ops, NEW l \in AllKinds, NEW new \in Argument(l), Begin(o, l, new)
      PROVE  Holds(x, k, t)
  BY <1>2, BeginMoves
<1>3. ASSUME NEW o \in Ops, Find(o)
      PROVE  Holds(x, k, t)
  BY <1>3, FindMoves
<1>4. ASSUME NEW o \in Ops, Write(o)
      PROVE  Holds(x, k, t)
  BY <1>4, WriteMoves DEF Idle
<1>5. ASSUME NEW o \in Ops, WriteRoles(o) \/ Burn(o) \/ Abort(o)
      PROVE  Holds(x, k, t)
  BY <1>5, EndMoves DEF Idle
<1>6. CASE UNCHANGED op
  BY <1>6
<1>7. ASSUME NEW l \in Mailed, NEW s \in Tokens, Mint(l, s) \/ Expire(l, s)
      PROVE  UNCHANGED op
  BY <1>7 DEF Mint, Expire
<1>8. UNCHANGED vars => UNCHANGED op
  BY DEF vars
<1> QED BY <1>1, <1>2, <1>3, <1>4, <1>5, <1>6, <1>7, <1>8, NextCases

\* What becomes of the histories of a kind's links.
LEMMA LinksMove ==
    ASSUME TypeOK, Bookkeeping, [Next]_vars
    PROVE  \/ \E k \in Mailed, t \in Tokens : Mint(k, t)
           \/ \E k \in Mailed, t \in Tokens : Expire(k, t)
           \/ \E o \in Ops : Write(o)
           \/ \E o \in Ops : Burn(o)
           \/ \E o \in Ops : Abort(o)
           \/ /\ UNCHANGED <<live, minted, used, left>>
              /\ \A o \in Ops : At(o, "written") => op'[o] = op[o]
<1>1. ASSUME NEW o \in Ops, NEW k \in Mailed, NEW t \in Tokens, NEW new \in Argument(k),
             Get(o, k, t, new)
      PROVE  /\ UNCHANGED <<live, minted, used, left>>
             /\ \A x \in Ops : At(x, "written") => op'[x] = op[x]
  <2>1. At(o, "idle")
    BY <1>1 DEF Get, Start
  <2> QED BY <1>1, <2>1, GetMoves DEF At
<1>2. ASSUME NEW o \in Ops, NEW k \in AllKinds, NEW new \in Argument(k), Begin(o, k, new)
      PROVE  /\ UNCHANGED <<live, minted, used, left>>
             /\ \A x \in Ops : At(x, "written") => op'[x] = op[x]
  <2>1. At(o, "idle")
    BY <1>2 DEF Begin
  <2> QED BY <1>2, <2>1, BeginMoves DEF At
<1>3. ASSUME NEW o \in Ops, Find(o)
      PROVE  /\ UNCHANGED <<live, minted, used, left>>
             /\ \A x \in Ops : At(x, "written") => op'[x] = op[x]
  BY <1>3, FindMoves DEF Find, At
<1>4. ASSUME NEW o \in Ops, WriteRoles(o)
      PROVE  /\ UNCHANGED <<live, minted, used, left>>
             /\ \A x \in Ops : At(x, "written") => op'[x] = op[x]
  BY <1>4, EndMoves DEF WriteRoles, At
<1>5. UNCHANGED vars => /\ UNCHANGED <<live, minted, used, left>>
                        /\ \A x \in Ops : At(x, "written") => op'[x] = op[x]
  BY DEF vars
<1> QED BY <1>1, <1>2, <1>3, <1>4, <1>5, NextCases

LEMMA ProvenanceStep == TypeOK /\ Bookkeeping /\ Provenance /\ [Next]_vars => Provenance'
<1> SUFFICES ASSUME TypeOK, Bookkeeping, Provenance, [Next]_vars
             PROVE  Provenance'
  OBVIOUS
<1>1. \A k \in Mailed : minted[k] \subseteq minted'[k]
  <2>1. ASSUME NEW l \in Mailed, NEW t \in Tokens, Mint(l, t)
        PROVE  \A k \in Mailed : minted[k] \subseteq minted'[k]
    BY <2>1, Types DEF Mint
  <2> QED BY <2>1, LinksMove, WriteMoves DEF Expire, Burn, Abort
<1>2. ASSUME NEW k \in Mailed
      PROVE  used'[k] \subseteq minted'[k]
  <2>1. ASSUME NEW o \in Ops, Write(o)
        PROVE  used'[k] \subseteq minted[k]
    <3>1. op[o].pc = "loaded" /\ op[o].kind \in Kinds
      BY <2>1, WriteMoves
    <3>2. CASE op[o].kind \in Mailed
      <4>1. op[o].token \in Tokens
        BY <3>1, <3>2, AllSound DEF Sound
      <4>2. op[o].token \in minted[op[o].kind]
        BY <3>1, <3>2, <4>1 DEF Provenance, Holds, At
      <4>3. used' = [used EXCEPT ![op[o].kind] = @ \cup {op[o].token}]
        BY <2>1, <3>2 DEF Write
      <4> QED BY <4>2, <4>3, Types DEF Provenance
    <3>3. CASE op[o].kind \notin Mailed
      BY <2>1, <3>3 DEF Write, Provenance
    <3> QED BY <3>2, <3>3
  <2>2. CASE UNCHANGED used
    BY <1>1, <2>2 DEF Provenance
  <2> QED BY <1>1, <2>1, <2>2, LinksMove DEF Mint, Expire, Burn, Abort
<1>3. ASSUME NEW o \in Ops, NEW k \in Mailed, NEW t \in Tokens, Holds(o, k, t)'
      PROVE  t \in minted'[k]
  <2>1. Holds(o, k, t) \/ t \in live[k]
    BY <1>3, HoldersMove
  <2>2. t \in minted[k]
    BY <2>1 DEF Provenance, Bookkeeping
  <2> QED BY <1>1, <2>2
<1> QED BY <1>2, <1>3 DEF Provenance

\* A link that has been used for a write is burnt by its user, unless the DEL is
\* never executed.
LEMMA BurntStep ==
    TypeOK /\ Bookkeeping /\ Provenance /\ UsedIsBurnt /\ [Next]_vars => UsedIsBurnt'
<1> SUFFICES ASSUME TypeOK, Bookkeeping, Provenance, UsedIsBurnt, [Next]_vars,
                    NEW k \in Mailed, NEW t, t \in used'[k], t \in live'[k]
             PROVE  \/ t \in left'[k]
                    \/ \E o \in Ops : At(o, "written")' /\ Holds(o, k, t)'
  BY DEF UsedIsBurnt
<1> DEFINE Burning(o) == At(o, "written") /\ Holds(o, k, t)
           Excused == t \in left[k] \/ \E o \in Ops : Burning(o)
<1>a. t \in used[k] /\ t \in live[k] => Excused
  BY DEF UsedIsBurnt
<1>b. ASSUME NEW x \in Ops, Burning(x), op'[x] = op[x]
      PROVE  \E o \in Ops : At(o, "written")' /\ Holds(o, k, t)'
  BY <1>b DEF At, Holds
<1>1. ASSUME NEW l \in Mailed, NEW s \in Tokens, Mint(l, s)
      PROVE  Excused' 
  <2>1. /\ live' = [live EXCEPT ![l] = @ \cup {s}] /\ s \notin minted[l]
        /\ UNCHANGED <<used, left, op>>
    BY <1>1 DEF Mint
  <2>2. t \in live[k]
    BY <2>1, Types DEF Provenance
  <2> QED BY <1>a, <1>b, <2>1, <2>2
<1>2. ASSUME NEW l \in Mailed, NEW s \in Tokens, Expire(l, s)
      PROVE  Excused'
  <2>1. live'[k] \subseteq live[k] /\ UNCHANGED <<used, left, op>>
    BY <1>2, Types DEF Expire
  <2> QED BY <1>a, <1>b, <2>1
<1>3. ASSUME NEW o \in Ops, Write(o)
      PROVE  Excused'
  <2>1. op[o].pc = "loaded" /\ UNCHANGED <<live, left>> /\ \A x \in Ops \ {o} : op'[x] = op[x]
    BY <1>3, WriteMoves
  <2>2. CASE t \in used[k]
    <3>1. ASSUME NEW x \in Ops, Burning(x)
          PROVE  op'[x] = op[x]
      BY <2>1, <3>1 DEF At
    <3> QED BY <1>a, <1>b, <2>1, <2>2, <3>1
  <2>3. CASE t \notin used[k]
    <3>1. CASE op[o].kind \in Mailed
      <4>1. used' = [used EXCEPT ![op[o].kind] = @ \cup {op[o].token}]
        BY <1>3, <3>1 DEF Write
      <4>2. op[o].kind = k /\ op[o].token = t
        BY <2>3, <3>1, <4>1, Types
      <4>3. op' = [op EXCEPT ![o].pc = "written", ![o].user = None]
        BY <1>3, <3>1 DEF Write
      <4>4. op'[o].pc = "written" /\ op'[o].kind = k /\ op'[o].token = t
        BY <4>2, <4>3, Types DEF OpRecord
      <4> QED BY <4>4 DEF At, Holds
    <3>2. CASE op[o].kind \notin Mailed
      BY <1>3, <2>3, <3>2 DEF Write
    <3> QED BY <3>1, <3>2
  <2> QED BY <2>2, <2>3
<1>4. ASSUME NEW o \in Ops, Burn(o)
      PROVE  Excused'
  <2>1. /\ op[o].pc = "written" /\ UNCHANGED <<used, left>>
        /\ live' = [live EXCEPT ![op[o].kind] = @ \ {op[o].token}]
        /\ \A x \in Ops \ {o} : op'[x] = op[x]
    BY <1>4, EndMoves DEF Burn, At
  <2>2. t \in live[k] /\ ~Holds(o, k, t)
    BY <2>1, Types DEF Holds
  <2> QED BY <1>a, <1>b, <2>1, <2>2
<1>5. ASSUME NEW o \in Ops, Abort(o)
      PROVE  Excused'
  <2>1. UNCHANGED <<live, used>> /\ \A x \in Ops \ {o} : op'[x] = op[x]
    BY <1>5, EndMoves DEF Abort
  <2>2. left[k] \subseteq left'[k]
    BY <1>5, Types DEF Abort
  <2>3. Burning(o) => t \in left'[k]
    BY <1>5, Types DEF Abort, Holds
  <2> QED BY <1>a, <1>b, <2>1, <2>2, <2>3
<1>6. CASE /\ UNCHANGED <<live, minted, used, left>>
           /\ \A o \in Ops : At(o, "written") => op'[o] = op[o]
  BY <1>a, <1>b, <1>6
<1> QED BY <1>1, <1>2, <1>3, <1>4, <1>5, <1>6, LinksMove

-----------------------------------------------------------------------------
\* IInv is the inductive invariant of the writers of a user's row.
THEOREM Invariance == Spec => []IInv
<1>1. Init => IInv
  <2> SUFFICES ASSUME Init PROVE IInv
    OBVIOUS
  <2>1. TypeOK
    <3>1. row \in User /\ intended \in User
      BY RegisteredTyped DEF Init
    <3>2. NoTokens \in [Mailed -> SUBSET Tokens]
      BY DEF NoTokens
    <3>7. timed \in [Mailed -> SUBSET Tokens] /\ left \in [Mailed -> SUBSET Tokens]
      BY <3>2 DEF Init
    <3>3. /\ live \in [Mailed -> SUBSET Tokens] /\ minted \in [Mailed -> SUBSET Tokens]
          /\ expired \in [Mailed -> SUBSET Tokens] /\ used \in [Mailed -> SUBSET Tokens]
      BY <3>2 DEF Init
    <3>4. \A o \in Ops : op[o].pc = "idle"
      BY DEF Init, Idle
    <3>5. raced \in BOOLEAN
      BY DEF Init
    <3>6. faults \in 0..MaxFaults
      BY AccountsAssumption DEF Init
    <3> QED BY <3>1, <3>3, <3>4, <3>5, <3>6, <3>7 DEF TypeOK
  <2>2. Bookkeeping
    BY IdleTyped DEF Init, Bookkeeping, NoTokens, At, Idle
  <2>3. MFAPaired
    BY DEF Init, MFAPaired, Registered, At, Idle
  <2>4. RolesNotLost /\ LostOnlyByRace
    BY DEF Init, RolesNotLost, LostOnlyByRace
  <2>5. TokenNotWasted /\ UsedIsBurnt
    BY DEF Init, TokenNotWasted, UsedIsBurnt, NoTokens
  <2>6. Provenance
    BY DEF Init, Provenance, NoTokens, Holds, At, Idle
  <2> QED BY <2>1, <2>2, <2>3, <2>4, <2>5, <2>6 DEF IInv
<1>2. IInv /\ [Next]_vars => IInv'
  BY TypeStep, BookkeepingStep, ProvenanceStep, MFAStep, RolesStep, RaceStep, WasteStep,
     BurntStep DEF IInv
<1> QED BY <1>1, <1>2, PTL DEF Spec

\* The variables keep their types; every copy a use case works on is a user.
THEOREM TypeCorrect == Spec => []TypeOK
<1>1. IInv => TypeOK
  BY DEF IInv
<1> QED BY <1>1, Invariance, PTL

\* The pair of MFA columns is never torn (EnableMFA and the four other writers of
\* whole rows).
THEOREM MFAStaysPaired == Spec => []MFAPaired
<1>1. IInv => MFAPaired
  BY DEF IInv
<1> QED BY <1>1, Invariance, PTL

\* Writers of stale copies do not take a role command back (Update leaves the
\* roles column alone, UpdateRoles writes nothing else).
THEOREM RolesAreNotLost == Spec => []RolesNotLost
<1>1. IInv => RolesNotLost
  BY DEF IInv
<1> QED BY <1>1, Invariance, PTL

\* Hash and secret are lost only to a writer whose copy was out of date (FindByID
\* and Update without a lock between them).
THEOREM OnlyRacesLose == Spec => []LostOnlyByRace
<1>1. IInv => LostOnlyByRace
  BY DEF IInv
<1> QED BY <1>1, Invariance, PTL

\* A failure before the UPDATE leaves the link for a retry (DEL comes last in
\* ConfirmEmail and ResetPassword).
THEOREM LinksAreNotWasted == Spec => []TokenNotWasted
<1>1. IInv => TokenNotWasted
  BY DEF IInv
<1> QED BY <1>1, Invariance, PTL

\* A link that has had its effect is alive only between the UPDATE and the DEL of
\* the execution that used it, or because that DEL was not executed (ConfirmEmail
\* and ResetPassword, whatever their interleaving).
THEOREM EffectsAreBurnt == Spec => []UsedIsBurnt
<1>1. IInv => UsedIsBurnt
  BY DEF IInv
<1> QED BY <1>1, Invariance, PTL

-----------------------------------------------------------------------------
\* A row is determined by its five columns, and the statements change them one by
\* one.
Is(r, h, v, m, x, R) ==
    /\ r \in User /\ r.password = h /\ r.verified = v
    /\ r.mfa = m /\ r.secret = x /\ r.roles = R

LEMMA SameRow ==
    ASSUME NEW a, NEW b, NEW h, NEW v, NEW m, NEW x, NEW R,
           Is(a, h, v, m, x, R), Is(b, h, v, m, x, R)
    PROVE  a = b
<1>1. a \in User /\ b \in User
  BY DEF Is
<1>2. /\ a.password = b.password /\ a.verified = b.verified /\ a.secret = b.secret
      /\ a.mfa = b.mfa /\ a.roles = b.roles
  BY DEF Is
<1> QED BY <1>1, <1>2 DEF User

LEMMA RowColumns ==
    ASSUME NEW r \in User, NEW h \in Hashes, NEW m \in BOOLEAN, NEW x \in Secrets \cup {None}
    PROVE  /\ Is(r, r.password, r.verified, r.mfa, r.secret, r.roles)
           /\ Is([r EXCEPT !.password = h], h, r.verified, r.mfa, r.secret, r.roles)
           /\ Is([r EXCEPT !.mfa = m, !.secret = x], r.password, r.verified, m, x, r.roles)
           /\ Is([r EXCEPT !.password = h, !.mfa = m, !.secret = x],
                 h, r.verified, m, x, r.roles)
           /\ Is([r EXCEPT !.password = h, !.secret = x, !.mfa = m],
                 h, r.verified, m, x, r.roles)
BY DEF Is, User

\* A copy that is not out of date has the columns of the row.
LEMMA FreshCopy ==
    ASSUME row \in User, NEW u \in User, ~Stale(u),
           row.mfa <=> row.secret # None, u.mfa <=> u.secret # None
    PROVE  u.password = row.password /\ u.secret = row.secret /\ u.mfa = row.mfa
<1>1. u.password = row.password /\ u.secret = row.secret
  BY DEF Stale
<1>2. u.mfa \in BOOLEAN /\ row.mfa \in BOOLEAN
  BY DEF User
<1> QED BY <1>1, <1>2

\* What a write from a fresh copy makes of the row.
LEMMA FreshWrite ==
    ASSUME TypeOK, Bookkeeping, MFAPaired, NEW o \in Ops, Write(o), ~raced'
    PROVE  /\ op[o].kind = "confirm" => row' = row
           /\ op[o].kind \in {"reset", "upgrade"} => row' = [row EXCEPT !.password = op[o].new]
           /\ op[o].kind = "enroll" => row' = [row EXCEPT !.mfa = TRUE, !.secret = op[o].new]
<1> DEFINE k == op[o].kind
           new == op[o].new
           u == op[o].user
<1>0. row \in User
  BY Types
<1>1. /\ u \in User /\ ~Stale(u) /\ new \in Argument(k)
      /\ row' = Update(Change(k, new, u)) /\ op[o].pc = "loaded"
  BY WriteMoves
<1>2. u.password = row.password /\ u.secret = row.secret /\ u.mfa = row.mfa
  BY <1>0, <1>1, FreshCopy DEF MFAPaired, At
<1>3. ASSUME NEW v \in User
      PROVE  Is(Update(v), v.password, row.verified, v.mfa, v.secret, row.roles)
  BY <1>0, <1>3, RowColumns DEF Update, User
<1>6. Change(k, new, u) \in User
  BY <1>1, WriteMoves, ChangeTyped
<1>4. CASE k = "confirm"
  <2>1. Change(k, new, u) = [u EXCEPT !.verified = TRUE]
    BY <1>4 DEF Change
  <2>2. /\ Change(k, new, u).password = row.password /\ Change(k, new, u).mfa = row.mfa
        /\ Change(k, new, u).secret = row.secret
    BY <1>1, <1>2, <2>1 DEF User
  <2>3. Is(row', row.password, row.verified, row.mfa, row.secret, row.roles)
    BY <1>1, <1>3, <1>6, <2>2
  <2>4. row' = row
    BY <1>0, <2>3, RowColumns, SameRow DEF User
  <2> QED BY <1>4, <2>4
<1>5. CASE k \in {"reset", "upgrade"}
  <2>1. Change(k, new, u) = [u EXCEPT !.password = new] /\ new \in Hashes
    BY <1>1, <1>5 DEF Change, Argument
  <2>2. /\ Change(k, new, u).password = new /\ Change(k, new, u).mfa = row.mfa
        /\ Change(k, new, u).secret = row.secret
    BY <1>1, <1>2, <2>1 DEF User
  <2>3. Is(row', new, row.verified, row.mfa, row.secret, row.roles)
    BY <1>1, <1>3, <1>6, <2>2
  <2>4. row' = [row EXCEPT !.password = new]
    <3>1. row.mfa \in BOOLEAN /\ row.secret \in Secrets \cup {None}
      BY <1>0 DEF User
    <3>2. Is([row EXCEPT !.password = new], new, row.verified, row.mfa, row.secret, row.roles)
      BY <1>0, <2>1, <3>1, RowColumns
    <3> QED BY <2>3, <3>2, SameRow
  <2> QED BY <1>5, <2>4
<1>7. CASE k = "enroll"
  <2>1. Change(k, new, u) = [u EXCEPT !.mfa = TRUE, !.secret = new] /\ new \in Secrets
    BY <1>1, <1>7 DEF Change, Argument
  <2>2. /\ Change(k, new, u).password = row.password /\ Change(k, new, u).mfa = TRUE
        /\ Change(k, new, u).secret = new
    BY <1>1, <1>2, <2>1 DEF User
  <2>3. Is(row', row.password, row.verified, TRUE, new, row.roles)
    BY <1>1, <1>3, <1>6, <2>2
  <2>4. row' = [row EXCEPT !.mfa = TRUE, !.secret = new]
    <3>1. row.password \in Hashes /\ TRUE \in BOOLEAN /\ new \in Secrets \cup {None}
      BY <1>0, <2>1 DEF User
    <3>2. Is([row EXCEPT !.mfa = TRUE, !.secret = new],
             row.password, row.verified, TRUE, new, row.roles)
      BY <1>0, <3>1, RowColumns
    <3> QED BY <2>3, <3>2, SameRow
  <2> QED BY <1>7, <2>4
<1> QED BY <1>4, <1>5, <1>7

\* What any write makes of it.
LEMMA AnyWrite ==
    ASSUME TypeOK, Bookkeeping, MFAPaired, NEW o \in Ops, Write(o)
    PROVE  \E h \in Hashes, x \in Secrets \cup {None} :
               row' = [row EXCEPT !.password = h, !.secret = x, !.mfa = (x # None)]
<1> DEFINE c == Change(op[o].kind, op[o].new, op[o].user)
<1>0. row \in User
  BY Types
<1>1. /\ op[o].user \in User /\ op[o].pc = "loaded" /\ row' = Update(c)
      /\ op[o].kind \in AllKinds \ {"roles"} /\ op[o].new \in Argument(op[o].kind)
  BY WriteMoves
<1>2. c \in User /\ (c.mfa <=> c.secret # None)
  BY <1>1, ChangeTyped DEF MFAPaired, At
<1>3. c.password \in Hashes /\ c.secret \in Secrets \cup {None} /\ c.mfa = (c.secret # None)
  <2>1. c.password \in Hashes /\ c.secret \in Secrets \cup {None} /\ c.mfa \in BOOLEAN
    BY <1>2 DEF User
  <2> QED BY <1>2, <2>1
<1> HIDE DEF c
<1>4. row' = [row EXCEPT !.password = c.password, !.mfa = c.mfa, !.secret = c.secret]
  BY <1>1 DEF Update
<1>5. row' = [row EXCEPT !.password = c.password, !.secret = c.secret, !.mfa = c.mfa]
  <2>1. c.mfa \in BOOLEAN
    BY <1>2 DEF User
  <2> QED BY <1>0, <1>3, <1>4, <2>1, RowColumns, SameRow
<1>6. row' = [row EXCEPT !.password = c.password, !.secret = c.secret, !.mfa = (c.secret # None)]
  BY <1>3, <1>5
<1> QED BY <1>3, <1>6

\* Every step of the use cases is one atomic step on the row, or none.
LEMMA AtomicStep ==
    ASSUME TypeOK, Bookkeeping, MFAPaired, [Next]_vars
    PROVE  [Atomic!Next]_Atomic!vars
<1>1. ASSUME NEW o \in Ops, Write(o), ~raced'
      PROVE  [Atomic!Next]_Atomic!vars
  <2>1. ~raced /\ raced' = raced
    BY <1>1, WriteMoves, Types
  <2>2. /\ op[o].kind \in AllKinds \ {"roles"} /\ op[o].new \in Argument(op[o].kind)
    BY <1>1, WriteMoves
  <2>3. CASE op[o].kind = "confirm"
    BY <1>1, <2>1, <2>3, FreshWrite DEF Atomic!vars
  <2>4. CASE op[o].kind \in {"reset", "upgrade"}
    <3>1. op[o].new \in Hashes
      BY <2>2, <2>4 DEF Argument
    <3>2. Atomic!SetPassword(op[o].new)
      BY <1>1, <2>1, <2>4, FreshWrite DEF Atomic!SetPassword
    <3> QED BY <2>1, <3>1, <3>2 DEF Atomic!Next
  <2>5. CASE op[o].kind = "enroll"
    <3>1. op[o].new \in Secrets
      BY <2>2, <2>5 DEF Argument
    <3>2. Atomic!Enroll(op[o].new)
      BY <1>1, <2>1, <2>5, FreshWrite DEF Atomic!Enroll
    <3> QED BY <2>1, <3>1, <3>2 DEF Atomic!Next
  <2> QED BY <2>2, <2>3, <2>4, <2>5 DEF AllKinds, Mailed
<1>2. ASSUME NEW o \in Ops, Write(o), raced'
      PROVE  [Atomic!Next]_Atomic!vars
  <2>1. raced' = TRUE
    BY <1>2, TypeStep DEF TypeOK
  <2>2. PICK h \in Hashes, x \in Secrets \cup {None} :
            row' = [row EXCEPT !.password = h, !.secret = x, !.mfa = (x # None)]
    BY <1>2, AnyWrite
  <2>3. Atomic!Tear(h, x)
    BY <2>1, <2>2 DEF Atomic!Tear
  <2> QED BY <2>3 DEF Atomic!Next
<1>3. ASSUME NEW o \in Ops, WriteRoles(o)
      PROVE  [Atomic!Next]_Atomic!vars
  <2>1. op[o].new \in RoleSets
    BY <1>3, AllSound DEF WriteRoles, At, Sound, Argument
  <2>2. Atomic!SetRoles(op[o].new)
    BY <1>3 DEF WriteRoles, Atomic!SetRoles
  <2> QED BY <2>1, <2>2 DEF Atomic!Next
<1>4. CASE UNCHANGED <<row, intended, raced>>
  BY <1>4 DEF Atomic!vars
<1> QED BY <1>1, <1>2, <1>3, <1>4, RowMoves

\* The use cases implement a table whose columns are written atomically, until a
\* writer's copy is out of date (FindByID and Update with no lock between them;
\* UpdateRoles has a statement of its own).
THEOREM AtomicUntilTorn == Spec => WritesAreAtomic
<1>1. Init => Atomic!Init
  BY DEF Init, Atomic!Init
<1>2. IInv /\ [Next]_vars => [Atomic!Next]_Atomic!vars
  BY AtomicStep DEF IInv
<1> QED BY <1>1, <1>2, Invariance, PTL DEF Spec, WritesAreAtomic, Atomic!Spec

\* MFA once on stays on unless a stale copy is written back (EnableMFA is the only
\* writer that changes the two columns).
THEOREM MFAStaysOn == Spec => OnlyRacesDisableMFA
<1>1. IInv /\ [Next]_vars => [row.mfa => row'.mfa \/ raced']_vars
  <2> SUFFICES ASSUME IInv, [Next]_vars, row.mfa, ~raced'
               PROVE  row'.mfa
    OBVIOUS
  <2>0. TypeOK /\ Bookkeeping /\ MFAPaired /\ row \in User
    BY Types DEF IInv
  <2>1. ASSUME NEW o \in Ops, Write(o)
        PROVE  row'.mfa
    <3>1. op[o].kind \in AllKinds \ {"roles"}
      BY <2>0, <2>1, WriteMoves
    <3>2. CASE op[o].kind = "confirm"
      BY <2>0, <2>1, <3>2, FreshWrite
    <3>3. CASE op[o].kind \in {"reset", "upgrade"}
      <4>1. row' = [row EXCEPT !.password = op[o].new]
        BY <2>0, <2>1, <3>3, FreshWrite
      <4>2. row'.mfa = row.mfa
        BY <2>0, <4>1 DEF User
      <4> QED BY <4>2
    <3>4. CASE op[o].kind = "enroll"
      <4>1. row' = [row EXCEPT !.mfa = TRUE, !.secret = op[o].new]
        BY <2>0, <2>1, <3>4, FreshWrite
      <4>2. row'.mfa = TRUE
        BY <2>0, <4>1 DEF User
      <4> QED BY <4>2
    <3> QED BY <3>1, <3>2, <3>3, <3>4 DEF AllKinds, Mailed
  <2>2. ASSUME NEW o \in Ops, WriteRoles(o)
        PROVE  row'.mfa
    <3>1. row'.mfa = row.mfa
      BY <2>0, <2>2 DEF WriteRoles, User
    <3> QED BY <3>1
  <2>3. CASE UNCHANGED <<row, intended, raced>>
    BY <2>3
  <2> QED BY <2>0, <2>1, <2>2, <2>3, RowMoves
<1> QED BY <1>1, Invariance, PTL DEF Spec, OnlyRacesDisableMFA

\* No sequence of use cases sets email_verified: what the run accounts_confirm
\* finds for one link holds for all of them (Update in postgres_repository.go).
THEOREM NobodyIsEverVerified == Spec => []NobodyIsVerified
<1>1. Init => NobodyIsVerified
  BY DEF Init, NobodyIsVerified, Registered
<1>2. IInv /\ NobodyIsVerified /\ [Next]_vars => NobodyIsVerified'
  <2> SUFFICES ASSUME IInv, [Next]_vars PROVE row'.verified = row.verified
    BY DEF NobodyIsVerified
  <2>0. TypeOK /\ Bookkeeping /\ row \in User
    BY Types DEF IInv
  <2>1. ASSUME NEW o \in Ops, Write(o)
        PROVE  row'.verified = row.verified
    BY <2>0, <2>1, WriteMoves DEF Update, User
  <2>2. ASSUME NEW o \in Ops, WriteRoles(o)
        PROVE  row'.verified = row.verified
    BY <2>0, <2>2 DEF WriteRoles, User
  <2> QED BY <2>0, <2>1, <2>2, RowMoves
<1> QED BY <1>1, <1>2, Invariance, PTL DEF Spec

\* Without MFA setup among the kinds that are reached, neither the row nor a copy
\* has MFA (EnableMFA has no other caller).
THEOREM NoMFAWithoutSetup == Spec => []NoMFAUnreached
<1> DEFINE Copies == "enroll" \notin Kinds =>
                        \A o \in Ops : At(o, "loaded") => ~op[o].user.mfa
<1>1. Init => NoMFAUnreached /\ Copies
  BY DEF Init, NoMFAUnreached, Registered, At, Idle
<1>2. IInv /\ NoMFAUnreached /\ Copies /\ [Next]_vars => NoMFAUnreached' /\ Copies'
  <2> SUFFICES ASSUME IInv, "enroll" \notin Kinds, ~row.mfa,
                      \A o \in Ops : At(o, "loaded") => ~op[o].user.mfa, [Next]_vars
               PROVE  ~row'.mfa /\ \A o \in Ops : op'[o].pc = "loaded" => ~op'[o].user.mfa
    BY DEF NoMFAUnreached, At
  <2>0. TypeOK /\ Bookkeeping /\ row \in User
    BY Types DEF IInv
  <2>1. ASSUME NEW o \in Ops, Write(o)
        PROVE  ~row'.mfa
    <3>1. /\ op[o].kind \in {"confirm", "reset", "upgrade"} /\ op[o].user \in User
          /\ row' = Update(Change(op[o].kind, op[o].new, op[o].user)) /\ ~op[o].user.mfa
      BY <2>0, <2>1, WriteMoves DEF AllKinds, Mailed, At
    <3>2. Change(op[o].kind, op[o].new, op[o].user).mfa = op[o].user.mfa
      BY <3>1 DEF Change, User
    <3>3. row'.mfa = Change(op[o].kind, op[o].new, op[o].user).mfa
      BY <2>0, <3>1 DEF Update, User
    <3> QED BY <3>1, <3>2, <3>3
  <2>2. ASSUME NEW o \in Ops, WriteRoles(o)
        PROVE  row'.mfa = row.mfa
    BY <2>0, <2>2 DEF WriteRoles, User
  <2>3. ~row'.mfa
    BY <2>0, <2>1, <2>2, RowMoves
  <2>4. ASSUME NEW x \in Ops, op'[x].pc = "loaded"
        PROVE  ~op'[x].user.mfa
    <3>0. ~Restored.mfa
      BY <2>0, RestoredTyped
    <3>1. CASE op'[x] = op[x]
      BY <2>4, <3>1 DEF At
    <3>2. ASSUME NEW o \in Ops, NEW k \in Mailed, NEW t \in Tokens, NEW new \in Argument(k),
                 Get(o, k, t, new)
          PROVE  op'[x] = op[x]
      BY <2>0, <2>4, <3>2, GetMoves
    <3>3. ASSUME NEW o \in Ops, NEW k \in AllKinds, NEW new \in Argument(k), Begin(o, k, new)
          PROVE  op'[x] = op[x] \/ ~op'[x].user.mfa
      BY <2>0, <3>0, <3>3, BeginMoves
    <3>4. ASSUME NEW o \in Ops, Find(o)
          PROVE  op'[x] = op[x] \/ ~op'[x].user.mfa
      BY <2>0, <3>0, <3>4, FindMoves
    <3>5. ASSUME NEW o \in Ops, Write(o) \/ WriteRoles(o) \/ Burn(o) \/ Abort(o)
          PROVE  op'[x] = op[x]
      BY <2>0, <2>4, <3>5, WriteMoves, EndMoves DEF Idle
    <3>6. ASSUME NEW k \in Mailed, NEW t \in Tokens, Mint(k, t) \/ Expire(k, t)
          PROVE  op'[x] = op[x]
      BY <3>6 DEF Mint, Expire
    <3>7. UNCHANGED vars => op'[x] = op[x]
      BY DEF vars
    <3> QED BY <3>1, <3>2, <3>3, <3>4, <3>5, <3>6, <3>7, NextCases
  <2> QED BY <2>3, <2>4
<1> QED BY <1>1, <1>2, Invariance, PTL DEF Spec
=============================================================================
