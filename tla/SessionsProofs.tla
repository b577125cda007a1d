--------------------------- MODULE SessionsProofs ---------------------------
(***************************************************************************)
(* For every set of requests, tokens and challenges, and every number of   *)
(* faults: sessions do not vanish, are not resurrected, and not shared.    *)
(***************************************************************************)
EXTENDS Sessions, TLAPS

USE SessionsAssumption

Origins == Tokens \cup Challenges

\* What a request holds at each of its steps: the token it came with was stored
\* once, and the one it has drawn is not stored before its SET.
HoldsWhatItRead(c) ==
    LET from == call[c].from
        to == call[c].to
    IN  /\ At(c, "signed") => from = None
        /\ At(c, "coded") \/ At(c, "burnt") => from \in offered
        /\ At(c, "burnt") => from \notin challenge \/ from \in unburnt
        /\ At(c, "read") \/ At(c, "stored") => from \in minted
        /\ At(c, "stored") => heirs[from] # {}
        /\ ~At(c, "idle") => to \in Tokens
        /\ ~At(c, "idle") /\ ~At(c, "stored") => to \notin minted

\* No two requests have drawn the same token; what was stored in the place of
\* another token or challenge was stored, and so was what it replaces.
Bookkeeping ==
    /\ \A c \in Calls : HoldsWhatItRead(c)
    /\ \A c, d \in Calls : call[c].to = call[d].to => c = d \/ call[c].to = None
    /\ \A x \in Origins : heirs[x] \subseteq minted
    /\ \A m \in Challenges : heirs[m] # {} => m \in offered
    /\ out \subseteq minted

IInv == /\ TypeOK /\ Bookkeeping
        /\ GoneHasHeir /\ LogoutIsFinal /\ TradedIsBurnt /\ OneOrigin

CallRecord == [pc : {"idle", "signed", "read", "coded", "burnt", "stored"},
               from : Origins \cup {None},
               to : Tokens \cup {None}]

LEMMA Types ==
    ASSUME TypeOK
    PROVE  /\ refresh \subseteq minted /\ minted \subseteq Tokens
           /\ challenge \subseteq offered /\ offered \subseteq Challenges
           /\ timed \subseteq Origins
           /\ mfa \in BOOLEAN
           /\ call \in [Calls -> CallRecord]
           /\ heirs \in [Origins -> SUBSET Tokens]
           /\ out \subseteq Tokens /\ expired \subseteq Tokens
           /\ unburnt \subseteq Challenges
           /\ faults \in 0..MaxFaults
BY DEF TypeOK, CallRecord, Origins

LEMMA FaultTyped ==
    ASSUME faults \in 0..MaxFaults, Fault
    PROVE  faults' \in 0..MaxFaults
BY DEF Fault

\* The SET of a token: nothing but its origin, if any, gets an heir.
LEMMA Stored ==
    ASSUME TypeOK, NEW t \in Tokens, NEW x \in Origins \cup {None}, StoreFor(t, x)
    PROVE  /\ refresh' = refresh \cup {t}
           /\ minted' = minted \cup {t}
           /\ timed' = timed \cup {t}
           /\ heirs' \in [Origins -> SUBSET Tokens]
           /\ \A y \in Origins : y # x => heirs'[y] = heirs[y]
           /\ x # None => heirs'[x] = heirs[x] \cup {t}
<1>1. CASE x = None
  BY <1>1, Types DEF StoreFor, Put, Origins
<1>2. CASE x # None
  <2>1. x \in Origins /\ heirs' = [heirs EXCEPT ![x] = @ \cup {t}]
    BY <1>2 DEF StoreFor, Put
  <2> QED BY <1>2, <2>1, Types DEF StoreFor, Put
<1> QED BY <1>1, <1>2

-----------------------------------------------------------------------------
\* Who changes what.
Stores(c) == OpenSession(c) \/ StoreNew(c)
Starts(c, t) ==
    \/ LoginPassword(c, t)
    \/ \E m \in Challenges : ReadChallenge(c, m, t)
    \/ \E r \in Tokens : ReadRefresh(c, r, t)

LEMMA NextCases ==
    ASSUME [Next]_vars
    PROVE  \/ \E c \in Calls, t \in Tokens : Starts(c, t)
           \/ \E c \in Calls : Stores(c)
           \/ \E c \in Calls : BurnChallenge(c) \/ BurnFails(c)
           \/ \E c \in Calls : DeleteOld(c) \/ Abort(c)
           \/ \E m \in Challenges : LoginChallenge(m) \/ ExpireChallenge(m)
           \/ \E r \in Tokens : Logout(r) \/ ExpireToken(r)
           \/ EnableMFA
           \/ UNCHANGED vars
BY DEF Next, Proceed, Starts, Stores

\* A request that stores a token has drawn it, and nobody has stored it.
LEMMA Storing ==
    ASSUME TypeOK, Bookkeeping, NEW c \in Calls, Stores(c)
    PROVE  /\ call[c].to \in Tokens /\ call[c].to \notin minted
           /\ call[c].from \in Origins \cup {None}
           /\ StoreFor(call[c].to, call[c].from)
           /\ At(c, "signed") \/ At(c, "burnt") \/ At(c, "read")
           /\ UNCHANGED <<challenge, mfa, offered, out, expired, unburnt, faults>>
<1>1. HoldsWhatItRead(c)
  BY DEF Bookkeeping
<1>2. At(c, "signed") \/ At(c, "burnt") \/ At(c, "read")
  BY DEF Stores, OpenSession, StoreNew
<1>3. ~At(c, "idle") /\ ~At(c, "stored")
  BY <1>2 DEF At
<1>4. call[c].from \in Origins \cup {None}
  BY Types DEF CallRecord
<1> QED BY <1>1, <1>2, <1>3, <1>4 DEF HoldsWhatItRead, Stores, OpenSession, StoreNew

LEMMA TypeStep == TypeOK /\ Bookkeeping /\ [Next]_vars => TypeOK'
<1> SUFFICES ASSUME TypeOK, Bookkeeping, [Next]_vars
             PROVE  TypeOK'
  OBVIOUS
<1> USE Types DEF CallRecord, Origins, redis, history
<1>1. ASSUME NEW c \in Calls, NEW t \in Tokens, Starts(c, t)
      PROVE  TypeOK'
  <2>1. CASE LoginPassword(c, t)
    BY <2>1 DEF LoginPassword, TypeOK
  <2>2. ASSUME NEW m \in Challenges, ReadChallenge(c, m, t)
        PROVE  TypeOK'
    BY <2>2 DEF ReadChallenge, TypeOK
  <2>3. ASSUME NEW r \in Tokens, ReadRefresh(c, r, t)
        PROVE  TypeOK'
    BY <2>3 DEF ReadRefresh, TypeOK
  <2> QED BY <1>1, <2>1, <2>2, <2>3 DEF Starts
<1>2. ASSUME NEW c \in Calls, Stores(c)
      PROVE  TypeOK'
  <2>1. call' \in [Calls -> CallRecord]
    BY <1>2 DEF Stores, OpenSession, StoreNew, Done, Goto, Idle
  <2> QED BY <1>2, <2>1, Storing, Stored DEF TypeOK
<1>3. ASSUME NEW c \in Calls, BurnChallenge(c) \/ BurnFails(c)
      PROVE  TypeOK'
  <2>1. HoldsWhatItRead(c) /\ At(c, "coded")
    BY <1>3 DEF Bookkeeping, BurnChallenge, BurnFails
  <2>2. call[c].from \in Challenges
    BY <2>1 DEF HoldsWhatItRead
  <2>3. call' \in [Calls -> CallRecord]
    BY <1>3 DEF BurnChallenge, BurnFails, Goto
  <2> QED BY <1>3, <2>2, <2>3, FaultTyped DEF BurnChallenge, BurnFails, TypeOK
<1>4. ASSUME NEW c \in Calls, DeleteOld(c) \/ Abort(c)
      PROVE  TypeOK'
  <2>1. call' \in [Calls -> CallRecord]
    BY <1>4 DEF DeleteOld, Abort, Done, Idle
  <2> QED BY <1>4, <2>1, FaultTyped DEF DeleteOld, Abort, TypeOK
<1>5. ASSUME NEW m \in Challenges, LoginChallenge(m) \/ ExpireChallenge(m)
      PROVE  TypeOK'
  BY <1>5 DEF LoginChallenge, ExpireChallenge, TypeOK
<1>6. ASSUME NEW r \in Tokens, Logout(r) \/ ExpireToken(r)
      PROVE  TypeOK'
  BY <1>6 DEF Logout, ExpireToken, TypeOK
<1>7. CASE EnableMFA \/ UNCHANGED vars
  BY <1>7 DEF EnableMFA, vars, TypeOK
<1> QED BY <1>1, <1>2, <1>3, <1>4, <1>5, <1>6, <1>7, NextCases

-----------------------------------------------------------------------------
\* What was stored or offered stays so, and a challenge in Redis is an old one or
\* was never offered before.
LEMMA Growth ==
    ASSUME TypeOK, Bookkeeping, [Next]_vars
    PROVE  /\ minted \subseteq minted' /\ offered \subseteq offered'
           /\ out \subseteq out' /\ expired \subseteq expired' /\ unburnt \subseteq unburnt'
           /\ \A m \in challenge' : m \in challenge \/ m \notin offered
           /\ \A x \in Origins : heirs[x] \subseteq heirs'[x]
<1>1. ASSUME NEW c \in Calls, Stores(c)
      PROVE  /\ minted' = minted \cup {call[c].to}
             /\ \A x \in Origins : heirs[x] \subseteq heirs'[x]
             /\ UNCHANGED <<challenge, offered, out, expired, unburnt>>
  <2>1. /\ call[c].to \in Tokens /\ call[c].from \in Origins \cup {None}
        /\ StoreFor(call[c].to, call[c].from)
        /\ UNCHANGED <<challenge, offered, out, expired, unburnt>>
    BY <1>1, Storing
  <2>2. /\ minted' = minted \cup {call[c].to}
        /\ \A y \in Origins : y # call[c].from => heirs'[y] = heirs[y]
        /\ call[c].from # None => heirs'[call[c].from] = heirs[call[c].from] \cup {call[c].to}
    BY <2>1, Stored
  <2>3. None \notin Origins
    BY DEF Origins
  <2> QED BY <2>1, <2>2, <2>3
<1>2. ASSUME ~ \E c \in Calls : Stores(c)
      PROVE  UNCHANGED <<minted, heirs>>
  BY <1>2, NextCases DEF Starts, LoginPassword, ReadChallenge, ReadRefresh, BurnChallenge,
     BurnFails, DeleteOld, Abort, LoginChallenge, ExpireChallenge, Logout, ExpireToken,
     EnableMFA, vars, history
<1>3. ASSUME ~ \E c \in Calls : Stores(c)
      PROVE  /\ offered \subseteq offered'
             /\ out \subseteq out' /\ expired \subseteq expired' /\ unburnt \subseteq unburnt'
             /\ \A m \in challenge' : m \in challenge \/ m \notin offered
  BY <1>3, NextCases DEF Starts, LoginPassword, ReadChallenge, ReadRefresh, BurnChallenge,
     BurnFails, DeleteOld, Abort, LoginChallenge, ExpireChallenge, Logout, ExpireToken,
     EnableMFA, vars, history, redis
<1> QED BY <1>1, <1>2, <1>3

\* Only a SET adds to minted and heirs, and only what was drawn for it.
LEMMA Additions ==
    ASSUME TypeOK, Bookkeeping, [Next]_vars
    PROVE  \/ UNCHANGED <<minted, heirs>>
           \/ \E c \in Calls : Stores(c)
BY NextCases DEF Starts, LoginPassword, ReadChallenge, ReadRefresh, BurnChallenge,
   BurnFails, DeleteOld, Abort, LoginChallenge, ExpireChallenge, Logout, ExpireToken,
   EnableMFA, vars, history

\* How a request gets from one step to the next.
LEMMA CallsMove ==
    ASSUME TypeOK, [Next]_vars, NEW c \in Calls
    PROVE  \/ call'[c] = call[c]
           \/ call'[c] = Idle
           \/ At(c, "idle") /\ \E t \in Tokens : Starts(c, t)
           \/ /\ BurnChallenge(c) \/ BurnFails(c)
              /\ call'[c] = [call[c] EXCEPT !.pc = "burnt"]
           \/ StoreNew(c) /\ call'[c] = [call[c] EXCEPT !.pc = "stored"]
<1>1. ASSUME NEW d \in Calls, Done(d)
      PROVE  call'[c] \in {call[c], Idle}
  BY <1>1, Types DEF Done
<1>2. ASSUME NEW d \in Calls, NEW pc, Goto(d, pc)
      PROVE  call'[c] = IF c = d THEN [call[c] EXCEPT !.pc = pc] ELSE call[c]
  BY <1>2, Types DEF Goto, CallRecord
<1>3. ASSUME NEW d \in Calls, NEW t \in Tokens, Starts(d, t)
      PROVE  call'[c] = call[c] \/ (c = d /\ At(c, "idle"))
  BY <1>3, Types DEF Starts, LoginPassword, ReadChallenge, ReadRefresh
<1>4. ASSUME NEW d \in Calls, OpenSession(d) \/ DeleteOld(d) \/ Abort(d)
      PROVE  Done(d)
  BY <1>4 DEF OpenSession, DeleteOld, Abort
<1>5. ASSUME NEW d \in Calls, BurnChallenge(d) \/ BurnFails(d)
      PROVE  Goto(d, "burnt")
  BY <1>5 DEF BurnChallenge, BurnFails
<1>6. ASSUME NEW d \in Calls, StoreNew(d)
      PROVE  Goto(d, "stored")
  BY <1>6 DEF StoreNew
<1>7. \/ UNCHANGED call
      \/ \E d \in Calls :
            \/ OpenSession(d) \/ DeleteOld(d) \/ Abort(d)
            \/ BurnChallenge(d) \/ BurnFails(d) \/ StoreNew(d)
            \/ \E t \in Tokens : Starts(d, t)
  BY NextCases DEF Stores, LoginChallenge, ExpireChallenge, Logout, ExpireToken,
     EnableMFA, vars
<1> QED BY <1>1, <1>2, <1>3, <1>4, <1>5, <1>6, <1>7

\* A token that is being stored belongs to no other request.
LEMMA OthersUnstored ==
    ASSUME TypeOK, Bookkeeping, [Next]_vars, NEW c \in Calls,
           call[c].to \in Tokens, call[c].to \notin minted, ~Stores(c)
    PROVE  call[c].to \notin minted'
<1>1. ASSUME NEW d \in Calls, Stores(d)
      PROVE  call[c].to \notin minted'
  <2>1. d # c /\ minted' = minted \cup {call[d].to}
    BY <1>1, Storing, Stored
  <2> QED BY <2>1 DEF Bookkeeping
<1> QED BY <1>1, Additions

LEMMA HoldsStep ==
    ASSUME TypeOK, Bookkeeping, [Next]_vars, NEW c \in Calls
    PROVE  HoldsWhatItRead(c)'
<1> USE DEF At
<1>1. HoldsWhatItRead(c)
  BY DEF Bookkeeping
<1>2. ASSUME NEW t \in Tokens, Starts(c, t)
      PROVE  HoldsWhatItRead(c)'
  <2>1. t \notin minted
    BY <1>2 DEF Starts, LoginPassword, ReadChallenge, ReadRefresh, Fresh
  <2>2. CASE LoginPassword(c, t)
    BY <2>1, <2>2, Types DEF LoginPassword, HoldsWhatItRead, history
  <2>3. ASSUME NEW m \in Challenges, ReadChallenge(c, m, t)
        PROVE  HoldsWhatItRead(c)'
    BY <2>1, <2>3, Types DEF ReadChallenge, HoldsWhatItRead, history
  <2>4. ASSUME NEW r \in Tokens, ReadRefresh(c, r, t)
        PROVE  HoldsWhatItRead(c)'
    BY <2>1, <2>4, Types DEF ReadRefresh, HoldsWhatItRead, history
  <2> QED BY <1>2, <2>2, <2>3, <2>4 DEF Starts
<1>3. CASE call'[c] = Idle
  BY <1>3 DEF Idle, HoldsWhatItRead
<1>4. CASE BurnChallenge(c) \/ BurnFails(c)
  <2>1. /\ call[c].pc = "coded" /\ call[c].from \in offered
        /\ call[c].to \in Tokens /\ call[c].to \notin minted
    BY <1>1, <1>4 DEF BurnChallenge, BurnFails, HoldsWhatItRead
  <2>2. /\ call'[c].pc = "burnt" /\ call'[c].from = call[c].from /\ call'[c].to = call[c].to
    BY <1>4, <2>1, Types DEF BurnChallenge, BurnFails, Goto, CallRecord
  <2>3. UNCHANGED <<offered, minted>>
    BY <1>4 DEF BurnChallenge, BurnFails, history
  <2>4. call[c].from \notin challenge' \/ call[c].from \in unburnt'
    BY <1>4 DEF BurnChallenge, BurnFails
  <2> QED BY <2>1, <2>2, <2>3, <2>4 DEF HoldsWhatItRead
<1>5. CASE StoreNew(c)
  <2>1. /\ call[c].from \in minted /\ call[c].to \in Tokens
        /\ call'[c].pc = "stored" /\ call'[c].from = call[c].from /\ call'[c].to = call[c].to
    BY <1>1, <1>5, Types DEF StoreNew, Goto, HoldsWhatItRead, CallRecord
  <2>2. heirs'[call[c].from] = heirs[call[c].from] \cup {call[c].to} /\ minted \subseteq minted'
    BY <1>5, <2>1, Types, Stored DEF StoreNew, Origins
  <2> QED BY <2>1, <2>2 DEF HoldsWhatItRead
<1>6. CASE call'[c] = call[c] /\ ~Stores(c)
  <2>1. ASSUME ~At(c, "idle"), ~At(c, "stored")
        PROVE  call[c].to \notin minted'
    BY <1>1, <1>6, <2>1, OthersUnstored DEF HoldsWhatItRead
  <2>2. ASSUME At(c, "burnt")
        PROVE  call[c].from \notin challenge' \/ call[c].from \in unburnt'
    BY <1>1, <2>2, Growth DEF HoldsWhatItRead
  <2>3. ASSUME At(c, "stored")
        PROVE  heirs'[call[c].from] # {}
    <3>1. call[c].from \in Origins /\ heirs[call[c].from] # {}
      BY <1>1, <2>3, Types DEF HoldsWhatItRead, Origins
    <3> QED BY <3>1, Growth
  <2> QED BY <1>1, <1>6, <2>1, <2>2, <2>3, Growth DEF HoldsWhatItRead
<1>7. ASSUME OpenSession(c)
      PROVE  call'[c] = Idle
  BY <1>7, Types DEF OpenSession, Done
<1> QED BY <1>2, <1>3, <1>4, <1>5, <1>6, <1>7, CallsMove DEF Stores

LEMMA DrawnStep ==
    ASSUME TypeOK, Bookkeeping, [Next]_vars, NEW c \in Calls, NEW d \in Calls,
           call'[c].to = call'[d].to
    PROVE  c = d \/ call'[c].to = None
<1>1. ASSUME NEW e \in Calls, NEW t \in Tokens, Starts(e, t)
      PROVE  /\ \A b \in Calls : call[b].to # t
             /\ \A b \in Calls : call'[b].to = IF b = e THEN t ELSE call[b].to
  BY <1>1, Types DEF Starts, LoginPassword, ReadChallenge, ReadRefresh, Fresh
<1>2. ASSUME ~ \E e \in Calls, t \in Tokens : Starts(e, t), NEW b \in Calls
      PROVE  call'[b].to \in {call[b].to, None}
  <2>1. call[b] \in CallRecord
    BY Types
  <2>2. \/ call'[b] \in {call[b], Idle}
        \/ call'[b] = [call[b] EXCEPT !.pc = "burnt"]
        \/ call'[b] = [call[b] EXCEPT !.pc = "stored"]
    BY <1>2, CallsMove
  <2> QED BY <2>1, <2>2 DEF Idle, CallRecord
<1>3. CASE \E e \in Calls, t \in Tokens : Starts(e, t)
  <2>1. PICK e \in Calls, t \in Tokens : Starts(e, t)
    BY <1>3
  <2> QED BY <1>1, <2>1 DEF Bookkeeping
<1>4. CASE ~ \E e \in Calls, t \in Tokens : Starts(e, t)
  <2>1. call'[c].to \in {call[c].to, None} /\ call'[d].to \in {call[d].to, None}
    BY <1>2, <1>4
  <2>2. call[c].to = call[d].to => c = d \/ call[c].to = None
    BY DEF Bookkeeping
  <2> QED BY <2>1, <2>2
<1> QED BY <1>3, <1>4

LEMMA BookkeepingStep == TypeOK /\ Bookkeeping /\ [Next]_vars => Bookkeeping'
<1> SUFFICES ASSUME TypeOK, Bookkeeping, [Next]_vars
             PROVE  Bookkeeping'
  OBVIOUS
<1>1. ASSUME NEW c \in Calls, Stores(c)
      PROVE  /\ \A x \in Origins : heirs'[x] \subseteq minted'
             /\ \A m \in Challenges : heirs'[m] # {} => m \in offered'
  <2>1. /\ minted' = minted \cup {call[c].to} /\ offered' = offered
        /\ \A y \in Origins : y # call[c].from => heirs'[y] = heirs[y]
        /\ call[c].from # None => heirs'[call[c].from] = heirs[call[c].from] \cup {call[c].to}
    BY <1>1, Storing, Stored
  <2>2. call[c].from \in offered \cup minted \cup {None}
    BY <1>1, Storing DEF Bookkeeping, HoldsWhatItRead
  <2> QED BY <2>1, <2>2, Types DEF Bookkeeping, Origins
<1>2. ASSUME UNCHANGED <<minted, heirs>>
      PROVE  /\ \A x \in Origins : heirs'[x] \subseteq minted'
             /\ \A m \in Challenges : heirs'[m] # {} => m \in offered'
  BY <1>2, Growth DEF Bookkeeping
<1>3. out' \subseteq minted'
  <2>1. \/ UNCHANGED out
        \/ \E r \in Tokens : Logout(r)
    BY Storing, NextCases DEF Starts, LoginPassword, ReadChallenge, ReadRefresh,
       BurnChallenge, BurnFails, DeleteOld, Abort, LoginChallenge, ExpireChallenge,
       ExpireToken, EnableMFA, vars, history
  <2> QED BY <2>1, Growth DEF Bookkeeping, Logout
<1> QED BY <1>1, <1>2, <1>3, Additions, HoldsStep, DrawnStep DEF Bookkeeping

-----------------------------------------------------------------------------
\* A token leaves Redis by a logout, by its TTL, or by the DEL of a pipeline
\* whose SET has been executed.
LEMMA GoneStep == TypeOK /\ Bookkeeping /\ GoneHasHeir /\ [Next]_vars => GoneHasHeir'
<1> SUFFICES ASSUME TypeOK, Bookkeeping, GoneHasHeir, [Next]_vars, NEW t \in minted'
             PROVE  t \in refresh' \cup out' \cup expired' \/ heirs'[t] # {}
  BY DEF GoneHasHeir
<1>1. CASE t \notin minted
  <2>1. PICK c \in Calls : Stores(c)
    BY <1>1, Additions
  <2> QED BY <1>1, <2>1, Storing, Stored
<1>2. CASE t \in minted
  <2>1. t \in Origins /\ (t \in refresh \cup out \cup expired \/ heirs[t] # {})
    BY <1>2, Types DEF GoneHasHeir, Origins
  <2>2. ASSUME NEW c \in Calls, Stores(c)
        PROVE  refresh \subseteq refresh'
    BY <2>2, Storing, Stored
  <2>3. ASSUME NEW c \in Calls, DeleteOld(c)
        PROVE  refresh' = refresh \ {call[c].from} /\ heirs[call[c].from] # {}
    BY <2>3 DEF DeleteOld, Bookkeeping, HoldsWhatItRead
  <2>4. ASSUME NEW r \in Tokens, Logout(r) \/ ExpireToken(r)
        PROVE  refresh' = refresh \ {r} /\ r \in out' \cup expired'
    BY <2>4 DEF Logout, ExpireToken
  <2>5. \/ refresh \subseteq refresh'
        \/ \E c \in Calls : DeleteOld(c)
        \/ \E r \in Tokens : Logout(r) \/ ExpireToken(r)
    BY <2>2, NextCases DEF Starts, LoginPassword, ReadChallenge, ReadRefresh, BurnChallenge,
       BurnFails, Abort, LoginChallenge, ExpireChallenge, EnableMFA, vars, redis
  <2> QED BY <2>1, <2>3, <2>4, <2>5, Growth
<1> QED BY <1>1, <1>2

LEMMA LogoutStep == TypeOK /\ Bookkeeping /\ LogoutIsFinal /\ [Next]_vars => LogoutIsFinal'
<1> SUFFICES ASSUME TypeOK, Bookkeeping, LogoutIsFinal, [Next]_vars
             PROVE  LogoutIsFinal'
  OBVIOUS
<1>1. ASSUME NEW c \in Calls, Stores(c)
      PROVE  LogoutIsFinal'
  BY <1>1, Storing, Stored DEF Bookkeeping, LogoutIsFinal
<1>2. ASSUME NEW r \in Tokens, Logout(r)
      PROVE  LogoutIsFinal'
  BY <1>2 DEF Logout, LogoutIsFinal
<1>3. ASSUME refresh' \subseteq refresh, out' = out
      PROVE  LogoutIsFinal'
  BY <1>3 DEF LogoutIsFinal
<1>4. \/ refresh' \subseteq refresh /\ out' = out
      \/ \E c \in Calls : Stores(c)
      \/ \E r \in Tokens : Logout(r)
  BY NextCases DEF Starts, LoginPassword, ReadChallenge, ReadRefresh, BurnChallenge,
     BurnFails, DeleteOld, Abort, LoginChallenge, ExpireChallenge, ExpireToken, EnableMFA,
     vars, redis, history
<1> QED BY <1>1, <1>2, <1>3, <1>4

LEMMA TradedStep == TypeOK /\ Bookkeeping /\ TradedIsBurnt /\ [Next]_vars => TradedIsBurnt'
<1> SUFFICES ASSUME TypeOK, Bookkeeping, TradedIsBurnt, [Next]_vars,
                    NEW m \in Challenges, heirs'[m] # {}
             PROVE  m \notin challenge' \/ m \in unburnt'
  BY DEF TradedIsBurnt
<1>1. CASE heirs[m] = {}
  <2>1. PICK c \in Calls : Stores(c)
    BY <1>1, Additions
  <2>2. m = call[c].from
    BY <1>1, <2>1, Storing, Stored DEF Origins
  <2>3. At(c, "burnt")
    BY <2>1, <2>2, Storing, Types DEF Bookkeeping, HoldsWhatItRead
  <2>4. m \notin challenge \/ m \in unburnt
    BY <2>2, <2>3 DEF Bookkeeping, HoldsWhatItRead
  <2> QED BY <2>1, <2>4, Storing
<1>2. CASE heirs[m] # {}
  <2>1. m \in offered /\ (m \notin challenge \/ m \in unburnt)
    BY <1>2 DEF Bookkeeping, TradedIsBurnt
  <2> QED BY <2>1, Growth
<1> QED BY <1>1, <1>2

LEMMA OriginStep == TypeOK /\ Bookkeeping /\ OneOrigin /\ [Next]_vars => OneOrigin'
<1> SUFFICES ASSUME TypeOK, Bookkeeping, OneOrigin, [Next]_vars,
                    NEW x \in Origins, NEW y \in Origins, NEW t,
                    t \in heirs'[x], t \in heirs'[y]
             PROVE  x = y
  BY DEF OneOrigin, Origins
<1>1. ASSUME t \in heirs[x], t \in heirs[y]
      PROVE  x = y
  BY <1>1 DEF OneOrigin, Origins
<1>2. ASSUME NEW c \in Calls, Stores(c)
      PROVE  x = y
  <2>1. call[c].to \notin minted
    BY <1>2, Storing
  <2>2. \A z \in Origins : z # call[c].from => heirs'[z] = heirs[z]
    BY <1>2, Storing, Stored
  <2>3. call[c].from \in Origins =>
            heirs'[call[c].from] = heirs[call[c].from] \cup {call[c].to}
    BY <1>2, Storing, Stored DEF Origins
  <2>4. heirs[x] \subseteq minted /\ heirs[y] \subseteq minted
    BY DEF Bookkeeping
  <2> QED BY <1>1, <2>1, <2>2, <2>3, <2>4
<1> QED BY <1>1, <1>2, Additions

-----------------------------------------------------------------------------
\* Sessions descend from each other without a cycle: tokens can be numbered so
\* that every token comes after what it has replaced.
Ranked(rank) == \A x \in Origins : \A t \in heirs[x] : rank[x] < rank[t]
Descend == \E rank \in [Origins -> Nat] : Ranked(rank)

\* It rests on this: only what has been stored is replaced.
ParentsStored == \A r \in Tokens : heirs[r] # {} => r \in minted

LEMMA ParentsStep ==
    TypeOK /\ Bookkeeping /\ ParentsStored /\ [Next]_vars => ParentsStored'
<1> SUFFICES ASSUME TypeOK, Bookkeeping, ParentsStored, [Next]_vars,
                    NEW r \in Tokens, heirs'[r] # {}
             PROVE  r \in minted'
  BY DEF ParentsStored
<1>1. CASE heirs[r] # {}
  BY <1>1, Growth DEF ParentsStored
<1>2. ASSUME NEW c \in Calls, Stores(c), heirs[r] = {}
      PROVE  r \in minted'
  <2>1. r = call[c].from
    BY <1>2, Storing, Stored DEF Origins
  <2>2. HoldsWhatItRead(c) /\ (At(c, "signed") \/ At(c, "burnt") \/ At(c, "read"))
    BY <1>2, Storing DEF Bookkeeping
  <2>3. r \in minted
    BY <2>1, <2>2, Types DEF HoldsWhatItRead
  <2> QED BY <2>3, Growth
<1> QED BY <1>1, <1>2, Additions

\* A SET gives its token a number above that of what it replaces; nothing has
\* descended from the token yet, and nothing else changes.
LEMMA DescendStep ==
    TypeOK /\ Bookkeeping /\ ParentsStored /\ Descend /\ [Next]_vars => Descend'
<1> SUFFICES ASSUME TypeOK, Bookkeeping, ParentsStored, Descend, [Next]_vars
             PROVE  Descend'
  OBVIOUS
<1>1. PICK rank \in [Origins -> Nat] : Ranked(rank)
  BY DEF Descend
<1>2. CASE UNCHANGED <<minted, heirs>>
  BY <1>1, <1>2 DEF Descend, Ranked
<1>3. ASSUME NEW c \in Calls, Stores(c)
      PROVE  Descend'
  <2> DEFINE t == call[c].to
             x == call[c].from
  <2>1. /\ t \in Tokens /\ t \notin minted /\ t \in Origins
        /\ x \in Origins \cup {None}
        /\ \A y \in Origins : y # x => heirs'[y] = heirs[y]
        /\ x # None => heirs'[x] = heirs[x] \cup {t}
    BY <1>3, Storing, Stored DEF Origins
  <2>2. heirs[t] = {} /\ \A y \in Origins : t \notin heirs[y]
    BY <2>1 DEF ParentsStored, Bookkeeping
  <2>3. x # t
    <3>1. HoldsWhatItRead(c) /\ (At(c, "signed") \/ At(c, "burnt") \/ At(c, "read"))
      BY <1>3, Storing DEF Bookkeeping
    <3> QED BY <2>1, <3>1, Types DEF HoldsWhatItRead
  <2> DEFINE n == IF x = None THEN 0 ELSE rank[x] + 1
             newRank == [rank EXCEPT ![t] = n]
  <2>4. n \in Nat /\ (x # None => rank[x] < n)
    BY <1>1, <2>1
  <2>5. /\ newRank \in [Origins -> Nat] /\ newRank[t] = n
        /\ \A y \in Origins : y # t => newRank[y] = rank[y]
    BY <1>1, <2>1, <2>4
  <2>6. ASSUME NEW y \in Origins, NEW s \in heirs'[y]
        PROVE  newRank[y] < newRank[s]
    <3>1. CASE s \in heirs[y]
      <4>1. y # t /\ s # t /\ s \in Origins
        BY <2>2, <3>1, Types DEF Origins
      <4> QED BY <1>1, <2>5, <3>1, <4>1 DEF Ranked
    <3>2. CASE s \notin heirs[y]
      <4>1. y = x /\ x # None /\ s = t
        BY <2>1, <2>6, <3>2 DEF Origins
      <4>2. newRank[y] = rank[x] /\ newRank[s] = n
        BY <2>3, <2>5, <4>1
      <4> QED BY <2>4, <4>1, <4>2
    <3> QED BY <3>1, <3>2
  <2>7. PICK new \in [Origins -> Nat] : \A y \in Origins : \A s \in heirs'[y] : new[y] < new[s]
    <3> HIDE DEF newRank
    <3> QED BY <2>5, <2>6
  <2> QED BY <2>7 DEF Descend, Ranked
<1> QED BY <1>2, <1>3, Additions

\* Whatever is gone is not stored, offered, read or replaced again.
LEMMA SpentStep ==
    ASSUME TypeOK, Bookkeeping, [Next]_vars, NEW x \in Origins, Spent(x)
    PROVE  Spent(x)' /\ heirs'[x] = heirs[x]
<1> USE DEF Holds, At
<1>1. \A c \in Calls : ~Holds(c, x)
  BY DEF Spent
<1>2. Gone(x)'
  <2>1. ASSUME x \in minted \ refresh
        PROVE  x \in minted' \ refresh'
    <3>1. ASSUME NEW c \in Calls, Stores(c)
          PROVE  x \notin refresh'
      BY <2>1, <3>1, Storing, Stored
    <3>2. ASSUME ~ \E c \in Calls : Stores(c)
          PROVE  refresh' \subseteq refresh
      BY <3>2, NextCases DEF Starts, LoginPassword, ReadChallenge, ReadRefresh,
         BurnChallenge, BurnFails, DeleteOld, Abort, LoginChallenge, ExpireChallenge,
         Logout, ExpireToken, EnableMFA, vars, redis
    <3> QED BY <2>1, <3>1, <3>2, Growth
  <2>2. ASSUME x \in offered \ challenge
        PROVE  x \in offered' \ challenge'
    BY <2>2, Growth
  <2> QED BY <2>1, <2>2 DEF Spent, Gone
<1>3. ASSUME NEW c \in Calls
      PROVE  ~Holds(c, x)'
  <2>1. ASSUME NEW t \in Tokens, Starts(c, t)
        PROVE  call'[c].from # x
    <3>1. CASE LoginPassword(c, t)
      <4>1. call'[c].from = None /\ None \notin Origins
        BY <3>1, Types DEF LoginPassword, Origins
      <4> QED BY <4>1
    <3>2. ASSUME NEW m \in Challenges, ReadChallenge(c, m, t)
          PROVE  call'[c].from # x
      <4>1. call'[c].from = m /\ m \in challenge /\ m \notin Tokens
        BY <3>2, Types DEF ReadChallenge
      <4> QED BY <4>1, Types DEF Spent, Gone
    <3>3. ASSUME NEW r \in Tokens, ReadRefresh(c, r, t)
          PROVE  call'[c].from # x
      <4>1. call'[c].from = r /\ r \in refresh /\ r \notin Challenges
        BY <3>3, Types DEF ReadRefresh
      <4> QED BY <4>1, Types DEF Spent, Gone
    <3> QED BY <2>1, <3>1, <3>2, <3>3 DEF Starts
  <2>2. CASE call'[c] = Idle
    BY <2>2 DEF Idle
  <2>3. CASE BurnChallenge(c) \/ BurnFails(c) \/ StoreNew(c)
    <3>1. call'[c].from = call[c].from /\ call[c].pc # "idle"
      BY <2>3, Types DEF BurnChallenge, BurnFails, StoreNew, Goto, CallRecord
    <3> QED BY <1>1, <3>1
  <2> QED BY <1>1, <2>1, <2>2, <2>3, CallsMove
<1>4. heirs'[x] = heirs[x]
  <2>1. ASSUME NEW c \in Calls, Stores(c)
        PROVE  heirs'[x] = heirs[x]
    <3>1. call[c].from # x
      BY <1>1, <2>1, Storing
    <3> QED BY <2>1, <3>1, Storing, Stored
  <2> QED BY <2>1, Additions
<1> QED BY <1>2, <1>3, <1>4 DEF Spent

-----------------------------------------------------------------------------
\* IInv is the inductive invariant of the sessions.
THEOREM Invariance == Spec => []IInv
<1>1. Init => IInv
  <2> SUFFICES ASSUME Init PROVE IInv
    OBVIOUS
  <2>1. TypeOK
    BY DEF Init, TypeOK, Idle
  <2>2. Bookkeeping
    BY DEF Init, Bookkeeping, HoldsWhatItRead, At, Idle, Origins
  <2>3. GoneHasHeir /\ LogoutIsFinal /\ TradedIsBurnt /\ OneOrigin
    BY DEF Init, GoneHasHeir, LogoutIsFinal, TradedIsBurnt, OneOrigin
  <2> QED BY <2>1, <2>2, <2>3 DEF IInv
<1>2. IInv /\ [Next]_vars => IInv'
  BY TypeStep, BookkeepingStep, GoneStep, LogoutStep, TradedStep, OriginStep DEF IInv
<1> QED BY <1>1, <1>2, PTL DEF Spec

\* The variables keep their types; every token in Redis was stored by a use case.
THEOREM TypeCorrect == Spec => []TypeOK
<1>1. IInv => TypeOK
  BY DEF IInv
<1> QED BY <1>1, Invariance, PTL

\* A refresh deletes no token without a stored successor: what is gone was logged
\* out, has outlived its TTL, or has been replaced (the order of SET and DEL in
\* RefreshToken).
THEOREM NoSessionVanishes == Spec => []GoneHasHeir
<1>1. IInv => GoneHasHeir
  BY DEF IInv
<1> QED BY <1>1, Invariance, PTL

\* What was logged out is never stored again (Logout against RefreshToken).
THEOREM LoggedOutForGood == Spec => []LogoutIsFinal
<1>1. IInv => LogoutIsFinal
  BY DEF IInv
<1> QED BY <1>1, Invariance, PTL

\* A challenge with a session in its place is gone, unless its DEL failed (the
\* burn before the SET in VerifyMFA).
THEOREM ChallengesAreBurnt == Spec => []TradedIsBurnt
<1>1. IInv => TradedIsBurnt
  BY DEF IInv
<1> QED BY <1>1, Invariance, PTL

\* A session comes from one login, one challenge or one token (the uuids drawn by
\* RefreshToken, VerifyMFA and Login).
THEOREM SessionsHaveOneOrigin == Spec => []OneOrigin
<1>1. IInv => OneOrigin
  BY DEF IInv
<1> QED BY <1>1, Invariance, PTL

\* What has left Redis, and that nobody holds any more, is gone for good: it is not
\* stored or held again, and gets no further heir (RefreshToken, VerifyMFA, Logout
\* and the TTLs against each other).
THEOREM SpentIsForGood == Spec => SpentForGood
<1> DEFINE A == \A x \in Tokens \cup Challenges :
                    Spent(x) => Spent(x)' /\ heirs'[x] = heirs[x]
<1>1. IInv /\ [Next]_vars => A
  BY SpentStep DEF IInv, Origins
<1>2. Spec => [][A]_vars
  BY <1>1, Invariance, PTL DEF Spec
<1> QED BY <1>2 DEF SpentForGood

\* However often sessions are refreshed, by whomever, no token is its own
\* descendant (the uuid RefreshToken draws before it reads what it replaces).
THEOREM SessionsDescend == Spec => []Descend
<1>1. Init => ParentsStored /\ Descend
  <2> SUFFICES ASSUME Init PROVE ParentsStored /\ Descend
    OBVIOUS
  <2>1. \A x \in Origins : heirs[x] = {}
    BY DEF Init, Origins
  <2>2. [x \in Origins |-> 0] \in [Origins -> Nat]
    OBVIOUS
  <2>3. Ranked([x \in Origins |-> 0])
    BY <2>1 DEF Ranked
  <2> QED BY <2>1, <2>2, <2>3 DEF ParentsStored, Descend, Origins
<1>2. IInv /\ ParentsStored /\ Descend /\ [Next]_vars => (ParentsStored /\ Descend)'
  BY ParentsStep, DescendStep DEF IInv
<1> QED BY <1>1, <1>2, Invariance, PTL DEF Spec
=============================================================================
