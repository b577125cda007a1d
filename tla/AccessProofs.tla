----------------------------- MODULE AccessProofs -----------------------------
(***************************************************************************)
(* Proofs about Access: for any users, logins, tokens, requests and number *)
(* of commands, the right to change roles is handed down from the first    *)
(* admins, and a row follows the latest command unless one came late.      *)
(***************************************************************************)
EXTENDS Access, TLAPS

Issued == [sub : Users, roles : SUBSET Roles, key : {SigningKey}]
Copies == [user : Users, roles : SUBSET Roles]

\* Who is entitled so far.
Entitled(u) == u \in FirstAdmins \/ MadeAdminBefore(u, Len(log) + 1)

\* Wherever the role admin is found, in a row, a copy that has been read, a
\* token or an admitted request, its bearer is entitled.
RowsTraced == \A u \in Users : "admin" \in roles[u] => Entitled(u)
CopiesTraced == \A l \in Logins :
    login[l] # NoLogin /\ "admin" \in login[l].roles => Entitled(login[l].user)
TokensTraced == \A t \in Tokens :
    Valid(t) /\ "admin" \in token[t].roles => Entitled(token[t].sub)
CallsTraced == \A q \in Calls : call[q] # NoCall => Entitled(call[q].by)
Traced == RowsTraced /\ CopiesTraced /\ TokensTraced /\ CallsTraced

IInv == TypeOK /\ Traced /\ HandedDown /\ OnlyLateOnesRevert

-----------------------------------------------------------------------------
LEMMA NextCases ==
    ASSUME [Next]_vars
    PROVE  \/ \E l \in Logins, u \in Users : Begin(l, u)
           \/ \E l \in Logins, t \in Tokens : Sign(l, t)
           \/ \E l \in Logins : Abandon(l)
           \/ \E t \in Tokens : Expire(t)
           \/ \E q \in Calls, t \in Tokens, target \in Users, new \in RoleSets \cup {Null} :
                  Admit(q, t, target, new)
           \/ \E q \in Calls : Accept(q)
           \/ \E q \in Calls : Fail(q)
           \/ \E i \in 1..Len(log) : Apply(i)
           \/ \E i \in 1..Len(log) : Ack(i) \/ Redeliver(i)
           \/ UNCHANGED vars
BY DEF Next

LEMMA TokenTypes ==
    ASSUME TypeOK, NEW t \in Tokens
    PROVE  /\ token[t] \in Issued \cup {Unissued}
           /\ Valid(t) => token[t] \in Issued
BY DEF TypeOK, Issued, Valid, Unissued

LEMMA LoginTypes ==
    ASSUME TypeOK, NEW l \in Logins, login[l] # NoLogin
    PROVE  login[l] \in Copies
BY DEF TypeOK, Copies

LEMMA CallTypes ==
    ASSUME TypeOK, NEW q \in Calls, call[q] # NoCall
    PROVE  call[q] \in Command
BY DEF TypeOK

LEMMA LogTypes ==
    ASSUME TypeOK
    PROVE  /\ log \in Seq(Command) /\ Len(log) \in Nat
           /\ \A i \in 1..Len(log) :
                log[i] \in Command /\ log[i].by \in Users /\ log[i].target \in Users
                /\ (log[i].new # Null => log[i].new \in SUBSET Roles)
<1>1. log \in Seq(Command)
  BY DEF TypeOK
<1>2. \A i \in 1..Len(log) : log[i] \in Command
  BY <1>1
<1>3. \A c \in Command : c.by \in Users /\ c.target \in Users
                         /\ (c.new # Null => c.new \in SUBSET Roles)
  BY AccessAssumption DEF Command
<1> QED BY <1>1, <1>2, <1>3

\* A copy of a row is typed, and has the role admin exactly if the row has.
LEMMA ReadTypes ==
    ASSUME TypeOK, NEW u \in Users
    PROVE  /\ [user |-> u, roles |-> roles[u] \cup {"user"}] \in Copies
           /\ "admin" \in roles[u] \cup {"user"} => "admin" \in roles[u]
<1>1. roles[u] \in SUBSET Roles
  BY DEF TypeOK
<1>2. roles[u] \cup {"user"} \in SUBSET Roles
  BY <1>1, AccessAssumption
<1>3. "admin" # "user"
  OBVIOUS
<1> QED BY <1>2, <1>3 DEF Copies

-----------------------------------------------------------------------------
LEMMA TypeStep ==
    ASSUME TypeOK, [Next]_vars
    PROVE  TypeOK'
<1>0. /\ roles \in [Users -> SUBSET Roles]
      /\ token \in [Tokens -> Issued \cup {Unissued}]
      /\ login \in [Logins -> Copies \cup {NoLogin}]
      /\ call \in [Calls -> Command \cup {NoCall}]
      /\ log \in Seq(Command) /\ Len(log) <= MaxCommands
      /\ stage \in [1..Len(log) -> {"queued", "applied", "done"}]
      /\ newest \in [Users -> 0..Len(log)]
      /\ overtaken \subseteq Users
  BY DEF TypeOK, Issued, Copies
<1> SUFFICES /\ roles' \in [Users -> SUBSET Roles]
             /\ token' \in [Tokens -> Issued \cup {Unissued}]
             /\ login' \in [Logins -> Copies \cup {NoLogin}]
             /\ call' \in [Calls -> Command \cup {NoCall}]
             /\ log' \in Seq(Command) /\ Len(log') <= MaxCommands
             /\ stage' \in [1..Len(log') -> {"queued", "applied", "done"}]
             /\ newest' \in [Users -> 0..Len(log')]
             /\ overtaken' \subseteq Users
  BY DEF TypeOK, Issued, Copies
<1>1. ASSUME NEW l \in Logins, NEW u \in Users, Begin(l, u)
      PROVE  /\ login' \in [Logins -> Copies \cup {NoLogin}]
             /\ UNCHANGED <<roles, token, call, log, stage, newest, overtaken>>
  BY <1>0, <1>1, ReadTypes DEF Begin
<1>2. ASSUME NEW l \in Logins, NEW t \in Tokens, Sign(l, t)
      PROVE  /\ token' \in [Tokens -> Issued \cup {Unissued}]
             /\ login' \in [Logins -> Copies \cup {NoLogin}]
             /\ UNCHANGED <<roles, call, log, stage, newest, overtaken>>
  <2>1. login[l] \in Copies
    BY <1>2, LoginTypes DEF Sign
  <2>2. [sub |-> login[l].user, roles |-> login[l].roles, key |-> SigningKey] \in Issued
    BY <2>1 DEF Copies, Issued
  <2>3. token' \in [Tokens -> Issued \cup {Unissued}]
    BY <1>0, <1>2, <2>2 DEF Sign
  <2>4. login' \in [Logins -> Copies \cup {NoLogin}]
    BY <1>0, <1>2 DEF Sign
  <2> QED BY <1>2, <2>3, <2>4 DEF Sign
<1>3. ASSUME NEW l \in Logins, Abandon(l)
      PROVE  /\ login' \in [Logins -> Copies \cup {NoLogin}]
             /\ UNCHANGED <<roles, token, call, log, stage, newest, overtaken>>
  BY <1>0, <1>3 DEF Abandon
<1>4. ASSUME NEW t \in Tokens, Expire(t)
      PROVE  /\ token' \in [Tokens -> Issued \cup {Unissued}]
             /\ UNCHANGED <<roles, login, call, log, stage, newest, overtaken>>
  BY <1>0, <1>4 DEF Expire
<1>5. ASSUME NEW q \in Calls, NEW t \in Tokens, NEW target \in Users,
             NEW new \in RoleSets \cup {Null}, Admit(q, t, target, new)
      PROVE  /\ call' \in [Calls -> Command \cup {NoCall}]
             /\ UNCHANGED <<roles, token, login, log, stage, newest, overtaken>>
  <2>1. token[t].sub \in Users
    BY <1>5, TokenTypes DEF Admit, Guarded, Issued
  <2>2. [by |-> token[t].sub, target |-> target, new |-> new] \in Command
    BY <2>1 DEF Command
  <2> QED BY <1>0, <1>5, <2>2 DEF Admit
<1>6. ASSUME NEW q \in Calls, Accept(q)
      PROVE  /\ call' \in [Calls -> Command \cup {NoCall}]
             /\ log' \in Seq(Command) /\ Len(log') <= MaxCommands
             /\ stage' \in [1..Len(log') -> {"queued", "applied", "done"}]
             /\ newest' \in [Users -> 0..Len(log')]
             /\ UNCHANGED <<roles, token, login, overtaken>>
  <2>1. call[q] \in Command
    BY <1>6, CallTypes DEF Accept
  <2>2. /\ log' = Append(log, call[q]) /\ stage' = Append(stage, "queued")
        /\ Len(log) < MaxCommands /\ newest' = newest
        /\ call' = [call EXCEPT ![q] = NoCall]
        /\ UNCHANGED <<roles, token, login, overtaken>>
    BY <1>6 DEF Accept
  <2>3. log' \in Seq(Command) /\ Len(log') = Len(log) + 1 /\ Len(log) \in Nat
    BY <1>0, <2>1, <2>2
  <2>4. Len(log') <= MaxCommands
    BY <2>2, <2>3, AccessAssumption
  <2>5. stage \in Seq({"queued", "applied", "done"}) /\ Len(stage) = Len(log)
    BY <1>0, <2>3
  <2>6. stage' \in [1..Len(log') -> {"queued", "applied", "done"}]
    <3>1. stage' \in Seq({"queued", "applied", "done"}) /\ Len(stage') = Len(log')
      BY <2>2, <2>3, <2>5
    <3>2. \A S : \A s \in Seq(S) : s \in [1..Len(s) -> S]
      OBVIOUS
    <3> QED BY <3>1, <3>2
  <2>7. newest' \in [Users -> 0..Len(log')]
    <3>1. 0..Len(log) \subseteq 0..Len(log')
      BY <2>3
    <3> QED BY <1>0, <2>2, <3>1
  <2>8. call' \in [Calls -> Command \cup {NoCall}]
    BY <1>0, <2>2
  <2> QED BY <2>2, <2>3, <2>4, <2>6, <2>7, <2>8
<1>7. ASSUME NEW q \in Calls, Fail(q)
      PROVE  /\ call' \in [Calls -> Command \cup {NoCall}]
             /\ UNCHANGED <<roles, token, login, log, stage, newest, overtaken>>
  BY <1>0, <1>7 DEF Fail
<1>8. ASSUME NEW i \in 1..Len(log), Apply(i)
      PROVE  /\ roles' \in [Users -> SUBSET Roles]
             /\ stage' \in [1..Len(log) -> {"queued", "applied", "done"}]
             /\ newest' \in [Users -> 0..Len(log)]
             /\ overtaken' \subseteq Users
             /\ UNCHANGED <<token, login, call, log>>
  <2>1. log[i].target \in Users /\ log[i].new \in SUBSET Roles
    BY <1>8, LogTypes DEF Apply
  <2>2. i \in 0..Len(log)
    BY LogTypes
  <2>3. newest' \in [Users -> 0..Len(log)]
    BY <1>0, <1>8, <2>2 DEF Apply
  <2>4. roles' \in [Users -> SUBSET Roles]
    BY <1>0, <1>8, <2>1 DEF Apply
  <2>5. overtaken' \subseteq Users
    BY <1>0, <1>8, <2>1 DEF Apply
  <2> QED BY <1>0, <1>8, <2>3, <2>4, <2>5 DEF Apply
<1>9. ASSUME NEW i \in 1..Len(log), Ack(i) \/ Redeliver(i)
      PROVE  /\ stage' \in [1..Len(log) -> {"queued", "applied", "done"}]
             /\ UNCHANGED <<roles, token, login, call, log, newest, overtaken>>
  BY <1>0, <1>9 DEF Ack, Redeliver
<1>10. CASE UNCHANGED vars
  BY <1>0, <1>10 DEF vars
<1> QED BY <1>0, <1>1, <1>2, <1>3, <1>4, <1>5, <1>6, <1>7, <1>8, <1>9, <1>10, NextCases

-----------------------------------------------------------------------------
\* Storing a command takes nobody's entitlement, and gives it to those the
\* command makes admins.
LEMMA MadeStays ==
    ASSUME TypeOK, NEW c \in Command, NEW u,
           NEW i \in 1..(Len(log) + 1), log' = Append(log, c), MadeAdminBefore(u, i)
    PROVE  MadeAdminBefore(u, i)'
<1>1. PICK j \in 1..(i - 1) : log[j].target = u /\ log[j].new # Null /\ "admin" \in log[j].new
  BY DEF MadeAdminBefore
<1>2. j \in 1..Len(log)
  BY LogTypes
<1>3. log'[j] = log[j]
  BY <1>2, LogTypes
<1> QED BY <1>1, <1>3 DEF MadeAdminBefore

LEMMA EntitledStays ==
    ASSUME TypeOK, NEW c \in Command, NEW u, log' = Append(log, c), Entitled(u)
    PROVE  Entitled(u)'
<1>1. Len(log') = Len(log) + 1 /\ Len(log) \in Nat
  BY LogTypes
<1>2. CASE u \in FirstAdmins
  BY <1>2 DEF Entitled
<1>3. CASE MadeAdminBefore(u, Len(log) + 1)
  <2>1. PICK j \in 1..Len(log) : log[j].target = u /\ log[j].new # Null /\ "admin" \in log[j].new
    BY <1>1, <1>3 DEF MadeAdminBefore
  <2>2. log'[j] = log[j]
    BY LogTypes
  <2>3. j \in 1..(Len(log') + 1 - 1)
    BY <1>1
  <2> QED BY <2>1, <2>2, <2>3 DEF MadeAdminBefore, Entitled
<1> QED BY <1>2, <1>3 DEF Entitled

LEMMA EntitledSame ==
    ASSUME log' = log, NEW u, Entitled(u)
    PROVE  Entitled(u)'
BY DEF Entitled, MadeAdminBefore

\* Nothing but Accept touches the log.
LEMMA LogStep ==
    ASSUME [Next]_vars
    PROVE  log' = log \/ \E q \in Calls : Accept(q)
<1> USE DEF Begin, Sign, Abandon, Expire, Admit, Fail, Apply, Ack, Redeliver
<1>1. UNCHANGED vars => log' = log
  BY DEF vars
<1> QED BY <1>1, NextCases

LEMMA EntitledStep ==
    ASSUME TypeOK, [Next]_vars, NEW u, Entitled(u)
    PROVE  Entitled(u)'
<1>1. ASSUME NEW q \in Calls, Accept(q)
      PROVE  Entitled(u)'
  <2>1. call[q] \in Command /\ log' = Append(log, call[q])
    BY <1>1, CallTypes DEF Accept
  <2> QED BY <2>1, EntitledStays
<1> QED BY <1>1, LogStep, EntitledSame

-----------------------------------------------------------------------------
\* What a step does to one copy, one token, one request.
LEMMA CopyMoves ==
    ASSUME TypeOK, NEW l \in Logins, [Next]_vars
    PROVE  \/ login'[l] = login[l]
           \/ login'[l] = NoLogin
           \/ \E u \in Users : Begin(l, u)
<1>0. login \in [Logins -> [user : Users, roles : SUBSET Roles] \cup {NoLogin}]
  BY DEF TypeOK
<1>1. ASSUME NEW k \in Logins, NEW u \in Users, Begin(k, u), k # l
      PROVE  login'[l] = login[l] \/ login'[l] = NoLogin
  BY <1>0, <1>1 DEF Begin
<1>2. ASSUME NEW k \in Logins, login' = [login EXCEPT ![k] = NoLogin]
      PROVE  login'[l] = login[l] \/ login'[l] = NoLogin
  BY <1>0, <1>2
<1>3. ASSUME NEW k \in Logins, Abandon(k) \/ \E t \in Tokens : Sign(k, t)
      PROVE  login'[l] = login[l] \/ login'[l] = NoLogin
  BY <1>2, <1>3 DEF Abandon, Sign
<1>4. \/ login' = login
      \/ \E k \in Logins, u \in Users : Begin(k, u)
      \/ \E k \in Logins : Abandon(k) \/ \E t \in Tokens : Sign(k, t)
  <2> USE DEF Expire, Admit, Accept, Fail, Apply, Ack, Redeliver
  <2>1. UNCHANGED vars => login' = login
    BY DEF vars
  <2> QED BY <2>1, NextCases
<1> QED BY <1>1, <1>3, <1>4

LEMMA TokenMoves ==
    ASSUME TypeOK, NEW t \in Tokens, [Next]_vars
    PROVE  \/ token'[t] = token[t]
           \/ token'[t] = Unissued
           \/ \E l \in Logins : Sign(l, t)
<1>0. token \in [Tokens -> [sub : Users, roles : SUBSET Roles, key : {SigningKey}]
                                \cup {Unissued}]
  BY DEF TypeOK
<1>1. ASSUME NEW s \in Tokens, Expire(s) \/ (s # t /\ \E l \in Logins : Sign(l, s))
      PROVE  token'[t] = token[t] \/ token'[t] = Unissued
  BY <1>0, <1>1 DEF Expire, Sign
<1>2. \/ token' = token
      \/ \E s \in Tokens : Expire(s)
      \/ \E l \in Logins, s \in Tokens : Sign(l, s)
  <2> USE DEF Begin, Abandon, Admit, Accept, Fail, Apply, Ack, Redeliver
  <2>1. UNCHANGED vars => token' = token
    BY DEF vars
  <2> QED BY <2>1, NextCases
<1> QED BY <1>1, <1>2

LEMMA CallMoves ==
    ASSUME TypeOK, NEW q \in Calls, [Next]_vars
    PROVE  \/ call'[q] = call[q]
           \/ call'[q] = NoCall
           \/ \E t \in Tokens, target \in Users, new \in RoleSets \cup {Null} :
                Admit(q, t, target, new)
<1>0. call \in [Calls -> Command \cup {NoCall}]
  BY DEF TypeOK
<1>1. ASSUME NEW p \in Calls, NEW t \in Tokens, NEW target \in Users,
             NEW new \in RoleSets \cup {Null}, Admit(p, t, target, new), p # q
      PROVE  call'[q] = call[q] \/ call'[q] = NoCall
  BY <1>0, <1>1 DEF Admit
<1>2. ASSUME NEW p \in Calls, Accept(p) \/ Fail(p)
      PROVE  call'[q] = call[q] \/ call'[q] = NoCall
  BY <1>0, <1>2 DEF Accept, Fail
<1>3. \/ call' = call
      \/ \E p \in Calls, t \in Tokens, target \in Users, new \in RoleSets \cup {Null} :
             Admit(p, t, target, new)
      \/ \E p \in Calls : Accept(p) \/ Fail(p)
  <2> USE DEF Begin, Sign, Abandon, Expire, Apply, Ack, Redeliver
  <2>1. UNCHANGED vars => call' = call
    BY DEF vars
  <2> QED BY <2>1, NextCases
<1> QED BY <1>1, <1>2, <1>3

-----------------------------------------------------------------------------
\* A row gets the role from a command in the log.
LEMMA RowsStep ==
    ASSUME TypeOK, RowsTraced, [Next]_vars
    PROVE  RowsTraced'
<1> SUFFICES ASSUME NEW u \in Users, "admin" \in roles'[u] PROVE Entitled(u)'
  BY DEF RowsTraced
<1>1. roles'[u] = roles[u] \/ \E i \in 1..Len(log) : Apply(i) /\ log[i].target = u
  <2>1. ASSUME NEW i \in 1..Len(log), Apply(i), log[i].target # u
        PROVE  roles'[u] = roles[u]
    BY <2>1 DEF Apply, TypeOK
  <2>2. roles' = roles \/ \E i \in 1..Len(log) : Apply(i)
    <3> USE DEF Begin, Sign, Abandon, Expire, Admit, Accept, Fail, Ack, Redeliver
    <3>1. UNCHANGED vars => roles' = roles
      BY DEF vars
    <3> QED BY <3>1, NextCases
  <2> QED BY <2>1, <2>2
<1>2. CASE roles'[u] = roles[u]
  BY <1>2, EntitledStep DEF RowsTraced
<1>3. ASSUME NEW i \in 1..Len(log), Apply(i), log[i].target = u
      PROVE  Entitled(u)'
  <2>1. roles'[u] = log[i].new /\ log[i].new # Null /\ log' = log
    BY <1>3 DEF Apply, TypeOK
  <2>2. i \in 1..(Len(log) + 1 - 1)
    BY LogTypes
  <2>3. Entitled(u)
    BY <1>3, <2>1, <2>2 DEF Entitled, MadeAdminBefore
  <2> QED BY <2>3, EntitledStep
<1> QED BY <1>1, <1>2, <1>3

\* A copy has the role from the row.
LEMMA CopiesStep ==
    ASSUME TypeOK, RowsTraced, CopiesTraced, [Next]_vars
    PROVE  CopiesTraced'
<1> SUFFICES ASSUME NEW l \in Logins, login'[l] # NoLogin, "admin" \in login'[l].roles,
                    NEW v, v = login'[l].user
             PROVE  Entitled(v)'
  BY DEF CopiesTraced, Entitled, MadeAdminBefore
<1>0. login \in [Logins -> [user : Users, roles : SUBSET Roles] \cup {NoLogin}]
  BY DEF TypeOK
<1>1. login'[l] = login[l] \/ \E u \in Users : Begin(l, u)
  BY CopyMoves
<1>2. CASE login'[l] = login[l]
  <2>1. Entitled(v)
    BY <1>2 DEF CopiesTraced
  <2> QED BY <2>1, EntitledStep
<1>3. ASSUME NEW u \in Users, Begin(l, u)
      PROVE  Entitled(v)'
  <2>1. login'[l] = [user |-> u, roles |-> roles[u] \cup {"user"}]
    BY <1>0, <1>3 DEF Begin
  <2>2. "admin" \in roles[u]
    BY <2>1, ReadTypes
  <2>3. Entitled(u)
    BY <2>2 DEF RowsTraced
  <2>4. v = u
    BY <2>1
  <2> QED BY <2>3, <2>4, EntitledStep
<1> QED BY <1>1, <1>2, <1>3

\* A token has the role from the copy it was signed for.
LEMMA TokensStep ==
    ASSUME TypeOK, CopiesTraced, TokensTraced, [Next]_vars
    PROVE  TokensTraced'
<1> SUFFICES ASSUME NEW t \in Tokens, token'[t].sub # None, "admin" \in token'[t].roles,
                    NEW v, v = token'[t].sub
             PROVE  Entitled(v)'
  BY DEF TokensTraced, Valid, Entitled, MadeAdminBefore
<1>0. token \in [Tokens -> [sub : Users, roles : SUBSET Roles, key : {SigningKey}]
                                \cup {Unissued}]
  BY DEF TypeOK
<1>1. token'[t] = token[t] \/ token'[t] = Unissued \/ \E l \in Logins : Sign(l, t)
  BY TokenMoves
<1>2. CASE token'[t] = token[t]
  <2>1. Entitled(v)
    BY <1>2 DEF TokensTraced, Valid
  <2> QED BY <2>1, EntitledStep
<1>3. token'[t] # Unissued
  BY DEF Unissued
<1>4. ASSUME NEW l \in Logins, Sign(l, t)
      PROVE  Entitled(v)'
  <2>1. token'[t] = [sub |-> login[l].user, roles |-> login[l].roles, key |-> SigningKey]
    BY <1>0, <1>4 DEF Sign
  <2>2. login[l] # NoLogin /\ "admin" \in login[l].roles
    BY <1>4, <2>1 DEF Sign
  <2>3. v = login[l].user
    BY <2>1
  <2>4. Entitled(v)
    BY <2>2, <2>3 DEF CopiesTraced
  <2> QED BY <2>4, EntitledStep
<1> QED BY <1>1, <1>2, <1>3, <1>4

\* A request is admitted with a token that has the role.
LEMMA CallsStep ==
    ASSUME TypeOK, TokensTraced, CallsTraced, [Next]_vars
    PROVE  CallsTraced'
<1> SUFFICES ASSUME NEW q \in Calls, call'[q] # NoCall, NEW v, v = call'[q].by
             PROVE  Entitled(v)'
  BY DEF CallsTraced, Entitled, MadeAdminBefore
<1>0. call \in [Calls -> Command \cup {NoCall}]
  BY DEF TypeOK
<1>1. \/ call'[q] = call[q]
      \/ \E t \in Tokens, target \in Users, new \in RoleSets \cup {Null} :
             Admit(q, t, target, new)
  BY CallMoves
<1>2. CASE call'[q] = call[q]
  <2>1. Entitled(v)
    BY <1>2 DEF CallsTraced
  <2> QED BY <2>1, EntitledStep
<1>3. ASSUME NEW t \in Tokens, NEW target \in Users, NEW new \in RoleSets \cup {Null},
             Admit(q, t, target, new)
      PROVE  Entitled(v)'
  <2>1. call'[q] = [by |-> token[t].sub, target |-> target, new |-> new]
    BY <1>0, <1>3 DEF Admit
  <2>2. v = token[t].sub
    BY <2>1
  <2>3. Entitled(v)
    BY <1>3, <2>2 DEF Admit, Guarded, TokensTraced
  <2> QED BY <2>3, EntitledStep
<1> QED BY <1>1, <1>2, <1>3

\* An accepted command was admitted for somebody entitled before it.
LEMMA HandedStep ==
    ASSUME TypeOK, CallsTraced, HandedDown, [Next]_vars
    PROVE  HandedDown'
<1>1. CASE log' = log
  BY <1>1 DEF HandedDown, MadeAdminBefore
<1>2. ASSUME NEW q \in Calls, Accept(q)
      PROVE  HandedDown'
  <2>1. call[q] \in Command /\ log' = Append(log, call[q]) /\ call[q] # NoCall
    BY <1>2, CallTypes DEF Accept
  <2>2. Len(log') = Len(log) + 1 /\ Len(log) \in Nat
    BY <2>1, LogTypes
  <2> SUFFICES ASSUME NEW i \in 1..Len(log'), NEW u, u = log'[i].by
               PROVE  u \in FirstAdmins \/ MadeAdminBefore(u, i)'
    BY DEF HandedDown, MadeAdminBefore
  <2>3. CASE i \in 1..Len(log)
    <3>1. log'[i] = log[i]
      BY <2>1, <2>3, LogTypes
    <3>2. u \in FirstAdmins \/ MadeAdminBefore(u, i)
      BY <2>3, <3>1 DEF HandedDown
    <3>3. i \in 1..(Len(log) + 1)
      BY <2>2
    <3> QED BY <2>1, <3>2, <3>3, MadeStays
  <2>4. CASE i = Len(log) + 1
    <3>1. log'[i] = call[q]
      BY <2>1, <2>4, LogTypes
    <3>2. u \in FirstAdmins \/ MadeAdminBefore(u, i)
      BY <2>1, <2>4, <3>1 DEF CallsTraced, Entitled
    <3>3. i \in 1..(Len(log) + 1)
      BY <2>2, <2>4
    <3> QED BY <2>1, <3>2, <3>3, MadeStays
  <2> QED BY <2>2, <2>3, <2>4
<1> QED BY <1>1, <1>2, LogStep

\* A row changes when a command is applied, and then follows it.
LEMMA RevertStep ==
    ASSUME TypeOK, OnlyLateOnesRevert, [Next]_vars
    PROVE  OnlyLateOnesRevert'
<1> SUFFICES ASSUME NEW u \in Users, u \notin overtaken'
             PROVE  roles'[u] = IF newest'[u] = 0 THEN FirstRoles[u] ELSE log'[newest'[u]].new
  BY DEF OnlyLateOnesRevert, FirstRoles
<1>0. newest \in [Users -> 0..Len(log)] /\ roles \in [Users -> SUBSET Roles]
  BY DEF TypeOK
<1>1. CASE UNCHANGED <<roles, newest, overtaken, log>>
  BY <1>1 DEF OnlyLateOnesRevert
<1>2. ASSUME NEW q \in Calls, Accept(q)
      PROVE  roles'[u] = IF newest'[u] = 0 THEN FirstRoles[u] ELSE log'[newest'[u]].new
  <2>1. call[q] \in Command /\ log' = Append(log, call[q])
        /\ UNCHANGED <<roles, newest, overtaken>>
    BY <1>2, CallTypes DEF Accept
  <2>2. newest[u] # 0 => newest[u] \in 1..Len(log)
    BY <1>0, LogTypes
  <2>3. newest[u] # 0 => log'[newest[u]] = log[newest[u]]
    BY <2>1, <2>2, LogTypes
  <2> QED BY <2>1, <2>3 DEF OnlyLateOnesRevert
<1>3. ASSUME NEW i \in 1..Len(log), Apply(i)
      PROVE  roles'[u] = IF newest'[u] = 0 THEN FirstRoles[u] ELSE log'[newest'[u]].new
  <2>1. log' = log /\ (u \notin overtaken)
    BY <1>3 DEF Apply
  <2>2. CASE log[i].target # u
    <3>1. roles'[u] = roles[u] /\ newest'[u] = newest[u]
      BY <1>0, <1>3, <2>2 DEF Apply
    <3> QED BY <2>1, <3>1 DEF OnlyLateOnesRevert
  <2>3. CASE log[i].target = u
    <3>1. roles'[u] = log[i].new
      BY <1>0, <1>3, <2>3 DEF Apply
    <3>2. ~(i < newest[u])
      BY <1>3, <2>3 DEF Apply
    <3>3. newest'[u] = IF newest[u] < i THEN i ELSE newest[u]
      BY <1>0, <1>3, <2>3 DEF Apply
    <3>4. newest'[u] = i /\ i # 0
      BY <1>0, <3>2, <3>3, LogTypes
    <3> QED BY <2>1, <3>1, <3>4
  <2> QED BY <2>2, <2>3
<1>4. \/ UNCHANGED <<roles, newest, overtaken, log>>
      \/ \E q \in Calls : Accept(q)
      \/ \E i \in 1..Len(log) : Apply(i)
  <2> USE DEF Begin, Sign, Abandon, Expire, Admit, Fail, Ack, Redeliver
  <2>1. UNCHANGED vars => UNCHANGED <<roles, newest, overtaken, log>>
    BY DEF vars
  <2> QED BY <2>1, NextCases
<1> QED BY <1>1, <1>2, <1>3, <1>4

-----------------------------------------------------------------------------
LEMMA Initially ==
    ASSUME Init
    PROVE  IInv
<1>1. FirstRoles \in [Users -> SUBSET Roles]
  BY AccessAssumption DEF FirstRoles
<1>2. TypeOK
  <2>1. log \in Seq(Command) /\ Len(log) = 0
    BY DEF Init
  <2>2. stage \in [1..Len(log) -> {"queued", "applied", "done"}]
    BY <2>1 DEF Init
  <2>3. newest \in [Users -> 0..Len(log)]
    BY <2>1 DEF Init
  <2>4. Len(log) <= MaxCommands
    BY <2>1, AccessAssumption
  <2>5. /\ token \in [Tokens -> [sub : Users, roles : SUBSET Roles, key : {SigningKey}]
                                \cup {Unissued}]
        /\ login \in [Logins -> [user : Users, roles : SUBSET Roles] \cup {NoLogin}]
        /\ call \in [Calls -> Command \cup {NoCall}]
        /\ overtaken \subseteq Users
    BY DEF Init
  <2>6. roles \in [Users -> SUBSET Roles]
    BY <1>1 DEF Init
  <2> QED BY <2>1, <2>2, <2>3, <2>4, <2>5, <2>6 DEF TypeOK
<1>3. RowsTraced
  <2>1. "admin" # "user"
    OBVIOUS
  <2> QED BY <2>1 DEF Init, RowsTraced, FirstRoles, Entitled
<1>4. CopiesTraced /\ CallsTraced
  BY DEF Init, CopiesTraced, CallsTraced
<1>5. TokensTraced
  BY DEF Init, TokensTraced, Valid, Unissued
<1>6. HandedDown
  BY DEF Init, HandedDown
<1>7. OnlyLateOnesRevert
  BY DEF Init, OnlyLateOnesRevert
<1> QED BY <1>2, <1>3, <1>4, <1>5, <1>6, <1>7 DEF IInv, Traced

\* IInv is the inductive invariant of the admin route.
THEOREM Invariance == Spec => []IInv
<1>1. Init => IInv
  BY Initially
<1>2. IInv /\ [Next]_vars => IInv'
  BY TypeStep, RowsStep, CopiesStep, TokensStep, CallsStep, HandedStep, RevertStep
     DEF IInv, Traced
<1> QED BY <1>1, <1>2, PTL DEF Spec

\* The variables keep their types; whatever the guard lets through has a user as
\* its subject.
THEOREM TypeCorrect == Spec => []TypeOK
<1>1. IInv => TypeOK
  BY DEF IInv
<1> QED BY <1>1, Invariance, PTL

\* Only first admins, and those made admins by an earlier command, ever have a
\* command accepted (JWTGuard, RequireRoles and UpdateRoles).
THEOREM AdminsAreHandedDown == Spec => []HandedDown
<1>1. IInv => HandedDown
  BY DEF IInv
<1> QED BY <1>1, Invariance, PTL

\* A row follows the latest command applied to it unless one was applied late
\* (UpdateRoles replaces the column).
THEOREM RowsFollowCommands == Spec => []OnlyLateOnesRevert
<1>1. IInv => OnlyLateOnesRevert
  BY DEF IInv
<1> QED BY <1>1, Invariance, PTL

-----------------------------------------------------------------------------
\* Whoever has no power gets none from a login, a token or a request of its own.
LEMMA PowerlessStep ==
    ASSUME TypeOK, [Next]_vars, NEW u \in Users, Powerless(u), "admin" \notin roles'[u]
    PROVE  /\ Powerless(u)'
           /\ \A i \in (Len(log) + 1)..Len(log') : log'[i].by # u
<1>0. u # None
  BY AccessAssumption
<1>1. ASSUME NEW l \in Logins, login'[l].user = u
      PROVE  "admin" \notin login'[l].roles
  <2>1. CASE login'[l] = login[l]
    BY <1>1, <2>1 DEF Powerless
  <2>2. CASE login'[l] = NoLogin
    BY <1>0, <1>1, <2>2 DEF NoLogin
  <2>3. ASSUME NEW v \in Users, Begin(l, v)
        PROVE  "admin" \notin login'[l].roles
    <3>1. login'[l] = [user |-> v, roles |-> roles[v] \cup {"user"}]
      BY <2>3 DEF Begin, TypeOK
    <3>2. v = u
      BY <1>1, <3>1
    <3> QED BY <3>1, <3>2, ReadTypes DEF Powerless, Demoted
  <2> QED BY <2>1, <2>2, <2>3, CopyMoves
<1>2. ASSUME NEW t \in Tokens, token'[t].sub = u
      PROVE  "admin" \notin token'[t].roles
  <2>1. CASE token'[t] = token[t]
    BY <1>2, <2>1 DEF Powerless, Disarmed
  <2>2. CASE token'[t] = Unissued
    BY <1>0, <1>2, <2>2 DEF Unissued
  <2>3. ASSUME NEW l \in Logins, Sign(l, t)
        PROVE  "admin" \notin token'[t].roles
    <3>1. token'[t] = [sub |-> login[l].user, roles |-> login[l].roles, key |-> SigningKey]
      BY <2>3 DEF Sign, TypeOK
    <3>2. login[l].user = u
      BY <1>2, <3>1
    <3> QED BY <3>1, <3>2 DEF Powerless
  <2> QED BY <2>1, <2>2, <2>3, TokenMoves
<1>3. ASSUME NEW q \in Calls
      PROVE  call'[q].by # u
  <2>1. CASE call'[q] = call[q]
    BY <2>1 DEF Powerless
  <2>2. CASE call'[q] = NoCall
    BY <1>0, <2>2 DEF NoCall
  <2>3. ASSUME NEW t \in Tokens, NEW target \in Users, NEW new \in RoleSets \cup {Null},
               Admit(q, t, target, new)
        PROVE  call'[q].by # u
    <3>1. call'[q] = [by |-> token[t].sub, target |-> target, new |-> new]
      BY <2>3 DEF Admit, TypeOK
    <3>2. token[t].sub # u
      BY <2>3 DEF Admit, Powerless, Disarmed
    <3> QED BY <3>1, <3>2
  <2> QED BY <2>1, <2>2, <2>3, CallMoves
<1>4. ASSUME NEW i \in (Len(log) + 1)..Len(log')
      PROVE  log'[i].by # u
  <2>1. log' # log
    BY <1>4, LogTypes
  <2>2. PICK q \in Calls : Accept(q)
    BY <2>1, LogStep
  <2>3. call[q] \in Command /\ log' = Append(log, call[q]) /\ call[q].by # u
    BY <2>2, CallTypes DEF Accept, Powerless
  <2>4. i = Len(log) + 1 /\ log'[i] = call[q]
    BY <1>4, <2>3, LogTypes
  <2> QED BY <2>3, <2>4
<1> QED BY <1>1, <1>2, <1>3, <1>4 DEF Powerless, Demoted, Disarmed

\* Only a command gives power to a user that has lost all of it (Login, Refresh
\* and VerifyMFA sign what they read; JWTGuard and RequireRoles read the token).
THEOREM PowerComesByCommand == Spec => OnlyACommandRearms
<1>1. IInv => TypeOK
  BY DEF IInv
<1>2. TypeOK /\ [Next]_vars =>
          [\A u \in Users : Powerless(u) =>
              /\ Powerless(u)' \/ "admin" \in roles'[u]
              /\ \A i \in (Len(log) + 1)..Len(log') : log'[i].by # u]_vars
  <2> SUFFICES ASSUME TypeOK, [Next]_vars, NEW u \in Users, Powerless(u)
               PROVE  /\ Powerless(u)' \/ "admin" \in roles'[u]
                      /\ \A i \in (Len(log) + 1)..Len(log') : log'[i].by # u
    OBVIOUS
  <2>1. CASE "admin" \notin roles'[u]
    BY <2>1, PowerlessStep
  <2>2. CASE "admin" \in roles'[u]
    <3>1. ASSUME NEW q \in Calls, Accept(q)
          PROVE  roles' = roles
      BY <3>1 DEF Accept
    <3>2. "admin" \notin roles[u]
      BY DEF Powerless, Demoted
    <3>3. log' = log
      BY <2>2, <3>1, <3>2, LogStep
    <3>4. (Len(log) + 1)..Len(log') = {}
      BY <3>3, LogTypes
    <3> QED BY <2>2, <3>4
  <2> QED BY <2>1, <2>2
<1> QED BY <1>1, <1>2, Invariance, PTL DEF Spec, OnlyACommandRearms

-----------------------------------------------------------------------------
\* While no command has been accepted, none is there to be applied.
LEMMA RowsUntouched ==
    ASSUME [Next]_vars, log = <<>>
    PROVE  roles' = roles
<1>1. ASSUME NEW i \in 1..Len(log)
      PROVE  FALSE
  BY <1>1
<1>2. UNCHANGED vars => roles' = roles
  BY DEF vars
<1> QED
  BY <1>1, <1>2, NextCases DEF Begin, Sign, Abandon, Expire, Admit, Accept, Fail

\* The guard lets nothing through if every token is signed with another key than
\* it verifies with: no request is ever admitted (JWTGuard; the key files of the
\* env files).
THEOREM AnotherKeyIsDead == Spec => []AnotherKeyKills
<1> DEFINE NoneAdmitted == GuardKey # SigningKey => RouteIsDead /\ \A q \in Calls : call[q] = NoCall
<1>1. Init => NoneAdmitted
  BY DEF Init, RouteIsDead
<1>2. IInv /\ NoneAdmitted /\ [Next]_vars => NoneAdmitted'
  <2> SUFFICES ASSUME TypeOK, GuardKey # SigningKey, log = <<>>, roles = FirstRoles,
                      \A q \in Calls : call[q] = NoCall, [Next]_vars
               PROVE  log' = <<>> /\ roles' = FirstRoles /\ \A q \in Calls : call'[q] = NoCall
    BY DEF IInv, RouteIsDead, FirstRoles, NoCall
  <2>1. log' = <<>>
    <3>1. ASSUME NEW q \in Calls, Accept(q)
          PROVE  FALSE
      BY <3>1 DEF Accept
    <3> QED BY <3>1, LogStep
  <2>2. ASSUME NEW q \in Calls
        PROVE  call'[q] = NoCall
    <3>1. ASSUME NEW t \in Tokens, NEW target \in Users, NEW new \in RoleSets \cup {Null},
                 Admit(q, t, target, new)
          PROVE  FALSE
      BY <3>1, TokenTypes DEF Admit, Guarded, Issued
    <3> QED BY <3>1, CallMoves
  <2> QED BY <2>1, <2>2, RowsUntouched
<1>3. NoneAdmitted => AnotherKeyKills
  BY DEF AnotherKeyKills
<1> QED BY <1>1, <1>2, <1>3, Invariance, PTL DEF Spec

\* Without a first admin the first command would have to come from one that a
\* command before it made: there is no first command (UpdateRoles).
THEOREM NobodyCanStart == Spec => []NobodyStartsIt
<1>1. Init => NobodyStartsIt
  BY DEF Init, NobodyStartsIt, RouteIsDead
<1>2. IInv /\ NobodyStartsIt /\ [Next]_vars /\ IInv' => NobodyStartsIt'
  <2> SUFFICES ASSUME IInv', FirstAdmins = {}, log = <<>>, roles = FirstRoles, [Next]_vars, IInv
               PROVE  log' = <<>> /\ roles' = FirstRoles
    BY DEF NobodyStartsIt, RouteIsDead, FirstRoles
  <2>1. ASSUME log' # <<>>
        PROVE  FALSE
    <3>1. log' \in Seq(Command) /\ Len(log') \in Nat /\ Len(log') # 0
      BY <2>1 DEF IInv, TypeOK
    <3>2. 1 \in 1..Len(log')
      BY <3>1
    <3>3. ~MadeAdminBefore(log[1].by, 1)'
      BY DEF MadeAdminBefore
    <3> QED BY <3>2, <3>3 DEF IInv, HandedDown
  <2> QED BY <2>1, RowsUntouched
<1> QED BY <1>1, <1>2, Invariance, PTL DEF Spec
=============================================================================
