--------------------------- MODULE RateLimiterProofs ---------------------------
(***************************************************************************)
(* For every limit, every finite set of requests and every number of       *)
(* faults: the places of a window are given out exactly, and a window      *)
(* without an end is about to get one.                                     *)
(***************************************************************************)
EXTENDS RateLimiter, FiniteSetTheorems, TLAPS

USE RateLimiterAssumption

IInv == TypeOK /\ PlacesAddUp /\ EndIsComing

RequestRecord == [pc : {"idle", "counted", "limited"}, count : 0..MaxCount, window : BOOLEAN]

LEMMA Types ==
    ASSUME TypeOK
    PROVE  /\ counter \in 0..MaxCount /\ ttl \in BOOLEAN
           /\ request \in [Requests -> RequestRecord]
           /\ admitted \in Nat /\ wasted \in Nat
           /\ leaked \in BOOLEAN /\ faults \in 0..MaxFaults
BY DEF TypeOK, RequestRecord

LEMMA IdleTyped == Idle \in RequestRecord
<1>1. 0 \in 0..MaxCount /\ FALSE \in BOOLEAN
  OBVIOUS
<1> QED BY <1>1 DEF Idle, RequestRecord

LEMMA DoneTyped ==
    ASSUME TypeOK, NEW q \in Requests, Done(q)
    PROVE  request' \in [Requests -> RequestRecord]
BY Types, IdleTyped DEF Done

LEMMA NextCases ==
    ASSUME [Next]_vars
    PROVE  \/ \E q \in Requests : Incr(q) \/ FailOpen(q) \/ AnswerLost(q)
           \/ \E q \in Requests : Expire(q) \/ ExpireFails(q) \/ NotFirst(q)
           \/ \E q \in Requests : LetThrough(q) \/ Refuse(q)
           \/ \E q \in Requests : Crash(q)
           \/ WindowEnds
           \/ UNCHANGED vars
BY DEF Next, Proceed

-----------------------------------------------------------------------------
LEMMA TypeStep == TypeOK /\ [Next]_vars => TypeOK'
<1> SUFFICES ASSUME TypeOK, [Next]_vars
             PROVE  TypeOK'
  OBVIOUS
<1> USE Types DEF RequestRecord, Fault, Idle
<1>1. ASSUME NEW q \in Requests, Incr(q) \/ FailOpen(q) \/ AnswerLost(q)
      PROVE  TypeOK'
  <2>1. CASE Incr(q)
    BY <2>1 DEF Incr, TypeOK
  <2>2. CASE FailOpen(q)
    BY <2>2 DEF FailOpen, TypeOK
  <2>3. CASE AnswerLost(q)
    BY <2>3 DEF AnswerLost, TypeOK
  <2> QED BY <1>1, <2>1, <2>2, <2>3
<1>2. ASSUME NEW q \in Requests, Expire(q) \/ ExpireFails(q) \/ NotFirst(q)
      PROVE  TypeOK'
  <2>1. request' \in [Requests -> RequestRecord]
    BY <1>2 DEF Expire, ExpireFails, NotFirst, Goto
  <2>2. ttl' \in BOOLEAN /\ leaked' \in BOOLEAN
    <3>1. CASE Expire(q)
      BY <3>1 DEF Expire
    <3>2. CASE ExpireFails(q)
      BY <3>2 DEF ExpireFails
    <3>3. CASE NotFirst(q)
      BY <3>3 DEF NotFirst
    <3> QED BY <1>2, <3>1, <3>2, <3>3
  <2>3. UNCHANGED <<counter, admitted, wasted>> /\ faults' \in 0..MaxFaults
    BY <1>2 DEF Expire, ExpireFails, NotFirst
  <2> QED BY <2>1, <2>2, <2>3 DEF TypeOK
<1>3. ASSUME NEW q \in Requests, LetThrough(q) \/ Refuse(q)
      PROVE  TypeOK'
  <2>1. request' \in [Requests -> RequestRecord]
    BY <1>3, DoneTyped DEF LetThrough, Refuse
  <2>2. UNCHANGED <<counter, ttl, wasted, leaked, faults>> /\ admitted' \in Nat
    BY <1>3 DEF LetThrough, Refuse
  <2> QED BY <2>1, <2>2 DEF TypeOK
<1>4. ASSUME NEW q \in Requests, Crash(q)
      PROVE  TypeOK'
  BY <1>4 DEF Crash, Done, TypeOK
<1>5. CASE WindowEnds
  <2>1. request' \in [Requests -> RequestRecord]
    BY <1>5 DEF WindowEnds
  <2>2. counter' = 0 /\ ttl' = FALSE /\ admitted' = 0 /\ wasted' = 0
    BY <1>5 DEF WindowEnds
  <2>3. UNCHANGED <<leaked, faults>>
    BY <1>5 DEF WindowEnds
  <2>4. counter' \in 0..MaxCount
    BY <2>2
  <2>5. ttl' \in BOOLEAN
    BY <2>2
  <2> QED BY <2>1, <2>2, <2>3, <2>4, <2>5 DEF TypeOK
<1>6. CASE UNCHANGED vars
  BY <1>6 DEF vars, TypeOK
<1> QED BY <1>1, <1>2, <1>3, <1>4, <1>5, <1>6, NextCases

-----------------------------------------------------------------------------
\* What can happen to the set of those who still have a place to take.
LEMMA PendingFinite == IsFiniteSet(Pending) /\ Cardinality(Pending) \in Nat
<1>1. Pending \subseteq Requests
  BY DEF Pending
<1> QED BY <1>1, FS_Subset, FS_CardinalityType

LEMMA PendingJoins ==
    ASSUME NEW q \in Requests, q \notin Pending, Pending' = Pending \cup {q}
    PROVE  Cardinality(Pending') = Cardinality(Pending) + 1
BY PendingFinite, FS_AddElement

LEMMA PendingLeaves ==
    ASSUME NEW q \in Pending, Pending' = Pending \ {q}
    PROVE  Cardinality(Pending') = Cardinality(Pending) - 1
BY PendingFinite, FS_RemoveElement

\* A request that is through with the middleware, or dead, has left.
LEMMA PendingAfter ==
    ASSUME TypeOK, NEW q \in Requests, ~At(q, "idle"), Done(q)
    PROVE  /\ request[q].window /\ Within(q) =>
                  Cardinality(Pending') = Cardinality(Pending) - 1
           /\ ~(request[q].window /\ Within(q)) => Pending' = Pending
<1>1. Pending' = Pending \ {q}
  BY Types DEF Done, Pending, At, Within, Idle, RequestRecord
<1>2. q \in Pending <=> request[q].window /\ Within(q)
  BY DEF Pending
<1> QED BY <1>1, <1>2, PendingLeaves

\* A request that is counted joins them if it is within the limit, and most steps
\* leave them as they are.
LEMMA PendingIncr ==
    ASSUME TypeOK, NEW q \in Requests, Incr(q)
    PROVE  /\ counter < MaxRequests => Cardinality(Pending') = Cardinality(Pending) + 1
           /\ ~(counter < MaxRequests) => Pending' = Pending
<1> USE Types
<1>1. q \notin Pending
  BY DEF Incr, Pending
<1>2. Pending' = IF counter < MaxRequests THEN Pending \cup {q} ELSE Pending
  BY <1>1 DEF Incr, Pending, At, Within, RequestRecord
<1> QED BY <1>1, <1>2, PendingJoins

LEMMA PendingSame ==
    ASSUME TypeOK, NEW q \in Requests,
           \/ FailOpen(q) \/ AnswerLost(q)
           \/ Expire(q) \/ ExpireFails(q) \/ NotFirst(q)
    PROVE  Pending' = Pending
<1>1. CASE FailOpen(q) \/ AnswerLost(q)
  BY <1>1 DEF FailOpen, AnswerLost, Pending, At, Within
<1>2. CASE Expire(q) \/ ExpireFails(q) \/ NotFirst(q)
  BY <1>2, Types DEF Expire, ExpireFails, NotFirst, Goto, Pending, At, Within, RequestRecord
<1> QED BY <1>1, <1>2

LEMMA PlacesStep == TypeOK /\ PlacesAddUp /\ [Next]_vars => PlacesAddUp'
<1> SUFFICES ASSUME TypeOK, PlacesAddUp, [Next]_vars
             PROVE  PlacesAddUp'
  OBVIOUS
<1> USE Types, PendingFinite DEF PlacesAddUp, Places
<1>1. ASSUME NEW q \in Requests, Incr(q)
      PROVE  PlacesAddUp'
  <2>1. CASE counter < MaxRequests
    <3>1. Cardinality(Pending') = Cardinality(Pending) + 1
      BY <1>1, <2>1, PendingIncr
    <3>2. Places' = Places + 1
      BY <1>1, <2>1 DEF Incr
    <3> QED BY <1>1, <3>1, <3>2 DEF Incr
  <2>2. CASE ~(counter < MaxRequests)
    <3>1. Pending' = Pending
      BY <1>1, <2>2, PendingIncr
    <3>2. Places' = Places /\ UNCHANGED <<admitted, wasted>>
      BY <1>1, <2>2 DEF Incr
    <3> QED BY <3>1, <3>2
  <2> QED BY <2>1, <2>2
<1>2. ASSUME NEW q \in Requests, FailOpen(q) \/ AnswerLost(q)
      PROVE  PlacesAddUp'
  BY <1>2, PendingSame DEF FailOpen, AnswerLost
<1>3. ASSUME NEW q \in Requests, Expire(q) \/ ExpireFails(q) \/ NotFirst(q)
      PROVE  PlacesAddUp'
  BY <1>3, PendingSame DEF Expire, ExpireFails, NotFirst
<1>4. ASSUME NEW q \in Requests, LetThrough(q)
      PROVE  PlacesAddUp'
  <2>1. ~At(q, "idle") /\ Done(q) /\ Within(q)
    BY <1>4 DEF LetThrough, At
  <2> QED BY <1>4, <2>1, PendingAfter DEF LetThrough
<1>5. ASSUME NEW q \in Requests, Refuse(q)
      PROVE  PlacesAddUp'
  <2>1. ~At(q, "idle") /\ Done(q) /\ ~Within(q)
    BY <1>5 DEF Refuse, At
  <2> QED BY <1>5, <2>1, PendingAfter DEF Refuse
<1>6. ASSUME NEW q \in Requests, Crash(q)
      PROVE  PlacesAddUp'
  BY <1>6, PendingAfter DEF Crash
<1>7. CASE WindowEnds
  <2>1. Pending' = {}
    BY <1>7 DEF WindowEnds, Pending
  <2> QED BY <1>7, <2>1, FS_EmptySet DEF WindowEnds
<1>8. CASE UNCHANGED vars
  <2>1. Pending' = Pending
    BY <1>8 DEF vars, Pending, At, Within
  <2> QED BY <1>8, <2>1 DEF vars
<1> QED BY <1>1, <1>2, <1>3, <1>4, <1>5, <1>6, <1>7, <1>8, NextCases

-----------------------------------------------------------------------------
\* q is on its way to set the TTL of the present window.
Comes(q) == At(q, "counted") /\ request[q].window /\ First(q)

LEMMA EndStep == TypeOK /\ EndIsComing /\ [Next]_vars => EndIsComing'
<1> SUFFICES ASSUME TypeOK, EndIsComing, [Next]_vars, (counter > 0 /\ ~ttl /\ ~leaked)'
             PROVE  (\E q \in Requests : Comes(q))'
  BY DEF EndIsComing, Comes
<1> USE Types DEF Comes, At, First, RequestRecord
<1>1. ASSUME counter > 0, ~ttl, ~leaked
      PROVE  \E q \in Requests : Comes(q)
  BY <1>1 DEF EndIsComing
<1>2. ASSUME NEW q \in Requests, Incr(q)
      PROVE  (\E p \in Requests : Comes(p))'
  <2>1. CASE counter = 0
    <3>1. Comes(q)'
      BY <1>2, <2>1 DEF Incr
    <3> QED BY <3>1
  <2>2. CASE counter > 0
    <3>1. PICK p \in Requests : Comes(p)
      BY <1>1, <1>2, <2>2 DEF Incr
    <3>2. Comes(p)'
      BY <1>2, <3>1 DEF Incr
    <3> QED BY <3>2
  <2> QED BY <2>1, <2>2
<1>3. ASSUME NEW q \in Requests, FailOpen(q) \/ AnswerLost(q)
      PROVE  (\E p \in Requests : Comes(p))'
  <2>1. counter > 0 /\ ~ttl /\ ~leaked /\ UNCHANGED request
    <3>1. CASE FailOpen(q)
      BY <3>1 DEF FailOpen
    <3>2. CASE AnswerLost(q)
      <4>1. ~leaked /\ counter # 0 /\ UNCHANGED <<ttl, request>>
        BY <3>2 DEF AnswerLost
      <4> QED BY <4>1
    <3> QED BY <1>3, <3>1, <3>2
  <2>2. PICK p \in Requests : Comes(p)
    BY <1>1, <2>1
  <2>3. Comes(p)'
    BY <2>1, <2>2
  <2> QED BY <2>3
<1>4. ASSUME NEW q \in Requests, Expire(q) \/ ExpireFails(q) \/ NotFirst(q)
      PROVE  (\E p \in Requests : Comes(p))'
  <2>1. NotFirst(q)
    BY <1>4 DEF Expire, ExpireFails
  <2>2. PICK p \in Requests : Comes(p)
    BY <1>1, <2>1 DEF NotFirst
  <2>3. Comes(p)'
    BY <2>1, <2>2 DEF NotFirst, Goto
  <2> QED BY <2>3
<1>5. ASSUME NEW q \in Requests, LetThrough(q) \/ Refuse(q) \/ Crash(q)
      PROVE  (\E p \in Requests : Comes(p))'
  <2>1. counter > 0 /\ ~ttl /\ ~leaked /\ Done(q)
    BY <1>5 DEF LetThrough, Refuse, Crash
  <2>2. PICK p \in Requests : Comes(p)
    BY <1>1, <2>1
  <2>3. p # q
    BY <1>5, <2>2 DEF LetThrough, Refuse, Crash
  <2>4. Comes(p)'
    BY <2>1, <2>2, <2>3 DEF Done
  <2> QED BY <2>4
<1>6. CASE WindowEnds
  BY <1>6 DEF WindowEnds
<1>7. CASE UNCHANGED vars
  BY <1>1, <1>7 DEF vars
<1> QED BY <1>2, <1>3, <1>4, <1>5, <1>6, <1>7, NextCases

-----------------------------------------------------------------------------
\* What a request of the present window was told by INCR has been counted.
CountsFit == \A q \in Requests : request[q].window => request[q].count <= counter

LEMMA CountsStep == TypeOK /\ CountsFit /\ [Next]_vars => CountsFit'
<1> SUFFICES ASSUME TypeOK, CountsFit, [Next]_vars, NEW p \in Requests, request'[p].window
             PROVE  request'[p].count <= counter'
  BY DEF CountsFit
<1> USE Types DEF RequestRecord
<1>a. request[p].window => request[p].count <= counter
  BY DEF CountsFit
<1>1. ASSUME NEW q \in Requests, Incr(q)
      PROVE  request'[p].count <= counter'
  BY <1>a, <1>1 DEF Incr
<1>2. ASSUME NEW q \in Requests, FailOpen(q) \/ AnswerLost(q)
      PROVE  request'[p].count <= counter'
  <2>1. UNCHANGED request /\ counter <= counter' /\ counter' \in Nat
    BY <1>2 DEF FailOpen, AnswerLost
  <2> QED BY <1>a, <2>1
<1>3. ASSUME NEW q \in Requests, Expire(q) \/ ExpireFails(q) \/ NotFirst(q)
      PROVE  request'[p].count <= counter'
  <2>1. /\ request'[p].window = request[p].window /\ request'[p].count = request[p].count
        /\ counter' = counter
    <3>1. Goto(q, "limited") /\ counter' = counter
      BY <1>3 DEF Expire, ExpireFails, NotFirst
    <3> QED BY <3>1 DEF Goto
  <2> QED BY <1>a, <2>1
<1>4. ASSUME NEW q \in Requests, LetThrough(q) \/ Refuse(q) \/ Crash(q)
      PROVE  request'[p].count <= counter'
  <2>1. Done(q) /\ counter' = counter
    BY <1>4 DEF LetThrough, Refuse, Crash
  <2>2. p # q /\ request'[p] = request[p]
    BY <2>1 DEF Done, Idle
  <2> QED BY <1>a, <2>1, <2>2
<1>5. CASE WindowEnds
  <2>1. request'[p].window = FALSE
    BY <1>5 DEF WindowEnds
  <2> QED BY <2>1
<1>6. CASE UNCHANGED vars
  BY <1>a, <1>6 DEF vars
<1> QED BY <1>1, <1>2, <1>3, <1>4, <1>5, <1>6, NextCases

LEMMA RefusedFull ==
    ASSUME TypeOK, PlacesAddUp, CountsFit
    PROVE  RefusedForCause
<1> SUFFICES ASSUME NEW q \in Requests, request[q].window, ~Within(q)
             PROVE  admitted + wasted + Cardinality(Pending) = MaxRequests
  BY DEF RefusedForCause
<1>1. request[q].count <= counter /\ request[q].count > MaxRequests
  BY Types DEF CountsFit, Within, RequestRecord
<1>2. request[q].count \in Nat
  BY Types DEF RequestRecord
<1>3. Places = MaxRequests
  BY <1>1, <1>2, Types DEF Places
<1> QED BY <1>3 DEF PlacesAddUp

\* INCR takes a place, or finds the window full; the rest of a request keeps,
\* serves or spoils the place it has.
LEMMA WindowStep == TypeOK /\ PlacesAddUp /\ [Next]_vars => [Window!Next]_Window!vars
<1> SUFFICES ASSUME TypeOK, PlacesAddUp, [Next]_vars
             PROVE  Window!Next \/ UNCHANGED Window!vars
  OBVIOUS
<1> DEFINE n == Cardinality(Pending)
<1> USE Types, PendingFinite
<1>a. counter < MaxRequests => ~Window!Full
  BY DEF PlacesAddUp, Places, Window!Full
<1>1. ASSUME NEW q \in Requests, Incr(q)
      PROVE  Window!Take \/ UNCHANGED Window!vars
  <2>1. UNCHANGED <<admitted, wasted>>
    BY <1>1 DEF Incr
  <2>2. CASE counter < MaxRequests
    <3>1. Cardinality(Pending') = n + 1
      BY <1>1, <2>2, PendingIncr
    <3> QED BY <1>a, <2>1, <2>2, <3>1 DEF Window!Take
  <2>3. CASE ~(counter < MaxRequests)
    <3>1. Pending' = Pending
      BY <1>1, <2>3, PendingIncr
    <3> QED BY <2>1, <3>1 DEF Window!vars
  <2> QED BY <2>2, <2>3
<1>2. ASSUME NEW q \in Requests, FailOpen(q) \/ AnswerLost(q)
      PROVE  Window!Waste \/ UNCHANGED Window!vars
  <2>1. Pending' = Pending /\ admitted' = admitted
    BY <1>2, PendingSame DEF FailOpen, AnswerLost
  <2>2. \/ counter < MaxRequests /\ wasted' = wasted + 1
        \/ wasted' = wasted
    BY <1>2 DEF FailOpen, AnswerLost
  <2> QED BY <1>a, <2>1, <2>2 DEF Window!Waste, Window!vars
<1>3. ASSUME NEW q \in Requests, Expire(q) \/ ExpireFails(q) \/ NotFirst(q)
      PROVE  UNCHANGED Window!vars
  BY <1>3, PendingSame DEF Expire, ExpireFails, NotFirst, Window!vars
<1>4. ASSUME NEW q \in Requests, LetThrough(q) \/ Refuse(q) \/ Crash(q)
      PROVE  Window!Serve \/ Window!Spoil \/ UNCHANGED Window!vars
  <2>1. ~At(q, "idle") /\ Done(q)
    BY <1>4 DEF LetThrough, Refuse, Crash, At
  <2>2. CASE request[q].window /\ Within(q)
    <3>1. Cardinality(Pending') = n - 1
      BY <2>1, <2>2, PendingAfter
    <3>2. n > 0
      <4>1. q \in Pending
        BY <2>1, <2>2 DEF Pending
      <4> QED BY <4>1, FS_EmptySet
    <3>3. \/ admitted' = admitted + 1 /\ wasted' = wasted
          \/ wasted' = wasted + 1 /\ admitted' = admitted
      BY <1>4, <2>2 DEF LetThrough, Refuse, Crash
    <3> QED BY <3>1, <3>2, <3>3 DEF Window!Serve, Window!Spoil
  <2>3. CASE ~(request[q].window /\ Within(q))
    <3>1. Pending' = Pending
      BY <2>1, <2>3, PendingAfter
    <3>2. UNCHANGED <<admitted, wasted>>
      BY <1>4, <2>3 DEF LetThrough, Refuse, Crash
    <3> QED BY <3>1, <3>2 DEF Window!vars
  <2> QED BY <2>2, <2>3
<1>5. CASE WindowEnds
  <2>1. Pending' = {}
    BY <1>5 DEF WindowEnds, Pending
  <2>2. Window!Renew
    BY <1>5, <2>1, FS_EmptySet DEF WindowEnds, Window!Renew
  <2> QED BY <2>2 DEF Window!Next
<1>6. CASE UNCHANGED vars
  <2>1. Pending' = Pending
    BY <1>6 DEF vars, Pending, At, Within
  <2> QED BY <1>6, <2>1 DEF vars, Window!vars
<1> QED BY <1>1, <1>2, <1>3, <1>4, <1>5, <1>6, NextCases DEF Window!Next

-----------------------------------------------------------------------------
\* IInv is the inductive invariant of the rate limiter.
THEOREM Invariance == Spec => []IInv
<1>1. Init => IInv
  <2> SUFFICES ASSUME Init PROVE IInv
    OBVIOUS
  <2>1. TypeOK
    <3>1. request \in [Requests -> RequestRecord]
      BY IdleTyped DEF Init
    <3>2. ttl \in BOOLEAN /\ leaked \in BOOLEAN
      BY DEF Init
    <3> QED BY <3>1, <3>2 DEF Init, TypeOK, RequestRecord
  <2>2. Pending = {}
    BY DEF Init, Pending, At, Idle
  <2>3. PlacesAddUp
    BY <2>2, FS_EmptySet DEF Init, PlacesAddUp, Places
  <2>4. EndIsComing
    BY DEF Init, EndIsComing
  <2> QED BY <2>1, <2>3, <2>4 DEF IInv
<1>2. IInv /\ [Next]_vars => IInv'
  BY TypeStep, PlacesStep, EndStep DEF IInv
<1> QED BY <1>1, <1>2, PTL DEF Spec

\* The variables keep their types; the counter is never negative.
THEOREM TypeCorrect == Spec => []TypeOK
<1>1. IInv => TypeOK
  BY DEF IInv
<1> QED BY <1>1, Invariance, PTL

\* The places of a window are given out exactly (INCR, the comparison with the
\* limit, and every way in which a request can be lost between them).
THEOREM PlacesGivenOutExactly == Spec => []PlacesAddUp
<1>1. IInv => PlacesAddUp
  BY DEF IInv
<1> QED BY <1>1, Invariance, PTL

\* No window stays without an end, unless its EXPIRE was lost or never sent: the
\* safety behind WindowsEnd.
THEOREM EndsAreComing == Spec => []EndIsComing
<1>1. IInv => EndIsComing
  BY DEF IInv
<1> QED BY <1>1, Invariance, PTL
\* Nobody is turned away from a window that has places left, however many
\* processes count at the same time and whatever fails (RateLimit's comparison
\* of what INCR returned with the limit).
THEOREM RefusalsHaveCause == Spec => []RefusedForCause
<1>1. Init => CountsFit
  BY DEF Init, CountsFit, Idle
<1>2. IInv /\ CountsFit /\ [Next]_vars => CountsFit'
  BY CountsStep DEF IInv
<1>3. IInv /\ CountsFit => RefusedForCause
  BY RefusedFull DEF IInv
<1> QED BY <1>1, <1>2, <1>3, Invariance, PTL DEF Spec

\* The counter shared by all processes gives out the places of a window like a
\* limiter that is asked one request at a time (INCR, EXPIRE and what the
\* requests between them are told).
THEOREM LimiterKeepsWindow == Spec => KeepsWindow
<1>1. Init => Window!Init
  <2> SUFFICES ASSUME Init PROVE Window!Init
    OBVIOUS
  <2>1. Pending = {}
    BY DEF Init, Pending, At, Idle
  <2> QED BY <2>1, FS_EmptySet DEF Init, Window!Init
<1>2. IInv /\ [Next]_vars => [Window!Next]_Window!vars
  BY WindowStep DEF IInv
<1> QED BY <1>1, <1>2, Invariance, PTL DEF Spec, KeepsWindow, Window!Spec
=============================================================================
