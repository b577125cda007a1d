----------------------------- MODULE RateLimiter -----------------------------
(***************************************************************************)
(* The fixed-window rate limiter in front of the public commands.  Every   *)
(* request INCRs a counter in Redis; the one that finds 1 sets its TTL,    *)
(* with a second command.  The counter, shared by all api-write processes, *)
(* is that of one key (a path and a client): keys do not touch each other. *)
(***************************************************************************)
EXTENDS Naturals, FiniteSets

CONSTANTS Requests,     \* requests being served, by whichever process
          MaxRequests,  \* requests admitted per window (5 in the code)
          MaxCount,     \* bound on the counter
          MaxFaults     \* bound on failed Redis commands and crashes

ASSUME RateLimiterAssumption ==
    /\ IsFiniteSet(Requests)
    /\ MaxRequests \in Nat \ {0}
    /\ MaxCount \in Nat
    /\ MaxFaults \in Nat

VARIABLES
    counter,   \* the key's value; 0 = the key does not exist
    ttl,       \* the key has a TTL
    request,   \* request -> [pc, count, window]: what INCR returned, and
               \* whether the key has lived on since
    admitted,  \* history: requests of the present window let through
    wasted,    \* history: places of the present window counted for a request
               \* that died, or never learnt of it
    leaked,    \* history: an EXPIRE was lost, or never sent
    faults

vars == <<counter, ttl, request, admitted, wasted, leaked, faults>>

Idle == [pc |-> "idle", count |-> 0, window |-> FALSE]

TypeOK ==
    /\ counter \in 0..MaxCount
    /\ ttl \in BOOLEAN
    /\ request \in [Requests -> [pc : {"idle", "counted", "limited"},
                                 count : 0..MaxCount, window : BOOLEAN]]
    /\ admitted \in Nat /\ wasted \in Nat
    /\ leaked \in BOOLEAN
    /\ faults \in 0..MaxFaults

Init ==
    /\ counter = 0 /\ ttl = FALSE
    /\ request = [q \in Requests |-> Idle]
    /\ admitted = 0 /\ wasted = 0
    /\ leaked = FALSE
    /\ faults = 0

At(q, pc) == request[q].pc = pc
Goto(q, pc) == request' = [request EXCEPT ![q].pc = pc]
Done(q) == request' = [request EXCEPT ![q] = Idle]
Fault == faults < MaxFaults /\ faults' = faults + 1

\* Mutated form: the middleware is mounted twice.
IncrTwice(q) ==
    /\ At(q, "idle")
    /\ counter < MaxCount
    /\ counter' = counter + 2
    /\ request' = [request EXCEPT ![q] =
           [pc |-> "counted", count |-> counter + 2, window |-> TRUE]]
    /\ UNCHANGED <<ttl, admitted, wasted, leaked, faults>>

\* INCR creates the key, without a TTL, or counts one more.
Incr(q) ==
    /\ At(q, "idle")
    /\ counter < MaxCount
    /\ counter' = counter + 1
    /\ request' = [request EXCEPT ![q] =
           [pc |-> "counted", count |-> counter + 1, window |-> TRUE]]
    /\ UNCHANGED <<ttl, admitted, wasted, leaked, faults>>

\* INCR is not executed: the request is served, uncounted.
FailOpen(q) ==
    /\ At(q, "idle")
    /\ Fault
    /\ UNCHANGED <<counter, ttl, request, admitted, wasted, leaked>>

\* INCR is executed but its answer is lost: the request is served, or INCR is
\* sent again by the client library (a step Incr of its own).
AnswerLost(q) ==
    /\ At(q, "idle")
    /\ counter < MaxCount
    /\ counter' = counter + 1
    /\ wasted' = wasted + (IF counter < MaxRequests THEN 1 ELSE 0)
    /\ leaked' = (leaked \/ counter = 0)
    /\ Fault
    /\ UNCHANGED <<ttl, request, admitted>>

\* Mutated form: the first request of a window is taken to find 0.
FirstFindsZero(q) == request[q].count = 0
First(q) == request[q].count = 1

\* EXPIRE, which does nothing to a key that does not exist.
Expire(q) ==
    /\ At(q, "counted")
    /\ First(q)
    /\ ttl' = (counter > 0)
    /\ Goto(q, "limited")
    /\ UNCHANGED <<counter, admitted, wasted, leaked, faults>>

\* The result of EXPIRE is not looked at.
ExpireFails(q) ==
    /\ At(q, "counted")
    /\ First(q)
    /\ leaked' = TRUE
    /\ Goto(q, "limited")
    /\ Fault
    /\ UNCHANGED <<counter, ttl, admitted, wasted>>

NotFirst(q) ==
    /\ At(q, "counted")
    /\ ~First(q)
    /\ Goto(q, "limited")
    /\ UNCHANGED <<counter, ttl, admitted, wasted, leaked, faults>>

\* Mutated form: the request that reaches the limit is refused too.
WithinShort(q) == request[q].count < MaxRequests
Within(q) == request[q].count <= MaxRequests

\* The next handler is called.
LetThrough(q) ==
    /\ At(q, "limited")
    /\ Within(q)
    /\ admitted' = admitted + (IF request[q].window THEN 1 ELSE 0)
    /\ Done(q)
    /\ UNCHANGED <<counter, ttl, wasted, leaked, faults>>

\* 429.
Refuse(q) ==
    /\ At(q, "limited")
    /\ ~Within(q)
    /\ Done(q)
    /\ UNCHANGED <<counter, ttl, admitted, wasted, leaked, faults>>

\* The TTL has passed.
WindowEnds ==
    /\ ttl
    /\ counter' = 0 /\ ttl' = FALSE
    /\ request' = [q \in Requests |-> [request[q] EXCEPT !.window = FALSE]]
    /\ admitted' = 0 /\ wasted' = 0
    /\ UNCHANGED <<leaked, faults>>

\* The process of a request dies.
Crash(q) ==
    /\ ~At(q, "idle")
    /\ wasted' = wasted + (IF request[q].window /\ Within(q) THEN 1 ELSE 0)
    /\ leaked' = (leaked \/ (At(q, "counted") /\ First(q)))
    /\ Done(q)
    /\ Fault
    /\ UNCHANGED <<counter, ttl, admitted>>

-----------------------------------------------------------------------------
Proceed(q) == Expire(q) \/ ExpireFails(q) \/ NotFirst(q) \/ LetThrough(q) \/ Refuse(q)

Next ==
    \/ \E q \in Requests : Incr(q) \/ FailOpen(q) \/ AnswerLost(q) \/ Proceed(q) \/ Crash(q)
    \/ WindowEnds

Spec == Init /\ [][Next]_vars

\* Requests under way go on, and Redis removes what has outlived its TTL.
Fairness == WF_vars(WindowEnds) /\ \A q \in Requests : WF_vars(Proceed(q))
FairSpec == Spec /\ Fairness

-----------------------------------------------------------------------------
\* The places of a window are given out exactly: as many requests as have been
\* counted, up to the limit, were let through, will be, or lost their place by a
\* fault.  So the counter lets no more than the limit into a window and refuses
\* nobody before that, however requests, processes and windows interleave.
Pending == {q \in Requests : ~At(q, "idle") /\ request[q].window /\ Within(q)}
Places == IF counter < MaxRequests THEN counter ELSE MaxRequests
PlacesAddUp == admitted + wasted + Cardinality(Pending) = Places

\* Nobody is refused before the window is full: when the limiter turns a request
\* of the present window away, all its places are taken.
RefusedForCause ==
    \A q \in Requests :
        At(q, "limited") /\ request[q].window /\ ~Within(q)
            => admitted + wasted + Cardinality(Pending) = MaxRequests

\* The counter in Redis, and the requests that act on what INCR told them, give
\* out places like a limiter that is asked one request at a time.
Window == INSTANCE FixedWindow
    WITH Limit <- MaxRequests, served <- admitted,
         pledged <- Cardinality(Pending), spoilt <- wasted
KeepsWindow == Window!Spec

\* A window without an end is about to get one, unless the EXPIRE was lost: a
\* request that found 1 is on its way to set the TTL.
EndIsComing ==
    (counter > 0 /\ ~ttl /\ ~leaked) =>
        \E q \in Requests : At(q, "counted") /\ request[q].window /\ First(q)

\* Every window ends, unless the EXPIRE was lost.
WindowsEnd == counter > 0 ~> counter = 0 \/ leaked
=============================================================================
