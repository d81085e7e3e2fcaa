------------------------------ MODULE Breaker ------------------------------
(***************************************************************************)
(* The circuit breaker around calls of other services.  A mutex makes each *)
(* of beforeRequest and afterRequest one step; the protected request runs  *)
(* in between, so that its result may come back to a breaker that has      *)
(* changed state since.  The totals, which nothing but a caller's own      *)
(* readyToTrip reads, are left out.                                        *)
(***************************************************************************)
EXTENDS Handlers

CONSTANTS
    MaxRequests,    \* the requests a half-open breaker lets through
    TripAfter,      \* the breaker trips on more consecutive failures than this
    Interval,       \* the length of a closed generation, 0 for no end
    Timeout,        \* the time a breaker stays open
    MaxTicks        \* bound: the times that are looked at

ASSUME BreakerAssumption ==
    /\ MaxRequests \in Nat \ {0} /\ TripAfter \in Nat
    /\ Interval \in Nat /\ Timeout \in Nat /\ MaxTicks \in Nat
    /\ None \notin Nat

VARIABLES
    cb,         \* the breaker
    ticks       \* the time

breakerVars == <<cb, ticks>>

(* toNewGeneration: the counts start again; the state decides the expiry. *)
ToNewGeneration(state, generation, t) ==
    [state |-> state, generation |-> generation,
     requests |-> 0, successes |-> 0, failures |-> 0,
     expiry |-> IF state = "closed" /\ Interval # 0 THEN t + Interval
                ELSE IF state = "open" THEN t + Timeout
                ELSE None]

SetState(b, state, t) ==
    IF b.state = state THEN b ELSE ToNewGeneration(state, b.generation + 1, t)

Expired(b, t) == b.expiry # None /\ b.expiry < t

(* A closed generation ends and another begins, an open breaker half opens. *)
CurrentState(b, t) ==
    IF b.state = "closed" /\ Expired(b, t) THEN ToNewGeneration("closed", b.generation + 1, t)
    ELSE IF b.state = "open" /\ Expired(b, t) THEN SetState(b, "half-open", t)
    ELSE b

ReadyToTrip(b) == b.failures > TripAfter

OnSuccess(b, t) ==
    LET counted == [b EXCEPT !.successes = @ + 1, !.failures = 0] IN
    IF b.state = "half-open" /\ counted.successes >= MaxRequests
    THEN SetState(counted, "closed", t)
    ELSE counted

OnFailure(b, t) ==
    LET counted == [b EXCEPT !.failures = @ + 1, !.successes = 0] IN
    IF b.state = "half-open" \/ ReadyToTrip(counted) THEN SetState(counted, "open", t)
    ELSE counted

BreakerInit ==
    /\ cb = ToNewGeneration("closed", 1, 0)
    /\ ticks = 0

Admits(b) == b.state = "closed" \/ (b.state = "half-open" /\ b.requests < MaxRequests)

(* The request runs under the generation it was admitted in. *)
BeforeRequest(c) ==
    /\ Begins(c, "execute")
    /\ LET b == CurrentState(cb, ticks) IN
       IF Admits(b)
       THEN /\ cb' = [b EXCEPT !.requests = @ + 1]
            /\ Hold(c, b.generation) /\ Goto(c, "run")
       ELSE cb' = b /\ Refuse(c)
    /\ UNCHANGED ticks

(* Slip: a result is counted in whatever generation it comes back. *)
SettledInAny(b, generation, success) ==
    IF success THEN OnSuccess(b, ticks) ELSE OnFailure(b, ticks)

(* A result of an earlier generation is dropped. *)
Settled(b, generation, success) ==
    IF b.generation # generation THEN b
    ELSE IF success THEN OnSuccess(b, ticks) ELSE OnFailure(b, ticks)

(* Execute, once the request has returned or panicked. *)
AfterRequest(c, success) ==
    /\ Serving(c, "execute", "run")
    /\ cb' = Settled(CurrentState(cb, ticks), held[c], success)
    /\ Answer(c, IF success THEN "ok" ELSE "failed")
    /\ UNCHANGED <<held, ticks>>

Tick ==
    /\ ticks < MaxTicks
    /\ ticks' = ticks + 1
    /\ UNCHANGED <<cb, callVars>>

BreakerOps == {"execute"}

BreakerNext ==
    \/ \E c \in Calls :
         \/ ask[c].op \in BreakerOps /\ Malformed(c) /\ UNCHANGED breakerVars
         \/ BeforeRequest(c)
         \/ \E success \in BOOLEAN : AfterRequest(c, success)
    \/ Tick

-----------------------------------------------------------------------------
(* The requests of generation g that have come back with this answer, and  *)
(* those under way.                                                        *)
Answered(g, r) == {c \in Calls : ask[c].op = "execute" /\ held[c] = g /\ reply[c] = r}
UnderWay(g) == {c \in Calls : Serving(c, "execute", "run") /\ held[c] = g}

(* While the breaker is open, no request of this generation runs; while it *)
(* is half open, no more than MaxRequests have been let through, and none  *)
(* of them has failed: stale results neither open nor close it             *)
(* (beforeRequest, afterRequest).                                          *)
BreakerHolds ==
    LET g == cb.generation IN
    /\ cb.state = "open" => UnderWay(g) = {}
    /\ cb.state = "half-open" =>
         /\ Cardinality(UnderWay(g) \cup Answered(g, "ok")) <= MaxRequests
         /\ Answered(g, "failed") = {}
         /\ cb.successes = Cardinality(Answered(g, "ok"))
=============================================================================
