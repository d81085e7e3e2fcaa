--------------------------- MODULE ToolkitProofs ---------------------------
(***************************************************************************)
(* The libraries under pkg hold what they promise, for every number of     *)
(* calls and every value of their limits: the circuit breaker, retries and *)
(* their dead letters, the webhook queue, the rate limiter, the audit log  *)
(* and its export, the secrets manager.  Each is proved on its own, with   *)
(* requests of its own: they share no state.                               *)
(***************************************************************************)
EXTENDS Breaker, Retry, DeadLetters, RateLimiter, AuditTrail, Secrets, FiniteSetTheorems, TLAPS

-----------------------------------------------------------------------------
(* Circuit breaker *)

BreakerRequests == [op : BreakerOps, bad : BOOLEAN]

breakerAllVars == <<breakerVars, callVars>>

(* The breaker alone, with any requests. *)
BreakerSpec ==
    /\ CallsInit([Calls -> BreakerRequests]) /\ BreakerInit
    /\ [][BreakerNext]_breakerAllVars

-----------------------------------------------------------------------------
Breakers ==
    [state : {"closed", "open", "half-open"}, generation : Nat, requests : Nat,
     successes : Nat, failures : Nat, expiry : Nat \cup {None}]

(* The type of every variable. *)
BreakerTypeOK ==
    /\ cb \in Breakers
    /\ ticks \in Nat
    /\ ask \in [Calls -> BreakerRequests]
    /\ at \in [Calls -> {"start", "run", "done"}]
    /\ held \in [Calls -> Nat \cup {None}]
    /\ reply \in [Calls -> {"none", "ok", "failed", "refused"}]

(* What a handler holds and has answered agrees with where it is. *)
PlacesAgree ==
    \A c \in Calls :
        /\ at[c] = "start" => held[c] = None /\ reply[c] = "none"
        /\ at[c] = "run" => held[c] # None /\ reply[c] = "none"
        /\ at[c] = "done" => reply[c] # "none" /\ (reply[c] = "refused" <=> held[c] = None)

AdmittedIn(g) == {c \in Calls : held[c] = g}
SucceededIn(g) == {c \in Calls : held[c] = g /\ reply[c] = "ok"}

(* The counts of a breaker agree with the requests of its generation. *)
Counts(b) ==
    /\ \A c \in Calls : held[c] # None => held[c] <= b.generation
    /\ b.state = "open" => \A c \in Calls : held[c] # b.generation
    /\ b.state = "half-open" =>
         /\ b.requests = Cardinality(AdmittedIn(b.generation))
         /\ b.requests <= MaxRequests
         /\ b.successes = Cardinality(SucceededIn(b.generation))
         /\ \A c \in Calls : held[c] = b.generation => reply[c] # "failed"

BreakerInv == BreakerTypeOK /\ PlacesAgree /\ Counts(cb)

-----------------------------------------------------------------------------
(* A new generation has no requests yet, so its counts are right. *)
LEMMA FreshCounts ==
    ASSUME NEW state \in {"closed", "open", "half-open"}, NEW g \in Nat, NEW t \in Nat,
           BreakerTypeOK, \A c \in Calls : held[c] # None => held[c] < g
    PROVE  /\ ToNewGeneration(state, g, t) \in Breakers
           /\ Counts(ToNewGeneration(state, g, t))
<1> DEFINE b == ToNewGeneration(state, g, t)
<1>1. b \in Breakers
  BY BreakerAssumption DEF Breakers, ToNewGeneration
<1>2. b.generation = g /\ b.requests = 0 /\ b.successes = 0
  BY DEF ToNewGeneration
<1>3. \A c \in Calls : held[c] # g
  BY BreakerAssumption DEF BreakerTypeOK
<1>4. AdmittedIn(g) = {} /\ SucceededIn(g) = {}
  BY <1>3 DEF AdmittedIn, SucceededIn
<1>5. Cardinality(AdmittedIn(g)) = 0 /\ Cardinality(SucceededIn(g)) = 0
  BY <1>4, FS_EmptySet
<1>6. Counts(b)
  <2>1. \A c \in Calls : held[c] # None => held[c] <= g
    BY DEF BreakerTypeOK
  <2> QED BY <2>1, <1>2, <1>3, <1>5, BreakerAssumption DEF Counts
<1> QED BY <1>1, <1>6

(* onSuccess counts within the types of a breaker, *)
LEMMA CountedSuccess ==
    ASSUME NEW b \in Breakers
    PROVE  [b EXCEPT !.successes = @ + 1, !.failures = 0] \in Breakers
<1>1. [b EXCEPT !.successes = @ + 1] \in Breakers
  BY DEF Breakers
<1>2. PICK f \in Breakers : f = [b EXCEPT !.successes = @ + 1]
  BY <1>1
<1>3. [f EXCEPT !.failures = 0] \in Breakers
  BY DEF Breakers
<1>4. [b EXCEPT !.successes = @ + 1, !.failures = 0] = [f EXCEPT !.failures = 0]
  BY <1>2
<1> QED BY <1>3, <1>4

(* and so does onFailure. *)
LEMMA CountedFailure ==
    ASSUME NEW b \in Breakers
    PROVE  [b EXCEPT !.failures = @ + 1, !.successes = 0] \in Breakers
<1>1. [b EXCEPT !.failures = @ + 1] \in Breakers
  BY DEF Breakers
<1>2. PICK f \in Breakers : f = [b EXCEPT !.failures = @ + 1]
  BY <1>1
<1>3. [f EXCEPT !.successes = 0] \in Breakers
  BY DEF Breakers
<1>4. [b EXCEPT !.failures = @ + 1, !.successes = 0] = [f EXCEPT !.successes = 0]
  BY <1>2
<1> QED BY <1>3, <1>4

(* currentState: the breaker it returns counts right, too. *)
LEMMA CurrentCounts ==
    ASSUME BreakerInv
    PROVE  CurrentState(cb, ticks) \in Breakers /\ Counts(CurrentState(cb, ticks))
<1>1. cb \in Breakers /\ ticks \in Nat /\ cb.generation \in Nat /\ cb.generation + 1 \in Nat
  BY DEF BreakerInv, BreakerTypeOK, Breakers
<1>2. \A c \in Calls : held[c] # None => held[c] < cb.generation + 1
  BY <1>1 DEF BreakerInv, BreakerTypeOK, Counts
<1>3. /\ ToNewGeneration("closed", cb.generation + 1, ticks) \in Breakers
      /\ Counts(ToNewGeneration("closed", cb.generation + 1, ticks))
      /\ ToNewGeneration("half-open", cb.generation + 1, ticks) \in Breakers
      /\ Counts(ToNewGeneration("half-open", cb.generation + 1, ticks))
  BY <1>1, <1>2, FreshCounts DEF BreakerInv
<1> QED BY <1>1, <1>3 DEF CurrentState, SetState, BreakerInv

(* The invariant says what BreakerHolds says. *)
LEMMA InvImpliesHolds ==
    BreakerInv => BreakerHolds
<1> SUFFICES ASSUME BreakerInv PROVE BreakerHolds
  OBVIOUS
<1> DEFINE g == cb.generation
<1>1. g \in Nat /\ g # None
  BY BreakerAssumption DEF BreakerInv, BreakerTypeOK, Breakers
<1>2. \A c \in Calls : ask[c].op = "execute"
  BY DEF BreakerInv, BreakerTypeOK, BreakerRequests, BreakerOps
<1>3. Answered(g, "ok") = SucceededIn(g)
  BY <1>2 DEF Answered, SucceededIn
<1>4. CASE cb.state = "open"
  BY <1>1, <1>4 DEF BreakerInv, Counts, BreakerHolds, UnderWay
<1>5. CASE cb.state = "half-open"
  <2>1. Answered(g, "failed") = {}
    BY <1>5 DEF BreakerInv, Counts, Answered
  <2>2. \A c \in Calls : held[c] = g =>
           (at[c] = "run" \/ reply[c] = "ok")
    BY <1>1, <1>5 DEF BreakerInv, BreakerTypeOK, PlacesAgree, Counts
  <2>3. UnderWay(g) \cup Answered(g, "ok") = AdmittedIn(g)
    BY <1>2, <2>2 DEF UnderWay, Answered, AdmittedIn, Serving
  <2> QED BY <1>3, <1>5, <2>1, <2>3 DEF BreakerInv, Counts, BreakerHolds
<1> QED BY <1>4, <1>5 DEF BreakerHolds

-----------------------------------------------------------------------------
(* The invariant holds at the start. *)
LEMMA BreakerStarts ==
    CallsInit([Calls -> BreakerRequests]) /\ BreakerInit => BreakerInv
<1> SUFFICES ASSUME CallsInit([Calls -> BreakerRequests]), BreakerInit PROVE BreakerInv
  OBVIOUS
<1>1. /\ ask \in [Calls -> BreakerRequests] /\ at = [c \in Calls |-> "start"]
      /\ held = [c \in Calls |-> None] /\ reply = [c \in Calls |-> "none"]
  BY DEF CallsInit
<1>2. cb = ToNewGeneration("closed", 1, 0) /\ ticks = 0
  BY DEF BreakerInit
<1>3. cb \in Breakers
  BY <1>2, BreakerAssumption DEF Breakers, ToNewGeneration
<1>4. BreakerTypeOK /\ PlacesAgree
  BY <1>1, <1>2, <1>3 DEF BreakerTypeOK, PlacesAgree
<1>5. Counts(cb)
  BY <1>1, <1>2 DEF Counts, ToNewGeneration
<1> QED BY <1>4, <1>5 DEF BreakerInv

(* beforeRequest keeps the invariant: a half-open breaker counts the       *)
(* request it admits.                                                      *)
LEMMA BeforeKeeps ==
    ASSUME BreakerInv, NEW c \in Calls, BeforeRequest(c)
    PROVE  BreakerInv'
<1>0. PICK b \in Breakers : b = CurrentState(cb, ticks) /\ Counts(b)
  BY CurrentCounts
<1> DEFINE g == b.generation
<1>1. b \in Breakers /\ Counts(b)
  BY <1>0
<1>2. at[c] = "start" /\ held[c] = None /\ reply[c] = "none" /\ ticks' = ticks
  BY DEF BeforeRequest, Begins, Serving, BreakerInv, PlacesAgree
<1>3. CASE ~Admits(b)
  <2>1. cb' = b /\ held' = held /\ ask' = ask
    BY <1>0, <1>3 DEF BeforeRequest, Refuse, Answer
  <2>2. at' = [at EXCEPT ![c] = "done"] /\ reply' = [reply EXCEPT ![c] = "refused"]
    BY <1>0, <1>3 DEF BeforeRequest, Refuse, Answer
  <2>3. BreakerTypeOK' /\ PlacesAgree'
    BY <1>1, <1>2, <2>1, <2>2 DEF BreakerInv, BreakerTypeOK, PlacesAgree
  <2>4. AdmittedIn(g)' = AdmittedIn(g) /\ SucceededIn(g)' = SucceededIn(g)
    BY <1>1, <1>2, <2>1, <2>2, BreakerAssumption
       DEF AdmittedIn, SucceededIn, Breakers, BreakerInv, BreakerTypeOK
  <2>5. Counts(b)'
    BY <1>1, <1>2, <2>1, <2>2, <2>4 DEF Counts, BreakerInv, BreakerTypeOK
  <2> QED BY <2>1, <2>3, <2>5 DEF BreakerInv
<1>4. CASE Admits(b)
  <2>1. /\ cb' = [b EXCEPT !.requests = @ + 1]
        /\ held' = [held EXCEPT ![c] = g]
        /\ at' = [at EXCEPT ![c] = "run"] /\ ask' = ask /\ reply' = reply
    BY <1>0, <1>4 DEF BeforeRequest, Goto, Hold
  <2>2. g \in Nat /\ g # None
    BY <1>1, BreakerAssumption DEF Breakers
  <2>3. cb' \in Breakers /\ cb'.generation = g /\ cb'.state = b.state /\ cb'.successes = b.successes
    BY <1>1, <2>1 DEF Breakers
  <2>4. BreakerTypeOK' /\ PlacesAgree'
    BY <1>2, <2>1, <2>2, <2>3 DEF BreakerInv, BreakerTypeOK, PlacesAgree
  <2>5. b.state # "open"
    BY <1>4 DEF Admits
  <2>6. \A d \in Calls : held'[d] # None => held'[d] <= g
    BY <1>1, <2>1, <2>2 DEF Counts, BreakerInv, BreakerTypeOK
  <2>7. ASSUME b.state = "half-open"
        PROVE  /\ cb'.requests = Cardinality(AdmittedIn(g)')
               /\ cb'.requests <= MaxRequests
               /\ cb'.successes = Cardinality(SucceededIn(g)')
               /\ \A d \in Calls : held'[d] = g => reply'[d] # "failed"
    <3>1. AdmittedIn(g)' = AdmittedIn(g) \cup {c} /\ c \notin AdmittedIn(g)
      BY <1>2, <2>1, <2>2 DEF AdmittedIn, BreakerInv, BreakerTypeOK
    <3>2. SucceededIn(g)' = SucceededIn(g)
      BY <1>2, <2>1 DEF SucceededIn, BreakerInv, BreakerTypeOK
    <3>3. IsFiniteSet(AdmittedIn(g))
      BY CallsAssumption, FS_Subset DEF AdmittedIn
    <3>4. Cardinality(AdmittedIn(g)') = Cardinality(AdmittedIn(g)) + 1
      BY <3>1, <3>3, FS_AddElement
    <3>5. b.requests \in Nat /\ cb'.requests = b.requests + 1 /\ b.requests < MaxRequests
      BY <1>1, <1>4, <2>1, <2>7 DEF Breakers, Admits
    <3>6. /\ b.requests = Cardinality(AdmittedIn(g))
          /\ b.successes = Cardinality(SucceededIn(g))
          /\ \A d \in Calls : held[d] = g => reply[d] # "failed"
      BY <1>1, <2>7 DEF Counts
    <3>7. \A d \in Calls : held'[d] = g => reply'[d] # "failed"
      BY <1>2, <2>1, <3>6 DEF BreakerInv, BreakerTypeOK
    <3> QED BY <2>3, <3>2, <3>4, <3>5, <3>6, <3>7, BreakerAssumption
  <2> HIDE DEF g
  <2>8. Counts(cb)'
    BY <2>3, <2>5, <2>6, <2>7 DEF Counts
  <2> QED BY <2>4, <2>8 DEF BreakerInv
<1> QED BY <1>3, <1>4

(* afterRequest keeps it: a result of an earlier generation changes no     *)
(* count, one of this generation is counted or begins another.             *)
LEMMA AfterKeeps ==
    ASSUME BreakerInv, NEW c \in Calls, NEW success \in BOOLEAN, AfterRequest(c, success)
    PROVE  BreakerInv'
<1>0. PICK b \in Breakers : b = CurrentState(cb, ticks) /\ Counts(b)
  BY CurrentCounts
<1> DEFINE g == b.generation
           r == IF success THEN "ok" ELSE "failed"
<1>1. b \in Breakers /\ Counts(b)
  BY <1>0
<1>2. at[c] = "run" /\ held[c] # None /\ reply[c] = "none"
  BY DEF AfterRequest, Serving, BreakerInv, PlacesAgree
<1>3. /\ cb' = Settled(b, held[c], success) /\ held' = held /\ ask' = ask /\ ticks' = ticks
      /\ at' = [at EXCEPT ![c] = "done"] /\ reply' = [reply EXCEPT ![c] = r]
  BY <1>0 DEF AfterRequest, Answer
<1>4. PlacesAgree'
  BY <1>2, <1>3 DEF BreakerInv, BreakerTypeOK, PlacesAgree
<1>5. ASSUME cb' \in Breakers PROVE BreakerTypeOK'
  BY <1>3, <1>5 DEF BreakerInv, BreakerTypeOK
<1>6. g \in Nat /\ b.state \in {"closed", "open", "half-open"} /\ ticks \in Nat
  BY <1>1 DEF Breakers, BreakerInv, BreakerTypeOK
<1>7. \A d \in Calls : held'[d] # None => held'[d] \in Nat /\ held'[d] < g + 1
  BY <1>1, <1>3, <1>6 DEF Counts, BreakerInv, BreakerTypeOK
<1>8. ASSUME BreakerTypeOK', NEW state \in {"closed", "open", "half-open"},
             cb' = ToNewGeneration(state, g + 1, ticks)
      PROVE  BreakerInv'
  <2>1. g + 1 \in Nat
    BY <1>6
  <2>2. Counts(cb)'
    <3>1. cb'.generation = g + 1 /\ cb'.state = state /\ cb'.requests = 0 /\ cb'.successes = 0
      BY <1>8 DEF ToNewGeneration
    <3>2. \A d \in Calls : held'[d] # g + 1
      BY <1>7, <2>1, BreakerAssumption
    <3>3. AdmittedIn(g + 1)' = {} /\ SucceededIn(g + 1)' = {}
      BY <3>2 DEF AdmittedIn, SucceededIn
    <3>4. Cardinality(AdmittedIn(g + 1)') = 0 /\ Cardinality(SucceededIn(g + 1)') = 0
      BY <3>3, FS_EmptySet
    <3>5. \A d \in Calls : held'[d] # None => held'[d] <= g + 1
      BY <1>6, <1>7
    <3> HIDE DEF g
    <3> QED BY <3>1, <3>2, <3>4, <3>5, BreakerAssumption DEF Counts
  <2> QED BY <1>4, <1>8, <2>2 DEF BreakerInv
<1>9. CASE g # held[c]
  <2>1. cb' = b
    BY <1>3, <1>9 DEF Settled
  <2>2. AdmittedIn(g)' = AdmittedIn(g) /\ SucceededIn(g)' = SucceededIn(g)
    BY <1>3, <1>9 DEF AdmittedIn, SucceededIn, BreakerInv, BreakerTypeOK
  <2>3. \A d \in Calls : held'[d] = g => reply'[d] = reply[d]
    BY <1>3, <1>9 DEF BreakerInv, BreakerTypeOK
  <2>4. Counts(b)'
    BY <1>1, <1>3, <2>2, <2>3 DEF Counts
  <2> QED BY <1>1, <1>4, <1>5, <2>1, <2>4 DEF BreakerInv
<1>10. CASE g = held[c] /\ success
  <2> DEFINE counted == [b EXCEPT !.successes = @ + 1, !.failures = 0]
  <2>1. /\ counted \in Breakers /\ counted.generation = g /\ counted.state = b.state
        /\ counted.requests = b.requests /\ counted.successes = b.successes + 1
    BY <1>1, CountedSuccess DEF Breakers
  <2>2. b.state # "open"
    BY <1>1, <1>10 DEF Counts
  <2>3. CASE b.state = "half-open" /\ counted.successes >= MaxRequests
    <3>1. cb' = ToNewGeneration("closed", g + 1, ticks)
      BY <1>3, <1>10, <2>1, <2>3 DEF Settled, OnSuccess, SetState
    <3>2. cb' \in Breakers
      BY <1>6, <3>1, BreakerAssumption DEF ToNewGeneration, Breakers
    <3> QED BY <1>5, <1>8, <3>1, <3>2
  <2>4. CASE ~(b.state = "half-open" /\ counted.successes >= MaxRequests)
    <3>1. cb' = counted
      BY <1>3, <1>10, <2>4 DEF Settled, OnSuccess
    <3>2. AdmittedIn(g)' = AdmittedIn(g)
      BY <1>3 DEF AdmittedIn
    <3>3. SucceededIn(g)' = SucceededIn(g) \cup {c} /\ c \notin SucceededIn(g)
      BY <1>2, <1>3, <1>10 DEF SucceededIn, BreakerInv, BreakerTypeOK
    <3>4. IsFiniteSet(SucceededIn(g))
      BY CallsAssumption, FS_Subset DEF SucceededIn
    <3>5. Cardinality(SucceededIn(g)') = Cardinality(SucceededIn(g)) + 1
      BY <3>3, <3>4, FS_AddElement
    <3>6. ASSUME b.state = "half-open"
          PROVE  \A d \in Calls : held'[d] = g => reply'[d] # "failed"
      BY <1>1, <1>3, <1>10, <3>6 DEF Counts, BreakerInv, BreakerTypeOK
    <3>7. \A d \in Calls : held'[d] # None => held'[d] <= g
      BY <1>1, <1>3 DEF Counts
    <3>8. b.state = "half-open" =>
            /\ b.requests = Cardinality(AdmittedIn(g)) /\ b.requests <= MaxRequests
            /\ b.successes = Cardinality(SucceededIn(g))
      BY <1>1 DEF Counts
    <3> HIDE DEF g, counted
    <3>9. Counts(cb)'
      BY <2>1, <2>2, <3>1, <3>2, <3>5, <3>6, <3>7, <3>8 DEF Counts
    <3> QED BY <1>4, <1>5, <2>1, <3>1, <3>9 DEF BreakerInv
  <2> QED BY <2>3, <2>4
<1>11. CASE g = held[c] /\ ~success
  <2> DEFINE counted == [b EXCEPT !.failures = @ + 1, !.successes = 0]
  <2>1. counted \in Breakers /\ counted.generation = g /\ counted.state = b.state
    BY <1>1, CountedFailure DEF Breakers
  <2>2. b.state # "open"
    BY <1>1, <1>11 DEF Counts
  <2>3. CASE b.state = "half-open" \/ ReadyToTrip(counted)
    <3>1. cb' = ToNewGeneration("open", g + 1, ticks)
      BY <1>3, <1>11, <2>1, <2>2, <2>3 DEF Settled, OnFailure, SetState
    <3>2. cb' \in Breakers
      BY <1>6, <3>1, BreakerAssumption DEF ToNewGeneration, Breakers
    <3> QED BY <1>5, <1>8, <3>1, <3>2
  <2>4. CASE ~(b.state = "half-open" \/ ReadyToTrip(counted))
    <3>1. cb' = counted
      BY <1>3, <1>11, <2>4 DEF Settled, OnFailure
    <3>2. \A d \in Calls : held'[d] # None => held'[d] <= g
      BY <1>1, <1>3 DEF Counts
    <3>3. counted.state = "closed"
      BY <1>6, <2>1, <2>2, <2>4
    <3> HIDE DEF g, counted
    <3>4. Counts(cb)'
      BY <2>1, <3>1, <3>2, <3>3 DEF Counts
    <3> QED BY <1>4, <1>5, <2>1, <3>1, <3>4 DEF BreakerInv
  <2> QED BY <2>3, <2>4
<1> QED BY <1>9, <1>10, <1>11

(* Every step of the breaker, of its callers and of time keeps it. *)
LEMMA BreakerStep ==
    BreakerInv /\ [BreakerNext]_breakerAllVars => BreakerInv'
<1> SUFFICES ASSUME BreakerInv, [BreakerNext]_breakerAllVars PROVE BreakerInv'
  OBVIOUS
<1>1. CASE UNCHANGED breakerAllVars
  BY <1>1 DEF breakerAllVars, breakerVars, callVars, BreakerInv, BreakerTypeOK, PlacesAgree,
              Counts, AdmittedIn, SucceededIn
<1>2. ASSUME NEW c \in Calls, Malformed(c), UNCHANGED breakerVars PROVE BreakerInv'
  <2>1. /\ at[c] = "start" /\ held[c] = None /\ cb' = cb /\ ticks' = ticks
        /\ held' = held /\ ask' = ask
        /\ at' = [at EXCEPT ![c] = "done"] /\ reply' = [reply EXCEPT ![c] = "refused"]
    BY <1>2 DEF Malformed, Refuse, Answer, breakerVars, BreakerInv, PlacesAgree
  <2>2. BreakerTypeOK' /\ PlacesAgree'
    BY <2>1 DEF BreakerInv, BreakerTypeOK, PlacesAgree
  <2>3. cb.generation # None
    BY BreakerAssumption DEF BreakerInv, BreakerTypeOK, Breakers
  <2>4. AdmittedIn(cb.generation)' = AdmittedIn(cb.generation)
        /\ SucceededIn(cb.generation)' = SucceededIn(cb.generation)
    BY <2>1, <2>3 DEF AdmittedIn, SucceededIn, BreakerInv, BreakerTypeOK
  <2>5. Counts(cb)'
    BY <2>1, <2>4 DEF Counts, BreakerInv, BreakerTypeOK
  <2> QED BY <2>2, <2>5 DEF BreakerInv
<1>3. CASE Tick
  BY <1>3 DEF Tick, callVars, BreakerInv, BreakerTypeOK, PlacesAgree, Counts,
              AdmittedIn, SucceededIn
<1>4. CASE \E c \in Calls : BeforeRequest(c)
  BY <1>4, BeforeKeeps
<1>5. CASE \E c \in Calls : \E success \in BOOLEAN : AfterRequest(c, success)
  BY <1>5, AfterKeeps
<1> QED BY <1>1, <1>2, <1>3, <1>4, <1>5 DEF BreakerNext

(* The counts of the breaker are right however its requests overlap: the   *)
(* inductive invariant, its types included.                                *)
THEOREM BreakerInvHolds == BreakerSpec => []BreakerInv
<1>1. CallsInit([Calls -> BreakerRequests]) /\ BreakerInit => BreakerInv
  BY BreakerStarts
<1>2. BreakerInv /\ [BreakerNext]_breakerAllVars => BreakerInv'
  BY BreakerStep
<1> QED BY <1>1, <1>2, PTL DEF BreakerSpec

(* An open breaker runs no request of its generation and a half-open one   *)
(* no more than MaxRequests, none of which has failed (beforeRequest,      *)
(* afterRequest): stale results neither open nor close it.                 *)
THEOREM BreakerIsSafe == BreakerSpec => []BreakerHolds
<1>1. BreakerInv => BreakerHolds
  BY InvImpliesHolds
<1> QED BY <1>1, BreakerInvHolds, PTL

-----------------------------------------------------------------------------
(* Retries *)

RetryAsks == [op : RetryOps, bad : BOOLEAN]

retryAllVars == <<retryVars, callVars>>

(* Retries and their dead letters, with any requests. *)
RetrySpec ==
    /\ CallsInit([Calls -> RetryAsks]) /\ RetryInit
    /\ [][RetryNext]_retryAllVars

DeadLetterRows == [call : Calls, attempts : Nat]

(* The letters there are or were. *)
Buried == letters \cup purged

RetryTypeOK ==
    /\ ask \in [Calls -> RetryAsks]
    /\ at \in [Calls -> {"start", "attempt", "wait", "bury", "done"}]
    /\ held = [c \in Calls |-> held[c]]
    /\ reply = [c \in Calls |-> reply[c]]
    /\ attempts \in [Calls -> Nat]
    /\ Buried \subseteq DeadLetterRows

(* The attempts of a call so far, by the step it is about to take. *)
AttemptsMade(c) ==
    /\ at[c] = "start" => attempts[c] = 0
    /\ at[c] \in {"attempt", "wait"} => attempts[c] < MaxAttempts
    /\ at[c] = "bury" => attempts[c] = MaxAttempts \/ c \in ended

(* A call is told once it is done. *)
ToldAtTheEnd(c) == at[c] # "done" => reply[c] = "none"

(* A letter is that of a failed call and tells of its attempts. *)
TellsTheTruth(x) == reply[x.call] = "failed" /\ x.attempts = attempts[x.call]

FailedIsBuried(c) ==
    reply[c] = "failed" => c \in ended \cup unheard \/ \E x \in Buried : x.call = c

RetryInv ==
    /\ RetryTypeOK
    /\ \A c \in Calls : ask[c].op = "retry" => AttemptsMade(c)
    /\ \A c \in Calls : ToldAtTheEnd(c) /\ FailedIsBuried(c)
    /\ \A x \in Buried : TellsTheTruth(x)

(* One call moves and is told what has become of it. *)
LEMMA RetryMoves ==
    ASSUME RetryInv, NEW c \in Calls, at[c] # "done", ask' = ask,
           NEW label \in {"attempt", "wait", "bury", "done"}, at' = [at EXCEPT ![c] = label],
           held' = held \/ \E h : held' = [held EXCEPT ![c] = h],
           NEW r, reply' = [reply EXCEPT ![c] = r], label # "done" => r = "none",
           NEW n \in Nat, attempts' = [attempts EXCEPT ![c] = n],
           ask[c].op = "retry" => AttemptsMade(c)',
           Buried \subseteq Buried', Buried' \subseteq Buried \cup {[call |-> c, attempts |-> n]},
           ended \subseteq ended', unheard \subseteq unheard',
           r = "failed" \/ Buried' = Buried, FailedIsBuried(c)'
    PROVE  RetryInv'
<1>1. /\ at'[c] = label /\ reply'[c] = r /\ attempts'[c] = n
      /\ \A d \in Calls \ {c} : at'[d] = at[d] /\ reply'[d] = reply[d] /\ attempts'[d] = attempts[d]
  BY DEF RetryInv, RetryTypeOK
<1>2. \A x \in Buried : x \in DeadLetterRows /\ x.call \in Calls \ {c} /\ TellsTheTruth(x)
  <2> SUFFICES ASSUME NEW x \in Buried
               PROVE  x \in DeadLetterRows /\ x.call \in Calls \ {c} /\ TellsTheTruth(x)
    OBVIOUS
  <2>1. x \in DeadLetterRows /\ TellsTheTruth(x) /\ reply[c] = "none"
    BY DEF RetryInv, RetryTypeOK, ToldAtTheEnd
  <2> QED BY <2>1 DEF TellsTheTruth, DeadLetterRows
<1>3. [call |-> c, attempts |-> n] \in DeadLetterRows
  BY DEF DeadLetterRows
<1>4. RetryTypeOK'
  <2>1. Buried' \subseteq DeadLetterRows
    BY <1>2, <1>3
  <2> QED BY <2>1 DEF RetryInv, RetryTypeOK
<1>5. ASSUME NEW d \in Calls, ask'[d].op = "retry" PROVE AttemptsMade(d)'
  BY <1>1, <1>5 DEF RetryInv, AttemptsMade
<1>6. ASSUME NEW d \in Calls PROVE ToldAtTheEnd(d)' /\ FailedIsBuried(d)'
  <2>1. CASE d = c
    BY <1>1, <2>1 DEF ToldAtTheEnd
  <2>2. CASE d # c
    <3>1. ToldAtTheEnd(d) /\ FailedIsBuried(d) /\ at'[d] = at[d] /\ reply'[d] = reply[d]
      BY <1>1, <2>2 DEF RetryInv
    <3> QED BY <3>1 DEF ToldAtTheEnd, FailedIsBuried
  <2> QED BY <2>1, <2>2
<1>7. ASSUME NEW x \in Buried' PROVE TellsTheTruth(x)'
  <2>1. CASE x \in Buried
    <3>1. x.call \in Calls \ {c} /\ TellsTheTruth(x)
      BY <1>2, <2>1
    <3> QED BY <1>1, <3>1 DEF TellsTheTruth
  <2>2. CASE x \notin Buried
    <3>1. x = [call |-> c, attempts |-> n] /\ r = "failed"
      BY <2>2
    <3>2. x.call = c /\ x.attempts = n
      BY <3>1
    <3> QED BY <1>1, <3>1, <3>2 DEF TellsTheTruth
  <2> QED BY <2>1, <2>2
<1> QED BY <1>4, <1>5, <1>6, <1>7 DEF RetryInv

(* A call that adds no letter and does not fail. *)
LEMMA QueueUntouched ==
    ASSUME RetryInv, NEW c \in Calls, at[c] # "done", ask' = ask,
           NEW label \in {"attempt", "wait", "bury", "done"}, at' = [at EXCEPT ![c] = label],
           held' = held \/ \E h : held' = [held EXCEPT ![c] = h],
           NEW r, reply' = [reply EXCEPT ![c] = r], label # "done" => r = "none", r # "failed",
           NEW n \in Nat, attempts' = [attempts EXCEPT ![c] = n],
           ask[c].op = "retry" => AttemptsMade(c)',
           Buried' = Buried, UNCHANGED <<ended, unheard>>
    PROVE  RetryInv'
<1>1. FailedIsBuried(c)'
  <2>1. reply'[c] = r
    BY DEF RetryInv, RetryTypeOK
  <2> QED BY <2>1 DEF FailedIsBuried
<1> QED BY <1>1, RetryMoves

(* Every step keeps the retries and their letters. *)
LEMMA RetryStep ==
    RetryInv /\ [RetryNext]_retryAllVars => RetryInv'
<1> SUFFICES ASSUME RetryInv, [RetryNext]_retryAllVars PROVE RetryInv'
  OBVIOUS
<1>1. CASE UNCHANGED retryAllVars
  BY <1>1 DEF retryAllVars, retryVars, callVars, RetryInv, RetryTypeOK, Buried,
              AttemptsMade, ToldAtTheEnd, FailedIsBuried, TellsTheTruth
<1>2. ASSUME NEW c \in Calls, at[c] = "start", NEW r \in {"ok", "refused"}, Answer(c, r),
             held' = held \/ (\E h : Hold(c, h)),
             Buried' = Buried, UNCHANGED <<attempts, ended, unheard>>
      PROVE  RetryInv'
  <2>1. /\ ask' = ask /\ at' = [at EXCEPT ![c] = "done"] /\ reply' = [reply EXCEPT ![c] = r]
        /\ (held' = held \/ \E h : held' = [held EXCEPT ![c] = h])
    BY <1>2 DEF Answer, Hold
  <2>2. AttemptsMade(c)'
    BY <2>1 DEF AttemptsMade, RetryInv, RetryTypeOK
  <2>3. PICK n \in Nat : attempts' = [attempts EXCEPT ![c] = n]
    <3>1. attempts[c] \in Nat /\ attempts' = [attempts EXCEPT ![c] = attempts[c]]
      BY <1>2 DEF RetryInv, RetryTypeOK
    <3> QED BY <3>1
  <2>4. PICK label : label = "done" /\ label \in {"attempt", "wait", "bury", "done"}
    OBVIOUS
  <2>5. r # "failed" /\ at[c] # "done"
    BY <1>2
  <2> QED BY <1>2, <2>1, <2>2, <2>3, <2>4, <2>5, QueueUntouched
<1>3. ASSUME NEW c \in Calls, Malformed(c), UNCHANGED retryVars PROVE RetryInv'
  BY <1>2, <1>3 DEF Malformed, Refuse, retryVars, Buried
<1>4. ASSUME NEW c \in Calls, Attempt(c) PROVE RetryInv'
  <2>1. PICK n \in Nat : n = attempts[c] + 1
    BY DEF RetryInv, RetryTypeOK
  <2>2. /\ ask[c].op = "retry" /\ at[c] \in {"start", "attempt"} /\ n \in 1 .. MaxAttempts
        /\ reply[c] = "none"
    BY <1>4, <2>1, RetryAssumption
       DEF Attempt, Begins, Serving, RetryInv, RetryTypeOK, AttemptsMade, ToldAtTheEnd
  <2>3. /\ attempts' = [attempts EXCEPT ![c] = n] /\ ask' = ask
        /\ UNCHANGED <<ended, unheard>> /\ Buried' = Buried
    BY <1>4, <2>1 DEF Attempt, Answer, Goto, Buried
  <2>4. attempts'[c] = n
    BY <2>3 DEF RetryInv, RetryTypeOK
  <2>5. PICK label, r :
          /\ at' = [at EXCEPT ![c] = label] /\ reply' = [reply EXCEPT ![c] = r]
          /\ label = "wait" => n < MaxAttempts
          /\ label = "bury" => ~(n < MaxAttempts)
          /\ (label = "done" /\ r = "ok") \/ (label \in {"wait", "bury"} /\ r = "none")
    <3>1. CASE Answer(c, "ok")
      <4>1. at' = [at EXCEPT ![c] = "done"] /\ reply' = [reply EXCEPT ![c] = "ok"]
        BY <3>1 DEF Answer
      <4> QED BY <4>1
    <3>2. reply' = reply => reply' = [reply EXCEPT ![c] = "none"]
      BY <2>2 DEF RetryInv, RetryTypeOK
    <3>3. CASE Goto(c, "wait") /\ n < MaxAttempts
      <4>1. at' = [at EXCEPT ![c] = "wait"] /\ reply' = [reply EXCEPT ![c] = "none"]
        BY <3>2, <3>3 DEF Goto
      <4> QED BY <3>3, <4>1
    <3>4. CASE Goto(c, "bury") /\ ~(n < MaxAttempts)
      <4>1. at' = [at EXCEPT ![c] = "bury"] /\ reply' = [reply EXCEPT ![c] = "none"]
        BY <3>2, <3>4 DEF Goto
      <4> QED BY <3>4, <4>1
    <3> QED BY <1>4, <2>1, <3>1, <3>3, <3>4 DEF Attempt, Again
  <2>6. held' = held \/ \E h : held' = [held EXCEPT ![c] = h]
    BY <1>4 DEF Attempt, Hold
  <2>7. AttemptsMade(c)'
    <3>1. at'[c] = label
      BY <2>5 DEF RetryInv, RetryTypeOK
    <3> QED BY <2>2, <2>4, <2>5, <3>1, RetryAssumption DEF AttemptsMade
  <2>8. /\ label \in {"attempt", "wait", "bury", "done"}
        /\ r # "failed" /\ (label # "done" => r = "none") /\ at[c] # "done"
    BY <2>2, <2>5
  <2> QED BY <2>2, <2>3, <2>5, <2>6, <2>7, <2>8, QueueUntouched
<1>5. ASSUME NEW c \in Calls, Wait(c) PROVE RetryInv'
  <2>1. PICK label \in {"attempt", "bury"} :
          at' = [at EXCEPT ![c] = label] /\ (label = "bury" => c \in ended)
    BY <1>5 DEF Wait, Goto
  <2>2. /\ ask' = ask /\ held' = held /\ UNCHANGED <<attempts, ended, unheard>>
        /\ ask[c].op = "retry" /\ at[c] = "wait" /\ reply' = reply /\ Buried' = Buried
    BY <1>5 DEF Wait, Goto, retryVars, Serving, Buried
  <2>3. /\ reply' = [reply EXCEPT ![c] = "none"]
        /\ attempts[c] \in Nat /\ attempts' = [attempts EXCEPT ![c] = attempts[c]]
    BY <2>2 DEF RetryInv, RetryTypeOK, ToldAtTheEnd
  <2>4. AttemptsMade(c)'
    <3>1. at'[c] = label
      BY <2>1 DEF RetryInv, RetryTypeOK
    <3> QED BY <2>1, <2>2, <3>1 DEF RetryInv, AttemptsMade
  <2>5. PICK r : r = "none" /\ r # "failed"
    OBVIOUS
  <2>6. PICK n \in Nat : n = attempts[c]
    BY <2>3
  <2>7. at[c] # "done" /\ label \in {"attempt", "wait", "bury", "done"}
    BY <2>2
  <2> QED BY <2>1, <2>2, <2>3, <2>4, <2>5, <2>6, <2>7, QueueUntouched
<1>6. ASSUME NEW c \in Calls, SendToDLQ(c) PROVE RetryInv'
  <2>1. /\ ask' = ask /\ held' = held /\ UNCHANGED <<attempts, ended, purged>>
        /\ ask[c].op = "retry" /\ at[c] = "bury" /\ at' = [at EXCEPT ![c] = "done"]
        /\ reply' = [reply EXCEPT ![c] = "failed"]
    BY <1>6 DEF SendToDLQ, Serving, Answer
  <2>2. PICK n \in Nat : n = attempts[c] /\ attempts' = [attempts EXCEPT ![c] = n]
    <3>1. attempts[c] \in Nat /\ attempts' = [attempts EXCEPT ![c] = attempts[c]]
      BY <2>1 DEF RetryInv, RetryTypeOK
    <3> QED BY <3>1
  <2>3. AttemptsMade(c)' /\ (c \notin ended => n = MaxAttempts)
    BY <2>1, <2>2 DEF RetryInv, RetryTypeOK, AttemptsMade
  <2>4. PICK x : x = [call |-> c, attempts |-> n]
    OBVIOUS
  <2>5. /\ unheard \subseteq unheard' /\ ended \subseteq ended'
        /\ Buried \subseteq Buried' /\ Buried' \subseteq Buried \cup {x}
        /\ c \in ended' \cup unheard' \/ x \in Buried'
    <3>1. CASE c \in ended /\ UNCHANGED <<letters, unheard>>
      BY <2>1, <3>1 DEF Buried
    <3>2. CASE c \notin ended
      <4>1. x = [call |-> c, attempts |-> MaxAttempts]
        BY <2>3, <2>4, <3>2
      <4>2. Bury(c) => letters' = letters \cup {x}
        BY <4>1 DEF Bury
      <4>3. \/ Bury(c) /\ UNCHANGED unheard
            \/ (Bury(c) \/ UNCHANGED letters) /\ unheard' = unheard \cup {c}
        BY <1>6, <3>2 DEF SendToDLQ, Unanswered
      <4> QED BY <2>1, <4>2, <4>3 DEF Buried
    <3> QED BY <1>6, <3>1, <3>2 DEF SendToDLQ
  <2>6. FailedIsBuried(c)'
    <3>1. x.call = c
      BY <2>4
    <3> QED BY <2>5, <3>1 DEF FailedIsBuried
  <2>7. PICK label, r : label = "done" /\ r = "failed"
    OBVIOUS
  <2>8. label \in {"attempt", "wait", "bury", "done"} /\ at[c] # "done"
    BY <2>1, <2>7
  <2>9. Buried' \subseteq Buried \cup {[call |-> c, attempts |-> n]}
    BY <2>4, <2>5
  <2> QED BY <2>1, <2>2, <2>3, <2>5, <2>6, <2>7, <2>8, <2>9, RetryMoves
<1>7. ASSUME NEW c \in Calls, ReplayDLQEntry(c) PROVE RetryInv'
  BY <1>2, <1>7 DEF ReplayDLQEntry, Begins, Serving, Ok, Refuse, Buried
<1>8. ASSUME NEW c \in Calls, PurgeDLQEntry(c) PROVE RetryInv'
  <2>1. at[c] = "start" /\ UNCHANGED <<attempts, ended, unheard>> /\ (Ok(c) \/ Refuse(c))
    BY <1>8 DEF PurgeDLQEntry, Begins, Serving
  <2>2. Buried' = Buried
    <3>1. \/ \E e \in Calls : Remove(e)
          \/ UNCHANGED <<letters, purged>>
      BY <1>8 DEF PurgeDLQEntry, Unanswered
    <3>2. ASSUME NEW e, Remove(e) PROVE Buried' = Buried
      <4>1. \A x : x \in Buried' <=> x \in Buried
        BY <3>2 DEF Remove, Buried
      <4> QED BY <4>1
    <3> QED BY <3>1, <3>2 DEF Buried
  <2> QED BY <1>2, <2>1, <2>2 DEF Ok, Refuse
<1>9. ASSUME NEW c \in Calls, GetDLQEntries(c) PROVE RetryInv'
  BY <1>2, <1>9 DEF GetDLQEntries, Begins, Serving, Refuse, retryVars, Buried
<1>10. ASSUME NEW c \in Calls, EndContext(c) PROVE RetryInv'
  BY <1>10 DEF EndContext, callVars, RetryInv, RetryTypeOK, Buried,
               AttemptsMade, ToldAtTheEnd, FailedIsBuried, TellsTheTruth
<1> QED BY <1>1, <1>3, <1>4, <1>5, <1>6, <1>7, <1>8, <1>9, <1>10 DEF RetryNext

(* For any limit, delays and number of operations, with contexts that end  *)
(* and answers that are lost: a dead letter tells of the attempts that     *)
(* were made, and a failed operation has its letter unless its context had *)
(* ended or Redis answered with an error (ExecuteWithDLQ).                 *)
THEOREM FailuresHold ==
    RetrySpec => []FailuresAreBuried
<1>1. CallsInit([Calls -> RetryAsks]) /\ RetryInit => RetryInv
  BY RetryAssumption DEF CallsInit, RetryInit, RetryInv, RetryTypeOK, Buried,
     AttemptsMade, ToldAtTheEnd, FailedIsBuried, TellsTheTruth
<1>2. RetryInv => FailuresAreBuried
  BY DEF RetryInv, FailedIsBuried, TellsTheTruth, Buried, FailuresAreBuried
<1> QED BY <1>1, <1>2, RetryStep, PTL DEF RetrySpec

-----------------------------------------------------------------------------
(* Dead letters of webhooks *)

LetterAsks ==
    [op : LetterOps \ {"add", "pending", "cleanup", "stats"}, bad : BOOLEAN, letter : LetterIds]
      \cup [op : {"add", "pending", "cleanup", "stats"}, bad : BOOLEAN]

lettersAllVars == <<dlqVars, callVars>>

(* The dead letters, with any number of operations at once. *)
LettersSpec ==
    /\ CallsInit([Calls -> LetterAsks]) /\ LettersInit
    /\ [][LettersNext]_lettersAllVars

Letters ==
    [status : {"pending", "retrying", "succeeded", "exhausted", "expired", "abandoned"},
     attempts : Nat, next : Nat \cup {None}, expires : Nat]

LettersTypeOK ==
    /\ date \in Nat
    /\ dlq = [e \in LetterIds |-> dlq[e]]
    /\ ask \in [Calls -> LetterAsks]
    /\ at \in [Calls -> {"start", "write", "done"}]
    /\ reply \in [Calls -> {"none", "ok", "refused"}]
    /\ held = [c \in Calls |-> held[c]]

(* The calls that have counted a failure of an entry, or may have. *)
FailuresOf(e) == {c \in Calls : Recorded(c, e)}

(* A row as LettersAreKept wants the row of e to be. *)
Sound(e, row) ==
    /\ row \in Letters
    /\ row.status = "pending" => row.next # None
    /\ row.status = "pending" /\ e \notin renewed =>
         row.attempts = 1 \/ row.attempts < MaxRetries
    /\ row.status = "exhausted" => row.attempts >= MaxRetries
    /\ row.attempts <= 1 + Cardinality(FailuresOf(e))

RowsSound == \A e \in LetterIds : dlq[e] # None => Sound(e, dlq[e])

(* A number of attempts that a handler has read counts recorded failures,  *)
(* its own not being one of them.                                          *)
ReadsSound ==
    /\ \A c \in Calls : at[c] # "done" => reply[c] = "none"
    /\ \A c \in Calls : at[c] = "write" =>
         /\ ask[c].op = "failure" /\ held[c] \in Nat
         /\ held[c] <= 1 + Cardinality(FailuresOf(ask[c].letter))

LettersInv == LettersTypeOK /\ RowsSound /\ ReadsSound

-----------------------------------------------------------------------------
(* The wait after any attempt is one of those configured. *)
LEMMA DelaysAreTimes ==
    ASSUME NEW n \in Nat PROVE GetRetryDelay(n) \in Nat
<1>1. Len(RetryDelays) \in Nat /\ Len(RetryDelays) >= 1
  BY LettersAssumption
<1>2. \A k \in 1 .. Len(RetryDelays) : RetryDelays[k] \in Nat
  BY LettersAssumption
<1> QED BY <1>1, <1>2 DEF GetRetryDelay

(* A row for a new entry. *)
LEMMA NewLetterSound ==
    ASSUME NEW t \in Nat, NEW e \in LetterIds
    PROVE  Sound(e, NewLetter(t))
<1>1. GetRetryDelay(1) \in Nat
  BY DelaysAreTimes
<1>2. t + GetRetryDelay(1) \in Nat /\ t + TTL \in Nat
  BY <1>1, LettersAssumption
<1>3. Cardinality(FailuresOf(e)) \in Nat
  BY CallsAssumption, FS_Subset, FS_CardinalityType DEF FailuresOf
<1> QED BY <1>2, <1>3, LettersAssumption DEF NewLetter, Sound, Letters

(* A failed attempt adds one, and ends in "exhausted" with the last.       *)
LEMMA FailedSound ==
    ASSUME NEW row \in Letters, NEW n \in Nat, date \in Nat
    PROVE  /\ Failed(row, n) \in Letters
           /\ Failed(row, n).attempts = n
           /\ Failed(row, n).status = "pending" => n < MaxRetries /\ Failed(row, n).next # None
           /\ Failed(row, n).status = "exhausted" => n >= MaxRetries
<1>1. GetRetryDelay(n) \in Nat
  BY DelaysAreTimes
<1>2. date + GetRetryDelay(n) \in Nat /\ date + GetRetryDelay(n) # None
  BY <1>1, LettersAssumption
<1>3. PICK one : one = [row EXCEPT !.attempts = n]
  OBVIOUS
<1>4. one \in Letters /\ one.attempts = n
  BY <1>3 DEF Letters
<1>5. CASE n >= MaxRetries
  <2>1. PICK two : two = [one EXCEPT !.status = "exhausted"]
    OBVIOUS
  <2>2. two \in Letters /\ two.attempts = n /\ two.status = "exhausted"
    BY <1>4, <2>1 DEF Letters
  <2>3. [two EXCEPT !.next = None] \in Letters
    BY <2>2 DEF Letters
  <2>4. Failed(row, n) = [two EXCEPT !.next = None]
    BY <1>3, <1>5, <2>1 DEF Failed
  <2> QED BY <1>5, <2>2, <2>3, <2>4 DEF Letters
<1>6. CASE ~(n >= MaxRetries)
  <2>1. PICK two : two = [one EXCEPT !.status = "pending"]
    OBVIOUS
  <2>2. two \in Letters /\ two.attempts = n /\ two.status = "pending"
    BY <1>4, <2>1 DEF Letters
  <2>3. [two EXCEPT !.next = date + GetRetryDelay(n)] \in Letters
    BY <1>2, <2>2 DEF Letters
  <2>4. Failed(row, n) = [two EXCEPT !.next = date + GetRetryDelay(n)]
    BY <1>3, <1>6, <2>1 DEF Failed
  <2> QED BY <1>2, <1>6, <2>2, <2>3, <2>4, LettersAssumption DEF Letters
<1> QED BY <1>5, <1>6

(* One call moves; every row it changes is sound by what is then recorded. *)
LEMMA LetterMoves ==
    ASSUME LettersInv, NEW c \in Calls, at[c] # "done", ask' = ask, date' = date,
           NEW label \in {"write", "done"}, at' = [at EXCEPT ![c] = label],
           NEW r \in {"none", "ok", "refused"}, reply' = [reply EXCEPT ![c] = r],
           NEW h, held' = [held EXCEPT ![c] = h],
           label = "write" => /\ ask[c].op = "failure" /\ h \in Nat /\ r = "none"
                              /\ h <= 1 + Cardinality(FailuresOf(ask[c].letter)),
           dlq' = [e \in LetterIds |-> dlq'[e]], renewed \subseteq renewed',
           \A e \in LetterIds : dlq'[e] = dlq[e] \/ Sound(e, dlq[e])'
    PROVE  LettersInv'
<1>1. LettersTypeOK'
  BY DEF LettersInv, LettersTypeOK
<1>3. ASSUME NEW e
      PROVE  /\ Cardinality(FailuresOf(e)) \in Nat /\ Cardinality(FailuresOf(e)') \in Nat
             /\ Cardinality(FailuresOf(e)) <= Cardinality(FailuresOf(e)')
  <2>1. PICK A, B : A = FailuresOf(e) /\ B = FailuresOf(e)'
    OBVIOUS
  <2>2. A \subseteq B /\ B \subseteq Calls
    BY <2>1 DEF FailuresOf, Recorded, LettersInv, LettersTypeOK
  <2>3. IsFiniteSet(B) /\ IsFiniteSet(A)
    BY <2>2, CallsAssumption, FS_Subset
  <2> QED BY <2>1, <2>2, <2>3, FS_Subset, FS_CardinalityType
<1>4. ReadsSound'
  <2>1. \A d \in Calls : at'[d] # "done" => reply'[d] = "none"
    BY DEF LettersInv, LettersTypeOK, ReadsSound
  <2>2. ASSUME NEW d \in Calls, at'[d] = "write"
        PROVE  /\ ask'[d].op = "failure" /\ held'[d] \in Nat
               /\ held'[d] <= 1 + Cardinality(FailuresOf(ask[d].letter))
    BY <2>2 DEF LettersInv, LettersTypeOK, ReadsSound
  <2>3. ASSUME NEW d \in Calls, at'[d] = "write"
        PROVE  held'[d] <= 1 + Cardinality(FailuresOf(ask[d].letter)')
    <3>1. PICK e : e = ask[d].letter /\ e = ask'[d].letter
      OBVIOUS
    <3>2. FailuresOf(ask[d].letter) = FailuresOf(e) /\ FailuresOf(ask[d].letter)' = FailuresOf(e)'
      BY <3>1 DEF FailuresOf, Recorded
    <3>3. held'[d] \in Nat /\ held'[d] <= 1 + Cardinality(FailuresOf(e))
      BY <2>2, <2>3, <3>1
    <3>4. held'[d] <= 1 + Cardinality(FailuresOf(e)')
      BY <1>3, <3>3
    <3> QED BY <3>2, <3>4
  <2> QED BY <2>1, <2>2, <2>3 DEF ReadsSound
<1>5. ASSUME NEW e \in LetterIds, dlq'[e] # None PROVE Sound(e, dlq[e])'
  <2>1. CASE dlq'[e] = dlq[e]
    <3>1. Sound(e, dlq[e]) /\ dlq[e] \in Letters
      BY <1>5, <2>1 DEF LettersInv, RowsSound, Sound
    <3>2. dlq[e].attempts \in Nat
      BY <3>1 DEF Letters
    <3> QED BY <1>3, <2>1, <3>1, <3>2 DEF Sound
  <2> QED BY <2>1
<1> QED BY <1>1, <1>4, <1>5 DEF LettersInv, RowsSound

(* A call that answers and changes no row. *)
LEMMA LetterIdle ==
    ASSUME LettersInv, NEW c \in Calls, at[c] # "done", NEW r \in {"ok", "refused"}, Answer(c, r),
           UNCHANGED dlqVars, UNCHANGED held \/ \E h : Hold(c, h)
    PROVE  LettersInv'
<1>1. PICK h : held' = [held EXCEPT ![c] = h]
  <2>1. CASE UNCHANGED held
    <3>1. held' = [held EXCEPT ![c] = held[c]]
      BY <2>1 DEF LettersInv, LettersTypeOK
    <3> QED BY <3>1
  <2> QED BY <2>1 DEF Hold
<1>2. /\ ask' = ask /\ date' = date /\ dlq' = dlq /\ renewed' = renewed
      /\ at' = [at EXCEPT ![c] = "done"] /\ reply' = [reply EXCEPT ![c] = r]
  BY DEF Answer, dlqVars
<1>3. dlq' = [e \in LetterIds |-> dlq'[e]]
  BY <1>2 DEF LettersInv, LettersTypeOK
<1> QED BY <1>1, <1>2, <1>3, LetterMoves

(* A call that changes the row of e, if there is one, and is answered or   *)
(* refused.                                                                *)
LEMMA LetterRow ==
    ASSUME LettersInv, NEW c \in Calls, at[c] # "done",
           NEW r \in {"ok", "refused"}, Answer(c, r), UNCHANGED held,
           NEW e \in LetterIds, NEW row,
           Update(e, row), date' = date, renewed \subseteq renewed',
           dlq[e] # None =>
             /\ row \in Letters
             /\ row.status = "pending" => row.next # None
             /\ row.status = "pending" /\ e \notin renewed' =>
                  row.attempts = 1 \/ row.attempts < MaxRetries
             /\ row.status = "exhausted" => row.attempts >= MaxRetries
             /\ \/ row.attempts = dlq[e].attempts
                \/ /\ ask[c].op = "failure" /\ ask[c].letter = e /\ at[c] = "write"
                   /\ row.attempts = held[c] + 1
    PROVE  LettersInv'
<1>1. /\ ask' = ask /\ at' = [at EXCEPT ![c] = "done"] /\ reply' = [reply EXCEPT ![c] = r]
      /\ held' = [held EXCEPT ![c] = held[c]]
  BY DEF Answer, LettersInv, LettersTypeOK
<1>2. dlq' = [o \in LetterIds |-> dlq'[o]] /\ \A o \in LetterIds \ {e} : dlq'[o] = dlq[o]
  BY DEF Update, LettersInv, LettersTypeOK
<1>3. CASE dlq[e] = None
  <2>1. dlq' = dlq
    BY <1>3 DEF Update
  <2> QED BY <1>1, <1>2, <2>1, LetterMoves
<1>4. CASE dlq[e] # None
  <2>1. dlq'[e] = row
    BY <1>4 DEF Update, LettersInv, LettersTypeOK
  <2>2. PICK A, B : A = FailuresOf(e) /\ B = FailuresOf(e)'
    OBVIOUS
  <2>4. A \subseteq B /\ B \subseteq Calls
    BY <1>1, <2>2 DEF FailuresOf, Recorded, LettersInv, LettersTypeOK
  <2>5. IsFiniteSet(B) /\ IsFiniteSet(A)
    BY <2>4, CallsAssumption, FS_Subset
  <2>6. Cardinality(A) \in Nat /\ Cardinality(B) \in Nat /\ Cardinality(A) <= Cardinality(B)
    BY <2>4, <2>5, FS_Subset, FS_CardinalityType
  <2>7. row.attempts \in Nat /\ dlq[e].attempts \in Nat
    BY <1>4 DEF LettersInv, RowsSound, Sound, Letters
  <2>8. CASE row.attempts = dlq[e].attempts
    <3>1. row.attempts <= 1 + Cardinality(A)
      BY <1>4, <2>2, <2>8 DEF LettersInv, RowsSound, Sound
    <3>2. row.attempts <= 1 + Cardinality(B)
      BY <2>6, <2>7, <3>1
    <3>3. Sound(e, dlq[e])'
      BY <1>4, <2>1, <2>2, <3>2 DEF Sound
    <3> QED BY <1>1, <1>2, <3>3, LetterMoves
  <2>9. CASE /\ ask[c].op = "failure" /\ ask[c].letter = e /\ at[c] = "write"
             /\ row.attempts = held[c] + 1
    <3>0. held[c] \in Nat /\ held[c] # None
      BY <2>9, LettersAssumption DEF LettersInv, ReadsSound
    <3>1. B = A \cup {c} /\ c \notin A
      BY <1>1, <2>2, <2>9, <3>0 DEF FailuresOf, Recorded, LettersInv, LettersTypeOK
    <3>2. Cardinality(B) = Cardinality(A) + 1
      BY <2>5, <3>1, FS_AddElement
    <3>3. held[c] \in Nat /\ held[c] <= 1 + Cardinality(A)
      BY <2>2, <2>9 DEF LettersInv, ReadsSound
    <3>4. row.attempts <= 1 + Cardinality(B)
      BY <2>6, <2>9, <3>2, <3>3
    <3>5. Sound(e, dlq[e])'
      BY <1>4, <2>1, <2>2, <3>4 DEF Sound
    <3> QED BY <1>1, <1>2, <3>5, LetterMoves
  <2> QED BY <1>4, <2>8, <2>9
<1> QED BY <1>3, <1>4

(* MarkRetrying, RecordSuccess, Abandon and Replay change the status and   *)
(* the time of a row.                                                      *)
LEMMA StatusChanges ==
    ASSUME LettersInv, NEW c \in Calls, at[c] # "done", NEW e \in LetterIds, date' = date,
           NEW r \in {"ok", "refused"}, Answer(c, r), UNCHANGED held,
           \/ /\ renewed' = renewed
              /\ \/ Update(e, [dlq[e] EXCEPT !.status = "retrying"])
                 \/ Update(e, [dlq[e] EXCEPT !.status = "succeeded", !.next = None])
                 \/ Update(e, [dlq[e] EXCEPT !.status = "abandoned"])
           \/ /\ renewed' = renewed \cup {e}
              /\ Update(e, [dlq[e] EXCEPT !.status = "pending", !.next = date])
    PROVE  LettersInv'
<1>1. date \in Nat /\ date # None
  BY LettersAssumption DEF LettersInv, LettersTypeOK
<1>2. PICK old : old = dlq[e]
  OBVIOUS
<1>3. old # None => old \in Letters
  BY <1>2 DEF LettersInv, RowsSound, Sound
<1>4. ASSUME NEW s \in {"retrying", "abandoned"}, renewed' = renewed,
             Update(e, [dlq[e] EXCEPT !.status = s])
      PROVE  LettersInv'
  <2>1. PICK row : row = [old EXCEPT !.status = s]
    OBVIOUS
  <2>2. old # None => row \in Letters /\ row.attempts = old.attempts /\ row.status = s
    BY <1>3, <2>1 DEF Letters
  <2>3. Update(e, row)
    BY <1>2, <1>4, <2>1
  <2> QED BY <1>2, <1>4, <2>2, <2>3, LetterRow
<1>5. ASSUME NEW s \in {"succeeded", "pending"}, NEW t \in {date, None},
             s = "succeeded" => t = None /\ renewed' = renewed,
             s = "pending" => t = date /\ renewed' = renewed \cup {e},
             Update(e, [dlq[e] EXCEPT !.status = s, !.next = t])
      PROVE  LettersInv'
  <2>1. PICK one : one = [old EXCEPT !.status = s]
    OBVIOUS
  <2>2. old # None => one \in Letters /\ one.attempts = old.attempts /\ one.status = s
    BY <1>3, <2>1 DEF Letters
  <2>3. PICK row : row = [one EXCEPT !.next = t]
    OBVIOUS
  <2>4. old # None =>
          row \in Letters /\ row.attempts = old.attempts /\ row.status = s /\ row.next = t
    BY <1>1, <2>2, <2>3 DEF Letters
  <2>5. Update(e, row)
    BY <1>2, <1>5, <2>1, <2>3
  <2> QED BY <1>1, <1>2, <1>5, <2>4, <2>5, LetterRow
<1> QED BY <1>4, <1>5

(* RecordFailure keeps the count, although it reads and writes in two steps. *)
LEMMA RecordFailureKeeps ==
    ASSUME LettersInv, NEW c \in Calls, RecordFailure(c)
    PROVE  LettersInv'
<1> DEFINE e == ask[c].letter
<1>1. e \in LetterIds /\ at[c] # "done"
  BY DEF RecordFailure, Begins, Serving, LettersInv, LettersTypeOK, LetterAsks
<1>2. CASE Refuse(c) /\ UNCHANGED dlqVars
  BY <1>1, <1>2, LetterIdle DEF Refuse
<1>3. CASE Begins(c, "failure") /\ ~(Refuse(c) /\ UNCHANGED dlqVars)
  <2>1. /\ dlq[e] # None /\ Hold(c, dlq[e].attempts) /\ Goto(c, "write") /\ UNCHANGED dlqVars
        /\ ask[c].op = "failure"
    BY <1>3 DEF RecordFailure, Begins, Serving
  <2>2. PICK n : n = dlq[e].attempts
    OBVIOUS
  <2>3. n \in Nat /\ n <= 1 + Cardinality(FailuresOf(e))
    BY <1>1, <2>1, <2>2 DEF LettersInv, RowsSound, Sound, Letters
  <2>4. reply[c] = "none" /\ reply' = [reply EXCEPT ![c] = "none"]
    BY <1>1, <2>1 DEF LettersInv, LettersTypeOK, ReadsSound, Goto
  <2>5. /\ ask' = ask /\ date' = date /\ dlq' = dlq /\ renewed' = renewed
        /\ at' = [at EXCEPT ![c] = "write"] /\ held' = [held EXCEPT ![c] = n]
    BY <2>1, <2>2 DEF Goto, Hold, dlqVars
  <2>6. dlq' = [o \in LetterIds |-> dlq'[o]]
    BY <2>5 DEF LettersInv, LettersTypeOK
  <2> QED BY <1>1, <2>1, <2>3, <2>4, <2>5, <2>6, LetterMoves
<1>4. CASE Serving(c, "failure", "write") /\ ~(Refuse(c) /\ UNCHANGED dlqVars)
  <2>1. /\ Update(e, Failed(dlq[e], held[c] + 1)) /\ UNCHANGED <<renewed, date>>
        /\ \E r \in {"ok", "refused"} : Answer(c, r) /\ UNCHANGED held
    BY <1>4 DEF RecordFailure, Begins, Serving, Statement, Unanswered, Ok, Refuse, dlqVars
  <2>2. PICK n : n = held[c] + 1
    OBVIOUS
  <2>3. n \in Nat /\ date \in Nat
    BY <1>4, <2>2 DEF Serving, LettersInv, LettersTypeOK, ReadsSound
  <2>4. PICK row : row = Failed(dlq[e], n)
    OBVIOUS
  <2>5. dlq[e] # None => dlq[e] \in Letters
    BY <1>1 DEF LettersInv, RowsSound, Sound
  <2>6. dlq[e] # None =>
          /\ row \in Letters /\ row.attempts = n
          /\ row.status = "pending" => n < MaxRetries /\ row.next # None
          /\ row.status = "exhausted" => n >= MaxRetries
    BY <2>3, <2>4, <2>5, FailedSound
  <2>7. Update(e, row)
    BY <2>1, <2>2, <2>4
  <2>8. PICK r \in {"ok", "refused"} : Answer(c, r) /\ UNCHANGED held
    BY <2>1
  <2> QED BY <1>1, <1>4, <2>1, <2>2, <2>6, <2>7, <2>8, LetterRow DEF Serving
<1> QED BY <1>2, <1>3, <1>4 DEF RecordFailure

(* Every step of an operation keeps the letters. *)
LEMMA LettersStep ==
    LettersInv /\ [LettersNext]_lettersAllVars => LettersInv'
<1> SUFFICES ASSUME LettersInv, [LettersNext]_lettersAllVars PROVE LettersInv'
  OBVIOUS
<1>1. CASE UNCHANGED <<dlq, renewed, callVars>> /\ date' \in Nat
  BY <1>1 DEF callVars, LettersInv, LettersTypeOK, RowsSound, ReadsSound, Sound, FailuresOf,
              Recorded
<1>2. ASSUME NEW c \in Calls, Malformed(c), UNCHANGED dlqVars PROVE LettersInv'
  BY <1>2, LetterIdle DEF Malformed, Refuse
<1>3. ASSUME NEW c \in Calls, Add(c) PROVE LettersInv'
  <2>1. at[c] # "done"
    BY <1>3 DEF Add, Begins, Serving
  <2>2. CASE Refuse(c) /\ UNCHANGED dlqVars
    BY <2>1, <2>2, LetterIdle DEF Refuse
  <2>3. CASE /\ dlq' = [dlq EXCEPT ![c] = NewLetter(date)] /\ UNCHANGED <<renewed, date>>
             /\ Ok(c) \/ Refuse(c)
    <3>1. c \in LetterIds
      BY DEF LetterIds
    <3>0. PICK r \in {"ok", "refused"} : Answer(c, r) /\ UNCHANGED held
      BY <2>3 DEF Ok, Refuse
    <3>2. /\ ask' = ask /\ at' = [at EXCEPT ![c] = "done"] /\ reply' = [reply EXCEPT ![c] = r]
          /\ held' = [held EXCEPT ![c] = held[c]]
      BY <3>0 DEF Answer, LettersInv, LettersTypeOK
    <3>3. dlq' = [o \in LetterIds |-> dlq'[o]] /\ \A o \in LetterIds \ {c} : dlq'[o] = dlq[o]
      BY <2>3 DEF LettersInv, LettersTypeOK
    <3>4. PICK t \in Nat : t = date
      BY DEF LettersInv, LettersTypeOK
    <3>5. dlq'[c] = NewLetter(t)
      BY <2>3, <3>1, <3>4 DEF LettersInv, LettersTypeOK
    <3>6. Sound(c, NewLetter(t))'
      <4>1. GetRetryDelay(1) \in Nat
        BY DelaysAreTimes
      <4>2. t + GetRetryDelay(1) \in Nat /\ t + TTL \in Nat
        BY <4>1, LettersAssumption
      <4>3. Cardinality(FailuresOf(c)') \in Nat
        BY CallsAssumption, FS_Subset, FS_CardinalityType DEF FailuresOf
      <4> QED BY <4>2, <4>3, LettersAssumption DEF NewLetter, Sound, Letters
    <3>7. Sound(c, dlq[c])'
      BY <3>5, <3>6
    <3> QED BY <2>1, <2>3, <3>2, <3>3, <3>7, LetterMoves
  <2> QED BY <1>3, <2>2, <2>3 DEF Add, Statement, Unanswered, dlqVars
<1>4. ASSUME NEW c \in Calls, ListPending(c) \/ GetStats(c) PROVE LettersInv'
  BY <1>4, LetterIdle DEF ListPending, GetStats, Begins, Serving, Refuse
<1>5. ASSUME NEW c \in Calls, MarkRetrying(c) \/ RecordSuccess(c) \/ Abandon(c) \/ Replay(c)
      PROVE  LettersInv'
  <2>1. PICK e : e = ask[c].letter
    OBVIOUS
  <2>2. at[c] # "done" /\ e \in LetterIds
    BY <1>5, <2>1 DEF MarkRetrying, RecordSuccess, Abandon, Replay, Begins, Serving, LettersInv,
                      LettersTypeOK, LetterAsks
  <2>3. CASE Refuse(c) /\ UNCHANGED dlqVars
    BY <2>2, <2>3, LetterIdle DEF Refuse
  <2>4. CASE ~(Refuse(c) /\ UNCHANGED dlqVars)
    <3>1. PICK r \in {"ok", "refused"} : Answer(c, r) /\ UNCHANGED held
      BY <1>5 DEF MarkRetrying, RecordSuccess, Abandon, Replay, Statement, Ok, Refuse
    <3>2. /\ date' = date
          /\ \/ /\ renewed' = renewed
                /\ \/ Update(e, [dlq[e] EXCEPT !.status = "retrying"])
                   \/ Update(e, [dlq[e] EXCEPT !.status = "succeeded", !.next = None])
                   \/ Update(e, [dlq[e] EXCEPT !.status = "abandoned"])
             \/ /\ renewed' = renewed \cup {e}
                /\ Update(e, [dlq[e] EXCEPT !.status = "pending", !.next = date])
      BY <1>5, <2>1, <2>4
         DEF MarkRetrying, RecordSuccess, Abandon, Replay, Statement, Unanswered, dlqVars
    <3> QED BY <2>2, <3>1, <3>2, StatusChanges
  <2> QED BY <2>3, <2>4
<1>6. ASSUME NEW c \in Calls, RecordFailure(c) PROVE LettersInv'
  BY <1>6, RecordFailureKeeps
<1>7. ASSUME NEW c \in Calls, CleanupExpired(c) PROVE LettersInv'
  <2>1. at[c] # "done"
    BY <1>7 DEF CleanupExpired, Begins, Serving
  <2>2. CASE Refuse(c) /\ UNCHANGED dlqVars
    BY <2>1, <2>2, LetterIdle DEF Refuse
  <2>3. CASE ~(Refuse(c) /\ UNCHANGED dlqVars)
    <3>1. /\ dlq' = [e \in LetterIds |->
                     IF dlq[e] # None /\ dlq[e].status = "pending" /\ dlq[e].expires <= date
                     THEN [dlq[e] EXCEPT !.status = "expired"] ELSE dlq[e]]
          /\ UNCHANGED <<renewed, date>> /\ ask[c].op = "cleanup" /\ (Ok(c) \/ Refuse(c))
      BY <1>7, <2>3 DEF CleanupExpired, Statement, Unanswered, dlqVars, Begins, Serving
    <3>0. PICK r \in {"ok", "refused"} : Answer(c, r) /\ UNCHANGED held
      BY <3>1 DEF Ok, Refuse
    <3>2. /\ ask' = ask /\ at' = [at EXCEPT ![c] = "done"] /\ reply' = [reply EXCEPT ![c] = r]
          /\ held' = [held EXCEPT ![c] = held[c]]
      BY <3>0 DEF Answer, LettersInv, LettersTypeOK
    <3>3. dlq' = [o \in LetterIds |-> dlq'[o]]
      BY <3>1
    <3>4. ASSUME NEW e \in LetterIds, dlq'[e] # dlq[e] PROVE Sound(e, dlq[e])'
      <4>1. PICK old : old = dlq[e]
        OBVIOUS
      <4>2. PICK row : row = [old EXCEPT !.status = "expired"]
        OBVIOUS
      <4>3. Sound(e, old) /\ dlq'[e] = row
        BY <3>1, <3>4, <4>1, <4>2 DEF LettersInv, RowsSound
      <4>4. row \in Letters /\ row.attempts = old.attempts /\ row.status = "expired"
        BY <4>2, <4>3 DEF Sound, Letters
      <4>5. FailuresOf(e)' = FailuresOf(e)
        BY <3>1, <3>2 DEF FailuresOf, Recorded, LettersInv, LettersTypeOK
      <4> QED BY <4>3, <4>4, <4>5 DEF Sound
    <3> QED BY <2>1, <3>1, <3>2, <3>3, <3>4, LetterMoves
  <2> QED BY <2>2, <2>3
<1>8. PassDate => UNCHANGED <<dlq, renewed, callVars>> /\ date' \in Nat
  BY DEF PassDate, LettersInv, LettersTypeOK
<1>9. UNCHANGED lettersAllVars => UNCHANGED <<dlq, renewed, callVars>> /\ date' \in Nat
  BY DEF lettersAllVars, dlqVars, LettersInv, LettersTypeOK
<1> QED
  BY <1>1, <1>2, <1>3, <1>4, <1>5, <1>6, <1>7, <1>8, <1>9 DEF LettersNext

(* Whatever operations on the queue overlap and whatever answers are lost, *)
(* with any limit and any delays: a waiting entry is listed at its time,   *)
(* an exhausted one has had its attempts, and the attempts counted are     *)
(* failures reported (RecordFailure, Replay, CleanupExpired).              *)
THEOREM LettersHold ==
    LettersSpec => []LettersAreKept
<1>1. CallsInit([Calls -> LetterAsks]) /\ LettersInit => LettersInv
  <2> SUFFICES ASSUME CallsInit([Calls -> LetterAsks]), LettersInit PROVE LettersInv
    OBVIOUS
  <2>1. LettersTypeOK /\ ReadsSound
    BY DEF CallsInit, LettersInit, LettersTypeOK, ReadsSound
  <2>2. \A e \in LetterIds : Sound(e, NewLetter(0))
    BY NewLetterSound
  <2> QED BY <2>1, <2>2 DEF LettersInit, LettersInv, RowsSound
<1>2. LettersInv => LettersAreKept
  BY DEF LettersInv, RowsSound, Sound, LettersAreKept, FailuresOf
<1> QED BY <1>1, <1>2, LettersStep, PTL DEF LettersSpec

-----------------------------------------------------------------------------
(* Rate limiter *)

LimitAsks ==
    [op : {"tenantallow"}, bad : BOOLEAN, tenant : Tenants, where : {"global", "events"}]
      \cup [op : {"settier"}, bad : BOOLEAN, tenant : Tenants, tier : STRING]
      \cup [op : {"endpoint"}, bad : BOOLEAN, path : Paths]

limitAllVars == <<limitVars, callVars>>

(* The limiter, with any requests. *)
LimitSpec ==
    /\ CallsInit([Calls -> LimitAsks]) /\ LimitInit
    /\ [][LimitNext]_limitAllVars

AllowLabels == {"check", "count", "oldest", "record", "expire"}

LimitTypeOK ==
    /\ moment \in Nat
    /\ entries \in [Keys -> SUBSET [of : Calls, time : Nat]]
    /\ deadlines \in [Keys -> Nat \cup {None}]
    /\ ask \in [Calls -> LimitAsks]
    /\ at \in [Calls -> AllowLabels \cup {"start", "done"}]
    /\ held \in [Calls -> Checks \cup {None}]
    /\ reply = [c \in Calls |-> reply[c]]

(* What a handler holds agrees with where it is, and its count with the    *)
(* way it goes.                                                            *)
LimitPlaces(c) ==
    /\ at[c] = "start" \/ ask[c].op = "settier" => held[c] = None
    /\ at[c] # "done" => reply[c] = "none"
    /\ at[c] \in AllowLabels => held[c] # None /\ ask[c].op # "settier"
    /\ at[c] \in {"check", "count", "record"} => held[c].entry = "none"
    /\ at[c] # "done" /\ held[c] # None => held[c].entry # "safe"
    /\ held[c] # None =>
         /\ at[c] \in {"record", "expire"} \/ reply[c] = "ok" =>
              Cardinality(held[c].found) < held[c].limit
         /\ at[c] = "oldest" \/ reply[c] = "refused" =>
              Cardinality(held[c].found) >= held[c].limit

(* What a request had to prune stays away while it counts. *)
PastIsGone(c) ==
    at[c] = "count" =>
        /\ held[c].past \subseteq Logged(KeyOf(c))
        /\ \A e \in entries[KeyOf(c)] : e.of \notin held[c].past

(* An entry stands for a request that has added it, with its time, *)
EntriesAreLogged ==
    \A k \in Keys : \A e \in entries[k] : e.of \in Logged(k) /\ e.time = held[e.of].time

(* and a recorded request has its entry until a window has passed: no      *)
(* clock that prunes is ahead, and the key lives longer.                   *)
RecordedAreEntered ==
    /\ \A c \in Calls : held[c] # None => held[c].time <= moment
    /\ \A k \in Keys : \A d \in Logged(k) : held[d].entry = "safe" =>
         /\ held[d].time > moment - Span => Entry(d) \in entries[k]
         /\ deadlines[k] = None \/ deadlines[k] > held[d].time + Span

LimitInv ==
    /\ LimitTypeOK /\ EntriesAreLogged /\ RecordedAreEntered
    /\ \A c \in Calls : LimitPlaces(c) /\ PastIsGone(c)

-----------------------------------------------------------------------------
(* Limits are numbers. *)
LEMMA LimitsAreNumbers ==
    /\ \A t : TenantLimit(t) \in Int
    /\ \A path : FindConfig(path) \in Int
<1>1. ASSUME NEW t PROVE TenantLimit(t) \in Int
  BY LimitAssumption DEF TenantLimit
<1>2. ASSUME NEW path PROVE FindConfig(path) \in Int
  <2>1. Len(DefaultEndpointConfigs) = 4
    BY DEF DefaultEndpointConfigs
  <2>2. \A n \in 1 .. 4 : DefaultEndpointConfigs[n].limit \in Int
    BY DEF DefaultEndpointConfigs
  <2>3. PICK M : M = {n \in 1 .. Len(DefaultEndpointConfigs) :
                        \E p \in DefaultEndpointConfigs[n].patterns : MatchPath(p, path)}
    OBVIOUS
  <2>4. M \subseteq 1 .. 4
    BY <2>1, <2>3
  <2>5. FindConfig(path) = IF M = {} THEN 1000
                           ELSE DefaultEndpointConfigs[CHOOSE n \in M : \A m \in M : n <= m].limit
    BY <2>3 DEF FindConfig
  <2>6. CASE M = {}
    BY <2>5, <2>6
  <2>7. CASE M # {}
    <3>1. \E n \in M : \A m \in M : n <= m
      <4>1. \A m \in M : m \in {1, 2, 3, 4}
        BY <2>4
      <4>2. CASE 1 \in M
        BY <4>1, <4>2
      <4>3. CASE 1 \notin M /\ 2 \in M
        BY <4>1, <4>3
      <4>4. CASE 1 \notin M /\ 2 \notin M /\ 3 \in M
        BY <4>1, <4>4
      <4>5. CASE 1 \notin M /\ 2 \notin M /\ 3 \notin M
        BY <2>7, <4>1, <4>5
      <4> QED BY <4>2, <4>3, <4>4, <4>5
    <3>2. (CHOOSE n \in M : \A m \in M : n <= m) \in M
      BY <3>1
    <3> QED BY <2>2, <2>4, <2>5, <2>7, <3>2
  <2> QED BY <2>6, <2>7
<1> QED BY <1>1, <1>2

(* A request has a key. *)
LEMMA KeysOfCalls ==
    ASSUME LimitTypeOK, NEW c \in Calls, ask[c].op # "settier"
    PROVE  KeyOf(c) \in Keys
<1>1. CASE ask[c].op = "endpoint"
  BY <1>1 DEF KeyOf, Keys, LimitTypeOK, LimitAsks
<1>2. CASE ask[c].op = "tenantallow"
  BY <1>2 DEF KeyOf, Keys, LimitTypeOK, LimitAsks
<1> QED BY <1>1, <1>2 DEF LimitTypeOK, LimitAsks

(* A call moves.  An entry that comes is its own and its first, one that   *)
(* goes is a window old, and its own is safe when the key has a new time.  *)
LEMMA LimitMoves ==
    ASSUME LimitInv, NEW c \in Calls, at[c] # "done", ask' = ask, moment' = moment,
           NEW label \in AllowLabels \cup {"start", "done"}, at' = [at EXCEPT ![c] = label],
           NEW r, reply' = [reply EXCEPT ![c] = r],
           NEW h \in Checks \cup {None}, held' = [held EXCEPT ![c] = h],
           entries' \in [Keys -> SUBSET [of : Calls, time : Nat]],
           deadlines' \in [Keys -> Nat \cup {None}],
           LimitPlaces(c)', PastIsGone(c)',
           h # None => h.time <= moment,
           held[c] # None =>
             /\ h # None /\ h.time = held[c].time
             /\ held[c].entry # "none" => h.entry # "none",
           \A k \in Keys : \A e \in entries'[k] :
             \/ e \in entries[k]
             \/ /\ e.of = c /\ k = KeyOf(c) /\ ask[c].op # "settier"
                /\ h # None /\ e.time = h.time /\ h.entry # "none"
                /\ held[c] # None /\ held[c].entry = "none",
           \A k \in Keys : \A e \in entries[k] : e.time > moment - Span => e \in entries'[k],
           \A k \in Keys : deadlines'[k] \in {None, deadlines[k], moment + Span + 1},
           h # None /\ h.entry = "safe" =>
             /\ [of |-> c, time |-> h.time] \in entries'[KeyOf(c)]
             /\ deadlines'[KeyOf(c)] = moment + Span + 1
    PROVE  LimitInv'
<1>1. LimitTypeOK'
  BY DEF LimitInv, LimitTypeOK
<1>2. \A d \in Calls \ {c} : at'[d] = at[d] /\ held'[d] = held[d] /\ reply'[d] = reply[d]
  BY DEF LimitInv, LimitTypeOK
<1>3. at'[c] = label /\ held'[c] = h /\ reply'[c] = r
  BY DEF LimitInv, LimitTypeOK
<1>4. \A d \in Calls : KeyOf(d)' = KeyOf(d)
  BY DEF KeyOf
<1>5. ASSUME NEW k, NEW d \in Calls, d # c PROVE d \in Logged(k)' <=> d \in Logged(k)
  <2>1. ask'[d] = ask[d] /\ held'[d] = held[d] /\ KeyOf(d)' = KeyOf(d)
    BY <1>2, <1>4, <1>5
  <2> QED BY <2>1 DEF Logged
<1>6. ASSUME NEW k, c \in Logged(k)
      PROVE  c \in Logged(k)' /\ h # None /\ h.time = held[c].time /\ held[c].entry # "none"
  <2>1. /\ ask[c].op \in {"tenantallow", "endpoint"} /\ held[c] # None /\ KeyOf(c) = k
        /\ held[c].entry # "none"
    BY <1>6 DEF Logged
  <2>2. ask'[c] = ask[c] /\ held'[c] # None /\ KeyOf(c)' = k /\ held'[c].entry # "none"
    BY <1>3, <1>4, <2>1
  <2>3. c \in Logged(k)'
    BY <2>1, <2>2 DEF Logged
  <2> QED BY <2>1, <2>3
<1>7. EntriesAreLogged'
  <2>1. ASSUME NEW k \in Keys, NEW e \in entries'[k]
        PROVE  e.of \in Logged(k)' /\ e.time = held'[e.of].time
    <3>1. CASE e \in entries[k]
      <4>1. e.of \in Logged(k) /\ e.time = held[e.of].time /\ e.of \in Calls
        BY <3>1 DEF LimitInv, EntriesAreLogged, Logged
      <4>2. CASE e.of = c
        BY <1>3, <1>6, <4>1, <4>2
      <4>3. CASE e.of # c
        BY <1>2, <1>5, <4>1, <4>3
      <4> QED BY <4>2, <4>3
    <3>2. CASE e \notin entries[k]
      <4>1. /\ e.of = c /\ k = KeyOf(c) /\ ask[c].op # "settier"
            /\ h # None /\ e.time = h.time /\ h.entry # "none"
        BY <3>2
      <4>2. ask[c].op \in {"tenantallow", "endpoint"}
        BY <4>1 DEF LimitInv, LimitTypeOK, LimitAsks
      <4>3. c \in Logged(k)'
        BY <1>3, <1>4, <4>1, <4>2 DEF Logged
      <4> QED BY <1>3, <4>1, <4>3
    <3> QED BY <3>1, <3>2
  <2> QED BY <2>1 DEF EntriesAreLogged
<1>8. RecordedAreEntered'
  <2>1. \A d \in Calls : held'[d] # None => held'[d].time <= moment'
    BY <1>2, <1>3 DEF LimitInv, RecordedAreEntered
  <2>2. moment \in Nat /\ Span \in Nat
    BY LimitAssumption DEF LimitInv, LimitTypeOK
  <2>3. ASSUME NEW k \in Keys, NEW d \in Logged(k)', held'[d].entry = "safe"
        PROVE  /\ held'[d].time > moment' - Span => Entry(d)' \in entries'[k]
               /\ deadlines'[k] = None \/ deadlines'[k] > held'[d].time + Span
    <3>1. d \in Calls /\ held'[d] # None /\ KeyOf(d)' = k
      BY <2>3 DEF Logged
    <3>2. held'[d] \in Checks
      BY <1>1, <3>1 DEF LimitTypeOK
    <3>3. held'[d].time \in Nat /\ held'[d].time <= moment
      BY <2>1, <3>1, <3>2 DEF Checks
    <3>4. CASE d = c
      <4>1. h # None /\ h.entry = "safe" /\ k = KeyOf(c)
        BY <1>3, <1>4, <2>3, <3>1, <3>4
      <4>2. Entry(d)' = [of |-> c, time |-> h.time]
        BY <1>3, <3>4 DEF Entry
      <4>3. deadlines'[k] = moment + Span + 1
        BY <4>1
      <4>4. deadlines'[k] > held'[d].time + Span
        BY <2>2, <3>3, <4>3
      <4> QED BY <4>1, <4>2, <4>4
    <3>5. CASE d # c
      <4>1. d \in Logged(k) /\ held'[d] = held[d] /\ held[d].entry = "safe"
        BY <1>2, <1>5, <2>3, <3>1, <3>5
      <4>2. /\ held[d].time > moment - Span => Entry(d) \in entries[k]
            /\ deadlines[k] = None \/ deadlines[k] > held[d].time + Span
        BY <4>1 DEF LimitInv, RecordedAreEntered
      <4>3. Entry(d)' = Entry(d) /\ Entry(d).time = held[d].time
        BY <4>1 DEF Entry
      <4>4. held'[d].time > moment' - Span => Entry(d)' \in entries'[k]
        BY <4>1, <4>2, <4>3
      <4>5. deadlines'[k] = None \/ deadlines'[k] > held'[d].time + Span
        BY <2>2, <3>3, <4>1, <4>2
      <4> QED BY <4>4, <4>5
    <3> QED BY <3>4, <3>5
  <2> QED BY <2>1, <2>3 DEF RecordedAreEntered
<1>9. ASSUME NEW d \in Calls PROVE LimitPlaces(d)' /\ PastIsGone(d)'
  <2>1. CASE d # c
    <3>1. ask'[d] = ask[d] /\ at'[d] = at[d] /\ held'[d] = held[d] /\ reply'[d] = reply[d]
      BY <1>2, <2>1
    <3>2. LimitPlaces(d)'
      BY <3>1 DEF LimitInv, LimitPlaces
    <3>3. ASSUME at[d] = "count"
          PROVE  /\ held[d].past \subseteq Logged(KeyOf(d))'
                 /\ \A e \in entries'[KeyOf(d)] : e.of \notin held[d].past
      <4>1. PICK k : k = KeyOf(d)
        OBVIOUS
      <4>2. k \in Keys
        BY <3>3, <4>1, KeysOfCalls DEF LimitInv, LimitPlaces, AllowLabels
      <4>3. PICK past : past = held[d].past
        OBVIOUS
      <4>4. past \subseteq Logged(k) /\ \A e \in entries[k] : e.of \notin past
        BY <3>3, <4>1, <4>3 DEF LimitInv, PastIsGone
      <4>5. past \subseteq Calls
        BY <4>4 DEF Logged
      <4>6. past \subseteq Logged(k)'
        BY <1>5, <1>6, <4>4, <4>5
      <4>7. c \in past => held[c].entry # "none"
        BY <1>6, <4>4
      <4>8. \A e \in entries'[k] : e.of \notin past
        BY <4>2, <4>4, <4>7
      <4>9. Logged(KeyOf(d))' = Logged(k)'
        BY <1>4, <4>1 DEF Logged
      <4> QED BY <4>1, <4>3, <4>6, <4>8, <4>9
    <3>4. PastIsGone(d)'
      BY <1>4, <3>1, <3>3 DEF PastIsGone
    <3> QED BY <3>2, <3>4
  <2> QED BY <2>1
<1> QED BY <1>1, <1>7, <1>8, <1>9 DEF LimitInv

(* A call answers and leaves the set and what it holds as they are. *)
LEMMA LimitAnswers ==
    ASSUME LimitInv, NEW c \in Calls, at[c] # "done", NEW r, Answer(c, r), UNCHANGED held,
           UNCHANGED <<entries, deadlines, moment>>,
           \/ held[c] = None
           \/ r = "unchecked"
           \/ r = "refused" /\ at[c] = "oldest"
    PROVE  LimitInv'
<1>1. /\ ask' = ask /\ at' = [at EXCEPT ![c] = "done"] /\ reply' = [reply EXCEPT ![c] = r]
      /\ moment' = moment /\ entries' = entries /\ deadlines' = deadlines
  BY DEF Answer
<1>2. PICK h \in Checks \cup {None} : h = held[c]
  BY DEF LimitInv, LimitTypeOK
<1>3. held' = [held EXCEPT ![c] = h]
  BY <1>2 DEF LimitInv, LimitTypeOK
<1>4. at'[c] = "done" /\ reply'[c] = r /\ held'[c] = h /\ ask'[c] = ask[c]
  BY <1>1, <1>2 DEF LimitInv, LimitTypeOK
<1>5. LimitPlaces(c)
  BY DEF LimitInv
<1>6. LimitPlaces(c)' /\ PastIsGone(c)'
  BY <1>2, <1>4, <1>5 DEF LimitPlaces, PastIsGone, AllowLabels
<1>7. /\ entries' \in [Keys -> SUBSET [of : Calls, time : Nat]]
      /\ deadlines' \in [Keys -> Nat \cup {None}]
  BY <1>1 DEF LimitInv, LimitTypeOK
<1>8. h # None => h.time <= moment /\ h.entry # "safe"
  BY <1>2, <1>5 DEF LimitInv, RecordedAreEntered, LimitPlaces
<1> QED BY <1>1, <1>2, <1>3, <1>6, <1>7, <1>8, LimitMoves

(* A request reads its limit and its clock. *)
LEMMA AllowBegins ==
    ASSUME LimitInv, NEW c \in Calls, at[c] = "start", ask[c].op # "settier", NEW n \in Int,
           Hold(c, Check(n)), Goto(c, "check"), UNCHANGED limitVars
    PROVE  LimitInv'
<1>1. PICK h : h = Check(n)
  OBVIOUS
<1>2. h \in Checks /\ h.time = moment /\ h.entry = "none" /\ moment \in Nat
  BY <1>1 DEF Check, Checks, LimitInv, LimitTypeOK
<1>3. h # None /\ held[c] = None /\ reply[c] = "none"
  BY <1>2, LimitAssumption DEF LimitInv, LimitPlaces
<1>4. /\ ask' = ask /\ at' = [at EXCEPT ![c] = "check"] /\ held' = [held EXCEPT ![c] = h]
      /\ entries' = entries /\ deadlines' = deadlines /\ moment' = moment
      /\ reply' = [reply EXCEPT ![c] = "none"]
  BY <1>1, <1>3 DEF Hold, Goto, limitVars, LimitInv, LimitTypeOK
<1>5. at'[c] = "check" /\ held'[c] = h /\ reply'[c] = "none" /\ ask'[c] = ask[c]
  BY <1>4 DEF LimitInv, LimitTypeOK
<1>6. LimitPlaces(c)' /\ PastIsGone(c)'
  BY <1>2, <1>3, <1>5 DEF LimitPlaces, PastIsGone, AllowLabels
<1>7. /\ entries' \in [Keys -> SUBSET [of : Calls, time : Nat]]
      /\ deadlines' \in [Keys -> Nat \cup {None}]
  BY <1>4 DEF LimitInv, LimitTypeOK
<1>8. h.time <= moment /\ "check" \in AllowLabels
  BY <1>2 DEF AllowLabels
<1> QED BY <1>2, <1>3, <1>4, <1>6, <1>7, <1>8, LimitMoves

(* What a request in AllowN is known to hold. *)
LEMMA AllowHolds ==
    ASSUME LimitInv, NEW c \in Calls, at[c] \in AllowLabels
    PROVE  /\ held[c] \in Checks /\ held[c] # None /\ held[c].time \in Nat
           /\ held[c].time <= moment /\ held[c].limit \in Int /\ moment \in Nat
           /\ held[c].past \subseteq Calls /\ held[c].entry # "safe"
           /\ reply[c] = "none" /\ ask[c].op # "settier" /\ KeyOf(c) \in Keys
           /\ at[c] # "start" /\ at[c] # "done"
<1>1. held[c] # None /\ ask[c].op # "settier" /\ at[c] # "start" /\ at[c] # "done"
  BY DEF LimitInv, LimitPlaces, AllowLabels
<1>2. held[c] \in Checks /\ moment \in Nat
  BY <1>1 DEF LimitInv, LimitTypeOK
<1>3. KeyOf(c) \in Keys
  BY <1>1, KeysOfCalls DEF LimitInv
<1>4. held[c].entry # "safe" /\ reply[c] = "none"
  BY <1>1 DEF LimitInv, LimitPlaces
<1>5. held[c].time <= moment
  BY <1>1 DEF LimitInv, RecordedAreEntered
<1> QED BY <1>1, <1>2, <1>3, <1>4, <1>5 DEF Checks

(* ZREMRANGEBYSCORE takes nothing of the last window, and all that is      *)
(* older than the window of the request.                                   *)
LEMMA PruneKeeps ==
    ASSUME LimitInv, NEW c \in Calls, Prune(c), moment' = moment
    PROVE  LimitInv'
<1>1. PICK k : k = KeyOf(c)
  OBVIOUS
<1>2. PICK old : old = held[c]
  OBVIOUS
<1>3. at[c] = "check" /\ at[c] \in AllowLabels
  BY DEF Prune, AllowLabels
<1>4. /\ old \in Checks /\ old # None /\ old.time \in Nat /\ old.time <= moment /\ moment \in Nat
      /\ reply[c] = "none" /\ ask[c].op # "settier" /\ k \in Keys /\ old.entry = "none"
  BY <1>1, <1>2, <1>3, AllowHolds DEF LimitInv, LimitPlaces
<1>5. PICK past : past = {d \in Logged(k) : held[d].time <= old.time - Span}
  OBVIOUS
<1>6. past \subseteq Calls /\ past \subseteq Logged(k)
  BY <1>5 DEF Logged
<1>7. PICK h : h = [old EXCEPT !.past = past]
  OBVIOUS
<1>8. h \in Checks /\ h.time = old.time /\ h.entry = "none" /\ h.past = past
  BY <1>4, <1>6, <1>7 DEF Checks
<1>9. h # None
  BY <1>8, LimitAssumption
<1>10. PICK left : left = Pruned(k, old.time)
  OBVIOUS
<1>11. left = {e \in entries[k] : e.time > old.time - Span}
  BY <1>10 DEF Pruned
<1>12. /\ entries' = [entries EXCEPT ![k] = left]
       /\ deadlines' = [deadlines EXCEPT ![k] = IF left = {} THEN None ELSE @]
       /\ held' = [held EXCEPT ![c] = h] /\ ask' = ask /\ at' = [at EXCEPT ![c] = "count"]
       /\ reply' = [reply EXCEPT ![c] = "none"]
  BY <1>1, <1>2, <1>4, <1>5, <1>7, <1>10 DEF Prune, Hold, Goto, LimitInv, LimitTypeOK
<1>13. /\ entries' \in [Keys -> SUBSET [of : Calls, time : Nat]]
       /\ deadlines' \in [Keys -> Nat \cup {None}]
       /\ \A q \in Keys : deadlines'[q] \in {None, deadlines[q], moment + Span + 1}
       /\ entries'[k] = left /\ \A q \in Keys \ {k} : entries'[q] = entries[q]
  BY <1>4, <1>11, <1>12 DEF LimitInv, LimitTypeOK
<1>14. at'[c] = "count" /\ held'[c] = h /\ reply'[c] = "none" /\ ask'[c] = ask[c]
  BY <1>12 DEF LimitInv, LimitTypeOK
<1>15. LimitPlaces(c)'
  BY <1>4, <1>8, <1>9, <1>14 DEF LimitPlaces, AllowLabels
<1>16. ASSUME NEW e \in left PROVE e.of \notin past
  <2>1. e \in entries[k] /\ e.time > old.time - Span /\ e.time = held[e.of].time /\ e.time \in Nat
    BY <1>4, <1>11, <1>16 DEF LimitInv, EntriesAreLogged, LimitTypeOK
  <2> QED BY <1>4, <1>5, <2>1, LimitAssumption
<1>17. past \subseteq Logged(k)'
  <2>1. ASSUME NEW d \in past PROVE d \in Logged(k)'
    <3>1. /\ d \in Calls /\ ask[d].op \in {"tenantallow", "endpoint"} /\ held[d] # None
          /\ KeyOf(d) = k /\ held[d].entry # "none"
      BY <1>6, <2>1 DEF Logged
    <3>2. d # c
      BY <1>2, <1>4, <3>1
    <3>3. held'[d] = held[d] /\ ask'[d] = ask[d]
      BY <1>12, <3>1, <3>2 DEF LimitInv, LimitTypeOK
    <3>4. KeyOf(d)' = k
      BY <3>1, <3>3 DEF KeyOf
    <3> QED BY <3>1, <3>3, <3>4 DEF Logged
  <2> QED BY <2>1
<1>18. KeyOf(c)' = k
  BY <1>1, <1>14 DEF KeyOf
<1>19. PastIsGone(c)'
  BY <1>8, <1>13, <1>14, <1>16, <1>17, <1>18 DEF PastIsGone
<1>20. \A q \in Keys : \A e \in entries'[q] : e \in entries[q]
  BY <1>11, <1>13
<1>21. ASSUME NEW q \in Keys, NEW e \in entries[q], e.time > moment - Span
       PROVE  e \in entries'[q]
  <2>1. e.time \in Nat
    BY <1>21 DEF LimitInv, LimitTypeOK
  <2>2. e.time > old.time - Span
    BY <1>4, <1>21, <2>1, LimitAssumption
  <2> QED BY <1>11, <1>13, <1>21, <2>2
<1>22. "count" \in AllowLabels /\ at[c] # "done"
  BY <1>3 DEF AllowLabels
<1> QED
  BY <1>2, <1>4, <1>8, <1>9, <1>12, <1>13, <1>15, <1>19, <1>20, <1>21, <1>22, LimitMoves

(* The entries of a key are at least the recorded requests of the last     *)
(* window, and at most the requests that have added one, save those that a *)
(* request which counts has pruned.                                        *)
LEMMA EntriesAreBetween ==
    ASSUME LimitInv, NEW k \in Keys, NEW past, \A e \in entries[k] : e.of \notin past
    PROVE  /\ IsFiniteSet(entries[k])
           /\ Cardinality(Recent(k)) <= Cardinality(entries[k])
           /\ Cardinality(entries[k]) <= Cardinality(Logged(k) \ past)
<1>1. PICK L : L = entries[k]
  OBVIOUS
<1>2. PICK S : S = Logged(k) \ past
  OBVIOUS
<1>3. PICK N : N = Recent(k)
  OBVIOUS
<1>4. IsFiniteSet(S)
  BY <1>2, CallsAssumption, FS_Subset DEF Logged
<1>5. \A e \in L : e.of \in S /\ e.time = held[e.of].time /\ e \in [of : Calls, time : Nat]
  BY <1>1, <1>2 DEF LimitInv, EntriesAreLogged, LimitTypeOK
<1>6. IsFiniteSet(L) /\ Cardinality(L) <= Cardinality(S)
  <2>1. PICK f : f = [e \in L |-> e.of]
    OBVIOUS
  <2>2. f \in [L -> S]
    BY <1>5, <2>1
  <2>3. \A a, b \in L : f[a] = f[b] => a = b
    BY <1>5, <2>1
  <2>4. f \in Injection(L, S)
    BY <2>2, <2>3 DEF Injection, IsInjective
  <2> QED BY <1>4, <2>4, FS_Injection
<1>7. Cardinality(N) <= Cardinality(L)
  <2>1. ASSUME NEW d \in N PROVE Entry(d) \in L
    BY <1>1, <1>3, <2>1 DEF Recent, LimitInv, RecordedAreEntered
  <2>2. PICK f : f = [d \in N |-> Entry(d)]
    OBVIOUS
  <2>3. f \in [N -> L]
    BY <2>1, <2>2
  <2>4. \A a, b \in N : f[a] = f[b] => a = b
    BY <2>2 DEF Entry
  <2>5. f \in Injection(N, L)
    BY <2>3, <2>4 DEF Injection, IsInjective
  <2> QED BY <1>6, <2>5, FS_Injection
<1> QED BY <1>1, <1>2, <1>3, <1>6, <1>7

(* The count decides as it should. *)
LEMMA CountKeeps ==
    ASSUME LimitInv, NEW c \in Calls, Count(c), moment' = moment
    PROVE  LimitInv'
<1>1. PICK k : k = KeyOf(c)
  OBVIOUS
<1>2. PICK old : old = held[c]
  OBVIOUS
<1>3. at[c] = "count" /\ at[c] \in AllowLabels
  BY DEF Count, AllowLabels
<1>4. /\ old \in Checks /\ old # None /\ old.time <= moment /\ old.limit \in Int
      /\ reply[c] = "none" /\ ask[c].op # "settier" /\ k \in Keys /\ old.entry = "none"
  BY <1>1, <1>2, <1>3, AllowHolds DEF LimitInv, LimitPlaces
<1>5. PICK N : N = Recent(k)
  OBVIOUS
<1>6. PICK S : S = Logged(k) \ old.past
  OBVIOUS
<1>7. N \subseteq Calls /\ S \subseteq Calls
  BY <1>5, <1>6 DEF Recent, Logged
<1>8. PICK n : n = Cardinality(entries[k])
  OBVIOUS
<1>9. \A e \in entries[k] : e.of \notin old.past
  BY <1>1, <1>2, <1>3 DEF LimitInv, PastIsGone
<1>10. IsFiniteSet(entries[k]) /\ Cardinality(N) <= n /\ n <= Cardinality(S)
  BY <1>4, <1>5, <1>6, <1>8, <1>9, EntriesAreBetween
<1>11. n \in Nat /\ Cardinality(N) \in Nat /\ Cardinality(S) \in Nat
  <2>1. IsFiniteSet(N) /\ IsFiniteSet(S)
    BY <1>7, CallsAssumption, FS_Subset
  <2> QED BY <1>8, <1>10, <2>1, FS_CardinalityType
<1>12. PICK found, label :
         /\ Hold(c, [old EXCEPT !.past = {}, !.found = found]) /\ Goto(c, label)
         /\ found \subseteq Calls
         /\ \/ label = "record" /\ Cardinality(found) < old.limit
            \/ label = "oldest" /\ Cardinality(found) >= old.limit
  <2>1. CASE Within(n, old.limit)
    <3>1. Hold(c, [old EXCEPT !.past = {}, !.found = N]) /\ Goto(c, "record")
      BY <1>1, <1>2, <1>5, <1>8, <2>1 DEF Count
    <3>2. Cardinality(N) < old.limit
      BY <1>4, <1>10, <1>11, <2>1 DEF Within
    <3> QED BY <1>7, <3>1, <3>2
  <2>2. CASE ~Within(n, old.limit)
    <3>1. Hold(c, [old EXCEPT !.past = {}, !.found = S]) /\ Goto(c, "oldest")
      BY <1>1, <1>2, <1>6, <1>8, <2>2 DEF Count
    <3>2. Cardinality(S) >= old.limit
      BY <1>4, <1>10, <1>11, <2>2 DEF Within
    <3> QED BY <1>7, <3>1, <3>2
  <2> QED BY <2>1, <2>2
<1>13. PICK mid : mid = [old EXCEPT !.past = {}]
  OBVIOUS
<1>14. mid \in Checks /\ mid.time = old.time /\ mid.limit = old.limit /\ mid.entry = "none"
  BY <1>4, <1>13 DEF Checks
<1>15. PICK h : h = [mid EXCEPT !.found = found]
  OBVIOUS
<1>16. /\ h \in Checks /\ h.time = old.time /\ h.limit = old.limit /\ h.entry = "none"
       /\ h.found = found
  BY <1>12, <1>14, <1>15 DEF Checks
<1>17. h # None
  BY <1>16, LimitAssumption
<1>18. /\ held' = [held EXCEPT ![c] = h] /\ ask' = ask /\ at' = [at EXCEPT ![c] = label]
       /\ reply' = [reply EXCEPT ![c] = "none"] /\ entries' = entries /\ deadlines' = deadlines
  BY <1>4, <1>12, <1>13, <1>15 DEF Count, Hold, Goto, LimitInv, LimitTypeOK
<1>19. label \in AllowLabels /\ at[c] # "done"
  BY <1>3, <1>12 DEF AllowLabels
<1>20. at'[c] = label /\ held'[c] = h /\ reply'[c] = "none" /\ ask'[c] = ask[c]
  BY <1>18, <1>19 DEF LimitInv, LimitTypeOK
<1>21. LimitPlaces(c)' /\ PastIsGone(c)'
  BY <1>4, <1>12, <1>16, <1>17, <1>20 DEF LimitPlaces, PastIsGone, AllowLabels
<1>22. /\ entries' \in [Keys -> SUBSET [of : Calls, time : Nat]]
       /\ deadlines' \in [Keys -> Nat \cup {None}]
  BY <1>18 DEF LimitInv, LimitTypeOK
<1>23. h.time <= moment /\ label \in AllowLabels \cup {"start", "done"}
  BY <1>4, <1>16, <1>19
<1> QED BY <1>2, <1>4, <1>16, <1>17, <1>18, <1>19, <1>21, <1>22, <1>23, LimitMoves

(* ZADD brings the first entry of the request. *)
LEMMA AddEntryKeeps ==
    ASSUME LimitInv, NEW c \in Calls, AddEntry(c), moment' = moment
    PROVE  LimitInv'
<1>1. PICK k : k = KeyOf(c)
  OBVIOUS
<1>2. PICK old : old = held[c]
  OBVIOUS
<1>3. at[c] = "record" /\ at[c] \in AllowLabels
  BY DEF AddEntry, AllowLabels
<1>4. /\ old \in Checks /\ old # None /\ old.time \in Nat /\ old.time <= moment
      /\ reply[c] = "none" /\ ask[c].op # "settier" /\ k \in Keys /\ old.entry = "none"
      /\ Cardinality(old.found) < old.limit
  BY <1>1, <1>2, <1>3, AllowHolds DEF LimitInv, LimitPlaces
<1>5. PICK h : h = [old EXCEPT !.entry = "added"]
  OBVIOUS
<1>6. /\ h \in Checks /\ h.time = old.time /\ h.limit = old.limit /\ h.found = old.found
      /\ h.entry = "added"
  BY <1>4, <1>5 DEF Checks
<1>7. h # None
  BY <1>6, LimitAssumption
<1>8. PICK new : new = Entry(c)
  OBVIOUS
<1>9. new \in [of : Calls, time : Nat] /\ new.of = c /\ new.time = old.time
  BY <1>2, <1>4, <1>8 DEF Entry
<1>10. /\ entries' = [entries EXCEPT ![k] = @ \cup {new}] /\ deadlines' = deadlines
       /\ held' = [held EXCEPT ![c] = h] /\ ask' = ask /\ at' = [at EXCEPT ![c] = "expire"]
       /\ reply' = [reply EXCEPT ![c] = "none"]
  BY <1>1, <1>2, <1>4, <1>5, <1>8 DEF AddEntry, Hold, Goto, LimitInv, LimitTypeOK
<1>11. /\ entries' \in [Keys -> SUBSET [of : Calls, time : Nat]]
       /\ deadlines' \in [Keys -> Nat \cup {None}]
       /\ entries'[k] = entries[k] \cup {new} /\ \A q \in Keys \ {k} : entries'[q] = entries[q]
  BY <1>4, <1>9, <1>10 DEF LimitInv, LimitTypeOK
<1>12. at'[c] = "expire" /\ held'[c] = h /\ reply'[c] = "none" /\ ask'[c] = ask[c]
  BY <1>10 DEF LimitInv, LimitTypeOK
<1>13. LimitPlaces(c)' /\ PastIsGone(c)'
  BY <1>4, <1>6, <1>7, <1>12 DEF LimitPlaces, PastIsGone, AllowLabels
<1>14. \A q \in Keys : \A e \in entries'[q] : e \in entries[q] \/ (e = new /\ q = k)
  BY <1>11
<1>15. \A q \in Keys : \A e \in entries'[q] :
         \/ e \in entries[q]
         \/ /\ e.of = c /\ q = KeyOf(c) /\ ask[c].op # "settier"
            /\ h # None /\ e.time = h.time /\ h.entry # "none"
            /\ held[c] # None /\ held[c].entry = "none"
  BY <1>1, <1>2, <1>4, <1>6, <1>7, <1>9, <1>14
<1>16. \A q \in Keys : \A e \in entries[q] : e.time > moment - Span => e \in entries'[q]
  BY <1>11
<1>17. "expire" \in AllowLabels /\ at[c] # "done" /\ h.time <= moment /\ h.entry # "safe"
  BY <1>3, <1>4, <1>6 DEF AllowLabels
<1> QED
  BY <1>2, <1>4, <1>6, <1>7, <1>10, <1>11, <1>13, <1>15, <1>16, <1>17, LimitMoves

(* EXPIRE gives the key a new time; the request is answered or let through. *)
LEMMA SetDeadlineKeeps ==
    ASSUME LimitInv, NEW c \in Calls, at[c] = "expire", SetDeadline(c),
           NEW r \in {"ok", "unchecked"}, Answer(c, r), entries' = entries, moment' = moment
    PROVE  LimitInv'
<1>1. PICK k : k = KeyOf(c)
  OBVIOUS
<1>2. PICK old : old = held[c]
  OBVIOUS
<1>3. at[c] \in AllowLabels /\ at[c] # "done"
  BY DEF AllowLabels
<1>4. /\ old \in Checks /\ old # None /\ old.time \in Nat /\ old.time <= moment /\ moment \in Nat
      /\ ask[c].op # "settier" /\ k \in Keys /\ Cardinality(old.found) < old.limit
  BY <1>1, <1>2, <1>3, AllowHolds DEF LimitInv, LimitPlaces
<1>5. PICK new : new = Entry(c)
  OBVIOUS
<1>6. new = [of |-> c, time |-> old.time]
  BY <1>2, <1>5 DEF Entry
<1>7. PICK state : state = IF new \in entries[k] THEN "safe" ELSE old.entry
  OBVIOUS
<1>8. PICK h : h = [old EXCEPT !.entry = state]
  OBVIOUS
<1>9. /\ h \in Checks /\ h.time = old.time /\ h.limit = old.limit /\ h.found = old.found
      /\ h.entry = state
  BY <1>4, <1>7, <1>8 DEF Checks
<1>10. h # None
  BY <1>9, LimitAssumption
<1>11. PICK fresh \in Nat : fresh = moment + Span + 1
  BY <1>4, LimitAssumption
<1>12. /\ deadlines' = [deadlines EXCEPT ![k] = IF entries[k] = {} THEN @ ELSE fresh]
       /\ held' = [held EXCEPT ![c] = h] /\ ask' = ask /\ at' = [at EXCEPT ![c] = "done"]
       /\ reply' = [reply EXCEPT ![c] = r]
  BY <1>1, <1>2, <1>5, <1>7, <1>8, <1>11 DEF SetDeadline, Hold, Answer
<1>13. /\ entries' \in [Keys -> SUBSET [of : Calls, time : Nat]]
       /\ deadlines' \in [Keys -> Nat \cup {None}]
       /\ \A q \in Keys : deadlines'[q] \in {None, deadlines[q], moment + Span + 1}
       /\ deadlines'[k] = IF entries[k] = {} THEN deadlines[k] ELSE moment + Span + 1
  BY <1>4, <1>11, <1>12 DEF LimitInv, LimitTypeOK
<1>14. at'[c] = "done" /\ held'[c] = h /\ reply'[c] = r /\ ask'[c] = ask[c]
  BY <1>12 DEF LimitInv, LimitTypeOK
<1>15. LimitPlaces(c)' /\ PastIsGone(c)'
  BY <1>4, <1>9, <1>10, <1>14 DEF LimitPlaces, PastIsGone, AllowLabels
<1>16. old.entry # "safe"
  BY <1>2, <1>3, AllowHolds
<1>17. h.entry = "safe" => new \in entries[k]
  BY <1>7, <1>9, <1>16
<1>18. h.entry = "safe" =>
         /\ [of |-> c, time |-> h.time] \in entries'[KeyOf(c)]
         /\ deadlines'[KeyOf(c)] = moment + Span + 1
  BY <1>1, <1>6, <1>9, <1>13, <1>17
<1>19. old.entry # "none" => h.entry # "none"
  BY <1>7, <1>9
<1> QED
  BY <1>2, <1>3, <1>4, <1>9, <1>10, <1>12, <1>13, <1>15, <1>18, <1>19, LimitMoves

(* A key that expires takes no entry of the last window with it. *)
LEMMA ExpireKeyKeeps ==
    ASSUME LimitInv, NEW k \in Keys, ExpireKey(k)
    PROVE  LimitInv'
<1>1. /\ ask' = ask /\ at' = at /\ held' = held /\ reply' = reply /\ moment' = moment
      /\ deadlines[k] # None /\ deadlines[k] <= moment
      /\ entries' = [entries EXCEPT ![k] = {}] /\ deadlines' = [deadlines EXCEPT ![k] = None]
  BY DEF ExpireKey, callVars
<1>2. LimitTypeOK'
  BY <1>1 DEF LimitInv, LimitTypeOK
<1>3. /\ entries'[k] = {} /\ deadlines'[k] = None
      /\ \A q \in Keys \ {k} : entries'[q] = entries[q] /\ deadlines'[q] = deadlines[q]
  BY <1>1 DEF LimitInv, LimitTypeOK
<1>4. \A q : Logged(q)' = Logged(q)
  BY <1>1 DEF Logged, KeyOf
<1>5. \A c \in Calls : KeyOf(c)' = KeyOf(c) /\ Entry(c)' = Entry(c)
  BY <1>1 DEF KeyOf, Entry
<1>6. \A q \in Keys : \A e \in entries'[q] : e \in entries[q]
  BY <1>3
<1>7. EntriesAreLogged'
  BY <1>1, <1>4, <1>6 DEF LimitInv, EntriesAreLogged
<1>8. RecordedAreEntered'
  <2>1. ASSUME NEW q \in Keys, NEW d \in Logged(q), held[d].entry = "safe"
        PROVE  /\ held[d].time > moment - Span => Entry(d) \in entries'[q]
               /\ deadlines'[q] = None \/ deadlines'[q] > held[d].time + Span
    <3>1. /\ held[d].time > moment - Span => Entry(d) \in entries[q]
          /\ deadlines[q] = None \/ deadlines[q] > held[d].time + Span
      BY <2>1 DEF LimitInv, RecordedAreEntered
    <3>2. CASE q # k
      BY <1>3, <3>1, <3>2
    <3>3. CASE q = k
      <4>1. d \in Calls /\ held[d] # None
        BY <2>1 DEF Logged
      <4>2. held[d].time \in Nat /\ moment \in Nat /\ deadlines[k] \in Nat
        BY <1>1, <4>1 DEF LimitInv, LimitTypeOK, Checks
      <4>3. ~(held[d].time > moment - Span)
        BY <1>1, <3>1, <3>3, <4>2, LimitAssumption
      <4> QED BY <1>3, <3>3, <4>3
    <3> QED BY <3>2, <3>3
  <2>2. \A q \in Keys : \A d \in Logged(q) : d \in Calls
    BY DEF Logged
  <2> QED BY <1>1, <1>4, <1>5, <2>1, <2>2 DEF LimitInv, RecordedAreEntered
<1>9. ASSUME NEW c \in Calls PROVE LimitPlaces(c)' /\ PastIsGone(c)'
  <2>1. LimitPlaces(c)'
    BY <1>1 DEF LimitInv, LimitPlaces
  <2>2. ASSUME at[c] = "count" PROVE KeyOf(c) \in Keys
    <3>1. at[c] \in AllowLabels
      BY <2>2 DEF AllowLabels
    <3> QED BY <3>1, AllowHolds
  <2>3. PICK q : q = KeyOf(c)
    OBVIOUS
  <2>4. Logged(KeyOf(c))' = Logged(q) /\ entries'[KeyOf(c)'] = entries'[q]
    BY <1>1, <1>5, <2>3 DEF Logged, KeyOf
  <2>5. PastIsGone(c)'
    BY <1>1, <1>5, <1>6, <2>2, <2>3, <2>4 DEF LimitInv, PastIsGone
  <2> QED BY <2>1, <2>5
<1> QED BY <1>2, <1>7, <1>8, <1>9 DEF LimitInv

(* Every step of the limiter and of time keeps the invariant. *)
LEMMA LimitStep ==
    LimitInv /\ [LimitNext]_limitAllVars => LimitInv'
<1> SUFFICES ASSUME LimitInv, [LimitNext]_limitAllVars PROVE LimitInv'
  OBVIOUS
<1>1. CASE UNCHANGED <<entries, deadlines, callVars>> /\ moment' \in Nat /\ moment <= moment'
  <2>1. /\ ask' = ask /\ at' = at /\ held' = held /\ reply' = reply /\ entries' = entries
        /\ deadlines' = deadlines
    BY <1>1 DEF callVars
  <2>2. LimitTypeOK'
    BY <1>1, <2>1 DEF LimitInv, LimitTypeOK
  <2>3. \A k : Logged(k)' = Logged(k)
    BY <2>1 DEF Logged, KeyOf
  <2>4. EntriesAreLogged'
    BY <2>1, <2>3 DEF LimitInv, EntriesAreLogged
  <2>5. \A c \in Calls : held[c] # None => held[c].time \in Nat
    BY DEF LimitInv, LimitTypeOK, Checks
  <2>6. \A c \in Calls : held'[c] # None => held'[c].time <= moment'
    BY <1>1, <2>1, <2>5 DEF LimitInv, LimitTypeOK, RecordedAreEntered
  <2>7. ASSUME NEW k \in Keys, NEW d \in Logged(k), held[d].entry = "safe",
               held[d].time > moment' - Span
        PROVE  Entry(d) \in entries[k]
    <3>1. held[d].time \in Nat
      BY <2>5 DEF Logged
    <3>2. held[d].time > moment - Span
      BY <1>1, <2>7, <3>1, LimitAssumption DEF LimitInv, LimitTypeOK
    <3> QED BY <2>7, <3>2 DEF LimitInv, RecordedAreEntered
  <2>8. \A d : Entry(d)' = Entry(d)
    BY <2>1 DEF Entry
  <2>9. RecordedAreEntered'
    BY <2>1, <2>3, <2>6, <2>7, <2>8 DEF LimitInv, RecordedAreEntered
  <2>10. \A c \in Calls : LimitPlaces(c)' /\ PastIsGone(c)'
    BY <2>1 DEF LimitInv, LimitPlaces, PastIsGone, Logged, KeyOf
  <2> QED BY <2>2, <2>4, <2>9, <2>10 DEF LimitInv
<1>2. ASSUME NEW c \in Calls, Malformed(c), UNCHANGED limitVars PROVE LimitInv'
  <2>1. /\ Answer(c, "refused") /\ UNCHANGED <<held, entries, deadlines, moment>>
        /\ at[c] = "start"
    BY <1>2 DEF Malformed, Refuse, limitVars
  <2>2. held[c] = None
    BY <2>1 DEF LimitInv, LimitPlaces
  <2> QED BY <2>1, <2>2, LimitAnswers
<1>3. ASSUME NEW c \in Calls, SetTenantTier(c) PROVE LimitInv'
  <2>1. /\ Answer(c, "ok") /\ UNCHANGED <<held, entries, deadlines, moment>>
        /\ at[c] = "start"
    BY <1>3 DEF SetTenantTier, Ok, Begins, Serving
  <2>2. held[c] = None
    BY <2>1 DEF LimitInv, LimitPlaces
  <2> QED BY <2>1, <2>2, LimitAnswers
<1>4. ASSUME NEW c \in Calls, TenantAllow(c) PROVE LimitInv'
  <2>1. at[c] = "start" /\ ask[c].op # "settier"
    BY <1>4 DEF TenantAllow, Begins, Serving
  <2>2. PICK n \in Int : n = TenantLimit(ask[c].tenant)
    BY LimitsAreNumbers
  <2>3. Hold(c, Check(n)) /\ Goto(c, "check") /\ UNCHANGED limitVars
    BY <1>4, <2>2 DEF TenantAllow
  <2> QED BY <2>1, <2>3, AllowBegins
<1>5. ASSUME NEW c \in Calls, EndpointAllow(c) PROVE LimitInv'
  <2>1. at[c] = "start" /\ ask[c].op # "settier"
    BY <1>5 DEF EndpointAllow, Begins, Serving
  <2>2. PICK n \in Int : n = FindConfig(ask[c].path)
    BY LimitsAreNumbers
  <2>3. Hold(c, Check(n)) /\ Goto(c, "check") /\ UNCHANGED limitVars
    BY <1>5, <2>2 DEF EndpointAllow
  <2> QED BY <2>1, <2>3, AllowBegins
<1>6. ASSUME NEW c \in Calls, AllowN(c) PROVE LimitInv'
  <2>1. moment' = moment
    BY <1>6 DEF AllowN
  <2>2. CASE Prune(c)
    BY <2>1, <2>2, PruneKeeps
  <2>3. CASE Count(c)
    BY <2>1, <2>3, CountKeeps
  <2>4. CASE Oldest(c)
    <3>1. /\ at[c] = "oldest" /\ at[c] # "done" /\ Answer(c, "refused")
          /\ UNCHANGED held /\ UNCHANGED <<entries, deadlines, moment>>
      BY <2>1, <2>4 DEF Oldest, Refuse
    <3> QED BY <3>1, LimitAnswers
  <2>5. CASE AddEntry(c)
    BY <2>1, <2>5, AddEntryKeeps
  <2>6. CASE at[c] = "expire" /\ SetDeadline(c) /\ (Answer(c, "ok") \/ Answer(c, "unchecked"))
               /\ entries' = entries
    BY <2>1, <2>6, SetDeadlineKeeps
  <2>7. CASE /\ at[c] \in AllowLabels /\ UNCHANGED <<deadlines, held>> /\ Answer(c, "unchecked")
             /\ UNCHANGED entries
    <3>1. at[c] # "done"
      BY <2>7 DEF AllowLabels
    <3> QED BY <2>1, <2>7, <3>1, LimitAnswers
  <2> QED BY <1>6, <2>2, <2>3, <2>4, <2>5, <2>6, <2>7 DEF AllowN, Unanswered, AllowLabels
<1>7. ASSUME NEW k \in Keys, ExpireKey(k) PROVE LimitInv'
  BY <1>7, ExpireKeyKeeps
<1>8. PassMoment =>
        UNCHANGED <<entries, deadlines, callVars>> /\ moment' \in Nat /\ moment <= moment'
  BY DEF PassMoment, LimitInv, LimitTypeOK
<1>9. UNCHANGED limitAllVars =>
        UNCHANGED <<entries, deadlines, callVars>> /\ moment' \in Nat /\ moment <= moment'
  BY DEF limitAllVars, limitVars, LimitInv, LimitTypeOK
<1> QED BY <1>1, <1>2, <1>3, <1>4, <1>5, <1>6, <1>7, <1>8, <1>9 DEF LimitNext

(* However the commands of requests overlap, whatever clocks they prune by *)
(* and whichever answers are lost: one that is let through within its      *)
(* limit follows fewer than its limit of recorded requests of the last     *)
(* window, one that is turned away at least its limit (AllowN).            *)
THEOREM LimitsHold ==
    LimitSpec => []LimitsAreExact
<1>1. CallsInit([Calls -> LimitAsks]) /\ LimitInit => LimitInv
  <2> SUFFICES ASSUME CallsInit([Calls -> LimitAsks]), LimitInit PROVE LimitInv
    OBVIOUS
  <2>1. LimitTypeOK
    BY DEF CallsInit, LimitInit, LimitTypeOK
  <2>2. \A k : Logged(k) = {}
    BY DEF CallsInit, Logged
  <2>3. \A c \in Calls : LimitPlaces(c) /\ PastIsGone(c)
    BY DEF CallsInit, LimitPlaces, PastIsGone, AllowLabels
  <2> QED BY <2>1, <2>2, <2>3
          DEF CallsInit, LimitInit, LimitInv, EntriesAreLogged, RecordedAreEntered
<1>2. LimitInv => LimitsAreExact
  BY DEF LimitInv, LimitPlaces, LimitsAreExact
<1> QED BY <1>1, <1>2, LimitStep, PTL DEF LimitSpec

-----------------------------------------------------------------------------
(* Audit log *)

AuditAsks ==
    [op : {"log"}, bad : BOOLEAN, logger : Loggers, zone : STRING]
      \cup [op : {"verifychain"}, bad : BOOLEAN, zone : STRING]
      \cup [op : {"enqueue"}, bad : BOOLEAN]

auditAllVars == <<auditVars, callVars>>

(* The audit log and its export, with any requests. *)
AuditSpec ==
    /\ CallsInit([Calls -> AuditAsks]) /\ AuditInit
    /\ [][AuditNext]_auditAllVars

Signatures == [of : Calls \cup {"genesis", "torn"}, nanos : BOOLEAN]

Rows == [sig : Signatures, prev : Signatures, stamp : Nat, of : Calls, zone : STRING, by : Loggers]

Drafts == [stamp : Nat, nanos : BOOLEAN, prev : Signatures]

AuditTypeOK ==
    /\ ask \in [Calls -> AuditAsks]
    /\ at = [c \in Calls |-> at[c]]
    /\ held = [c \in Calls |-> held[c]]
    /\ reply = [c \in Calls |-> reply[c]]
    /\ trail \in Seq(Rows)
    /\ last \in [Loggers -> Signatures]
    /\ clock \in Nat /\ restarts \in Nat
    /\ loose \subseteq Calls

(* A call is at work on an entry; each label is told from the others. *)
AtLink(c) == ask[c].op = "log" /\ at[c] = "link"
AtStore(c) == ask[c].op = "log" /\ at[c] = "store"
AtMove(c) == ask[c].op = "log" /\ at[c] = "move"
Writing(c) == AtLink(c) \/ AtStore(c) \/ AtMove(c)

Stored(sig) == \E n \in 1 .. Len(trail) : trail[n].sig = sig

(* What a logger links its next entry to has been stored. *)
LastIsStored == \A l \in Loggers : last[l] = Genesis \/ Stored(last[l])

(* An entry being written has a time that is past; once signed, it is      *)
(* linked to what is stored, and once stored, it is in the table.          *)
DraftsHold ==
    \A c \in Calls :
        /\ Writing(c) => held[c] \in Drafts /\ held[c].stamp <= clock
        /\ AtStore(c) => \/ held[c].prev = Genesis \/ Stored(held[c].prev)
                         \/ held[c].prev = Torn /\ c \in loose
        /\ AtMove(c) => Stored(Sign(c, held[c].nanos))

(* Calls that overlap on a logger are known. *)
OverlapsAreLoose ==
    \A c, d \in Calls :
        Writing(c) /\ Writing(d) /\ c # d /\ ask[c].logger = ask[d].logger => c \in loose

RowsHold ==
    \A n \in 1 .. Len(trail) :
        /\ trail[n].stamp <= clock
        /\ trail[n].sig = Sign(trail[n].of, trail[n].sig.nanos)
        /\ \/ trail[n].prev = Genesis
           \/ trail[n].prev = Torn /\ trail[n].of \in loose
           \/ \E m \in 1 .. n - 1 : trail[m].sig = trail[n].prev

(* A reason for a chain not to verify. *)
Reason ==
    \/ restarts > 0 \/ loose # {}
    \/ \E n \in 1 .. Len(trail) : trail[n].sig.nanos
    \/ \E n, m \in 1 .. Len(trail) :
          trail[n].by # trail[m].by \/ trail[n].zone # trail[m].zone

BrokenForAReason ==
    \A c \in Calls : ask[c].op = "verifychain" /\ reply[c] = "broken" => Reason

(* Without restarts, overlaps and lost answers a logger writes entries     *)
(* with rising times,                                                      *)
Rising ==
    \A n, m \in 1 .. Len(trail) :
        n < m /\ trail[n].by = trail[m].by => trail[n].stamp < trail[m].stamp

(* each linked to the one before it,                                       *)
Chained ==
    \A n, m \in 1 .. Len(trail) :
        n < m /\ trail[n].by = trail[m].by
          /\ (\A k \in 1 .. Len(trail) : n < k /\ k < m => trail[k].by # trail[m].by)
        => trail[m].prev = trail[n].sig

(* the next of which is later and linked to the hash that is remembered,   *)
NextInLine ==
    \A c \in Calls :
        /\ AtLink(c) \/ AtStore(c) =>
             \A n \in 1 .. Len(trail) :
                trail[n].by = ask[c].logger => trail[n].stamp < held[c].stamp
        /\ AtStore(c) => held[c].prev = last[ask[c].logger]

(* which is that of the last entry, or is about to be. *)
Remembered ==
    \A n \in 1 .. Len(trail) :
        (\A k \in 1 .. Len(trail) : n < k => trail[k].by # trail[n].by) =>
          /\ \A c \in Calls : AtMove(c) /\ ask[c].logger = trail[n].by =>
                trail[n].sig = Sign(c, held[c].nanos)
          /\ (\A c \in Calls : AtMove(c) => ask[c].logger # trail[n].by) =>
                last[trail[n].by] = trail[n].sig

Orderly == Rising /\ Chained /\ NextInLine /\ Remembered

ChainInv ==
    /\ AuditTypeOK /\ LastIsStored /\ DraftsHold /\ OverlapsAreLoose /\ RowsHold
    /\ BrokenForAReason
    /\ restarts = 0 /\ loose = {} => Orderly

-----------------------------------------------------------------------------
(* A chain that has no reason to fail verifies: by time it is in the order *)
(* of the table.                                                           *)
LEMMA WholeChainsVerify ==
    ASSUME ChainInv, NEW zone,
           ~(Linked(RecentLogs(zone)) /\ \A n \in RecentLogs(zone) : Verify(trail[n]))
    PROVE  Reason
<1> SUFFICES ASSUME restarts = 0, loose = {},
                    \A n \in 1 .. Len(trail) : ~trail[n].sig.nanos,
                    \A n, m \in 1 .. Len(trail) :
                      trail[n].by = trail[m].by /\ trail[n].zone = trail[m].zone
             PROVE  FALSE
  BY DEF ChainInv, AuditTypeOK, Reason
<1>0. \A n \in RecentLogs(zone) : Verify(trail[n])
  <2> SUFFICES ASSUME NEW n \in RecentLogs(zone) PROVE Verify(trail[n])
    OBVIOUS
  <2>1. n \in 1 .. Len(trail)
    BY DEF RecentLogs
  <2>2. trail[n] \in Rows
    BY <2>1 DEF ChainInv, AuditTypeOK
  <2>3. trail[n].sig.nanos = FALSE
    BY <2>1, <2>2 DEF Rows, Signatures
  <2>4. trail[n].sig = Sign(trail[n].of, trail[n].sig.nanos)
    BY <2>1 DEF ChainInv, RowsHold
  <2> QED BY <2>3, <2>4 DEF Verify
<1>1. PICK n, m \in RecentLogs(zone) :
        /\ trail[n].stamp < trail[m].stamp
        /\ \A k \in RecentLogs(zone) :
             ~(trail[n].stamp < trail[k].stamp /\ trail[k].stamp < trail[m].stamp)
        /\ trail[m].prev # trail[n].sig
  BY <1>0 DEF Linked
<1>2. n \in 1 .. Len(trail) /\ m \in 1 .. Len(trail) /\ trail[m].zone = zone
  BY DEF RecentLogs
<1>3. RecentLogs(zone) = 1 .. Len(trail)
  BY <1>2 DEF RecentLogs
<1>4. \A k \in 1 .. Len(trail) : trail[k].stamp \in Nat
  <2>1. \A k \in 1 .. Len(trail) : trail[k] \in Rows
    BY DEF ChainInv, AuditTypeOK
  <2> QED BY <2>1 DEF Rows
<1>5. Rising /\ Chained
  BY DEF ChainInv, Orderly
<1>6. n < m
  <2>1. \A i, j \in 1 .. Len(trail) : i < j => trail[i].stamp < trail[j].stamp
    BY <1>5 DEF Rising
  <2>2. ~(m < n) /\ m # n
    BY <1>1, <1>2, <1>4, <2>1
  <2> QED BY <1>2, <2>2
<1>7. \A k \in 1 .. Len(trail) : n < k /\ k < m => FALSE
  <2>1. \A i, j \in 1 .. Len(trail) : i < j => trail[i].stamp < trail[j].stamp
    BY <1>5 DEF Rising
  <2> QED BY <1>1, <1>2, <1>3, <2>1
<1> QED BY <1>1, <1>2, <1>5, <1>6, <1>7 DEF Chained

(* A call that leaves the log alone. *)
LEMMA LogUntouched ==
    ASSUME ChainInv, NEW c \in Calls, ~AtMove(c), UNCHANGED <<logVars, ask>>,
           NEW label, at' = [at EXCEPT ![c] = label],
           NEW h, held' = [held EXCEPT ![c] = h],
           NEW r, reply' = [reply EXCEPT ![c] = r],
           ask[c].op = "log" => label \notin {"link", "store", "move"},
           ask[c].op = "verifychain" /\ r = "broken" => Reason
    PROVE  ChainInv'
<1>1. /\ trail' = trail /\ last' = last /\ clock' = clock /\ restarts' = restarts
      /\ loose' = loose /\ ask' = ask
  BY DEF logVars
<1>2. AuditTypeOK'
  BY <1>1 DEF ChainInv, AuditTypeOK
<1>3. /\ \A d \in Calls : AtLink(d)' <=> AtLink(d) /\ d # c
      /\ \A d \in Calls : AtStore(d)' <=> AtStore(d) /\ d # c
      /\ \A d \in Calls : AtMove(d)' <=> AtMove(d) /\ d # c
      /\ \A d \in Calls : d # c => held'[d] = held[d]
  BY <1>1 DEF ChainInv, AuditTypeOK, AtLink, AtStore, AtMove
<1>4. LastIsStored' /\ RowsHold'
  BY <1>1 DEF ChainInv, LastIsStored, RowsHold, Stored, Genesis, Torn, Sign
<1>5. DraftsHold'
  BY <1>1, <1>3 DEF ChainInv, DraftsHold, Writing, Stored, Genesis, Torn, Sign
<1>6. OverlapsAreLoose'
  BY <1>1, <1>3 DEF ChainInv, OverlapsAreLoose, Writing
<1>7. BrokenForAReason'
  <2>1. Reason' <=> Reason
    BY <1>1 DEF Reason
  <2>2. ASSUME NEW d \in Calls, ask'[d].op = "verifychain", reply'[d] = "broken" PROVE Reason
    <3>1. CASE d = c
      BY <1>1, <2>2, <3>1 DEF ChainInv, AuditTypeOK
    <3>2. CASE d # c
      BY <1>1, <2>2, <3>2 DEF ChainInv, AuditTypeOK, BrokenForAReason
    <3> QED BY <3>1, <3>2
  <2> QED BY <2>1, <2>2 DEF BrokenForAReason
<1>8. ASSUME restarts' = 0, loose' = {} PROVE Orderly'
  <2>1. Orderly
    BY <1>1, <1>8 DEF ChainInv
  <2>2. Rising' /\ Chained'
    <3>1. trail' = trail /\ Rising /\ Chained
      BY <1>1, <2>1 DEF Orderly
    <3>2. Rising'
      BY <3>1 DEF Rising
    <3>3. Chained'
      BY <3>1 DEF Chained
    <3> QED BY <3>2, <3>3
  <2>3. NextInLine'
    BY <1>1, <1>3, <2>1 DEF Orderly, NextInLine
  <2>4. Remembered'
    <3> SUFFICES ASSUME NEW n \in 1 .. Len(trail),
                        \A k \in 1 .. Len(trail) : n < k => trail[k].by # trail[n].by
                 PROVE  /\ \A d \in Calls : AtMove(d)' /\ ask[d].logger = trail[n].by =>
                              trail[n].sig = Sign(d, held'[d].nanos)
                        /\ (\A d \in Calls : AtMove(d)' => ask[d].logger # trail[n].by) =>
                              last[trail[n].by] = trail[n].sig
      BY <1>1 DEF Remembered, Sign
    <3>1. \A d \in Calls : AtMove(d) /\ ask[d].logger = trail[n].by =>
             trail[n].sig = Sign(d, held[d].nanos)
      BY <2>1 DEF Orderly, Remembered
    <3> QED BY <1>3, <2>1, <3>1 DEF Orderly, Remembered
  <2> QED BY <2>2, <2>3, <2>4 DEF Orderly
<1> QED BY <1>2, <1>4, <1>5, <1>6, <1>7, <1>8 DEF ChainInv

(* Log begins: the time is past every other. *)
LEMMA LogStamps ==
    ASSUME ChainInv, NEW c \in Calls, Stamp(c), UNCHANGED restarts
    PROVE  ChainInv'
<1>1. PICK nanos \in BOOLEAN : Hold(c, [stamp |-> clock + 1, nanos |-> nanos, prev |-> Genesis])
  BY DEF Stamp
<1>2. PICK h : h = [stamp |-> clock + 1, nanos |-> nanos, prev |-> Genesis]
  OBVIOUS
<1>3. h \in Drafts /\ h.stamp = clock + 1
  BY <1>2 DEF Drafts, Genesis, Sign, Signatures, ChainInv, AuditTypeOK
<1>4. /\ ask[c].op = "log" /\ at[c] = "start" /\ ask' = ask /\ reply' = reply /\ trail' = trail
      /\ last' = last /\ clock' = clock + 1 /\ restarts' = restarts
      /\ at' = [at EXCEPT ![c] = "link"] /\ held' = [held EXCEPT ![c] = h]
  BY <1>1, <1>2 DEF Stamp, Begins, Serving, Goto, Hold
<1>5. PICK others : others = {d \in Calls : Logging(d, ask[c].logger)}
  OBVIOUS
<1>6. loose' = IF others = {} THEN loose ELSE loose \cup others \cup {c}
  BY <1>5 DEF Stamp
<1>7. /\ \A d \in Calls : d \in others <=> Writing(d) /\ ask[d].logger = ask[c].logger
      /\ others \subseteq Calls
  BY <1>5 DEF Logging, Writing, AtLink, AtStore, AtMove
<1>8. /\ \A d \in Calls : AtLink(d)' <=> AtLink(d) \/ d = c
      /\ \A d \in Calls : AtStore(d)' <=> AtStore(d)
      /\ \A d \in Calls : AtMove(d)' <=> AtMove(d)
      /\ ~AtLink(c) /\ ~AtStore(c) /\ ~AtMove(c)
      /\ \A d \in Calls : d # c => held'[d] = held[d]
      /\ held'[c] = h
  BY <1>4 DEF ChainInv, AuditTypeOK, AtLink, AtStore, AtMove
<1>9. loose \subseteq loose' /\ loose' \subseteq Calls /\ clock \in Nat
  BY <1>6, <1>7 DEF ChainInv, AuditTypeOK
<1>10. AuditTypeOK'
  <2>1. clock' \in Nat /\ restarts' \in Nat /\ loose' \subseteq Calls
    BY <1>4, <1>9 DEF ChainInv, AuditTypeOK
  <2>2. ask' \in [Calls -> AuditAsks] /\ trail' \in Seq(Rows) /\ last' \in [Loggers -> Signatures]
    BY <1>4 DEF ChainInv, AuditTypeOK
  <2>3. /\ at' = [d \in Calls |-> at'[d]] /\ held' = [d \in Calls |-> held'[d]]
        /\ reply' = [d \in Calls |-> reply'[d]]
    BY <1>4 DEF ChainInv, AuditTypeOK
  <2> QED BY <2>1, <2>2, <2>3 DEF AuditTypeOK
<1>12. LastIsStored'
  BY <1>4 DEF ChainInv, LastIsStored, Stored, Genesis, Sign
<1>13. RowsHold'
  <2>1. \A n \in 1 .. Len(trail) : trail[n].stamp \in Nat
    <3>1. \A n \in 1 .. Len(trail) : trail[n] \in Rows
      BY DEF ChainInv, AuditTypeOK
    <3> QED BY <3>1 DEF Rows
  <2> SUFFICES ASSUME NEW n \in 1 .. Len(trail)
               PROVE  /\ trail[n].stamp <= clock'
                      /\ trail[n].sig = Sign(trail[n].of, trail[n].sig.nanos)
                      /\ \/ trail[n].prev = Genesis
                         \/ trail[n].prev = Torn /\ trail[n].of \in loose'
                         \/ \E m \in 1 .. n - 1 : trail[m].sig = trail[n].prev
    BY <1>4 DEF RowsHold, Genesis, Torn, Sign
  <2> QED BY <1>4, <1>9, <2>1 DEF ChainInv, RowsHold
<1>14. DraftsHold'
  <2> SUFFICES ASSUME NEW d \in Calls
               PROVE  /\ Writing(d)' => held'[d] \in Drafts /\ held'[d].stamp <= clock'
                      /\ AtStore(d)' => \/ held'[d].prev = Genesis \/ Stored(held'[d].prev)
                                        \/ held'[d].prev = Torn /\ d \in loose'
                      /\ AtMove(d)' => Stored(Sign(d, held'[d].nanos))
    BY <1>4 DEF DraftsHold, Genesis, Torn, Sign, Stored
  <2>1. CASE d = c
    BY <1>3, <1>4, <1>8, <1>9, <2>1 DEF Writing
  <2>2. CASE d # c
    <3>1. /\ held'[d] = held[d] /\ (AtStore(d)' <=> AtStore(d)) /\ (AtMove(d)' <=> AtMove(d))
          /\ (Writing(d)' <=> Writing(d))
      BY <1>8, <2>2 DEF Writing
    <3>2. AtStore(d) => \/ held[d].prev = Genesis \/ Stored(held[d].prev)
                        \/ held[d].prev = Torn /\ d \in loose
      BY DEF ChainInv, DraftsHold
    <3>3. AtMove(d) => Stored(Sign(d, held[d].nanos))
      BY DEF ChainInv, DraftsHold
    <3>4. Writing(d) => held[d] \in Drafts /\ held[d].stamp <= clock
      BY DEF ChainInv, DraftsHold
    <3>5. Writing(d) => held[d].stamp <= clock'
      BY <1>4, <1>9, <3>4 DEF Drafts
    <3> QED BY <1>9, <3>1, <3>2, <3>3, <3>4, <3>5
  <2> QED BY <2>1, <2>2
<1>15. OverlapsAreLoose'
  <2> SUFFICES ASSUME NEW d \in Calls, NEW e \in Calls, Writing(d)', Writing(e)', d # e,
                      ask[d].logger = ask[e].logger
               PROVE  d \in loose'
    BY <1>4 DEF OverlapsAreLoose
  <2>1. \A g \in Calls : Writing(g)' => Writing(g) \/ g = c
    BY <1>8 DEF Writing
  <2>2. CASE d = c
    <3>1. e \in others
      BY <1>7, <2>1, <2>2
    <3> QED BY <1>6, <2>2, <3>1
  <2>3. CASE d # c /\ e = c
    <3>1. d \in others
      BY <1>7, <2>1, <2>3
    <3> QED BY <1>6, <3>1
  <2>4. CASE d # c /\ e # c
    <3>1. d \in loose
      BY <2>1, <2>4 DEF ChainInv, OverlapsAreLoose
    <3> QED BY <1>9, <3>1
  <2> QED BY <2>2, <2>3, <2>4
<1>16. BrokenForAReason'
  <2>1. Reason => Reason'
    BY <1>4, <1>9 DEF Reason
  <2> QED BY <1>4, <2>1 DEF ChainInv, BrokenForAReason
<1>17. ASSUME restarts' = 0, loose' = {} PROVE Orderly'
  <2>1. Orderly
    BY <1>4, <1>9, <1>17 DEF ChainInv
  <2>2. Rising' /\ Chained'
    <3>1. trail' = trail /\ Rising /\ Chained
      BY <1>4, <2>1 DEF Orderly
    <3>2. Rising'
      BY <3>1 DEF Rising
    <3>3. Chained'
      BY <3>1 DEF Chained
    <3> QED BY <3>2, <3>3
  <2>3. NextInLine'
    <3> SUFFICES ASSUME NEW d \in Calls
                 PROVE  /\ AtLink(d)' \/ AtStore(d)' =>
                             \A n \in 1 .. Len(trail) :
                                trail[n].by = ask[d].logger => trail[n].stamp < held'[d].stamp
                        /\ AtStore(d)' => held'[d].prev = last[ask[d].logger]
      BY <1>4 DEF NextInLine
    <3>1. CASE d = c
      <4>1. \A n \in 1 .. Len(trail) : trail[n].stamp \in Nat
        <5>1. \A n \in 1 .. Len(trail) : trail[n] \in Rows
          BY DEF ChainInv, AuditTypeOK
        <5> QED BY <5>1 DEF Rows
      <4>2. \A n \in 1 .. Len(trail) : trail[n].stamp < h.stamp
        BY <1>3, <1>9, <4>1 DEF ChainInv, RowsHold
      <4> QED BY <1>8, <3>1, <4>2
    <3>2. CASE d # c
      BY <1>8, <2>1, <3>2 DEF Orderly, NextInLine
    <3> QED BY <3>1, <3>2
  <2>4. Remembered'
    <3> SUFFICES ASSUME NEW n \in 1 .. Len(trail),
                        \A k \in 1 .. Len(trail) : n < k => trail[k].by # trail[n].by
                 PROVE  /\ \A d \in Calls : AtMove(d)' /\ ask[d].logger = trail[n].by =>
                              trail[n].sig = Sign(d, held'[d].nanos)
                        /\ (\A d \in Calls : AtMove(d)' => ask[d].logger # trail[n].by) =>
                              last[trail[n].by] = trail[n].sig
      BY <1>4 DEF Remembered, Sign
    <3>1. \A d \in Calls : AtMove(d) /\ ask[d].logger = trail[n].by =>
             trail[n].sig = Sign(d, held[d].nanos)
      BY <2>1 DEF Orderly, Remembered
    <3> QED BY <1>8, <2>1, <3>1 DEF Orderly, Remembered
  <2> QED BY <2>2, <2>3, <2>4 DEF Orderly
<1> QED BY <1>10, <1>12, <1>13, <1>14, <1>15, <1>16, <1>17 DEF ChainInv

(* Log reads the hash: a torn one only if another call is replacing it. *)
LEMMA LogLinks ==
    ASSUME ChainInv, NEW c \in Calls, Link(c), UNCHANGED restarts
    PROVE  ChainInv'
<1>0. PICK l : l = ask[c].logger
  OBVIOUS
<1>1. PICK hash \in LastHash(l) : Hold(c, [held[c] EXCEPT !.prev = hash])
  BY <1>0 DEF Link
<1>2. PICK h : h = [held[c] EXCEPT !.prev = hash]
  OBVIOUS
<1>3. /\ ask[c].op = "log" /\ at[c] = "link" /\ ask' = ask /\ reply' = reply /\ trail' = trail
      /\ last' = last /\ clock' = clock /\ restarts' = restarts /\ loose' = loose
      /\ at' = [at EXCEPT ![c] = "store"] /\ held' = [held EXCEPT ![c] = h]
  BY <1>1, <1>2 DEF Link, Serving, Goto, Hold
<1>4. AtLink(c) /\ Writing(c) /\ l \in Loggers
  BY <1>0, <1>3 DEF AtLink, Writing, ChainInv, AuditTypeOK, AuditAsks
<1>5. last[l] \in Signatures /\ Torn \in Signatures
  BY <1>4 DEF ChainInv, AuditTypeOK, Torn, Sign, Signatures
<1>6. held[c] \in Drafts /\ held[c].stamp <= clock
  BY <1>4 DEF ChainInv, DraftsHold
<1>7. hash \in {last[l], Torn}
  BY <1>1 DEF LastHash
<1>8. h \in Drafts /\ h.stamp = held[c].stamp /\ h.prev = hash
  BY <1>2, <1>5, <1>6, <1>7 DEF Drafts
<1>9. /\ \A d \in Calls : AtLink(d)' <=> AtLink(d) /\ d # c
      /\ \A d \in Calls : AtStore(d)' <=> AtStore(d) \/ d = c
      /\ \A d \in Calls : AtMove(d)' <=> AtMove(d)
      /\ ~AtStore(c) /\ ~AtMove(c)
      /\ \A d \in Calls : d # c => held'[d] = held[d]
      /\ held'[c] = h
  BY <1>3 DEF ChainInv, AuditTypeOK, AtLink, AtStore, AtMove
<1>10. \A d \in Calls : Writing(d)' <=> Writing(d)
  BY <1>4, <1>9 DEF Writing
<1>11. hash = last[l] \/ (hash = Torn /\ c \in loose)
  <2> SUFFICES ASSUME hash # last[l] PROVE hash = Torn /\ c \in loose
    OBVIOUS
  <2>1. PICK d \in Calls : Logging(d, l) /\ at[d] = "move"
    BY <1>1 DEF LastHash
  <2>2. AtMove(d) /\ ask[d].logger = l /\ d # c
    BY <1>3, <2>1 DEF Logging, AtMove
  <2> QED BY <1>0, <1>4, <1>7, <2>2 DEF ChainInv, OverlapsAreLoose, Writing
<1>12. AuditTypeOK'
  BY <1>3 DEF ChainInv, AuditTypeOK
<1>13. LastIsStored' /\ RowsHold'
  BY <1>3 DEF ChainInv, LastIsStored, RowsHold, Stored, Genesis, Torn, Sign
<1>14. OverlapsAreLoose'
  BY <1>3, <1>10 DEF ChainInv, OverlapsAreLoose
<1>15. BrokenForAReason'
  BY <1>3 DEF ChainInv, BrokenForAReason, Reason
<1>16. DraftsHold'
  <2> SUFFICES ASSUME NEW d \in Calls
               PROVE  /\ Writing(d)' => held'[d] \in Drafts /\ held'[d].stamp <= clock
                      /\ AtStore(d)' => \/ held'[d].prev = Genesis \/ Stored(held'[d].prev)
                                        \/ held'[d].prev = Torn /\ d \in loose
                      /\ AtMove(d)' => Stored(Sign(d, held'[d].nanos))
    BY <1>3 DEF DraftsHold, Genesis, Torn, Sign, Stored
  <2>1. CASE d = c
    <3>1. last[l] = Genesis \/ Stored(last[l])
      BY <1>4 DEF ChainInv, LastIsStored
    <3> QED BY <1>6, <1>8, <1>9, <1>11, <2>1, <3>1
  <2>2. CASE d # c
    <3>1. held'[d] = held[d]
      BY <1>9, <2>2
    <3>2. (AtStore(d)' <=> AtStore(d)) /\ (AtMove(d)' <=> AtMove(d)) /\ (Writing(d)' <=> Writing(d))
      BY <1>9, <1>10, <2>2
    <3> QED BY <3>1, <3>2 DEF ChainInv, DraftsHold
  <2> QED BY <2>1, <2>2
<1>17. ASSUME restarts' = 0, loose' = {} PROVE Orderly'
  <2>1. Orderly
    BY <1>3, <1>17 DEF ChainInv
  <2>2. Rising' /\ Chained'
    <3>1. trail' = trail /\ Rising /\ Chained
      BY <1>3, <2>1 DEF Orderly
    <3>2. Rising'
      BY <3>1 DEF Rising
    <3>3. Chained'
      BY <3>1 DEF Chained
    <3> QED BY <3>2, <3>3
  <2>3. NextInLine'
    <3> SUFFICES ASSUME NEW d \in Calls
                 PROVE  /\ AtLink(d)' \/ AtStore(d)' =>
                             \A n \in 1 .. Len(trail) :
                                trail[n].by = ask[d].logger => trail[n].stamp < held'[d].stamp
                        /\ AtStore(d)' => held'[d].prev = last[ask[d].logger]
      BY <1>3 DEF NextInLine
    <3>1. CASE d = c
      BY <1>0, <1>3, <1>4, <1>8, <1>9, <1>11, <1>17, <2>1, <3>1 DEF Orderly, NextInLine
    <3>2. CASE d # c
      BY <1>9, <2>1, <3>2 DEF Orderly, NextInLine
    <3> QED BY <3>1, <3>2
  <2>4. Remembered'
    <3> SUFFICES ASSUME NEW n \in 1 .. Len(trail),
                        \A k \in 1 .. Len(trail) : n < k => trail[k].by # trail[n].by
                 PROVE  /\ \A d \in Calls : AtMove(d)' /\ ask[d].logger = trail[n].by =>
                              trail[n].sig = Sign(d, held'[d].nanos)
                        /\ (\A d \in Calls : AtMove(d)' => ask[d].logger # trail[n].by) =>
                              last[trail[n].by] = trail[n].sig
      BY <1>3 DEF Remembered, Sign
    <3>1. \A d \in Calls : AtMove(d) /\ ask[d].logger = trail[n].by =>
             trail[n].sig = Sign(d, held[d].nanos)
      BY <2>1 DEF Orderly, Remembered
    <3> QED BY <1>9, <2>1, <3>1 DEF Orderly, Remembered
  <2> QED BY <2>2, <2>3, <2>4 DEF Orderly
<1> QED BY <1>12, <1>13, <1>14, <1>15, <1>16, <1>17 DEF ChainInv

(* Log stores an entry that follows the last one of its logger, whether it *)
(* is told so or not.                                                      *)
LEMMA LogStores ==
    ASSUME ChainInv, NEW c \in Calls, AtStore(c), Store(c),
           UNCHANGED <<ask, held, last, clock, restarts>>,
           NEW label, at' = [at EXCEPT ![c] = label],
           NEW r, reply' = [reply EXCEPT ![c] = r],
           \/ label = "move" /\ loose' = loose
           \/ label = "done" /\ loose' = loose \cup {c}
    PROVE  ChainInv'
<1> DEFINE l == ask[c].logger
<1>1. PICK row : row = Row(c)
  OBVIOUS
<1>2. /\ l \in Loggers /\ ask[c].zone \in STRING /\ ask[c].op = "log"
  BY DEF ChainInv, AuditTypeOK, AtStore, AuditAsks
<1>3. /\ held[c] \in Drafts /\ held[c].stamp <= clock
      /\ \/ held[c].prev = Genesis \/ Stored(held[c].prev)
         \/ held[c].prev = Torn /\ c \in loose
  BY DEF ChainInv, DraftsHold, Writing
<1>4. held[c].nanos \in BOOLEAN /\ held[c].prev \in Signatures /\ held[c].stamp \in Nat
  BY <1>3 DEF Drafts
<1>5. /\ row.sig = Sign(c, held[c].nanos) /\ row.prev = held[c].prev /\ row.stamp = held[c].stamp
      /\ row.of = c /\ row.zone = ask[c].zone /\ row.by = l
  BY <1>1 DEF Row
<1>6. row.sig \in Signatures /\ row.sig.nanos = held[c].nanos
  BY <1>4, <1>5 DEF Sign, Signatures
<1>7. row \in Rows
  <2>1. Sign(c, held[c].nanos) \in Signatures
    BY <1>5, <1>6
  <2>2. PICK sig \in Signatures : sig = Sign(c, held[c].nanos)
    BY <2>1
  <2>3. row = [sig |-> sig, prev |-> held[c].prev, stamp |-> held[c].stamp, of |-> c,
               zone |-> ask[c].zone, by |-> l]
    BY <1>1, <2>2 DEF Row
  <2> QED BY <1>2, <1>4, <2>3 DEF Rows
<1>8. PICK N \in Nat : N = Len(trail)
  BY DEF ChainInv, AuditTypeOK
<1>9. /\ trail' \in Seq(Rows) /\ Len(trail') = N + 1 /\ trail'[N + 1] = row
      /\ \A n \in 1 .. N : trail'[n] = trail[n]
  <2>1. trail' = Append(trail, row) /\ trail \in Seq(Rows)
    BY <1>1 DEF Store, ChainInv, AuditTypeOK
  <2> QED BY <1>7, <1>8, <2>1
<1>10. /\ loose \subseteq loose' /\ loose' \subseteq Calls /\ clock \in Nat
       /\ ask' = ask /\ held' = held /\ last' = last /\ clock' = clock /\ restarts' = restarts
  BY DEF ChainInv, AuditTypeOK
<1>11. /\ \A d \in Calls : AtLink(d)' <=> AtLink(d)
       /\ \A d \in Calls : AtStore(d)' <=> AtStore(d) /\ d # c
       /\ \A d \in Calls : d # c => (AtMove(d)' <=> AtMove(d))
       /\ ~AtMove(c) /\ (AtMove(c)' <=> label = "move")
       /\ ~AtLink(c)
  BY <1>2, <1>10 DEF ChainInv, AuditTypeOK, AtLink, AtStore, AtMove
<1>12. \A d \in Calls : Writing(d)' => Writing(d)
  BY <1>11 DEF Writing
<1>13. AuditTypeOK'
  <2>1. /\ at' = [d \in Calls |-> at'[d]] /\ held' = [d \in Calls |-> held'[d]]
        /\ reply' = [d \in Calls |-> reply'[d]]
    BY <1>10 DEF ChainInv, AuditTypeOK
  <2> QED BY <1>9, <1>10, <2>1 DEF ChainInv, AuditTypeOK
<1>14. \A sig : Stored(sig) => Stored(sig)'
  <2> SUFFICES ASSUME NEW sig, Stored(sig) PROVE \E n \in 1 .. Len(trail') : trail'[n].sig = sig
    BY DEF Stored
  <2>1. PICK n \in 1 .. N : trail[n].sig = sig
    BY <1>8 DEF Stored
  <2>2. n \in 1 .. Len(trail') /\ trail'[n].sig = sig
    BY <1>9, <2>1
  <2> QED BY <2>2
<1>15. LastIsStored'
  <2> SUFFICES ASSUME NEW k \in Loggers PROVE last[k] = Genesis \/ Stored(last[k])'
    BY <1>10 DEF LastIsStored, Genesis, Sign, Stored
  <2>1. PICK sig : sig = last[k]
    OBVIOUS
  <2>2. sig = Genesis \/ Stored(sig)
    BY <2>1 DEF ChainInv, LastIsStored
  <2>3. sig = Genesis \/ Stored(sig)'
    BY <1>14, <2>2
  <2> QED BY <1>10, <2>1, <2>3 DEF Stored
<1>16. DraftsHold'
  <2>1. ASSUME NEW d \in Calls
        PROVE  /\ Writing(d)' => held[d] \in Drafts /\ held[d].stamp <= clock
               /\ AtStore(d)' =>
                    \/ held[d].prev = Genesis
                    \/ \E n \in 1 .. Len(trail') : trail'[n].sig = held[d].prev
                    \/ held[d].prev = Torn /\ d \in loose'
               /\ AtMove(d)' => \E n \in 1 .. Len(trail') : trail'[n].sig = Sign(d, held[d].nanos)
    <3>1. PICK prev, sig : prev = held[d].prev /\ sig = Sign(d, held[d].nanos)
      OBVIOUS
    <3>2. Writing(d)' => held[d] \in Drafts /\ held[d].stamp <= clock
      BY <1>12 DEF ChainInv, DraftsHold
    <3>3. AtStore(d)' => prev = Genesis \/ Stored(prev)' \/ (prev = Torn /\ d \in loose')
      <4>1. AtStore(d)' => prev = Genesis \/ Stored(prev) \/ (prev = Torn /\ d \in loose')
        BY <1>10, <1>11, <3>1 DEF ChainInv, DraftsHold
      <4> QED BY <1>14, <4>1
    <3>4. AtMove(d)' => Stored(sig)'
      <4>1. CASE d = c
        BY <1>5, <1>8, <1>9, <3>1, <4>1 DEF Stored
      <4>2. CASE d # c
        <5>1. AtMove(d)' => Stored(sig)
          BY <1>11, <3>1, <4>2 DEF ChainInv, DraftsHold
        <5> QED BY <1>14, <5>1
      <4> QED BY <4>1, <4>2
    <3> QED BY <3>1, <3>2, <3>3, <3>4 DEF Stored
  <2> QED BY <1>10, <2>1 DEF DraftsHold, Stored, Genesis, Torn, Sign
<1>17. OverlapsAreLoose'
  BY <1>10, <1>12 DEF ChainInv, OverlapsAreLoose
<1>18. RowsHold'
  <2>1. ASSUME NEW n \in 1 .. N + 1
        PROVE  /\ trail'[n].stamp <= clock
               /\ trail'[n].sig = Sign(trail'[n].of, trail'[n].sig.nanos)
               /\ \/ trail'[n].prev = Genesis
                  \/ trail'[n].prev = Torn /\ trail'[n].of \in loose'
                  \/ \E m \in 1 .. n - 1 : trail'[m].sig = trail'[n].prev
    <3>1. CASE n = N + 1
      <4>1. /\ row.stamp <= clock /\ row.sig = Sign(row.of, row.sig.nanos)
        BY <1>3, <1>5, <1>6
      <4>2. row.prev = Genesis \/ (row.prev = Torn /\ row.of \in loose') \/ Stored(row.prev)
        BY <1>3, <1>5, <1>10
      <4>3. Stored(row.prev) => \E m \in 1 .. N : trail'[m].sig = row.prev
        BY <1>8, <1>9 DEF Stored
      <4>4. n - 1 = N /\ trail'[n] = row
        BY <1>9, <3>1
      <4> QED BY <4>1, <4>2, <4>3, <4>4
    <3>2. CASE n \in 1 .. N
      <4>1. /\ trail[n].stamp <= clock /\ trail[n].sig = Sign(trail[n].of, trail[n].sig.nanos)
            /\ \/ trail[n].prev = Genesis
               \/ trail[n].prev = Torn /\ trail[n].of \in loose'
               \/ \E m \in 1 .. n - 1 : trail[m].sig = trail[n].prev
        BY <1>8, <1>10, <3>2 DEF ChainInv, RowsHold
      <4>2. trail'[n] = trail[n] /\ \A m \in 1 .. n - 1 : trail'[m] = trail[m]
        BY <1>9, <3>2
      <4> QED BY <4>1, <4>2
    <3> QED BY <1>8, <3>1, <3>2
  <2>2. 1 .. Len(trail') = 1 .. N + 1
    BY <1>9
  <2> QED BY <1>10, <2>1, <2>2 DEF RowsHold, Genesis, Torn, Sign
<1>19. BrokenForAReason'
  <2>1. Reason => Reason'
    <3>1. 1 .. N \subseteq 1 .. Len(trail') /\ \A n \in 1 .. N : trail'[n] = trail[n]
      BY <1>9
    <3>2. CASE restarts > 0 \/ loose # {}
      BY <1>10, <3>2 DEF Reason
    <3>3. CASE \E n \in 1 .. N : trail[n].sig.nanos
      BY <3>1, <3>3 DEF Reason
    <3>4. CASE \E n, m \in 1 .. N : trail[n].by # trail[m].by \/ trail[n].zone # trail[m].zone
      BY <3>1, <3>4 DEF Reason
    <3> QED BY <1>8, <3>2, <3>3, <3>4 DEF Reason
  <2>2. ASSUME NEW d \in Calls, ask[d].op = "verifychain", reply'[d] = "broken" PROVE Reason
    <3>1. d # c
      BY <1>2, <2>2
    <3> QED BY <2>2, <3>1 DEF ChainInv, AuditTypeOK, BrokenForAReason
  <2> QED BY <1>10, <2>1, <2>2 DEF BrokenForAReason
<1>20. ASSUME restarts' = 0, loose' = {} PROVE Orderly'
  <2>0. label = "move" /\ loose = {}
    BY <1>20
  <2>1. Rising /\ Chained /\ NextInLine /\ Remembered
    BY <1>10, <1>20, <2>0 DEF ChainInv, Orderly
  <2>2. \A d \in Calls : Writing(d) /\ ask[d].logger = l => d = c
    BY <2>0 DEF ChainInv, OverlapsAreLoose, Writing
  <2>3. 1 .. Len(trail') = 1 .. N + 1
    BY <1>9
  <2>4. \A n \in 1 .. N : trail[n].by = l => trail[n].stamp < row.stamp
    BY <1>5, <1>8, <2>1 DEF NextInLine
  <2>5. Rising'
    <3>1. ASSUME NEW n \in 1 .. N + 1, NEW m \in 1 .. N + 1, n < m, trail'[n].by = trail'[m].by
          PROVE  trail'[n].stamp < trail'[m].stamp
      <4>1. n \in 1 .. N
        BY <3>1
      <4>2. CASE m = N + 1
        BY <1>5, <1>9, <2>4, <3>1, <4>1, <4>2
      <4>3. CASE m \in 1 .. N
        <5>1. trail[n].by = trail[m].by
          BY <1>9, <3>1, <4>1, <4>3
        <5>2. trail[n].stamp < trail[m].stamp
          BY <1>8, <2>1, <3>1, <4>1, <4>3, <5>1 DEF Rising
        <5> QED BY <1>9, <4>1, <4>3, <5>2
      <4> QED BY <1>8, <4>2, <4>3
    <3> QED BY <2>3, <3>1 DEF Rising
  <2>6. ASSUME NEW m \in 1 .. N + 1, NEW n \in 1 .. N + 1, n < m, trail'[n].by = trail'[m].by,
               \A k \in 1 .. N + 1 : n < k /\ k < m => trail'[k].by # trail'[m].by
        PROVE  trail'[m].prev = trail'[n].sig
    <3>1. n \in 1 .. N
      BY <2>6
    <3>2. CASE m = N + 1
      <4>1. trail[n].by = l /\ \A k \in 1 .. N : n < k => trail[k].by # trail[n].by
        BY <1>5, <1>9, <2>6, <3>1, <3>2
      <4>2. \A d \in Calls : AtMove(d) => ask[d].logger # trail[n].by
        BY <1>11, <2>2, <4>1 DEF Writing
      <4>3. last[l] = trail[n].sig
        BY <1>8, <2>1, <3>1, <4>1, <4>2 DEF Remembered
      <4>4. row.prev = last[l]
        BY <1>5, <2>1 DEF NextInLine
      <4> QED BY <1>9, <3>1, <3>2, <4>3, <4>4
    <3>3. CASE m \in 1 .. N
      <4>1. /\ trail[n].by = trail[m].by
            /\ \A k \in 1 .. N : n < k /\ k < m => trail[k].by # trail[m].by
        BY <1>9, <2>6, <3>1, <3>3
      <4>2. trail[m].prev = trail[n].sig
        BY <1>8, <2>1, <2>6, <3>1, <3>3, <4>1 DEF Chained
      <4> QED BY <1>9, <3>1, <3>3, <4>2
    <3> QED BY <1>8, <3>2, <3>3
  <2>7. Chained'
    <3> SUFFICES ASSUME NEW n \in 1 .. Len(trail'), NEW m \in 1 .. Len(trail'),
                        n < m, trail'[n].by = trail'[m].by,
                        \A k \in 1 .. Len(trail') : n < k /\ k < m => trail'[k].by # trail'[m].by
                 PROVE  trail'[m].prev = trail'[n].sig
      BY Zenon DEF Chained
    <3> QED BY <2>3, <2>6
  <2>8. NextInLine'
    <3>1. ASSUME NEW d \in Calls, AtLink(d) \/ (AtStore(d) /\ d # c), NEW n \in 1 .. N + 1,
                 trail'[n].by = ask[d].logger
          PROVE  trail'[n].stamp < held[d].stamp
      <4>1. ask[d].logger # l
        BY <1>11, <2>2, <3>1 DEF Writing
      <4>2. n \in 1 .. N
        BY <1>5, <1>8, <1>9, <3>1, <4>1
      <4>3. trail[n].stamp < held[d].stamp
        BY <1>8, <1>9, <2>1, <3>1, <4>2 DEF NextInLine
      <4> QED BY <1>9, <4>2, <4>3
    <3>2. \A d \in Calls : AtStore(d) => held[d].prev = last[ask[d].logger]
      BY <2>1 DEF NextInLine
    <3> QED BY <1>10, <1>11, <2>3, <3>1, <3>2 DEF NextInLine
  <2>9. ASSUME NEW n \in 1 .. N + 1, \A k \in 1 .. N + 1 : n < k => trail'[k].by # trail'[n].by
        PROVE  /\ \A d \in Calls : AtMove(d)' /\ ask[d].logger = trail'[n].by =>
                     trail'[n].sig = Sign(d, held[d].nanos)
               /\ (\A d \in Calls : AtMove(d)' => ask[d].logger # trail'[n].by) =>
                     last[trail'[n].by] = trail'[n].sig
    <3>1. CASE n = N + 1
      <4>1. \A d \in Calls : AtMove(d)' /\ ask[d].logger = l => d = c
        BY <1>11, <2>2 DEF Writing
      <4>2. AtMove(c)'
        BY <1>11, <2>0
      <4> QED BY <1>5, <1>9, <3>1, <4>1, <4>2
    <3>2. CASE n \in 1 .. N
      <4>1. trail[n].by # l /\ \A k \in 1 .. N : n < k => trail[k].by # trail[n].by
        BY <1>5, <1>9, <2>9, <3>2
      <4>2. /\ \A d \in Calls : AtMove(d) /\ ask[d].logger = trail[n].by =>
                  trail[n].sig = Sign(d, held[d].nanos)
            /\ (\A d \in Calls : AtMove(d) => ask[d].logger # trail[n].by) =>
                  last[trail[n].by] = trail[n].sig
        BY <1>8, <2>1, <3>2, <4>1 DEF Remembered
      <4>3. trail'[n] = trail[n]
        BY <1>9, <3>2
      <4> QED BY <1>11, <4>1, <4>2, <4>3
    <3> QED BY <1>8, <3>1, <3>2
  <2>10. Remembered'
    BY <1>10, <2>3, <2>9 DEF Remembered, Sign
  <2> QED BY <2>5, <2>7, <2>8, <2>10 DEF Orderly
<1> QED BY <1>13, <1>15, <1>16, <1>17, <1>18, <1>19, <1>20 DEF ChainInv

(* The chain moves on to an entry that is stored. *)
LEMMA LogMovesOn ==
    ASSUME ChainInv, NEW c \in Calls, AtMove(c), MoveOn(c), Ok(c),
           UNCHANGED <<trail, clock, restarts, loose>>
    PROVE  ChainInv'
<1>0. PICK l : l = ask[c].logger
  OBVIOUS
<1>1. PICK sig : sig = Sign(c, held[c].nanos)
  OBVIOUS
<1>2. /\ last' = [last EXCEPT ![l] = sig] /\ ask' = ask /\ held' = held /\ trail' = trail
      /\ clock' = clock /\ restarts' = restarts /\ loose' = loose
      /\ at' = [at EXCEPT ![c] = "done"] /\ reply' = [reply EXCEPT ![c] = "ok"]
  BY <1>0, <1>1 DEF MoveOn, Ok, Answer
<1>3. l \in Loggers /\ ask[c].op = "log"
  BY <1>0 DEF ChainInv, AuditTypeOK, AtMove, AuditAsks
<1>4. held[c] \in Drafts /\ Stored(sig)
  BY <1>1 DEF ChainInv, DraftsHold, Writing
<1>5. sig \in Signatures
  <2>1. held[c].nanos \in BOOLEAN
    BY <1>4 DEF Drafts
  <2> QED BY <1>1, <2>1 DEF Sign, Signatures
<1>6. /\ \A d \in Calls : AtLink(d)' <=> AtLink(d)
      /\ \A d \in Calls : AtStore(d)' <=> AtStore(d)
      /\ \A d \in Calls : AtMove(d)' <=> AtMove(d) /\ d # c
  BY <1>2 DEF ChainInv, AuditTypeOK, AtLink, AtStore, AtMove
<1>7. AuditTypeOK'
  BY <1>2, <1>5 DEF ChainInv, AuditTypeOK
<1>8. LastIsStored'
  <2> SUFFICES ASSUME NEW k \in Loggers PROVE last'[k] = Genesis \/ Stored(last'[k])
    BY <1>2 DEF LastIsStored, Genesis, Sign, Stored
  <2> QED BY <1>2, <1>3, <1>4 DEF ChainInv, AuditTypeOK, LastIsStored
<1>9. RowsHold'
  BY <1>2 DEF ChainInv, RowsHold, Genesis, Torn, Sign
<1>10. DraftsHold'
  BY <1>2, <1>6 DEF ChainInv, DraftsHold, Writing, Stored, Genesis, Torn, Sign
<1>11. OverlapsAreLoose'
  BY <1>2, <1>6 DEF ChainInv, OverlapsAreLoose, Writing
<1>12. BrokenForAReason'
  <2>1. Reason' <=> Reason
    BY <1>2 DEF Reason
  <2>2. ASSUME NEW d \in Calls, ask[d].op = "verifychain", reply'[d] = "broken" PROVE Reason
    <3>1. d # c
      BY <1>3, <2>2
    <3> QED BY <1>2, <2>2, <3>1 DEF ChainInv, AuditTypeOK, BrokenForAReason
  <2> QED BY <1>2, <2>1, <2>2 DEF BrokenForAReason
<1>13. ASSUME restarts' = 0, loose' = {} PROVE Orderly'
  <2>1. Rising /\ Chained /\ NextInLine /\ Remembered /\ loose = {}
    BY <1>2, <1>13 DEF ChainInv, Orderly
  <2>2. \A d \in Calls : Writing(d) /\ ask[d].logger = l => d = c
    BY <1>0, <2>1 DEF ChainInv, OverlapsAreLoose, Writing
  <2>3. Rising' /\ Chained'
    <3>1. trail' = trail /\ Rising /\ Chained
      BY <1>2, <2>1 DEF Orderly
    <3>2. Rising'
      BY <3>1 DEF Rising
    <3>3. Chained'
      BY <3>1 DEF Chained
    <3> QED BY <3>2, <3>3
  <2>4. ~AtStore(c) /\ ~AtLink(c)
    BY DEF AtMove, AtStore, AtLink
  <2>5. \A d \in Calls : AtStore(d) => ask[d].logger \in Loggers \ {l}
    BY <2>2, <2>4 DEF Writing, AtStore, ChainInv, AuditTypeOK, AuditAsks
  <2>6. NextInLine'
    <3>1. \A d \in Calls : AtStore(d) => held[d].prev = last'[ask[d].logger]
      BY <1>2, <2>1, <2>5 DEF NextInLine, ChainInv, AuditTypeOK
    <3> QED BY <1>2, <1>6, <2>1, <3>1 DEF NextInLine
  <2>7. ASSUME NEW n \in 1 .. Len(trail),
               \A k \in 1 .. Len(trail) : n < k => trail[k].by # trail[n].by
        PROVE  /\ \A d \in Calls : AtMove(d)' /\ ask[d].logger = trail[n].by =>
                     trail[n].sig = Sign(d, held[d].nanos)
               /\ (\A d \in Calls : AtMove(d)' => ask[d].logger # trail[n].by) =>
                     last'[trail[n].by] = trail[n].sig
    <3>1. /\ \A d \in Calls : AtMove(d) /\ ask[d].logger = trail[n].by =>
                trail[n].sig = Sign(d, held[d].nanos)
          /\ (\A d \in Calls : AtMove(d) => ask[d].logger # trail[n].by) =>
                last[trail[n].by] = trail[n].sig
      BY <2>1, <2>7 DEF Remembered
    <3>2. CASE trail[n].by = l
      <4>1. trail[n].sig = sig /\ last'[l] = sig
        BY <1>0, <1>1, <1>2, <1>3, <3>1, <3>2 DEF ChainInv, AuditTypeOK
      <4> QED BY <1>6, <3>1, <3>2, <4>1
    <3>3. CASE trail[n].by # l
      <4>1. trail[n] \in Rows
        BY DEF ChainInv, AuditTypeOK
      <4>2. trail[n].by \in Loggers
        BY <4>1 DEF Rows
      <4>3. last'[trail[n].by] = last[trail[n].by]
        BY <1>2, <3>3, <4>2 DEF ChainInv, AuditTypeOK
      <4> QED BY <1>0, <1>6, <3>1, <3>3, <4>3
    <3> QED BY <3>2, <3>3
  <2>8. Remembered'
    BY <1>2, <2>7 DEF Remembered, Sign
  <2> QED BY <2>3, <2>6, <2>8 DEF Orderly
<1> QED BY <1>7, <1>8, <1>9, <1>10, <1>11, <1>12, <1>13 DEF ChainInv

(* A restart ends the calls of a logger and picks up an entry, or genesis. *)
LEMMA LoggerRestarts ==
    ASSUME ChainInv, NEW l \in Loggers, NewSecureLogger(l)
    PROVE  ChainInv'
<1>1. PICK sig : /\ last' = [last EXCEPT ![l] = sig]
                 /\ sig = Genesis \/ \E n \in 1 .. Len(trail) : sig = trail[n].sig
  BY DEF NewSecureLogger, Latest
<1>2. /\ restarts' = restarts + 1 /\ restarts \in Nat /\ restarts' # 0 /\ restarts' \in Nat
      /\ trail' = trail /\ clock' = clock /\ loose' = loose
      /\ ask' = ask /\ held' = held /\ reply' = reply
  BY DEF NewSecureLogger, ChainInv, AuditTypeOK
<1>3. /\ at' = [d \in Calls |-> at'[d]]
      /\ \A d \in Calls : at'[d] \in {"done", at[d]}
  BY DEF NewSecureLogger
<1>4. /\ \A d \in Calls : AtLink(d)' => AtLink(d)
      /\ \A d \in Calls : AtStore(d)' => AtStore(d)
      /\ \A d \in Calls : AtMove(d)' => AtMove(d)
  BY <1>2, <1>3 DEF AtLink, AtStore, AtMove
<1>5. sig \in Signatures
  <2>1. \A n \in 1 .. Len(trail) : trail[n] \in Rows
    BY DEF ChainInv, AuditTypeOK
  <2>2. \A n \in 1 .. Len(trail) : trail[n].sig \in Signatures
    BY <2>1 DEF Rows
  <2>3. Genesis \in Signatures
    BY DEF Genesis, Sign, Signatures
  <2> QED BY <1>1, <2>2, <2>3
<1>6. AuditTypeOK'
  BY <1>1, <1>2, <1>3, <1>5 DEF ChainInv, AuditTypeOK
<1>7. LastIsStored'
  <2> SUFFICES ASSUME NEW k \in Loggers PROVE last'[k] = Genesis \/ Stored(last'[k])
    BY <1>2 DEF LastIsStored, Genesis, Sign, Stored
  <2> QED BY <1>1 DEF ChainInv, AuditTypeOK, LastIsStored, Stored
<1>8. RowsHold'
  BY <1>2 DEF ChainInv, RowsHold, Genesis, Torn, Sign
<1>9. DraftsHold'
  BY <1>2, <1>4 DEF ChainInv, DraftsHold, Writing, Stored, Genesis, Torn, Sign
<1>10. OverlapsAreLoose'
  BY <1>2, <1>4 DEF ChainInv, OverlapsAreLoose, Writing
<1>11. BrokenForAReason'
  BY <1>2 DEF ChainInv, BrokenForAReason, Reason
<1> QED BY <1>2, <1>6, <1>7, <1>8, <1>9, <1>10, <1>11 DEF ChainInv

(* Every step keeps the chains. *)
LEMMA ChainStep ==
    ChainInv /\ [AuditNext]_auditAllVars => ChainInv'
<1> SUFFICES ASSUME ChainInv, [AuditNext]_auditAllVars PROVE ChainInv'
  OBVIOUS
<1>1. CASE UNCHANGED <<logVars, callVars>>
  <2>1. /\ trail' = trail /\ last' = last /\ clock' = clock /\ restarts' = restarts
        /\ loose' = loose /\ ask' = ask /\ at' = at /\ held' = held /\ reply' = reply
    BY <1>1 DEF callVars, logVars
  <2>2. AuditTypeOK' /\ LastIsStored' /\ RowsHold' /\ BrokenForAReason'
    BY <2>1 DEF ChainInv, AuditTypeOK, LastIsStored, RowsHold, BrokenForAReason, Reason, Stored,
                Genesis, Torn, Sign
  <2>3. DraftsHold' /\ OverlapsAreLoose'
    BY <2>1 DEF ChainInv, DraftsHold, OverlapsAreLoose, Writing, AtLink, AtStore, AtMove, Stored,
                Genesis, Torn, Sign
  <2>4. Orderly => Orderly'
    BY <2>1 DEF Orderly, Rising, Chained, NextInLine, Remembered, AtLink, AtStore, AtMove, Sign
  <2> QED BY <2>1, <2>2, <2>3, <2>4 DEF ChainInv
<1>2. ASSUME NEW c \in Calls, Refuse(c), ~AtMove(c), UNCHANGED logVars PROVE ChainInv'
  <2>1. /\ ask' = ask /\ at' = [at EXCEPT ![c] = "done"] /\ held' = [held EXCEPT ![c] = held[c]]
        /\ reply' = [reply EXCEPT ![c] = "refused"]
    BY <1>2 DEF Refuse, Answer, ChainInv, AuditTypeOK
  <2>2. PICK label, r : /\ label = "done" /\ label \notin {"link", "store", "move"}
                        /\ r = "refused" /\ r # "broken"
    OBVIOUS
  <2> QED BY <1>2, <2>1, <2>2, LogUntouched
<1>3. ASSUME NEW c \in Calls, Log(c), UNCHANGED restarts PROVE ChainInv'
  <2>1. CASE Stamp(c)
    BY <1>3, <2>1, LogStamps
  <2>2. CASE Link(c)
    BY <1>3, <2>2, LogLinks
  <2>3. CASE Serving(c, "log", "store") /\ Store(c) /\ Goto(c, "move") /\ UNCHANGED <<held, loose>>
               /\ UNCHANGED <<last, clock>>
    <3>1. /\ at' = [at EXCEPT ![c] = "move"] /\ reply' = [reply EXCEPT ![c] = reply[c]]
          /\ ask' = ask /\ AtStore(c)
      BY <2>3 DEF Goto, Serving, AtStore, ChainInv, AuditTypeOK
    <3> QED BY <1>3, <2>3, <3>1, LogStores
  <2>4. CASE Serving(c, "log", "store") /\ Store(c) /\ loose' = loose \cup {c} /\ Refuse(c)
               /\ UNCHANGED <<last, clock>>
    <3>1. /\ at' = [at EXCEPT ![c] = "done"] /\ reply' = [reply EXCEPT ![c] = "refused"]
          /\ ask' = ask /\ held' = held /\ AtStore(c)
      BY <2>4 DEF Refuse, Answer, Serving, AtStore
    <3> QED BY <1>3, <2>4, <3>1, LogStores
  <2>5. CASE Serving(c, "log", "store") /\ Refuse(c) /\ UNCHANGED <<trail, loose, last, clock>>
    <3>1. ~AtMove(c) /\ UNCHANGED logVars
      BY <1>3, <2>5 DEF Serving, AtMove, logVars
    <3> QED BY <1>2, <2>5, <3>1
  <2>6. CASE Serving(c, "log", "move") /\ MoveOn(c) /\ Ok(c) /\ UNCHANGED <<trail, clock, loose>>
    <3>1. AtMove(c)
      BY <2>6 DEF Serving, AtMove
    <3> QED BY <1>3, <2>6, <3>1, LogMovesOn
  <2> QED BY <1>3, <2>1, <2>2, <2>3, <2>4, <2>5, <2>6 DEF Log, Unanswered
<1>4. ASSUME NEW c \in Calls, VerifyChain(c) PROVE ChainInv'
  <2>0. ask[c].op = "verifychain" /\ ~AtMove(c) /\ UNCHANGED logVars
    BY <1>4 DEF VerifyChain, Begins, Serving, AtMove, auditVars
  <2>1. CASE Refuse(c)
    BY <1>2, <2>0, <2>1
  <2>2. CASE ~Refuse(c)
    <3>1. PICK r : r = IF /\ Linked(RecentLogs(ask[c].zone))
                          /\ \A n \in RecentLogs(ask[c].zone) : Verify(trail[n])
                       THEN "ok" ELSE "broken"
      OBVIOUS
    <3>2. /\ ask' = ask /\ at' = [at EXCEPT ![c] = "done"] /\ held' = held
          /\ reply' = [reply EXCEPT ![c] = r]
      BY <1>4, <2>2, <3>1 DEF VerifyChain, Answer
    <3>3. held' = [held EXCEPT ![c] = held[c]]
      BY <3>2 DEF ChainInv, AuditTypeOK
    <3>4. r = "broken" => Reason
      BY <3>1, WholeChainsVerify
    <3> QED BY <2>0, <3>2, <3>3, <3>4, LogUntouched
  <2> QED BY <2>1, <2>2
<1>5. ASSUME NEW c \in Calls, Enqueue(c), UNCHANGED logVars PROVE ChainInv'
  <2>1. ask' = ask /\ ask[c].op = "enqueue" /\ ~AtMove(c)
    BY <1>5 DEF Enqueue, Begins, Serving, Goto, Ok, Answer, AtMove
  <2>2. \E label : at' = [at EXCEPT ![c] = label]
    BY <1>5 DEF Enqueue, Goto, Ok, Answer
  <2>3. \E h : held' = [held EXCEPT ![c] = h]
    <3>1. CASE held' = held
      <4>1. held' = [held EXCEPT ![c] = held[c]]
        BY <3>1 DEF ChainInv, AuditTypeOK
      <4> QED BY <4>1
    <3>2. CASE held' # held
      BY <1>5, <3>2 DEF Enqueue, Hold, Ok
    <3> QED BY <3>1, <3>2
  <2>4. \E r : reply' = [reply EXCEPT ![c] = r]
    <3>1. CASE reply' = reply
      <4>1. reply' = [reply EXCEPT ![c] = reply[c]]
        BY <3>1 DEF ChainInv, AuditTypeOK
      <4> QED BY <4>1
    <3>2. CASE reply' # reply
      BY <1>5, <3>2 DEF Enqueue, Goto, Ok, Answer
    <3> QED BY <3>1, <3>2
  <2> QED BY <1>5, <2>1, <2>2, <2>3, <2>4, LogUntouched
<1>6. ASSUME NEW c \in Calls, Malformed(c), UNCHANGED auditVars PROVE ChainInv'
  <2>1. Refuse(c) /\ ~AtMove(c) /\ UNCHANGED logVars
    BY <1>6 DEF Malformed, AtMove, auditVars
  <2> QED BY <1>2, <2>1
<1>7. UNCHANGED auditAllVars => UNCHANGED <<logVars, callVars>>
  BY DEF auditAllVars, auditVars
<1> QED
  BY <1>1, <1>3, <1>4, <1>5, <1>6, <1>7, LoggerRestarts DEF AuditNext

(* The chains hold before the first entry. *)
LEMMA ChainInit ==
    CallsInit([Calls -> AuditAsks]) /\ AuditInit => ChainInv
<1> SUFFICES ASSUME CallsInit([Calls -> AuditAsks]), AuditInit PROVE ChainInv
  OBVIOUS
<1>1. /\ Len(trail) = 0 /\ trail \in Seq(Rows) /\ Genesis \in Signatures
      /\ \A c \in Calls : at[c] = "start" /\ reply[c] = "none"
  BY DEF CallsInit, AuditInit, Genesis, Sign, Signatures
<1>2. \A c \in Calls : ~AtLink(c) /\ ~AtStore(c) /\ ~AtMove(c) /\ ~Writing(c)
  BY <1>1 DEF AtLink, AtStore, AtMove, Writing
<1>3. AuditTypeOK
  BY <1>1 DEF CallsInit, AuditInit, AuditTypeOK
<1>4. LastIsStored /\ RowsHold /\ BrokenForAReason
  BY <1>1 DEF AuditInit, LastIsStored, RowsHold, BrokenForAReason
<1>5. DraftsHold /\ OverlapsAreLoose
  BY <1>2 DEF DraftsHold, OverlapsAreLoose
<1>6. Orderly
  BY <1>1, <1>2 DEF Orderly, Rising, Chained, NextInLine, Remembered
<1> QED BY <1>3, <1>4, <1>5, <1>6 DEF ChainInv

(* Whatever overlaps, fails and restarts: every entry is linked to one     *)
(* stored before it, and a chain fails to verify only for one of the       *)
(* reasons (SecureLogger.Log, VerifyChain).                                *)
THEOREM ChainsAreKept ==
    AuditSpec => []ChainsHold
<1>1. ChainInv => ChainsHold
  BY DEF ChainInv, RowsHold, BrokenForAReason, Reason, ChainsHold
<1> QED BY <1>1, ChainInit, ChainStep, PTL DEF AuditSpec

-----------------------------------------------------------------------------
(* The export buffer *)

(* An entry that was appended is where it should be, or raced. *)
Kept(c) == c \in exported \cup raced \cup InSeq(buffer)

ExportInv ==
    /\ AuditTypeOK
    /\ buffer \in Seq(Calls)
    /\ flusher = None \/ flusher \in Seq(Calls)
    /\ \A c \in Calls : Serving(c, "enqueue", "append") \/ Serving(c, "enqueue", "clear") =>
         held[c] \in Seq(Calls)
    /\ \A c \in Calls :
         \/ ask[c].op = "enqueue" /\ reply[c] = "ok"
         \/ Serving(c, "enqueue", "full") \/ Serving(c, "enqueue", "flush")
         \/ Serving(c, "enqueue", "clear")
         => Kept(c)

-----------------------------------------------------------------------------
(* Every entry that is appended is in the slice that replaces the buffer. *)
LEMMA AppendedHolds ==
    ASSUME NEW c \in Calls, buffer \in Seq(Calls), held[c] \in Seq(Calls), NEW new \in Appended(c)
    PROVE  /\ new \in Seq(Calls) /\ c \in InSeq(new)
           /\ buffer = held[c] => InSeq(buffer) \subseteq InSeq(new)
<1>1. PICK h \in Seq(Calls) : h = held[c]
  OBVIOUS
<1>2. PICK N \in Nat : N = Len(h)
  OBVIOUS
<1>3. PICK copy, shared :
        /\ copy = Append(h, c)
        /\ shared = [n \in 1 .. N + 1 |->
                       IF n > N THEN c ELSE IF n <= Len(buffer) THEN buffer[n] ELSE h[n]]
  OBVIOUS
<1>4. new \in {copy, shared}
  BY <1>1, <1>2, <1>3 DEF Appended
<1>5. /\ copy \in Seq(Calls) /\ Len(copy) = N + 1 /\ copy[N + 1] = c
      /\ \A n \in 1 .. N : copy[n] = h[n]
  BY <1>2, <1>3
<1>6. \A n \in 1 .. N + 1 : shared[n] \in Calls
  <2> SUFFICES ASSUME NEW n \in 1 .. N + 1 PROVE shared[n] \in Calls
    OBVIOUS
  <2>1. n <= N => h[n] \in Calls
    BY <1>2
  <2>2. n <= Len(buffer) => buffer[n] \in Calls
    OBVIOUS
  <2> QED BY <1>3, <2>1, <2>2
<1>7. /\ shared \in Seq(Calls) /\ Len(shared) = N + 1 /\ shared[N + 1] = c
      /\ buffer = h => \A n \in 1 .. N : shared[n] = h[n]
  <2>1. shared \in [1 .. N + 1 -> Calls]
    BY <1>3, <1>6
  <2>2. shared \in Seq(Calls) /\ Len(shared) = N + 1
    BY <2>1
  <2>3. shared[N + 1] = c
    BY <1>3
  <2>4. buffer = h => \A n \in 1 .. N : shared[n] = h[n]
    BY <1>2, <1>3
  <2> QED BY <2>2, <2>3, <2>4
<1>8. new \in Seq(Calls) /\ Len(new) = N + 1 /\ new[N + 1] = c
  BY <1>4, <1>5, <1>7
<1>9. buffer = h => \A n \in 1 .. N : new[n] = h[n]
  BY <1>4, <1>5, <1>7
<1>10. c \in InSeq(new)
  BY <1>8 DEF InSeq
<1>11. buffer = h => InSeq(h) \subseteq InSeq(new)
  BY <1>2, <1>8, <1>9 DEF InSeq
<1> QED BY <1>1, <1>8, <1>10, <1>11

(* A call that moves on while what is kept is kept, and it too. *)
LEMMA EnqueueMoves ==
    ASSUME ExportInv, AuditTypeOK', NEW c \in Calls, ask' = ask,
           \A d \in Calls \ {c} : at'[d] = at[d] /\ held'[d] = held[d] /\ reply'[d] = reply[d],
           flusher' = flusher,
           NEW new \in Seq(Calls), buffer' = new,
           exported \cup raced \cup InSeq(buffer) \subseteq exported' \cup raced' \cup InSeq(new),
           ask[c].op = "enqueue" =>
             /\ at'[c] \in {"append", "clear"} => held'[c] \in Seq(Calls)
             /\ at'[c] \in {"full", "flush", "clear"} \/ reply'[c] = "ok" =>
                  c \in exported' \cup raced' \cup InSeq(new)
    PROVE  ExportInv'
<1>1. \A d \in Calls : Serving(d, "enqueue", "append")' \/ Serving(d, "enqueue", "clear")' =>
         held'[d] \in Seq(Calls)
  BY DEF ExportInv, Serving
<1>2. ASSUME NEW d \in Calls,
             \/ ask[d].op = "enqueue" /\ reply'[d] = "ok"
             \/ Serving(d, "enqueue", "full")' \/ Serving(d, "enqueue", "flush")'
             \/ Serving(d, "enqueue", "clear")'
      PROVE  d \in exported' \cup raced' \cup InSeq(new)
  <2>1. CASE d = c
    BY <1>2, <2>1 DEF Serving
  <2>2. CASE d # c
    <3>1. Kept(d)
      BY <1>2, <2>2 DEF ExportInv, Serving
    <3> QED BY <3>1 DEF Kept
  <2> QED BY <2>1, <2>2
<1>3. InSeq(buffer)' = InSeq(new)
  BY DEF InSeq
<1> QED BY <1>1, <1>2, <1>3 DEF ExportInv, Kept

(* Every step keeps what was enqueued: append and the second half of flush *)
(* replace the buffer, and what they did not copy is known to have raced   *)
(* with them.                                                              *)
LEMMA ExportStep ==
    ExportInv /\ ChainInv' /\ [AuditNext]_auditAllVars => ExportInv'
<1> SUFFICES ASSUME ExportInv, ChainInv', [AuditNext]_auditAllVars PROVE ExportInv'
  OBVIOUS
<1>0. AuditTypeOK' /\ AuditTypeOK /\ buffer \in Seq(Calls)
  BY DEF ChainInv, ExportInv
<1>1. CASE UNCHANGED <<exportVars, callVars>>
  BY <1>0, <1>1 DEF ExportInv, Kept, InSeq, callVars, exportVars, Serving
<1>2. ASSUME NEW c \in Calls, UNCHANGED <<exportVars, ask>>,
             \A d \in Calls \ {c} : at'[d] = at[d] /\ held'[d] = held[d] /\ reply'[d] = reply[d],
             ask[c].op = "enqueue" => at'[c] = "done" /\ reply'[c] # "ok"
      PROVE  ExportInv'
  <2>1. /\ buffer' = buffer /\ flusher' = flusher /\ exported' = exported /\ raced' = raced
        /\ ask' = ask
    BY <1>2 DEF exportVars
  <2> QED BY <1>0, <1>2, <2>1, EnqueueMoves
<1>3. ASSUME NEW c \in Calls, Malformed(c), UNCHANGED auditVars PROVE ExportInv'
  <2>1. /\ UNCHANGED <<exportVars, ask>> /\ at' = [at EXCEPT ![c] = "done"]
        /\ reply' = [reply EXCEPT ![c] = "refused"] /\ held' = held
    BY <1>3 DEF Malformed, Refuse, Answer, auditVars
  <2>2. /\ \A d \in Calls \ {c} : at'[d] = at[d] /\ held'[d] = held[d] /\ reply'[d] = reply[d]
        /\ at'[c] = "done" /\ reply'[c] # "ok"
    BY <1>0, <2>1 DEF AuditTypeOK
  <2> QED BY <1>2, <2>1, <2>2
<1>4. ASSUME NEW c \in Calls, Log(c) \/ VerifyChain(c), UNCHANGED exportVars
      PROVE  ExportInv'
  <2>1. ask' = ask /\ ask[c].op # "enqueue"
    BY <1>4 DEF Log, Stamp, Link, VerifyChain, Begins, Serving, Goto, Ok, Refuse, Answer
  <2>2. \A d \in Calls \ {c} : at'[d] = at[d] /\ held'[d] = held[d] /\ reply'[d] = reply[d]
    BY <1>0, <1>4
       DEF Log, Stamp, Link, VerifyChain, Goto, Hold, Ok, Refuse, Answer, AuditTypeOK
  <2> QED BY <1>2, <1>4, <2>1, <2>2
<1>5. ASSUME NEW c \in Calls, Enqueue(c), UNCHANGED flusher PROVE ExportInv'
  <2>0. /\ ask' = ask /\ ask[c].op = "enqueue"
        /\ \A d \in Calls \ {c} : at'[d] = at[d] /\ held'[d] = held[d] /\ reply'[d] = reply[d]
    BY <1>0, <1>5 DEF Enqueue, Begins, Serving, Hold, Goto, Ok, Answer, AuditTypeOK
  <2>1. CASE at[c] = "start"
    <3>1. /\ held'[c] = buffer /\ at'[c] = "append" /\ reply'[c] = reply[c]
          /\ buffer' = buffer /\ exported' = exported /\ raced' = raced
      BY <1>0, <1>5, <2>1 DEF Enqueue, Begins, Serving, Hold, Goto, AuditTypeOK
    <3>2. reply[c] = "ok" => Kept(c)
      BY <2>0 DEF ExportInv
    <3> QED BY <1>0, <1>5, <2>0, <3>1, <3>2, EnqueueMoves DEF Kept
  <2>2. CASE at[c] = "append"
    <3>1. /\ buffer' \in Appended(c) /\ Replaces(held[c]) /\ exported' = exported
          /\ at'[c] = "full"
      BY <1>0, <1>5, <2>2 DEF Enqueue, Begins, Serving, Goto, AuditTypeOK
    <3>2. held[c] \in Seq(Calls)
      BY <2>0, <2>2 DEF ExportInv, Serving
    <3>3. PICK new : new = buffer'
      OBVIOUS
    <3>4. /\ new \in Seq(Calls) /\ c \in InSeq(new)
          /\ buffer = held[c] => InSeq(buffer) \subseteq InSeq(new)
      BY <1>0, <3>1, <3>2, <3>3, AppendedHolds
    <3>5. exported \cup raced \cup InSeq(buffer) \subseteq exported' \cup raced' \cup InSeq(new)
      BY <3>1, <3>4 DEF Replaces
    <3> QED BY <1>0, <1>5, <2>0, <3>1, <3>3, <3>4, <3>5, EnqueueMoves
  <2>3. CASE at[c] \in {"full", "flush"}
    <3>1. /\ buffer' = buffer /\ exported' = exported /\ raced' = raced
          /\ at'[c] \in {"flush", "clear", "done"}
          /\ at'[c] = "clear" => held'[c] = buffer
      BY <1>0, <1>5, <2>3 DEF Enqueue, Begins, Serving, Hold, Goto, Ok, Answer, AuditTypeOK
    <3>2. Kept(c)
      BY <2>0, <2>3 DEF ExportInv, Serving
    <3> QED BY <1>0, <1>5, <2>0, <3>1, <3>2, EnqueueMoves DEF Kept
  <2>4. CASE at[c] = "clear"
    <3>1. /\ buffer' = <<>> /\ exported' = exported \cup InSeq(held[c]) /\ Replaces(held[c])
          /\ at'[c] = "done"
      BY <1>0, <1>5, <2>4 DEF Enqueue, Begins, Serving, Clear, Export, Ok, Answer, AuditTypeOK
    <3>2. Kept(c)
      BY <2>0, <2>4 DEF ExportInv, Serving
    <3>3. PICK new \in Seq(Calls) : new = <<>>
      <4>1. <<>> \in Seq(Calls)
        OBVIOUS
      <4> QED BY <4>1, Zenon
    <3>4. exported \cup raced \cup InSeq(buffer) \subseteq exported' \cup raced' \cup InSeq(new)
      BY <3>1 DEF Replaces
    <3> QED BY <1>0, <1>5, <2>0, <3>1, <3>2, <3>3, <3>4, EnqueueMoves DEF Kept
  <2> QED BY <1>5, <2>1, <2>2, <2>3, <2>4 DEF Enqueue, Begins, Serving
<1>6. ASSUME Flush, UNCHANGED callVars PROVE ExportInv'
  <2>0. ask' = ask /\ at' = at /\ held' = held /\ reply' = reply
    BY <1>6 DEF callVars
  <2>1. CASE flusher = None
    <3>1. flusher' = buffer /\ buffer' = buffer /\ exported' = exported /\ raced' = raced
      BY <1>6, <2>1 DEF Flush
    <3> QED BY <1>0, <2>0, <3>1 DEF ExportInv, Serving, Kept, InSeq
  <2>2. CASE flusher # None
    <3>1. /\ exported' = exported \cup InSeq(flusher) /\ buffer' = <<>> /\ Replaces(flusher)
          /\ flusher' = None
      BY <1>6, <2>2 DEF Flush, Clear, Export
    <3>2. exported \cup raced \cup InSeq(buffer) \subseteq exported' \cup raced'
      BY <3>1 DEF Replaces
    <3>3. \A d \in Calls : Kept(d) => Kept(d)'
      BY <3>2 DEF Kept
    <3>4. buffer' \in Seq(Calls)
      BY <3>1
    <3> QED BY <1>0, <2>0, <3>1, <3>3, <3>4 DEF ExportInv, Serving
  <2> QED BY <2>1, <2>2
<1>7. ASSUME NEW l \in Loggers, NewSecureLogger(l) PROVE ExportInv'
  <2>1. /\ ask' = ask /\ held' = held /\ reply' = reply /\ UNCHANGED exportVars
        /\ \A d \in Calls : ask[d].op = "enqueue" => at'[d] = at[d]
    BY <1>7 DEF NewSecureLogger, Logging
  <2>2. buffer' = buffer /\ flusher' = flusher /\ exported' = exported /\ raced' = raced
    BY <2>1 DEF exportVars
  <2> QED BY <1>0, <2>1, <2>2 DEF ExportInv, Serving, Kept, InSeq
<1>8. CASE UNCHANGED auditAllVars
  BY <1>1, <1>8 DEF auditAllVars, auditVars
<1> QED
  BY <1>3, <1>4, <1>5, <1>6, <1>7, <1>8 DEF AuditNext, VerifyChain, auditVars

(* However callers of Enqueue, their flushes and the flush loop meet in    *)
(* the buffer: an entry that raced with nobody is in the buffer or         *)
(* exported.                                                               *)
THEOREM NothingDropped ==
    AuditSpec => []NothingIsDropped
<1>1. CallsInit([Calls -> AuditAsks]) /\ AuditInit => ChainInv
  BY ChainInit
<1>2. CallsInit([Calls -> AuditAsks]) /\ AuditInit => ExportInv
  BY <1>1 DEF CallsInit, AuditInit, ExportInv, ChainInv, Serving
<1>3. ExportInv => NothingIsDropped
  BY DEF ExportInv, Kept, NothingIsDropped
<1> QED BY <1>1, <1>2, <1>3, ChainStep, ExportStep, PTL DEF AuditSpec

-----------------------------------------------------------------------------
(* Secrets *)

SecretAsks ==
    [op : {"secret", "rotate"}, bad : BOOLEAN, provider : STRING, manager : Managers]
      \cup [op : {"dropsecret"}, bad : BOOLEAN, provider : Providers, manager : Managers]
      \cup [op : {"providers"}, bad : BOOLEAN]

secretAllVars == <<secretVars, callVars>>

(* The managers of any number of processes, with any requests. *)
SecretsSpec ==
    /\ CallsInit([Calls -> SecretAsks]) /\ SecretsInit
    /\ [][SecretsNext]_secretAllVars

SecretsTypeOK ==
    /\ ask \in [Calls -> SecretAsks]
    /\ at = [c \in Calls |-> at[c]]
    /\ primary \in Providers
    /\ vault = [p \in SharedProviders |-> vault[p]]
    /\ environ = [m \in Managers |-> environ[m]]
    /\ secretCache = [m \in Managers |-> secretCache[m]]

(* A rotation has written the secret and not yet dropped the entry of m. *)
Unannounced(m) ==
    \E c \in Calls : ask[c].op = "rotate" /\ ask[c].manager = m /\ at[c] = "drop"

(* An old entry has one of the reasons. *)
EntryExplained(m) ==
    secretCache[m] # None /\ secretCache[m] # Value(primary, m) => m \in excused \/ Unannounced(m)

SecretsInv == SecretsTypeOK /\ \A m \in Managers : EntryExplained(m)

-----------------------------------------------------------------------------
(* A step that changes neither a secret nor an entry takes no reason away, *)
(* unless it ends the rotation that is one.                                *)
LEMMA SecretsUntouched ==
    ASSUME SecretsInv, NEW c \in Calls, NEW label, UNCHANGED secretVars, ask' = ask,
           at' = [at EXCEPT ![c] = label], ~(ask[c].op = "rotate" /\ at[c] = "drop")
    PROVE  SecretsInv'
<1>1. \A m \in Managers : Value(primary, m)' = Value(primary, m)
  BY DEF Value, secretVars
<1>2. \A m \in Managers : Unannounced(m) => Unannounced(m)'
  BY DEF Unannounced, SecretsInv, SecretsTypeOK
<1>3. SecretsTypeOK'
  BY DEF SecretsInv, SecretsTypeOK, secretVars
<1> QED BY <1>1, <1>2, <1>3 DEF SecretsInv, EntryExplained, secretVars

(* The secret changes: entries of others are excused, the own one too or   *)
(* the rotation goes on to drop it.                                        *)
LEMMA SecretChanges ==
    ASSUME SecretsInv, NEW c \in Calls, NEW label, NEW m \in Managers,
           ask[c].op = "rotate", ask[c].manager = m, ask' = ask, at[c] # "drop",
           at' = [at EXCEPT ![c] = label], UNCHANGED <<primary, secretCache>>,
           vault' = [p \in SharedProviders |-> vault'[p]],
           environ' = [o \in Managers |-> environ'[o]],
           \A o \in Managers : o # m => environ'[o] = environ[o],
           primary # "env" => environ' = environ,
           excused' \in {excused \cup Others(m), excused \cup Others(m) \cup {m}},
           label = "drop" \/ m \in excused'
    PROVE  SecretsInv'
<1>1. SecretsTypeOK'
  BY DEF SecretsInv, SecretsTypeOK
<1>2. \A o \in Managers : Unannounced(o) => Unannounced(o)'
  BY DEF Unannounced, SecretsInv, SecretsTypeOK
<1>3. label = "drop" => Unannounced(m)'
  BY DEF Unannounced, SecretsInv, SecretsTypeOK
<1>4. EntryExplained(m)'
  BY <1>3 DEF EntryExplained
<1>5. ASSUME NEW o \in Managers, o # m PROVE EntryExplained(o)'
  <2>1. CASE primary = "env"
    <3>1. Value(primary, o)' = Value(primary, o)
      BY <1>5, <2>1 DEF Value
    <3> QED BY <1>2, <3>1 DEF EntryExplained, SecretsInv
  <2>2. CASE primary # "env" /\ secretCache[o] # None
    BY <1>5, <2>2 DEF Others, EntryExplained
  <2>3. CASE secretCache[o] = None
    BY <2>3 DEF EntryExplained
  <2> QED BY <2>1, <2>2, <2>3
<1> QED BY <1>1, <1>4, <1>5 DEF SecretsInv

(* The entry of one manager is dropped or set. *)
LEMMA EntryChanges ==
    ASSUME SecretsInv, NEW m \in Managers, UNCHANGED <<primary, vault, environ, ask>>,
           \E v : SetSecret(m, v) \/ DropSecret(m),
           at' = [c \in Calls |-> at'[c]],
           \A o \in Managers : o # m => (Unannounced(o) => Unannounced(o)')
    PROVE  SecretsInv'
<1>1. \A o \in Managers : Value(primary, o)' = Value(primary, o)
  BY DEF Value
<1>2. SecretsTypeOK'
  BY DEF SecretsInv, SecretsTypeOK, SetSecret, DropSecret
<1>3. EntryExplained(m)'
  BY <1>1 DEF EntryExplained, SetSecret, DropSecret, SecretsInv, SecretsTypeOK
<1>4. ASSUME NEW o \in Managers, o # m PROVE EntryExplained(o)'
  BY <1>1, <1>4 DEF EntryExplained, SetSecret, DropSecret, SecretsInv, SecretsTypeOK
<1> QED BY <1>2, <1>3, <1>4 DEF SecretsInv

(* Manager.Put keeps the reasons. *)
LEMMA PutKeeps ==
    ASSUME SecretsInv, NEW c \in Calls, ask[c].op = "rotate", Put(c)
    PROVE  SecretsInv'
<1> DEFINE m == ask[c].manager
<1>1. m \in Managers
  BY DEF SecretsInv, SecretsTypeOK, SecretAsks
<1>2. CASE at[c] = "drop"
  <2>1. DropSecret(m) /\ UNCHANGED <<primary, vault, environ, ask>>
    BY <1>2 DEF Put, Ok, Answer
  <2>2. at' = [at EXCEPT ![c] = "done"]
    BY <1>2 DEF Put, Ok, Answer
  <2>3. at' = [d \in Calls |-> at'[d]]
    BY <2>2 DEF SecretsInv, SecretsTypeOK
  <2>4. \A o \in Managers : o # m => (Unannounced(o) => Unannounced(o)')
    BY <2>1, <2>2 DEF Unannounced, SecretsInv, SecretsTypeOK
  <2> QED BY <1>1, <2>1, <2>3, <2>4, EntryChanges
<1>3. CASE at[c] # "drop" /\ UNCHANGED secretVars
  <2>1. \E label : at' = [at EXCEPT ![c] = label]
    BY <1>3 DEF Put, Refuse, Goto, Answer
  <2>2. ask' = ask
    BY <1>3 DEF Put, Refuse, Goto, Answer
  <2> QED BY <1>3, <2>1, <2>2, SecretsUntouched
<1>4. CASE at[c] # "drop" /\ ~UNCHANGED secretVars
  <2>1. PICK label : at' = [at EXCEPT ![c] = label] /\ (label = "drop" \/ m \in excused')
    BY <1>4 DEF Put, Refuse, Goto, Answer
  <2>2. ask' = ask /\ UNCHANGED <<primary, secretCache>>
    BY <1>4 DEF Put, Refuse, Goto, Answer
  <2>3. excused' \in {excused \cup Others(m), excused \cup Others(m) \cup {m}}
    BY <1>4 DEF Put
  <2>4. /\ vault' = [p \in SharedProviders |-> vault'[p]]
        /\ environ' = [o \in Managers |-> environ'[o]]
    BY <1>4 DEF Put, VaultPut, EnvPut, PutSecretValue, CreateSecret, SecretsInv, SecretsTypeOK
  <2>5. \A o \in Managers : o # m => environ'[o] = environ[o]
    BY <1>4 DEF Put, VaultPut, EnvPut, PutSecretValue, CreateSecret, SecretsInv, SecretsTypeOK
  <2>6. primary # "env" => environ' = environ
    BY <1>4 DEF Put, VaultPut, EnvPut, PutSecretValue, CreateSecret
  <2>7. ask[c].manager = m
    OBVIOUS
  <2> HIDE DEF m
  <2> QED BY <1>1, <1>4, <2>7, <2>1, <2>2, <2>3, <2>4, <2>5, <2>6, SecretChanges
<1> QED BY <1>2, <1>3, <1>4

(* Every step of the managers keeps them. *)
LEMMA SecretsStep ==
    SecretsInv /\ [SecretsNext]_secretAllVars => SecretsInv'
<1> SUFFICES ASSUME SecretsInv, [SecretsNext]_secretAllVars PROVE SecretsInv'
  OBVIOUS
<1>1. CASE UNCHANGED secretAllVars
  BY <1>1 DEF secretAllVars, secretVars, callVars, SecretsInv, SecretsTypeOK, EntryExplained,
              Unannounced, Value
<1>2. ASSUME NEW c \in Calls, Malformed(c), UNCHANGED secretVars PROVE SecretsInv'
  BY <1>2, SecretsUntouched DEF Malformed, Refuse, Answer
<1>3. ASSUME NEW c \in Calls, GetFrom(c) PROVE SecretsInv'
  <2>1. CASE Serving(c, "secret", "fill")
    <3>1. ask[c].manager \in Managers
      BY <2>1 DEF Serving, SecretsInv, SecretsTypeOK, SecretAsks
    <3>2. /\ SetSecret(ask[c].manager, held[c]) /\ UNCHANGED <<primary, vault, environ, ask>>
          /\ at' = [at EXCEPT ![c] = "done"]
      BY <1>3, <2>1 DEF GetFrom, Begins, Serving, Ok, Answer
    <3>3. at' = [d \in Calls |-> at'[d]]
      BY <3>2 DEF SecretsInv, SecretsTypeOK
    <3>4. \A o \in Managers : Unannounced(o) => Unannounced(o)'
      BY <2>1, <3>2 DEF Unannounced, Serving, SecretsInv, SecretsTypeOK
    <3> QED BY <3>1, <3>2, <3>3, <3>4, EntryChanges
  <2>2. CASE ~Serving(c, "secret", "fill")
    <3>1. PICK label : at' = [at EXCEPT ![c] = label]
      BY <1>3, <2>2 DEF GetFrom, Goto, Refuse, Answer
    <3>2. ask' = ask /\ UNCHANGED secretVars /\ ask[c].op = "secret"
      BY <1>3, <2>2 DEF GetFrom, Goto, Refuse, Answer, Begins, Serving
    <3> QED BY <3>1, <3>2, SecretsUntouched
  <2> QED BY <2>1, <2>2
<1>4. ASSUME NEW c \in Calls, Rotate(c) PROVE SecretsInv'
  <2>1. CASE Begins(c, "rotate") /\ UNCHANGED secretVars
                /\ ((Goto(c, "put") /\ UNCHANGED held) \/ (MayFail /\ Refuse(c)))
    <3>1. ask' = ask /\ \E label : at' = [at EXCEPT ![c] = label]
      BY <2>1 DEF Goto, Refuse, Answer
    <3> QED BY <2>1, <3>1, SecretsUntouched DEF Begins, Serving
  <2>2. CASE ask[c].op = "rotate" /\ Put(c)
    BY <2>2, PutKeeps
  <2> QED BY <1>4, <2>1, <2>2 DEF Rotate
<1>5. ASSUME NEW c \in Calls, DeleteSecret(c) PROVE SecretsInv'
  <2> DEFINE p == ask[c].provider
             m == ask[c].manager
  <2>1. /\ p \in Providers /\ m \in Managers /\ ask[c].op = "dropsecret"
        /\ ask' = ask /\ at' = [at EXCEPT ![c] = "done"] /\ UNCHANGED <<primary, secretCache>>
    BY <1>5 DEF DeleteSecret, Begins, Serving, Ok, Refuse, Answer, SecretsInv, SecretsTypeOK,
                SecretAsks
  <2>2. CASE UNCHANGED <<vault, environ, excused>>
    BY <2>1, <2>2, SecretsUntouched DEF secretVars
  <2>3. CASE ~UNCHANGED <<vault, environ, excused>>
    <3>1. /\ p = "env" => environ' = [environ EXCEPT ![m] = None] /\ UNCHANGED vault
          /\ p # "env" => vault' = [vault EXCEPT ![p] = None] /\ UNCHANGED environ
          /\ excused' = IF p # primary THEN excused
                        ELSE IF p = "env" THEN excused \cup {m} ELSE Managers
      BY <1>5, <2>3 DEF DeleteSecret
    <3>2. SecretsTypeOK'
      BY <2>1, <3>1 DEF SecretsInv, SecretsTypeOK
    <3>3. \A o \in Managers : Unannounced(o) => Unannounced(o)'
      BY <2>1 DEF Unannounced, SecretsInv, SecretsTypeOK
    <3>4. \A o \in Managers : Value(primary, o)' = Value(primary, o) \/ o \in excused'
      BY <2>1, <3>1 DEF Value, SecretsInv, SecretsTypeOK, Providers, SharedProviders
    <3>5. excused \cap Managers \subseteq excused'
      BY <3>1
    <3> QED BY <2>1, <3>2, <3>3, <3>4, <3>5 DEF SecretsInv, EntryExplained
  <2> QED BY <2>2, <2>3
<1>6. ASSUME NEW c \in Calls, ReadProviders(c) PROVE SecretsInv'
  BY <1>6, SecretsUntouched DEF ReadProviders, Begins, Serving, Ok, Refuse, Answer
<1>7. ASSUME NEW m \in Managers, ExpireSecret(m) PROVE SecretsInv'
  <2>1. DropSecret(m) /\ UNCHANGED <<primary, vault, environ, ask, at>>
    BY <1>7 DEF ExpireSecret, callVars
  <2>2. at' = [d \in Calls |-> at'[d]]
    BY <2>1 DEF SecretsInv, SecretsTypeOK
  <2>3. \A o \in Managers : Unannounced(o) => Unannounced(o)'
    BY <2>1 DEF Unannounced
  <2> QED BY <2>1, <2>2, <2>3, EntryChanges
<1> QED BY <1>1, <1>2, <1>3, <1>4, <1>5, <1>6, <1>7 DEF SecretsNext

(* Whatever processes rotate, read and delete a secret at once, through    *)
(* any provider: a manager serves an old one for a known reason only       *)
(* (Manager.Put, GetFrom).                                                 *)
THEOREM OldSecretsHold ==
    SecretsSpec => []OldSecretsAreExplained
<1>1. CallsInit([Calls -> SecretAsks]) /\ SecretsInit => SecretsInv
  BY SecretsAssumption
     DEF CallsInit, SecretsInit, SecretsInv, SecretsTypeOK, EntryExplained, Providers,
         SharedProviders
<1>2. SecretsInv => OldSecretsAreExplained
  BY DEF SecretsInv, EntryExplained, Unannounced, OldSecretsAreExplained, Rotating
<1> QED BY <1>1, <1>2, SecretsStep, PTL DEF SecretsSpec
=============================================================================
