------------------------------ MODULE Handlers ------------------------------
(***************************************************************************)
(* What the request handlers of the services have in common.  A call is    *)
(* one HTTP or gRPC request.  Its handler runs in a goroutine of its own   *)
(* and moves from label to label, one database, Redis or gRPC round trip   *)
(* per step, so that the steps of different calls interleave.              *)
(***************************************************************************)
EXTENDS Naturals, Sequences, FiniteSets

CONSTANTS
    Calls,      \* the requests that are looked at
    MayFail,    \* whether a round trip may fail
    None        \* the nil of the code

ASSUME CallsAssumption == IsFiniteSet(Calls) /\ MayFail \in BOOLEAN

VARIABLES
    ask,        \* the request of each call
    at,         \* the next step of each call
    held,       \* what the handler of each call has read and keeps
    reply       \* what each call has been answered

callVars == <<ask, at, held, reply>>

(* The handler of c runs the operation op and is about to take this step. *)
Serving(c, op, label) == ask[c].op = op /\ at[c] = label

Goto(c, label) ==
    /\ at' = [at EXCEPT ![c] = label]
    /\ UNCHANGED <<ask, reply>>

(* A round trip fails.  What it was to do to v may have been done all the  *)
(* same, with only the answer lost; the handler cannot tell.               *)
Unanswered(effect, v) == MayFail /\ (effect \/ UNCHANGED v)

(* The handler keeps v for its later steps. *)
Hold(c, v) == held' = [held EXCEPT ![c] = v]

(* The handler writes its response and returns. *)
Answer(c, r) ==
    /\ at' = [at EXCEPT ![c] = "done"]
    /\ reply' = [reply EXCEPT ![c] = r]
    /\ UNCHANGED ask

(* WriteJSON and WriteErrorJSON: the body tells success from failure. *)
Ok(c) == Answer(c, "ok") /\ UNCHANGED held
Refuse(c) == Answer(c, "refused") /\ UNCHANGED held

(* The checks of the request itself, before the first round trip. *)
Malformed(c) == at[c] = "start" /\ ask[c].bad /\ Refuse(c)
Begins(c, op) == Serving(c, op, "start") /\ ~ask[c].bad

(* Some call asks for one of these operations. *)
Asked(ops) == \E c \in Calls : ask[c].op \in ops

CallsInit(requests) ==
    /\ ask \in requests
    /\ at = [c \in Calls |-> "start"]
    /\ held = [c \in Calls |-> None]
    /\ reply = [c \in Calls |-> "none"]
=============================================================================
