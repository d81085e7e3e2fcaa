------------------------------- MODULE Fraud -------------------------------
(***************************************************************************)
(* The fraud service: a consumer of payment events that runs two rules on  *)
(* each payment and publishes an alert for every rule that fails.  The     *)
(* history of the velocity rule is in memory.  A call is one event of the  *)
(* topic; one consumer handles them one at a time.  The times of a user's  *)
(* payments are only added, filtered and counted: here they are a set, in  *)
(* which the payment tells equal times apart.                              *)
(***************************************************************************)
EXTENDS Handlers, Integers

CONSTANTS
    Users,          \* the users that pay
    Limit,          \* the largest amount that is not suspicious
    Threshold,      \* the payments of a user in a window that are not
    Window,         \* the length of the window
    MaxTime,        \* bound: the times that are looked at
    MaxRestarts     \* bound: how often the process restarts

(* What is known of a payment: the rules it failed, and when. *)
Judgements == [failed : SUBSET {"AmountRule", "VelocityRule"}, time : Nat, starts : Nat]

ASSUME FraudAssumption ==
    /\ Limit \in Int /\ {Threshold, Window} \subseteq Nat
    /\ None \notin Judgements

VARIABLES
    time,       \* the clock
    history,    \* the times of the payments of each user, pruned
    starts,     \* history: when the process last started, counted
    alerts      \* the alerts published to risk_alerts

fraudVars == <<time, history, starts, alerts>>

FraudInit ==
    /\ time = 0
    /\ history = [u \in Users |-> {}]
    /\ starts = 0
    /\ alerts = {}

Fresh(times) == {h \in times : time - h.time < Window}

(* AmountRule.Check *)
AmountFails(amount) == amount > Limit

(* VelocityRule.Check: the payment is noted and old ones are dropped. *)
Noted(c) == Fresh(history[ask[c].user] \cup {[of |-> c, time |-> time]})

(* Slip: the payments are counted before this one is noted. *)
TooManyBefore(c) == Cardinality(Fresh(history[ask[c].user])) > Threshold

(* ... and the rest is counted. *)
TooMany(c) == Cardinality(Noted(c)) > Threshold

Judged(failed) == [failed |-> failed, time |-> time, starts |-> starts]

(* Engine.Check: every rule runs, whatever the others say. *)
Check(c) ==
    /\ history' = [history EXCEPT ![ask[c].user] = Noted(c)]
    /\ Hold(c, Judged((IF AmountFails(ask[c].amount) THEN {"AmountRule"} ELSE {})
                         \cup (IF TooMany(c) THEN {"VelocityRule"} ELSE {})))

(* The handler of a message, until its alerts: one at a time. *)
HandlePayment(c) ==
    /\ Begins(c, "payment")
    /\ \A d \in Calls : at[d] # "alert"
    /\ \/ ask[c].type # "payment.succeeded" /\ Ok(c) /\ UNCHANGED history
       \/ /\ ask[c].type = "payment.succeeded"
          /\ Check(c)
          /\ IF held'[c].failed = {} THEN Answer(c, "ok") ELSE Goto(c, "alert")
    /\ UNCHANGED <<time, starts, alerts>>

(* One alert for each failed rule; those that cannot be published are logged. *)
PublishAlerts(c) ==
    /\ Serving(c, "payment", "alert")
    /\ \E told \in SUBSET held[c].failed :
         /\ MayFail \/ told = held[c].failed
         /\ alerts' = alerts \cup ({c} \X told)
    /\ Ok(c)
    /\ UNCHANGED <<time, history, starts>>

(* A restart forgets the history and the message being handled. *)
RestartFraud ==
    /\ MayFail /\ starts < MaxRestarts
    /\ history' = [u \in Users |-> {}]
    /\ starts' = starts + 1
    /\ at' = [c \in Calls |-> IF at[c] = "alert" THEN "done" ELSE at[c]]
    /\ UNCHANGED <<time, alerts, ask, held, reply>>

PassTime ==
    /\ time < MaxTime
    /\ time' = time + 1
    /\ UNCHANGED <<history, starts, alerts, callVars>>

FraudNext ==
    \/ \E c \in Calls :
         \/ ask[c].op = "payment" /\ Malformed(c) /\ UNCHANGED fraudVars
         \/ HandlePayment(c) \/ PublishAlerts(c)
    \/ RestartFraud \/ PassTime

-----------------------------------------------------------------------------
(* The payments of the user of c that were judged by the same process,     *)
(* within a window before c, c included: what the pruned history stands    *)
(* for, as far as the order of payments of one instant goes.               *)
Recent(c) ==
    {d \in Calls :
       /\ ask[d].op = "payment" /\ held[d] # None
       /\ ask[d].user = ask[c].user /\ held[d].starts = held[c].starts
       /\ held[d].time <= held[c].time /\ held[c].time - held[d].time < Window}

(* A payment is held to be too fast only if the user has made more than    *)
(* Threshold payments in the window before it, and the last payment of an  *)
(* instant is if they have: pruning loses none that counts.  No alert      *)
(* is raised but for a failed rule (Engine.Check, VelocityRule.Check).     *)
VelocityIsExact ==
    /\ \A c \in Calls :
         ask[c].op = "payment" /\ held[c] # None =>
           /\ "VelocityRule" \in held[c].failed => Cardinality(Recent(c)) > Threshold
           /\ Cardinality(Recent(c)) > Threshold =>
                \E d \in Recent(c) : /\ held[d].time = held[c].time
                                     /\ "VelocityRule" \in held[d].failed
           /\ "AmountRule" \in held[c].failed <=> ask[c].amount > Limit
    /\ \A a \in alerts : a[2] \in held[a[1]].failed
=============================================================================
