------------------------------ MODULE Billing ------------------------------
(***************************************************************************)
(* Subscriptions and the worker that renews them: every minute it lists    *)
(* the subscriptions whose period has ended, charges each and writes its   *)
(* own copy of the row back, while the service creates and cancels.        *)
(* Time counts periods; a subscription is named by the call that makes it. *)
(***************************************************************************)
EXTENDS Handlers

CONSTANTS
    FirstSubs,      \* the subscriptions of the start
    Plans,          \* the rows of the plans table
    MaxNow,         \* bound: the periods that are looked at
    MaxCharges      \* bound: the charges of a period that are looked at

(* A row of the table: canceled says whether canceled_at is set. *)
SubRows ==
    [status : {"active", "past_due", "canceled"}, end : Nat \ {0}, canceled : BOOLEAN]

ASSUME BillAssumption ==
    /\ Calls \cap FirstSubs = {} /\ MaxNow \in Nat
    /\ None \notin SubRows \cup [id : Calls \cup FirstSubs, row : SubRows]

VARIABLES
    subs,       \* the subscriptions table
    now,        \* the clock
    worker,     \* the renewal worker: its step, its list, the copy it works on
    charges,    \* the payments made for each subscription and period
    lost        \* history: the charges whose renewal was not stored

billVars == <<subs, now, worker, charges, lost>>

SubIds == Calls \cup FirstSubs
Idle == [at |-> "idle", todo |-> {}, sub |-> None]

(* NewSubscription: active until the end of its first period. *)
NewSub(start) == [status |-> "active", end |-> start + 1, canceled |-> FALSE]

BillInit ==
    /\ subs = [s \in SubIds |-> IF s \in FirstSubs THEN NewSub(0) ELSE None]
    /\ now = 0
    /\ worker = Idle
    /\ charges = [x \in SubIds \X (1 .. MaxNow) |-> 0]
    /\ lost = {}

(* SQLRepository.UpdateSubscription: every column but the identity. *)
UpdateSubscription(s, row) == subs' = [subs EXCEPT ![s] = row]

CreateSubscription(c) ==
    \/ /\ Begins(c, "subscribe")
       /\ \/ ask[c].plan \in Plans /\ Goto(c, "insert") /\ UNCHANGED held
          \/ (MayFail \/ ask[c].plan \notin Plans) /\ Refuse(c)
       /\ UNCHANGED billVars
    \/ /\ Serving(c, "subscribe", "insert")
       /\ \/ subs' = [subs EXCEPT ![c] = NewSub(now)] /\ Ok(c)
          \/ MayFail /\ Refuse(c) /\ UNCHANGED subs
       /\ UNCHANGED <<now, worker, charges, lost>>

(* CancelSubscription: read, change the copy, write it back. *)
CancelSubscription(c) ==
    \/ /\ Begins(c, "cancel")
       /\ \/ /\ subs[ask[c].sub] # None
             /\ Hold(c, [status |-> "canceled", end |-> subs[ask[c].sub].end, canceled |-> TRUE])
             /\ Goto(c, "update")
          \/ (MayFail \/ subs[ask[c].sub] = None) /\ Refuse(c)
       /\ UNCHANGED billVars
    \/ /\ Serving(c, "cancel", "update")
       /\ \/ UpdateSubscription(ask[c].sub, held[c]) /\ Ok(c)
          \/ MayFail /\ Refuse(c) /\ UNCHANGED subs
       /\ UNCHANGED <<now, worker, charges, lost>>

-----------------------------------------------------------------------------
(* Slip: the query lacks "status = 'active'". *)
DueOfAnyStatus == {s \in SubIds : subs[s] # None /\ subs[s].end <= now}

(* ListDueSubscriptions: active ones whose period has ended. *)
Due == {s \in SubIds : subs[s] # None /\ subs[s].status = "active" /\ subs[s].end <= now}

(* The list does not read canceled_at, so that its copies have none. *)
ListDueSubscriptions ==
    /\ worker = Idle /\ Due # {}
    /\ worker' = [at |-> "next", sub |-> None,
                  todo |-> {[id |-> s, row |-> [subs[s] EXCEPT !.canceled = FALSE]] : s \in Due}]
    /\ UNCHANGED <<subs, now, charges, lost, callVars>>

(* The loop of runProcess, in the order the database returned. *)
NextSubscription ==
    /\ worker.at = "next"
    /\ \/ worker.todo = {} /\ worker' = Idle
       \/ \E d \in worker.todo :
            worker' = [at |-> "pay", todo |-> worker.todo \ {d}, sub |-> d]
       \/ /\ MayFail     \* GetPlan fails
          /\ \E d \in worker.todo : worker' = [worker EXCEPT !.todo = @ \ {d}]
    /\ UNCHANGED <<subs, now, charges, lost, callVars>>

(* CreatePayment; a subscription that cannot be charged is past due. *)
CreatePayment ==
    /\ worker.at = "pay"
    /\ \/ /\ charges[<<worker.sub.id, worker.sub.row.end>>] < MaxCharges
          /\ charges' = [charges EXCEPT ![<<worker.sub.id, worker.sub.row.end>>] = @ + 1]
          /\ worker' = [worker EXCEPT !.at = "store"]
       \/ /\ MayFail /\ UNCHANGED charges
          /\ worker' = [worker EXCEPT !.at = "past_due"]
    /\ UNCHANGED <<subs, now, lost, callVars>>

(* Slip: the new period is the old one. *)
RenewedUnchanged(row) == [row EXCEPT !.status = "active"]

(* CalculateNextPeriod of the end of this period *)
Renewed(row) == [status |-> "active", end |-> row.end + 1, canceled |-> row.canceled]

StoreRenewal ==
    /\ worker.at \in {"store", "past_due"}
    /\ LET s == worker.sub.id
           row == IF worker.at = "store" THEN Renewed(worker.sub.row)
                  ELSE [worker.sub.row EXCEPT !.status = "past_due"]
       IN  \/ UpdateSubscription(s, row) /\ UNCHANGED lost
           \/ /\ MayFail /\ UNCHANGED subs
              /\ lost' = IF worker.at = "store" THEN lost \cup {<<s, worker.sub.row.end>>} ELSE lost
    /\ worker' = [at |-> "next", todo |-> worker.todo, sub |-> None]
    /\ UNCHANGED <<now, charges, callVars>>

(* The process stops and starts again; it remembers nothing. *)
RestartWorker ==
    /\ MayFail /\ worker # Idle
    /\ worker' = Idle
    /\ lost' = IF worker.at = "store"
                 THEN lost \cup {<<worker.sub.id, worker.sub.row.end>>} ELSE lost
    /\ UNCHANGED <<subs, now, charges, callVars>>

PassPeriod ==
    /\ now < MaxNow
    /\ now' = now + 1
    /\ UNCHANGED <<subs, worker, charges, lost, callVars>>

BillOps == {"subscribe", "cancel"}

BillNext ==
    \/ \E c \in Calls :
         \/ ask[c].op \in BillOps /\ Malformed(c) /\ UNCHANGED billVars
         \/ CreateSubscription(c) \/ CancelSubscription(c)
    \/ ListDueSubscriptions \/ NextSubscription \/ CreatePayment \/ StoreRenewal
    \/ RestartWorker \/ PassPeriod

-----------------------------------------------------------------------------
(* A subscription whose period has been renewed has been charged for it,   *)
(* and no period is charged twice unless the renewal it paid for was lost, *)
(* in a failed update or a restart (processSubscription).                  *)
PeriodsArePaidOnce ==
    \A s \in SubIds, p \in 1 .. MaxNow :
        /\ s \in FirstSubs /\ p < subs[s].end => charges[<<s, p>>] >= 1
        /\ charges[<<s, p>>] > 1 => <<s, p>> \in lost

(* A cancelled subscription comes back, or is charged, only through a      *)
(* renewal that was listed while it was active and overtaken by the        *)
(* cancellation (CancelSubscription, ListDueSubscriptions).                *)
CancelsYieldToRenewalsOnly ==
    [][\A s \in SubIds :
         subs[s] # None /\ subs[s].status = "canceled" =>
           \/ /\ subs'[s].status = "canceled"
              /\ \A p \in 1 .. MaxNow : charges'[<<s, p>>] = charges[<<s, p>>]
           \/ worker.sub # None /\ worker.sub.id = s /\ worker.sub.row.status = "active"]_billVars
=============================================================================
