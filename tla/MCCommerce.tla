----------------------------- MODULE MCCommerce -----------------------------
(***************************************************************************)
(* Services around the payments: subscriptions, platform accounts, fraud   *)
(* detection, support and integration projects.  Each has tables, or a     *)
(* memory, of its own, so a step of one leaves the others alone, and it is *)
(* enough to look at the calls of one of them at a time.                   *)
(***************************************************************************)
EXTENDS Billing, Connect, Fraud, Support, Integrations, TLC

CONSTANTS c1, c2, c3, x0

ThreeCalls == {c1, c2, c3}
OneRow == {x0}
CallSymmetry == Permutations(Calls)

BillRequests ==
    {[op |-> "subscribe", bad |-> FALSE, plan |-> p] : p \in {"gold", "none"}}
      \cup {[op |-> "cancel", bad |-> FALSE, sub |-> x0], [op |-> "cancel", bad |-> TRUE]}

Update(email, fee, payout) ==
    [op |-> "updateplatform", bad |-> FALSE, account |-> x0, email |-> email, fee |-> fee,
     payout |-> payout]

MCPayouts == {[interval |-> "weekly", bank |-> "b1"], [interval |-> "monthly", bank |-> "b2"]}

ConnRequests ==
    {Update("e1", 0, None), Update(None, 3, [interval |-> "weekly", bank |-> "b1"]),
     Update(None, 0, [interval |-> "monthly", bank |-> "b2"]),
     [op |-> "newplatform", bad |-> FALSE, email |-> "e2"],
     [op |-> "getplatform", bad |-> FALSE], [op |-> "getplatform", bad |-> TRUE]}

FraudRequests ==
    {[op |-> "payment", bad |-> FALSE, type |-> "payment.succeeded", user |-> "u", amount |-> a] :
        a \in {Limit, Limit + 1}}
      \cup {[op |-> "payment", bad |-> b, type |-> "payment.failed", user |-> "u",
             amount |-> 1] : b \in BOOLEAN}

DeskRequests ==
    {[op |-> "ticket", bad |-> FALSE, org |-> o] : o \in {"o1", "o2"}}
      \cup {[op |-> "status", bad |-> FALSE, ticket |-> x0, status |-> s] :
              s \in {"resolved", "open"}}
      \cup {[op |-> "assign", bad |-> FALSE, ticket |-> x0, assignee |-> "s1"],
            [op |-> "comment", bad |-> FALSE, ticket |-> x0, staff |-> TRUE],
            [op |-> "escalate", bad |-> FALSE, ticket |-> x0, assignee |-> "s2"],
            [op |-> "querydesk", bad |-> FALSE], [op |-> "querydesk", bad |-> TRUE],
            [op |-> "contract", bad |-> FALSE, tier |-> "t1", org |-> "o2"],
            [op |-> "contract", bad |-> FALSE, tier |-> "t2", org |-> "o1"],
            [op |-> "endcontract", bad |-> FALSE, contract |-> x0]}

ProjRequests ==
    {[op |-> "stage", bad |-> FALSE, project |-> x0, status |-> s] :
        s \in {"in_progress", "testing", "completed"}}
      \cup {[op |-> "project", bad |-> FALSE, template |-> t] : t \in {"offer", None}}
      \cup {[op |-> "engineer", bad |-> FALSE, project |-> x0, engineer |-> "s1"],
            [op |-> "note", bad |-> FALSE, project |-> x0]}
      \cup {[op |-> op, bad |-> op = "queryproj"] : op \in {"consult", "milestone", "reviseconsult", "queryproj"}}
      \cup {[op |-> "queryproj", bad |-> FALSE]}

(* No more than one new subscription. *)
FewSubscriptions == {f \in [Calls -> BillRequests] :
                       Cardinality({c \in Calls : f[c].op = "subscribe"}) <= 1}

MCGroups ==
    {FewSubscriptions}
      \cup {[Calls -> requests] : requests \in {ConnRequests, FraudRequests, DeskRequests,
                                                ProjRequests}}

-----------------------------------------------------------------------------
commerceVars == <<callVars, billVars, connVars, fraudVars, deskVars, projVars>>

CommerceInit ==
    /\ \E group \in MCGroups : CallsInit(group)
    /\ BillInit /\ ConnInit /\ FraudInit /\ DeskInit /\ ProjInit

CommerceNext ==
    \/ Asked(BillOps) /\ BillNext /\ UNCHANGED <<connVars, fraudVars, deskVars, projVars>>
    \/ Asked(ConnOps) /\ ConnNext /\ UNCHANGED <<billVars, fraudVars, deskVars, projVars>>
    \/ Asked({"payment"}) /\ FraudNext /\ UNCHANGED <<billVars, connVars, deskVars, projVars>>
    \/ Asked(DeskOps) /\ DeskNext /\ UNCHANGED <<billVars, connVars, fraudVars, projVars>>
    \/ Asked(ProjOps) /\ ProjNext /\ UNCHANGED <<billVars, connVars, fraudVars, deskVars>>

CommerceSpec == CommerceInit /\ [][CommerceNext]_commerceVars
=============================================================================
