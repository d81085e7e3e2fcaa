------------------------------ MODULE Support ------------------------------
(***************************************************************************)
(* Support tickets and contracts.  Every change of a ticket or a contract  *)
(* reads the row, changes the copy and writes all mutable columns of it    *)
(* back; nothing is locked in between.                                     *)
(* A ticket or contract is named by the call that creates it.              *)
(***************************************************************************)
EXTENDS Handlers

CONSTANTS
    FirstTickets,   \* tickets of the start, of an organisation with a contract
    FirstContracts, \* contracts of the start
    Tiers,          \* support tiers
    ResponseTime,   \* the time to the first response an SLA allows
    MaxClock        \* bound: the times that are looked at

VARIABLES
    tickets,        \* support_tickets
    contracts,      \* support_contracts
    comments,       \* support_ticket_comments, by the call that wrote them
    escalations,    \* support_escalations, by the call that wrote them
    clock           \* the time

deskVars == <<tickets, contracts, comments, escalations, clock>>

TicketIds == Calls \cup FirstTickets
ContractIds == Calls \cup FirstContracts

(* The priorities, by urgency. *)
Rank == [low |-> 1, normal |-> 2, high |-> 3, critical |-> 4]

(* upgradeTicketPriority *)
Upgraded == [low |-> "normal", normal |-> "high", high |-> "critical", critical |-> "critical"]

TicketStates == {"open", "in_progress", "pending_customer", "resolved", "closed"}

(* A row of support_tickets, and the priority it was made with. *)
TicketRows ==
    [first : DOMAIN Rank, priority : DOMAIN Rank, status : TicketStates,
     assignee : STRING \cup {None}, due : Nat \cup {None}, responded : Nat \cup {None},
     resolved : Nat \cup {None}, breached : BOOLEAN]

ASSUME DeskAssumption ==
    ResponseTime \in Nat /\ None \notin Nat \cup TicketRows

NewTicket(priority, due) ==
    [first |-> priority, priority |-> priority, status |-> "open", assignee |-> None,
     due |-> due, responded |-> None, resolved |-> None, breached |-> FALSE]

NewContract(org) == [org |-> org, status |-> "active", renew |-> TRUE]

DeskInit ==
    /\ tickets = [t \in TicketIds |-> IF t \in FirstTickets
                                      THEN NewTicket("normal", ResponseTime) ELSE None]
    /\ contracts = [k \in ContractIds |-> IF k \in FirstContracts
                                          THEN NewContract("o1") ELSE None]
    /\ comments = {} /\ escalations = {}
    /\ clock = 0

GetTicketByID(t) == tickets[t]

GetActiveContractByOrg(o) ==
    {k \in ContractIds : contracts[k] # None /\ contracts[k].org = o /\ contracts[k].status = "active"}

(* Slip: sla_breached is not among the columns. *)
UpdateTicketButBreach(t, row) ==
    tickets' = [tickets EXCEPT ![t] = [row EXCEPT !.breached = tickets[t].breached]]

(* UPDATE support_tickets: all columns that may change. *)
UpdateTicket(t, row) == tickets' = [tickets EXCEPT ![t] = row]

InsertTicket(t, row) == tickets' = [tickets EXCEPT ![t] = row]

(* CreateTicket: with an active contract, its SLA sets the deadline. *)
CreateTicket(c) ==
    \/ /\ Begins(c, "ticket")
       /\ \/ /\ GetActiveContractByOrg(ask[c].org) # {}
             /\ Hold(c, NewTicket("normal", clock + ResponseTime))
          \/ /\ MayFail \/ GetActiveContractByOrg(ask[c].org) = {}
             /\ Hold(c, NewTicket("normal", None))
       /\ Goto(c, "insert") /\ UNCHANGED deskVars
    \/ /\ Serving(c, "ticket", "insert")
       /\ \/ InsertTicket(c, held[c]) /\ Ok(c)
          \/ MayFail /\ Refuse(c) /\ UNCHANGED tickets
       /\ UNCHANGED <<contracts, comments, escalations, clock>>

(* A handler reads its ticket; an error reads as not found. *)
ReadTicket(c, next) ==
    /\ \/ GetTicketByID(ask[c].ticket) # None /\ Hold(c, GetTicketByID(ask[c].ticket)) /\ Goto(c, next)
       \/ (MayFail \/ GetTicketByID(ask[c].ticket) = None) /\ Refuse(c)
    /\ UNCHANGED deskVars

(* It writes the changed copy back and answers, or reports the error. *)
WriteTicket(c, row) ==
    /\ \/ UpdateTicket(ask[c].ticket, row) /\ Ok(c)
       \/ MayFail /\ Refuse(c) /\ UNCHANGED tickets
    /\ UNCHANGED <<contracts, comments, escalations, clock>>

UpdateTicketStatus(c) ==
    \/ Begins(c, "status") /\ ReadTicket(c, "write")
    \/ /\ Serving(c, "status", "write")
       /\ WriteTicket(c, [held[c] EXCEPT
            !.status = ask[c].status,
            !.resolved = IF ask[c].status \in {"resolved", "closed"} THEN clock ELSE @])

AssignTicket(c) ==
    \/ Begins(c, "assign") /\ ReadTicket(c, "write")
    \/ /\ Serving(c, "assign", "write")
       /\ WriteTicket(c, [held[c] EXCEPT
            !.assignee = ask[c].assignee,
            !.status = IF @ = "open" THEN "in_progress" ELSE @])

(* The first visible reply of the staff, by the copy the handler holds. *)
FirstReply(c) == ask[c].staff /\ held[c].responded = None

(* AddComment: the comment, then the time of the first response; the       *)
(* update of the ticket may fail unnoticed.                                *)
AddComment(c) ==
    \/ Begins(c, "comment") /\ ReadTicket(c, "insert")
    \/ /\ Serving(c, "comment", "insert")
       /\ \/ /\ comments' = comments \cup {c}
             /\ IF FirstReply(c) THEN Goto(c, "respond") ELSE Answer(c, "ok")
             /\ UNCHANGED held
          \/ MayFail /\ Refuse(c) /\ UNCHANGED comments
       /\ UNCHANGED <<tickets, contracts, escalations, clock>>
    \/ /\ Serving(c, "comment", "respond")
       /\ \/ UpdateTicket(ask[c].ticket, [held[c] EXCEPT
                !.responded = clock,
                !.breached = @ \/ (held[c].due # None /\ clock > held[c].due)])
          \/ MayFail /\ UNCHANGED tickets
       /\ Ok(c) /\ UNCHANGED <<contracts, comments, escalations, clock>>

(* EscalateTicket: the record, then a higher priority, unless it is        *)
(* critical; the update may fail unnoticed.                                *)
EscalateTicket(c) ==
    \/ Begins(c, "escalate") /\ ReadTicket(c, "insert")
    \/ /\ Serving(c, "escalate", "insert")
       /\ \/ /\ escalations' = escalations \cup {c}
             /\ IF held[c].priority = "critical" THEN Answer(c, "ok") ELSE Goto(c, "raise")
             /\ UNCHANGED held
          \/ MayFail /\ Refuse(c) /\ UNCHANGED escalations
       /\ UNCHANGED <<tickets, contracts, comments, clock>>
    \/ /\ Serving(c, "escalate", "raise")
       /\ \/ UpdateTicket(ask[c].ticket, [held[c] EXCEPT !.priority = Upgraded[@],
                                                         !.assignee = ask[c].assignee])
          \/ MayFail /\ UNCHANGED tickets
       /\ Ok(c) /\ UNCHANGED <<contracts, comments, escalations, clock>>

(* GetTicket, GetTicketByNumber, ListTickets, ListComments, ListTiers,     *)
(* GetTier, GetContract, GetOrgContract: one query.                        *)
QueryDesk(c) ==
    /\ Begins(c, "querydesk")
    /\ Ok(c) \/ (MayFail /\ Refuse(c))
    /\ UNCHANGED deskVars

GetContractByID(k) == contracts[k]

InsertContract(k, org) == contracts' = [contracts EXCEPT ![k] = NewContract(org)]

(* UPDATE support_contracts: the status and whether it renews. *)
UpdateContract(k, status, renew) ==
    contracts' = [contracts EXCEPT ![k].status = status, ![k].renew = renew]

(* CreateContract: an error of the lookup counts as no active contract. *)
CreateContract(c) ==
    \/ /\ Begins(c, "contract")
       /\ \/ ask[c].tier \in Tiers /\ Goto(c, "lookup") /\ UNCHANGED held
          \/ (MayFail \/ ask[c].tier \notin Tiers) /\ Refuse(c)
       /\ UNCHANGED deskVars
    \/ /\ Serving(c, "contract", "lookup")
       /\ \/ GetActiveContractByOrg(ask[c].org) # {} /\ Refuse(c)
          \/ /\ MayFail \/ GetActiveContractByOrg(ask[c].org) = {}
             /\ Goto(c, "insert") /\ UNCHANGED held
       /\ UNCHANGED deskVars
    \/ /\ Serving(c, "contract", "insert")
       /\ \/ InsertContract(c, ask[c].org) /\ Ok(c)
          \/ MayFail /\ Refuse(c) /\ UNCHANGED contracts
       /\ UNCHANGED <<tickets, comments, escalations, clock>>

CancelContract(c) ==
    \/ /\ Begins(c, "endcontract")
       /\ LET row == GetContractByID(ask[c].contract) IN
          \/ row # None /\ row.status = "active" /\ Goto(c, "write") /\ UNCHANGED held
          \/ (MayFail \/ row = None) /\ Refuse(c)
          \/ row # None /\ row.status # "active" /\ Refuse(c)
       /\ UNCHANGED deskVars
    \/ /\ Serving(c, "endcontract", "write")
       /\ \/ UpdateContract(ask[c].contract, "canceled", FALSE) /\ Ok(c)
          \/ MayFail /\ Refuse(c) /\ UNCHANGED contracts
       /\ UNCHANGED <<tickets, comments, escalations, clock>>

PassHour ==
    /\ clock < MaxClock
    /\ clock' = clock + 1
    /\ UNCHANGED <<tickets, contracts, comments, escalations, callVars>>

DeskOps == {"ticket", "status", "assign", "comment", "escalate", "querydesk", "contract",
            "endcontract"}

DeskNext ==
    \/ \E c \in Calls :
         \/ ask[c].op \in DeskOps /\ Malformed(c) /\ UNCHANGED deskVars
         \/ CreateTicket(c) \/ UpdateTicketStatus(c) \/ AssignTicket(c) \/ AddComment(c)
         \/ EscalateTicket(c) \/ QueryDesk(c) \/ CreateContract(c) \/ CancelContract(c)
    \/ PassHour

-----------------------------------------------------------------------------
(* The escalations of ticket t. *)
EscalationsOf(t) == {c \in escalations : ask[c].ticket = t}

(* Whatever changes of a ticket overlap and overwrite each other: it is    *)
(* marked as breached exactly if its recorded first response came after    *)
(* its deadline, a resolved or closed ticket has a time of resolution, and *)
(* its priority has risen no more often than it was escalated (AddComment, *)
(* UpdateTicketStatus, EscalateTicket).                                    *)
TicketsAddUp ==
    \A t \in TicketIds : tickets[t] # None =>
        LET row == tickets[t] IN
        /\ row.breached <=> row.responded # None /\ row.due # None /\ row.responded > row.due
        /\ row.status \in {"resolved", "closed"} => row.resolved # None
        /\ Rank[row.priority] - Rank[row.first] <= Cardinality(EscalationsOf(t))
=============================================================================
