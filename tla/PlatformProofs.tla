--------------------------- MODULE PlatformProofs ---------------------------
(***************************************************************************)
(* What the services around the payments keep: billing, platform accounts, *)
(* the support desk, integration projects and the fraud service; and the   *)
(* servers of the ledger and of the flow service, with its scheduler and   *)
(* its debugger.                                                           *)
(* Each part is proved on its own, with requests of its own, any number of *)
(* them: the parts share no state.                                         *)
(***************************************************************************)
EXTENDS Billing, Connect, Support, Integrations, Fraud, LedgerApi, FlowApi, Triggers,
        Debugger, FiniteSetTheorems, TLAPS

-----------------------------------------------------------------------------
(* Billing *)

Periods == 1 .. MaxNow
Copies == [id : SubIds, row : SubRows]

BillAsks ==
    [op : {"subscribe"}, bad : BOOLEAN, plan : STRING]
      \cup [op : {"cancel"}, bad : BOOLEAN, sub : SubIds]

billAllVars == <<billVars, callVars>>

(* The billing service and its worker, with any number of requests. *)
BillSpec ==
    /\ CallsInit([Calls -> BillAsks]) /\ BillInit
    /\ [][BillNext]_billAllVars

Works == {"pay", "store", "past_due"}
WorkerStates ==
    [at : {"idle", "next"} \cup Works, todo : SUBSET Copies, sub : Copies \cup {None}]

BillTypeOK ==
    /\ ask \in [Calls -> BillAsks]
    /\ at \in [Calls -> {"start", "insert", "update", "done"}]
    /\ held \in [Calls -> SubRows \cup {None}]
    /\ subs \in [SubIds -> SubRows \cup {None}]
    /\ now \in 0 .. MaxNow
    /\ worker \in WorkerStates
    /\ charges \in [SubIds \X Periods -> Nat]

(* Subscription s has been charged for every period before e, if it was    *)
(* there at the start,                                                     *)
PaidUpTo(s, e) ==
    s \in FirstSubs => \A p \in Periods : p < e => charges[<<s, p>>] >= 1

(* and for none from e on, but those whose renewal was lost. *)
UnpaidFrom(s, e) ==
    \A p \in Periods : charges[<<s, p>>] >= 1 /\ <<s, p>> \notin lost => p < e

(* A call that is under way has made no subscription, and a cancellation   *)
(* has read a row whose periods are paid.                                  *)
HandlersBill ==
    \A c \in Calls :
        /\ at[c] # "done" => subs[c] = None
        /\ at[c] = "update" =>
             /\ ask[c].op = "cancel" /\ subs[ask[c].sub] # None
             /\ held[c] \in SubRows /\ held[c].status = "canceled"
             /\ PaidUpTo(ask[c].sub, held[c].end)

(* The worker has charged s for this period and is about to store it. *)
Storing(s, p) == worker.at = "store" /\ worker.sub.id = s /\ worker.sub.row.end = p

(* An active row is at its first unpaid period. *)
RowsBill ==
    \A s \in SubIds :
        IF subs[s] = None THEN \A p \in Periods : charges[<<s, p>>] = 0
        ELSE /\ PaidUpTo(s, subs[s].end)
             /\ subs[s].status = "active" =>
                  \A p \in Periods : charges[<<s, p>>] >= 1 /\ <<s, p>> \notin lost
                                        => p < subs[s].end \/ Storing(s, p)

(* A copy that the worker has listed and not yet charged for. *)
IsDue(d) ==
    /\ subs[d.id] # None /\ d.row.status = "active" /\ d.row.end \in Periods
    /\ PaidUpTo(d.id, d.row.end) /\ UnpaidFrom(d.id, d.row.end)

(* The worker has one copy of a subscription, and charges what is due. *)
WorkerBills ==
    /\ \A d \in worker.todo : IsDue(d)
    /\ \A d, e \in worker.todo : d.id = e.id => d = e
    /\ worker.at \notin Works => worker.sub = None
    /\ worker.at \in Works =>
         /\ worker.sub # None /\ subs[worker.sub.id] # None
         /\ worker.sub.row.status = "active" /\ worker.sub.row.end \in Periods
         /\ \A d \in worker.todo : d.id # worker.sub.id
    /\ worker.at \in {"pay", "past_due"} => IsDue(worker.sub)
    /\ worker.at = "store" => /\ PaidUpTo(worker.sub.id, worker.sub.row.end + 1)
                              /\ UnpaidFrom(worker.sub.id, worker.sub.row.end + 1)

ChargedOnce ==
    \A s \in SubIds, p \in Periods : charges[<<s, p>>] > 1 => <<s, p>> \in lost

(* No subscription is ever deleted. *)
FirstStay == \A s \in FirstSubs : s \in SubIds /\ subs[s] # None

BillInv == BillTypeOK /\ HandlersBill /\ RowsBill /\ WorkerBills /\ ChargedOnce /\ FirstStay

(* A new row is active, up to the end of its first period. *)
LEMMA NewSubIsRow ==
    ASSUME NEW n \in Nat
    PROVE  /\ NewSub(n) \in SubRows /\ NewSub(n) # None
           /\ NewSub(n).status = "active" /\ NewSub(n).end = n + 1
<1>1. n + 1 \in Nat \ {0}
  OBVIOUS
<1>2. PICK e \in Nat \ {0} : e = n + 1
  BY <1>1
<1>3. [status |-> "active", end |-> e, canceled |-> FALSE] \in SubRows
  BY DEF SubRows
<1>4. NewSub(n) \in SubRows /\ NewSub(n).status = "active" /\ NewSub(n).end = n + 1
  BY <1>2, <1>3 DEF NewSub
<1> QED BY <1>4, BillAssumption

LEMMA BillStarts == CallsInit([Calls -> BillAsks]) /\ BillInit => BillInv
<1> SUFFICES ASSUME CallsInit([Calls -> BillAsks]), BillInit PROVE BillInv
  OBVIOUS
<1>1. /\ ask \in [Calls -> BillAsks] /\ at = [c \in Calls |-> "start"]
      /\ held = [c \in Calls |-> None]
  BY DEF CallsInit
<1>2. /\ subs = [s \in SubIds |-> IF s \in FirstSubs THEN NewSub(0) ELSE None]
      /\ now = 0 /\ worker = Idle /\ charges = [x \in SubIds \X Periods |-> 0]
  BY DEF BillInit, Periods
<1>3. NewSub(0) \in SubRows /\ NewSub(0).end = 1 /\ NewSub(0) # None
  BY NewSubIsRow
<1>4. /\ worker.at = "idle" /\ worker.todo = {} /\ worker.sub = None
      /\ worker \in WorkerStates
  BY <1>2 DEF Idle, WorkerStates
<1>5. BillTypeOK
  BY <1>1, <1>2, <1>3, <1>4, BillAssumption DEF BillTypeOK, WorkerStates
<1>6. \A s \in SubIds, p \in Periods : charges[<<s, p>>] = 0
  BY <1>2
<1>7. HandlersBill
  BY <1>1, <1>2, BillAssumption DEF HandlersBill, SubIds
<1>8. RowsBill
  <2>1. \A p \in Periods : ~(p < 1)
    BY DEF Periods
  <2>2. \A s \in SubIds : subs[s] # None => subs[s].end = 1
    BY <1>2, <1>3
  <2> QED BY <1>6, <2>1, <2>2 DEF RowsBill, PaidUpTo
<1>9. WorkerBills
  BY <1>4 DEF WorkerBills, Works
<1>10. ChargedOnce
  BY <1>6 DEF ChargedOnce
<1>11. FirstStay
  BY <1>2, <1>3 DEF FirstStay, SubIds
<1> QED BY <1>5, <1>7, <1>8, <1>9, <1>10, <1>11 DEF BillInv

(* What is paid stays paid, and a loss excuses a charge for good. *)
LEMMA PaidStays ==
    ASSUME NEW s, NEW e, \A p \in Periods : charges'[<<s, p>>] = charges[<<s, p>>],
           lost \subseteq lost'
    PROVE  /\ PaidUpTo(s, e) => PaidUpTo(s, e)'
           /\ UnpaidFrom(s, e) => UnpaidFrom(s, e)'
  BY DEF PaidUpTo, UnpaidFrom

(* The worker does its work, and the rows stay the same. *)
LEMMA IsDueStays ==
    ASSUME BillTypeOK, NEW d, subs[d.id] # None => subs'[d.id] # None,
           \A p \in Periods : charges'[<<d.id, p>>] = charges[<<d.id, p>>],
           lost \subseteq lost', IsDue(d)
    PROVE  IsDue(d)'
  BY PaidStays DEF IsDue

(* A call moves; the tables stay as they are. *)
LEMMA BillAside ==
    ASSUME BillInv, NEW c \in Calls, NEW l \in {"start", "insert", "update", "done"},
           NEW h \in SubRows \cup {None}, ask' = ask,
           at' = [at EXCEPT ![c] = l], held' = [held EXCEPT ![c] = h], UNCHANGED billVars,
           at[c] # "done",
           l = "update" => /\ ask[c].op = "cancel" /\ subs[ask[c].sub] # None
                           /\ h \in SubRows /\ h.status = "canceled"
                           /\ PaidUpTo(ask[c].sub, h.end)
    PROVE  BillInv'
<1>1. subs' = subs /\ now' = now /\ worker' = worker /\ charges' = charges /\ lost' = lost
  BY DEF billVars
<1>2. BillTypeOK'
  BY <1>1 DEF BillInv, BillTypeOK, WorkerStates
<1>3. HandlersBill'
  <2> SUFFICES ASSUME NEW d \in Calls
               PROVE  /\ at'[d] # "done" => subs[d] = None
                      /\ at'[d] = "update" =>
                           /\ ask[d].op = "cancel" /\ subs[ask[d].sub] # None
                           /\ held'[d] \in SubRows /\ held'[d].status = "canceled"
                           /\ PaidUpTo(ask[d].sub, held'[d].end)
    BY <1>1 DEF HandlersBill, PaidUpTo
  <2>1. CASE d = c
    <3>1. at'[c] = l /\ held'[c] = h
      BY DEF BillInv, BillTypeOK, WorkerStates
    <3> QED BY <2>1, <3>1 DEF BillInv, HandlersBill
  <2>2. CASE d # c
    <3>1. at'[d] = at[d] /\ held'[d] = held[d]
      BY <2>2 DEF BillInv, BillTypeOK, WorkerStates
    <3> QED BY <3>1 DEF BillInv, HandlersBill
  <2> QED BY <2>1, <2>2
<1>4. RowsBill' /\ WorkerBills' /\ ChargedOnce' /\ FirstStay'
  BY <1>1 DEF BillInv, FirstStay, RowsBill, WorkerBills, ChargedOnce, PaidUpTo, UnpaidFrom,
              IsDue, Storing
<1> QED BY <1>2, <1>3, <1>4 DEF BillInv

(* The same for a call that is answered. *)
LEMMA BillAnswers ==
    ASSUME BillInv, NEW c \in Calls, NEW a, Answer(c, a), UNCHANGED held, UNCHANGED billVars,
           at[c] # "done"
    PROVE  BillInv'
<1>1. PICK h : h = held[c]
  OBVIOUS
<1>2. h \in SubRows \cup {None} /\ held' = [held EXCEPT ![c] = h]
  BY <1>1 DEF BillInv, BillTypeOK, WorkerStates
<1> QED BY <1>2, BillAside DEF Answer

(* A row is made or written by a call: its periods are paid, and if it is  *)
(* active then none from its end on is.                                    *)
LEMMA RowKeeps ==
    ASSUME BillInv, NEW c \in Calls, at[c] # "done", NEW s \in SubIds, NEW row \in SubRows,
           subs' = [subs EXCEPT ![s] = row], Ok(c), UNCHANGED <<now, worker, charges, lost>>,
           s \in Calls /\ subs[s] = None => s = c,
           PaidUpTo(s, row.end), row.status = "active" => UnpaidFrom(s, row.end)
    PROVE  BillInv'
<1>1. /\ ask' = ask /\ at' = [at EXCEPT ![c] = "done"] /\ held' = held
      /\ now' = now /\ worker' = worker /\ charges' = charges /\ lost' = lost
  BY DEF Ok, Answer
<1>2. BillTypeOK'
  BY <1>1 DEF BillInv, BillTypeOK, WorkerStates
<1>3. row # None /\ subs'[s] = row /\ \A t \in SubIds : t # s => subs'[t] = subs[t]
  BY BillAssumption DEF BillInv, BillTypeOK, WorkerStates
<1>4. /\ at'[c] = "done"
      /\ \A d \in Calls : d # c => at'[d] = at[d]
  BY <1>1 DEF BillInv, BillTypeOK, WorkerStates
<1>5. HandlersBill'
  <2> SUFFICES ASSUME NEW d \in Calls, at'[d] # "done"
               PROVE  /\ subs'[d] = None
                      /\ at'[d] = "update" =>
                           /\ ask[d].op = "cancel" /\ subs'[ask[d].sub] # None
                           /\ held[d] \in SubRows /\ held[d].status = "canceled"
                           /\ PaidUpTo(ask[d].sub, held[d].end)
    BY <1>1 DEF HandlersBill, PaidUpTo
  <2>1. d # c /\ at[d] = at'[d] /\ d \in SubIds /\ d # s
    BY <1>4 DEF SubIds, BillInv, HandlersBill
  <2>2. ask[d].op = "cancel" => ask[d].sub \in SubIds
    BY DEF BillInv, BillTypeOK, WorkerStates, BillAsks
  <2> QED BY <1>3, <2>1, <2>2 DEF BillInv, HandlersBill
<1>6. RowsBill'
  <2> SUFFICES ASSUME NEW t \in SubIds
               PROVE  IF subs'[t] = None THEN \A p \in Periods : charges[<<t, p>>] = 0
                      ELSE /\ PaidUpTo(t, subs'[t].end)
                           /\ subs'[t].status = "active" =>
                                \A p \in Periods : charges[<<t, p>>] >= 1 /\ <<t, p>> \notin lost
                                                      => p < subs'[t].end \/ Storing(t, p)
    BY <1>1 DEF RowsBill, PaidUpTo, Storing
  <2>1. CASE t = s
    BY <1>3, <2>1 DEF UnpaidFrom
  <2>2. CASE t # s
    BY <1>3, <2>2 DEF BillInv, RowsBill
  <2> QED BY <2>1, <2>2
<1>7. WorkerBills'
  <2>1. \A d : IsDue(d) => IsDue(d)' \/ d.id \notin SubIds
    BY <1>1, <1>3 DEF IsDue, PaidUpTo, UnpaidFrom
  <2>2. /\ \A d \in worker.todo : d.id \in SubIds
        /\ worker.sub # None => worker.sub.id \in SubIds
    BY DEF BillInv, BillTypeOK, WorkerStates, Copies
  <2> QED BY <1>1, <1>3, <2>1, <2>2
         DEF BillInv, WorkerBills, IsDue, PaidUpTo, UnpaidFrom, Works
<1>8. ChargedOnce' /\ FirstStay'
  BY <1>1, <1>3 DEF BillInv, ChargedOnce, FirstStay
<1> QED BY <1>2, <1>5, <1>6, <1>7, <1>8 DEF BillInv

(* CreateSubscription *)
LEMMA SubscribeKeeps ==
    ASSUME BillInv, NEW c \in Calls, CreateSubscription(c)
    PROVE  BillInv'
<1>1. CASE Begins(c, "subscribe")
  <2>1. at[c] = "start" /\ UNCHANGED billVars
    BY <1>1 DEF CreateSubscription, Begins, Serving
  <2>2. (Goto(c, "insert") /\ UNCHANGED held) \/ Refuse(c)
    BY <1>1 DEF CreateSubscription, Begins, Serving
  <2>3. PICK h : h = held[c]
    OBVIOUS
  <2>4. h \in SubRows \cup {None} /\ (held' = held => held' = [held EXCEPT ![c] = h])
    BY <2>3 DEF BillInv, BillTypeOK, WorkerStates
  <2>5. CASE Goto(c, "insert") /\ UNCHANGED held
    BY <2>1, <2>4, <2>5, BillAside DEF Goto
  <2> QED BY <2>1, <2>2, <2>5, BillAnswers DEF Refuse
<1>2. CASE Serving(c, "subscribe", "insert")
  <2>1. at[c] = "insert" /\ c \in SubIds /\ UNCHANGED <<now, worker, charges, lost>>
    BY <1>2 DEF CreateSubscription, Begins, Serving, SubIds
  <2>2. \/ subs' = [subs EXCEPT ![c] = NewSub(now)] /\ Ok(c)
        \/ Refuse(c) /\ UNCHANGED subs
    BY <1>2 DEF CreateSubscription, Begins, Serving
  <2>3. CASE subs' = [subs EXCEPT ![c] = NewSub(now)] /\ Ok(c)
    <3>1. PICK row : row = NewSub(now)
      OBVIOUS
    <3>2. now \in Nat
      BY BillAssumption DEF BillInv, BillTypeOK, WorkerStates
    <3>3. row \in SubRows
      BY <3>1, <3>2, NewSubIsRow
    <3>4. subs[c] = None /\ c \notin FirstSubs
      BY <2>1, BillAssumption DEF BillInv, HandlersBill
    <3>5. \A p \in Periods : charges[<<c, p>>] = 0
      BY <2>1, <3>4 DEF BillInv, RowsBill
    <3>6. PaidUpTo(c, row.end) /\ UnpaidFrom(c, row.end)
      BY <3>4, <3>5 DEF PaidUpTo, UnpaidFrom
    <3> QED BY <2>1, <2>3, <3>1, <3>3, <3>6, RowKeeps
  <2> QED BY <2>1, <2>2, <2>3, BillAnswers DEF Refuse, billVars
<1> QED BY <1>1, <1>2 DEF CreateSubscription

(* CancelSubscription: the copy is of a row whose periods are paid. *)
LEMMA CancelKeeps ==
    ASSUME BillInv, NEW c \in Calls, CancelSubscription(c)
    PROVE  BillInv'
<1>1. CASE Begins(c, "cancel")
  <2>1. at[c] = "start" /\ UNCHANGED billVars /\ ask[c].op = "cancel" /\ ask[c].sub \in SubIds
    BY <1>1 DEF CancelSubscription, Begins, Serving, BillInv, BillTypeOK, WorkerStates, BillAsks
  <2>2. PICK s, row : s = ask[c].sub /\ row = subs[s]
    OBVIOUS
  <2>3. PICK h : h = [status |-> "canceled", end |-> row.end, canceled |-> TRUE]
    OBVIOUS
  <2>4. \/ row # None /\ Hold(c, h) /\ Goto(c, "update")
        \/ Refuse(c)
    BY <1>1, <2>2, <2>3 DEF CancelSubscription, Begins, Serving
  <2>5. CASE row # None /\ Hold(c, h) /\ Goto(c, "update")
    <3>1. row \in SubRows
      BY <2>1, <2>2, <2>5 DEF BillInv, BillTypeOK, WorkerStates
    <3>2. h \in SubRows /\ h.status = "canceled" /\ h.end = row.end
      BY <2>3, <3>1 DEF SubRows
    <3>3. PaidUpTo(s, h.end)
      BY <2>1, <2>2, <2>5, <3>2 DEF BillInv, RowsBill
    <3> QED BY <2>1, <2>2, <2>5, <3>2, <3>3, BillAside DEF Hold, Goto
  <2> QED BY <2>1, <2>4, <2>5, BillAnswers DEF Refuse
<1>2. CASE Serving(c, "cancel", "update")
  <2>1. /\ at[c] = "update" /\ ask[c].sub \in SubIds /\ UNCHANGED <<now, worker, charges, lost>>
        /\ subs[ask[c].sub] # None
        /\ held[c] \in SubRows /\ held[c].status = "canceled" /\ PaidUpTo(ask[c].sub, held[c].end)
    BY <1>2 DEF CancelSubscription, Begins, Serving, BillInv, BillTypeOK, BillAsks, HandlersBill
  <2>2. \/ UpdateSubscription(ask[c].sub, held[c]) /\ Ok(c)
        \/ Refuse(c) /\ UNCHANGED subs
    BY <1>2 DEF CancelSubscription, Begins, Serving
  <2>3. CASE UpdateSubscription(ask[c].sub, held[c]) /\ Ok(c)
    <3>1. PICK s, row : s = ask[c].sub /\ row = held[c]
      OBVIOUS
    <3> QED BY <2>1, <2>3, <3>1, RowKeeps DEF UpdateSubscription
  <2> QED BY <2>1, <2>2, <2>3, BillAnswers DEF Refuse, billVars
<1> QED BY <1>1, <1>2 DEF CancelSubscription

(* The worker takes a step that charges nobody and leaves the rows alone;  *)
(* what it has charged it has stored, or it is lost.                       *)
LEMMA WorkerKeeps ==
    ASSUME BillInv, UNCHANGED <<subs, charges, callVars>>, now' \in 0 .. MaxNow,
           lost \subseteq lost',
           worker' \in WorkerStates,
           WorkerBills',
           \A s \in SubIds, p \in Periods : Storing(s, p) => Storing(s, p)' \/ <<s, p>> \in lost'
    PROVE  BillInv'
<1>1. ask' = ask /\ at' = at /\ held' = held /\ subs' = subs /\ charges' = charges
  BY DEF callVars
<1>2. BillTypeOK'
  BY <1>1 DEF BillInv, BillTypeOK, WorkerStates
<1>3. HandlersBill'
  BY <1>1 DEF BillInv, HandlersBill, PaidUpTo
<1>4. RowsBill'
  <2> SUFFICES ASSUME NEW s \in SubIds
               PROVE  IF subs[s] = None THEN \A p \in Periods : charges[<<s, p>>] = 0
                      ELSE /\ PaidUpTo(s, subs[s].end)
                           /\ subs[s].status = "active" =>
                                \A p \in Periods : charges[<<s, p>>] >= 1 /\ <<s, p>> \notin lost'
                                                      => p < subs[s].end \/ Storing(s, p)'
    BY <1>1 DEF RowsBill, PaidUpTo
  <2> QED BY DEF BillInv, RowsBill
<1>5. ChargedOnce' /\ FirstStay'
  BY <1>1 DEF BillInv, ChargedOnce, FirstStay
<1> QED BY <1>2, <1>3, <1>4, <1>5 DEF BillInv

(* What is due stays due. *)
LEMMA DueStays ==
    ASSUME UNCHANGED <<subs, charges>>, lost \subseteq lost', NEW d
    PROVE  IsDue(d) => IsDue(d)'
  BY DEF IsDue, PaidUpTo, UnpaidFrom

(* runProcess: the list, its elements, a restart, and the time between. *)
LEMMA ListDueKeeps == BillInv /\ ListDueSubscriptions => BillInv'
<1> SUFFICES ASSUME BillInv, ListDueSubscriptions PROVE BillInv'
  OBVIOUS
<1> DEFINE Copy(s) == [id |-> s, row |-> [subs[s] EXCEPT !.canceled = FALSE]]
<1>1. PICK todo : todo = {Copy(s) : s \in Due}
  OBVIOUS
<1>2. /\ worker' = [at |-> "next", sub |-> None, todo |-> todo] /\ worker = Idle
      /\ UNCHANGED <<subs, charges, callVars>> /\ now' = now /\ lost' = lost
  BY <1>1 DEF ListDueSubscriptions
<1>3. /\ worker'.at = "next" /\ worker'.todo = todo /\ worker'.sub = None /\ worker.at = "idle"
  BY <1>2 DEF Idle
<1>4. ASSUME NEW s \in Due
      PROVE  /\ Copy(s) \in Copies /\ IsDue(Copy(s)) /\ Copy(s).id = s
  <2>1. PICK old, row : old = subs[s] /\ row = [old EXCEPT !.canceled = FALSE]
    OBVIOUS
  <2>2. s \in SubIds /\ old \in SubRows /\ old # None /\ old.status = "active" /\ old.end <= now
    BY <2>1 DEF Due, BillInv, BillTypeOK, WorkerStates
  <2>3. row \in SubRows /\ row.status = "active" /\ row.end = old.end
    BY <2>1, <2>2 DEF SubRows
  <2>4. Copy(s) = [id |-> s, row |-> row]
    BY <2>1
  <2>5. row.end \in Periods
    <3>1. old.end \in Nat \ {0} /\ now \in 0 .. MaxNow /\ MaxNow \in Nat
      BY <2>2, BillAssumption DEF SubRows, BillInv, BillTypeOK, WorkerStates
    <3> QED BY <2>2, <2>3, <3>1 DEF Periods
  <2>6. PaidUpTo(s, row.end)
    BY <2>1, <2>2, <2>3 DEF BillInv, RowsBill
  <2>7. UnpaidFrom(s, row.end)
    <3>1. \A p \in Periods : ~Storing(s, p)
      BY <1>3 DEF Storing
    <3> QED BY <2>1, <2>2, <2>3, <3>1 DEF UnpaidFrom, BillInv, RowsBill
  <2>8. PICK d : d = Copy(s)
    OBVIOUS
  <2>9. d \in Copies /\ d.id = s /\ d.row = row
    BY <2>2, <2>3, <2>4, <2>8 DEF Copies
  <2>10. IsDue(d)
    BY <2>1, <2>2, <2>3, <2>5, <2>6, <2>7, <2>9 DEF IsDue
  <2> QED BY <2>8, <2>9, <2>10
<1> HIDE DEF Copy
<1>5. /\ todo \subseteq Copies
      /\ \A d \in todo : IsDue(d)
      /\ \A d, e \in todo : d.id = e.id => d = e
  BY <1>1, <1>4
<1>6. \A d \in todo : IsDue(d)'
  BY <1>2, <1>5, DueStays
<1>7. WorkerBills'
  BY <1>3, <1>5, <1>6 DEF WorkerBills, Works
<1>8. worker' \in WorkerStates
  BY <1>2, <1>5 DEF WorkerStates
<1>9. \A s \in SubIds, p \in Periods : ~Storing(s, p)
  BY <1>3 DEF Storing
<1>10. now' \in 0 .. MaxNow
  BY <1>2 DEF BillInv, BillTypeOK, WorkerStates
<1> QED BY <1>2, <1>7, <1>8, <1>9, <1>10, WorkerKeeps

LEMMA NextSubKeeps == BillInv /\ NextSubscription => BillInv'
<1> SUFFICES ASSUME BillInv, NextSubscription PROVE BillInv'
  OBVIOUS
<1>1. /\ worker.at = "next" /\ UNCHANGED <<subs, charges, callVars>> /\ now' = now /\ lost' = lost
      /\ worker.todo \subseteq Copies /\ worker.sub = None
  BY DEF NextSubscription, BillInv, BillTypeOK, WorkerStates, WorkerBills, Works
<1>2. \A s \in SubIds, p \in Periods : ~Storing(s, p)
  BY <1>1 DEF Storing
<1>3. now' \in 0 .. MaxNow
  BY <1>1 DEF BillInv, BillTypeOK, WorkerStates
<1>4. \A d \in worker.todo : IsDue(d)'
  BY <1>1, DueStays DEF BillInv, WorkerBills
<1>5. CASE worker' = Idle
  <2>1. worker'.at = "idle" /\ worker'.todo = {} /\ worker'.sub = None
    BY <1>5 DEF Idle
  <2>2. WorkerBills'
    BY <2>1 DEF WorkerBills, Works
  <2>3. worker' \in WorkerStates
    BY <1>5 DEF Idle, WorkerStates
  <2> QED BY <1>1, <1>2, <1>3, <2>2, <2>3, WorkerKeeps
<1>6. ASSUME NEW d \in worker.todo, worker' = [at |-> "pay", todo |-> worker.todo \ {d}, sub |-> d]
      PROVE  BillInv'
  <2>1. worker'.at = "pay" /\ worker'.todo = worker.todo \ {d} /\ worker'.sub = d /\ d \in Copies
    BY <1>1, <1>6
  <2>2. d # None /\ IsDue(d)' /\ IsDue(d)
    BY <1>4, <2>1, BillAssumption DEF Copies, SubIds, BillInv, WorkerBills
  <2>3. /\ subs'[d.id] # None /\ d.row.status = "active" /\ d.row.end \in Periods
    BY <1>1, <2>2 DEF IsDue
  <2>4. \A x, y \in worker.todo : x.id = y.id => x = y
    BY DEF BillInv, WorkerBills
  <2>5. IsDue(worker.sub)'
    BY <2>1, <2>2 DEF IsDue, PaidUpTo, UnpaidFrom
  <2>6. \A x \in worker'.todo : IsDue(x)'
    BY <1>4, <2>1
  <2>7. WorkerBills'
    BY <2>1, <2>2, <2>3, <2>4, <2>5, <2>6 DEF WorkerBills, Works
  <2>8. worker' \in WorkerStates
    BY <1>1, <1>6 DEF Works, WorkerStates
  <2> QED BY <1>1, <1>2, <1>3, <2>7, <2>8, WorkerKeeps
<1>7. ASSUME NEW d \in worker.todo, worker' = [worker EXCEPT !.todo = @ \ {d}]
      PROVE  BillInv'
  <2>1. /\ worker'.at = "next" /\ worker'.todo = worker.todo \ {d} /\ worker'.sub = None
        /\ worker' \in WorkerStates
    BY <1>1, <1>7 DEF BillInv, BillTypeOK, WorkerStates
  <2>2. \A x \in worker'.todo : IsDue(x)'
    BY <1>4, <2>1
  <2>3. WorkerBills'
    BY <2>1, <2>2 DEF BillInv, WorkerBills, Works
  <2> QED BY <1>1, <1>2, <1>3, <2>1, <2>3, WorkerKeeps
<1> QED BY <1>5, <1>6, <1>7 DEF NextSubscription

LEMMA RestartWorkerKeeps == BillInv /\ RestartWorker => BillInv'
<1> SUFFICES ASSUME BillInv, RestartWorker PROVE BillInv'
  OBVIOUS
<1>1. /\ worker' = Idle /\ UNCHANGED <<subs, charges, callVars>> /\ now' = now
      /\ lost \subseteq lost'
      /\ worker.at = "store" => <<worker.sub.id, worker.sub.row.end>> \in lost'
  BY DEF RestartWorker
<1>2. /\ worker'.at = "idle" /\ worker'.todo = {} /\ worker'.sub = None
      /\ worker' \in WorkerStates
  BY <1>1 DEF Idle, WorkerStates
<1>3. WorkerBills'
  BY <1>2 DEF WorkerBills, Works
<1>4. \A s \in SubIds, p \in Periods : Storing(s, p) => <<s, p>> \in lost'
  BY <1>1 DEF Storing
<1>5. now' \in 0 .. MaxNow
  BY <1>1 DEF BillInv, BillTypeOK, WorkerStates
<1> QED BY <1>1, <1>2, <1>3, <1>4, <1>5, WorkerKeeps

LEMMA PassPeriodKeeps == BillInv /\ PassPeriod => BillInv'
<1> SUFFICES ASSUME BillInv, PassPeriod PROVE BillInv'
  OBVIOUS
<1>1. UNCHANGED <<subs, charges, callVars>> /\ worker' = worker /\ lost' = lost
  BY DEF PassPeriod
<1>2. now' \in 0 .. MaxNow
  BY BillAssumption DEF PassPeriod, BillInv, BillTypeOK, WorkerStates
<1>3. WorkerBills'
  BY <1>1 DEF BillInv, WorkerBills, IsDue, PaidUpTo, UnpaidFrom
<1>4. \A s \in SubIds, p \in Periods : Storing(s, p) => Storing(s, p)'
  BY <1>1 DEF Storing
<1>5. worker' \in WorkerStates
  BY <1>1 DEF BillInv, BillTypeOK, WorkerStates
<1> QED BY <1>1, <1>2, <1>3, <1>4, <1>5, WorkerKeeps

(* CreatePayment: the period is the first that is not paid for. *)
LEMMA PaymentKeeps == BillInv /\ CreatePayment => BillInv'
<1> SUFFICES ASSUME BillInv, CreatePayment PROVE BillInv'
  OBVIOUS
<1>1. PICK d : d = worker.sub
  OBVIOUS
<1>2. PICK s, e : s = d.id /\ e = d.row.end
  OBVIOUS
<1>3. /\ worker.at = "pay" /\ UNCHANGED <<subs, callVars>> /\ now' = now /\ lost' = lost
      /\ d # None /\ d \in Copies /\ s \in SubIds /\ e \in Periods
      /\ subs[s] # None /\ d.row.status = "active" /\ IsDue(d)
      /\ PaidUpTo(s, e) /\ UnpaidFrom(s, e) /\ \A x \in worker.todo : x.id # s
  BY <1>1, <1>2 DEF CreatePayment, BillInv, BillTypeOK, WorkerStates,
                              WorkerBills, Works, Copies, IsDue
<1>4. now' \in 0 .. MaxNow
  BY <1>3 DEF BillInv, BillTypeOK, WorkerStates
<1>5. \A x \in SubIds, p \in Periods : ~Storing(x, p)
  BY <1>3 DEF Storing
<1>6. CASE UNCHANGED charges /\ worker' = [worker EXCEPT !.at = "past_due"]
  <2>1. /\ worker'.at = "past_due" /\ worker'.todo = worker.todo /\ worker'.sub = worker.sub
        /\ worker' \in WorkerStates
    BY <1>6 DEF BillInv, BillTypeOK, WorkerStates, Works
  <2>2. WorkerBills'
    BY <1>3, <1>6, <2>1 DEF BillInv, WorkerBills, Works, IsDue, PaidUpTo, UnpaidFrom
  <2> QED BY <1>3, <1>4, <1>5, <1>6, <2>1, <2>2, WorkerKeeps
<1>7. CASE /\ charges' = [charges EXCEPT ![<<worker.sub.id, worker.sub.row.end>>] = @ + 1]
           /\ worker' = [worker EXCEPT !.at = "store"]
  <2>1. /\ worker'.at = "store" /\ worker'.todo = worker.todo /\ worker'.sub = d
        /\ worker' \in WorkerStates
    BY <1>1, <1>7 DEF BillInv, BillTypeOK, WorkerStates, Works
  <2>2. charges \in [SubIds \X Periods -> Nat]
    BY DEF BillInv, BillTypeOK, WorkerStates
  <2>3. /\ charges' \in [SubIds \X Periods -> Nat]
        /\ charges'[<<s, e>>] = charges[<<s, e>>] + 1
        /\ \A x \in SubIds, p \in Periods :
             <<x, p>> # <<s, e>> => charges'[<<x, p>>] = charges[<<x, p>>]
    BY <1>1, <1>2, <1>3, <1>7, <2>2
  <2>4. ASSUME NEW x \in SubIds, NEW p \in Periods
        PROVE  /\ charges[<<x, p>>] \in Nat
               /\ (charges[<<x, p>>] >= 1 => charges'[<<x, p>>] >= 1)
               /\ (x # s \/ p # e => charges'[<<x, p>>] = charges[<<x, p>>])
    <3>1. charges[<<x, p>>] \in Nat
      BY <2>2
    <3>2. CASE x = s /\ p = e
      <4>1. charges'[<<x, p>>] = charges[<<x, p>>] + 1
        BY <2>3, <3>2
      <4> QED BY <3>1, <3>2, <4>1
    <3>3. CASE x # s \/ p # e
      <4>1. <<x, p>> # <<s, e>>
        BY <3>3
      <4> QED BY <2>3, <3>1, <3>3, <4>1
    <3> QED BY <3>2, <3>3
  <2>5. ask' = ask /\ at' = at /\ held' = held /\ subs' = subs /\ lost' = lost
    BY <1>3 DEF callVars
  <2>6. ASSUME NEW x \in SubIds, NEW y, PaidUpTo(x, y) PROVE PaidUpTo(x, y)'
    BY <2>4, <2>6 DEF PaidUpTo
  <2>7. ASSUME NEW x \in SubIds, NEW y, x # s, UnpaidFrom(x, y) PROVE UnpaidFrom(x, y)'
    BY <2>4, <2>5, <2>7 DEF UnpaidFrom
  <2>8. BillTypeOK'
    BY <1>4, <2>1, <2>3, <2>5 DEF BillInv, BillTypeOK, WorkerStates
  <2>9. HandlersBill'
    <3> SUFFICES ASSUME NEW c \in Calls
                 PROVE  /\ at[c] # "done" => subs[c] = None
                        /\ at[c] = "update" =>
                             /\ ask[c].op = "cancel" /\ subs[ask[c].sub] # None
                             /\ held[c] \in SubRows /\ held[c].status = "canceled"
                             /\ PaidUpTo(ask[c].sub, held[c].end)'
      BY <2>5 DEF HandlersBill, PaidUpTo
    <3>1. PICK h : h = held[c].end
      OBVIOUS
    <3>2. ask[c].op = "cancel" => ask[c].sub \in SubIds
      BY DEF BillInv, BillTypeOK, WorkerStates, BillAsks
    <3>3. at[c] = "update" => PaidUpTo(ask[c].sub, h)'
      BY <2>5, <2>6, <3>1, <3>2 DEF BillInv, HandlersBill, PaidUpTo
    <3> QED BY <2>5, <3>1, <3>3 DEF BillInv, HandlersBill, PaidUpTo
  <2>10. RowsBill'
    <3> SUFFICES ASSUME NEW x \in SubIds
                 PROVE  IF subs[x] = None THEN \A p \in Periods : charges'[<<x, p>>] = 0
                        ELSE /\ PaidUpTo(x, subs[x].end)'
                             /\ subs[x].status = "active" =>
                                  \A p \in Periods : charges'[<<x, p>>] >= 1 /\ <<x, p>> \notin lost
                                                        => p < subs[x].end \/ Storing(x, p)'
      BY <2>5 DEF RowsBill, PaidUpTo
    <3>1. CASE subs[x] = None
      BY <1>3, <2>4, <3>1 DEF BillInv, RowsBill
    <3>2. CASE subs[x] # None
      <4>1. PICK y : y = subs[x].end
        OBVIOUS
      <4>2. PaidUpTo(x, y)'
        BY <2>6, <3>2, <4>1 DEF BillInv, RowsBill
      <4>3. PaidUpTo(x, subs[x].end)'
        BY <2>5, <4>1, <4>2 DEF PaidUpTo
      <4>4. ASSUME subs[x].status = "active", NEW p \in Periods, charges'[<<x, p>>] >= 1,
                   <<x, p>> \notin lost, ~Storing(x, p)'
            PROVE  p < subs[x].end
        <5>1. x # s \/ p # e
          BY <1>2, <2>1, <4>4 DEF Storing
        <5> QED BY <1>5, <2>4, <3>2, <4>4, <5>1 DEF BillInv, RowsBill
      <4> QED BY <3>2, <4>3, <4>4
    <3> QED BY <3>1, <3>2
  <2>11. WorkerBills'
    <3>1. ASSUME NEW x \in worker.todo PROVE IsDue(x)'
      <4>1. x.id \in SubIds /\ x.id # s /\ IsDue(x)
        BY <1>3 DEF BillInv, BillTypeOK, WorkerStates, WorkerBills, Copies
      <4> QED BY <2>5, <2>6, <2>7, <4>1 DEF IsDue
    <3>2. e + 1 > e /\ \A p \in Periods : (p < e + 1 <=> p < e \/ p = e)
      BY <1>3 DEF Periods
    <3>3. charges'[<<s, e>>] >= 1
      BY <1>3, <2>3, <2>4
    <3>4. PaidUpTo(s, e + 1)'
      BY <1>3, <2>4, <3>2, <3>3 DEF PaidUpTo
    <3>5. UnpaidFrom(s, e + 1)'
      BY <1>3, <2>4, <2>5, <3>2 DEF UnpaidFrom
    <3>6. /\ PaidUpTo(worker.sub.id, worker.sub.row.end + 1)'
          /\ UnpaidFrom(worker.sub.id, worker.sub.row.end + 1)'
      BY <1>2, <2>1, <3>4, <3>5 DEF PaidUpTo, UnpaidFrom
    <3> QED BY <1>2, <1>3, <2>1, <2>5, <3>1, <3>6 DEF BillInv, WorkerBills, Works
  <2>12. ChargedOnce'
    <3> SUFFICES ASSUME NEW x \in SubIds, NEW p \in Periods, charges'[<<x, p>>] > 1
                 PROVE  <<x, p>> \in lost
      BY <2>5 DEF ChargedOnce
    <3>1. CASE x = s /\ p = e
      <4>1. charges[<<s, e>>] >= 1
        BY <1>3, <2>3, <2>4, <3>1
      <4>2. ~(e < e)
        BY <1>3 DEF Periods
      <4> QED BY <1>3, <3>1, <4>1, <4>2 DEF UnpaidFrom
    <3>2. CASE x # s \/ p # e
      BY <2>4, <3>2 DEF BillInv, ChargedOnce
    <3> QED BY <3>1, <3>2
  <2>13. FirstStay'
    BY <2>5 DEF BillInv, FirstStay
  <2> QED BY <2>8, <2>9, <2>10, <2>11, <2>12, <2>13 DEF BillInv
<1> QED BY <1>6, <1>7 DEF CreatePayment

(* The renewal is stored, or the worker goes on without. *)
LEMMA RenewalKeeps == BillInv /\ StoreRenewal => BillInv'
<1> SUFFICES ASSUME BillInv, StoreRenewal PROVE BillInv'
  OBVIOUS
<1>1. PICK d : d = worker.sub
  OBVIOUS
<1>2. PICK s, e : s = d.id /\ e = d.row.end
  OBVIOUS
<1>3. PICK row : row = IF worker.at = "store" THEN Renewed(d.row)
                       ELSE [d.row EXCEPT !.status = "past_due"]
  OBVIOUS
<1>4. /\ worker.at \in {"store", "past_due"} /\ UNCHANGED <<charges, callVars>> /\ now' = now
      /\ worker' = [at |-> "next", todo |-> worker.todo, sub |-> None]
      /\ d # None /\ d \in Copies /\ s \in SubIds /\ d.row \in SubRows /\ e \in Periods
      /\ subs[s] # None /\ worker.todo \subseteq Copies
  BY <1>1, <1>2 DEF StoreRenewal, BillInv, BillTypeOK, WorkerStates, WorkerBills, Works, Copies
<1>5. \/ subs' = [subs EXCEPT ![s] = row] /\ lost' = lost
      \/ /\ UNCHANGED subs /\ lost \subseteq lost'
         /\ worker.at = "store" => <<s, e>> \in lost'
  BY <1>1, <1>2, <1>3 DEF StoreRenewal, UpdateSubscription
<1>6. /\ worker'.at = "next" /\ worker'.todo = worker.todo /\ worker'.sub = None
      /\ worker' \in WorkerStates
  BY <1>4 DEF WorkerStates
<1>7. now' \in 0 .. MaxNow
  BY <1>4 DEF BillInv, BillTypeOK, WorkerStates
<1>8. lost \subseteq lost'
  BY <1>5
<1>9. CASE UNCHANGED subs /\ (worker.at = "store" => <<s, e>> \in lost')
  <2>1. \A x \in worker.todo : IsDue(x)'
    BY <1>4, <1>8, <1>9, DueStays DEF BillInv, WorkerBills
  <2>2. WorkerBills'
    BY <1>6, <2>1 DEF BillInv, WorkerBills, Works
  <2>3. \A x \in SubIds, p \in Periods : Storing(x, p) => <<x, p>> \in lost'
    BY <1>1, <1>2, <1>9 DEF Storing
  <2> QED BY <1>4, <1>6, <1>7, <1>8, <1>9, <2>2, <2>3, WorkerKeeps
<1>10. CASE subs' = [subs EXCEPT ![s] = row] /\ lost' = lost
  <2>1. /\ row \in SubRows
        /\ worker.at = "store" => row.end = e + 1
        /\ worker.at # "store" => row.end = e /\ row.status = "past_due"
    <3>1. CASE worker.at = "store"
      <4>1. /\ d.row.end + 1 \in Nat \ {0} /\ d.row.canceled \in BOOLEAN
            /\ row = [status |-> "active", end |-> d.row.end + 1, canceled |-> d.row.canceled]
        BY <1>3, <1>4, <3>1 DEF SubRows, Renewed
      <4> QED BY <1>2, <3>1, <4>1 DEF SubRows
    <3>2. CASE worker.at # "store"
      BY <1>2, <1>3, <1>4, <3>2 DEF SubRows
    <3> QED BY <3>1, <3>2
  <2>2. row # None /\ subs'[s] = row /\ \A x \in SubIds : x # s => subs'[x] = subs[x]
    BY <1>4, <1>10, <2>1, BillAssumption DEF BillInv, BillTypeOK, WorkerStates
  <2>3. PaidUpTo(s, row.end) /\ (row.status = "active" => UnpaidFrom(s, row.end))
    <3>1. CASE worker.at = "store"
      BY <1>1, <1>2, <2>1, <3>1 DEF BillInv, WorkerBills
    <3>2. CASE worker.at # "store"
      BY <1>1, <1>2, <1>4, <2>1, <3>2 DEF BillInv, WorkerBills, IsDue
    <3> QED BY <3>1, <3>2
  <2>4. /\ ask' = ask /\ at' = at /\ held' = held /\ charges' = charges
    BY <1>4 DEF callVars
  <2>5. BillTypeOK'
    BY <1>4, <1>6, <1>7, <1>10, <2>1, <2>4 DEF BillInv, BillTypeOK, WorkerStates
  <2>6. \A x \in SubIds : subs'[x] = None <=> subs[x] = None
    BY <1>4, <2>2
  <2>7. HandlersBill'
    <3>1. \A c \in Calls : c \in SubIds /\ (ask[c].op = "cancel" => ask[c].sub \in SubIds)
      BY DEF SubIds, BillInv, BillTypeOK, WorkerStates, BillAsks
    <3> QED BY <2>4, <2>6, <3>1 DEF BillInv, HandlersBill, PaidUpTo
  <2>8. RowsBill'
    <3> SUFFICES ASSUME NEW x \in SubIds
                 PROVE  IF subs'[x] = None THEN \A p \in Periods : charges[<<x, p>>] = 0
                        ELSE /\ PaidUpTo(x, subs'[x].end)
                             /\ subs'[x].status = "active" =>
                                  \A p \in Periods : charges[<<x, p>>] >= 1 /\ <<x, p>> \notin lost
                                                        => p < subs'[x].end
      BY <1>10, <2>4 DEF RowsBill, PaidUpTo
    <3>1. CASE x = s
      BY <2>2, <2>3, <3>1 DEF UnpaidFrom
    <3>2. CASE x # s
      <4>1. \A p \in Periods : ~Storing(x, p)
        BY <1>1, <1>2, <3>2 DEF Storing
      <4> QED BY <2>2, <3>2, <4>1 DEF BillInv, RowsBill
    <3> QED BY <3>1, <3>2
  <2>9. WorkerBills'
    <3>1. ASSUME NEW x \in worker.todo PROVE IsDue(x)'
      <4>1. x.id \in SubIds /\ IsDue(x)
        BY <1>4 DEF BillInv, WorkerBills, Copies
      <4> QED BY <1>10, <2>4, <2>6, <4>1 DEF IsDue, PaidUpTo, UnpaidFrom
    <3> QED BY <1>6, <3>1 DEF BillInv, WorkerBills, Works
  <2>10. ChargedOnce' /\ FirstStay'
    BY <1>10, <2>4, <2>6 DEF BillInv, ChargedOnce, FirstStay
  <2> QED BY <2>5, <2>7, <2>8, <2>9, <2>10 DEF BillInv
<1> QED BY <1>5, <1>8, <1>9, <1>10

LEMMA BillStep == BillInv /\ [BillNext]_billAllVars => BillInv'
<1> SUFFICES ASSUME BillInv, [BillNext]_billAllVars PROVE BillInv'
  OBVIOUS
<1>1. CASE UNCHANGED billAllVars
  BY <1>1 DEF billAllVars, billVars, callVars, BillInv, BillTypeOK, HandlersBill, RowsBill,
              WorkerBills, ChargedOnce, FirstStay, PaidUpTo, UnpaidFrom, IsDue, Storing
<1>2. ASSUME NEW c \in Calls, Malformed(c), UNCHANGED billVars PROVE BillInv'
  BY <1>2, BillAnswers DEF Malformed, Refuse
<1> QED BY <1>1, <1>2, SubscribeKeeps, CancelKeeps, ListDueKeeps, NextSubKeeps, PaymentKeeps,
           RenewalKeeps, RestartWorkerKeeps, PassPeriodKeeps DEF BillNext

(* An active subscription is at its first unpaid period, and what the      *)
(* worker has listed is due until it is charged: the inductive invariant   *)
(* of billing, its types included.                                         *)
LEMMA BillInvHolds == BillSpec => []BillInv
<1> QED BY BillStarts, BillStep, PTL DEF BillSpec

(* A renewed period has been charged, and no period twice unless its       *)
(* renewal was lost, for any subscriptions, cancellations and restarts     *)
(* (processSubscription).                                                  *)
THEOREM PeriodsHold == BillSpec => []PeriodsArePaidOnce
<1>1. BillInv => PeriodsArePaidOnce
  <2> SUFFICES ASSUME BillInv, NEW s \in SubIds, NEW p \in Periods
               PROVE  /\ s \in FirstSubs /\ p < subs[s].end => charges[<<s, p>>] >= 1
                      /\ charges[<<s, p>>] > 1 => <<s, p>> \in lost
    BY DEF PeriodsArePaidOnce, Periods
  <2>1. s \in FirstSubs => subs[s] # None
    BY DEF BillInv, FirstStay
  <2> QED BY <2>1 DEF BillInv, RowsBill, PaidUpTo, ChargedOnce
<1> QED BY <1>1, BillInvHolds, PTL

(* A cancelled subscription comes back, or is charged, only through a      *)
(* renewal that was listed while it was active (CancelSubscription,        *)
(* ListDueSubscriptions), for any number of calls and subscriptions.       *)
THEOREM CancelsHold == BillSpec => CancelsYieldToRenewalsOnly
<1> DEFINE Yields(s) ==
        subs[s] # None /\ subs[s].status = "canceled" =>
          \/ /\ subs'[s].status = "canceled"
             /\ \A p \in 1 .. MaxNow : charges'[<<s, p>>] = charges[<<s, p>>]
          \/ worker.sub # None /\ worker.sub.id = s /\ worker.sub.row.status = "active"
<1>1. ASSUME BillInv, BillNext, NEW s \in SubIds PROVE Yields(s)
  <2> SUFFICES ASSUME subs[s] # None, subs[s].status = "canceled",
                      ~(worker.sub # None /\ worker.sub.id = s /\ worker.sub.row.status = "active")
               PROVE  /\ subs'[s].status = "canceled"
                      /\ \A p \in Periods : charges'[<<s, p>>] = charges[<<s, p>>]
    BY DEF Periods
  <2>1. subs \in [SubIds -> SubRows \cup {None}] /\ charges \in [SubIds \X Periods -> Nat]
    BY <1>1 DEF BillInv, BillTypeOK, WorkerStates
  <2>2. CASE subs' = subs /\ charges' = charges
    BY <2>2
  <2>3. ASSUME NEW c \in Calls, CreateSubscription(c) PROVE subs' = subs \/ subs'[s] = subs[s]
    <3>1. at[c] = "insert" => c # s
      BY <1>1 DEF BillInv, HandlersBill
    <3> QED BY <2>1, <2>3, <3>1 DEF CreateSubscription, billVars, Serving
  <2>4. ASSUME NEW c \in Calls, CancelSubscription(c)
        PROVE  subs' = subs \/ subs'[s].status = "canceled"
    <3>1. at[c] = "update" => held[c].status = "canceled"
      BY <1>1 DEF BillInv, HandlersBill
    <3> QED BY <2>1, <2>4, <3>1 DEF CancelSubscription, UpdateSubscription, billVars, Serving
  <2>5. ASSUME NEW c \in Calls, CreateSubscription(c) \/ CancelSubscription(c)
        PROVE  charges' = charges
    BY <2>5 DEF CreateSubscription, CancelSubscription, billVars
  <2>6. worker.at \in Works => worker.sub # None /\ worker.sub.id \in SubIds
                              /\ worker.sub.row.end \in Periods /\ worker.sub.id # s
    BY <1>1 DEF BillInv, BillTypeOK, WorkerStates, WorkerBills, Copies
  <2>7. CASE CreatePayment
    <3>1. subs' = subs
      BY <2>7 DEF CreatePayment
    <3>2. CASE charges' = charges
      BY <3>1, <3>2
    <3>3. CASE charges' = [charges EXCEPT ![<<worker.sub.id, worker.sub.row.end>>] = @ + 1]
      <4>1. worker.sub.id # s
        BY <2>6, <2>7 DEF CreatePayment, Works
      <4>2. \A p \in Periods : <<s, p>> # <<worker.sub.id, worker.sub.row.end>>
        BY <4>1
      <4> QED BY <2>1, <3>1, <3>3, <4>2
    <3> QED BY <2>7, <3>2, <3>3 DEF CreatePayment
  <2>8. CASE StoreRenewal
    <3>1. PICK row : subs' = subs \/ subs' = [subs EXCEPT ![worker.sub.id] = row]
      BY <2>8 DEF StoreRenewal, UpdateSubscription
    <3>2. worker.sub.id # s /\ charges' = charges
      BY <2>6, <2>8 DEF StoreRenewal, Works
    <3> QED BY <2>1, <3>1, <3>2
  <2>9. CASE ListDueSubscriptions \/ NextSubscription \/ RestartWorker \/ PassPeriod
    BY <2>2, <2>9 DEF ListDueSubscriptions, NextSubscription, RestartWorker, PassPeriod
  <2>10. CASE \E c \in Calls : UNCHANGED billVars
    BY <2>2, <2>10 DEF billVars
  <2> QED BY <1>1, <2>3, <2>4, <2>5, <2>7, <2>8, <2>9, <2>10 DEF BillNext
<1>2. ASSUME BillInv, BillNext
      PROVE  [\A s \in SubIds : Yields(s)]_billVars
  BY <1>1, <1>2
<1>3. ASSUME BillInv, UNCHANGED billAllVars PROVE UNCHANGED billVars
  BY <1>3 DEF billAllVars
<1>4. BillInv /\ [BillNext]_billAllVars =>
        [\A s \in SubIds :
           subs[s] # None /\ subs[s].status = "canceled" =>
             \/ /\ subs'[s].status = "canceled"
                /\ \A p \in 1 .. MaxNow : charges'[<<s, p>>] = charges[<<s, p>>]
             \/ worker.sub # None /\ worker.sub.id = s /\ worker.sub.row.status = "active"]_billVars
  BY <1>2, <1>3
<1> QED BY <1>4, BillInvHolds, PTL DEF BillSpec, CancelsYieldToRenewalsOnly

-----------------------------------------------------------------------------
(* Platform accounts *)

ConnAsks ==
    [op : {"newplatform"}, bad : BOOLEAN, email : Emails]
      \cup [op : {"getplatform"}, bad : BOOLEAN]
      \cup [op : {"updateplatform"}, bad : BOOLEAN, account : PlatformIds,
            email : Emails \cup {None}, fee : Nat, payout : Payouts \cup {None}]

connAllVars == <<connVars, callVars>>

(* The connect service, with any number of requests. *)
ConnSpec ==
    /\ CallsInit([Calls -> ConnAsks]) /\ ConnInit
    /\ [][ConnNext]_connAllVars

ConnTypeOK ==
    /\ ask \in [Calls -> ConnAsks]
    /\ at \in [Calls -> {"start", "write", "done"}]
    /\ held \in [Calls -> JoinedRows \cup {None}]
    /\ reply \in [Calls -> {"none", "ok", "refused"}]
    /\ platforms \in [PlatformIds -> PlatformRows \cup {None}]
    /\ settings \in [PlatformIds -> PayoutRows \cup {None}]

(* The settings that account a may have been given. *)
Given(a) ==
    {FirstSettings} \cup ({ask[c].payout : c \in {d \in Calls : Changes(d, a)}} \ {None})

(* A call that has not begun has read and made nothing, and one that has   *)
(* read an account keeps settings that were given together.                *)
HandlersConnect ==
    \A c \in Calls :
        /\ at[c] = "start" => held[c] = None /\ platforms[c] = None
        /\ at[c] # "done" => reply[c] = "none"
        /\ at[c] = "write" => held[c] # None
        /\ held[c] # None => /\ ask[c].op = "updateplatform" /\ platforms[ask[c].account] # None
                             /\ held[c].payout \in Given(ask[c].account)

(* An account has settings that were given together. *)
RowsArePairs == \A a \in PlatformIds : platforms[a] # None => settings[a] \in Given(a)

(* Call c has stored its change of account a, and no other has begun. *)
Alone(c, a) ==
    /\ Changes(c, a) /\ reply[c] = "ok" /\ held[c] # None
    /\ \A d \in Calls \ {c} : Changes(d, a) => at[d] = "start"

AloneIsLatest ==
    \A c \in Calls, a \in PlatformIds : Alone(c, a) => ReadPlatform(a) = held[c]

ConnInv == ConnTypeOK /\ HandlersConnect /\ RowsArePairs /\ AloneIsLatest

LEMMA ConnStarts == CallsInit([Calls -> ConnAsks]) /\ ConnInit => ConnInv
<1> SUFFICES ASSUME CallsInit([Calls -> ConnAsks]), ConnInit PROVE ConnInv
  OBVIOUS
<1>1. PICK row : row = [email |-> "e0", fee |-> 0]
  OBVIOUS
<1>2. row \in PlatformRows /\ FirstSettings \in PayoutRows
  BY <1>1, ConnAssumption DEF PlatformRows, PayoutRows
<1>3. /\ ask \in [Calls -> ConnAsks] /\ at = [c \in Calls |-> "start"]
      /\ held = [c \in Calls |-> None] /\ reply = [c \in Calls |-> "none"]
      /\ platforms = [a \in PlatformIds |-> IF a \in FirstPlatforms THEN row ELSE None]
      /\ settings = [a \in PlatformIds |-> IF a \in FirstPlatforms THEN FirstSettings ELSE None]
  BY <1>1 DEF CallsInit, ConnInit
<1>4. ConnTypeOK
  BY <1>2, <1>3 DEF ConnTypeOK
<1>5. HandlersConnect
  <2>1. \A c \in Calls : c \in PlatformIds /\ c \notin FirstPlatforms
    BY ConnAssumption DEF PlatformIds
  <2> QED BY <1>3, <2>1 DEF HandlersConnect
<1>6. RowsArePairs
  BY <1>3 DEF RowsArePairs, Given
<1>7. AloneIsLatest
  BY <1>3 DEF AloneIsLatest, Alone
<1> QED BY <1>4, <1>5, <1>6, <1>7 DEF ConnInv

(* A call moves, the tables stay, and no change is answered. *)
LEMMA ConnAside ==
    ASSUME ConnInv, NEW c \in Calls, NEW l \in {"write", "done"}, NEW h \in JoinedRows \cup {None},
           NEW r \in {"none", "ok", "refused"}, ask' = ask,
           at' = [at EXCEPT ![c] = l], held' = [held EXCEPT ![c] = h],
           reply' = [reply EXCEPT ![c] = r], UNCHANGED connVars,
           h # None => /\ ask[c].op = "updateplatform" /\ platforms[ask[c].account] # None
                       /\ h.payout \in Given(ask[c].account) /\ r # "ok",
           l = "write" => h # None /\ r = "none"
    PROVE  ConnInv'
<1>1. platforms' = platforms /\ settings' = settings
  BY DEF connVars
<1>2. /\ at'[c] = l /\ held'[c] = h /\ reply'[c] = r
      /\ \A d \in Calls : d # c => at'[d] = at[d] /\ held'[d] = held[d] /\ reply'[d] = reply[d]
  BY DEF ConnInv, ConnTypeOK
<1>3. \A a : Given(a)' = Given(a)
  BY DEF Given, Changes
<1>4. ConnTypeOK'
  BY <1>1 DEF ConnInv, ConnTypeOK
<1>5. HandlersConnect'
  <2> SUFFICES ASSUME NEW d \in Calls
               PROVE  /\ at'[d] = "start" => held'[d] = None /\ platforms[d] = None
                      /\ at'[d] # "done" => reply'[d] = "none"
                      /\ at'[d] = "write" => held'[d] # None
                      /\ held'[d] # None =>
                           /\ ask[d].op = "updateplatform" /\ platforms[ask[d].account] # None
                           /\ held'[d].payout \in Given(ask[d].account)
    BY <1>1, <1>3 DEF HandlersConnect
  <2>1. CASE d = c
    BY <1>2, <2>1
  <2>2. CASE d # c
    BY <1>2, <2>2 DEF ConnInv, HandlersConnect
  <2> QED BY <2>1, <2>2
<1>6. RowsArePairs'
  BY <1>1, <1>3 DEF ConnInv, RowsArePairs
<1>7. AloneIsLatest'
  <2> SUFFICES ASSUME NEW d \in Calls, NEW a \in PlatformIds, Changes(d, a), reply'[d] = "ok",
                      held'[d] # None, \A e \in Calls \ {d} : Changes(e, a) => at'[e] = "start"
               PROVE  ReadPlatform(a) = held'[d]
    BY <1>1 DEF AloneIsLatest, Alone, Changes, ReadPlatform
  <2>1. d # c
    BY <1>2
  <2>2. ~Changes(c, a)
    BY <1>2, <2>1
  <2>3. Alone(d, a)
    BY <1>2, <2>1, <2>2 DEF Alone
  <2> QED BY <1>2, <2>1, <2>3 DEF ConnInv, AloneIsLatest
<1> QED BY <1>4, <1>5, <1>6, <1>7 DEF ConnInv

(* A call is answered that has changed nothing. *)
LEMMA ConnAnswers ==
    ASSUME ConnInv, NEW c \in Calls, Refuse(c) \/ (at[c] = "start" /\ Ok(c)), UNCHANGED connVars
    PROVE  ConnInv'
<1>1. PICK h, r : h = held[c] /\ r = reply'[c]
  OBVIOUS
<1>2. /\ ask' = ask /\ at' = [at EXCEPT ![c] = "done"] /\ held' = held
      /\ reply' = [reply EXCEPT ![c] = r] /\ r \in {"ok", "refused"}
      /\ r = "ok" => at[c] = "start"
  BY <1>1 DEF Refuse, Ok, Answer, ConnInv, ConnTypeOK
<1>3. h \in JoinedRows \cup {None} /\ held' = [held EXCEPT ![c] = h]
  BY <1>1, <1>2 DEF ConnInv, ConnTypeOK
<1>4. h # None => /\ ask[c].op = "updateplatform" /\ platforms[ask[c].account] # None
                  /\ h.payout \in Given(ask[c].account) /\ r # "ok"
  BY <1>1, <1>2 DEF ConnInv, HandlersConnect
<1> QED BY <1>2, <1>3, <1>4, ConnAside

(* CreateAccount *)
LEMMA CreatePlatformKeeps ==
    ASSUME ConnInv, NEW c \in Calls, CreateAccount(c)
    PROVE  ConnInv'
<1>1. PICK row : row = [email |-> ask[c].email, fee |-> 0]
  OBVIOUS
<1>2. /\ at[c] = "start" /\ ask[c].op = "newplatform" /\ c \in PlatformIds
      /\ row \in PlatformRows /\ held[c] = None /\ platforms[c] = None
  BY <1>1 DEF CreateAccount, Begins, Serving, ConnInv, ConnTypeOK, ConnAsks, PlatformRows,
              HandlersConnect, PlatformIds
<1>3. CASE /\ platforms' = [platforms EXCEPT ![c] = row]
           /\ settings' = [settings EXCEPT ![c] = FirstSettings] /\ Ok(c)
  <2>1. /\ ask' = ask /\ at' = [at EXCEPT ![c] = "done"] /\ held' = held
        /\ reply' = [reply EXCEPT ![c] = "ok"]
    BY <1>3 DEF Ok, Answer
  <2>2. /\ platforms'[c] = row /\ settings'[c] = FirstSettings /\ row # None
        /\ \A a \in PlatformIds :
             a # c => platforms'[a] = platforms[a] /\ settings'[a] = settings[a]
        /\ at'[c] = "done" /\ \A d \in Calls : d # c => at'[d] = at[d] /\ reply'[d] = reply[d]
    BY <1>2, <1>3, <2>1, ConnAssumption DEF ConnInv, ConnTypeOK
  <2>3. \A a : Given(a)' = Given(a)
    BY <2>1 DEF Given, Changes
  <2>4. ConnTypeOK'
    BY <1>2, <1>3, <2>1 DEF ConnInv, ConnTypeOK, PayoutRows
  <2>5. HandlersConnect'
    <3>1. \A d \in Calls : d \in PlatformIds
                           /\ (ask[d].op = "updateplatform" => ask[d].account \in PlatformIds)
      BY DEF PlatformIds, ConnInv, ConnTypeOK, ConnAsks
    <3> SUFFICES ASSUME NEW d \in Calls
                 PROVE  /\ at'[d] = "start" => held[d] = None /\ platforms'[d] = None
                        /\ at'[d] # "done" => reply'[d] = "none"
                        /\ at'[d] = "write" => held[d] # None
                        /\ held[d] # None =>
                             /\ ask[d].op = "updateplatform" /\ platforms'[ask[d].account] # None
                             /\ held[d].payout \in Given(ask[d].account)
      BY <2>1, <2>3 DEF HandlersConnect
    <3>2. CASE d = c
      BY <1>2, <2>2, <3>2
    <3>3. CASE d # c
      BY <2>2, <3>1, <3>3 DEF ConnInv, HandlersConnect
    <3> QED BY <3>2, <3>3
  <2>6. RowsArePairs'
    BY <2>2, <2>3 DEF ConnInv, RowsArePairs, Given
  <2>7. AloneIsLatest'
    <3> SUFFICES ASSUME NEW d \in Calls, NEW a \in PlatformIds, Changes(d, a), reply'[d] = "ok",
                        held[d] # None, \A e \in Calls \ {d} : Changes(e, a) => at'[e] = "start"
                 PROVE  ReadPlatform(a)' = held[d]
      BY <2>1 DEF AloneIsLatest, Alone, Changes
    <3>1. d # c /\ a # c
      BY <1>2 DEF Changes, ConnInv, HandlersConnect
    <3>2. ReadPlatform(a)' = ReadPlatform(a)
      BY <2>2, <3>1 DEF ReadPlatform
    <3>3. Alone(d, a)
      BY <1>2, <2>2, <3>1 DEF Alone, Changes
    <3> QED BY <3>2, <3>3 DEF ConnInv, AloneIsLatest
  <2> QED BY <2>4, <2>5, <2>6, <2>7 DEF ConnInv
<1> QED BY <1>1, <1>2, <1>3, ConnAnswers DEF CreateAccount

(* What an update is about to write are settings given together. *)
LEMMA ChangedIsRow ==
    ASSUME ConnInv, NEW c \in Calls, ask[c].op = "updateplatform", NEW a, a = ask[c].account,
           platforms[a] # None
    PROVE  /\ Changed(ReadPlatform(a), ask[c]) \in JoinedRows
           /\ Changed(ReadPlatform(a), ask[c]).payout \in Given(a)
<1>1. /\ a \in PlatformIds /\ ask[c].email \in Emails \cup {None} /\ ask[c].fee \in Nat
      /\ ask[c].payout \in Payouts \cup {None}
  BY DEF ConnInv, ConnTypeOK, ConnAsks
<1>2. PICK r, p, q : r = ask[c] /\ p = platforms[a] /\ q = settings[a]
  OBVIOUS
<1>3. p \in PlatformRows /\ q \in PayoutRows /\ q \in Given(a)
  BY <1>1, <1>2, ConnAssumption
     DEF ConnInv, ConnTypeOK, RowsArePairs, Given, PayoutRows
<1>4. PICK e, f, s : /\ e = IF r.email = None THEN p.email ELSE r.email
                     /\ f = IF r.fee = 0 THEN p.fee ELSE r.fee
                     /\ s = IF r.payout = None THEN q ELSE r.payout
  OBVIOUS
<1>5. e \in Emails /\ f \in Nat /\ s \in PayoutRows
  BY <1>1, <1>2, <1>3, <1>4 DEF PlatformRows, PayoutRows
<1>6. s \in Given(a)
  BY <1>2, <1>3, <1>4 DEF Given, Changes
<1>7. Changed(ReadPlatform(a), ask[c]) = [account |-> [email |-> e, fee |-> f], payout |-> s]
  BY <1>2, <1>4 DEF Changed, ReadPlatform
<1> QED BY <1>5, <1>6, <1>7 DEF JoinedRows, PlatformRows

(* UpdateAccount *)
LEMMA UpdatePlatformKeeps ==
    ASSUME ConnInv, NEW c \in Calls, UpdateAccount(c)
    PROVE  ConnInv'
<1>1. PICK a : a = ask[c].account
  OBVIOUS
<1>2. CASE Begins(c, "updateplatform")
  <2>1. at[c] = "start" /\ ask[c].op = "updateplatform" /\ UNCHANGED connVars /\ reply[c] = "none"
    BY <1>2 DEF UpdateAccount, Begins, Serving, ConnInv, HandlersConnect
  <2>2. PICK h : h = Changed(ReadPlatform(a), ask[c])
    OBVIOUS
  <2>3. \/ platforms[a] # None /\ Hold(c, h) /\ Goto(c, "write")
        \/ Ok(c) \/ Refuse(c)
    BY <1>1, <1>2, <2>2 DEF UpdateAccount, Begins, Serving
  <2>4. CASE platforms[a] # None /\ Hold(c, h) /\ Goto(c, "write")
    <3>1. h \in JoinedRows /\ h.payout \in Given(a) /\ h # None
      BY <1>1, <2>1, <2>2, <2>4, ChangedIsRow, ConnAssumption
    <3>2. reply' = [reply EXCEPT ![c] = "none"]
      BY <2>1, <2>4 DEF Goto, ConnInv, ConnTypeOK
    <3> QED BY <1>1, <2>1, <2>4, <3>1, <3>2, ConnAside DEF Hold, Goto
  <2> QED BY <2>1, <2>3, <2>4, ConnAnswers
<1>3. CASE Serving(c, "updateplatform", "write")
  <2>1. PICK h : h = held[c]
    OBVIOUS
  <2>2. /\ at[c] = "write" /\ ask[c].op = "updateplatform" /\ a \in PlatformIds
        /\ h # None /\ h \in JoinedRows /\ h.payout \in Given(a) /\ platforms[a] # None
        /\ Changes(c, a)
    BY <1>1, <1>3, <2>1 DEF Serving, ConnInv, ConnTypeOK, ConnAsks, HandlersConnect, Changes
  <2>3. CASE StorePlatform(a, h) /\ Ok(c)
    <3>1. /\ ask' = ask /\ at' = [at EXCEPT ![c] = "done"] /\ held' = held
          /\ reply' = [reply EXCEPT ![c] = "ok"]
          /\ platforms' = [platforms EXCEPT ![a] = h.account]
          /\ settings' = [settings EXCEPT ![a] = h.payout]
      BY <2>3 DEF Ok, Answer, StorePlatform
    <3>2. h.account \in PlatformRows /\ h.payout \in PayoutRows /\ h.account # None
          /\ h = [account |-> h.account, payout |-> h.payout]
      BY <2>2, ConnAssumption DEF JoinedRows
    <3>3. /\ platforms'[a] = h.account /\ settings'[a] = h.payout
          /\ \A b \in PlatformIds :
               b # a => platforms'[b] = platforms[b] /\ settings'[b] = settings[b]
          /\ at'[c] = "done" /\ \A d \in Calls : d # c => at'[d] = at[d] /\ reply'[d] = reply[d]
      BY <2>2, <3>1 DEF ConnInv, ConnTypeOK
    <3>4. \A b : Given(b)' = Given(b)
      BY <3>1 DEF Given, Changes
    <3>5. ConnTypeOK'
      BY <3>1, <3>2 DEF ConnInv, ConnTypeOK
    <3>6. HandlersConnect'
      <4>1. \A d \in Calls : d \in PlatformIds
                             /\ (ask[d].op = "updateplatform" => ask[d].account \in PlatformIds)
        BY DEF PlatformIds, ConnInv, ConnTypeOK, ConnAsks
      <4>2. \A b \in PlatformIds : platforms'[b] = None <=> platforms[b] = None
        BY <2>2, <3>2, <3>3
      <4> QED BY <3>1, <3>3, <3>4, <4>1, <4>2 DEF ConnInv, HandlersConnect
    <3>7. RowsArePairs'
      BY <2>2, <3>3, <3>4 DEF ConnInv, RowsArePairs
    <3>8. AloneIsLatest'
      <4> SUFFICES ASSUME NEW d \in Calls, NEW b \in PlatformIds, Changes(d, b), reply'[d] = "ok",
                          held[d] # None, \A e \in Calls \ {d} : Changes(e, b) => at'[e] = "start"
                   PROVE  ReadPlatform(b)' = held[d]
        BY <3>1 DEF AloneIsLatest, Alone, Changes
      <4>1. CASE d = c
        <5>1. b = a
          BY <1>1, <4>1 DEF Changes
        <5> QED BY <2>1, <3>2, <3>3, <4>1, <5>1 DEF ReadPlatform
      <4>2. CASE d # c
        <5>1. ~Changes(c, b) /\ b # a
          BY <2>2, <3>3, <4>2
        <5>2. ReadPlatform(b)' = ReadPlatform(b)
          BY <3>3, <5>1 DEF ReadPlatform
        <5>3. Alone(d, b)
          BY <3>3, <4>2, <5>1 DEF Alone
        <5> QED BY <5>2, <5>3 DEF ConnInv, AloneIsLatest
      <4> QED BY <4>1, <4>2
    <3> QED BY <3>5, <3>6, <3>7, <3>8 DEF ConnInv
  <2>4. \/ StorePlatform(a, h) /\ Ok(c)
        \/ Refuse(c) /\ UNCHANGED connVars
    BY <1>1, <1>3, <2>1 DEF UpdateAccount, Begins, Serving
  <2> QED BY <2>3, <2>4, ConnAnswers
<1> QED BY <1>2, <1>3 DEF UpdateAccount

LEMMA ConnStep == ConnInv /\ [ConnNext]_connAllVars => ConnInv'
<1> SUFFICES ASSUME ConnInv, [ConnNext]_connAllVars PROVE ConnInv'
  OBVIOUS
<1>1. CASE UNCHANGED connAllVars
  BY <1>1 DEF connAllVars, connVars, callVars, ConnInv, ConnTypeOK, HandlersConnect, RowsArePairs,
              AloneIsLatest, Alone, Given, Changes, ReadPlatform
<1>2. ASSUME NEW c \in Calls, Malformed(c), UNCHANGED connVars PROVE ConnInv'
  BY <1>2, ConnAnswers DEF Malformed
<1>3. ASSUME NEW c \in Calls, GetAccount(c) PROVE ConnInv'
  BY <1>3, ConnAnswers DEF GetAccount, Begins, Serving
<1> QED BY <1>1, <1>2, <1>3, CreatePlatformKeeps, UpdatePlatformKeeps DEF ConnNext

(* Payout settings come in pairs, and a change stands that no other        *)
(* overlapped, for any accounts and updates (UpdateAccount).               *)
THEOREM SettingsHold == ConnSpec => []SettingsComeInPairs
<1>1. ConnInv => SettingsComeInPairs
  <2> SUFFICES ASSUME ConnInv, NEW a \in PlatformIds, platforms[a] # None
               PROVE  /\ settings[a] \in Given(a)
                      /\ \A c \in Calls : Alone(c, a) => ReadPlatform(a) = held[c]
    BY DEF SettingsComeInPairs, Given, Alone
  <2> QED BY DEF ConnInv, RowsArePairs, AloneIsLatest
<1> QED BY <1>1, ConnStarts, ConnStep, PTL DEF ConnSpec

-----------------------------------------------------------------------------
(* Support tickets *)

DeskAsks ==
    [op : {"ticket"}, bad : BOOLEAN, org : STRING]
      \cup [op : {"status"}, bad : BOOLEAN, ticket : TicketIds, status : TicketStates]
      \cup [op : {"assign", "escalate"}, bad : BOOLEAN, ticket : TicketIds, assignee : STRING]
      \cup [op : {"comment"}, bad : BOOLEAN, ticket : TicketIds, staff : BOOLEAN]
      \cup [op : {"contract"}, bad : BOOLEAN, tier : STRING, org : STRING]
      \cup [op : {"endcontract"}, bad : BOOLEAN, contract : ContractIds]
      \cup [op : {"querydesk"}, bad : BOOLEAN]

TicketOps == {"ticket", "status", "assign", "comment", "escalate"}
Changing == {"status", "assign", "comment", "escalate"}

deskAllVars == <<deskVars, callVars>>

(* The support desk, with any number of requests. *)
DeskSpec ==
    /\ CallsInit([Calls -> DeskAsks]) /\ DeskInit
    /\ [][DeskNext]_deskAllVars

DeskLabels == {"start", "lookup", "insert", "write", "respond", "raise", "done"}

DeskTypeOK ==
    /\ ask \in [Calls -> DeskAsks]
    /\ at \in [Calls -> DeskLabels]
    /\ held \in [Calls -> TicketRows \cup {None}]
    /\ tickets \in [TicketIds -> TicketRows \cup {None}]
    /\ escalations \subseteq Calls
    /\ clock \in Nat

(* The times of a row fit its status and its mark. *)
Timed(row) ==
    /\ row.breached <=> row.responded # None /\ row.due # None /\ row.responded > row.due
    /\ row.status \in {"resolved", "closed"} => row.resolved # None

(* The priority of a row has risen no more often than that. *)
Climbed(row, n) == Rank[row.priority] <= Rank[row.first] + n

(* The escalations of the ticket of call c by other calls. *)
ByOthers(c) == {d \in escalations : d # c /\ ask[d].ticket = ask[c].ticket}

(* What the handler of c knows at step l with copy h: the copy is in order *)
(* and as high as others have raised it; the escalation itself is recorded *)
(* when the priority is about to rise.                                     *)
DeskKnows(c, l, h) ==
    /\ l = "start" => c \notin escalations
    /\ ask[c].op \in TicketOps /\ l \in {"insert", "write", "respond", "raise"} =>
         h \in TicketRows /\ Timed(h) /\ Climbed(h, Cardinality(ByOthers(c)))
    /\ ask[c].op = "ticket" /\ l = "insert" => h.priority = h.first
    /\ l = "respond" => ask[c].op = "comment" /\ h.responded = None
    /\ l = "raise" => ask[c].op = "escalate" /\ c \in escalations

HandlersOfDesk == \A c \in Calls : DeskKnows(c, at[c], held[c])

RowsAddUp ==
    \A t \in TicketIds : tickets[t] # None =>
        Timed(tickets[t]) /\ Climbed(tickets[t], Cardinality(EscalationsOf(t)))

DeskInv == DeskTypeOK /\ HandlersOfDesk /\ RowsAddUp

(* Ranks are numbers, and an upgrade is at most one rank. *)
LEMMA RanksRise ==
    ASSUME NEW p \in DOMAIN Rank
    PROVE  /\ Rank[p] \in Nat /\ Upgraded[p] \in DOMAIN Rank
           /\ Rank[Upgraded[p]] <= Rank[p] + 1
  BY DEF Rank, Upgraded

(* A larger allowance allows the more. *)
LEMMA ClimbsOn ==
    ASSUME NEW row \in TicketRows, NEW m \in Nat, NEW n \in Nat, m <= n, Climbed(row, m)
    PROVE  Climbed(row, n)
<1>1. Rank[row.priority] \in Nat /\ Rank[row.first] \in Nat
  BY RanksRise DEF TicketRows
<1> QED BY <1>1 DEF Climbed

(* Sets of calls can be counted. *)
LEMMA CallsCount ==
    ASSUME NEW S, NEW T, S \subseteq T, T \subseteq Calls
    PROVE  /\ Cardinality(S) \in Nat /\ Cardinality(T) \in Nat
           /\ Cardinality(S) <= Cardinality(T) /\ IsFiniteSet(S)
<1>1. IsFiniteSet(T)
  BY CallsAssumption, FS_Subset
<1> QED BY <1>1, FS_Subset, FS_CardinalityType

(* A new ticket has no times yet and its first priority. *)
LEMMA NewTicketIsRow ==
    ASSUME NEW deadline \in Nat \cup {None}
    PROVE  /\ NewTicket("normal", deadline) \in TicketRows /\ Timed(NewTicket("normal", deadline))
           /\ NewTicket("normal", deadline).priority = NewTicket("normal", deadline).first
<1>1. "normal" \in DOMAIN Rank
  BY DEF Rank
<1>2. NewTicket("normal", deadline) \in TicketRows
  BY <1>1 DEF NewTicket, TicketRows, TicketStates
<1> QED BY <1>2 DEF NewTicket, Timed

LEMMA FlatIsClimbed ==
    ASSUME NEW row \in TicketRows, row.priority = row.first, NEW n \in Nat
    PROVE  Climbed(row, n)
<1>1. Rank[row.first] \in Nat
  BY RanksRise DEF TicketRows
<1> QED BY <1>1 DEF Climbed

LEMMA DeskStarts == CallsInit([Calls -> DeskAsks]) /\ DeskInit => DeskInv
<1> SUFFICES ASSUME CallsInit([Calls -> DeskAsks]), DeskInit PROVE DeskInv
  OBVIOUS
<1>1. PICK row : row = NewTicket("normal", ResponseTime)
  OBVIOUS
<1>2. row \in TicketRows /\ Timed(row) /\ row.priority = row.first
  BY <1>1, NewTicketIsRow, DeskAssumption
<1>3. /\ ask \in [Calls -> DeskAsks] /\ at = [c \in Calls |-> "start"]
      /\ held = [c \in Calls |-> None] /\ escalations = {} /\ clock = 0
      /\ tickets = [t \in TicketIds |-> IF t \in FirstTickets THEN row ELSE None]
  BY <1>1 DEF CallsInit, DeskInit
<1>4. DeskTypeOK
  BY <1>2, <1>3 DEF DeskTypeOK, DeskLabels
<1>5. HandlersOfDesk
  BY <1>3 DEF HandlersOfDesk, DeskKnows
<1>6. RowsAddUp
  <2> SUFFICES ASSUME NEW t \in TicketIds, tickets[t] # None
               PROVE  Timed(tickets[t]) /\ Climbed(tickets[t], Cardinality(EscalationsOf(t)))
    BY DEF RowsAddUp
  <2>1. tickets[t] = row
    BY <1>3
  <2>2. EscalationsOf(t) \subseteq Calls
    BY <1>3 DEF EscalationsOf
  <2>3. Cardinality(EscalationsOf(t)) \in Nat
    BY <2>2, CallsCount
  <2> QED BY <1>2, <2>1, <2>3, FlatIsClimbed
<1> QED BY <1>4, <1>5, <1>6 DEF DeskInv

(* A call moves, it may escalate and write a row that is in order. *)
LEMMA DeskMoves ==
    ASSUME DeskInv, NEW c \in Calls, NEW l \in DeskLabels, l # "start",
           NEW h \in TicketRows \cup {None}, ask' = ask, clock' = clock,
           at' = [at EXCEPT ![c] = l], held' = [held EXCEPT ![c] = h],
           escalations \subseteq escalations', escalations' \subseteq escalations \cup {c},
           tickets' \in [TicketIds -> TicketRows \cup {None}],
           \A t \in TicketIds : tickets'[t] = tickets[t] \/
              (Timed(tickets'[t]) /\ Climbed(tickets'[t], Cardinality(EscalationsOf(t)))),
           DeskKnows(c, l, h)'
    PROVE  DeskInv'
<1>1. DeskTypeOK'
  BY DEF DeskInv, DeskTypeOK
<1>2. escalations' \subseteq Calls
  BY <1>1 DEF DeskTypeOK
<1>3. HandlersOfDesk'
  <2> SUFFICES ASSUME NEW d \in Calls PROVE DeskKnows(d, at[d], held[d])'
    BY DEF HandlersOfDesk
  <2>1. PICK k, g : k = at'[d] /\ g = held'[d]
    OBVIOUS
  <2>2. DeskKnows(d, k, g)'
    <3>1. CASE d = c
      <4>1. k = l /\ g = h
        BY <3>1, <2>1 DEF DeskInv, DeskTypeOK
      <4> QED BY <3>1, <4>1
    <3>2. CASE d # c
      <4>1. k = at[d] /\ g = held[d] /\ DeskKnows(d, k, g)
        BY <3>2, <2>1 DEF DeskInv, DeskTypeOK, HandlersOfDesk
      <4>2. ByOthers(d) \subseteq ByOthers(d)' /\ ByOthers(d)' \subseteq Calls
        BY <1>2 DEF ByOthers
      <4>3. PICK m, n : m = Cardinality(ByOthers(d)) /\ n = Cardinality(ByOthers(d)')
        OBVIOUS
      <4>4. PICK S, T : S = ByOthers(d) /\ T = ByOthers(d)'
        OBVIOUS
      <4>5. m \in Nat /\ n \in Nat /\ m <= n
        BY <4>2, <4>3, <4>4, CallsCount
      <4>6. g \in TicketRows /\ Climbed(g, m) => Climbed(g, n)
        BY <4>5, ClimbsOn
      <4>7. ask[d].op \in TicketOps /\ k \in {"insert", "write", "respond", "raise"} =>
              g \in TicketRows /\ Timed(g) /\ Climbed(g, n)
        BY <4>1, <4>3, <4>6 DEF DeskKnows
      <4>8. Climbed(g, n) => Climbed(g, Cardinality(ByOthers(d)))'
        BY <4>3 DEF Climbed
      <4>9. k = "start" => d \notin escalations'
        BY <3>2, <4>1 DEF DeskKnows
      <4> QED BY <4>1, <4>7, <4>8, <4>9 DEF DeskKnows, Timed
    <3> QED BY <3>1, <3>2
  <2> QED BY <2>1, <2>2 DEF DeskKnows, Timed, Climbed
<1>4. RowsAddUp'
  <2> SUFFICES ASSUME NEW t \in TicketIds, NEW row, row = tickets'[t], row # None,
                      NEW n, n = Cardinality(EscalationsOf(t)')
               PROVE  Timed(row) /\ Climbed(row, n)
    BY DEF RowsAddUp, Timed, Climbed
  <2>1. EscalationsOf(t) \subseteq EscalationsOf(t)' /\ EscalationsOf(t)' \subseteq Calls
    BY <1>2 DEF EscalationsOf
  <2>2. PICK S, T, m : S = EscalationsOf(t) /\ T = EscalationsOf(t)' /\ m = Cardinality(S)
    OBVIOUS
  <2>3. m \in Nat /\ n \in Nat /\ m <= n
    BY <2>1, <2>2, CallsCount
  <2>4. row \in TicketRows
    OBVIOUS
  <2>5. Timed(row) /\ Climbed(row, m)
    BY <2>2 DEF DeskInv, RowsAddUp
  <2> QED BY <2>3, <2>4, <2>5, ClimbsOn
<1> QED BY <1>1, <1>3, <1>4 DEF DeskInv

(* A call moves on or is answered with what it holds; no ticket changes. *)
LEMMA DeskAside ==
    ASSUME DeskInv, NEW c \in Calls, NEW l \in DeskLabels, ask' = ask, held' = held,
           at' = [at EXCEPT ![c] = l], l \in {"lookup", "insert", "write", "done"},
           l \in {"insert", "write"} => ask[c].op \notin TicketOps,
           UNCHANGED <<tickets, escalations, clock>>
    PROVE  DeskInv'
<1>1. PICK h : h = held[c]
  OBVIOUS
<1>2. h \in TicketRows \cup {None} /\ held' = [held EXCEPT ![c] = h]
  BY <1>1 DEF DeskInv, DeskTypeOK
<1>3. DeskKnows(c, l, h)'
  BY DEF DeskKnows, TicketOps
<1>4. tickets' \in [TicketIds -> TicketRows \cup {None}]
  BY DEF DeskInv, DeskTypeOK
<1> QED BY <1>2, <1>3, <1>4, DeskMoves

LEMMA DeskAnswers ==
    ASSUME DeskInv, NEW c \in Calls, Ok(c) \/ Refuse(c), UNCHANGED <<tickets, escalations, clock>>
    PROVE  DeskInv'
  BY DeskAside DEF Ok, Refuse, Answer, DeskLabels

(* A row is written by a call that is answered. *)
LEMMA TicketWritten ==
    ASSUME DeskInv, NEW c \in Calls, NEW t \in TicketIds, NEW row \in TicketRows, Ok(c),
           tickets' = [tickets EXCEPT ![t] = row], UNCHANGED <<escalations, clock>>,
           Timed(row), Climbed(row, Cardinality(EscalationsOf(t)))
    PROVE  DeskInv'
<1>1. PICK h : h = held[c]
  OBVIOUS
<1>2. h \in TicketRows \cup {None} /\ held' = [held EXCEPT ![c] = h]
  BY <1>1 DEF DeskInv, DeskTypeOK, Ok
<1>3. /\ ask' = ask /\ at' = [at EXCEPT ![c] = "done"] /\ "done" \in DeskLabels
  BY DEF Ok, Answer, DeskLabels
<1>4. DeskKnows(c, "done", h)'
  BY DEF DeskKnows
<1>5. /\ tickets' \in [TicketIds -> TicketRows \cup {None}]
      /\ tickets'[t] = row /\ \A u \in TicketIds : u # t => tickets'[u] = tickets[u]
  BY DEF DeskInv, DeskTypeOK
<1>6. \A u \in TicketIds : tickets'[u] = tickets[u] \/
        (Timed(tickets'[u]) /\ Climbed(tickets'[u], Cardinality(EscalationsOf(u))))
  BY <1>5
<1> QED BY <1>2, <1>3, <1>4, <1>5, <1>6, DeskMoves

(* CreateTicket *)
LEMMA CreateTicketKeeps ==
    ASSUME DeskInv, NEW c \in Calls, CreateTicket(c)
    PROVE  DeskInv'
<1>1. CASE Begins(c, "ticket")
  <2>1. at[c] = "start" /\ ask[c].op = "ticket" /\ Goto(c, "insert") /\ UNCHANGED deskVars
    BY <1>1 DEF CreateTicket, Begins, Serving
  <2>2. PICK deadline \in Nat \cup {None} : Hold(c, NewTicket("normal", deadline))
    <3>1. clock + ResponseTime \in Nat
      BY DeskAssumption DEF DeskInv, DeskTypeOK
    <3> QED BY <1>1, <3>1 DEF CreateTicket, Begins, Serving
  <2>3. PICK h : h = NewTicket("normal", deadline)
    OBVIOUS
  <2>4. h \in TicketRows /\ Timed(h) /\ h.priority = h.first
    BY <2>3, NewTicketIsRow
  <2>5. UNCHANGED <<ask, tickets, escalations, clock>>
    BY <2>1 DEF deskVars, Goto
  <2>6. PICK n : n = Cardinality(ByOthers(c))
    OBVIOUS
  <2>7. ByOthers(c) \subseteq Calls /\ ByOthers(c)' = ByOthers(c)
    BY <2>5 DEF ByOthers, DeskInv, DeskTypeOK
  <2>8. n \in Nat
    BY <2>6, <2>7, CallsCount
  <2>9. Climbed(h, n) /\ (Climbed(h, n) => Climbed(h, Cardinality(ByOthers(c)))')
    BY <2>4, <2>6, <2>7, <2>8, FlatIsClimbed DEF Climbed
  <2>10. DeskKnows(c, "insert", h)'
    BY <2>1, <2>4, <2>5, <2>9 DEF DeskKnows, Timed
  <2> QED BY <2>1, <2>2, <2>3, <2>4, <2>5, <2>10, DeskMoves
         DEF Goto, Hold, DeskLabels, DeskInv, DeskTypeOK
<1>2. CASE Serving(c, "ticket", "insert")
  <2>1. PICK h : h = held[c]
    OBVIOUS
  <2>2. /\ h \in TicketRows /\ Timed(h) /\ h.priority = h.first /\ c \in TicketIds
        /\ UNCHANGED <<escalations, clock>>
    BY <1>2, <2>1 DEF CreateTicket, Begins, Serving, DeskInv, HandlersOfDesk, DeskKnows, TicketOps,
                      TicketIds
  <2>3. \/ tickets' = [tickets EXCEPT ![c] = h] /\ Ok(c)
        \/ Refuse(c) /\ UNCHANGED tickets
    BY <1>2, <2>1 DEF CreateTicket, Begins, Serving, InsertTicket
  <2>4. EscalationsOf(c) \subseteq Calls
    BY DEF EscalationsOf, DeskInv, DeskTypeOK
  <2>5. Climbed(h, Cardinality(EscalationsOf(c)))
    <3>1. Cardinality(EscalationsOf(c)) \in Nat
      BY <2>4, CallsCount
    <3> QED BY <2>2, <3>1, FlatIsClimbed
  <2> QED BY <2>2, <2>3, <2>5, TicketWritten, DeskAnswers
<1> QED BY <1>1, <1>2 DEF CreateTicket

(* A handler reads its ticket. *)
LEMMA ReadTicketKeeps ==
    ASSUME DeskInv, NEW c \in Calls, NEW l \in {"insert", "write"}, ReadTicket(c, l),
           at[c] = "start", ask[c].op \in Changing
    PROVE  DeskInv'
<1>1. PICK t, h : t = ask[c].ticket /\ h = tickets[t]
  OBVIOUS
<1>2. /\ t \in TicketIds /\ c \notin escalations /\ UNCHANGED deskVars
  BY <1>1 DEF DeskInv, DeskTypeOK, DeskAsks, Changing, HandlersOfDesk, DeskKnows, ReadTicket
<1>3. \/ h # None /\ Hold(c, h) /\ Goto(c, l)
      \/ Refuse(c)
  BY <1>1 DEF ReadTicket, GetTicketByID
<1>4. UNCHANGED <<tickets, escalations, clock>>
  BY <1>2 DEF deskVars
<1>5. CASE h # None /\ Hold(c, h) /\ Goto(c, l)
  <2>1. h \in TicketRows /\ Timed(h) /\ Climbed(h, Cardinality(EscalationsOf(t)))
    BY <1>1, <1>2, <1>5 DEF DeskInv, DeskTypeOK, RowsAddUp
  <2>2. ask' = ask
    BY <1>5 DEF Goto
  <2>3. ByOthers(c)' = EscalationsOf(t)
    BY <1>1, <1>2, <1>4, <2>2 DEF ByOthers, EscalationsOf
  <2>4. Climbed(h, Cardinality(ByOthers(c)))'
    BY <2>1, <2>3 DEF Climbed
  <2>5. DeskKnows(c, l, h)'
    BY <2>1, <2>2, <2>4 DEF DeskKnows, Timed, Changing
  <2> QED BY <1>4, <1>5, <2>1, <2>5, DeskMoves
         DEF Goto, Hold, DeskLabels, DeskInv, DeskTypeOK
<1> QED BY <1>3, <1>4, <1>5, DeskAnswers

(* What the handler of a change holds before it writes. *)
LEMMA CopyInOrder ==
    ASSUME DeskInv, NEW c \in Calls, ask[c].op \in Changing,
           at[c] \in {"insert", "write", "respond", "raise"}
    PROVE  /\ held[c] \in TicketRows /\ Timed(held[c]) /\ ask[c].ticket \in TicketIds
           /\ Climbed(held[c], Cardinality(ByOthers(c)))
           /\ Climbed(held[c], Cardinality(EscalationsOf(ask[c].ticket)))
<1>1. /\ held[c] \in TicketRows /\ Timed(held[c]) /\ ask[c].ticket \in TicketIds
      /\ Climbed(held[c], Cardinality(ByOthers(c)))
  BY DEF DeskInv, DeskTypeOK, DeskAsks, Changing, TicketOps, HandlersOfDesk, DeskKnows
<1>2. /\ ByOthers(c) \subseteq EscalationsOf(ask[c].ticket)
      /\ EscalationsOf(ask[c].ticket) \subseteq Calls
  BY DEF ByOthers, EscalationsOf, DeskInv, DeskTypeOK
<1>3. PICK S, T : S = ByOthers(c) /\ T = EscalationsOf(ask[c].ticket)
  OBVIOUS
<1>4. /\ Cardinality(S) \in Nat /\ Cardinality(T) \in Nat
      /\ Cardinality(S) <= Cardinality(T)
  BY <1>2, <1>3, CallsCount
<1> QED BY <1>1, <1>3, <1>4, ClimbsOn

(* UpdateTicketStatus *)
LEMMA StatusKeeps ==
    ASSUME DeskInv, NEW c \in Calls, UpdateTicketStatus(c)
    PROVE  DeskInv'
<1>1. CASE Begins(c, "status") /\ ReadTicket(c, "write")
  BY <1>1, ReadTicketKeeps DEF Begins, Serving, Changing
<1>2. CASE Serving(c, "status", "write")
  <2>1. PICK h, s, t : h = held[c] /\ s = ask[c].status /\ t = ask[c].ticket
    OBVIOUS
  <2>2. PICK row : row = [h EXCEPT !.status = s,
                            !.resolved = IF s \in {"resolved", "closed"} THEN clock ELSE @]
    OBVIOUS
  <2>3. WriteTicket(c, row)
    BY <1>2, <2>1, <2>2 DEF UpdateTicketStatus, Begins, Serving
  <2>4. /\ h \in TicketRows /\ Timed(h) /\ Climbed(h, Cardinality(EscalationsOf(t)))
        /\ s \in TicketStates /\ t \in TicketIds /\ clock \in Nat
    BY <1>2, <2>1, CopyInOrder DEF Serving, Changing, DeskInv, DeskTypeOK, DeskAsks
  <2>5. row = [first |-> h.first, priority |-> h.priority, status |-> s, assignee |-> h.assignee,
               due |-> h.due, responded |-> h.responded,
               resolved |-> IF s \in {"resolved", "closed"} THEN clock ELSE h.resolved,
               breached |-> h.breached]
    BY <2>2, <2>4 DEF TicketRows
  <2>6. row \in TicketRows
    BY <2>4, <2>5 DEF TicketRows
  <2>7. Timed(row)
    BY <2>4, <2>5, DeskAssumption DEF Timed
  <2>8. Climbed(row, Cardinality(EscalationsOf(t)))
    BY <2>4, <2>5 DEF Climbed
  <2> QED BY <2>1, <2>3, <2>4, <2>6, <2>7, <2>8, TicketWritten, DeskAnswers
         DEF WriteTicket, UpdateTicket
<1> QED BY <1>1, <1>2 DEF UpdateTicketStatus

(* AssignTicket *)
LEMMA AssignKeeps ==
    ASSUME DeskInv, NEW c \in Calls, AssignTicket(c)
    PROVE  DeskInv'
<1>1. CASE Begins(c, "assign") /\ ReadTicket(c, "write")
  BY <1>1, ReadTicketKeeps DEF Begins, Serving, Changing
<1>2. CASE Serving(c, "assign", "write")
  <2>1. PICK h, s, t : h = held[c] /\ s = ask[c].assignee /\ t = ask[c].ticket
    OBVIOUS
  <2>2. PICK row : row = [h EXCEPT !.assignee = s,
                            !.status = IF @ = "open" THEN "in_progress" ELSE @]
    OBVIOUS
  <2>3. WriteTicket(c, row)
    BY <1>2, <2>1, <2>2 DEF AssignTicket, Begins, Serving
  <2>4. /\ h \in TicketRows /\ Timed(h) /\ Climbed(h, Cardinality(EscalationsOf(t)))
        /\ s \in STRING /\ t \in TicketIds
    BY <1>2, <2>1, CopyInOrder DEF Serving, Changing, DeskInv, DeskTypeOK, DeskAsks
  <2>5. row = [first |-> h.first, priority |-> h.priority,
               status |-> IF h.status = "open" THEN "in_progress" ELSE h.status,
               assignee |-> s, due |-> h.due, responded |-> h.responded,
               resolved |-> h.resolved, breached |-> h.breached]
    BY <2>2, <2>4 DEF TicketRows
  <2>6. row \in TicketRows
    BY <2>4, <2>5 DEF TicketRows, TicketStates
  <2>7. Timed(row)
    BY <2>4, <2>5 DEF Timed
  <2>8. Climbed(row, Cardinality(EscalationsOf(t)))
    BY <2>4, <2>5 DEF Climbed
  <2> QED BY <2>1, <2>3, <2>4, <2>6, <2>7, <2>8, TicketWritten, DeskAnswers
         DEF WriteTicket, UpdateTicket
<1> QED BY <1>1, <1>2 DEF AssignTicket

(* AddComment *)
LEMMA CommentKeeps ==
    ASSUME DeskInv, NEW c \in Calls, AddComment(c)
    PROVE  DeskInv'
<1>1. CASE Begins(c, "comment") /\ ReadTicket(c, "insert")
  BY <1>1, ReadTicketKeeps DEF Begins, Serving, Changing
<1>2. CASE Serving(c, "comment", "insert")
  <2>1. PICK h : h = held[c]
    OBVIOUS
  <2>2. /\ h \in TicketRows /\ Timed(h) /\ Climbed(h, Cardinality(ByOthers(c)))
        /\ UNCHANGED <<tickets, escalations, clock>> /\ ask[c].op = "comment"
    BY <1>2, <2>1, CopyInOrder DEF AddComment, Begins, Serving, Changing
  <2>3. \/ FirstReply(c) /\ Goto(c, "respond") /\ UNCHANGED held
        \/ Ok(c) \/ Refuse(c)
    BY <1>2 DEF AddComment, Begins, Serving, Ok
  <2>4. CASE FirstReply(c) /\ Goto(c, "respond") /\ UNCHANGED held
    <3>1. h.responded = None /\ ask' = ask /\ held' = [held EXCEPT ![c] = h]
      BY <2>1, <2>4 DEF FirstReply, Goto, DeskInv, DeskTypeOK
    <3>2. Climbed(h, Cardinality(ByOthers(c)))'
      BY <2>2, <3>1 DEF Climbed, ByOthers
    <3>3. DeskKnows(c, "respond", h)'
      BY <2>2, <3>1, <3>2 DEF DeskKnows, Timed
    <3> QED BY <2>2, <2>4, <3>1, <3>3, DeskMoves DEF Goto, DeskLabels, DeskInv, DeskTypeOK
  <2> QED BY <2>2, <2>3, <2>4, DeskAnswers
<1>3. CASE Serving(c, "comment", "respond")
  <2>1. PICK h, t : h = held[c] /\ t = ask[c].ticket
    OBVIOUS
  <2>2. PICK row : row = [h EXCEPT !.responded = clock,
                                   !.breached = @ \/ (h.due # None /\ clock > h.due)]
    OBVIOUS
  <2>3. /\ Ok(c) /\ UNCHANGED <<escalations, clock>>
        /\ tickets' = [tickets EXCEPT ![t] = row] \/ UNCHANGED tickets
    BY <1>3, <2>1, <2>2 DEF AddComment, Begins, Serving, UpdateTicket
  <2>4. /\ h \in TicketRows /\ Timed(h) /\ Climbed(h, Cardinality(EscalationsOf(t)))
        /\ t \in TicketIds /\ clock \in Nat /\ h.responded = None
    BY <1>3, <2>1, CopyInOrder
       DEF Serving, Changing, DeskInv, DeskTypeOK, HandlersOfDesk, DeskKnows
  <2>5. row = [first |-> h.first, priority |-> h.priority, status |-> h.status,
               assignee |-> h.assignee, due |-> h.due, responded |-> clock,
               resolved |-> h.resolved,
               breached |-> h.breached \/ (h.due # None /\ clock > h.due)]
    BY <2>2, <2>4 DEF TicketRows
  <2>6. row \in TicketRows
    BY <2>4, <2>5 DEF TicketRows
  <2>7. Timed(row)
    BY <2>4, <2>5, DeskAssumption DEF Timed
  <2>8. Climbed(row, Cardinality(EscalationsOf(t)))
    BY <2>4, <2>5 DEF Climbed
  <2> QED BY <2>3, <2>4, <2>6, <2>7, <2>8, TicketWritten, DeskAnswers
<1> QED BY <1>1, <1>2, <1>3 DEF AddComment

(* EscalateTicket: the record pays for the rise. *)
LEMMA EscalateKeeps ==
    ASSUME DeskInv, NEW c \in Calls, EscalateTicket(c)
    PROVE  DeskInv'
<1>1. CASE Begins(c, "escalate") /\ ReadTicket(c, "insert")
  BY <1>1, ReadTicketKeeps DEF Begins, Serving, Changing
<1>2. CASE Serving(c, "escalate", "insert")
  <2>1. PICK h : h = held[c]
    OBVIOUS
  <2>2. /\ h \in TicketRows /\ Timed(h) /\ Climbed(h, Cardinality(ByOthers(c)))
        /\ UNCHANGED <<tickets, clock>> /\ ask[c].op = "escalate"
    BY <1>2, <2>1, CopyInOrder DEF EscalateTicket, Begins, Serving, Changing
  <2>3. \/ /\ escalations' = escalations \cup {c} /\ UNCHANGED held
           /\ Answer(c, "ok") \/ Goto(c, "raise")
        \/ Refuse(c) /\ UNCHANGED escalations
    BY <1>2 DEF EscalateTicket, Begins, Serving
  <2>4. ASSUME escalations' = escalations \cup {c}, UNCHANGED held,
               NEW l \in {"raise", "done"}, at' = [at EXCEPT ![c] = l], ask' = ask
        PROVE  DeskInv'
    <3>1. held' = [held EXCEPT ![c] = h] /\ l \in DeskLabels /\ l # "start"
      BY <2>1, <2>4 DEF DeskInv, DeskTypeOK, DeskLabels
    <3>2. ByOthers(c)' = ByOthers(c)
      BY <2>4 DEF ByOthers
    <3>3. Climbed(h, Cardinality(ByOthers(c)))'
      BY <2>2, <3>2 DEF Climbed
    <3>4. DeskKnows(c, l, h)'
      BY <2>2, <2>4, <3>3 DEF DeskKnows, Timed
    <3>5. tickets' \in [TicketIds -> TicketRows \cup {None}]
      BY <2>2 DEF DeskInv, DeskTypeOK
    <3> QED BY <2>2, <2>4, <3>1, <3>4, <3>5, DeskMoves
  <2> QED BY <2>2, <2>3, <2>4, DeskAnswers DEF Answer, Goto
<1>3. CASE Serving(c, "escalate", "raise")
  <2>1. PICK h, s, t : h = held[c] /\ s = ask[c].assignee /\ t = ask[c].ticket
    OBVIOUS
  <2>2. PICK row : row = [h EXCEPT !.priority = Upgraded[@], !.assignee = s]
    OBVIOUS
  <2>3. /\ Ok(c) /\ UNCHANGED <<escalations, clock>>
        /\ tickets' = [tickets EXCEPT ![t] = row] \/ UNCHANGED tickets
    BY <1>3, <2>1, <2>2 DEF EscalateTicket, Begins, Serving, UpdateTicket
  <2>4. /\ h \in TicketRows /\ Timed(h) /\ Climbed(h, Cardinality(ByOthers(c)))
        /\ s \in STRING /\ t \in TicketIds /\ c \in escalations
    BY <1>3, <2>1, CopyInOrder
       DEF Serving, Changing, DeskInv, DeskTypeOK, DeskAsks, HandlersOfDesk, DeskKnows
  <2>5. row = [first |-> h.first, priority |-> Upgraded[h.priority], status |-> h.status,
               assignee |-> s, due |-> h.due, responded |-> h.responded,
               resolved |-> h.resolved, breached |-> h.breached]
    BY <2>2, <2>4 DEF TicketRows
  <2>6. /\ Rank[h.priority] \in Nat /\ Rank[h.first] \in Nat /\ Upgraded[h.priority] \in DOMAIN Rank
        /\ Rank[Upgraded[h.priority]] <= Rank[h.priority] + 1
        /\ Rank[Upgraded[h.priority]] \in Nat
    BY <2>4, RanksRise DEF TicketRows
  <2>7. row \in TicketRows
    BY <2>4, <2>5, <2>6 DEF TicketRows
  <2>8. Timed(row)
    BY <2>4, <2>5 DEF Timed
  <2>9. /\ Cardinality(EscalationsOf(t)) = Cardinality(ByOthers(c)) + 1
        /\ Cardinality(ByOthers(c)) \in Nat
    <3>1. PICK S : S = ByOthers(c)
      OBVIOUS
    <3>2. S \subseteq Calls /\ c \notin S /\ EscalationsOf(t) = S \cup {c}
      BY <2>1, <2>4, <3>1 DEF ByOthers, EscalationsOf, DeskInv, DeskTypeOK
    <3>3. IsFiniteSet(S) /\ Cardinality(S) \in Nat
      BY <3>2, CallsCount
    <3>4. Cardinality(S \cup {c}) = Cardinality(S) + 1
      BY <3>2, <3>3, FS_AddElement
    <3> QED BY <3>1, <3>2, <3>3, <3>4
  <2>10. Climbed(row, Cardinality(EscalationsOf(t)))
    <3>1. Rank[row.priority] = Rank[Upgraded[h.priority]] /\ Rank[row.first] = Rank[h.first]
      BY <2>5
    <3>2. Rank[h.priority] <= Rank[h.first] + Cardinality(ByOthers(c))
      BY <2>4 DEF Climbed
    <3> QED BY <2>6, <2>9, <3>1, <3>2 DEF Climbed
  <2> QED BY <2>3, <2>4, <2>7, <2>8, <2>10, TicketWritten, DeskAnswers
<1> QED BY <1>1, <1>2, <1>3 DEF EscalateTicket

(* Contracts leave the tickets alone. *)
LEMMA ContractsKeep ==
    ASSUME DeskInv, NEW c \in Calls, CreateContract(c) \/ CancelContract(c) \/ QueryDesk(c)
    PROVE  DeskInv'
<1>1. UNCHANGED <<tickets, escalations, clock>> /\ ask[c].op \notin TicketOps
  BY DEF CreateContract, CancelContract, QueryDesk, Begins, Serving, deskVars, TicketOps
<1>2. \/ Ok(c) \/ Refuse(c)
      \/ \E l \in {"lookup", "insert", "write"} : Goto(c, l) /\ UNCHANGED held
  BY DEF CreateContract, CancelContract, QueryDesk
<1>3. ASSUME NEW l \in {"lookup", "insert", "write"}, Goto(c, l), UNCHANGED held PROVE DeskInv'
  BY <1>1, <1>3, DeskAside DEF Goto, DeskLabels
<1> QED BY <1>1, <1>2, <1>3, DeskAnswers

LEMMA DeskStep == DeskInv /\ [DeskNext]_deskAllVars => DeskInv'
<1> SUFFICES ASSUME DeskInv, [DeskNext]_deskAllVars PROVE DeskInv'
  OBVIOUS
<1>1. CASE UNCHANGED <<tickets, escalations, callVars>> /\ clock' \in Nat
  BY <1>1 DEF callVars, DeskInv, DeskTypeOK, HandlersOfDesk, DeskKnows, RowsAddUp, Timed, Climbed,
              ByOthers, EscalationsOf
<1>2. CASE UNCHANGED deskAllVars \/ PassHour
  <2>1. UNCHANGED <<tickets, escalations, callVars>> /\ clock' \in Nat
    BY <1>2 DEF deskAllVars, deskVars, PassHour, DeskInv, DeskTypeOK
  <2> QED BY <1>1, <2>1
<1>3. ASSUME NEW c \in Calls, Malformed(c), UNCHANGED deskVars PROVE DeskInv'
  BY <1>3, DeskAnswers DEF Malformed, deskVars
<1> QED BY <1>2, <1>3, CreateTicketKeeps, StatusKeeps, AssignKeeps, CommentKeeps, EscalateKeeps,
           ContractsKeep DEF DeskNext

(* The inductive invariant of the support desk: copies and rows are in     *)
(* order, and a rise of the priority is paid for by its own record.        *)
LEMMA DeskInvHolds == DeskSpec => []DeskInv
<1> QED BY DeskStarts, DeskStep, PTL DEF DeskSpec

(* Tickets add up, for any tickets, tiers and overlapping changes          *)
(* (AddComment, UpdateTicketStatus, EscalateTicket).                       *)
THEOREM TicketsHold == DeskSpec => []TicketsAddUp
<1>1. DeskInv => TicketsAddUp
  <2> SUFFICES ASSUME DeskInv, NEW t \in TicketIds, tickets[t] # None
               PROVE  /\ Timed(tickets[t])
                      /\ Rank[tickets[t].priority] - Rank[tickets[t].first]
                           <= Cardinality(EscalationsOf(t))
    BY DEF TicketsAddUp, Timed
  <2>1. Timed(tickets[t]) /\ Climbed(tickets[t], Cardinality(EscalationsOf(t)))
    BY DEF DeskInv, RowsAddUp
  <2>2. Rank[tickets[t].priority] \in Nat /\ Rank[tickets[t].first] \in Nat
    BY RanksRise DEF DeskInv, DeskTypeOK, TicketRows
  <2>3. Cardinality(EscalationsOf(t)) \in Nat
    <3>1. EscalationsOf(t) \subseteq Calls
      BY DEF EscalationsOf, DeskInv, DeskTypeOK
    <3> QED BY <3>1, CallsCount
  <2> QED BY <2>1, <2>2, <2>3 DEF Climbed
<1> QED BY <1>1, DeskInvHolds, PTL

-----------------------------------------------------------------------------
(* Integration projects *)

ProjAsks ==
    [op : {"project"}, bad : BOOLEAN, template : STRING \cup {None}]
      \cup [op : {"stage"}, bad : BOOLEAN, project : ProjectIds, status : STRING]
      \cup [op : {"engineer"}, bad : BOOLEAN, project : ProjectIds, engineer : STRING]
      \cup [op : {"note"}, bad : BOOLEAN, project : ProjectIds]
      \cup [op : {"consult", "milestone", "reviseconsult", "queryproj"}, bad : BOOLEAN]

projAllVars == <<projVars, callVars>>

(* The project service, with any number of requests. *)
ProjSpec ==
    /\ CallsInit([Calls -> ProjAsks]) /\ ProjInit
    /\ [][ProjNext]_projAllVars

ProjLabels == {"start", "insert", "milestones", "write", "done"}

ProjTypeOK ==
    /\ ask \in [Calls -> ProjAsks]
    /\ at \in [Calls -> ProjLabels]
    /\ held \in [Calls -> ProjectRows \cup {None}]
    /\ projects \in [ProjectIds -> ProjectRows \cup {None}]
    /\ milestones \in [ProjectIds -> SUBSET Nat]

(* A row has the dates of its stage, also when it comes to a stage on hold *)
(* or from there.                                                          *)
Dated(row) ==
    /\ row.status \in {"in_progress", "testing", "completed"} => row.started
    /\ row.status = "completed" => row.finished

(* Project p was made from a template. *)
Templated(p) == projects[p] # None /\ projects[p].template # None

(* What the handler of c knows at step l with copy h: its own project is   *)
(* not there before it is inserted, and a copy of another has its dates    *)
(* and its template.                                                       *)
Knows(c, l, h) ==
    /\ projects[c] # None => ask[c].op = "project" /\ l \in {"milestones", "done"}
    /\ l = "insert" /\ ask[c].op = "project" => h \in ProjectRows /\ Dated(h)
    /\ l = "insert" /\ ask[c].op = "note" => projects[ask[c].project] # None
    /\ l = "milestones" => ask[c].op = "project" /\ Templated(c)
    /\ l = "write" => /\ ask[c].op \in {"stage", "engineer"}
                      /\ h \in ProjectRows /\ Dated(h)
                      /\ projects[ask[c].project] # None
                      /\ h.template = projects[ask[c].project].template

HandlersKnow == \A c \in Calls : Knows(c, at[c], held[c])

(* The tables go together. *)
RowsGoTogether ==
    /\ \A p \in ProjectIds : projects[p] # None => Dated(projects[p])
    /\ \A p \in ProjectIds : milestones[p] # {} => Templated(p)
    /\ \A c \in updates : c \in Calls /\ ask[c].op = "note" /\ projects[ask[c].project] # None

ProjInv == ProjTypeOK /\ HandlersKnow /\ RowsGoTogether

(* A new project is a draft; those of the start are at a stage before the  *)
(* work.                                                                   *)
LEMMA NewProjectIsRow ==
    ASSUME NEW t \in Offers \cup {None}
    PROVE  /\ NewProject(t) \in ProjectRows /\ Dated(NewProject(t)) /\ NewProject(t) # None
           /\ [NewProject(t) EXCEPT !.status = FirstStatus] \in ProjectRows
           /\ [NewProject(t) EXCEPT !.status = FirstStatus].status = FirstStatus
<1>1. "draft" \in Stages /\ FirstStatus \in Stages
  BY ProjAssumption DEF Stages, ValidTransitions
<1>2. NewProject(t) \in ProjectRows
  BY <1>1 DEF NewProject, ProjectRows
<1>3. Dated(NewProject(t)) /\ NewProject(t) # None
  BY <1>2, ProjAssumption DEF Dated, NewProject
<1>4. PICK new : new = NewProject(t)
  OBVIOUS
<1>5. [new EXCEPT !.status = FirstStatus] \in ProjectRows
  BY <1>1, <1>2, <1>4 DEF ProjectRows
<1>6. [new EXCEPT !.status = FirstStatus].status = FirstStatus
  BY <1>2, <1>4 DEF ProjectRows
<1> QED BY <1>2, <1>3, <1>4, <1>5, <1>6

LEMMA ProjStarts == CallsInit([Calls -> ProjAsks]) /\ ProjInit => ProjInv
<1> SUFFICES ASSUME CallsInit([Calls -> ProjAsks]), ProjInit PROVE ProjInv
  OBVIOUS
<1>1. PICK row : row = [NewProject(None) EXCEPT !.status = FirstStatus]
  OBVIOUS
<1>2. row \in ProjectRows /\ row # None /\ Dated(row)
  BY <1>1, NewProjectIsRow, ProjAssumption DEF Dated
<1>3. /\ ask \in [Calls -> ProjAsks] /\ at = [c \in Calls |-> "start"]
      /\ held = [c \in Calls |-> None] /\ updates = {} /\ milestones = [p \in ProjectIds |-> {}]
      /\ projects = [p \in ProjectIds |-> IF p \in FirstProjects THEN row ELSE None]
  BY <1>1 DEF CallsInit, ProjInit
<1>4. ProjTypeOK
  BY <1>2, <1>3 DEF ProjTypeOK, ProjLabels
<1>5. RowsGoTogether
  BY <1>2, <1>3 DEF RowsGoTogether
<1>6. HandlersKnow
  <2>1. \A c \in Calls : c \in ProjectIds /\ c \notin FirstProjects
    BY ProjAssumption DEF ProjectIds
  <2> QED BY <1>3, <2>1 DEF HandlersKnow, Knows
<1> QED BY <1>4, <1>5, <1>6 DEF ProjInv

(* A call moves and the projects stay; milestones and updates are added    *)
(* where they belong.                                                      *)
LEMMA ProjAside ==
    ASSUME ProjInv, NEW c \in Calls, NEW l \in ProjLabels, NEW h \in ProjectRows \cup {None},
           ask' = ask, at' = [at EXCEPT ![c] = l], held' = [held EXCEPT ![c] = h],
           projects' = projects, Knows(c, l, h),
           milestones' \in [ProjectIds -> SUBSET Nat],
           \A p \in ProjectIds : milestones'[p] # {} => milestones[p] # {} \/ Templated(p),
           \A d \in updates' : d \in updates \/
             (d \in Calls /\ ask[d].op = "note" /\ projects[ask[d].project] # None)
    PROVE  ProjInv'
<1>1. ProjTypeOK'
  BY DEF ProjInv, ProjTypeOK
<1>2. RowsGoTogether'
  BY DEF ProjInv, RowsGoTogether, Dated, Templated
<1>3. HandlersKnow'
  <2> SUFFICES ASSUME NEW d \in Calls PROVE Knows(d, at'[d], held'[d])
    BY DEF HandlersKnow, Knows, Templated, Dated
  <2>1. CASE d = c
    <3>1. at'[c] = l /\ held'[c] = h
      BY DEF ProjInv, ProjTypeOK
    <3> QED BY <2>1, <3>1
  <2>2. CASE d # c
    <3>1. at'[d] = at[d] /\ held'[d] = held[d]
      BY <2>2 DEF ProjInv, ProjTypeOK
    <3> QED BY <3>1 DEF ProjInv, HandlersKnow
  <2> QED BY <2>1, <2>2
<1> QED BY <1>1, <1>2, <1>3 DEF ProjInv

(* A call is answered, and nothing else happens. *)
LEMMA ProjAnswers ==
    ASSUME ProjInv, NEW c \in Calls, NEW a, Answer(c, a), UNCHANGED held,
           at[c] # "insert" \/ ask[c].op # "project" \/ projects[c] = None,
           UNCHANGED <<projects, milestones, updates>>
    PROVE  ProjInv'
<1>1. PICK h : h = held[c]
  OBVIOUS
<1>2. h \in ProjectRows \cup {None} /\ held' = [held EXCEPT ![c] = h]
  BY <1>1 DEF ProjInv, ProjTypeOK
<1>3. /\ ask' = ask /\ at' = [at EXCEPT ![c] = "done"] /\ "done" \in ProjLabels
      /\ milestones' \in [ProjectIds -> SUBSET Nat]
  BY DEF Answer, ProjLabels, ProjInv, ProjTypeOK
<1>4. Knows(c, "done", h)
  BY DEF ProjInv, HandlersKnow, Knows
<1> QED BY <1>2, <1>3, <1>4, ProjAside

(* A row is inserted by its call, or written over with the same template. *)
LEMMA ProjWrites ==
    ASSUME ProjInv, NEW c \in Calls, NEW l \in ProjLabels, NEW p \in ProjectIds,
           NEW row \in ProjectRows, Dated(row),
           ask' = ask, at' = [at EXCEPT ![c] = l], held' = held,
           projects' = [projects EXCEPT ![p] = row], UNCHANGED <<milestones, updates>>,
           (projects[p] # None /\ row.template = projects[p].template) \/ p = c,
           projects[c] = None,
           \/ l = "done" /\ (ask[c].op # "project" => p # c)
           \/ l = "milestones" /\ p = c /\ row.template # None,
           p = c => ask[c].op = "project"
    PROVE  ProjInv'
<1>1. row # None /\ projects'[p] = row /\ \A q \in ProjectIds : q # p => projects'[q] = projects[q]
  BY ProjAssumption DEF ProjInv, ProjTypeOK
<1>2. \A q \in ProjectIds : projects[q] # None =>
        projects'[q] # None /\ projects'[q].template = projects[q].template
  BY <1>1
<1>3. ProjTypeOK'
  BY DEF ProjInv, ProjTypeOK
<1>4. RowsGoTogether'
  <2>1. \A q \in ProjectIds : projects'[q] # None => Dated(projects'[q])
    BY <1>1 DEF ProjInv, RowsGoTogether
  <2>2. \A d \in updates : ask[d].project \in ProjectIds
    BY DEF ProjInv, RowsGoTogether, ProjTypeOK, ProjAsks
  <2> QED BY <1>2, <2>1, <2>2 DEF ProjInv, RowsGoTogether, Dated, Templated
<1>5. HandlersKnow'
  <2> SUFFICES ASSUME NEW d \in Calls, NEW k, NEW h, k = at'[d], h = held[d]
               PROVE  Knows(d, k, h)'
    BY DEF HandlersKnow, Knows, Templated, Dated
  <2>1. /\ d \in ProjectIds
        /\ ask[d].op \in {"stage", "engineer", "note"} => ask[d].project \in ProjectIds
    BY DEF ProjectIds, ProjInv, ProjTypeOK, ProjAsks
  <2>2. CASE d = c
    <3>1. k = l
      BY <2>2 DEF ProjInv, ProjTypeOK
    <3> QED BY <1>1, <2>1, <2>2, <3>1 DEF Knows, Templated
  <2>3. CASE d # c
    <3>1. k = at[d] /\ Knows(d, k, h)
      BY <2>3 DEF ProjInv, ProjTypeOK, HandlersKnow
    <3>2. projects'[d] # None => projects[d] # None
      BY <1>1, <2>1, <2>3
    <3> QED BY <1>2, <2>1, <3>1, <3>2 DEF Knows, Templated
  <2> QED BY <2>2, <2>3
<1> QED BY <1>3, <1>4, <1>5 DEF ProjInv

(* CreateProject *)
LEMMA CreateProjectKeeps ==
    ASSUME ProjInv, NEW c \in Calls, CreateProject(c)
    PROVE  ProjInv'
<1>1. c \in ProjectIds /\ Knows(c, at[c], held[c])
  BY DEF ProjectIds, ProjInv, HandlersKnow
<1>2. CASE Begins(c, "project")
  <2>1. /\ at[c] = "start" /\ ask[c].op = "project" /\ Goto(c, "insert") /\ UNCHANGED projVars
    BY <1>2 DEF CreateProject, Begins, Serving
  <2>2. PICK t \in Offers \cup {None} : Hold(c, NewProject(t))
    BY <1>2 DEF CreateProject, Begins, Serving, GetTemplateByID
  <2>3. PICK h : h = NewProject(t)
    OBVIOUS
  <2>4. h \in ProjectRows /\ Dated(h)
    BY <2>3, NewProjectIsRow
  <2>5. Knows(c, "insert", h)
    BY <1>1, <2>1, <2>4 DEF Knows
  <2> QED BY <2>1, <2>2, <2>3, <2>4, <2>5, ProjAside
         DEF Goto, Hold, projVars, ProjLabels, ProjInv, ProjTypeOK
<1>3. CASE Serving(c, "project", "insert")
  <2>1. /\ at[c] = "insert" /\ ask[c].op = "project" /\ UNCHANGED <<milestones, updates>>
        /\ projects[c] = None /\ held[c] \in ProjectRows /\ Dated(held[c])
    BY <1>1, <1>3 DEF CreateProject, Begins, Serving, Knows
  <2>2. \/ /\ projects' = [projects EXCEPT ![c] = held[c]] /\ UNCHANGED held
           /\ IF held[c].template = None THEN Answer(c, "ok") ELSE Goto(c, "milestones")
        \/ Refuse(c) /\ UNCHANGED projects
    BY <1>3 DEF CreateProject, Begins, Serving
  <2>3. CASE projects' = [projects EXCEPT ![c] = held[c]] /\ UNCHANGED held
             /\ IF held[c].template = None THEN Answer(c, "ok") ELSE Goto(c, "milestones")
    <3>1. PICK row : row = held[c]
      OBVIOUS
    <3>2. CASE row.template = None
      BY <1>1, <2>1, <2>3, <3>1, <3>2, ProjWrites DEF Answer, ProjLabels
    <3>3. CASE row.template # None
      BY <1>1, <2>1, <2>3, <3>1, <3>3, ProjWrites DEF Goto, ProjLabels
    <3> QED BY <3>2, <3>3
  <2> QED BY <2>1, <2>2, <2>3, ProjAnswers DEF Refuse
<1>4. CASE Serving(c, "project", "milestones")
  <2>1. at[c] = "milestones" /\ Ok(c) /\ UNCHANGED <<projects, updates>> /\ Templated(c)
    BY <1>1, <1>4 DEF CreateProject, Begins, Serving, Knows
  <2>2. PICK inserted \in SUBSET (1 .. Len(DefaultMilestones)) :
          milestones' = [milestones EXCEPT ![c] = inserted]
    BY <1>4 DEF CreateProject, Begins, Serving
  <2>3. inserted \in SUBSET Nat
    BY <2>2
  <2>4. PICK h : h = held[c]
    OBVIOUS
  <2>5. h \in ProjectRows \cup {None} /\ held' = [held EXCEPT ![c] = h] /\ Knows(c, "done", h)
    BY <1>1, <2>1, <2>4 DEF ProjInv, ProjTypeOK, Knows, Ok
  <2>6. /\ milestones' \in [ProjectIds -> SUBSET Nat]
        /\ \A p \in ProjectIds : p # c => milestones'[p] = milestones[p]
    BY <2>2, <2>3 DEF ProjInv, ProjTypeOK
  <2>7. ask' = ask /\ at' = [at EXCEPT ![c] = "done"] /\ "done" \in ProjLabels
    BY <2>1 DEF Ok, Answer, ProjLabels
  <2> QED BY <2>1, <2>5, <2>6, <2>7, ProjAside
<1> QED BY <1>2, <1>3, <1>4 DEF CreateProject

(* A handler reads the row of its project. *)
LEMMA ReadProjectKeeps ==
    ASSUME ProjInv, NEW c \in Calls, NEW l \in ProjLabels, ReadProject(c, l), at[c] = "start",
           ask[c].op \in {"stage", "engineer", "note"},
           l = IF ask[c].op = "note" THEN "insert" ELSE "write"
    PROVE  ProjInv'
<1>1. ask[c].project \in ProjectIds /\ Knows(c, "start", held[c])
  BY DEF ProjInv, ProjTypeOK, ProjAsks, HandlersKnow
<1>2. PICK h : h = projects[ask[c].project]
  OBVIOUS
<1>3. \/ h # None /\ Hold(c, h) /\ Goto(c, l)
      \/ Refuse(c)
  BY <1>2 DEF ReadProject
<1>4. UNCHANGED projVars
  BY DEF ReadProject
<1>5. CASE h # None /\ Hold(c, h) /\ Goto(c, l)
  <2>1. h \in ProjectRows /\ Dated(h)
    BY <1>1, <1>2, <1>5 DEF ProjInv, ProjTypeOK, RowsGoTogether
  <2>2. Knows(c, l, h)
    BY <1>1, <1>2, <1>5, <2>1 DEF Knows
  <2> QED BY <1>4, <1>5, <2>1, <2>2, ProjAside DEF Hold, Goto, projVars, ProjInv, ProjTypeOK
<1> QED BY <1>3, <1>4, <1>5, ProjAnswers DEF Refuse, projVars

(* It writes the changed copy back. *)
LEMMA WriteProjectKeeps ==
    ASSUME ProjInv, NEW c \in Calls, NEW row \in ProjectRows, WriteProject(c, row),
           at[c] = "write", Dated(row), row.template = held[c].template
    PROVE  ProjInv'
<1>1. /\ Knows(c, "write", held[c]) /\ c \in ProjectIds
      /\ ask[c].op \in {"stage", "engineer"} => ask[c].project \in ProjectIds
  BY DEF ProjInv, ProjTypeOK, ProjAsks, HandlersKnow, ProjectIds
<1>2. PICK p : p = ask[c].project
  OBVIOUS
<1>3. /\ p \in ProjectIds /\ projects[p] # None /\ row.template = projects[p].template
      /\ projects[c] = None /\ p # c /\ ask[c].op # "project"
  BY <1>1, <1>2 DEF Knows
<1>4. UNCHANGED <<milestones, updates>>
  BY DEF WriteProject
<1>5. CASE UpdateProject(ask[c].project, row) /\ Ok(c)
  BY <1>2, <1>3, <1>4, <1>5, ProjWrites DEF UpdateProject, Ok, Answer, ProjLabels
<1> QED BY <1>4, <1>5, ProjAnswers DEF WriteProject, Refuse

(* Only a project that is worked on comes to the tests, and only a tested  *)
(* one to its end.                                                         *)
LEMMA TransitionsInOrder ==
    ASSUME NEW s \in Stages, NEW t \in ValidTransitions[s]
    PROVE  /\ t \in Stages
           /\ t = "testing" => s = "in_progress"
           /\ t = "completed" => s = "testing"
  BY DEF Stages, ValidTransitions

(* UpdateProjectStatus *)
LEMMA StageKeeps ==
    ASSUME ProjInv, NEW c \in Calls, UpdateProjectStatus(c)
    PROVE  ProjInv'
<1>1. CASE Begins(c, "stage") /\ ReadProject(c, "write")
  BY <1>1, ReadProjectKeeps DEF Begins, Serving, ProjLabels
<1>2. CASE Serving(c, "stage", "write")
  <2>1. at[c] = "write" /\ Knows(c, "write", held[c])
    BY <1>2 DEF Serving, ProjInv, HandlersKnow
  <2>2. PICK h, s : h = held[c] /\ s = ask[c].status
    OBVIOUS
  <2>3. h \in ProjectRows /\ Dated(h)
    BY <2>1, <2>2 DEF Knows
  <2>4. PICK row : row = [h EXCEPT !.status = s,
                                   !.started = @ \/ s = "in_progress",
                                   !.finished = @ \/ s = "completed"]
    OBVIOUS
  <2>5. \/ s \in ValidTransitions[h.status] /\ WriteProject(c, row)
        \/ Refuse(c) /\ UNCHANGED projVars
    BY <1>2, <2>2, <2>4 DEF UpdateProjectStatus, Begins, Serving
  <2>6. CASE s \in ValidTransitions[h.status] /\ WriteProject(c, row)
    <3>1. h.status \in Stages
      BY <2>3 DEF ProjectRows
    <3>2. /\ s \in Stages /\ (s = "testing" => h.status = "in_progress")
          /\ (s = "completed" => h.status = "testing")
      BY <2>6, <3>1, TransitionsInOrder
    <3>3. /\ row = [status |-> s, engineer |-> h.engineer,
                    started |-> h.started \/ s = "in_progress",
                    finished |-> h.finished \/ s = "completed", template |-> h.template]
      BY <2>3, <2>4 DEF ProjectRows
    <3>4. row \in ProjectRows /\ row.template = h.template
      BY <2>3, <3>2, <3>3 DEF ProjectRows
    <3>5. Dated(row)
      BY <2>3, <3>2, <3>3 DEF Dated
    <3> QED BY <2>1, <2>2, <2>6, <3>4, <3>5, WriteProjectKeeps
  <2> QED BY <2>1, <2>5, <2>6, ProjAnswers DEF Refuse, projVars
<1> QED BY <1>1, <1>2 DEF UpdateProjectStatus

(* AssignEngineer *)
LEMMA EngineerKeeps ==
    ASSUME ProjInv, NEW c \in Calls, AssignEngineer(c)
    PROVE  ProjInv'
<1>1. CASE Begins(c, "engineer") /\ ReadProject(c, "write")
  BY <1>1, ReadProjectKeeps DEF Begins, Serving, ProjLabels
<1>2. CASE Serving(c, "engineer", "write")
  <2>1. at[c] = "write" /\ Knows(c, "write", held[c]) /\ ask[c].engineer \in STRING
    BY <1>2 DEF Serving, ProjInv, HandlersKnow, ProjTypeOK, ProjAsks
  <2>2. PICK h, e : h = held[c] /\ e = ask[c].engineer
    OBVIOUS
  <2>3. PICK row : row = [h EXCEPT !.engineer = e]
    OBVIOUS
  <2>4. /\ row \in ProjectRows /\ row.template = h.template /\ row.status = h.status
        /\ row.started = h.started /\ row.finished = h.finished /\ Dated(h)
    BY <2>1, <2>2, <2>3 DEF Knows, ProjectRows
  <2>5. WriteProject(c, row)
    BY <1>2, <2>2, <2>3 DEF AssignEngineer, Begins, Serving
  <2>6. Dated(row)
    BY <2>4 DEF Dated
  <2> QED BY <2>1, <2>2, <2>4, <2>5, <2>6, WriteProjectKeeps
<1> QED BY <1>1, <1>2 DEF AssignEngineer

(* AddProjectUpdate *)
LEMMA NoteKeeps ==
    ASSUME ProjInv, NEW c \in Calls, AddProjectUpdate(c)
    PROVE  ProjInv'
<1>1. CASE Begins(c, "note") /\ ReadProject(c, "insert")
  BY <1>1, ReadProjectKeeps DEF Begins, Serving, ProjLabels
<1>2. CASE Serving(c, "note", "insert")
  <2>1. /\ at[c] = "insert" /\ ask[c].op = "note" /\ projects[ask[c].project] # None
        /\ Knows(c, "insert", held[c]) /\ UNCHANGED <<projects, milestones>>
        /\ milestones' \in [ProjectIds -> SUBSET Nat]
    BY <1>2 DEF AddProjectUpdate, Begins, Serving, ProjInv, ProjTypeOK, HandlersKnow, Knows
  <2>2. \/ updates' = updates \cup {c} /\ Ok(c)
        \/ Refuse(c) /\ UNCHANGED updates
    BY <1>2 DEF AddProjectUpdate, Begins, Serving
  <2>3. CASE updates' = updates \cup {c} /\ Ok(c)
    <3>1. PICK h : h = held[c]
      OBVIOUS
    <3>2. h \in ProjectRows \cup {None} /\ held' = [held EXCEPT ![c] = h] /\ Knows(c, "done", h)
      BY <2>1, <2>3, <3>1 DEF ProjInv, ProjTypeOK, Knows, Ok
    <3>3. ask' = ask /\ at' = [at EXCEPT ![c] = "done"] /\ "done" \in ProjLabels
      BY <2>3 DEF Ok, Answer, ProjLabels
    <3> QED BY <2>1, <2>3, <3>2, <3>3, ProjAside
  <2> QED BY <2>1, <2>2, <2>3, ProjAnswers DEF Refuse
<1> QED BY <1>1, <1>2 DEF AddProjectUpdate

LEMMA ProjStep == ProjInv /\ [ProjNext]_projAllVars => ProjInv'
<1> SUFFICES ASSUME ProjInv, [ProjNext]_projAllVars PROVE ProjInv'
  OBVIOUS
<1>1. CASE UNCHANGED projAllVars
  BY <1>1 DEF projAllVars, projVars, callVars, ProjInv, ProjTypeOK, HandlersKnow, RowsGoTogether,
              Knows, Templated, Dated
<1>2. ASSUME NEW c \in Calls, Malformed(c), UNCHANGED projVars PROVE ProjInv'
  BY <1>2, ProjAnswers DEF Malformed, Refuse, projVars
<1>3. ASSUME NEW c \in Calls, RequestConsultation(c) PROVE ProjInv'
  BY <1>3, ProjAnswers DEF RequestConsultation, Begins, Serving, Ok, Refuse
<1>4. ASSUME NEW c \in Calls, UpdateMilestone(c) \/ ReviseConsultation(c) \/ QueryProjects(c)
      PROVE  ProjInv'
  <2>1. at[c] = "start" /\ UNCHANGED <<projects, milestones, updates>> /\ (Ok(c) \/ Refuse(c))
    BY <1>4 DEF UpdateMilestone, ReviseConsultation, QueryProjects, Begins, Serving, projVars
  <2> QED BY <2>1, ProjAnswers DEF Ok, Refuse
<1> QED BY <1>1, <1>2, <1>3, <1>4, CreateProjectKeeps, StageKeeps, EngineerKeeps, NoteKeeps
       DEF ProjNext

(* The inductive invariant of the projects: rows and copies have the dates *)
(* of their stage, and a copy the template of its row.                     *)
LEMMA ProjInvHolds == ProjSpec => []ProjInv
<1> QED BY ProjStarts, ProjStep, PTL DEF ProjSpec

(* Stages, milestones and updates are backed, for any projects and         *)
(* overlapping changes (UpdateProjectStatus, AssignEngineer).              *)
THEOREM StagesHold == ProjSpec => []StagesAreBacked
<1>1. ProjInv => StagesAreBacked
  BY DEF ProjInv, RowsGoTogether, Dated, Templated, StagesAreBacked
<1> QED BY <1>1, ProjInvHolds, PTL

-----------------------------------------------------------------------------
(* The scheduler of flows. *)

PlanAsks ==
    [op : {"plan"}, bad : BOOLEAN, flow : FlowsOfSchedules, cron : [1 .. 5 -> STRING]]
      \cup [op : {"unplan"}, bad : BOOLEAN, flow : FlowsOfSchedules]
      \cup [op : {"stopplan"}, bad : BOOLEAN]

planVars == <<triggerVars, callVars>>

(* The scheduler, with any number of registrations and runs. *)
PlanSpec ==
    /\ CallsInit([Calls -> PlanAsks]) /\ TriggersInit
    /\ [][PlanNext]_planVars

PlanTypeOK ==
    /\ ask \in [Calls -> PlanAsks]
    /\ schedule \in [FlowsOfSchedules -> ScheduleIds \cup {None}]
    /\ due \in [ScheduleIds -> Nat]
    /\ ticks \in Nat

(* A run of a trigger that has begun, and ended or not, by now. *)
IsRun(f) ==
    /\ f = [trigger |-> f.trigger, number |-> f.number, begin |-> f.begin, end |-> f.end]
    /\ f.trigger \in ScheduleIds /\ f.begin \in Nat /\ f.begin <= ticks
    /\ f.end # None => f.end \in Nat /\ f.end <= ticks

(* A trigger is not due before an interval has passed since each of its    *)
(* runs that have ended, in whatever order they did.                       *)
DueAfterRuns ==
    \A f \in firings : f.end # None => due[f.trigger] >= f.end + Interval(f.trigger)

PlanInv ==
    /\ PlanTypeOK /\ DueAfterRuns /\ RunsKeepTheirDistance
    /\ \A f \in firings : IsRun(f)

(* An expression always stands for an interval. *)
LEMMA ParsedIsInterval == \A cron : ParseCronToInterval(cron) \in Intervals
  BY DEF ParseCronToInterval, Intervals

LEMMA IntervalIsNat == \A x : Interval(x) \in Nat
  BY ParsedIsInterval, LengthAssumption DEF Interval

LEMMA PlanStarts == CallsInit([Calls -> PlanAsks]) /\ TriggersInit => PlanInv
<1> SUFFICES ASSUME CallsInit([Calls -> PlanAsks]), TriggersInit PROVE PlanInv
  OBVIOUS
<1>1. /\ ask \in [Calls -> PlanAsks] /\ firings = {} /\ ticks = 0
  BY DEF CallsInit, TriggersInit
<1>2. schedule \in [FlowsOfSchedules -> ScheduleIds \cup {None}]
  <2>1. ASSUME NEW f \in FlowsOfSchedules
        PROVE  (CHOOSE x \in DOMAIN FirstSchedules : FirstSchedules[x].flow = f) \in ScheduleIds
    <3>1. \E x \in DOMAIN FirstSchedules : FirstSchedules[x].flow = f
      BY DEF FlowsOfSchedules
    <3> QED BY <3>1 DEF ScheduleIds
  <2> QED BY <2>1 DEF TriggersInit
<1>3. due \in [ScheduleIds -> Nat]
  BY ParsedIsInterval, LengthAssumption DEF TriggersInit
<1> QED BY <1>1, <1>2, <1>3 DEF PlanInv, PlanTypeOK, DueAfterRuns, RunsKeepTheirDistance

(* Schedules change, and triggers become due later; no run changes. *)
LEMMA PlansMove ==
    ASSUME PlanInv, ask' = ask, firings' = firings, ticks' = ticks,
           schedule' \in [FlowsOfSchedules -> ScheduleIds \cup {None}],
           due' \in [ScheduleIds -> Nat],
           \A x \in ScheduleIds : due'[x] = due[x] \/ due'[x] = ticks + Interval(x)
    PROVE  PlanInv'
<1>1. \A x : Interval(x)' = Interval(x)
  BY DEF Interval
<1>2. DueAfterRuns'
  <2> SUFFICES ASSUME NEW f \in firings, f.end # None
               PROVE  due'[f.trigger] >= f.end + Interval(f.trigger)
    BY <1>1 DEF DueAfterRuns
  <2>1. /\ f.trigger \in ScheduleIds /\ f.end \in Nat /\ f.end <= ticks /\ ticks \in Nat
        /\ due[f.trigger] >= f.end + Interval(f.trigger)
    BY DEF PlanInv, PlanTypeOK, IsRun, DueAfterRuns
  <2>2. Interval(f.trigger) \in Nat
    BY IntervalIsNat
  <2> QED BY <2>1, <2>2
<1>3. PlanTypeOK' /\ RunsKeepTheirDistance'
  BY <1>1 DEF PlanInv, PlanTypeOK, RunsKeepTheirDistance
<1>4. \A f \in firings' : IsRun(f)'
  BY DEF PlanInv, IsRun
<1> QED BY <1>2, <1>3, <1>4 DEF PlanInv

(* checkTriggers: a run begins when its trigger is due. *)
LEMMA TickKeeps == PlanInv /\ CheckTriggers => PlanInv'
<1> SUFFICES ASSUME PlanInv, CheckTriggers PROVE PlanInv'
  OBVIOUS
<1> DEFINE Begun(f) == [trigger |-> schedule[f], number |-> Number(schedule[f]) + 1,
                        begin |-> ticks + 1, end |-> None]
           Ripe == {g \in FlowsOfSchedules : schedule[g] # None /\ ticks + 1 >= due[schedule[g]]}
<1>1. /\ ticks' = ticks + 1 /\ ask' = ask /\ schedule' = schedule /\ due' = due
      /\ firings' = firings \cup {Begun(f) : f \in Ripe}
  BY DEF CheckTriggers, callVars
<1>2. ticks \in Nat /\ due \in [ScheduleIds -> Nat]
  BY DEF PlanInv, PlanTypeOK
<1>3. \A x : Interval(x)' = Interval(x)
  BY <1>1 DEF Interval
<1>4. ASSUME NEW g \in firings' \ firings
      PROVE  /\ g = [trigger |-> g.trigger, number |-> g.number, begin |-> g.begin, end |-> g.end]
             /\ g.trigger \in ScheduleIds /\ g.begin = ticks + 1 /\ g.end = None
             /\ due[g.trigger] <= ticks + 1
  <2>1. PICK f \in Ripe : g = Begun(f)
    BY <1>1
  <2>2. PICK x, n : x = schedule[f] /\ n = Number(x) + 1
    OBVIOUS
  <2>3. x \in ScheduleIds /\ ticks + 1 >= due[x] /\ due[x] \in Nat
    BY <2>1, <2>2, <1>2 DEF PlanInv, PlanTypeOK
  <2>4. g = [trigger |-> x, number |-> n, begin |-> ticks + 1, end |-> None]
    BY <2>1, <2>2
  <2> QED BY <1>2, <2>3, <2>4
<1> HIDE DEF Begun, Ripe
<1>5. firings \subseteq firings'
  BY <1>1
<1>6. \A f \in firings' : IsRun(f)'
  <2> SUFFICES ASSUME NEW f \in firings' PROVE IsRun(f)'
    OBVIOUS
  <2>1. CASE f \in firings
    <3>1. IsRun(f)
      BY <2>1 DEF PlanInv
    <3> QED BY <1>1, <1>2, <3>1 DEF IsRun
  <2>2. CASE f \notin firings
    <3> HIDE DEF IsRun
    <3>1. ticks + 1 \in Nat /\ ticks + 1 <= ticks'
      BY <1>1, <1>2
    <3> QED BY <1>4, <2>2, <3>1 DEF IsRun
  <2> QED BY <2>1, <2>2
<1>7. DueAfterRuns'
  <2> SUFFICES ASSUME NEW f \in firings', f.end # None
               PROVE  due[f.trigger] >= f.end + Interval(f.trigger)
    BY <1>1, <1>3 DEF DueAfterRuns
  <2>1. f \in firings
    BY <1>4
  <2> QED BY <2>1 DEF PlanInv, DueAfterRuns
<1>8. RunsKeepTheirDistance'
  <2> SUFFICES ASSUME NEW f \in firings', NEW g \in firings', f.trigger = g.trigger,
                      f.number # g.number, f.end # None, f.end < g.begin
               PROVE  g.begin >= f.end + Interval(f.trigger)
    BY <1>3 DEF RunsKeepTheirDistance
  <2>1. f \in firings
    BY <1>4
  <2>2. CASE g \in firings
    BY <2>1, <2>2 DEF PlanInv, RunsKeepTheirDistance
  <2>3. CASE g \notin firings
    <3>1. g.begin = ticks + 1 /\ due[f.trigger] <= ticks + 1
      BY <1>4, <2>3
    <3>2. due[f.trigger] >= f.end + Interval(f.trigger)
      BY <2>1 DEF PlanInv, DueAfterRuns
    <3>3. f.end \in Nat /\ Interval(f.trigger) \in Nat /\ due[f.trigger] \in Nat
      BY <1>2, <2>1, IntervalIsNat DEF PlanInv, IsRun
    <3> QED BY <1>2, <3>1, <3>2, <3>3
  <2> QED BY <2>2, <2>3
<1>9. PlanTypeOK'
  BY <1>1, <1>2 DEF PlanInv, PlanTypeOK
<1> QED BY <1>6, <1>7, <1>8, <1>9 DEF PlanInv

(* A handler returns: the next run is an interval away. *)
LEMMA ReturnKeeps == PlanInv /\ HandlerReturns => PlanInv'
<1> SUFFICES ASSUME PlanInv, HandlerReturns PROVE PlanInv'
  OBVIOUS
<1>1. PICK f \in firings :
        /\ f.end = None
        /\ firings' = (firings \ {f}) \cup {[f EXCEPT !.end = ticks]}
        /\ due' = [due EXCEPT ![f.trigger] = ticks + Interval(f.trigger)]
  BY DEF HandlerReturns, UpdateAfterRun
<1>2. ask' = ask /\ schedule' = schedule /\ ticks' = ticks
  BY DEF HandlerReturns, callVars
<1>3. ticks \in Nat /\ due \in [ScheduleIds -> Nat] /\ IsRun(f)
  BY DEF PlanInv, PlanTypeOK
<1>4. \A x : Interval(x)' = Interval(x)
  BY <1>2 DEF Interval
<1>5. PICK h : h = [f EXCEPT !.end = ticks]
  OBVIOUS
<1>6. h = [trigger |-> f.trigger, number |-> f.number, begin |-> f.begin, end |-> ticks]
  BY <1>3, <1>5 DEF IsRun
<1>7. IsRun(h) /\ h.trigger = f.trigger /\ h.begin = f.begin /\ h.end = ticks
  BY <1>3, <1>6 DEF IsRun
<1>8. \A g \in firings' : IsRun(g) /\ (g \in firings \/ g = h)
  BY <1>1, <1>5, <1>7 DEF PlanInv
<1>9. due' \in [ScheduleIds -> Nat]
  <2>1. PICK n : n = ticks + Interval(f.trigger)
    OBVIOUS
  <2>2. Interval(f.trigger) \in Nat
    BY IntervalIsNat
  <2>3. n \in Nat
    BY <1>3, <2>1, <2>2
  <2> QED BY <1>1, <1>3, <2>1, <2>3
<1>10. DueAfterRuns'
  <2> SUFFICES ASSUME NEW g \in firings', g.end # None
               PROVE  due'[g.trigger] >= g.end + Interval(g.trigger)
    BY <1>4 DEF DueAfterRuns
  <2>1. /\ g.trigger \in ScheduleIds /\ g.end \in Nat /\ g.end <= ticks
        /\ Interval(g.trigger) \in Nat /\ due[g.trigger] \in Nat
    BY <1>3, <1>8, IntervalIsNat DEF IsRun
  <2>2. CASE g.trigger = f.trigger
    <3>1. due'[g.trigger] = ticks + Interval(g.trigger)
      BY <1>1, <1>3, <2>1, <2>2
    <3> QED BY <1>3, <2>1, <3>1
  <2>3. CASE g.trigger # f.trigger
    <3>1. g \in firings /\ due'[g.trigger] = due[g.trigger]
      BY <1>1, <1>3, <1>7, <1>8, <2>1, <2>3
    <3> QED BY <3>1 DEF PlanInv, DueAfterRuns
  <2> QED BY <2>2, <2>3
<1>11. RunsKeepTheirDistance'
  <2> SUFFICES ASSUME NEW e \in firings', NEW g \in firings', e.trigger = g.trigger,
                      e.number # g.number, e.end # None, e.end < g.begin
               PROVE  g.begin >= e.end + Interval(e.trigger)
    BY <1>4 DEF RunsKeepTheirDistance
  <2>1. PICK k \in firings : k.trigger = g.trigger /\ k.number = g.number /\ k.begin = g.begin
    BY <1>6, <1>7, <1>8
  <2>2. g.begin <= ticks /\ g.begin \in Nat
    BY <1>8 DEF IsRun
  <2>3. e # h
    BY <1>3, <1>7, <2>2
  <2>4. e \in firings
    BY <1>8, <2>3
  <2> QED BY <2>1, <2>4 DEF PlanInv, RunsKeepTheirDistance
<1>12. \A g \in firings' : IsRun(g)'
  BY <1>2, <1>8 DEF IsRun
<1>13. PlanTypeOK'
  BY <1>2, <1>9 DEF PlanInv, PlanTypeOK
<1> QED BY <1>10, <1>11, <1>12, <1>13 DEF PlanInv

LEMMA PlanStep == PlanInv /\ [PlanNext]_planVars => PlanInv'
<1> SUFFICES ASSUME PlanInv, [PlanNext]_planVars PROVE PlanInv'
  OBVIOUS
<1>1. /\ schedule \in [FlowsOfSchedules -> ScheduleIds \cup {None}]
      /\ due \in [ScheduleIds -> Nat] /\ ticks \in Nat
      /\ \A c \in Calls : ask[c].op \in {"plan", "unplan"} => ask[c].flow \in FlowsOfSchedules
      /\ \A c \in Calls : c \in ScheduleIds
  BY DEF PlanInv, PlanTypeOK, PlanAsks, ScheduleIds
<1>2. CASE UNCHANGED planVars
  BY <1>1, <1>2, PlansMove DEF planVars, triggerVars, callVars
<1>3. ASSUME NEW c \in Calls, Malformed(c), UNCHANGED triggerVars PROVE PlanInv'
  BY <1>1, <1>3, PlansMove DEF triggerVars, Malformed, Refuse, Answer
<1>4. ASSUME NEW c \in Calls, RegisterSchedule(c) PROVE PlanInv'
  <2>1. /\ schedule' = [schedule EXCEPT ![ask[c].flow] = c]
        /\ due' = [due EXCEPT ![c] = ticks + Interval(c)]
        /\ ask' = ask /\ firings' = firings /\ ticks' = ticks
    BY <1>4 DEF RegisterSchedule, Ok, Answer
  <2>2. due' \in [ScheduleIds -> Nat]
    BY <1>1, <2>1, IntervalIsNat
  <2>3. ask[c].flow \in FlowsOfSchedules
    BY <1>1, <1>4 DEF RegisterSchedule, Begins, Serving
  <2> QED BY <1>1, <2>1, <2>2, <2>3, PlansMove
<1>5. ASSUME NEW c \in Calls, UnregisterSchedule(c) PROVE PlanInv'
  BY <1>1, <1>5, PlansMove DEF UnregisterSchedule, Begins, Serving, Ok, Answer
<1>6. ASSUME NEW c \in Calls, StopScheduler(c) PROVE PlanInv'
  BY <1>1, <1>6, PlansMove DEF StopScheduler, Ok, Answer
<1> QED BY <1>2, <1>3, <1>4, <1>5, <1>6, TickKeeps, ReturnKeeps DEF PlanNext

(* Runs of a trigger keep their distance, for any schedules, intervals and *)
(* registrations, and however long the handlers take (checkTriggers,       *)
(* UpdateAfterRun).                                                        *)
THEOREM DistancesHold == PlanSpec => []RunsKeepTheirDistance
<1>1. PlanInv => RunsKeepTheirDistance
  BY DEF PlanInv
<1> QED BY <1>1, PlanStarts, PlanStep, PTL DEF PlanSpec

-----------------------------------------------------------------------------
(* The servers of the ledger *)

Items == [ref : STRING, zone : STRING, sound : BOOLEAN]
ItemResults == Seq({"recorded", "error"})

ApiAsks ==
    [op : {"openaccount"}, bad : BOOLEAN]
      \cup [op : {"account"}, bad : BOOLEAN, via : {"http", "grpc"}, id : STRING]
      \cup [op : {"record"}, bad : BOOLEAN, items : {s \in Seq(Items) : Len(s) = 1}]
      \cup [op : {"bulk"}, bad : BOOLEAN, via : {"http", "grpc"}, zone : STRING, items : Seq(Items)]
      \cup [op : {"transactions"}, bad : BOOLEAN, zone : STRING, limit : Int]
      \cup [op : {"transaction"}, bad : BOOLEAN, ref : STRING]

apiAllVars == <<apiVars, callVars>>

(* The servers of the ledger, with any number of requests and items. *)
ApiSpec ==
    /\ CallsInit([Calls -> ApiAsks]) /\ ApiInit
    /\ [][ApiNext]_apiAllVars

BookRows == [ref : STRING, zone : STRING, by : Calls, item : Nat \ {0}]

(* A reference is in the book once. *)
RefsOnce == \A m, n \in DOMAIN recorded : recorded[m].ref = recorded[n].ref => m = n

ApiTypeOK ==
    /\ ask \in [Calls -> ApiAsks]
    /\ DOMAIN at = Calls /\ DOMAIN held = Calls /\ DOMAIN reply = Calls
    /\ at = [c \in Calls |-> at[c]] /\ held = [c \in Calls |-> held[c]]
    /\ reply = [c \in Calls |-> reply[c]]
    /\ recorded \in Seq(BookRows)

(* A row that call c recorded for one of the items it has results for. *)
OfItem(row, c, results) ==
    /\ row.item \in DOMAIN results
    /\ ask[c].items[row.item].sound /\ ask[c].items[row.item].ref = row.ref
    /\ ask[c].op = "bulk" => row.zone = ZoneOfBulk(c)

(* These results account for what call c has recorded, and those that say  *)
(* so are in the book.                                                     *)
Accounts(c, results) ==
    /\ results \in ItemResults
    /\ Len(results) <= Len(ask[c].items)
    /\ \A n \in DOMAIN results : results[n] = "recorded" => Known(ask[c].items[n].ref)
    /\ \A m \in DOMAIN recorded : recorded[m].by = c => OfItem(recorded[m], c, results)

(* What a call knows at label l, when it keeps h and has been answered r. *)
ApiKnows(c, l, h, r) ==
    /\ l = "start" => h = None
    /\ l # "done" => r = "none"
    /\ l = "each" => h # None /\ ask[c].op = "bulk"
    /\ (h = None \/ ask[c].op \notin {"record", "bulk"}) =>
         \A m \in DOMAIN recorded : recorded[m].by # c
    /\ ask[c].op \in {"record", "bulk"} /\ h # None =>
         /\ h = [results |-> h.results, rows |-> <<>>] /\ Accounts(c, h.results)
         /\ ask[c].op = "bulk" /\ r = "ok" => Len(h.results) = Len(ask[c].items)

CallsKnow == \A c \in Calls : ApiKnows(c, at[c], held[c], reply[c])

ApiInv == ApiTypeOK /\ RefsOnce /\ CallsKnow

LEMMA ApiStarts == CallsInit([Calls -> ApiAsks]) /\ ApiInit => ApiInv
<1> SUFFICES ASSUME CallsInit([Calls -> ApiAsks]), ApiInit PROVE ApiInv
  OBVIOUS
<1>1. /\ ask \in [Calls -> ApiAsks] /\ at = [c \in Calls |-> "start"]
      /\ held = [c \in Calls |-> None] /\ reply = [c \in Calls |-> "none"]
      /\ recorded = <<>>
  BY DEF CallsInit, ApiInit
<1>2. ApiTypeOK
  BY <1>1 DEF ApiTypeOK
<1>3. RefsOnce
  BY <1>1 DEF RefsOnce
<1>4. CallsKnow
  BY <1>1 DEF CallsKnow, ApiKnows
<1> QED BY <1>2, <1>3, <1>4 DEF ApiInv

(* A report of results is one, and no nil. *)
LEMMA ReportIsReport ==
    ASSUME NEW results \in ItemResults, NEW h, h = Report(results, <<>>)
    PROVE  h = [results |-> results, rows |-> <<>>] /\ h.results = results /\ h # None
<1>1. h = [results |-> results, rows |-> <<>>]
  BY DEF Report
<1>2. PICK rows \in Seq(STRING) : rows = <<>>
  <2>1. <<>> \in Seq(STRING)
    OBVIOUS
  <2> QED BY <2>1, Zenon
<1>3. h \in Reports
  <2>1. h = [results |-> results, rows |-> rows]
    BY <1>1, <1>2
  <2> QED BY <2>1 DEF Reports, ItemResults
<1> QED BY <1>1, <1>3, ApiAssumption

(* One more result. *)
LEMMA OneMoreResult ==
    ASSUME NEW done \in ItemResults, NEW result \in {"recorded", "error"},
           NEW results, results = Append(done, result), NEW n, n = Len(done) + 1
    PROVE  /\ results \in ItemResults /\ Len(results) = n /\ n \in Nat \ {0}
           /\ \A k \in DOMAIN done : k \in DOMAIN results /\ results[k] = done[k]
           /\ n \in DOMAIN results /\ results[n] = result
           /\ \A k \in DOMAIN results : k \in DOMAIN done \/ k = n
<1>1. Len(done) \in Nat /\ DOMAIN done = 1 .. Len(done)
  BY DEF ItemResults
<1>2. results \in ItemResults /\ Len(results) = n
  BY DEF ItemResults
<1>3. DOMAIN results = 1 .. n
  BY <1>2 DEF ItemResults
<1>4. \A k \in 1 .. Len(done) : results[k] = done[k]
  BY DEF ItemResults
<1>5. results[n] = result
  BY DEF ItemResults
<1> QED BY <1>1, <1>2, <1>3, <1>4, <1>5

(* The row of item n of call c. *)
RowOf(c, n, item, zone) == [ref |-> item.ref, zone |-> zone, by |-> c, item |-> n]

(* RecordItem adds at most one row, that of its item, under a reference    *)
(* that is new; when it says so the reference is in the book.              *)
LEMMA ItemIsRecorded ==
    ASSUME ApiInv, NEW c \in Calls, NEW n \in Nat \ {0}, NEW item \in Items, NEW zone \in STRING,
           NEW result \in {"recorded", "error"}, RecordItem(c, n, item, zone, result)
    PROVE  /\ recorded' \in Seq(BookRows) /\ RefsOnce'
           /\ DOMAIN recorded \subseteq DOMAIN recorded'
           /\ \A m \in DOMAIN recorded : recorded'[m] = recorded[m]
           /\ \A m \in DOMAIN recorded' \ DOMAIN recorded :
                item.sound /\ recorded'[m] = RowOf(c, n, item, zone)
           /\ result = "recorded" => Known(item.ref)'
<1>1. recorded \in Seq(BookRows) /\ RefsOnce
  BY DEF ApiInv, ApiTypeOK
<1>2. CASE UNCHANGED recorded /\ (result = "recorded" => Known(item.ref))
  BY <1>1, <1>2 DEF RefsOnce, Known
<1>3. CASE /\ ~Known(item.ref) /\ item.sound
           /\ recorded' = Append(recorded, RowOf(c, n, item, zone))
  <2>1. PICK row : row = RowOf(c, n, item, zone)
    OBVIOUS
  <2>2. row \in BookRows /\ row.ref = item.ref /\ row.by = c /\ row.item = n
    BY <2>1 DEF BookRows, Items, RowOf
  <2>3. /\ recorded' \in Seq(BookRows) /\ DOMAIN recorded' = 1 .. (Len(recorded) + 1)
        /\ DOMAIN recorded = 1 .. Len(recorded) /\ Len(recorded) \in Nat
        /\ \A m \in 1 .. Len(recorded) : recorded'[m] = recorded[m]
        /\ recorded'[Len(recorded) + 1] = row
    BY <1>1, <1>3, <2>1, <2>2
  <2>4. \A m \in 1 .. (Len(recorded) + 1) : m \in 1 .. Len(recorded) \/ m = Len(recorded) + 1
    BY <2>3
  <2>5. \A m \in 1 .. Len(recorded) : m \in 1 .. (Len(recorded) + 1) /\ m # Len(recorded) + 1
    BY <2>3
  <2>6. Len(recorded) + 1 \in 1 .. (Len(recorded) + 1)
    BY <2>3
  <2>7. \A m \in 1 .. Len(recorded) : recorded[m].ref # item.ref
    BY <1>3, <2>3 DEF Known
  <2>8. RefsOnce'
    BY <1>1, <2>2, <2>3, <2>4, <2>7 DEF RefsOnce
  <2>9. Known(item.ref)'
    BY <2>2, <2>3, <2>6 DEF Known
  <2> QED BY <1>3, <2>1, <2>3, <2>4, <2>5, <2>8, <2>9
<1> QED BY <1>2, <1>3 DEF RecordItem, RowOf

(* What a call knows stays true when others record. *)
LEMMA ApiKnowsStays ==
    ASSUME NEW c \in Calls, NEW l, NEW h, NEW r, ApiKnows(c, l, h, r), ask' = ask,
           DOMAIN recorded \subseteq DOMAIN recorded',
           \A m \in DOMAIN recorded : recorded'[m] = recorded[m],
           \A m \in DOMAIN recorded' \ DOMAIN recorded : recorded'[m].by # c
    PROVE  ApiKnows(c, l, h, r)'
<1>1. \A m \in DOMAIN recorded' :
        recorded'[m].by = c => m \in DOMAIN recorded /\ recorded'[m] = recorded[m]
  OBVIOUS
<1>2. \A ref : Known(ref) => Known(ref)'
  BY DEF Known
<1>3. \A results : Accounts(c, results) => Accounts(c, results)'
  <2> SUFFICES ASSUME NEW results, Accounts(c, results) PROVE Accounts(c, results)'
    OBVIOUS
  <2>1. PICK items : items = ask[c].items
    OBVIOUS
  <2>2. \A n \in DOMAIN results : results[n] = "recorded" => Known(items[n].ref)'
    BY <1>2, <2>1 DEF Accounts
  <2>3. \A m \in DOMAIN recorded' : recorded'[m].by = c => OfItem(recorded'[m], c, results)
    BY <1>1 DEF Accounts
  <2> QED BY <2>1, <2>2, <2>3 DEF Accounts, Known, OfItem, ZoneOfBulk
<1> QED BY <1>1, <1>3 DEF ApiKnows

(* One call moves; the others keep what they know. *)
LEMMA ApiMoves ==
    ASSUME ApiInv, NEW c \in Calls, NEW l, NEW h, NEW r, ask' = ask,
           at' = [at EXCEPT ![c] = l], held' = [held EXCEPT ![c] = h],
           reply' = [reply EXCEPT ![c] = r],
           recorded' \in Seq(BookRows), RefsOnce', DOMAIN recorded \subseteq DOMAIN recorded',
           \A m \in DOMAIN recorded : recorded'[m] = recorded[m],
           \A m \in DOMAIN recorded' \ DOMAIN recorded : recorded'[m].by = c,
           ApiKnows(c, l, h, r)'
    PROVE  ApiInv'
<1>1. /\ DOMAIN at = Calls /\ DOMAIN held = Calls /\ DOMAIN reply = Calls
      /\ ask \in [Calls -> ApiAsks]
  BY DEF ApiInv, ApiTypeOK
<1>2. ApiTypeOK'
  BY <1>1 DEF ApiTypeOK
<1>3. /\ at'[c] = l /\ held'[c] = h /\ reply'[c] = r
      /\ \A d \in Calls : d # c => at'[d] = at[d] /\ held'[d] = held[d] /\ reply'[d] = reply[d]
  BY <1>1
<1>4. CallsKnow'
  <2> SUFFICES ASSUME NEW d \in Calls PROVE ApiKnows(d, at[d], held[d], reply[d])'
    BY DEF CallsKnow
  <2>1. PICK l1, h1, r1 : l1 = at'[d] /\ h1 = held'[d] /\ r1 = reply'[d]
    OBVIOUS
  <2>2. ApiKnows(d, l1, h1, r1)'
    <3>1. CASE d = c
      BY <1>3, <2>1, <3>1
    <3>2. CASE d # c
      <4>1. ApiKnows(d, l1, h1, r1)
        BY <1>3, <2>1, <3>2 DEF ApiInv, CallsKnow
      <4> QED BY <3>2, <4>1, ApiKnowsStays
    <3> QED BY <3>1, <3>2
  <2> QED BY <2>1, <2>2 DEF ApiKnows, Accounts, OfItem, ZoneOfBulk, Known
<1> QED BY <1>2, <1>4 DEF ApiInv

(* The same for a step that leaves the book alone. *)
LEMMA ApiAside ==
    ASSUME ApiInv, NEW c \in Calls, NEW l, NEW h, NEW r, ask' = ask,
           at' = [at EXCEPT ![c] = l], held' = [held EXCEPT ![c] = h],
           reply' = [reply EXCEPT ![c] = r], recorded' = recorded, ApiKnows(c, l, h, r)
    PROVE  ApiInv'
<1>1. /\ recorded' \in Seq(BookRows) /\ RefsOnce'
  BY DEF ApiInv, ApiTypeOK, RefsOnce
<1>2. ApiKnows(c, l, h, r)'
  BY ApiKnowsStays
<1> QED BY <1>1, <1>2, ApiMoves

(* A call is answered, and its bulk, if it is one, is not the reason. *)
LEMMA ApiAnswers ==
    ASSUME ApiInv, NEW c \in Calls, Refuse(c) \/ Ok(c), recorded' = recorded,
           Ok(c) /\ held[c] # None => ask[c].op # "bulk"
    PROVE  ApiInv'
<1>1. PICK h, r : h = held[c] /\ r = reply'[c]
  OBVIOUS
<1>2. /\ ask' = ask /\ at' = [at EXCEPT ![c] = "done"] /\ held' = [held EXCEPT ![c] = h]
      /\ reply' = [reply EXCEPT ![c] = r]
      /\ (r = "refused" \/ Ok(c)) /\ r \in {"ok", "refused"}
  BY <1>1 DEF Refuse, Ok, Answer, ApiInv, ApiTypeOK
<1>3. ApiKnows(c, at[c], h, reply[c])
  BY <1>1 DEF ApiInv, CallsKnow
<1>4. ApiKnows(c, "done", h, r)
  BY <1>1, <1>2, <1>3 DEF ApiKnows
<1> QED BY <1>2, <1>4, ApiAside

(* An item has been recorded, or not, and has its result: what call c has  *)
(* recorded is still accounted for.                                        *)
LEMMA OneMoreAccounted ==
    ASSUME ApiInv, NEW c \in Calls, ask[c].op \in {"record", "bulk"}, ask' = ask,
           ask[c].items \in Seq(Items),
           NEW done, Accounts(c, done), NEW n, n = Len(done) + 1, n \in DOMAIN ask[c].items,
           NEW zone \in STRING, ask[c].op = "bulk" => zone = ZoneOfBulk(c),
           NEW result \in {"recorded", "error"},
           RecordItem(c, n, ask[c].items[n], zone, result)
    PROVE  /\ recorded' \in Seq(BookRows) /\ RefsOnce'
           /\ DOMAIN recorded \subseteq DOMAIN recorded'
           /\ \A m \in DOMAIN recorded : recorded'[m] = recorded[m]
           /\ \A m \in DOMAIN recorded' \ DOMAIN recorded : recorded'[m].by = c
           /\ Append(done, result) \in ItemResults
           /\ Accounts(c, Append(done, result))'
<1>1. PICK items, item, results :
        items = ask[c].items /\ item = items[n] /\ results = Append(done, result)
  OBVIOUS
<1>2. done \in ItemResults /\ Len(done) \in Nat /\ n \in Nat \ {0} /\ n <= Len(items)
      /\ item \in Items
  BY <1>1 DEF Accounts, ItemResults
<1>3. /\ recorded' \in Seq(BookRows) /\ RefsOnce' /\ DOMAIN recorded \subseteq DOMAIN recorded'
      /\ \A m \in DOMAIN recorded : recorded'[m] = recorded[m]
      /\ \A m \in DOMAIN recorded' \ DOMAIN recorded :
           item.sound /\ recorded'[m] = RowOf(c, n, item, zone)
      /\ result = "recorded" => Known(item.ref)'
  BY <1>1, <1>2, ItemIsRecorded
<1>4. /\ results \in ItemResults /\ Len(results) = n
      /\ \A k \in DOMAIN done : k \in DOMAIN results /\ results[k] = done[k]
      /\ n \in DOMAIN results /\ results[n] = result
      /\ \A k \in DOMAIN results : k \in DOMAIN done \/ k = n
  BY <1>1, <1>2, OneMoreResult DEF ItemResults
<1>5. \A m \in DOMAIN recorded' \ DOMAIN recorded : recorded'[m].by = c
  BY <1>3 DEF RowOf
<1>6. ASSUME NEW m \in DOMAIN recorded', recorded'[m].by = c
      PROVE  OfItem(recorded'[m], c, results)
  <2>1. CASE m \in DOMAIN recorded
    <3>1. OfItem(recorded[m], c, done) /\ recorded'[m] = recorded[m]
      BY <1>3, <1>6, <2>1 DEF Accounts
    <3> QED BY <1>4, <3>1 DEF OfItem
  <2>2. CASE m \notin DOMAIN recorded
    <3>1. PICK row : row = recorded'[m] /\ row = RowOf(c, n, item, zone)
      BY <1>3, <1>6, <2>2
    <3>2. row.item = n /\ row.ref = item.ref /\ row.zone = zone
      BY <3>1 DEF RowOf
    <3>3. item.sound
      BY <1>3, <1>6, <2>2
    <3>4. OfItem(row, c, results)
      BY <1>1, <1>4, <3>2, <3>3 DEF OfItem
    <3> QED BY <3>1, <3>4
  <2> QED BY <2>1, <2>2
<1>7. ASSUME NEW k \in DOMAIN results, results[k] = "recorded"
      PROVE  \E m \in DOMAIN recorded' : recorded'[m].ref = items[k].ref
  <2>1. CASE k \in DOMAIN done
    <3>1. done[k] = "recorded"
      BY <1>4, <1>7, <2>1
    <3>2. PICK m \in DOMAIN recorded : recorded[m].ref = items[k].ref
      BY <1>1, <2>1, <3>1 DEF Accounts, Known
    <3> QED BY <1>3, <3>2
  <2>2. CASE k = n
    BY <1>1, <1>3, <1>4, <1>7, <2>2 DEF Known
  <2> QED BY <1>4, <2>1, <2>2
<1>8. Accounts(c, results)'
  <2>1. \A m \in DOMAIN recorded' : recorded'[m].by = c => OfItem(recorded[m], c, results)'
    BY <1>6 DEF OfItem, ZoneOfBulk
  <2> QED BY <1>1, <1>2, <1>4, <1>7, <2>1 DEF Accounts, Known
<1> QED BY <1>1, <1>3, <1>4, <1>5, <1>8

(* Before its first item a call accounts for nothing. *)
LEMMA NothingYet ==
    ASSUME ApiInv, NEW c \in Calls, at[c] = "start", ask[c].op \in {"record", "bulk"},
           NEW done, done = <<>>
    PROVE  /\ Accounts(c, done) /\ done \in ItemResults /\ Len(done) = 0 /\ reply[c] = "none"
           /\ ask[c].items \in Seq(Items)
<1>1. done \in ItemResults /\ Len(done) = 0 /\ DOMAIN done = {}
  BY DEF ItemResults
<1>2. (\A m \in DOMAIN recorded : recorded[m].by # c) /\ reply[c] = "none"
  BY DEF ApiInv, CallsKnow, ApiKnows
<1>3. ask[c].items \in Seq(Items)
  BY DEF ApiInv, ApiTypeOK, ApiAsks
<1> QED BY <1>1, <1>2, <1>3 DEF Accounts

(* Item n of call c comes next and gets this result; what the step leaves. *)
ItemDue(c, done, n, zone, result) ==
    /\ c \in Calls /\ ask[c].op \in {"record", "bulk"} /\ ask' = ask
    /\ ask[c].items \in Seq(Items) /\ Accounts(c, done)
    /\ n = Len(done) + 1 /\ n \in DOMAIN ask[c].items
    /\ zone \in STRING /\ (ask[c].op = "bulk" => zone = ZoneOfBulk(c))
    /\ result \in {"recorded", "error"}
    /\ RecordItem(c, n, ask[c].items[n], zone, result)

ItemDone(c, results) ==
    /\ recorded' \in Seq(BookRows) /\ RefsOnce' /\ DOMAIN recorded \subseteq DOMAIN recorded'
    /\ \A m \in DOMAIN recorded : recorded'[m] = recorded[m]
    /\ \A m \in DOMAIN recorded' \ DOMAIN recorded : recorded'[m].by = c
    /\ results \in ItemResults /\ Accounts(c, results)'

LEMMA ItemIsDone ==
    ASSUME ApiInv, NEW c, NEW done, NEW n, NEW zone, NEW result,
           ItemDue(c, done, n, zone, result)
    PROVE  ItemDone(c, Append(done, result))
  BY OneMoreAccounted DEF ItemDue, ItemDone

(* POST /transactions *)
LEMMA RecordKeeps ==
    ASSUME ApiInv, NEW c \in Calls, RecordOverHTTP(c)
    PROVE  ApiInv'
<1>1. CASE Begins(c, "record")
  <2>1. at[c] = "start" /\ ask[c].op = "record"
    BY <1>1 DEF Begins, Serving
  <2>2. PICK items, item, zone, done :
          items = ask[c].items /\ item = items[1] /\ zone = item.zone /\ done = <<>>
    OBVIOUS
  <2>3. PICK result \in {"recorded", "error"} :
          /\ RecordItem(c, 1, item, zone, result)
          /\ held' = [held EXCEPT ![c] = Report(<<result>>, <<>>)]
    BY <1>1, <2>1, <2>2 DEF RecordOverHTTP, Hold, Serving
  <2>4. PICK results, h : results = Append(done, result) /\ h = Report(results, <<>>)
    OBVIOUS
  <2>5. Accounts(c, done) /\ done \in ItemResults /\ Len(done) = 0 /\ reply[c] = "none"
    BY <2>1, <2>2, NothingYet
  <2>6. items \in Seq(Items) /\ Len(items) = 1 /\ 1 \in DOMAIN items /\ item \in Items
    <3>1. items \in Seq(Items) /\ Len(items) = 1
      BY <2>1, <2>2 DEF ApiInv, ApiTypeOK, ApiAsks
    <3> QED BY <2>2, <3>1
  <2>7. zone \in STRING /\ 1 = Len(done) + 1
    BY <2>2, <2>5, <2>6 DEF Items
  <2>8. results = <<result>>
    BY <2>2, <2>4
  <2>9. ask' = ask /\ at' = [at EXCEPT ![c] = "answer"] /\ held' = [held EXCEPT ![c] = h]
        /\ reply' = [reply EXCEPT ![c] = "none"]
    BY <1>1, <2>1, <2>3, <2>4, <2>5, <2>8
    DEF RecordOverHTTP, Goto, Serving, ApiInv, ApiTypeOK
  <2>10. ask[c].op \in {"record", "bulk"} /\ (ask[c].op = "bulk" => zone = ZoneOfBulk(c))
    BY <2>1
  <2>11. /\ recorded' \in Seq(BookRows) /\ RefsOnce' /\ DOMAIN recorded \subseteq DOMAIN recorded'
         /\ \A m \in DOMAIN recorded : recorded'[m] = recorded[m]
         /\ \A m \in DOMAIN recorded' \ DOMAIN recorded : recorded'[m].by = c
         /\ results \in ItemResults /\ Accounts(c, results)'
    <3>1. PICK n : n = 1
      OBVIOUS
    <3>2. /\ n = Len(done) + 1 /\ n \in DOMAIN ask[c].items /\ ask[c].items \in Seq(Items)
          /\ RecordItem(c, n, ask[c].items[n], zone, result)
      BY <2>2, <2>3, <2>6, <2>7, <3>1
    <3>3. ItemDue(c, done, n, zone, result)
      BY <2>5, <2>7, <2>9, <2>10, <3>2 DEF ItemDue
    <3>4. ItemDone(c, Append(done, result))
      BY <3>3, ItemIsDone
    <3> QED BY <2>4, <3>4 DEF ItemDone
  <2>12. h = [results |-> results, rows |-> <<>>] /\ h.results = results /\ h # None
    BY <2>4, <2>11, ReportIsReport
  <2>13. ApiKnows(c, "answer", h, "none")'
    BY <2>1, <2>9, <2>11, <2>12 DEF ApiKnows
  <2> QED BY <2>9, <2>11, <2>13, ApiMoves
<1>2. CASE Serving(c, "record", "answer")
  BY <1>2, ApiAnswers DEF RecordOverHTTP, Begins, Serving, apiVars
<1> QED BY <1>1, <1>2 DEF RecordOverHTTP

(* The next item of a bulk. *)
LEMMA NextItemKeeps ==
    ASSUME ApiInv, NEW c \in Calls, Serving(c, "bulk", "each"),
           NEW done, done = held[c].results, NEW items, items = ask[c].items,
           Len(done) + 1 <= Len(items), NEW result \in {"recorded", "error"},
           RecordItem(c, Len(done) + 1, items[Len(done) + 1], ZoneOfBulk(c), result),
           Hold(c, Report(Append(done, result), <<>>)), Goto(c, "each")
    PROVE  ApiInv'
<1>1. /\ at[c] = "each" /\ ask[c].op = "bulk" /\ held[c] # None /\ reply[c] = "none"
      /\ Accounts(c, done)
  BY DEF Serving, ApiInv, CallsKnow, ApiKnows
<1>2. done \in Seq({"recorded", "error"}) /\ Len(done) \in Nat /\ DOMAIN done = 1 .. Len(done)
  BY <1>1 DEF Accounts, ItemResults
<1>3. /\ items \in Seq(Items) /\ ask[c].via \in {"http", "grpc"} /\ ask[c].zone \in STRING
  BY <1>1 DEF ApiInv, ApiTypeOK, ApiAsks
<1>4. PICK n, item, zone : /\ n = Len(done) + 1 /\ item = items[n] /\ zone = ZoneOfBulk(c)
                           /\ RecordItem(c, n, item, zone, result)
  OBVIOUS
<1>5. n \in Nat \ {0} /\ n \in 1 .. Len(items) /\ n \notin DOMAIN done /\ Len(items) \in Nat
  BY <1>2, <1>3, <1>4
<1>6. item \in Items /\ items # <<>> /\ items[1] \in Items
  BY <1>3, <1>4, <1>5
<1>7. zone \in STRING
  BY <1>3, <1>4, <1>6 DEF ZoneOfBulk, Items
<1>8. PICK results, h : results = Append(done, result) /\ h = Report(results, <<>>)
  OBVIOUS
<1>9. ask' = ask /\ at' = [at EXCEPT ![c] = "each"]
  BY DEF Goto
<1>10. /\ recorded' \in Seq(BookRows) /\ RefsOnce' /\ DOMAIN recorded \subseteq DOMAIN recorded'
       /\ \A m \in DOMAIN recorded : recorded'[m] = recorded[m]
       /\ \A m \in DOMAIN recorded' \ DOMAIN recorded : recorded'[m].by = c
       /\ results \in ItemResults /\ Accounts(c, results)'
  <2>1. n \in DOMAIN items /\ ask[c].op \in {"record", "bulk"}
    BY <1>1, <1>3, <1>5
  <2>2. ItemDue(c, done, n, zone, result)
    BY <1>1, <1>3, <1>4, <1>7, <1>9, <2>1 DEF ItemDue
  <2>3. ItemDone(c, Append(done, result))
    BY <2>2, ItemIsDone
  <2> QED BY <1>8, <2>3 DEF ItemDone
<1>11. h = [results |-> results, rows |-> <<>>] /\ h.results = results /\ h # None
  BY <1>8, <1>10, ReportIsReport
<1>12. reply' = [reply EXCEPT ![c] = "none"] /\ held' = [held EXCEPT ![c] = h]
  BY <1>1, <1>8 DEF Goto, Hold, ApiInv, ApiTypeOK
<1>13. ApiKnows(c, "each", h, "none")'
  BY <1>1, <1>9, <1>10, <1>11 DEF ApiKnows
<1> QED BY <1>9, <1>10, <1>12, <1>13, ApiMoves

(* BulkRecordTransactions *)
LEMMA BulkKeeps ==
    ASSUME ApiInv, NEW c \in Calls, BulkRecordTransactions(c)
    PROVE  ApiInv'
<1>1. CASE Begins(c, "bulk")
  <2>1. at[c] = "start" /\ ask[c].op = "bulk" /\ recorded' = recorded
    BY <1>1 DEF BulkRecordTransactions, Begins, Serving, apiVars
  <2>2. PICK h, done : h = Report(done, <<>>) /\ done = <<>>
    OBVIOUS
  <2>3. ask' = ask /\ at' = [at EXCEPT ![c] = "each"] /\ held' = [held EXCEPT ![c] = h]
    BY <1>1, <2>1, <2>2 DEF BulkRecordTransactions, Begins, Serving, Hold, Goto
  <2>4. reply' = [reply EXCEPT ![c] = "none"]
    BY <1>1, <2>1 DEF BulkRecordTransactions, Begins, Serving, Goto, ApiInv, ApiTypeOK, CallsKnow,
                      ApiKnows
  <2>5. /\ done \in ItemResults /\ Len(done) = 0 /\ DOMAIN done = {} /\ h # None
        /\ h = [results |-> done, rows |-> <<>>] /\ h.results = done
    <3>1. done \in ItemResults /\ Len(done) = 0 /\ DOMAIN done = {}
      BY <2>2 DEF ItemResults
    <3> QED BY <2>2, <3>1, ReportIsReport
  <2>6. Accounts(c, done)
    BY <2>1, <2>2, NothingYet
  <2>7. ApiKnows(c, "each", h, "none")
    BY <2>1, <2>5, <2>6 DEF ApiKnows
  <2> QED BY <2>1, <2>3, <2>4, <2>7, ApiAside
<1>2. CASE Serving(c, "bulk", "each")
  <2>1. PICK done, items : done = held[c].results /\ items = ask[c].items
    OBVIOUS
  <2>2. CASE Len(done) + 1 > Len(items) /\ Ok(c) /\ recorded' = recorded
    <3>1. PICK h : h = held[c]
      OBVIOUS
    <3>2. ApiKnows(c, "each", h, reply[c]) /\ ask[c].op = "bulk"
      BY <1>2, <3>1 DEF ApiInv, CallsKnow, Serving
    <3>3. h # None /\ Accounts(c, done) /\ done = h.results
      BY <2>1, <3>1, <3>2 DEF ApiKnows
    <3>4. Len(done) \in Nat /\ Len(items) \in Nat /\ Len(done) <= Len(items)
      BY <2>1, <3>2, <3>3 DEF Accounts, ItemResults, ApiInv, ApiTypeOK, ApiAsks
    <3>5. Len(done) = Len(items)
      BY <2>2, <3>4
    <3>6. ApiKnows(c, "done", h, "ok")
      BY <2>1, <3>2, <3>3, <3>5 DEF ApiKnows
    <3>7. /\ ask' = ask /\ at' = [at EXCEPT ![c] = "done"] /\ held' = [held EXCEPT ![c] = h]
          /\ reply' = [reply EXCEPT ![c] = "ok"]
      BY <2>2, <3>1 DEF Ok, Answer, ApiInv, ApiTypeOK
    <3> QED BY <2>2, <3>6, <3>7, ApiAside
  <2>3. CASE \E result \in {"recorded", "error"} :
               /\ Len(done) + 1 <= Len(items)
               /\ RecordItem(c, Len(done) + 1, items[Len(done) + 1], ZoneOfBulk(c), result)
               /\ Hold(c, Report(Append(done, result), <<>>)) /\ Goto(c, "each")
    BY <1>2, <2>1, <2>3, NextItemKeeps
  <2> QED BY <1>2, <2>1, <2>2, <2>3 DEF BulkRecordTransactions, Begins, Serving
<1> QED BY <1>1, <1>2 DEF BulkRecordTransactions

(* The process stops: no call that was under way is answered. *)
LEMMA StopKeeps ==
    ASSUME ApiInv, NEW c \in Calls, ask' = ask, held' = held, recorded' = recorded,
           at' = [d \in Calls |-> IF d = c \/ at[d] # "start" THEN "done" ELSE "start"],
           reply' = [d \in Calls |-> IF d = c \/ at[d] \notin {"start", "done"}
                                     THEN "lost" ELSE reply[d]]
    PROVE  ApiInv'
<1>1. ApiTypeOK' /\ RefsOnce'
  BY DEF ApiInv, ApiTypeOK, RefsOnce
<1>2. CallsKnow'
  <2> SUFFICES ASSUME NEW d \in Calls PROVE ApiKnows(d, at[d], held[d], reply[d])'
    BY DEF CallsKnow
  <2>1. PICK l, h, r : l = at'[d] /\ h = held[d] /\ r = reply'[d]
    OBVIOUS
  <2>2. ApiKnows(d, at[d], h, reply[d])
    BY <2>1 DEF ApiInv, CallsKnow
  <2>3. /\ l \in {"start", "done"} /\ (l = "start" => at[d] = "start")
        /\ (r = "lost" /\ l = "done") \/ r = reply[d]
    BY <2>1
  <2>4. ApiKnows(d, l, h, r)
    BY <2>2, <2>3 DEF ApiKnows
  <2>5. ApiKnows(d, l, h, r)'
    BY <2>4, ApiKnowsStays
  <2> QED BY <2>1, <2>5 DEF ApiKnows, Accounts, OfItem, ZoneOfBulk, Known
<1> QED BY <1>1, <1>2 DEF ApiInv

(* ListTransactions *)
LEMMA ListKeeps ==
    ASSUME ApiInv, NEW c \in Calls, ListTransactions(c)
    PROVE  ApiInv'
<1>1. ask[c].op = "transactions" /\ recorded' = recorded
  BY DEF ListTransactions, Begins, Serving, apiVars
<1>2. CASE Ok(c) \/ Refuse(c)
  BY <1>1, <1>2, ApiAnswers
<1>3. CASE \E h : at[c] = "start" /\ Hold(c, h) /\ Goto(c, "entries")
  <2>1. PICK h : at[c] = "start" /\ Hold(c, h) /\ Goto(c, "entries")
    BY <1>3
  <2>2. PICK r : r = reply[c]
    OBVIOUS
  <2>3. ApiKnows(c, "start", held[c], r)
    BY <2>1, <2>2 DEF ApiInv, CallsKnow
  <2>4. ApiKnows(c, "entries", h, r)
    BY <1>1, <2>3 DEF ApiKnows
  <2>5. /\ ask' = ask /\ at' = [at EXCEPT ![c] = "entries"] /\ held' = [held EXCEPT ![c] = h]
        /\ reply' = [reply EXCEPT ![c] = r]
    BY <2>1, <2>2 DEF Hold, Goto, ApiInv, ApiTypeOK
  <2> QED BY <1>1, <2>4, <2>5, ApiAside
<1> QED BY <1>1, <1>2, <1>3 DEF ListTransactions, Begins, Serving

LEMMA ApiStep == ApiInv /\ [ApiNext]_apiAllVars => ApiInv'
<1> SUFFICES ASSUME ApiInv, [ApiNext]_apiAllVars PROVE ApiInv'
  OBVIOUS
<1>1. CASE UNCHANGED apiAllVars
  <2>1. UNCHANGED <<ask, at, held, reply, recorded>>
    BY <1>1 DEF apiAllVars, apiVars, callVars
  <2>2. ApiTypeOK' /\ RefsOnce'
    BY <2>1 DEF ApiInv, ApiTypeOK, RefsOnce
  <2>3. ASSUME NEW c \in Calls PROVE ApiKnows(c, at[c], held[c], reply[c])'
    <3>1. PICK l, h, r : l = at[c] /\ h = held[c] /\ r = reply[c]
      OBVIOUS
    <3>2. ApiKnows(c, l, h, r)'
      BY <2>1, <3>1, ApiKnowsStays DEF ApiInv, CallsKnow
    <3> QED BY <2>1, <3>1, <3>2 DEF ApiKnows, Accounts, OfItem, ZoneOfBulk, Known
  <2> QED BY <2>2, <2>3 DEF ApiInv, CallsKnow
<1>2. ASSUME NEW c \in Calls, Malformed(c), UNCHANGED apiVars PROVE ApiInv'
  <2>1. Refuse(c) /\ ~Ok(c) /\ recorded' = recorded
    BY <1>2 DEF Malformed, Refuse, Ok, Answer, apiVars, ApiInv, ApiTypeOK
  <2> QED BY <2>1, ApiAnswers
<1>3. ASSUME NEW c \in Calls, CreateLedgerAccount(c) PROVE ApiInv'
  BY <1>3, ApiAnswers DEF CreateLedgerAccount, Begins, Serving
<1>4. ASSUME NEW c \in Calls, GetLedgerAccount(c) PROVE ApiInv'
  BY <1>4, ApiAnswers DEF GetLedgerAccount, Begins, Serving, apiVars
<1>5. ASSUME NEW c \in Calls, GetAccountOverGRPC(c) PROVE ApiInv'
  <2>1. ask[c].op = "account" /\ recorded' = recorded
    BY <1>5 DEF GetAccountOverGRPC, Begins, Serving, apiVars
  <2>2. CASE Ok(c) \/ Refuse(c)
    BY <2>1, <2>2, ApiAnswers
  <2> QED BY <1>5, <2>1, <2>2, StopKeeps DEF GetAccountOverGRPC
<1>6. ASSUME NEW c \in Calls, GetTransaction(c) PROVE ApiInv'
  BY <1>6, ApiAnswers DEF GetTransaction, Begins, Serving, apiVars
<1> QED BY <1>1, <1>2, <1>3, <1>4, <1>5, <1>6, RecordKeeps, BulkKeeps, ListKeeps DEF ApiNext

(* Bulks are accounted for, whatever other calls record and wherever the   *)
(* process stops, for any requests and items (BulkRecordTransactions).     *)
THEOREM BulksHold == ApiSpec => []BulksAreAccountedFor
<1>1. ASSUME ApiInv PROVE BulksAreAccountedFor
  <2>1. ASSUME NEW c \in Calls, Reported(c)
        PROVE  /\ Accounts(c, held[c].results)
               /\ ask[c].op = "bulk" /\ reply[c] = "ok" =>
                    Len(held[c].results) = Len(ask[c].items)
    BY <1>1, <2>1 DEF ApiInv, CallsKnow, ApiKnows, Reported
  <2>2. ASSUME NEW m \in DOMAIN recorded
        PROVE  /\ recorded[m].by \in Calls /\ Reported(recorded[m].by)
               /\ OfItem(recorded[m], recorded[m].by, held[recorded[m].by].results)
    <3>1. recorded[m].by \in Calls
      <4>1. recorded \in Seq(BookRows)
        BY <1>1 DEF ApiInv, ApiTypeOK
      <4>2. recorded[m] \in BookRows
        BY <4>1
      <4> QED BY <4>2 DEF BookRows
    <3>2. Reported(recorded[m].by)
      BY <1>1, <3>1 DEF ApiInv, CallsKnow, ApiKnows, Reported
    <3> QED BY <2>1, <3>1, <3>2 DEF Accounts
  <2>3. RefsOnce
    BY <1>1 DEF ApiInv
  <2> QED BY <2>1, <2>2, <2>3 DEF BulksAreAccountedFor, RefsOnce, Accounts, OfItem
<1> QED BY <1>1, ApiStarts, ApiStep, PTL DEF ApiSpec

(* The servers against the contract of the ledger.  Item n of call c is a  *)
(* call of the ledger, with the zone that c gives it; its result is the    *)
(* answer of that call.                                                    *)
ItemIds == Calls \X (Nat \ {0})

Recording(c) == ask[c].op \in {"record", "bulk"}
ZoneOfCall(c) == IF ask[c].op = "bulk" THEN ZoneOfBulk(c) ELSE ask[c].items[1].zone
ResultsOf(c) == IF Reported(c) THEN held[c].results ELSE <<>>

ItemsAsked ==
    [p \in ItemIds |->
        IF Recording(p[1]) /\ p[2] \in DOMAIN ask[p[1]].items
        THEN [ref |-> ask[p[1]].items[p[2]].ref, zone |-> ZoneOfCall(p[1]),
              sound |-> ask[p[1]].items[p[2]].sound]
        ELSE None]

AnswerOf(results, n) ==
    IF n \notin DOMAIN results THEN "none" ELSE IF results[n] = "recorded" THEN "ok" ELSE "error"

ItemAnswers == [p \in ItemIds |-> AnswerOf(ResultsOf(p[1]), p[2])]
ItemBook == {[ref |-> recorded[m].ref, lines |-> recorded[m].zone] : m \in DOMAIN recorded}
ZoneAsked(item) == item.zone
SoundAsked(item) == item.sound

Contract == INSTANCE AtomicLedger WITH
    Calls <- ItemIds, LinesOf <- ZoneAsked, Acceptable <- SoundAsked,
    book <- ItemBook, asked <- ItemsAsked, answer <- ItemAnswers

LEMMA AskedStays ==
    ASSUME ask' = ask
    PROVE  ItemsAsked' = ItemsAsked
<1>1. ASSUME NEW c PROVE ZoneOfCall(c)' = ZoneOfCall(c) /\ (Recording(c)' <=> Recording(c))
  BY DEF ZoneOfCall, ZoneOfBulk, Recording
<1> QED BY <1>1 DEF ItemsAsked

(* A step that gives no result and records nothing. *)
LEMMA NoItemMoves ==
    ASSUME ask' = ask, recorded' = recorded, \A c \in Calls : ResultsOf(c)' = ResultsOf(c)
    PROVE  UNCHANGED Contract!vars
<1>1. ItemAnswers' = ItemAnswers
  <2>1. \A p \in ItemIds : p[1] \in Calls
    BY DEF ItemIds
  <2>2. ASSUME NEW p \in ItemIds
        PROVE  AnswerOf(ResultsOf(p[1])', p[2]) = AnswerOf(ResultsOf(p[1]), p[2])
    BY <2>1
  <2> QED BY <2>2 DEF ItemAnswers, AnswerOf
<1>2. ItemBook' = ItemBook
  BY DEF ItemBook
<1> QED BY <1>1, <1>2, AskedStays DEF Contract!vars

LEMMA PostedIsKnown ==
    ASSUME NEW ref
    PROVE  Contract!Posted(ref) <=> Known(ref)
<1>1. ASSUME NEW p \in ItemBook PROVE \E m \in DOMAIN recorded : p.ref = recorded[m].ref
  <2>1. PICK m \in DOMAIN recorded : p = [ref |-> recorded[m].ref, lines |-> recorded[m].zone]
    BY DEF ItemBook
  <2> QED BY <2>1
<1>2. ASSUME NEW m \in DOMAIN recorded PROVE \E p \in ItemBook : p.ref = recorded[m].ref
  <2>1. PICK p : p = [ref |-> recorded[m].ref, lines |-> recorded[m].zone]
    OBVIOUS
  <2>2. p \in ItemBook
    BY <2>1 DEF ItemBook
  <2> QED BY <2>1, <2>2
<1> QED BY <1>1, <1>2 DEF Contract!Posted, Known

(* A step that gives an item its result answers one call of the ledger. *)
LEMMA ItemIsAnswered ==
    ASSUME NEW c \in Calls, NEW done \in ItemResults, ResultsOf(c) = done, ask' = ask,
           NEW n, n = Len(done) + 1, NEW result \in {"recorded", "error"},
           ResultsOf(c)' = Append(done, result),
           \A d \in Calls : d # c => ResultsOf(d)' = ResultsOf(d),
           NEW a, a = IF result = "recorded" THEN "ok" ELSE "error"
    PROVE  <<c, n>> \in ItemIds /\ Contract!Answer(<<c, n>>, a)
<1>1. PICK results, p : results = Append(done, result) /\ p = <<c, n>>
  OBVIOUS
<1>2. /\ n \in Nat \ {0} /\ n \in DOMAIN results /\ results[n] = result /\ n \notin DOMAIN done
      /\ \A k \in DOMAIN done : k \in DOMAIN results /\ results[k] = done[k]
      /\ \A k \in DOMAIN results : k \in DOMAIN done \/ k = n
  <2>1. Len(done) \in Nat /\ DOMAIN done = 1 .. Len(done)
    BY DEF ItemResults
  <2> QED BY <1>1, <2>1, OneMoreResult DEF ItemResults
<1>3. p \in ItemIds /\ p[1] = c /\ p[2] = n
  BY <1>1, <1>2 DEF ItemIds
<1>4. ItemAnswers[p] = "none"
  BY <1>2, <1>3 DEF ItemAnswers, AnswerOf
<1>5. AnswerOf(results, n) = a
  BY <1>2 DEF AnswerOf
<1>6. ASSUME NEW q \in ItemIds, q # p
      PROVE  AnswerOf(ResultsOf(q[1])', q[2]) = AnswerOf(ResultsOf(q[1]), q[2])
  <2>1. q[1] \in Calls /\ q[2] \in Nat \ {0} /\ q = <<q[1], q[2]>>
    BY DEF ItemIds
  <2>2. CASE q[1] # c
    BY <2>1, <2>2
  <2>3. CASE q[1] = c
    <3>1. q[2] # n
      BY <1>1, <1>6, <2>1, <2>3
    <3>2. AnswerOf(results, q[2]) = AnswerOf(done, q[2])
      BY <1>2, <3>1 DEF AnswerOf
    <3> QED BY <1>1, <2>3, <3>2
  <2> QED BY <2>2, <2>3
<1>7. AnswerOf(ResultsOf(p[1])', p[2]) = a
  BY <1>1, <1>3, <1>5
<1>8. ItemAnswers' = [ItemAnswers EXCEPT ![p] = a]
  <2>1. ItemAnswers' = [q \in ItemIds |-> AnswerOf(ResultsOf(q[1])', q[2])]
    BY DEF ItemAnswers, AnswerOf
  <2>2. [ItemAnswers EXCEPT ![p] = a] =
          [q \in ItemIds |-> IF q = p THEN a ELSE AnswerOf(ResultsOf(q[1]), q[2])]
    BY DEF ItemAnswers
  <2> QED BY <1>6, <1>7, <2>1, <2>2
<1> QED BY <1>1, <1>3, <1>4, <1>8, AskedStays DEF Contract!Answer

(* RecordItem is Post, Acknowledge or Refuse. *)
LEMMA ItemRefines ==
    ASSUME ApiInv, NEW c \in Calls, Recording(c), ask' = ask,
           NEW done \in ItemResults, ResultsOf(c) = done, NEW n, n = Len(done) + 1,
           n \in DOMAIN ask[c].items, NEW result \in {"recorded", "error"},
           ResultsOf(c)' = Append(done, result),
           \A d \in Calls : d # c => ResultsOf(d)' = ResultsOf(d),
           RecordItem(c, n, ask[c].items[n], ZoneOfCall(c), result)
    PROVE  Contract!Next
<1>1. PICK a, p, item, zone :
        /\ a = (IF result = "recorded" THEN "ok" ELSE "error")
        /\ p = <<c, n>> /\ item = ask[c].items[n] /\ zone = ZoneOfCall(c)
  OBVIOUS
<1>2. p \in ItemIds /\ Contract!Answer(p, a) /\ a \in {"ok", "error"}
  BY <1>1, ItemIsAnswered
<1>3. ItemsAsked[p] = [ref |-> item.ref, zone |-> zone, sound |-> item.sound]
  BY <1>1, <1>2 DEF ItemsAsked
<1>4. PICK wanted : wanted = ItemsAsked[p]
  OBVIOUS
<1>5. wanted.ref = item.ref /\ ZoneAsked(wanted) = zone /\ (SoundAsked(wanted) <=> item.sound)
  BY <1>3, <1>4 DEF ZoneAsked, SoundAsked
<1>6. CASE /\ item.sound /\ ~Known(item.ref)
           /\ recorded' = Append(recorded, RowOf(c, n, item, zone))
  <2>1. PICK row : row = RowOf(c, n, item, zone)
    OBVIOUS
  <2>2. row.ref = item.ref /\ row.zone = zone
    BY <2>1 DEF RowOf
  <2>3. /\ recorded \in Seq(BookRows) /\ Len(recorded) \in Nat
        /\ DOMAIN recorded = 1 .. Len(recorded)
    BY DEF ApiInv, ApiTypeOK
  <2>4. /\ DOMAIN recorded' = 1 .. (Len(recorded) + 1)
        /\ \A m \in 1 .. Len(recorded) : recorded'[m] = recorded[m]
        /\ recorded'[Len(recorded) + 1] = row
    BY <1>6, <2>1, <2>3
  <2>5. ItemBook' = ItemBook \cup {[ref |-> item.ref, lines |-> zone]}
    <3>1. ItemBook' = {[ref |-> recorded'[m].ref, lines |-> recorded'[m].zone] :
                         m \in 1 .. (Len(recorded) + 1)}
      BY <2>4 DEF ItemBook
    <3>2. ItemBook = {[ref |-> recorded'[m].ref, lines |-> recorded'[m].zone] :
                        m \in 1 .. Len(recorded)}
      BY <2>3, <2>4 DEF ItemBook
    <3>3. [ref |-> item.ref, lines |-> zone] =
            [ref |-> recorded'[Len(recorded) + 1].ref,
             lines |-> recorded'[Len(recorded) + 1].zone]
      BY <2>2, <2>4
    <3>4. \A m : m \in 1 .. (Len(recorded) + 1) <=> m \in 1 .. Len(recorded) \/ m = Len(recorded) + 1
      BY <2>3
    <3> QED BY <3>1, <3>2, <3>3, <3>4, Zenon
  <2>6. ~Contract!Posted(item.ref)
    BY <1>6, PostedIsKnown
  <2>7. Contract!Post(p)
    BY <1>2, <1>4, <1>5, <1>6, <2>5, <2>6 DEF Contract!Post
  <2> QED BY <1>2, <2>7 DEF Contract!Next
<1>7. CASE result = "recorded" /\ Known(item.ref) /\ recorded' = recorded
  <2>1. ItemBook' = ItemBook
    BY <1>7 DEF ItemBook
  <2>2. Contract!Acknowledge(p)
    BY <1>1, <1>2, <1>4, <1>5, <1>7, <2>1, PostedIsKnown DEF Contract!Acknowledge
  <2> QED BY <1>2, <2>2 DEF Contract!Next
<1>8. CASE result = "error" /\ recorded' = recorded
  <2>1. ItemBook' = ItemBook
    BY <1>8 DEF ItemBook
  <2>2. Contract!Refuse(p)
    BY <1>1, <1>2, <1>8, <2>1 DEF Contract!Refuse
  <2> QED BY <1>2, <2>2 DEF Contract!Next
<1> QED BY <1>1, <1>6, <1>7, <1>8 DEF RecordItem, RowOf

(* The results of a call that keeps h. *)
LEMMA HeldResults ==
    ASSUME ApiInv, NEW c \in Calls, NEW h, held' = [held EXCEPT ![c] = h], ask' = ask
    PROVE  /\ \A d \in Calls : d # c => ResultsOf(d)' = ResultsOf(d)
           /\ h = held[c] => ResultsOf(c)' = ResultsOf(c)
           /\ h # None /\ Recording(c) => ResultsOf(c)' = h.results
           /\ ~Recording(c) => ResultsOf(c)' = ResultsOf(c)
<1>1. held'[c] = h /\ \A d \in Calls : d # c => held'[d] = held[d]
  BY DEF ApiInv, ApiTypeOK
<1> QED BY <1>1 DEF ResultsOf, Reported, Recording

(* A call is answered: no result is given. *)
LEMMA AnswersAreNoItems ==
    ASSUME ApiInv, NEW c \in Calls, Ok(c) \/ Refuse(c), recorded' = recorded
    PROVE  UNCHANGED Contract!vars
<1>1. ask' = ask /\ held' = held
  BY DEF Ok, Refuse, Answer
<1>2. \A d \in Calls : ResultsOf(d)' = ResultsOf(d)
  BY <1>1 DEF ResultsOf, Reported
<1> QED BY <1>1, <1>2, NoItemMoves

LEMMA RecordRefines ==
    ASSUME ApiInv, NEW c \in Calls, RecordOverHTTP(c)
    PROVE  [Contract!Next]_(Contract!vars)
<1>1. CASE Begins(c, "record")
  <2>1. at[c] = "start" /\ ask[c].op = "record" /\ held[c] = None /\ ask' = ask
    BY <1>1 DEF RecordOverHTTP, Begins, Serving, ApiInv, CallsKnow, ApiKnows, Goto
  <2>2. PICK result \in {"recorded", "error"} :
          /\ RecordItem(c, 1, ask[c].items[1], ask[c].items[1].zone, result)
          /\ held' = [held EXCEPT ![c] = Report(<<result>>, <<>>)]
    BY <1>1, <2>1 DEF RecordOverHTTP, Hold, Serving
  <2>3. PICK done, n, h, results : /\ done = <<>> /\ n = 1 /\ results = Append(done, result)
                                   /\ h = Report(results, <<>>)
    OBVIOUS
  <2>4. done \in ItemResults /\ Len(done) = 0 /\ n = Len(done) + 1
    BY <2>3 DEF ItemResults
  <2>5. results = <<result>> /\ results \in ItemResults
    BY <2>3, <2>4 DEF ItemResults
  <2>6. h # None /\ h.results = results
    BY <2>3, <2>5, ReportIsReport
  <2>7. Recording(c) /\ ResultsOf(c) = done
    BY <2>1, <2>3 DEF Recording, ResultsOf, Reported
  <2>8. held' = [held EXCEPT ![c] = h]
    BY <2>2, <2>3, <2>5
  <2>9. /\ ResultsOf(c)' = Append(done, result)
        /\ \A d \in Calls : d # c => ResultsOf(d)' = ResultsOf(d)
    BY <2>1, <2>3, <2>6, <2>7, <2>8, HeldResults
  <2>10. n \in DOMAIN ask[c].items
    <3>1. ask[c].items \in Seq(Items) /\ Len(ask[c].items) = 1
      BY <2>1 DEF ApiInv, ApiTypeOK, ApiAsks
    <3> QED BY <2>3, <3>1
  <2>11. RecordItem(c, n, ask[c].items[n], ZoneOfCall(c), result)
    BY <2>1, <2>2, <2>3 DEF ZoneOfCall
  <2>12. ask' = ask
    BY <2>1
  <2> QED BY <2>4, <2>7, <2>9, <2>10, <2>11, <2>12, ItemRefines
<1>2. CASE Serving(c, "record", "answer")
  <2>1. (Ok(c) \/ Refuse(c)) /\ recorded' = recorded
    BY <1>2 DEF RecordOverHTTP, Begins, Serving, apiVars
  <2> QED BY <2>1, AnswersAreNoItems
<1> QED BY <1>1, <1>2 DEF RecordOverHTTP

LEMMA BulkRefines ==
    ASSUME ApiInv, NEW c \in Calls, BulkRecordTransactions(c)
    PROVE  [Contract!Next]_(Contract!vars)
<1>1. CASE Begins(c, "bulk")
  <2>1. at[c] = "start" /\ ask[c].op = "bulk" /\ held[c] = None
    BY <1>1 DEF Begins, Serving, ApiInv, CallsKnow, ApiKnows
  <2>2. PICK h, done : h = Report(done, <<>>) /\ done = <<>>
    OBVIOUS
  <2>3. ask' = ask /\ recorded' = recorded /\ held' = [held EXCEPT ![c] = h]
    BY <1>1, <2>1, <2>2 DEF BulkRecordTransactions, Serving, Hold, Goto, apiVars
  <2>4. done \in ItemResults
    BY <2>2 DEF ItemResults
  <2>5. h # None /\ h.results = done
    BY <2>2, <2>4, ReportIsReport
  <2>6. Recording(c) /\ ResultsOf(c) = done
    BY <2>1, <2>2 DEF Recording, ResultsOf, Reported
  <2>7. \A d \in Calls : ResultsOf(d)' = ResultsOf(d)
    BY <2>3, <2>5, <2>6, HeldResults
  <2> QED BY <2>3, <2>7, NoItemMoves
<1>2. CASE Serving(c, "bulk", "each")
  <2>1. ask[c].op = "bulk" /\ held[c] # None /\ Accounts(c, held[c].results)
    BY <1>2 DEF Serving, ApiInv, CallsKnow, ApiKnows
  <2>2. PICK done, n : done = held[c].results /\ n = Len(done) + 1
    OBVIOUS
  <2>3. CASE Ok(c) /\ recorded' = recorded
    BY <2>3, AnswersAreNoItems
  <2>4. CASE \E result \in {"recorded", "error"} :
               /\ n <= Len(ask[c].items)
               /\ RecordItem(c, n, ask[c].items[n], ZoneOfBulk(c), result)
               /\ Hold(c, Report(Append(done, result), <<>>)) /\ Goto(c, "each")
    <3>1. PICK result \in {"recorded", "error"} :
            /\ n <= Len(ask[c].items)
            /\ RecordItem(c, n, ask[c].items[n], ZoneOfBulk(c), result)
            /\ Hold(c, Report(Append(done, result), <<>>)) /\ Goto(c, "each")
      BY <2>4
    <3>2. PICK results, h : results = Append(done, result) /\ h = Report(results, <<>>)
      OBVIOUS
    <3>3. done \in ItemResults /\ Len(done) \in Nat /\ results \in ItemResults
      BY <2>1, <2>2, <3>2 DEF Accounts, ItemResults
    <3>4. h # None /\ h.results = results
      BY <3>2, <3>3, ReportIsReport
    <3>5. ask' = ask /\ held' = [held EXCEPT ![c] = h]
      BY <3>1, <3>2 DEF Hold, Goto
    <3>6. Recording(c) /\ ResultsOf(c) = done
      BY <2>1, <2>2 DEF Recording, ResultsOf, Reported
    <3>7. /\ ResultsOf(c)' = Append(done, result)
          /\ \A d \in Calls : d # c => ResultsOf(d)' = ResultsOf(d)
      BY <3>2, <3>4, <3>5, <3>6, HeldResults
    <3>8. n \in DOMAIN ask[c].items
      <4>1. ask[c].items \in Seq(Items)
        BY <2>1 DEF ApiInv, ApiTypeOK, ApiAsks
      <4> QED BY <2>2, <3>1, <3>3, <4>1
    <3>9. RecordItem(c, n, ask[c].items[n], ZoneOfCall(c), result)
      BY <2>1, <3>1 DEF ZoneOfCall
    <3>10. ask' = ask /\ n = Len(done) + 1
      BY <2>2, <3>5
    <3> QED BY <3>3, <3>6, <3>7, <3>8, <3>9, <3>10, ItemRefines
  <2> QED BY <1>2, <2>2, <2>3, <2>4 DEF BulkRecordTransactions, Begins, Serving
<1> QED BY <1>1, <1>2 DEF BulkRecordTransactions

LEMMA ListRefines ==
    ASSUME ApiInv, NEW c \in Calls, ListTransactions(c)
    PROVE  UNCHANGED Contract!vars
<1>1. ask[c].op = "transactions" /\ recorded' = recorded
  BY DEF ListTransactions, Begins, Serving, apiVars
<1>2. CASE Ok(c) \/ Refuse(c)
  BY <1>1, <1>2, AnswersAreNoItems
<1>3. CASE \E h : Hold(c, h) /\ Goto(c, "entries")
  <2>1. PICK h : held' = [held EXCEPT ![c] = h] /\ ask' = ask
    BY <1>3 DEF Hold, Goto
  <2>2. ~Recording(c)
    BY <1>1 DEF Recording
  <2>3. \A d \in Calls : ResultsOf(d)' = ResultsOf(d)
    BY <2>1, <2>2, HeldResults
  <2> QED BY <1>1, <2>1, <2>3, NoItemMoves
<1> QED BY <1>1, <1>2, <1>3 DEF ListTransactions

LEMMA ApiRefines ==
    ASSUME ApiInv, [ApiNext]_apiAllVars
    PROVE  [Contract!Next]_(Contract!vars)
<1>1. CASE UNCHANGED apiAllVars
  <2>1. ask' = ask /\ recorded' = recorded /\ held' = held
    BY <1>1 DEF apiAllVars, apiVars, callVars
  <2>2. \A d \in Calls : ResultsOf(d)' = ResultsOf(d)
    BY <2>1 DEF ResultsOf, Reported
  <2> QED BY <2>1, <2>2, NoItemMoves
<1>2. ASSUME NEW c \in Calls, \/ Malformed(c) /\ UNCHANGED apiVars
                              \/ CreateLedgerAccount(c) \/ GetLedgerAccount(c)
                              \/ GetTransaction(c)
      PROVE  UNCHANGED Contract!vars
  <2>1. (Ok(c) \/ Refuse(c)) /\ recorded' = recorded
    BY <1>2 DEF Malformed, CreateLedgerAccount, GetLedgerAccount, GetTransaction, apiVars
  <2> QED BY <2>1, AnswersAreNoItems
<1>3. ASSUME NEW c \in Calls, GetAccountOverGRPC(c) PROVE UNCHANGED Contract!vars
  <2>1. ask' = ask /\ held' = held /\ recorded' = recorded
    BY <1>3 DEF GetAccountOverGRPC, apiVars, Ok, Refuse, Answer
  <2>2. \A d \in Calls : ResultsOf(d)' = ResultsOf(d)
    BY <2>1 DEF ResultsOf, Reported
  <2> QED BY <2>1, <2>2, NoItemMoves
<1> QED BY <1>1, <1>2, <1>3, RecordRefines, BulkRefines, ListRefines DEF ApiNext

(* The servers keep the contract of the ledger, item by item: each item of *)
(* each call is one call of AtomicLedger, whatever bulks interleave and    *)
(* wherever the process stops (RecordTransaction, BulkRecordTransactions). *)
THEOREM ServersImplementLedger == ApiSpec => Contract!Spec
<1>1. CallsInit([Calls -> ApiAsks]) /\ ApiInit => Contract!Init
  <2> SUFFICES ASSUME CallsInit([Calls -> ApiAsks]), ApiInit PROVE Contract!Init
    OBVIOUS
  <2>1. held = [c \in Calls |-> None] /\ recorded = <<>>
    BY DEF CallsInit, ApiInit
  <2>2. ItemBook = {}
    BY <2>1 DEF ItemBook
  <2>3. \A p \in ItemIds : AnswerOf(ResultsOf(p[1]), p[2]) = "none"
    BY <2>1 DEF ItemIds, ResultsOf, Reported, AnswerOf
  <2> QED BY <2>2, <2>3 DEF Contract!Init, ItemAnswers
<1>2. ApiInv /\ [ApiNext]_apiAllVars => [Contract!Next]_(Contract!vars)
  BY ApiRefines
<1> QED BY <1>1, <1>2, ApiStarts, ApiStep, PTL DEF ApiSpec, Contract!Spec

-----------------------------------------------------------------------------
(* Replays of past events *)

FlowAsks ==
    [op : {"createflow"}, bad : BOOLEAN, flow : FlowRows]
      \cup [op : {"readflow", "readexecution"}, bad : BOOLEAN, flow : FlowIds]
      \cup [op : {"past"}, bad : BOOLEAN, zone : STRING, limit : Int, offset : Int]
      \cup [op : {"replay"}, bad : BOOLEAN, zone : STRING, ids : {s \in Seq(STRING) : Len(s) = 1}]
      \cup [op : {"bulkreplay"}, bad : BOOLEAN, zone : STRING, ids : Seq(STRING)]

flowAllVars == <<flowApiVars, callVars>>

(* The routes of the flow service and the runner, with any number of       *)
(* requests and events.                                                    *)
FlowApiSpec ==
    /\ CallsInit([Calls -> FlowAsks]) /\ FlowApiInit
    /\ [][FlowApiNext]_flowAllVars

Payloads == [zone : STRING, type : STRING]
Messages == [by : Calls, item : Nat \ {0}, payload : Payloads]
ReplayResults == Seq({"success", "error"})
ReplayOps == {"replay", "bulkreplay"}

FlowApiTypeOK ==
    /\ ask \in [Calls -> FlowAsks]
    /\ at = [c \in Calls |-> at[c]] /\ held = [c \in Calls |-> held[c]]
    /\ reply = [c \in Calls |-> reply[c]]
    /\ flowRows \in [FlowIds -> FlowRows \cup {None}]
    /\ past \in Seq(EventRows)
    /\ topic \in Seq(Messages)
    /\ readTo \in Nat /\ readTo <= Len(topic)

(* The messages of a call are in the order of its items. *)
TopicInOrder ==
    \A m, n \in DOMAIN topic :
        m < n /\ topic[m].by = topic[n].by => topic[m].item < topic[n].item

(* A flow ran for a message that the runner has read. *)
RunsAreReplays ==
    \A x \in executions :
        /\ x.flow \in FlowIds /\ flowRows[x.flow] # None
        /\ \E m \in 1 .. readTo : /\ topic[m].by = x.by /\ topic[m].item = x.item
                                  /\ topic[m].payload.zone = flowRows[x.flow].zone

(* These results are those of the messages that call c has sent. *)
Tells(c, results) ==
    /\ results \in ReplayResults
    /\ Len(results) <= Len(ask[c].ids)
    /\ \A n \in DOMAIN results : results[n] = "success" => Sent(c, n)
    /\ \A m \in DOMAIN topic : topic[m].by = c => topic[m].item \in DOMAIN results

(* What a call knows at label l, when it keeps h and has been answered r. *)
ReplayKnows(c, l, h, r) ==
    /\ l = "start" => h = None /\ flowRows[c] = None
    /\ l # "done" => r = "none"
    /\ l = "each" => h # None /\ ask[c].op = "bulkreplay"
    /\ h = None => \A m \in DOMAIN topic : topic[m].by # c
    /\ ask[c].op \in ReplayOps /\ h # None =>
         /\ Tells(c, h.results)
         /\ r = "ok" => Len(h.results) = Len(ask[c].ids)

HandlersReplay == \A c \in Calls : ReplayKnows(c, at[c], held[c], reply[c])

ReplayInv == FlowApiTypeOK /\ TopicInOrder /\ RunsAreReplays /\ HandlersReplay

LEMMA ReplayStarts == CallsInit([Calls -> FlowAsks]) /\ FlowApiInit => ReplayInv
<1> SUFFICES ASSUME CallsInit([Calls -> FlowAsks]), FlowApiInit PROVE ReplayInv
  OBVIOUS
<1>1. /\ ask \in [Calls -> FlowAsks] /\ at = [c \in Calls |-> "start"]
      /\ held = [c \in Calls |-> None] /\ reply = [c \in Calls |-> "none"]
      /\ topic = <<>> /\ readTo = 0 /\ executions = {} /\ past = FirstEvents
      /\ flowRows = [f \in FlowIds |-> IF f \in DOMAIN FirstFlows THEN FirstFlows[f] ELSE None]
  BY DEF CallsInit, FlowApiInit
<1>2. flowRows \in [FlowIds -> FlowRows \cup {None}]
  BY <1>1, FlowApiAssumption
<1>3. \A c \in Calls : flowRows[c] = None
  BY <1>1, FlowApiAssumption DEF FlowIds
<1>4. FlowApiTypeOK
  BY <1>1, <1>2, FlowApiAssumption DEF FlowApiTypeOK
<1>5. TopicInOrder /\ RunsAreReplays
  BY <1>1 DEF TopicInOrder, RunsAreReplays
<1>6. HandlersReplay
  BY <1>1, <1>3 DEF HandlersReplay, ReplayKnows
<1> QED BY <1>4, <1>5, <1>6 DEF ReplayInv

(* An outcome of replays is one, and no nil. *)
LEMMA OutcomeIsOutcome ==
    ASSUME NEW results \in ReplayResults, NEW h, h = Outcome(results, <<>>)
    PROVE  h.results = results /\ h # None
<1>1. PICK page \in Seq(STRING) : page = <<>>
  <2>1. <<>> \in Seq(STRING)
    OBVIOUS
  <2> QED BY <2>1, Zenon
<1>2. h = [results |-> results, page |-> page]
  BY <1>1 DEF Outcome
<1>3. h \in Outcomes
  BY <1>2 DEF Outcomes, ReplayResults
<1> QED BY <1>2, <1>3, FlowApiAssumption

(* One more result. *)
LEMMA OneMoreReplay ==
    ASSUME NEW done \in ReplayResults, NEW result \in {"success", "error"},
           NEW results, results = Append(done, result), NEW n, n = Len(done) + 1
    PROVE  /\ results \in ReplayResults /\ Len(results) = n /\ n \in Nat \ {0}
           /\ \A k \in DOMAIN done : k \in DOMAIN results /\ results[k] = done[k] /\ k < n
           /\ n \in DOMAIN results /\ results[n] = result
           /\ \A k \in DOMAIN results : k \in DOMAIN done \/ k = n
<1>1. Len(done) \in Nat /\ DOMAIN done = 1 .. Len(done)
  BY DEF ReplayResults
<1>2. results \in ReplayResults /\ Len(results) = n
  BY DEF ReplayResults
<1>3. DOMAIN results = 1 .. n
  BY <1>2 DEF ReplayResults
<1>4. \A k \in 1 .. Len(done) : results[k] = done[k]
  BY DEF ReplayResults
<1>5. results[n] = result
  BY DEF ReplayResults
<1> QED BY <1>1, <1>2, <1>3, <1>4, <1>5

(* The topic of this step is that of the last one, with at most one new    *)
(* message, of item n of call c.                                           *)
Grows(c, n) ==
    /\ topic' \in Seq(Messages) /\ Len(topic) <= Len(topic')
    /\ DOMAIN topic \subseteq DOMAIN topic'
    /\ \A m \in DOMAIN topic : topic'[m] = topic[m]
    /\ \A m \in DOMAIN topic' \ DOMAIN topic : /\ topic'[m].by = c /\ topic'[m].item = n
                                               /\ m > Len(topic)
    /\ \A k, m \in DOMAIN topic' \ DOMAIN topic : k = m

LEMMA TopicSame == ASSUME ReplayInv, topic' = topic, NEW c, NEW n PROVE Grows(c, n)
  BY DEF ReplayInv, FlowApiTypeOK, Grows

(* An item that is replayed grows the topic, and is on it if it succeeds. *)
LEMMA ItemIsSent ==
    ASSUME ReplayInv, NEW c \in Calls, NEW n \in Nat \ {0}, NEW result, ReplayItem(c, n, result)
    PROVE  Grows(c, n) /\ (result = "success" => Sent(c, n)')
<1>1. topic \in Seq(Messages) /\ past \in Seq(EventRows)
  BY DEF ReplayInv, FlowApiTypeOK
<1>2. CASE topic' = topic /\ result = "error"
  BY <1>2, TopicSame
<1>3. ASSUME NEW event \in ToSet(past),
             topic' = Append(topic, [by |-> c, item |-> n, payload |-> event.payload])
      PROVE  Grows(c, n) /\ Sent(c, n)'
  <2>1. event \in EventRows
    BY <1>1, <1>3 DEF ToSet
  <2>2. PICK row : row = [by |-> c, item |-> n, payload |-> event.payload]
    OBVIOUS
  <2>3. row \in Messages /\ row.by = c /\ row.item = n
    BY <2>1, <2>2 DEF Messages, EventRows, Payloads
  <2>4. /\ topic' \in Seq(Messages) /\ Len(topic') = Len(topic) + 1
        /\ DOMAIN topic' = 1 .. (Len(topic) + 1)
        /\ DOMAIN topic = 1 .. Len(topic) /\ Len(topic) \in Nat
        /\ \A m \in 1 .. Len(topic) : topic'[m] = topic[m]
        /\ topic'[Len(topic) + 1] = row
    BY <1>1, <1>3, <2>2, <2>3
  <2>5. \A m \in 1 .. (Len(topic) + 1) : m \in 1 .. Len(topic) \/ m = Len(topic) + 1
    BY <2>4
  <2>6. 1 .. Len(topic) \subseteq 1 .. (Len(topic) + 1) /\ Len(topic) + 1 \in 1 .. (Len(topic) + 1)
    BY <2>4
  <2>7. Grows(c, n)
    BY <2>3, <2>4, <2>5, <2>6 DEF Grows
  <2>8. Sent(c, n)'
    BY <2>3, <2>4, <2>6 DEF Sent
  <2> QED BY <2>7, <2>8
<1> QED BY <1>2, <1>3 DEF ReplayItem, RetriggerEvent, GetEventByID

(* What a call knows stays true when others replay or create. *)
LEMMA ReplayKnowsStays ==
    ASSUME NEW c \in Calls, NEW l, NEW h, NEW r, ReplayKnows(c, l, h, r), ask' = ask,
           NEW d \in Calls, d # c, NEW n, Grows(d, n), flowRows'[c] = flowRows[c]
    PROVE  ReplayKnows(c, l, h, r)'
<1>1. \A m \in DOMAIN topic' : topic'[m].by = c => m \in DOMAIN topic /\ topic'[m] = topic[m]
  BY DEF Grows
<1>2. \A k : Sent(c, k) => Sent(c, k)'
  BY DEF Sent, Grows
<1>3. \A results : Tells(c, results) => Tells(c, results)'
  BY <1>1, <1>2 DEF Tells
<1> QED BY <1>1, <1>3 DEF ReplayKnows

(* One call moves; the others keep what they know. *)
LEMMA ReplayMoves ==
    ASSUME ReplayInv, NEW c \in Calls, NEW l, NEW h, NEW r, NEW n, ask' = ask,
           at' = [at EXCEPT ![c] = l], held' = [held EXCEPT ![c] = h],
           reply' = [reply EXCEPT ![c] = r], Grows(c, n),
           topic' = topic \/ \A m \in DOMAIN topic : topic[m].by = c => topic[m].item < n,
           flowRows' \in [FlowIds -> FlowRows \cup {None}],
           \A f \in FlowIds : flowRows'[f] = flowRows[f] \/ (f = c /\ flowRows[f] = None),
           past' = past, readTo' = readTo, executions' = executions,
           ReplayKnows(c, l, h, r)'
    PROVE  ReplayInv'
<1>1. /\ ask \in [Calls -> FlowAsks] /\ past \in Seq(EventRows) /\ readTo \in Nat
      /\ readTo <= Len(topic) /\ topic \in Seq(Messages) /\ topic' \in Seq(Messages)
      /\ Len(topic) \in Nat /\ Len(topic') \in Nat /\ Len(topic) <= Len(topic')
      /\ at = [d \in Calls |-> at[d]] /\ held = [d \in Calls |-> held[d]]
      /\ reply = [d \in Calls |-> reply[d]]
  BY DEF ReplayInv, FlowApiTypeOK, Grows
<1>2. FlowApiTypeOK'
  <2>1. /\ at' = [d \in Calls |-> at'[d]] /\ held' = [d \in Calls |-> held'[d]]
        /\ reply' = [d \in Calls |-> reply'[d]]
    BY <1>1
  <2>2. readTo <= Len(topic')
    BY <1>1
  <2> QED BY <1>1, <2>1, <2>2 DEF FlowApiTypeOK
<1>3. TopicInOrder'
  <2> SUFFICES ASSUME NEW j \in DOMAIN topic', NEW k \in DOMAIN topic', j < k,
                      topic'[j].by = topic'[k].by
               PROVE  topic'[j].item < topic'[k].item
    BY DEF TopicInOrder
  <2>1. CASE k \in DOMAIN topic
    <3>1. j \in DOMAIN topic
      BY <1>1, <2>1 DEF Grows
    <3> QED BY <2>1, <3>1 DEF Grows, ReplayInv, TopicInOrder
  <2>2. CASE k \notin DOMAIN topic
    <3>1. topic'[k].by = c /\ topic'[k].item = n /\ k > Len(topic)
      BY <2>2 DEF Grows
    <3>2. j \in DOMAIN topic
      BY <1>1, <2>2 DEF Grows
    <3> QED BY <3>1, <3>2 DEF Grows
  <2> QED BY <2>1, <2>2
<1>4. RunsAreReplays'
  <2> SUFFICES ASSUME NEW x \in executions
               PROVE  /\ x.flow \in FlowIds /\ flowRows'[x.flow] # None
                      /\ \E m \in 1 .. readTo :
                           /\ topic'[m].by = x.by /\ topic'[m].item = x.item
                           /\ topic'[m].payload.zone = flowRows'[x.flow].zone
    BY DEF RunsAreReplays
  <2>1. /\ x.flow \in FlowIds /\ flowRows'[x.flow] = flowRows[x.flow] /\ flowRows[x.flow] # None
    BY DEF ReplayInv, RunsAreReplays
  <2>2. PICK m \in 1 .. readTo : /\ topic[m].by = x.by /\ topic[m].item = x.item
                                 /\ topic[m].payload.zone = flowRows[x.flow].zone
    BY DEF ReplayInv, RunsAreReplays
  <2>3. m \in DOMAIN topic
    BY <1>1
  <2>4. topic'[m] = topic[m]
    BY <2>3 DEF Grows
  <2> QED BY <2>1, <2>2, <2>4
<1>5. /\ at'[c] = l /\ held'[c] = h /\ reply'[c] = r
      /\ \A d \in Calls : d # c => at'[d] = at[d] /\ held'[d] = held[d] /\ reply'[d] = reply[d]
  BY <1>1
<1>6. HandlersReplay'
  <2> SUFFICES ASSUME NEW d \in Calls PROVE ReplayKnows(d, at[d], held[d], reply[d])'
    BY DEF HandlersReplay
  <2>1. PICK l1, h1, r1 : l1 = at'[d] /\ h1 = held'[d] /\ r1 = reply'[d]
    OBVIOUS
  <2>2. ReplayKnows(d, l1, h1, r1)'
    <3>1. CASE d = c
      BY <1>5, <2>1, <3>1
    <3>2. CASE d # c
      <4>1. ReplayKnows(d, l1, h1, r1)
        BY <1>5, <2>1, <3>2 DEF ReplayInv, HandlersReplay
      <4>2. flowRows'[d] = flowRows[d]
        BY <3>2 DEF FlowIds
      <4> QED BY <3>2, <4>1, <4>2, ReplayKnowsStays
    <3> QED BY <3>1, <3>2
  <2> QED BY <2>1, <2>2 DEF ReplayKnows, Tells, Sent
<1> QED BY <1>2, <1>3, <1>4, <1>6 DEF ReplayInv

(* The same for a step that neither sends nor creates. *)
LEMMA ReplayAside ==
    ASSUME ReplayInv, NEW c \in Calls, NEW l, l # "start", NEW h, NEW r, ask' = ask,
           at' = [at EXCEPT ![c] = l], held' = [held EXCEPT ![c] = h],
           reply' = [reply EXCEPT ![c] = r], UNCHANGED flowApiVars, ReplayKnows(c, l, h, r)
    PROVE  ReplayInv'
<1>1. /\ topic' = topic /\ flowRows' = flowRows /\ past' = past /\ readTo' = readTo
      /\ executions' = executions
  BY DEF flowApiVars
<1>2. ReplayKnows(c, l, h, r)'
  BY <1>1 DEF ReplayKnows, Tells, Sent
<1>3. flowRows' \in [FlowIds -> FlowRows \cup {None}]
  BY <1>1 DEF ReplayInv, FlowApiTypeOK
<1>4. Grows(c, 0)
  BY <1>1, TopicSame
<1> QED BY <1>1, <1>2, <1>3, <1>4, ReplayMoves

(* A call is answered, and the replays it reports, if any, are not all. *)
LEMMA ReplayAnswers ==
    ASSUME ReplayInv, NEW c \in Calls, Refuse(c) \/ Ok(c), UNCHANGED flowApiVars,
           Ok(c) /\ held[c] # None => ask[c].op \notin ReplayOps
    PROVE  ReplayInv'
<1>1. PICK h, r : h = held[c] /\ r = reply'[c]
  OBVIOUS
<1>2. /\ ask' = ask /\ at' = [at EXCEPT ![c] = "done"] /\ held' = [held EXCEPT ![c] = h]
      /\ reply' = [reply EXCEPT ![c] = r]
      /\ (r = "refused" \/ Ok(c)) /\ r \in {"ok", "refused"}
  BY <1>1 DEF Refuse, Ok, Answer, ReplayInv, FlowApiTypeOK
<1>3. ReplayKnows(c, at[c], h, reply[c])
  BY <1>1 DEF ReplayInv, HandlersReplay
<1>4. ReplayKnows(c, "done", h, r)
  BY <1>1, <1>2, <1>3 DEF ReplayKnows
<1> QED BY <1>2, <1>4, ReplayAside

(* CreateFlow: no flow has run under its name. *)
LEMMA CreateFlowKeeps ==
    ASSUME ReplayInv, NEW c \in Calls, CreateFlow(c)
    PROVE  ReplayInv'
<1>1. at[c] = "start" /\ ask[c].op = "createflow" /\ UNCHANGED <<past, topic, readTo, executions>>
  BY DEF CreateFlow, Begins, Serving
<1>2. CASE Refuse(c) /\ UNCHANGED flowRows
  <2>1. UNCHANGED flowApiVars /\ ~Ok(c)
    BY <1>1, <1>2 DEF CreateFlow, flowApiVars, Refuse, Ok, Answer, ReplayInv, FlowApiTypeOK
  <2> QED BY <1>2, <2>1, ReplayAnswers
<1>3. CASE flowRows' = [flowRows EXCEPT ![c] = ask[c].flow] /\ Ok(c)
  <2>1. PICK h : h = held[c]
    OBVIOUS
  <2>2. ReplayKnows(c, "start", h, reply[c])
    BY <1>1, <2>1 DEF ReplayInv, HandlersReplay
  <2>3. ask[c].flow \in FlowRows /\ c \in FlowIds
    BY <1>1 DEF ReplayInv, FlowApiTypeOK, FlowAsks, FlowIds
  <2>4. /\ flowRows' \in [FlowIds -> FlowRows \cup {None}]
        /\ \A f \in FlowIds : flowRows'[f] = flowRows[f] \/ (f = c /\ flowRows[f] = None)
    BY <1>3, <2>2, <2>3 DEF ReplayInv, FlowApiTypeOK, ReplayKnows
  <2>5. /\ ask' = ask /\ at' = [at EXCEPT ![c] = "done"] /\ held' = [held EXCEPT ![c] = h]
        /\ reply' = [reply EXCEPT ![c] = "ok"]
    BY <1>3, <2>1 DEF Ok, Answer, ReplayInv, FlowApiTypeOK
  <2>6. ReplayKnows(c, "done", h, "ok")'
    BY <1>1, <2>2, <2>5 DEF ReplayKnows, ReplayOps
  <2>7. Grows(c, 0)
    BY <1>1, TopicSame
  <2> QED BY <1>1, <2>4, <2>5, <2>6, <2>7, ReplayMoves
<1> QED BY <1>2, <1>3 DEF CreateFlow

(* POST /v1/events/<id>/replay *)
LEMMA ReplayEventKeeps ==
    ASSUME ReplayInv, NEW c \in Calls, ReplayEvent(c)
    PROVE  ReplayInv'
<1>1. PICK result \in {"success", "error"} :
        /\ ReplayItem(c, 1, result) /\ held' = [held EXCEPT ![c] = Outcome(<<result>>, <<>>)]
        /\ Answer(c, IF result = "success" THEN "ok" ELSE "refused")
  BY DEF ReplayEvent, Hold
<1>2. /\ at[c] = "start" /\ ask[c].op = "replay"
      /\ UNCHANGED <<flowRows, past, readTo, executions>>
  BY DEF ReplayEvent, Begins, Serving
<1>3. /\ flowRows \in [FlowIds -> FlowRows \cup {None}] /\ Len(ask[c].ids) = 1
      /\ \A m \in DOMAIN topic : topic[m].by # c
  BY <1>2 DEF ReplayInv, FlowApiTypeOK, FlowAsks, HandlersReplay, ReplayKnows
<1>4. PICK results, h, r : results = <<result>> /\ h = Outcome(results, <<>>)
                          /\ r = IF result = "success" THEN "ok" ELSE "refused"
  OBVIOUS
<1>5. /\ results \in ReplayResults /\ Len(results) = 1 /\ DOMAIN results = {1}
      /\ results[1] = result
  BY <1>4 DEF ReplayResults
<1>6. h.results = results /\ h # None
  BY <1>4, <1>5, OutcomeIsOutcome
<1>7. 1 \in Nat \ {0}
  OBVIOUS
<1>8. Grows(c, 1) /\ (result = "success" => Sent(c, 1)')
  BY <1>1, <1>7, ItemIsSent
<1>9. ask' = ask /\ at' = [at EXCEPT ![c] = "done"] /\ reply' = [reply EXCEPT ![c] = r]
      /\ held' = [held EXCEPT ![c] = h]
  BY <1>1, <1>4 DEF Answer
<1>10. Tells(c, results)'
  <2>1. \A n \in DOMAIN results : results[n] = "success" => Sent(c, n)'
    BY <1>5, <1>8
  <2>2. \A m \in DOMAIN topic' : topic'[m].by = c => topic'[m].item \in DOMAIN results
    BY <1>3, <1>5, <1>8 DEF Grows
  <2>3. Len(ask'[c].ids) = 1
    BY <1>3, <1>9, Zenon
  <2>4. Len(results) <= Len(ask'[c].ids)
    BY <1>5, <2>3
  <2> QED BY <1>5, <2>1, <2>2, <2>4 DEF Tells
<1>11. ReplayKnows(c, "done", h, r)'
  BY <1>3, <1>5, <1>6, <1>9, <1>10 DEF ReplayKnows
<1> QED BY <1>2, <1>3, <1>8, <1>9, <1>11, ReplayMoves

(* The next event of a bulk. *)
LEMMA NextReplayKeeps ==
    ASSUME ReplayInv, NEW c \in Calls, Serving(c, "bulkreplay", "each"),
           NEW done, done = held[c].results, NEW n, n = Len(done) + 1,
           n <= Len(ask[c].ids), NEW result \in {"success", "error"}, ReplayItem(c, n, result),
           Hold(c, Outcome(Append(done, result), <<>>)), Goto(c, "each"),
           UNCHANGED <<flowRows, past, readTo, executions>>
    PROVE  ReplayInv'
<1>1. /\ at[c] = "each" /\ ask[c].op = "bulkreplay" /\ held[c] # None /\ reply[c] = "none"
      /\ Tells(c, done)
  BY DEF Serving, ReplayInv, HandlersReplay, ReplayKnows, ReplayOps
<1>2. done \in ReplayResults
  BY <1>1 DEF Tells
<1>3. PICK results, h : results = Append(done, result) /\ h = Outcome(results, <<>>)
  OBVIOUS
<1>4. /\ results \in ReplayResults /\ Len(results) = n /\ n \in Nat \ {0}
      /\ \A k \in DOMAIN done : k \in DOMAIN results /\ results[k] = done[k] /\ k < n
      /\ n \in DOMAIN results /\ results[n] = result
      /\ \A k \in DOMAIN results : k \in DOMAIN done \/ k = n
  BY <1>2, <1>3, OneMoreReplay DEF ReplayResults
<1>5. h.results = results /\ h # None
  BY <1>3, <1>4, OutcomeIsOutcome
<1>6. Grows(c, n) /\ (result = "success" => Sent(c, n)')
  BY <1>4, ItemIsSent
<1>7. /\ ask' = ask /\ at' = [at EXCEPT ![c] = "each"] /\ held' = [held EXCEPT ![c] = h]
      /\ reply' = [reply EXCEPT ![c] = "none"]
  BY <1>1, <1>3 DEF Goto, Hold, ReplayInv, FlowApiTypeOK
<1>8. Tells(c, results)'
  <2>1. ASSUME NEW k \in DOMAIN results, results[k] = "success" PROVE Sent(c, k)'
    <3>1. CASE k \in DOMAIN done
      <4>1. PICK m \in DOMAIN topic : topic[m].by = c /\ topic[m].item = k
        BY <1>1, <1>4, <2>1, <3>1 DEF Tells, Sent
      <4> QED BY <1>6, <4>1 DEF Sent, Grows
    <3>2. CASE k = n
      BY <1>4, <1>6, <2>1, <3>2
    <3> QED BY <1>4, <3>1, <3>2
  <2>2. ASSUME NEW m \in DOMAIN topic', topic'[m].by = c PROVE topic'[m].item \in DOMAIN results
    <3>1. CASE m \in DOMAIN topic
      BY <1>1, <1>4, <1>6, <2>2, <3>1 DEF Grows, Tells
    <3>2. CASE m \notin DOMAIN topic
      BY <1>4, <1>6, <3>2 DEF Grows
    <3> QED BY <3>1, <3>2
  <2> QED BY <1>4, <1>7, <2>1, <2>2 DEF Tells
<1>9. \A m \in DOMAIN topic : topic[m].by = c => topic[m].item < n
  BY <1>1, <1>4 DEF Tells
<1>10. ReplayKnows(c, "each", h, "none")'
  BY <1>1, <1>5, <1>7, <1>8 DEF ReplayKnows
<1>11. flowRows' \in [FlowIds -> FlowRows \cup {None}]
  BY DEF ReplayInv, FlowApiTypeOK
<1> QED BY <1>6, <1>7, <1>9, <1>10, <1>11, ReplayMoves

(* BulkReplayEvents *)
LEMMA BulkReplayKeeps ==
    ASSUME ReplayInv, NEW c \in Calls, BulkReplayEvents(c)
    PROVE  ReplayInv'
<1>1. CASE Begins(c, "bulkreplay")
  <2>1. at[c] = "start" /\ ask[c].op = "bulkreplay" /\ UNCHANGED flowApiVars
    BY <1>1 DEF BulkReplayEvents, Begins, Serving
  <2>2. CASE Refuse(c)
    <3>1. ~Ok(c)
      BY <2>2 DEF Refuse, Ok, Answer, ReplayInv, FlowApiTypeOK
    <3> QED BY <2>1, <2>2, <3>1, ReplayAnswers
  <2>3. CASE Hold(c, Outcome(<<>>, <<>>)) /\ Goto(c, "each")
    <3>1. PICK h, done : h = Outcome(done, <<>>) /\ done = <<>>
      OBVIOUS
    <3>2. ReplayKnows(c, "start", held[c], reply[c])
      BY <2>1 DEF ReplayInv, HandlersReplay
    <3>3. /\ ask' = ask /\ at' = [at EXCEPT ![c] = "each"] /\ held' = [held EXCEPT ![c] = h]
          /\ reply' = [reply EXCEPT ![c] = "none"]
      BY <2>3, <3>1, <3>2 DEF Goto, Hold, ReplayInv, FlowApiTypeOK, ReplayKnows
    <3>4. done \in ReplayResults /\ Len(done) = 0 /\ DOMAIN done = {}
      BY <3>1 DEF ReplayResults
    <3>5. h.results = done /\ h # None
      BY <3>1, <3>4, OutcomeIsOutcome
    <3>6. Len(ask[c].ids) \in Nat
      BY <2>1 DEF ReplayInv, FlowApiTypeOK, FlowAsks
    <3>7. Tells(c, done)
      BY <3>2, <3>4, <3>6 DEF Tells, ReplayKnows
    <3>8. ReplayKnows(c, "each", h, "none")
      BY <2>1, <3>5, <3>7 DEF ReplayKnows
    <3> QED BY <2>1, <3>3, <3>8, ReplayAside
  <2> QED BY <1>1, <2>1, <2>2, <2>3 DEF BulkReplayEvents, Begins, Serving
<1>2. CASE Serving(c, "bulkreplay", "each")
  <2>1. PICK done, n : done = held[c].results /\ n = Len(done) + 1
    OBVIOUS
  <2>2. UNCHANGED <<flowRows, past, arrived, readTo, executions>>
    BY <1>2 DEF BulkReplayEvents, Begins, Serving, flowApiVars
  <2>3. CASE n > Len(ask[c].ids) /\ Ok(c) /\ UNCHANGED topic
    <3>1. PICK h : h = held[c]
      OBVIOUS
    <3>2. ReplayKnows(c, "each", h, reply[c]) /\ ask[c].op = "bulkreplay"
      BY <1>2, <3>1 DEF ReplayInv, HandlersReplay, Serving
    <3>3. h # None /\ Tells(c, done) /\ done = h.results
      BY <2>1, <3>1, <3>2 DEF ReplayKnows, ReplayOps
    <3>4. Len(done) \in Nat /\ Len(ask[c].ids) \in Nat /\ Len(done) <= Len(ask[c].ids)
      BY <3>2, <3>3 DEF Tells, ReplayResults, ReplayInv, FlowApiTypeOK, FlowAsks
    <3>5. Len(done) = Len(ask[c].ids)
      BY <2>1, <2>3, <3>4
    <3>6. ReplayKnows(c, "done", h, "ok")
      BY <3>2, <3>3, <3>5 DEF ReplayKnows
    <3>7. /\ ask' = ask /\ at' = [at EXCEPT ![c] = "done"] /\ held' = [held EXCEPT ![c] = h]
          /\ reply' = [reply EXCEPT ![c] = "ok"]
      BY <2>3, <3>1 DEF Ok, Answer, ReplayInv, FlowApiTypeOK
    <3>8. UNCHANGED flowApiVars
      BY <2>2, <2>3 DEF flowApiVars
    <3> QED BY <3>6, <3>7, <3>8, ReplayAside
  <2>4. CASE \E result \in {"success", "error"} :
               /\ n <= Len(ask[c].ids) /\ ReplayItem(c, n, result)
               /\ Hold(c, Outcome(Append(done, result), <<>>)) /\ Goto(c, "each")
    BY <1>2, <2>1, <2>2, <2>4, NextReplayKeeps
  <2> QED BY <1>2, <2>1, <2>3, <2>4 DEF BulkReplayEvents, Begins, Serving
<1> QED BY <1>1, <1>2 DEF BulkReplayEvents

(* GetPastEvents *)
LEMMA PastKeeps ==
    ASSUME ReplayInv, NEW c \in Calls, GetPastEvents(c)
    PROVE  ReplayInv'
<1>1. at[c] = "start" /\ ask[c].op = "past" /\ UNCHANGED flowApiVars
  BY DEF GetPastEvents, Begins, Serving
<1>2. CASE Refuse(c)
  BY <1>1, <1>2, ReplayAnswers DEF ReplayOps
<1>3. CASE \E h : Hold(c, h) /\ Answer(c, "ok")
  <2>1. PICK h : Hold(c, h) /\ Answer(c, "ok")
    BY <1>3
  <2>2. ReplayKnows(c, "start", held[c], reply[c])
    BY <1>1 DEF ReplayInv, HandlersReplay
  <2>3. ReplayKnows(c, "done", h, "ok")
    BY <1>1, <2>2 DEF ReplayKnows, ReplayOps
  <2> QED BY <1>1, <2>1, <2>3, ReplayAside DEF Hold, Answer
<1> QED BY <1>2, <1>3 DEF GetPastEvents

(* An event is stored, or not. *)
LEMMA StoreEventKeeps ==
    ASSUME ReplayInv, NEW e \in Arriving, StoreEvent(e)
    PROVE  ReplayInv'
<1>1. UNCHANGED <<ask, at, held, reply, flowRows, topic, readTo, executions>>
  BY DEF StoreEvent, callVars
<1>2. past' \in Seq(EventRows)
  <2>1. past \in Seq(EventRows) /\ e \in EventRows
    BY FlowApiAssumption DEF ReplayInv, FlowApiTypeOK
  <2>2. past' = Append(past, e) \/ past' = past
    BY DEF StoreEvent
  <2> QED BY <2>1, <2>2
<1>3. FlowApiTypeOK'
  BY <1>1, <1>2 DEF ReplayInv, FlowApiTypeOK
<1> QED BY <1>1, <1>3 DEF ReplayInv, TopicInOrder, RunsAreReplays, HandlersReplay, ReplayKnows,
                          Tells, Sent

(* The runner reads a message, and runs flows of the zone that it names. *)
LEMMA ConsumeKeeps ==
    ASSUME ReplayInv, ConsumeReplay
    PROVE  ReplayInv'
<1>1. /\ UNCHANGED <<ask, at, held, reply, flowRows, past, topic>>
      /\ readTo < Len(topic) /\ readTo' = readTo + 1 /\ readTo \in Nat /\ Len(topic) \in Nat
  <2>1. readTo \in Nat /\ topic \in Seq(Messages)
    BY DEF ReplayInv, FlowApiTypeOK
  <2>2. UNCHANGED <<callVars, flowRows, past, topic>> /\ readTo < Len(topic) /\ readTo' = readTo + 1
    BY DEF ConsumeReplay
  <2> QED BY <2>1, <2>2 DEF callVars
<1>2. PICK m : m = topic[readTo + 1]
  OBVIOUS
<1>3. ASSUME NEW x \in executions', x \notin executions
      PROVE  /\ x.flow \in FlowIds /\ flowRows[x.flow] # None
             /\ m.by = x.by /\ m.item = x.item /\ m.payload.zone = flowRows[x.flow].zone
  <2>1. PICK f \in ListFlows(m.payload.zone) : x = [flow |-> f, by |-> m.by, item |-> m.item]
    BY <1>2, <1>3 DEF ConsumeReplay
  <2> QED BY <2>1 DEF ListFlows
<1>4. RunsAreReplays'
  <2> SUFFICES ASSUME NEW x \in executions'
               PROVE  /\ x.flow \in FlowIds /\ flowRows[x.flow] # None
                      /\ \E k \in 1 .. (readTo + 1) :
                           /\ topic[k].by = x.by /\ topic[k].item = x.item
                           /\ topic[k].payload.zone = flowRows[x.flow].zone
    BY <1>1 DEF RunsAreReplays
  <2>1. CASE x \in executions
    <3>1. 1 .. readTo \subseteq 1 .. (readTo + 1)
      BY <1>1
    <3> QED BY <2>1, <3>1 DEF ReplayInv, RunsAreReplays
  <2>2. CASE x \notin executions
    <3>1. readTo + 1 \in 1 .. (readTo + 1)
      BY <1>1
    <3> QED BY <1>2, <1>3, <2>2, <3>1
  <2> QED BY <2>1, <2>2
<1>5. FlowApiTypeOK'
  BY <1>1 DEF ReplayInv, FlowApiTypeOK
<1> QED BY <1>1, <1>4, <1>5 DEF ReplayInv, TopicInOrder, HandlersReplay, ReplayKnows, Tells, Sent

LEMMA ReplayStep == ReplayInv /\ [FlowApiNext]_flowAllVars => ReplayInv'
<1> SUFFICES ASSUME ReplayInv, [FlowApiNext]_flowAllVars PROVE ReplayInv'
  OBVIOUS
<1>1. CASE UNCHANGED flowAllVars
  BY <1>1 DEF flowAllVars, flowApiVars, callVars, ReplayInv, FlowApiTypeOK, TopicInOrder,
              RunsAreReplays, HandlersReplay, ReplayKnows, Tells, Sent
<1>2. ASSUME NEW c \in Calls, Malformed(c), UNCHANGED flowApiVars PROVE ReplayInv'
  <2>1. Refuse(c) /\ ~Ok(c)
    BY <1>2 DEF Malformed, Refuse, Ok, Answer, ReplayInv, FlowApiTypeOK
  <2> QED BY <1>2, <2>1, ReplayAnswers
<1>3. ASSUME NEW c \in Calls, ReadFlows(c) PROVE ReplayInv'
  BY <1>3, ReplayAnswers DEF ReadFlows, Begins, Serving, ReplayOps
<1>4. ASSUME NEW c \in Calls, ReadExecutions(c) PROVE ReplayInv'
  BY <1>4, ReplayAnswers DEF ReadExecutions, Begins, Serving, ReplayOps
<1> QED BY <1>1, <1>2, <1>3, <1>4, CreateFlowKeeps, PastKeeps, ReplayEventKeeps, BulkReplayKeeps,
           StoreEventKeeps, ConsumeKeeps DEF FlowApiNext

(* Replays are accounted for, whatever is stored or replayed meanwhile and *)
(* whatever Kafka reports, for any events, flows and requests              *)
(* (BulkReplayEvents, RetriggerEvent, the consumer of the runner).         *)
THEOREM ReplaysHold == FlowApiSpec => []ReplaysAreAccountedFor
<1>1. ReplayInv => ReplaysAreAccountedFor
  <2> SUFFICES ASSUME ReplayInv PROVE ReplaysAreAccountedFor
    OBVIOUS
  <2>1. ASSUME NEW c \in Calls, ask[c].op \in {"replay", "bulkreplay"}, held[c] # None
        PROVE  /\ reply[c] = "ok" => Len(held[c].results) = Len(ask[c].ids)
               /\ \A n \in DOMAIN held[c].results : held[c].results[n] = "success" => Sent(c, n)
               /\ \A n \in 1 .. Len(ask[c].ids) : Sent(c, n) => n \in DOMAIN held[c].results
    BY <2>1 DEF ReplayInv, HandlersReplay, ReplayKnows, ReplayOps, Tells, Sent
  <2> QED BY <2>1 DEF ReplayInv, TopicInOrder, RunsAreReplays, ReplaysAreAccountedFor
<1> QED BY <1>1, ReplayStarts, ReplayStep, PTL DEF FlowApiSpec

-----------------------------------------------------------------------------
(* Fraud *)

FraudAsks == [op : {"payment"}, bad : BOOLEAN, type : STRING, user : Users, amount : Int]

fraudAllVars == <<fraudVars, callVars>>

(* The fraud service, with any number of payments and restarts. *)
FraudSpec ==
    /\ CallsInit([Calls -> FraudAsks]) /\ FraudInit
    /\ [][FraudNext]_fraudAllVars

FraudTypeOK ==
    /\ ask \in [Calls -> FraudAsks]
    /\ at \in [Calls -> {"start", "alert", "done"}]
    /\ held \in [Calls -> Judgements \cup {None}]
    /\ time \in Nat /\ starts \in Nat
    /\ history \in [Users -> SUBSET [of : Calls, time : Nat]]

(* A payment is judged once, by now. *)
JudgedByNow ==
    \A c \in Calls :
        /\ at[c] = "start" => held[c] = None
        /\ at[c] = "alert" => held[c] # None
        /\ held[c] # None => held[c].time <= time /\ held[c].starts <= starts

(* The history has payments that this process has judged, *)
HistoryIsTrue ==
    \A u \in Users : \A h \in history[u] :
        /\ held[h.of] # None /\ ask[h.of].user = u
        /\ held[h.of].starts = starts /\ held[h.of].time = h.time

(* and all of them whose time is in the window that ends now. *)
HistoryIsWhole ==
    \A d \in Calls :
        held[d] # None /\ held[d].starts = starts /\ time - held[d].time < Window =>
          [of |-> d, time |-> held[d].time] \in history[ask[d].user]

(* The three parts of what is to be shown. *)
FastIsCounted(c) == "VelocityRule" \in held[c].failed => Cardinality(Recent(c)) > Threshold
CountedIsFast(c) ==
    Cardinality(Recent(c)) > Threshold =>
      \E d \in Recent(c) : held[d].time = held[c].time /\ "VelocityRule" \in held[d].failed
AmountIsTold(c) == "AmountRule" \in held[c].failed <=> ask[c].amount > Limit

JudgedRightly ==
    \A c \in Calls : held[c] # None => FastIsCounted(c) /\ CountedIsFast(c) /\ AmountIsTold(c)

AlertsAreBacked ==
    \A a \in alerts : a[1] \in Calls /\ held[a[1]] # None /\ a[2] \in held[a[1]].failed

FraudInv ==
    FraudTypeOK /\ JudgedByNow /\ HistoryIsTrue /\ HistoryIsWhole /\ JudgedRightly /\ AlertsAreBacked

LEMMA FraudStarts == CallsInit([Calls -> FraudAsks]) /\ FraudInit => FraudInv
<1> SUFFICES ASSUME CallsInit([Calls -> FraudAsks]), FraudInit PROVE FraudInv
  OBVIOUS
<1>1. /\ ask \in [Calls -> FraudAsks] /\ at = [c \in Calls |-> "start"]
      /\ held = [c \in Calls |-> None] /\ time = 0 /\ starts = 0 /\ alerts = {}
      /\ history = [u \in Users |-> {}]
  BY DEF CallsInit, FraudInit
<1>2. FraudTypeOK
  BY <1>1 DEF FraudTypeOK
<1> QED BY <1>1, <1>2 DEF FraudInv, JudgedByNow, HistoryIsTrue, HistoryIsWhole, JudgedRightly,
                          AlertsAreBacked

(* Payments are as many as their times. *)
LEMMA TimesCount ==
    ASSUME NEW R, R \subseteq Calls, NEW T, NEW W, W = {[of |-> d, time |-> T[d]] : d \in R}
    PROVE  Cardinality(W) = Cardinality(R)
<1>1. IsFiniteSet(R)
  BY FS_Subset, CallsAssumption
<1> DEFINE f == [d \in R |-> [of |-> d, time |-> T[d]]]
<1>2. f \in [R -> W] /\ \A w \in W : \E d \in R : f[d] = w
  OBVIOUS
<1>3. \A d, e \in R : f[d] = f[e] => d = e
  <2> SUFFICES ASSUME NEW d \in R, NEW e \in R, f[d] = f[e] PROVE d = e
    OBVIOUS
  <2>1. f[d].of = d /\ f[e].of = e
    OBVIOUS
  <2> QED BY <2>1
<1> HIDE DEF f
<1>4. f \in Bijection(R, W)
  <2>1. IsInjective(f)
    BY <1>2, <1>3 DEF IsInjective
  <2> QED BY <1>2, <2>1 DEF Bijection, Injection, Surjection
<1>5. ExistsBijection(R, W)
  BY <1>4 DEF ExistsBijection
<1> QED BY <1>1, <1>5, FS_Bijection

(* More payments do not count less. *)
LEMMA MoreCount ==
    ASSUME NEW R, NEW S, R \subseteq S, S \subseteq Calls, Cardinality(R) > Threshold
    PROVE  Cardinality(S) > Threshold
<1>1. IsFiniteSet(S)
  BY FS_Subset, CallsAssumption
<1>2. Cardinality(R) <= Cardinality(S) /\ Cardinality(R) \in Nat /\ Cardinality(S) \in Nat
  BY <1>1, FS_Subset, FS_CardinalityType
<1> QED BY <1>2, FraudAssumption

(* Engine.Check judges a payment. *)
LEMMA JudgeKeeps ==
    ASSUME FraudInv, NEW c \in Calls, at[c] = "start", Check(c), ask' = ask, NEW l,
           at' = [at EXCEPT ![c] = l], l \in {"alert", "done"}, UNCHANGED <<time, starts, alerts>>
    PROVE  FraudInv'
<1>1. PICK u, W, F, v :
        /\ u = ask[c].user /\ W = Noted(c)
        /\ F = (IF AmountFails(ask[c].amount) THEN {"AmountRule"} ELSE {})
                 \cup (IF TooMany(c) THEN {"VelocityRule"} ELSE {})
        /\ v = Judged(F)
  OBVIOUS
<1>2. history' = [history EXCEPT ![u] = W] /\ held' = [held EXCEPT ![c] = v]
  BY <1>1 DEF Check, Hold
<1>3. /\ F \subseteq {"AmountRule", "VelocityRule"}
      /\ v = [failed |-> F, time |-> time, starts |-> starts]
      /\ "AmountRule" \in F <=> ask[c].amount > Limit
      /\ "VelocityRule" \in F <=> Cardinality(W) > Threshold
  BY <1>1 DEF Judged, AmountFails, TooMany
<1>4. /\ time \in Nat /\ starts \in Nat /\ u \in Users /\ held \in [Calls -> Judgements \cup {None}]
      /\ history \in [Users -> SUBSET [of : Calls, time : Nat]]
      /\ at \in [Calls -> {"start", "alert", "done"}] /\ ask \in [Calls -> FraudAsks]
  BY <1>1 DEF FraudInv, FraudTypeOK, FraudAsks
<1>5. v \in Judgements /\ v # None /\ v.failed = F /\ v.time = time /\ v.starts = starts
  <2>1. F \in SUBSET {"AmountRule", "VelocityRule"}
    BY <1>3
  <2>2. v \in Judgements
    BY <1>3, <1>4, <2>1 DEF Judgements
  <2> QED BY <1>3, <2>2, FraudAssumption
<1>6. held'[c] = v /\ at'[c] = l /\ \A d \in Calls : d # c => held'[d] = held[d] /\ at'[d] = at[d]
  BY <1>2, <1>4
<1>7. held[c] = None
  BY DEF FraudInv, JudgedByNow
<1>8. PICK entry : entry = [of |-> c, time |-> time]
  OBVIOUS
<1>9. W = {h \in history[u] \cup {entry} : time - h.time < Window}
  BY <1>1, <1>8 DEF Noted, Fresh
<1>10. /\ entry.of = c /\ entry.time = time /\ entry \in [of : Calls, time : Nat]
  BY <1>4, <1>8
<1>11. history' \in [Users -> SUBSET [of : Calls, time : Nat]]
       /\ history'[u] = W /\ \A w \in Users : w # u => history'[w] = history[w]
  BY <1>2, <1>4, <1>9, <1>10
<1>12. FraudTypeOK'
  BY <1>2, <1>4, <1>5, <1>11 DEF FraudTypeOK
<1>13. JudgedByNow'
  BY <1>4, <1>5, <1>6 DEF FraudInv, JudgedByNow
<1>14. HistoryIsTrue'
  <2> SUFFICES ASSUME NEW w \in Users, NEW h \in history'[w]
               PROVE  /\ held'[h.of] # None /\ ask[h.of].user = w
                      /\ held'[h.of].starts = starts /\ held'[h.of].time = h.time
    BY DEF HistoryIsTrue
  <2>1. CASE h = entry /\ w = u
    BY <1>1, <1>5, <1>6, <1>10, <2>1
  <2>2. CASE h \in history[w]
    <3>1. /\ held[h.of] # None /\ ask[h.of].user = w /\ h.of \in Calls
          /\ held[h.of].starts = starts /\ held[h.of].time = h.time
      BY <1>4, <2>2 DEF FraudInv, HistoryIsTrue
    <3> QED BY <1>6, <1>7, <3>1
  <2> QED BY <1>9, <1>11, <2>1, <2>2
<1>15. HistoryIsWhole'
  <2> SUFFICES ASSUME NEW d \in Calls, held'[d] # None, held'[d].starts = starts,
                      time - held'[d].time < Window
               PROVE  [of |-> d, time |-> held'[d].time] \in history'[ask[d].user]
    BY DEF HistoryIsWhole
  <2>1. CASE d = c
    BY <1>1, <1>5, <1>6, <1>8, <1>9, <1>10, <1>11, <2>1
  <2>2. CASE d # c
    <3>1. PICK h : h = [of |-> d, time |-> held[d].time]
      OBVIOUS
    <3>2. h \in history[ask[d].user] /\ ask[d].user \in Users /\ h.time = held[d].time
      BY <1>4, <1>6, <2>2, <3>1 DEF FraudInv, HistoryIsWhole, FraudAsks
    <3>3. h \in history'[ask[d].user]
      BY <1>6, <1>9, <1>11, <2>2, <3>2
    <3> QED BY <1>6, <2>2, <3>1, <3>3
  <2> QED BY <2>1, <2>2
<1>16. PICK R, T : R = Recent(c)' /\ T = [d \in Calls |-> held'[d].time]
  OBVIOUS
<1>17. \A d \in Calls : ask[d].op = "payment"
  BY <1>4 DEF FraudAsks
<1>18. /\ R \subseteq Calls
       /\ \A d \in Calls : d \in R <=> /\ held'[d] # None /\ ask[d].user = u
                                       /\ held'[d].starts = starts
                                       /\ held'[d].time <= time /\ time - held'[d].time < Window
  BY <1>1, <1>5, <1>6, <1>16, <1>17 DEF Recent
<1>19. W = {[of |-> d, time |-> T[d]] : d \in R}
  <2>1. ASSUME NEW h \in W PROVE \E d \in R : h = [of |-> d, time |-> T[d]]
    <3>1. h \in history'[u] /\ h \in [of : Calls, time : Nat] /\ time - h.time < Window
      BY <1>4, <1>9, <1>10, <1>11
    <3>2. /\ held'[h.of] # None /\ ask[h.of].user = u
          /\ held'[h.of].starts = starts /\ held'[h.of].time = h.time
      BY <1>4, <1>14, <3>1 DEF HistoryIsTrue
    <3>3. h.of \in R
      BY <1>13, <1>18, <3>1, <3>2 DEF JudgedByNow
    <3> QED BY <1>16, <1>18, <3>1, <3>2, <3>3
  <2>2. ASSUME NEW d \in R PROVE [of |-> d, time |-> T[d]] \in W
    BY <1>11, <1>15, <1>16, <1>18 DEF HistoryIsWhole
  <2> QED BY <2>1, <2>2
<1>20. Cardinality(W) = Cardinality(R)
  BY <1>18, <1>19, TimesCount
<1>21. FastIsCounted(c)' /\ AmountIsTold(c)'
  BY <1>3, <1>5, <1>6, <1>16, <1>20 DEF FastIsCounted, AmountIsTold
<1>22. Cardinality(R) > Threshold => c \in R /\ "VelocityRule" \in F
  <2> SUFFICES ASSUME Cardinality(R) > Threshold PROVE c \in R
    BY <1>3, <1>20
  <2>1. R # {}
    BY FS_EmptySet, FraudAssumption
  <2>2. PICK d \in R : TRUE
    BY <2>1
  <2>3. held'[d].time \in Nat /\ held'[d].time <= time /\ time - held'[d].time < Window
    BY <1>5, <1>6, <1>4, <1>18, <2>2 DEF Judgements
  <2>4. 0 < Window
    BY <1>4, <2>3, FraudAssumption
  <2> QED BY <1>1, <1>4, <1>5, <1>6, <1>18, <2>4
<1>23. CountedIsFast(c)'
  BY <1>5, <1>6, <1>16, <1>22 DEF CountedIsFast
<1>24. ASSUME NEW e \in Calls, e # c, held[e] # None
       PROVE  FastIsCounted(e)' /\ CountedIsFast(e)' /\ AmountIsTold(e)'
  <2>1. FastIsCounted(e) /\ CountedIsFast(e) /\ AmountIsTold(e) /\ held'[e] = held[e]
    BY <1>6, <1>24 DEF FraudInv, JudgedRightly
  <2>2. PICK S, Z : S = Recent(e) /\ Z = Recent(e)'
    OBVIOUS
  <2>3. S \subseteq Z /\ Z \subseteq Calls /\ c \notin S
    BY <1>6, <1>7, <1>24, <2>2 DEF Recent
  <2>4. FastIsCounted(e)'
    BY <2>1, <2>2, <2>3, MoreCount DEF FastIsCounted
  <2>5. CASE c \notin Z
    <3>1. Z = S
      BY <1>6, <1>24, <2>2, <2>3, <2>5 DEF Recent
    <3> QED BY <1>6, <2>1, <2>2, <2>3, <2>4, <3>1 DEF CountedIsFast, AmountIsTold
  <2>6. CASE c \in Z
    <3>1. /\ ask[c].user = ask[e].user /\ starts = held[e].starts /\ time <= held[e].time
          /\ held[e].time <= time /\ held[e].time \in Nat
      BY <1>4, <1>5, <1>6, <1>24, <2>1, <2>2, <2>6 DEF Recent, FraudInv, JudgedByNow, Judgements
    <3>2. held[e].time = time
      BY <1>4, <3>1
    <3>3. Z = R
      BY <1>1, <1>18, <2>1, <2>2, <2>3, <1>17, <3>1, <3>2 DEF Recent
    <3> QED BY <1>5, <1>6, <1>22, <2>1, <2>2, <2>4, <3>2, <3>3 DEF CountedIsFast, AmountIsTold
  <2> QED BY <2>5, <2>6
<1>25. JudgedRightly'
  BY <1>6, <1>21, <1>23, <1>24 DEF JudgedRightly
<1>26. AlertsAreBacked'
  BY <1>6, <1>7 DEF FraudInv, AlertsAreBacked
<1> QED BY <1>12, <1>13, <1>14, <1>15, <1>25, <1>26 DEF FraudInv

(* No payment is judged: what was judged rightly still is. *)
LEMMA RightlyStays ==
    ASSUME JudgedRightly, ask' = ask, held' = held PROVE JudgedRightly'
<1>1. \A c \in Calls : Recent(c)' = Recent(c)
  BY DEF Recent
<1> QED BY <1>1 DEF JudgedRightly, FastIsCounted, CountedIsFast, AmountIsTold

(* A call is answered, or time passes; nothing is judged. *)
LEMMA FraudAside ==
    ASSUME FraudInv, ask' = ask, held' = held, history' = history, starts' = starts,
           time' \in Nat, time <= time', at' \in [Calls -> {"start", "alert", "done"}],
           \A c \in Calls : at'[c] = "done" \/ at'[c] = at[c], AlertsAreBacked'
    PROVE  FraudInv'
<1>1. /\ time \in Nat /\ starts \in Nat /\ held \in [Calls -> Judgements \cup {None}]
  BY DEF FraudInv, FraudTypeOK
<1>2. FraudTypeOK' /\ JudgedRightly'
  BY RightlyStays DEF FraudInv, FraudTypeOK
<1>3. \A c \in Calls : held[c] # None => held[c].time \in Nat /\ held[c].starts \in Nat
  BY <1>1 DEF Judgements
<1>4. JudgedByNow'
  BY <1>1, <1>3 DEF FraudInv, JudgedByNow
<1>5. HistoryIsTrue'
  BY DEF FraudInv, HistoryIsTrue
<1>6. HistoryIsWhole'
  BY <1>1, <1>3, FraudAssumption DEF FraudInv, HistoryIsWhole
<1> QED BY <1>2, <1>4, <1>5, <1>6 DEF FraudInv

LEMMA FraudStep == FraudInv /\ [FraudNext]_fraudAllVars => FraudInv'
<1> SUFFICES ASSUME FraudInv, [FraudNext]_fraudAllVars PROVE FraudInv'
  OBVIOUS
<1>1. /\ time \in Nat /\ starts \in Nat /\ at \in [Calls -> {"start", "alert", "done"}]
      /\ held \in [Calls -> Judgements \cup {None}] /\ AlertsAreBacked
  BY DEF FraudInv, FraudTypeOK
<1>2. CASE UNCHANGED fraudAllVars
  BY <1>1, <1>2, FraudAside DEF fraudAllVars, fraudVars, callVars, AlertsAreBacked
<1>3. ASSUME NEW c \in Calls, Malformed(c), UNCHANGED fraudVars PROVE FraudInv'
  BY <1>1, <1>3, FraudAside DEF Malformed, Refuse, Answer, fraudVars, AlertsAreBacked
<1>4. ASSUME NEW c \in Calls, HandlePayment(c) PROVE FraudInv'
  <2>1. at[c] = "start" /\ UNCHANGED <<time, starts, alerts>>
    BY <1>4 DEF HandlePayment, Begins, Serving
  <2>2. CASE Ok(c) /\ UNCHANGED history
    BY <1>1, <2>1, <2>2, FraudAside DEF Ok, Answer, AlertsAreBacked
  <2>3. CASE Check(c) /\ (Answer(c, "ok") \/ Goto(c, "alert"))
    BY <2>1, <2>3, JudgeKeeps DEF Answer, Goto
  <2> QED BY <1>4, <2>2, <2>3 DEF HandlePayment
<1>5. ASSUME NEW c \in Calls, PublishAlerts(c) PROVE FraudInv'
  <2>1. PICK told \in SUBSET held[c].failed : alerts' = alerts \cup ({c} \X told)
    BY <1>5 DEF PublishAlerts
  <2>2. at[c] = "alert" /\ UNCHANGED <<time, history, starts>> /\ Ok(c)
    BY <1>5 DEF PublishAlerts, Serving
  <2>3. held[c] # None
    BY <2>2 DEF FraudInv, JudgedByNow
  <2>4. AlertsAreBacked'
    BY <1>1, <2>1, <2>2, <2>3 DEF AlertsAreBacked, Ok
  <2> QED BY <1>1, <2>2, <2>4, FraudAside DEF Ok, Answer
<1>6. ASSUME RestartFraud PROVE FraudInv'
  <2>1. /\ history' = [u \in Users |-> {}] /\ starts' = starts + 1
        /\ UNCHANGED <<time, alerts, ask, held>>
        /\ at' = [c \in Calls |-> IF at[c] = "alert" THEN "done" ELSE at[c]]
    BY <1>6 DEF RestartFraud
  <2>2. FraudTypeOK' /\ JudgedRightly' /\ AlertsAreBacked'
    BY <1>1, <2>1, RightlyStays DEF FraudInv, FraudTypeOK, AlertsAreBacked
  <2>3. \A c \in Calls : held[c] # None => held[c].starts \in Nat /\ held[c].starts <= starts
    BY <1>1 DEF FraudInv, JudgedByNow, Judgements
  <2>4. JudgedByNow'
    BY <1>1, <2>1, <2>3 DEF FraudInv, JudgedByNow
  <2>5. HistoryIsTrue' /\ HistoryIsWhole'
    BY <1>1, <2>1, <2>3 DEF HistoryIsTrue, HistoryIsWhole
  <2> QED BY <2>2, <2>4, <2>5 DEF FraudInv
<1>7. ASSUME PassTime PROVE FraudInv'
  BY <1>1, <1>7, FraudAside DEF PassTime, callVars, AlertsAreBacked
<1> QED BY <1>2, <1>3, <1>4, <1>5, <1>6, <1>7 DEF FraudNext

(* The velocity rule is exact within a process, for any users, window,     *)
(* threshold and payments (VelocityRule.Check, Engine.Check).              *)
THEOREM VelocityHolds == FraudSpec => []VelocityIsExact
<1>1. FraudInv => VelocityIsExact
  BY DEF FraudInv, JudgedRightly, FastIsCounted, CountedIsFast, AmountIsTold, AlertsAreBacked,
         VelocityIsExact
<1> QED BY <1>1, FraudStarts, FraudStep, PTL DEF FraudSpec

-----------------------------------------------------------------------------
(* Debug sessions *)

LogTypes == {"execution_start", "execution_end", "node_start", "node_paused", "node_error",
             "condition_eval", "node_end"}
Hooks == [session : SessionIds, run : Calls]
DebugEvents == [type : LogTypes, node : Nat, by : Calls, of : Calls, nth : Nat]
DebugLogs == Seq(DebugEvents)
SessionRows == [active : BOOLEAN, events : DebugLogs]
TraceEvents == [type : LogTypes, node : Nat]
RunTraces == Seq(TraceEvents)
Waiting == [hook : Hooks, types : Seq(LogTypes)]
NodeOutcomes == {"ok", "paused", "error"}
RunStates == [session : SessionIds, read : Seq(Hooks), left : Seq(Waiting), node : Nat,
              outcome : NodeOutcomes]

DebugAsks ==
    [op : {"debugrun"}, bad : BOOLEAN, nodes : Seq(STRING)]
      \cup [op : DebugOps \ {"debugrun"}, bad : BOOLEAN]

debugAllVars == <<debugVars, callVars>>

(* The debugger, with any number of sessions, runs, nodes and clients. *)
DebugSpec ==
    /\ CallsInit([Calls -> DebugAsks]) /\ DebugInit
    /\ [][DebugNext]_debugAllVars

(* A run has chosen its session; its hook has been added. *)
Started(c) == ask[c].op = "debugrun" /\ ~ask[c].bad /\ at[c] # "start"
Joined(c) == Started(c) /\ at[c] # "addhook"

(* A session that is not going to be made again. *)
Settled(s) ==
    s \in FirstSessions \/ (s \in Calls /\ ask[s].op = "debugsession" /\ at[s] = "done")

DebugTypeOK ==
    /\ ask \in [Calls -> DebugAsks]
    /\ at = [c \in Calls |-> at[c]] /\ held = [c \in Calls |-> held[c]]
    /\ reply = [c \in Calls |-> reply[c]]
    /\ sessions \in [SessionIds -> SessionRows \cup {None}]
    /\ hooks \in Seq(Hooks)
    /\ traces \in [Calls -> RunTraces]
    /\ \A c \in Calls : Started(c) => held[c] \in RunStates

RunStands(c) ==
    /\ at[c] # "done" => reply[c] = "none"
    /\ ask[c].op = "debugrun" =>
         /\ ~Started(c) => held[c] = None /\ at[c] \in {"start", "done"}
         /\ ~Joined(c) => traces[c] = <<>>
         /\ at[c] \in {"addhook", "create", "visit"} \/ Ran(c) =>
              Started(c) /\ held[c].left = <<>>
         /\ Ran(c) => at[c] = "done"
         /\ Started(c) => Settled(held[c].session)

RunsStand == \A c \in Calls : RunStands(c)

(* A hook is that of a run that has added it, for its session; no run has  *)
(* two.                                                                    *)
GoodHook(hook) == Joined(hook.run) /\ hook.session = held[hook.run].session

GoodHooks(list) ==
    /\ \A i \in DOMAIN list : GoodHook(list[i])
    /\ \A i, j \in DOMAIN list : list[i].run = list[j].run => i = j

(* What is left to log are the last events of the trace. *)
LeftFits(left, trace, node) ==
    /\ \A i, j \in DOMAIN left : left[i].hook.run = left[j].hook.run => i = j
    /\ \A i \in DOMAIN left :
         /\ Len(left[i].types) \in 1 .. Len(trace)
         /\ \A k \in 1 .. Len(left[i].types) :
              trace[Len(trace) - Len(left[i].types) + k] = [type |-> left[i].types[k], node |-> node]

LeftStands(c) ==
    /\ \A i \in DOMAIN held[c].left : GoodHook(held[c].left[i].hook)
    /\ LeftFits(held[c].left, traces[c], held[c].node)

HooksStand ==
    /\ GoodHooks(hooks)
    /\ \A c \in Calls : Started(c) /\ at[c] = "addhook" => GoodHooks(held[c].read)
    /\ \A c \in Calls : Started(c) => LeftStands(c)

(* A run whose session is kept and that was not in a race for the hooks. *)
Followed(r) == Joined(r) /\ r \notin raced /\ held[r].session \in Stored
HasHook(r, list) == \E i \in DOMAIN list : list[i].run = r

HooksKept ==
    \A r \in Calls : Followed(r) =>
        /\ HasHook(r, hooks)
        /\ \A c \in Calls : Started(c) /\ at[c] = "addhook" => HasHook(r, held[c].read)

EventStands(e) == ask[e.by].op = "debugrun" => Joined(e.by) /\ Joined(e.of)

EventsStand ==
    \A s \in Stored : \A i \in DOMAIN sessions[s].events : EventStands(sessions[s].events[i])

(* The hook of r has logged the first n events of this trace, but for      *)
(* those it heard nothing of because it came later.                        *)
UpTo(r, trace, left, n) ==
    /\ \A i \in DOMAIN left : left[i].hook.run = r => n = Len(trace) - Len(left[i].types)
    /\ (\A i \in DOMAIN left : left[i].hook.run # r) => n = Len(trace)

LogStands(log, r, q, trace, left) ==
    \A n \in Nat : UpTo(r, trace, left, n) =>
        Follows(log, r, q, trace, n) /\ (q = r => FromTheStart(log, r, n))

LogsStand ==
    \A r, q \in Calls : Followed(r) /\ Joined(q) =>
        LogStands(sessions[held[r].session].events, r, q, traces[q], held[q].left)

DebugInv == DebugTypeOK /\ RunsStand /\ HooksStand /\ HooksKept /\ EventsStand /\ LogsStand

LEMMA DebugStarts == CallsInit([Calls -> DebugAsks]) /\ DebugInit => DebugInv
<1> SUFFICES ASSUME CallsInit([Calls -> DebugAsks]), DebugInit PROVE DebugInv
  OBVIOUS
<1>1. /\ ask \in [Calls -> DebugAsks] /\ at = [c \in Calls |-> "start"]
      /\ held = [c \in Calls |-> None] /\ reply = [c \in Calls |-> "none"]
      /\ sessions = [s \in SessionIds |-> IF s \in FirstSessions THEN NewSession ELSE None]
      /\ hooks = <<>> /\ traces = [c \in Calls |-> <<>>]
  BY DEF CallsInit, DebugInit
<1>2. \A c \in Calls : ~Started(c) /\ ~Joined(c) /\ ~Followed(c)
  BY <1>1 DEF Started, Joined, Followed
<1>3. PICK log : log = <<>>
  OBVIOUS
<1>4. log \in DebugLogs /\ log \in RunTraces /\ log \in Seq(Hooks) /\ DOMAIN log = {}
  BY <1>3 DEF DebugLogs, RunTraces
<1>5. NewSession \in SessionRows
  BY <1>3, <1>4 DEF NewSession, SessionRows
<1>6. DebugTypeOK
  BY <1>1, <1>2, <1>3, <1>4, <1>5 DEF DebugTypeOK
<1>7. RunsStand
  BY <1>1, <1>2 DEF RunsStand, RunStands, Ran
<1>8. HooksStand
  BY <1>1, <1>2, <1>3, <1>4 DEF HooksStand, GoodHooks
<1>9. EventsStand
  <2>1. \A s \in Stored : sessions[s] = NewSession
    BY <1>1 DEF Stored
  <2> QED BY <1>3, <1>4, <2>1 DEF EventsStand, NewSession
<1> QED BY <1>2, <1>6, <1>7, <1>8, <1>9 DEF DebugInv, HooksKept, LogsStand

(* What one more event changes in a log. *)
LEMMA OneMoreEvent ==
    ASSUME NEW log \in DebugLogs, NEW e, NEW more, more = Append(log, e)
    PROVE  /\ \A i \in DOMAIN log : i \in DOMAIN more /\ more[i] = log[i]
           /\ Len(log) + 1 \in DOMAIN more /\ more[Len(log) + 1] = e
           /\ \A i \in DOMAIN more : i \in DOMAIN log \/ i = Len(log) + 1
           /\ \A i \in DOMAIN log : i \in Nat /\ i < Len(log) + 1
           /\ Len(log) \in Nat
  BY DEF DebugLogs

(* An event of other runs leaves what r has logged of q alone. *)
LEMMA ForeignEvent ==
    ASSUME NEW log \in DebugLogs, NEW r, NEW q, NEW trace, NEW left,
           LogStands(log, r, q, trace, left), NEW e, ~Told(e, r, q)
    PROVE  LogStands(Append(log, e), r, q, trace, left)
<1>1. PICK more : more = Append(log, e)
  OBVIOUS
<1>2. /\ \A i \in DOMAIN log : i \in DOMAIN more /\ more[i] = log[i]
      /\ \A i \in DOMAIN more : Told(more[i], r, q) => i \in DOMAIN log
  BY <1>1, OneMoreEvent
<1> SUFFICES ASSUME NEW n \in Nat, UpTo(r, trace, left, n)
             PROVE  Follows(more, r, q, trace, n) /\ (q = r => FromTheStart(more, r, n))
  BY <1>1 DEF LogStands
<1>3. Follows(log, r, q, trace, n) /\ (q = r => FromTheStart(log, r, n))
  BY DEF LogStands
<1>4. Follows(more, r, q, trace, n)
  <2>1. ASSUME NEW i \in DOMAIN more, Told(more[i], r, q)
        PROVE  /\ more[i].nth \in 1 .. n
               /\ trace[more[i].nth] = [type |-> more[i].type, node |-> more[i].node]
    BY <1>2, <1>3, <2>1 DEF Follows
  <2>2. ASSUME NEW i \in DOMAIN more, Told(more[i], r, q), NEW k \in more[i].nth .. n
        PROVE  \E j \in DOMAIN more : Told(more[j], r, q) /\ more[j].nth = k
    <3>1. i \in DOMAIN log /\ more[i] = log[i]
      BY <1>2, <2>2
    <3>2. PICK j \in DOMAIN log : Told(log[j], r, q) /\ log[j].nth = k
      BY <1>3, <2>2, <3>1 DEF Follows
    <3> QED BY <1>2, <3>2
  <2>3. ASSUME NEW i \in DOMAIN more, NEW j \in DOMAIN more, Told(more[i], r, q),
               Told(more[j], r, q), i < j
        PROVE  more[i].nth < more[j].nth
    BY <1>2, <1>3, <2>3 DEF Follows
  <2> QED BY <2>1, <2>2, <2>3 DEF Follows
<1>5. q = r => FromTheStart(more, r, n)
  BY <1>2, <1>3 DEF FromTheStart
<1> QED BY <1>4, <1>5

(* Nothing of q was logged by r yet. *)
LEMMA NothingLogged ==
    ASSUME NEW log, NEW r, NEW q, NEW trace, NEW left,
           q = r => trace = <<>> /\ left = <<>>,
           \A i \in DOMAIN log : ~Told(log[i], r, q)
    PROVE  LogStands(log, r, q, trace, left)
<1>1. ASSUME q = r, NEW n \in Nat, UpTo(r, trace, left, n) PROVE n = 0
  <2>1. Len(trace) = 0 /\ DOMAIN left = {}
    BY <1>1
  <2> QED BY <1>1, <2>1 DEF UpTo
<1> QED BY <1>1 DEF LogStands, Follows, FromTheStart

(* The trace grows by what each hook is now to log. *)
LEMMA TraceGrows ==
    ASSUME NEW log \in DebugLogs, NEW r, NEW q, NEW trace \in RunTraces, NEW left, left = <<>>,
           LogStands(log, r, q, trace, left), NEW more \in RunTraces,
           NEW waiting, NEW h \in DOMAIN waiting, waiting[h].hook.run = r,
           Len(waiting[h].types) = Len(more)
    PROVE  LogStands(log, r, q, trace \o more, waiting)
<1>1. PICK long, t : long = trace \o more /\ t = Len(trace)
  OBVIOUS
<1>2. /\ t \in Nat /\ Len(more) \in Nat /\ Len(long) = t + Len(more)
      /\ \A k \in 1 .. t : long[k] = trace[k]
  BY <1>1 DEF RunTraces
<1> SUFFICES ASSUME NEW n \in Nat, UpTo(r, long, waiting, n)
             PROVE  Follows(log, r, q, long, n) /\ (q = r => FromTheStart(log, r, n))
  BY <1>1 DEF LogStands
<1>3. n = t
  <2>1. n = Len(long) - Len(waiting[h].types)
    BY DEF UpTo
  <2> QED BY <1>2, <2>1
<1>4. UpTo(r, trace, left, n)
  BY <1>1, <1>3 DEF UpTo
<1>5. Follows(log, r, q, trace, n) /\ (q = r => FromTheStart(log, r, n))
  BY <1>4 DEF LogStands
<1>6. Follows(log, r, q, long, n)
  BY <1>2, <1>3, <1>5 DEF Follows
<1> QED BY <1>5, <1>6

(* What is left when one event has been logged: the hooks move up when the *)
(* first is done.                                                          *)
LEMMA OneLess ==
    ASSUME NEW left \in Seq(Waiting), left # <<>>, Len(left[1].types) >= 1,
           NEW w, w = OneLogged(left)
    PROVE  \E s \in {0, 1} :
             /\ w \in Seq(Waiting) /\ (s = 1 <=> Len(left[1].types) = 1)
             /\ \A i \in DOMAIN w :
                  /\ i \in Nat \ {0} /\ i + s \in DOMAIN left /\ w[i].hook = left[i + s].hook
                  /\ (i + s # 1) => w[i] = left[i + s]
                  /\ (i + s = 1) => w[i].types = Tail(left[1].types)
             /\ \A j \in DOMAIN left : j \in Nat /\ (j - s >= 1 => j - s \in DOMAIN w)
<1>1. PICK first : first = left[1]
  OBVIOUS
<1>2. /\ 1 \in DOMAIN left /\ Head(left) = first /\ Len(left) \in Nat \ {0} /\ first \in Waiting
      /\ DOMAIN left = 1 .. Len(left)
  BY <1>1
<1>3. first.types \in Seq(LogTypes) /\ first.hook \in Hooks /\ Len(first.types) \in Nat
  BY <1>2 DEF Waiting
<1>4. CASE Len(first.types) = 1
  <2>1. w = Tail(left)
    BY <1>2, <1>4 DEF OneLogged
  <2>2. /\ w \in Seq(Waiting) /\ DOMAIN w = 1 .. (Len(left) - 1)
        /\ \A i \in DOMAIN w : w[i] = left[i + 1]
    BY <1>2, <2>1
  <2>3. \A i \in DOMAIN w : i \in Nat \ {0} /\ i + 1 \in DOMAIN left /\ i + 1 # 1
    BY <1>2, <2>2
  <2>4. \A j \in DOMAIN left : j \in Nat /\ (j - 1 >= 1 => j - 1 \in DOMAIN w)
    BY <1>2, <2>2
  <2> QED BY <1>1, <1>4, <2>2, <2>3, <2>4
<1>5. CASE Len(first.types) # 1
  <2>1. PICK rest : rest = [hook |-> first.hook, types |-> Tail(first.types)]
    OBVIOUS
  <2>2. w = [left EXCEPT ![1] = rest]
    BY <1>2, <1>5, <2>1 DEF OneLogged
  <2>3. Tail(first.types) \in Seq(LogTypes)
    BY <1>1, <1>3, <1>5
  <2>4. rest \in Waiting /\ rest.hook = first.hook /\ rest.types = Tail(first.types)
    BY <1>3, <2>1, <2>3 DEF Waiting
  <2>5. /\ w \in Seq(Waiting) /\ DOMAIN w = DOMAIN left /\ w[1] = rest
        /\ \A i \in DOMAIN left : i # 1 => w[i] = left[i]
    BY <1>2, <2>2, <2>4
  <2>6. \A i \in DOMAIN left : i \in Nat \ {0} /\ i + 0 = i /\ i - 0 = i
    BY <1>2
  <2>7. \A i \in DOMAIN w :
          /\ i \in Nat \ {0} /\ i + 0 \in DOMAIN left /\ w[i].hook = left[i + 0].hook
          /\ (i + 0 # 1) => w[i] = left[i + 0]
          /\ (i + 0 = 1) => w[i].types = Tail(left[1].types)
    BY <1>1, <1>2, <2>4, <2>5, <2>6
  <2> QED BY <1>1, <1>5, <2>5, <2>6, <2>7
<1> QED BY <1>4, <1>5

(* What is left still fits the trace. *)
LEMMA LessFits ==
    ASSUME NEW left \in Seq(Waiting), left # <<>>, NEW trace \in RunTraces, NEW node,
           LeftFits(left, trace, node), NEW w, w = OneLogged(left)
    PROVE  /\ w \in Seq(Waiting) /\ LeftFits(w, trace, node)
           /\ \A i \in DOMAIN w : \E j \in DOMAIN left : w[i].hook = left[j].hook
<1>1. 1 \in DOMAIN left /\ left[1] \in Waiting
  OBVIOUS
<1>2. PICK types, t, l : types = left[1].types /\ t = Len(trace) /\ l = Len(types)
  OBVIOUS
<1>3. /\ l \in 1 .. t /\ t \in Nat /\ l \in Nat
      /\ \A k \in 1 .. l : trace[t - l + k] = [type |-> types[k], node |-> node]
  <2>1. t \in Nat
    BY <1>2 DEF RunTraces
  <2>2. /\ l \in 1 .. t
        /\ \A k \in 1 .. l : trace[t - l + k] = [type |-> types[k], node |-> node]
    BY <1>1, <1>2 DEF LeftFits
  <2> QED BY <2>1, <2>2
<1>4. PICK s \in {0, 1} :
        /\ w \in Seq(Waiting) /\ (s = 1 <=> l = 1)
        /\ \A i \in DOMAIN w :
             /\ i \in Nat \ {0} /\ i + s \in DOMAIN left /\ w[i].hook = left[i + s].hook
             /\ (i + s # 1) => w[i] = left[i + s]
             /\ (i + s = 1) => w[i].types = Tail(types)
  <2>1. Len(left[1].types) >= 1
    BY <1>2, <1>3
  <2> QED BY <1>2, <2>1, OneLess
<1>5. \A i, j \in DOMAIN w : w[i].hook.run = w[j].hook.run => i = j
  <2> SUFFICES ASSUME NEW i \in DOMAIN w, NEW j \in DOMAIN w, w[i].hook.run = w[j].hook.run
               PROVE  i = j
    OBVIOUS
  <2>1. i + s = j + s
    BY <1>4 DEF LeftFits
  <2> QED BY <1>4, <2>1
<1>6. ASSUME NEW i \in DOMAIN w
      PROVE  /\ Len(w[i].types) \in 1 .. t
             /\ \A k \in 1 .. Len(w[i].types) :
                  trace[t - Len(w[i].types) + k] = [type |-> w[i].types[k], node |-> node]
  <2>1. CASE i + s # 1
    <3>1. PICK j \in DOMAIN left : w[i] = left[j]
      BY <1>4, <2>1
    <3> QED BY <1>2, <3>1 DEF LeftFits
  <2>2. CASE i + s = 1
    <3>1. w[i].types = Tail(types) /\ l # 1
      BY <1>3, <1>4, <2>2
    <3>2. types \in Seq(LogTypes)
      BY <1>1, <1>2 DEF Waiting
    <3>3. Len(Tail(types)) = l - 1 /\ \A k \in 1 .. (l - 1) : Tail(types)[k] = types[k + 1]
      BY <1>2, <1>3, <3>1, <3>2
    <3>4. \A k \in 1 .. (l - 1) : k + 1 \in 1 .. l /\ t - (l - 1) + k = t - l + (k + 1)
      BY <1>3
    <3>5. \A k \in 1 .. (l - 1) :
            trace[t - (l - 1) + k] = [type |-> Tail(types)[k], node |-> node]
      BY <1>3, <3>3, <3>4
    <3>6. l - 1 \in 1 .. t
      BY <1>3, <3>1
    <3> QED BY <3>1, <3>3, <3>5, <3>6
  <2> QED BY <2>1, <2>2
<1>7. LeftFits(w, trace, node)
  BY <1>2, <1>5, <1>6 DEF LeftFits
<1> QED BY <1>4, <1>7

(* For a run whose hook did not log nothing changes. *)
LEMMA OtherLogged ==
    ASSUME NEW left \in Seq(Waiting), left # <<>>, Len(left[1].types) >= 1,
           NEW log, NEW r, NEW q, NEW trace, r # left[1].hook.run,
           LogStands(log, r, q, trace, left), NEW w, w = OneLogged(left)
    PROVE  LogStands(log, r, q, trace, w)
<1>1. PICK s \in {0, 1} :
        /\ \A i \in DOMAIN w :
             /\ i \in Nat \ {0} /\ i + s \in DOMAIN left /\ w[i].hook = left[i + s].hook
             /\ (i + s # 1) => w[i] = left[i + s]
        /\ \A j \in DOMAIN left : j \in Nat /\ (j - s >= 1 => j - s \in DOMAIN w)
  BY OneLess
<1>2. ASSUME NEW n \in Nat, UpTo(r, trace, w, n) PROVE UpTo(r, trace, left, n)
  <2>1. ASSUME NEW j \in DOMAIN left, left[j].hook.run = r
        PROVE  n = Len(trace) - Len(left[j].types)
    <3>1. j # 1 /\ j \in Nat /\ j >= 1
      BY <1>1, <2>1
    <3>2. j - s \in DOMAIN w /\ (j - s) + s = j
      BY <1>1, <3>1
    <3>3. w[j - s] = left[j]
      BY <1>1, <3>1, <3>2
    <3> QED BY <1>2, <2>1, <3>2, <3>3 DEF UpTo
  <2>2. ASSUME \A j \in DOMAIN left : left[j].hook.run # r PROVE n = Len(trace)
    BY <1>1, <1>2, <2>2 DEF UpTo
  <2> QED BY <2>1, <2>2 DEF UpTo
<1> QED BY <1>2 DEF LogStands

(* The first hook logs the next event of the trace. *)
LEMMA OwnLogged ==
    ASSUME NEW left \in Seq(Waiting), left # <<>>, NEW log \in DebugLogs, NEW r, NEW q,
           NEW trace \in RunTraces, NEW node, LeftFits(left, trace, node),
           left[1].hook.run = r, LogStands(log, r, q, trace, left),
           NEW w, w = OneLogged(left),
           NEW e, Told(e, r, q), e.type = Head(left[1].types), e.node = node,
           e.nth = Len(trace) - Len(left[1].types) + 1
    PROVE  LogStands(Append(log, e), r, q, trace, w)
<1>1. 1 \in DOMAIN left /\ left[1] \in Waiting
  OBVIOUS
<1>2. PICK types, t, l, more :
        types = left[1].types /\ t = Len(trace) /\ l = Len(types) /\ more = Append(log, e)
  OBVIOUS
<1>3. /\ l \in 1 .. t /\ t \in Nat /\ l \in Nat
      /\ trace[t - l + 1] = [type |-> types[1], node |-> node]
  <2>1. t \in Nat
    BY <1>2 DEF RunTraces
  <2>2. /\ l \in 1 .. t
        /\ \A k \in 1 .. l : trace[t - l + k] = [type |-> types[k], node |-> node]
    BY <1>1, <1>2 DEF LeftFits
  <2> QED BY <2>1, <2>2
<1>4. types \in Seq(LogTypes) /\ Head(types) = types[1]
  BY <1>1, <1>2, <1>3 DEF Waiting
<1>5. PICK s \in {0, 1} :
        /\ (s = 1 <=> l = 1)
        /\ \A i \in DOMAIN w :
             /\ i \in Nat \ {0} /\ i + s \in DOMAIN left /\ w[i].hook = left[i + s].hook
             /\ (i + s # 1) => w[i] = left[i + s]
             /\ (i + s = 1) => w[i].types = Tail(types)
        /\ \A j \in DOMAIN left : j \in Nat /\ (j - s >= 1 => j - s \in DOMAIN w)
  <2>1. Len(left[1].types) >= 1
    BY <1>2, <1>3
  <2> QED BY <1>2, <2>1, OneLess
<1>6. e.nth = t - l + 1 /\ e.type = types[1] /\ e.node = node
  BY <1>2, <1>4
<1>7. \A i \in DOMAIN left : left[i].hook.run = r => i = 1
  BY <1>1 DEF LeftFits
<1> SUFFICES ASSUME NEW n \in Nat, UpTo(r, trace, w, n)
             PROVE  Follows(more, r, q, trace, n) /\ (q = r => FromTheStart(more, r, n))
  BY <1>2 DEF LogStands
<1>8. n = (t - l) + 1
  <2>1. CASE l = 1
    <3>1. s = 1
      BY <1>5, <2>1
    <3>2. \A i \in DOMAIN w : i + 1 # 1
      BY <1>5
    <3>3. \A i \in DOMAIN w : w[i].hook.run # r
      BY <1>5, <1>7, <3>1, <3>2
    <3> QED BY <1>2, <1>3, <2>1, <3>3 DEF UpTo
  <2>2. CASE l # 1
    <3>1. s = 0
      BY <1>5, <2>2
    <3>2. 1 \in DOMAIN w /\ 1 + 0 = 1
      BY <1>1, <1>5, <3>1
    <3>3. w[1].hook.run = r /\ w[1].types = Tail(types)
      BY <1>5, <3>1, <3>2
    <3>4. Len(Tail(types)) = l - 1
      BY <1>2, <1>3, <1>4
    <3>5. n = t - (l - 1)
      BY <1>2, <3>2, <3>3, <3>4 DEF UpTo
    <3> QED BY <1>3, <3>5
  <2> QED BY <2>1, <2>2
<1>9. PICK m : m = t - l
  OBVIOUS
<1>10. m \in Nat /\ n = m + 1
  BY <1>3, <1>8, <1>9
<1>11. UpTo(r, trace, left, m)
  BY <1>1, <1>2, <1>7, <1>9 DEF UpTo
<1>12. Follows(log, r, q, trace, m) /\ (q = r => FromTheStart(log, r, m))
  BY <1>10, <1>11 DEF LogStands
<1>13. /\ \A i \in DOMAIN log : i \in DOMAIN more /\ more[i] = log[i]
       /\ Len(log) + 1 \in DOMAIN more /\ more[Len(log) + 1] = e
       /\ \A i \in DOMAIN more : i \in DOMAIN log \/ i = Len(log) + 1
       /\ \A i \in DOMAIN log : i \in Nat /\ i < Len(log) + 1
       /\ Len(log) \in Nat
  BY <1>2, OneMoreEvent
<1>14. e.nth = n /\ trace[n] = [type |-> e.type, node |-> e.node] /\ n >= 1
  <2>1. e.nth = n
    BY <1>6, <1>8
  <2>2. trace[n] = [type |-> types[1], node |-> node]
    BY <1>3, <1>8
  <2>3. n >= 1
    BY <1>10
  <2> QED BY <1>6, <2>1, <2>2, <2>3
<1>15. ASSUME NEW i \in DOMAIN log, Told(log[i], r, q)
       PROVE  /\ log[i].nth \in 1 .. m
              /\ trace[log[i].nth] = [type |-> log[i].type, node |-> log[i].node]
              /\ \A k \in log[i].nth .. m :
                   \E j \in DOMAIN log : Told(log[j], r, q) /\ log[j].nth = k
  BY <1>12, <1>15 DEF Follows
<1>16. ASSUME NEW i \in DOMAIN more, Told(more[i], r, q)
       PROVE  /\ more[i].nth \in 1 .. n
              /\ trace[more[i].nth] = [type |-> more[i].type, node |-> more[i].node]
              /\ \A k \in more[i].nth .. n :
                   \E j \in DOMAIN more : Told(more[j], r, q) /\ more[j].nth = k
  <2>1. CASE i \in DOMAIN log
    <3>1. more[i] = log[i] /\ Told(log[i], r, q)
      BY <1>13, <1>16, <2>1
    <3>2. /\ log[i].nth \in 1 .. m
          /\ trace[log[i].nth] = [type |-> log[i].type, node |-> log[i].node]
      BY <1>15, <2>1, <3>1
    <3>3. ASSUME NEW k \in log[i].nth .. n
          PROVE  \E j \in DOMAIN more : Told(more[j], r, q) /\ more[j].nth = k
      <4>1. k = n \/ k \in log[i].nth .. m
        BY <1>10, <3>2, <3>3
      <4>2. CASE k = n
        BY <1>6, <1>13, <1>14, <4>2
      <4>3. CASE k \in log[i].nth .. m
        <5>1. PICK j \in DOMAIN log : Told(log[j], r, q) /\ log[j].nth = k
          BY <1>15, <2>1, <3>1, <4>3
        <5> QED BY <1>13, <5>1
      <4> QED BY <4>1, <4>2, <4>3
    <3>4. log[i].nth \in 1 .. n
      BY <1>10, <3>2
    <3> QED BY <3>1, <3>2, <3>3, <3>4
  <2>2. CASE i = Len(log) + 1
    <3>1. more[i] = e
      BY <1>13, <2>2
    <3>2. \A k \in n .. n : k = n
      BY <1>10
    <3>3. \A k \in e.nth .. n : \E j \in DOMAIN more : Told(more[j], r, q) /\ more[j].nth = k
      BY <1>6, <1>13, <1>14, <3>2
    <3>4. n \in 1 .. n
      BY <1>10, <1>14
    <3> QED BY <1>14, <3>1, <3>3, <3>4
  <2> QED BY <1>13, <2>1, <2>2
<1>17. ASSUME NEW i \in DOMAIN more, NEW j \in DOMAIN more, Told(more[i], r, q),
              Told(more[j], r, q), i < j
       PROVE  more[i].nth < more[j].nth
  <2>1. i \in DOMAIN log
    <3>1. CASE j = Len(log) + 1
      BY <1>13, <1>17, <3>1
    <3>2. CASE j \in DOMAIN log
      BY <1>13, <1>17, <3>2
    <3> QED BY <1>13, <3>1, <3>2
  <2>2. CASE j \in DOMAIN log
    <3>1. more[i] = log[i] /\ more[j] = log[j]
      BY <1>13, <2>1, <2>2
    <3> QED BY <1>12, <1>17, <2>1, <2>2, <3>1 DEF Follows
  <2>3. CASE j = Len(log) + 1
    <3>1. more[i] = log[i] /\ more[j] = e
      BY <1>13, <2>1, <2>3
    <3>2. log[i].nth \in 1 .. m
      BY <1>15, <1>17, <2>1, <3>1
    <3> QED BY <1>10, <1>14, <3>1, <3>2
  <2> QED BY <1>13, <2>2, <2>3
<1>18. Follows(more, r, q, trace, n)
  BY <1>16, <1>17 DEF Follows
<1>19. ASSUME q = r PROVE FromTheStart(more, r, n)
  <2>1. CASE m = 0
    BY <1>6, <1>10, <1>13, <1>14, <1>19, <2>1 DEF FromTheStart
  <2>2. CASE m > 0
    <3>1. PICK i \in DOMAIN log : Told(log[i], r, r) /\ log[i].nth = 1
      BY <1>12, <1>19, <2>2 DEF FromTheStart
    <3> QED BY <1>13, <3>1 DEF FromTheStart
  <2> QED BY <1>10, <2>1, <2>2
<1> QED BY <1>18, <1>19

(* The steps of the debugger.  What stays true of runs, whatever happens:  *)
(* a run keeps its session, and calls that are over are over.              *)
RunsGrow ==
    /\ ask' = ask
    /\ \A d \in Calls :
         /\ Started(d) => Started(d)' /\ held'[d].session = held[d].session
         /\ Joined(d) => Joined(d)'
         /\ at[d] = "done" => at'[d] = "done"

LEMMA HookStays ==
    ASSUME RunsGrow, NEW hook \in Hooks, GoodHook(hook)
    PROVE  GoodHook(hook)'
<1>1. hook.run \in Calls
  BY DEF Hooks
<1> QED BY <1>1 DEF RunsGrow, GoodHook, Joined

LEMMA HooksStay ==
    ASSUME RunsGrow, NEW list \in Seq(Hooks), GoodHooks(list)
    PROVE  GoodHooks(list)'
<1>1. ASSUME NEW i \in DOMAIN list PROVE GoodHook(list[i])'
  <2>1. PICK hook : hook = list[i]
    OBVIOUS
  <2>2. hook \in Hooks /\ GoodHook(hook)
    BY <2>1 DEF GoodHooks
  <2>3. GoodHook(hook)'
    BY <2>2, HookStays
  <2> QED BY <2>1, <2>3 DEF GoodHook, Joined, Started
<1> QED BY <1>1 DEF GoodHooks

LEMMA SettledStays ==
    ASSUME RunsGrow, NEW s, Settled(s)
    PROVE  Settled(s)'
  BY DEF RunsGrow, Settled

LEMMA EventStays ==
    ASSUME RunsGrow, NEW e \in DebugEvents, EventStands(e)
    PROVE  EventStands(e)'
<1>1. e.by \in Calls /\ e.of \in Calls
  BY DEF DebugEvents
<1> QED BY <1>1 DEF RunsGrow, EventStands

(* A session that is there has its events and perhaps one more, of which   *)
(* P holds, or has just been made.                                         *)
LogChanged(s, P(_)) ==
    \/ sessions[s] # None /\ sessions'[s].events = sessions[s].events
    \/ /\ sessions[s] # None
       /\ \E e \in DebugEvents : P(e) /\ sessions'[s].events = Append(sessions[s].events, e)
    \/ sessions'[s].events = <<>> /\ ~Settled(s)

NotOfRuns(e) == ask[e.by].op # "debugrun"

SessionsGrow == \A s \in SessionIds : sessions'[s] # None => LogChanged(s, EventStands)

(* The sessions change by what is not about runs: some go, one is made, or *)
(* an event is added to one that no hook logged.                           *)
SessionsKept == \A s \in SessionIds : sessions'[s] # None => LogChanged(s, NotOfRuns)

LEMMA KeptGrows == SessionsKept => SessionsGrow
  BY DEF SessionsKept, SessionsGrow, LogChanged, NotOfRuns, EventStands

LEMMA StoredLog ==
    ASSUME DebugInv, NEW s \in Stored
    PROVE  s \in SessionIds /\ sessions[s] \in SessionRows /\ sessions[s].events \in DebugLogs
<1>1. s \in SessionIds /\ sessions[s] \in SessionRows
  BY DEF Stored, DebugInv, DebugTypeOK
<1> QED BY <1>1 DEF SessionRows

(* The events of the sessions stand after such a change. *)
LEMMA EventsStay ==
    ASSUME DebugInv, RunsGrow, SessionsGrow
    PROVE  EventsStand'
<1> SUFFICES ASSUME NEW s \in Stored', NEW i \in DOMAIN sessions'[s].events
             PROVE  EventStands(sessions[s].events[i])'
  BY DEF EventsStand
<1>1. PICK log, e : log = sessions'[s].events /\ e = log[i]
  OBVIOUS
<1>2. s \in SessionIds /\ sessions'[s] # None
  BY DEF Stored, SessionIds
<1>3. CASE log = <<>>
  BY <1>1, <1>3
<1>4. CASE sessions[s] # None /\ log = sessions[s].events
  <2>1. s \in Stored
    BY <1>2, <1>4 DEF Stored
  <2>2. log \in DebugLogs /\ EventStands(e)
    BY <1>1, <1>4, <2>1, StoredLog DEF DebugInv, EventsStand
  <2>3. e \in DebugEvents
    BY <1>1, <2>2 DEF DebugLogs
  <2>4. EventStands(e)'
    BY <2>2, <2>3, EventStays
  <2> QED BY <1>1, <2>4 DEF EventStands, Joined, Started
<1>5. CASE sessions[s] # None /\ \E x \in DebugEvents : /\ EventStands(x)
                                                         /\ log = Append(sessions[s].events, x)
  <2>1. PICK x \in DebugEvents : EventStands(x) /\ log = Append(sessions[s].events, x)
    BY <1>5
  <2>2. PICK old : old = sessions[s].events
    OBVIOUS
  <2>3. s \in Stored
    BY <1>2, <1>5 DEF Stored
  <2>4. old \in DebugLogs
    BY <2>2, <2>3, StoredLog
  <2>5. (i \in DOMAIN old /\ log[i] = old[i]) \/ log[i] = x
    BY <1>1, <2>1, <2>2, <2>4, OneMoreEvent
  <2>6. CASE i \in DOMAIN old /\ log[i] = old[i]
    <3>1. EventStands(e)
      BY <1>1, <2>2, <2>3, <2>6 DEF DebugInv, EventsStand
    <3>2. e \in DebugEvents
      BY <1>1, <2>4, <2>6 DEF DebugLogs
    <3>3. EventStands(e)'
      BY <3>1, <3>2, EventStays
    <3> QED BY <1>1, <3>3 DEF EventStands, Joined, Started
  <2>7. CASE log[i] = x
    <3>1. EventStands(x)'
      BY <2>1, EventStays
    <3> QED BY <1>1, <2>7, <3>1 DEF EventStands, Joined, Started
  <2> QED BY <2>5, <2>6, <2>7
<1> QED BY <1>1, <1>2, <1>3, <1>4, <1>5 DEF SessionsGrow, LogChanged

(* A run is followed only if it was. *)
LEMMA FollowedBefore ==
    ASSUME DebugInv, RunsGrow, SessionsGrow, raced \subseteq raced',
           NEW r \in Calls, Joined(r), Followed(r)'
    PROVE  Followed(r) /\ held'[r].session = held[r].session
<1>1. Started(r) /\ held'[r].session = held[r].session
  BY DEF Joined, RunsGrow
<1>2. Settled(held[r].session)
  BY <1>1 DEF DebugInv, RunsStand, RunStands, Started
<1>3. held[r].session \in SessionIds /\ sessions'[held[r].session] # None /\ r \notin raced
  BY <1>1 DEF Followed, Stored, SessionIds
<1>4. sessions[held[r].session] # None
  BY <1>2, <1>3 DEF SessionsGrow, LogChanged
<1> QED BY <1>1, <1>3, <1>4 DEF Followed, Stored

(* What the hook of r logged of q stands, if q has no more to log. *)
LEMMA LogStays ==
    ASSUME DebugInv, RunsGrow, SessionsKept, raced \subseteq raced',
           NEW r \in Calls, NEW q \in Calls, Followed(r)', Joined(r), Joined(q),
           traces'[q] = traces[q], held'[q].left = held[q].left
    PROVE  LogStands(sessions[held[r].session].events, r, q, traces[q], held[q].left)'
<1>1. PICK s, log, old, trace, left :
        /\ s = held[r].session /\ old = sessions[s].events /\ log = sessions'[s].events
        /\ trace = traces[q] /\ left = held[q].left
  OBVIOUS
<1>2. Followed(r) /\ held'[r].session = s
  BY <1>1, FollowedBefore, KeptGrows
<1>3. LogStands(old, r, q, trace, left)
  BY <1>1, <1>2 DEF DebugInv, LogsStand
<1>4. s \in Stored /\ old \in DebugLogs
  BY <1>1, <1>2, StoredLog DEF Followed
<1>5. Settled(s) /\ s \in SessionIds /\ sessions'[s] # None
  BY <1>1, <1>2, <1>4 DEF DebugInv, RunsStand, RunStands, Joined, Started, Followed, Stored,
                          SessionIds
<1>6. LogStands(log, r, q, trace, left)
  <2>1. CASE log = old
    BY <1>3, <2>1
  <2>2. CASE \E e \in DebugEvents : NotOfRuns(e) /\ log = Append(old, e)
    <3>1. PICK e \in DebugEvents : NotOfRuns(e) /\ log = Append(old, e)
      BY <2>2
    <3>2. ~Told(e, r, q)
      BY <3>1 DEF Told, Joined, Started, NotOfRuns
    <3> QED BY <1>3, <1>4, <3>1, <3>2, ForeignEvent
  <2> QED BY <1>1, <1>5, <2>1, <2>2 DEF SessionsKept, LogChanged
<1>7. /\ sessions'[held'[r].session].events = log /\ traces'[q] = trace
      /\ held'[q].left = left
  BY <1>1, <1>2
<1> QED BY <1>6, <1>7

LEMMA LogsStay ==
    ASSUME DebugInv, RunsGrow, SessionsKept, raced \subseteq raced',
           \A d \in Calls : Joined(d)' =>
               Joined(d) /\ traces'[d] = traces[d] /\ held'[d].left = held[d].left
    PROVE  LogsStand'
<1> SUFFICES ASSUME NEW r \in Calls, NEW q \in Calls, Followed(r)', Joined(q)'
             PROVE  LogStands(sessions[held[r].session].events, r, q, traces[q], held[q].left)'
  BY DEF LogsStand
<1>1. Joined(r) /\ Joined(q)
  BY DEF Followed
<1> QED BY <1>1, LogStays

(* What a run has left to log stands. *)
LEMMA LeftStays ==
    ASSUME DebugInv, RunsGrow, NEW d \in Calls, Started(d), traces'[d] = traces[d],
           held'[d].left = held[d].left, held'[d].node = held[d].node
    PROVE  LeftStands(d)'
<1>1. PICK left, trace, node : left = held[d].left /\ trace = traces[d] /\ node = held[d].node
  OBVIOUS
<1>2. LeftStands(d) /\ held[d] \in RunStates
  BY DEF DebugInv, HooksStand, DebugTypeOK
<1>3. left \in Seq(Waiting) /\ LeftFits(left, trace, node)
  BY <1>1, <1>2 DEF LeftStands, RunStates
<1>4. ASSUME NEW i \in DOMAIN left PROVE GoodHook(left[i].hook)'
  <2>1. PICK hook : hook = left[i].hook
    OBVIOUS
  <2>2. left[i] \in Waiting
    BY <1>3
  <2>3. hook \in Hooks /\ GoodHook(hook)
    BY <1>1, <1>2, <2>1, <2>2 DEF LeftStands, Waiting
  <2>4. GoodHook(hook)'
    BY <2>3, HookStays
  <2> QED BY <2>1, <2>4 DEF GoodHook, Joined, Started
<1>5. held'[d].left = left /\ traces'[d] = trace /\ held'[d].node = node
  BY <1>1
<1>6. \A i \in DOMAIN held'[d].left : GoodHook(held[d].left[i].hook)'
  BY <1>4, <1>5 DEF GoodHook, Joined, Started
<1>7. LeftFits(held[d].left, traces[d], held[d].node)'
  BY <1>3, <1>5
<1> QED BY <1>6, <1>7 DEF LeftStands

(* The hooks stand when no run moves but perhaps c. *)
LEMMA OthersStand ==
    ASSUME DebugInv, RunsGrow, NEW c \in Calls, traces \in [Calls -> RunTraces],
           \A d \in Calls : d # c /\ Started(d)' =>
               /\ Started(d) /\ at'[d] = at[d] /\ held'[d] = held[d] /\ traces'[d] = traces[d]
    PROVE  /\ \A d \in Calls : d # c /\ Started(d)' => LeftStands(d)'
           /\ \A d \in Calls : d # c /\ Started(d)' /\ at'[d] = "addhook" =>
                GoodHooks(held[d].read)'
<1>1. ASSUME NEW d \in Calls, d # c, Started(d)' PROVE LeftStands(d)'
  <2>1. /\ Started(d) /\ traces'[d] = traces[d]
        /\ held'[d].left = held[d].left /\ held'[d].node = held[d].node
    BY <1>1
  <2> QED BY <2>1, LeftStays
<1>2. ASSUME NEW d \in Calls, d # c, Started(d)', at'[d] = "addhook"
      PROVE  GoodHooks(held[d].read)'
  <2>1. PICK read : read = held[d].read
    OBVIOUS
  <2>2. Started(d) /\ at[d] = "addhook" /\ held'[d].read = read
    BY <1>2, <2>1
  <2>3. read \in Seq(Hooks) /\ GoodHooks(read)
    BY <2>1, <2>2 DEF DebugInv, DebugTypeOK, HooksStand, RunStates
  <2>4. GoodHooks(read)'
    BY <2>3, HooksStay
  <2> QED BY <2>2, <2>4 DEF GoodHooks, GoodHook, Joined, Started
<1> QED BY <1>1, <1>2

(* A step of a call that is no run, or is refused as malformed. *)
LEMMA QuietKeeps ==
    ASSUME DebugInv, NEW c \in Calls, ask' = ask, NEW l, NEW h, NEW a,
           at' = [at EXCEPT ![c] = l], held' = [held EXCEPT ![c] = h],
           reply' = [reply EXCEPT ![c] = a], at[c] # "done", l # "done" => a = "none",
           \/ ask[c].op # "debugrun"
           \/ ask[c].bad /\ at[c] = "start" /\ l = "done" /\ h = held[c] /\ a = "refused",
           sessions' \in [SessionIds -> SessionRows \cup {None}], SessionsKept,
           UNCHANGED <<hooks, traces, raced>>
    PROVE  DebugInv'
<1>1. /\ at'[c] = l /\ held'[c] = h /\ reply'[c] = a
      /\ \A d \in Calls : d # c => at'[d] = at[d] /\ held'[d] = held[d] /\ reply'[d] = reply[d]
      /\ ask \in [Calls -> DebugAsks] /\ hooks \in Seq(Hooks)
      /\ traces \in [Calls -> RunTraces]
  BY DEF DebugInv, DebugTypeOK
<1>2. ~Started(c) /\ ~Started(c)'
  BY DEF Started
<1>3. \A d \in Calls : (Started(d)' <=> Started(d)) /\ (Joined(d)' <=> Joined(d))
  BY <1>1, <1>2 DEF Started, Joined
<1>4. RunsGrow
  BY <1>1, <1>2, <1>3 DEF RunsGrow, Joined
<1>5. DebugTypeOK'
  BY <1>1, <1>2, <1>3 DEF DebugInv, DebugTypeOK
<1>6. RunsStand'
  <2> SUFFICES ASSUME NEW d \in Calls PROVE RunStands(d)'
    BY DEF RunsStand
  <2>1. CASE d # c
    <3>1. RunStands(d)
      BY DEF DebugInv, RunsStand
    <3>2. Started(d) => Settled(held[d].session)'
      BY <1>1, <1>4, <2>1, <3>1, SettledStays DEF RunStands, Started, Settled
    <3> QED BY <1>1, <1>3, <2>1, <3>1, <3>2 DEF RunStands, Ran
  <2>2. CASE d = c
    <3>1. RunStands(c)
      BY DEF DebugInv, RunsStand
    <3> QED BY <1>1, <1>2, <1>3, <2>2, <3>1 DEF RunStands, Ran, Joined
  <2> QED BY <2>1, <2>2
<1>7. HooksStand'
  <2>1. /\ \A d \in Calls : d # c /\ Started(d)' => LeftStands(d)'
        /\ \A d \in Calls : d # c /\ Started(d)' /\ at'[d] = "addhook" => GoodHooks(held[d].read)'
    BY <1>1, <1>3, <1>4, OthersStand
  <2>2. GoodHooks(hooks)'
    BY <1>1, <1>4, HooksStay DEF DebugInv, HooksStand, GoodHooks
  <2> QED BY <1>2, <2>1, <2>2 DEF HooksStand
<1>8. HooksKept'
  <2> SUFFICES ASSUME NEW r \in Calls, Followed(r)'
               PROVE  /\ HasHook(r, hooks)'
                      /\ \A d \in Calls : (Started(d) /\ at[d] = "addhook")' =>
                           HasHook(r, held[d].read)'
    BY DEF HooksKept
  <2>1. Joined(r)
    BY <1>3 DEF Followed
  <2>2. Followed(r)
    BY <1>4, <2>1, FollowedBefore, KeptGrows
  <2> QED BY <1>1, <1>2, <1>3, <2>2 DEF DebugInv, HooksKept, HasHook
<1>9. EventsStand'
  BY <1>4, EventsStay, KeptGrows
<1>10. LogsStand'
  <2>1. \A d \in Calls : Joined(d)' =>
          Joined(d) /\ traces'[d] = traces[d] /\ held'[d].left = held[d].left
    BY <1>1, <1>2, <1>3 DEF Joined
  <2> QED BY <1>4, <2>1, LogsStay
<1> QED BY <1>5, <1>6, <1>7, <1>8, <1>9, <1>10 DEF DebugInv

(* A run moves: what this says of it and of the others. *)
LEMMA RunMoves ==
    ASSUME DebugInv, NEW c \in Calls, ask[c].op = "debugrun", ~ask[c].bad, ask' = ask,
           NEW l, NEW h \in RunStates, NEW a,
           at' = [at EXCEPT ![c] = l], held' = [held EXCEPT ![c] = h],
           reply' = [reply EXCEPT ![c] = a], at[c] # "done", l # "start",
           Joined(c) => l # "addhook", Started(c) => h.session = held[c].session,
           Settled(h.session), l # "done" => a = "none",
           (l \in {"addhook", "create", "visit"} \/ a \in NodeOutcomes) => h.left = <<>>,
           sessions' \in [SessionIds -> SessionRows \cup {None}], hooks' \in Seq(Hooks),
           traces' \in [Calls -> RunTraces], \A d \in Calls : d # c => traces'[d] = traces[d],
           l = "addhook" => traces'[c] = <<>>
    PROVE  /\ RunsGrow /\ DebugTypeOK' /\ RunsStand' /\ at'[c] = l /\ held'[c] = h
           /\ \A d \in Calls : d # c =>
                /\ at'[d] = at[d] /\ held'[d] = held[d]
                /\ (Started(d)' <=> Started(d)) /\ (Joined(d)' <=> Joined(d))
           /\ Started(c)' /\ (Joined(c)' <=> l # "addhook")
<1>1. /\ at'[c] = l /\ held'[c] = h /\ reply'[c] = a
      /\ \A d \in Calls : d # c => at'[d] = at[d] /\ held'[d] = held[d] /\ reply'[d] = reply[d]
      /\ ask \in [Calls -> DebugAsks]
  BY DEF DebugInv, DebugTypeOK
<1>2. \A d \in Calls : d # c => (Started(d)' <=> Started(d)) /\ (Joined(d)' <=> Joined(d))
  BY <1>1 DEF Started, Joined
<1>3. Started(c)' /\ (Joined(c)' <=> l # "addhook")
  BY <1>1 DEF Started, Joined
<1>4. RunsGrow
  BY <1>1, <1>2, <1>3 DEF RunsGrow
<1>5. DebugTypeOK'
  BY <1>1, <1>2, <1>3 DEF DebugInv, DebugTypeOK
<1>6. RunsStand'
  <2> SUFFICES ASSUME NEW d \in Calls PROVE RunStands(d)'
    BY DEF RunsStand
  <2>1. CASE d # c
    <3>1. RunStands(d)
      BY DEF DebugInv, RunsStand
    <3>2. Started(d) => Settled(held[d].session)'
      BY <1>1, <1>4, <2>1, <3>1, SettledStays DEF RunStands, Started, Settled
    <3> QED BY <1>1, <1>2, <2>1, <3>1, <3>2 DEF RunStands, Ran
  <2>2. CASE d = c
    <3>1. PICK s : s = h.session
      OBVIOUS
    <3>2. Settled(s)'
      BY <1>4, <3>1, SettledStays
    <3>3. Settled(held[c].session)'
      BY <1>1, <3>1, <3>2 DEF Settled
    <3>4. Ran(c)' <=> a \in NodeOutcomes
      BY <1>1 DEF Ran, NodeOutcomes
    <3> QED BY <1>1, <1>3, <2>2, <3>3, <3>4 DEF RunStands, NodeOutcomes
  <2> QED BY <2>1, <2>2
<1> QED BY <1>1, <1>2, <1>3, <1>4, <1>5, <1>6

LEMMA SessionsSame ==
    ASSUME sessions' = sessions
    PROVE  SessionsKept /\ SessionsGrow
  BY KeptGrows DEF SessionsKept, LogChanged

(* A run moves on and keeps what it holds. *)
LEMMA PlainKeeps ==
    ASSUME DebugInv, NEW c \in Calls, Joined(c), at[c] # "done", ask' = ask, NEW l, NEW a,
           l \notin {"start", "addhook"}, at' = [at EXCEPT ![c] = l], held' = held,
           reply' = [reply EXCEPT ![c] = a], UNCHANGED debugVars, l # "done" => a = "none",
           held[c].left = <<>>
    PROVE  DebugInv'
<1>1. /\ ask[c].op = "debugrun" /\ ~ask[c].bad /\ Started(c) /\ held[c] \in RunStates
      /\ Settled(held[c].session)
  BY DEF Joined, Started, DebugInv, DebugTypeOK, RunsStand, RunStands
<1>2. PICK h : h = held[c]
  OBVIOUS
<1>3. /\ held' = [held EXCEPT ![c] = h] /\ sessions' = sessions /\ hooks' = hooks
      /\ traces' = traces /\ raced' = raced
      /\ sessions \in [SessionIds -> SessionRows \cup {None}] /\ hooks \in Seq(Hooks)
      /\ traces \in [Calls -> RunTraces]
  BY <1>2 DEF DebugInv, DebugTypeOK, debugVars
<1>4. /\ RunsGrow /\ DebugTypeOK' /\ RunsStand' /\ at'[c] = l /\ held'[c] = h
      /\ \A d \in Calls : d # c =>
           /\ at'[d] = at[d] /\ held'[d] = held[d]
           /\ (Started(d)' <=> Started(d)) /\ (Joined(d)' <=> Joined(d))
      /\ Started(c)' /\ (Joined(c)' <=> l # "addhook")
  BY <1>1, <1>2, <1>3, RunMoves
<1>5. HooksStand'
  <2>1. /\ \A d \in Calls : d # c /\ Started(d)' => LeftStands(d)'
        /\ \A d \in Calls : d # c /\ Started(d)' /\ at'[d] = "addhook" => GoodHooks(held[d].read)'
    BY <1>3, <1>4, OthersStand
  <2>2. GoodHooks(hooks)'
    BY <1>3, <1>4, HooksStay DEF DebugInv, HooksStand, GoodHooks
  <2>3. LeftStands(c)'
    BY <1>1, <1>3, <1>4, LeftStays
  <2> QED BY <1>4, <2>1, <2>2, <2>3 DEF HooksStand
<1>6. HooksKept'
  <2> SUFFICES ASSUME NEW r \in Calls, Followed(r)'
               PROVE  /\ HasHook(r, hooks)'
                      /\ \A d \in Calls : (Started(d) /\ at[d] = "addhook")' =>
                           HasHook(r, held[d].read)'
    BY DEF HooksKept
  <2>1. Joined(r)
    BY <1>4 DEF Followed
  <2>2. Followed(r)
    BY <1>3, <1>4, <2>1, FollowedBefore, SessionsSame
  <2> QED BY <1>3, <1>4, <2>2 DEF DebugInv, HooksKept, HasHook
<1>7. EventsStand'
  BY <1>3, <1>4, EventsStay, SessionsSame
<1>8. LogsStand'
  <2>1. \A d \in Calls : Joined(d)' =>
          Joined(d) /\ traces'[d] = traces[d] /\ held'[d].left = held[d].left
    BY <1>3, <1>4
  <2> QED BY <1>3, <1>4, <2>1, LogsStay, SessionsSame
<1> QED BY <1>4, <1>5, <1>6, <1>7, <1>8 DEF DebugInv

LEMMA AnnouncedSettled ==
    ASSUME DebugInv, NEW s \in Announced
    PROVE  s \in SessionIds /\ Settled(s)
  BY DEF Announced, SessionIds, Settled, DebugInv, RunsStand, RunStands

(* A run chooses its session and reads the hooks. *)
LEMMA BeginKeeps ==
    ASSUME DebugInv, NEW c \in Calls, Begins(c, "debugrun"), NEW s \in Announced,
           Hold(c, [session |-> s, read |-> hooks, left |-> <<>>, node |-> 0, outcome |-> "ok"]),
           Goto(c, "addhook"), UNCHANGED debugVars
    PROVE  DebugInv'
<1>1. /\ ask[c].op = "debugrun" /\ ~ask[c].bad /\ at[c] = "start" /\ ~Started(c) /\ ~Joined(c)
  BY DEF Begins, Serving, Started, Joined
<1>2. PICK empty, h : /\ empty = <<>>
                      /\ h = [session |-> s, read |-> hooks, left |-> empty, node |-> 0,
                              outcome |-> "ok"]
  OBVIOUS
<1>3. s \in SessionIds /\ Settled(s) /\ empty \in Seq(Waiting) /\ DOMAIN empty = {}
  BY <1>2, AnnouncedSettled
<1>4. /\ sessions' = sessions /\ hooks' = hooks /\ traces' = traces /\ raced' = raced
      /\ sessions \in [SessionIds -> SessionRows \cup {None}] /\ hooks \in Seq(Hooks)
      /\ traces \in [Calls -> RunTraces]
  BY DEF DebugInv, DebugTypeOK, debugVars
<1>5. /\ h \in RunStates /\ h.session = s /\ h.read = hooks /\ h.left = empty
  BY <1>2, <1>3, <1>4 DEF RunStates, NodeOutcomes
<1>6. reply[c] = "none" /\ traces[c] = <<>>
  BY <1>1 DEF DebugInv, RunsStand, RunStands
<1>7. /\ ask' = ask /\ at' = [at EXCEPT ![c] = "addhook"] /\ held' = [held EXCEPT ![c] = h]
      /\ reply' = [reply EXCEPT ![c] = "none"]
  BY <1>2, <1>6 DEF Hold, Goto, DebugInv, DebugTypeOK
<1>8. /\ RunsGrow /\ DebugTypeOK' /\ RunsStand' /\ at'[c] = "addhook" /\ held'[c] = h
      /\ \A d \in Calls : d # c =>
           /\ at'[d] = at[d] /\ held'[d] = held[d]
           /\ (Started(d)' <=> Started(d)) /\ (Joined(d)' <=> Joined(d))
      /\ Started(c)' /\ ~Joined(c)'
  <2>1. PICK l, a : l = "addhook" /\ a = "none"
    OBVIOUS
  <2>2. a \notin NodeOutcomes /\ h.left = <<>> /\ traces'[c] = <<>>
    BY <1>2, <1>4, <1>5, <1>6, <2>1 DEF NodeOutcomes
  <2> QED BY <1>1, <1>3, <1>4, <1>5, <1>7, <2>1, <2>2, RunMoves
<1>9. HooksStand'
  <2>1. /\ \A d \in Calls : d # c /\ Started(d)' => LeftStands(d)'
        /\ \A d \in Calls : d # c /\ Started(d)' /\ at'[d] = "addhook" => GoodHooks(held[d].read)'
    BY <1>4, <1>8, OthersStand
  <2>2. GoodHooks(hooks)'
    BY <1>4, <1>8, HooksStay DEF DebugInv, HooksStand, GoodHooks
  <2>3. LeftStands(c)'
    BY <1>3, <1>5, <1>8 DEF LeftStands, LeftFits
  <2>4. GoodHooks(held[c].read)'
    BY <1>4, <1>5, <1>8, <2>2 DEF GoodHooks
  <2> QED BY <2>1, <2>2, <2>3, <2>4 DEF HooksStand
<1>10. HooksKept'
  <2> SUFFICES ASSUME NEW r \in Calls, Followed(r)'
               PROVE  /\ HasHook(r, hooks)'
                      /\ \A d \in Calls : (Started(d) /\ at[d] = "addhook")' =>
                           HasHook(r, held[d].read)'
    BY DEF HooksKept
  <2>1. Joined(r)
    BY <1>8 DEF Followed
  <2>2. Followed(r)
    BY <1>4, <1>8, <2>1, FollowedBefore, SessionsSame
  <2> QED BY <1>4, <1>5, <1>8, <2>2 DEF DebugInv, HooksKept, HasHook
<1>11. EventsStand'
  BY <1>4, <1>8, EventsStay, SessionsSame
<1>12. LogsStand'
  <2>1. \A d \in Calls : Joined(d)' =>
          Joined(d) /\ traces'[d] = traces[d] /\ held'[d].left = held[d].left
    BY <1>4, <1>8
  <2> QED BY <1>4, <1>8, <2>1, LogsStay, SessionsSame
<1> QED BY <1>8, <1>9, <1>10, <1>11, <1>12 DEF DebugInv

(* A run adds its hook. *)
LEMMA AddKeeps ==
    ASSUME DebugInv, NEW c \in Calls, Serving(c, "debugrun", "addhook"), AddHook(c),
           Hold(c, [held[c] EXCEPT !.read = <<>>]), Goto(c, "create"),
           UNCHANGED <<sessions, traces>>
    PROVE  DebugInv'
<1>1. /\ ask[c].op = "debugrun" /\ at[c] = "addhook" /\ Started(c) /\ ~Joined(c)
      /\ reply[c] = "none" /\ traces[c] = <<>> /\ held[c].left = <<>> /\ Settled(held[c].session)
  BY DEF Serving, Started, Joined, DebugInv, RunsStand, RunStands
<1>2. ~ask[c].bad /\ held[c] \in RunStates
  BY <1>1 DEF Started, DebugInv, DebugTypeOK
<1>3. PICK none, old, h, read, hook :
        /\ none = <<>> /\ old = held[c] /\ read = old.read
        /\ h = [session |-> old.session, read |-> none, left |-> old.left,
                node |-> old.node, outcome |-> old.outcome]
        /\ hook = [session |-> old.session, run |-> c]
  OBVIOUS
<1>4. none \in Seq(Hooks)
  BY <1>3
<1>5. /\ h \in RunStates /\ h.session = old.session /\ h.left = old.left /\ h.node = old.node
      /\ read \in Seq(Hooks) /\ hook \in Hooks /\ hook.run = c /\ hook.session = old.session
      /\ h = [old EXCEPT !.read = none]
  BY <1>2, <1>3, <1>4 DEF RunStates, Hooks
<1>6. /\ ask' = ask /\ at' = [at EXCEPT ![c] = "create"] /\ held' = [held EXCEPT ![c] = h]
      /\ reply' = [reply EXCEPT ![c] = "none"] /\ sessions' = sessions /\ traces' = traces
  BY <1>1, <1>3, <1>5 DEF Hold, Goto, DebugInv, DebugTypeOK
<1>7. hooks' = Append(read, hook) /\ raced \subseteq raced'
  BY <1>3 DEF AddHook
<1>8. /\ sessions \in [SessionIds -> SessionRows \cup {None}] /\ traces \in [Calls -> RunTraces]
      /\ hooks' \in Seq(Hooks)
  BY <1>5, <1>7 DEF DebugInv, DebugTypeOK
<1>9. /\ RunsGrow /\ DebugTypeOK' /\ RunsStand' /\ at'[c] = "create" /\ held'[c] = h
      /\ \A d \in Calls : d # c =>
           /\ at'[d] = at[d] /\ held'[d] = held[d]
           /\ (Started(d)' <=> Started(d)) /\ (Joined(d)' <=> Joined(d))
      /\ Started(c)' /\ Joined(c)'
  <2>1. PICK l, a : l = "create" /\ a = "none"
    OBVIOUS
  <2>2. /\ h \in RunStates /\ h.left = <<>> /\ Settled(h.session)
        /\ h.session = held[c].session
    BY <1>1, <1>3, <1>5
  <2>3. /\ ask[c].op = "debugrun" /\ ~ask[c].bad /\ at[c] # "done" /\ ~Joined(c)
        /\ l # "start" /\ l # "addhook" /\ l # "done" /\ a = "none"
    BY <1>1, <1>2, <2>1
  <2>4. /\ ask' = ask /\ at' = [at EXCEPT ![c] = l] /\ held' = [held EXCEPT ![c] = h]
        /\ reply' = [reply EXCEPT ![c] = a]
        /\ sessions' \in [SessionIds -> SessionRows \cup {None}] /\ hooks' \in Seq(Hooks)
        /\ traces' \in [Calls -> RunTraces] /\ \A d \in Calls : d # c => traces'[d] = traces[d]
    BY <1>6, <1>8, <2>1
  <2>5. /\ RunsGrow /\ DebugTypeOK' /\ RunsStand' /\ at'[c] = l /\ held'[c] = h
        /\ \A d \in Calls : d # c =>
             /\ at'[d] = at[d] /\ held'[d] = held[d]
             /\ (Started(d)' <=> Started(d)) /\ (Joined(d)' <=> Joined(d))
        /\ Started(c)' /\ (Joined(c)' <=> l # "addhook")
    BY <2>2, <2>3, <2>4, RunMoves
  <2> QED BY <2>1, <2>3, <2>5
<1>10. SessionsKept /\ SessionsGrow
  BY <1>6, SessionsSame
<1>11. /\ Len(read) \in Nat /\ DOMAIN read = 1 .. Len(read)
       /\ DOMAIN hooks' = 1 .. (Len(read) + 1)
       /\ \A i \in DOMAIN read : i \in DOMAIN hooks' /\ hooks'[i] = read[i]
       /\ Len(read) + 1 \in DOMAIN hooks' /\ hooks'[Len(read) + 1] = hook
       /\ \A i \in DOMAIN hooks' : i \in DOMAIN read \/ i = Len(read) + 1
  BY <1>5, <1>7
<1>12. GoodHooks(read)
  BY <1>1, <1>3 DEF DebugInv, HooksStand
<1>13. HooksStand'
  <2>1. /\ \A d \in Calls : d # c /\ Started(d)' => LeftStands(d)'
        /\ \A d \in Calls : d # c /\ Started(d)' /\ at'[d] = "addhook" => GoodHooks(held[d].read)'
    BY <1>6, <1>8, <1>9, OthersStand
  <2>2. GoodHooks(read)'
    BY <1>5, <1>9, <1>12, HooksStay
  <2>3. GoodHook(hook)'
    BY <1>3, <1>5, <1>9 DEF GoodHook
  <2>4. \A i \in DOMAIN read : read[i].run # c
    BY <1>1, <1>12 DEF GoodHooks, GoodHook
  <2>5. \A i \in DOMAIN hooks' : GoodHook(hooks[i])'
    <3> SUFFICES ASSUME NEW i \in DOMAIN hooks' PROVE GoodHook(hooks[i])'
      OBVIOUS
    <3>1. PICK x : x = hooks'[i]
      OBVIOUS
    <3>2. GoodHook(x)'
      <4>1. CASE i \in DOMAIN read
        BY <1>11, <2>2, <3>1, <4>1 DEF GoodHooks, GoodHook, Joined, Started
      <4>2. CASE i = Len(read) + 1
        BY <1>11, <2>3, <3>1, <4>2
      <4> QED BY <1>11, <4>1, <4>2
    <3> QED BY <3>1, <3>2 DEF GoodHook, Joined, Started
  <2>6. \A i, j \in DOMAIN hooks' : hooks'[i].run = hooks'[j].run => i = j
    BY <1>5, <1>11, <1>12, <2>4 DEF GoodHooks
  <2>7. LeftStands(c)'
    BY <1>1, <1>3, <1>5, <1>6, <1>9, LeftStays
  <2> QED BY <1>9, <2>1, <2>5, <2>6, <2>7 DEF HooksStand, GoodHooks
<1>14. HooksKept'
  <2> SUFFICES ASSUME NEW r \in Calls, Followed(r)'
               PROVE  /\ HasHook(r, hooks)'
                      /\ \A d \in Calls : (Started(d) /\ at[d] = "addhook")' =>
                           HasHook(r, held[d].read)'
    BY DEF HooksKept
  <2>1. CASE r = c
    <3>1. HasHook(c, hooks)'
      BY <1>5, <1>11 DEF HasHook
    <3>2. ASSUME NEW d \in Calls, Started(d)', at'[d] = "addhook" PROVE FALSE
      <4>1. d # c /\ Serving(d, "debugrun", "addhook")
        BY <1>9, <3>2 DEF Started, Serving
      <4>2. c \in raced'
        BY <4>1 DEF AddHook
      <4> QED BY <2>1, <4>2 DEF Followed
    <3> QED BY <2>1, <3>1, <3>2
  <2>2. CASE r # c
    <3>1. Followed(r)
      BY <1>7, <1>9, <1>10, <2>2, FollowedBefore DEF Followed
    <3>2. HasHook(r, read)
      BY <1>1, <1>3, <3>1 DEF DebugInv, HooksKept
    <3>3. HasHook(r, hooks)'
      BY <1>11, <3>2 DEF HasHook
    <3> QED BY <1>9, <3>1, <3>3 DEF DebugInv, HooksKept, HasHook
  <2> QED BY <2>1, <2>2
<1>15. EventsStand'
  BY <1>9, <1>10, EventsStay
<1>16. LogsStand'
  <2> SUFFICES ASSUME NEW r \in Calls, NEW q \in Calls, Followed(r)', Joined(q)'
               PROVE  LogStands(sessions[held[r].session].events, r, q, traces[q], held[q].left)'
    BY DEF LogsStand
  <2>1. CASE r # c /\ q # c
    BY <1>6, <1>7, <1>9, <1>10, <2>1, LogStays DEF Followed
  <2>2. CASE r = c \/ q = c
    <3>1. PICK s, log, trace, left :
            /\ s = held'[r].session /\ log = sessions[s].events
            /\ trace = traces[q] /\ left = held'[q].left
      OBVIOUS
    <3>2. s \in Stored /\ ask[r].op = "debugrun"
      BY <1>6, <3>1 DEF Followed, Joined, Started, Stored, SessionIds
    <3>3. \A i \in DOMAIN log : ~Told(log[i], r, q)
      BY <1>1, <2>2, <3>1, <3>2 DEF DebugInv, EventsStand, EventStands, Told
    <3>4. q = r => trace = <<>> /\ left = <<>>
      BY <1>1, <1>3, <1>5, <1>9, <2>2, <3>1
    <3>5. LogStands(log, r, q, trace, left)
      BY <3>3, <3>4, NothingLogged
    <3> QED BY <1>6, <3>1, <3>5
  <2> QED BY <2>1, <2>2
<1> QED BY <1>9, <1>13, <1>14, <1>15, <1>16 DEF DebugInv

(* The loop over the hooks begins: each hook has the same events to log. *)
LEMMA CallKeeps ==
    ASSUME DebugInv, NEW c \in Calls, Joined(c), at[c] # "done", held[c].left = <<>>,
           NEW types \in Seq(LogTypes), Len(types) >= 1, NEW n \in Nat,
           NEW outcome \in NodeOutcomes, NEW l, l \in {"before", "after"},
           CallHooks(c, types, n, outcome), Goto(c, l)
    PROVE  DebugInv'
<1>1. /\ ask[c].op = "debugrun" /\ ~ask[c].bad /\ Started(c) /\ held[c] \in RunStates
      /\ Settled(held[c].session) /\ reply[c] = "none"
  BY DEF Joined, Started, DebugInv, DebugTypeOK, RunsStand, RunStands
<1>2. PICK old, waiting, h, more, trace :
        /\ old = held[c] /\ waiting = ToLog(types) /\ trace = traces[c]
        /\ h = [old EXCEPT !.left = waiting, !.node = n, !.outcome = outcome]
        /\ more = [i \in 1 .. Len(types) |-> [type |-> types[i], node |-> n]]
  OBVIOUS
<1>3. /\ sessions' = sessions /\ hooks' = hooks /\ raced' = raced
      /\ sessions \in [SessionIds -> SessionRows \cup {None}] /\ hooks \in Seq(Hooks)
      /\ traces \in [Calls -> RunTraces] /\ trace \in RunTraces
  BY <1>2 DEF CallHooks, DebugInv, DebugTypeOK
<1>4. /\ Len(hooks) \in Nat /\ DOMAIN hooks = 1 .. Len(hooks) /\ DOMAIN waiting = DOMAIN hooks
      /\ \A i \in DOMAIN hooks : waiting[i] = [hook |-> hooks[i], types |-> types]
  BY <1>2, <1>3 DEF ToLog
<1>5. \A i \in DOMAIN hooks : waiting[i] \in Waiting /\ waiting[i].hook = hooks[i]
                              /\ waiting[i].types = types
  BY <1>3, <1>4 DEF Waiting
<1>6. waiting \in Seq(Waiting)
  <2>1. PICK b : b = Len(hooks)
    OBVIOUS
  <2>2. waiting = [i \in 1 .. b |-> [hook |-> hooks[i], types |-> types]] /\ b \in Nat
    BY <1>2, <1>4, <2>1 DEF ToLog
  <2>3. \A i \in 1 .. b : [hook |-> hooks[i], types |-> types] \in Waiting
    BY <1>4, <1>5, <2>1
  <2> QED BY <2>2, <2>3
<1>7. /\ h \in RunStates /\ h.session = old.session /\ h.left = waiting /\ h.node = n
      /\ h = [old EXCEPT !.left = waiting, !.node = n, !.outcome = outcome]
  <2>1. old \in RunStates /\ h = [old EXCEPT !.left = waiting, !.node = n, !.outcome = outcome]
    BY <1>1, <1>2
  <2>2. h \in RunStates /\ h.session = old.session /\ h.left = waiting /\ h.node = n
    BY <1>6, <2>1 DEF RunStates
  <2> QED BY <2>1, <2>2
<1>8. /\ ask' = ask /\ at' = [at EXCEPT ![c] = l] /\ held' = [held EXCEPT ![c] = h]
      /\ reply' = [reply EXCEPT ![c] = "none"]
  BY <1>1, <1>2, <1>7 DEF CallHooks, Hold, Goto, DebugInv, DebugTypeOK
<1>9. PICK t, k : t = Len(trace) /\ k = Len(types)
  OBVIOUS
<1>10. /\ more \in RunTraces /\ Len(more) = k /\ k \in Nat /\ t \in Nat
       /\ \A i \in 1 .. k : more[i] = [type |-> types[i], node |-> n]
  <2>1. k \in Nat /\ \A i \in 1 .. k : types[i] \in LogTypes
    BY <1>9
  <2>2. \A i \in 1 .. k : [type |-> types[i], node |-> n] \in TraceEvents
    BY <2>1 DEF TraceEvents
  <2>3. more \in Seq(TraceEvents) /\ Len(more) = k
    BY <1>2, <1>9, <2>1, <2>2
  <2>4. t \in Nat
    BY <1>3, <1>9 DEF RunTraces
  <2> QED BY <1>2, <1>9, <2>1, <2>3, <2>4 DEF RunTraces
<1>11. PICK long : long = trace \o more
  OBVIOUS
<1>12. /\ long \in RunTraces /\ Len(long) = t + k
       /\ \A i \in 1 .. k : long[t + i] = more[i]
  <2>1. trace \in Seq(TraceEvents) /\ more \in Seq(TraceEvents)
    BY <1>3, <1>10 DEF RunTraces
  <2>2. long \in Seq(TraceEvents)
    BY <1>11, <2>1
  <2>3. Len(long) = t + k
    <3>1. Len(trace \o more) = Len(trace) + Len(more)
      BY <2>1
    <3> QED BY <1>9, <1>10, <1>11, <3>1
  <2>4. \A i \in 1 .. Len(more) : (trace \o more)[Len(trace) + i] = more[i]
    BY <2>1
  <2>5. \A i \in 1 .. k : long[t + i] = more[i]
    BY <1>9, <1>10, <1>11, <2>4
  <2> QED BY <2>2, <2>3, <2>5 DEF RunTraces
<1>13. /\ traces' = [traces EXCEPT ![c] = long]
       /\ traces'[c] = long /\ \A d \in Calls : d # c => traces'[d] = traces[d]
  BY <1>2, <1>3, <1>11 DEF CallHooks
<1>14. traces' \in [Calls -> RunTraces]
  BY <1>3, <1>12, <1>13
<1>15. /\ RunsGrow /\ DebugTypeOK' /\ RunsStand' /\ at'[c] = l /\ held'[c] = h
       /\ \A d \in Calls : d # c =>
            /\ at'[d] = at[d] /\ held'[d] = held[d]
            /\ (Started(d)' <=> Started(d)) /\ (Joined(d)' <=> Joined(d))
       /\ Started(c)' /\ Joined(c)'
  <2>1. PICK a : a = "none"
    OBVIOUS
  <2>2. /\ h \in RunStates /\ Settled(h.session) /\ h.session = held[c].session
    BY <1>1, <1>2, <1>7
  <2>3. /\ ask[c].op = "debugrun" /\ ~ask[c].bad /\ l \notin {"start", "addhook", "create", "visit"}
        /\ l # "done" /\ a = "none" /\ a \notin NodeOutcomes
    BY <1>1, <2>1 DEF NodeOutcomes
  <2>4. /\ ask' = ask /\ at' = [at EXCEPT ![c] = l] /\ held' = [held EXCEPT ![c] = h]
        /\ reply' = [reply EXCEPT ![c] = a]
        /\ sessions' \in [SessionIds -> SessionRows \cup {None}] /\ hooks' \in Seq(Hooks)
        /\ traces' \in [Calls -> RunTraces] /\ \A d \in Calls : d # c => traces'[d] = traces[d]
    BY <1>3, <1>8, <1>13, <1>14, <2>1
  <2>5. /\ RunsGrow /\ DebugTypeOK' /\ RunsStand' /\ at'[c] = l /\ held'[c] = h
        /\ \A d \in Calls : d # c =>
             /\ at'[d] = at[d] /\ held'[d] = held[d]
             /\ (Started(d)' <=> Started(d)) /\ (Joined(d)' <=> Joined(d))
        /\ Started(c)' /\ (Joined(c)' <=> l # "addhook")
    BY <2>2, <2>3, <2>4, RunMoves
  <2> QED BY <2>3, <2>5
<1>16. SessionsKept /\ SessionsGrow
  BY <1>3, SessionsSame
<1>17. GoodHooks(hooks) /\ GoodHooks(hooks)'
  BY <1>3, <1>15, HooksStay DEF DebugInv, HooksStand, GoodHooks
<1>18. HooksStand'
  <2>1. /\ \A d \in Calls : d # c /\ Started(d)' => LeftStands(d)'
        /\ \A d \in Calls : d # c /\ Started(d)' /\ at'[d] = "addhook" => GoodHooks(held[d].read)'
    BY <1>3, <1>13, <1>15, OthersStand
  <2>2. \A i \in DOMAIN waiting : GoodHook(waiting[i].hook)'
    <3> SUFFICES ASSUME NEW i \in DOMAIN waiting PROVE GoodHook(waiting[i].hook)'
      OBVIOUS
    <3>1. waiting[i].hook = hooks'[i] /\ i \in DOMAIN hooks'
      BY <1>3, <1>4, <1>5
    <3> QED BY <1>17, <3>1 DEF GoodHooks, GoodHook, Joined, Started
  <2>3. LeftFits(waiting, long, n)
    <3>1. \A i, j \in DOMAIN waiting : waiting[i].hook.run = waiting[j].hook.run => i = j
      BY <1>4, <1>5, <1>17 DEF GoodHooks
    <3>2. k \in 1 .. (t + k) /\ \A i \in 1 .. k : (t + k) - k + i = t + i
      BY <1>9, <1>10
    <3>3. \A i \in 1 .. k : long[(t + k) - k + i] = [type |-> types[i], node |-> n]
      BY <1>10, <1>12, <3>2
    <3> QED BY <1>4, <1>5, <1>9, <1>12, <3>1, <3>2, <3>3 DEF LeftFits
  <2>4. held'[c].left = waiting /\ held'[c].node = n /\ traces'[c] = long
    BY <1>7, <1>13, <1>15
  <2>5. LeftStands(c)'
    <3>1. \A i \in DOMAIN held'[c].left : GoodHook(held[c].left[i].hook)'
      BY <2>2, <2>4 DEF GoodHook, Joined, Started
    <3>2. LeftFits(held[c].left, traces[c], held[c].node)'
      BY <2>3, <2>4
    <3> QED BY <3>1, <3>2 DEF LeftStands
  <2> QED BY <1>15, <1>17, <2>1, <2>5 DEF HooksStand
<1>19. HooksKept'
  <2> SUFFICES ASSUME NEW r \in Calls, Followed(r)'
               PROVE  /\ HasHook(r, hooks)'
                      /\ \A d \in Calls : (Started(d) /\ at[d] = "addhook")' =>
                           HasHook(r, held[d].read)'
    BY DEF HooksKept
  <2>1. Joined(r)
    BY <1>15 DEF Followed
  <2>2. Followed(r)
    BY <1>3, <1>15, <1>16, <2>1, FollowedBefore
  <2> QED BY <1>3, <1>15, <2>2 DEF DebugInv, HooksKept, HasHook
<1>20. EventsStand'
  BY <1>15, <1>16, EventsStay
<1>21. LogsStand'
  <2> SUFFICES ASSUME NEW r \in Calls, NEW q \in Calls, Followed(r)', Joined(q)'
               PROVE  LogStands(sessions[held[r].session].events, r, q, traces[q], held[q].left)'
    BY DEF LogsStand
  <2>1. Joined(r) /\ Joined(q)
    BY <1>15 DEF Followed
  <2>2. CASE q # c
    BY <1>3, <1>13, <1>15, <1>16, <2>1, <2>2, LogStays
  <2>3. CASE q = c
    <3>1. Followed(r) /\ held'[r].session = held[r].session
      BY <1>3, <1>15, <1>16, <2>1, FollowedBefore
    <3>2. PICK s, log, left :
            s = held[r].session /\ log = sessions[s].events /\ left = old.left
      OBVIOUS
    <3>3. LogStands(log, r, c, trace, left) /\ log \in DebugLogs /\ left = <<>>
      BY <1>2, <3>1, <3>2, StoredLog DEF DebugInv, LogsStand, Followed
    <3>4. PICK i \in DOMAIN hooks : hooks[i].run = r
      BY <3>1 DEF DebugInv, HooksKept, HasHook
    <3>5. i \in DOMAIN waiting /\ waiting[i].hook.run = r /\ Len(waiting[i].types) = Len(more)
      BY <1>4, <1>5, <1>9, <1>10, <3>4
    <3>6. LogStands(log, r, c, long, waiting)
      BY <1>3, <1>10, <1>11, <3>3, <3>5, TraceGrows
    <3>7. /\ sessions'[held'[r].session].events = log /\ traces'[q] = long
          /\ held'[q].left = waiting
      BY <1>3, <1>7, <1>13, <1>15, <2>3, <3>1, <3>2
    <3> QED BY <2>3, <3>6, <3>7
  <2> QED BY <2>2, <2>3
<1> QED BY <1>15, <1>18, <1>19, <1>20, <1>21 DEF DebugInv

(* logEvent *)
LEMMA EventAdded ==
    ASSUME DebugInv, NEW s \in SessionIds, NEW e \in DebugEvents, LogEvent(s, e)
    PROVE  /\ sessions' \in [SessionIds -> SessionRows \cup {None}]
           /\ \A x \in SessionIds : x # s => sessions'[x] = sessions[x]
           /\ sessions[s] = None => sessions' = sessions
           /\ sessions[s] # None => sessions'[s].events = Append(sessions[s].events, e)
<1>1. sessions \in [SessionIds -> SessionRows \cup {None}]
  BY DEF DebugInv, DebugTypeOK
<1>2. CASE sessions[s] = None
  BY <1>1, <1>2 DEF LogEvent
<1>3. CASE sessions[s] # None
  <2>1. PICK row, log : row = sessions[s] /\ log = Append(row.events, e)
    OBVIOUS
  <2>2. row \in SessionRows /\ log \in DebugLogs
    BY <1>1, <1>3, <2>1 DEF SessionRows, DebugLogs
  <2>3. PICK new : new = [row EXCEPT !.events = log]
    OBVIOUS
  <2>4. new \in SessionRows /\ new.events = log
    BY <2>2, <2>3 DEF SessionRows
  <2>5. sessions' = [sessions EXCEPT ![s] = new]
    BY <1>1, <1>3, <2>1, <2>3 DEF LogEvent
  <2> QED BY <1>1, <1>3, <2>1, <2>4, <2>5
<1> QED BY <1>2, <1>3

(* One hook logs one event. *)
LEMMA LogKeeps ==
    ASSUME DebugInv, NEW c \in Calls, LogNode(c)
    PROVE  DebugInv'
<1>1. /\ ask[c].op = "debugrun" /\ at[c] \in {"before", "after"} /\ held[c].left # <<>>
      /\ Started(c) /\ Joined(c) /\ held[c] \in RunStates /\ Settled(held[c].session)
      /\ reply[c] = "none" /\ ~ask[c].bad
  BY DEF LogNode, Joined, Started, DebugInv, DebugTypeOK, RunsStand, RunStands
<1>2. PICK old, left, w, trace, first, hook, types :
        /\ old = held[c] /\ left = old.left /\ w = OneLogged(left) /\ trace = traces[c]
        /\ first = left[1] /\ hook = first.hook /\ types = first.types
  OBVIOUS
<1>3. /\ left \in Seq(Waiting) /\ left # <<>> /\ trace \in RunTraces /\ old.node \in Nat
      /\ LeftFits(left, trace, old.node) /\ 1 \in DOMAIN left /\ Head(left) = first
      /\ first \in Waiting
  <2>1. left \in Seq(Waiting) /\ left # <<>> /\ trace \in RunTraces /\ old.node \in Nat
    BY <1>1, <1>2 DEF RunStates, DebugInv, DebugTypeOK
  <2>2. LeftFits(left, trace, old.node)
    BY <1>1, <1>2 DEF DebugInv, HooksStand, LeftStands
  <2> QED BY <1>2, <2>1, <2>2
<1>4. /\ hook \in Hooks /\ types \in Seq(LogTypes) /\ GoodHook(hook)
      /\ hook.run \in Calls /\ hook.session \in SessionIds
  <2>1. hook \in Hooks /\ types \in Seq(LogTypes)
    BY <1>2, <1>3 DEF Waiting
  <2>2. GoodHook(hook)
    BY <1>1, <1>2, <1>3 DEF DebugInv, HooksStand, LeftStands
  <2> QED BY <2>1, <2>2 DEF Hooks
<1>5. PICK t, k, nth : t = Len(trace) /\ k = Len(types) /\ nth = t - k + 1
  OBVIOUS
<1>6. t \in Nat /\ k \in Nat /\ k >= 1 /\ nth \in Nat /\ Head(types) \in LogTypes
  <2>1. t \in Nat /\ k \in Nat
    BY <1>3, <1>4, <1>5 DEF RunTraces
  <2>2. k \in 1 .. t
    BY <1>2, <1>3, <1>5 DEF LeftFits
  <2>3. Head(types) \in LogTypes
    BY <1>4, <1>5, <2>1, <2>2
  <2> QED BY <1>5, <2>1, <2>2, <2>3
<1>7. PICK e : e = Event(Head(types), old.node, hook.run, c, nth)
  OBVIOUS
<1>8. /\ e \in DebugEvents /\ e.type = Head(types) /\ e.node = old.node /\ e.by = hook.run
      /\ e.of = c /\ e.nth = nth
  BY <1>3, <1>4, <1>6, <1>7 DEF Event, DebugEvents
<1>9. LogEvent(hook.session, e)
  BY <1>2, <1>3, <1>5, <1>7 DEF LogNode
<1>10. PICK s, r0 : s = hook.session /\ r0 = hook.run
  OBVIOUS
<1>11. /\ sessions' \in [SessionIds -> SessionRows \cup {None}]
       /\ \A x \in SessionIds : x # s => sessions'[x] = sessions[x]
       /\ sessions[s] = None => sessions' = sessions
       /\ sessions[s] # None => sessions'[s].events = Append(sessions[s].events, e)
  BY <1>4, <1>8, <1>9, <1>10, EventAdded
<1>12. Joined(r0) /\ held[r0].session = s /\ r0 \in Calls /\ s \in SessionIds
  BY <1>4, <1>10 DEF GoodHook
<1>13. /\ w \in Seq(Waiting) /\ LeftFits(w, trace, old.node)
       /\ \A i \in DOMAIN w : \E j \in DOMAIN left : w[i].hook = left[j].hook
  <2>1. PICK node : node = old.node
    OBVIOUS
  <2>2. left \in Seq(Waiting) /\ left # <<>> /\ trace \in RunTraces /\ LeftFits(left, trace, node)
    BY <1>3, <2>1
  <2>3. w = OneLogged(left)
    BY <1>2
  <2>4. /\ w \in Seq(Waiting) /\ LeftFits(w, trace, node)
        /\ \A i \in DOMAIN w : \E j \in DOMAIN left : w[i].hook = left[j].hook
    BY <2>2, <2>3, LessFits
  <2> QED BY <2>1, <2>4
<1>14. PICK h : h = [session |-> old.session, read |-> old.read, left |-> w,
                     node |-> old.node, outcome |-> old.outcome]
  OBVIOUS
<1>15. /\ h \in RunStates /\ h.session = old.session /\ h.left = w /\ h.node = old.node
       /\ h = [old EXCEPT !.left = w]
  BY <1>1, <1>2, <1>13, <1>14 DEF RunStates
<1>16. /\ ask' = ask /\ at' = at /\ held' = [held EXCEPT ![c] = h] /\ reply' = reply
       /\ hooks' = hooks /\ traces' = traces /\ raced' = raced
  BY <1>2, <1>15 DEF LogNode, Hold
<1>17. /\ RunsGrow /\ DebugTypeOK' /\ RunsStand' /\ held'[c] = h
       /\ \A d \in Calls : d # c => held'[d] = held[d]
       /\ \A d \in Calls : (Started(d)' <=> Started(d)) /\ (Joined(d)' <=> Joined(d))
  <2>1. PICK l, a : l = at[c] /\ a = "none"
    OBVIOUS
  <2>2. /\ h \in RunStates /\ Settled(h.session) /\ h.session = held[c].session
    BY <1>1, <1>2, <1>15
  <2>3. /\ ask[c].op = "debugrun" /\ ~ask[c].bad /\ l \notin {"start", "addhook", "create", "visit"}
        /\ l # "done" /\ a = "none" /\ a \notin NodeOutcomes /\ at[c] # "done"
    BY <1>1, <2>1 DEF NodeOutcomes
  <2>4. /\ ask' = ask /\ at' = [at EXCEPT ![c] = l] /\ held' = [held EXCEPT ![c] = h]
        /\ reply' = [reply EXCEPT ![c] = a]
        /\ sessions' \in [SessionIds -> SessionRows \cup {None}] /\ hooks' \in Seq(Hooks)
        /\ traces' \in [Calls -> RunTraces] /\ \A d \in Calls : d # c => traces'[d] = traces[d]
    BY <1>1, <1>11, <1>16, <2>1 DEF DebugInv, DebugTypeOK
  <2>5. /\ RunsGrow /\ DebugTypeOK' /\ RunsStand' /\ at'[c] = l /\ held'[c] = h
        /\ \A d \in Calls : d # c =>
             /\ at'[d] = at[d] /\ held'[d] = held[d]
             /\ (Started(d)' <=> Started(d)) /\ (Joined(d)' <=> Joined(d))
        /\ Started(c)' /\ (Joined(c)' <=> l # "addhook")
    BY <2>2, <2>3, <2>4, RunMoves
  <2> QED BY <1>1, <2>3, <2>5
<1>18. SessionsGrow
  <2>1. EventStands(e)
    BY <1>1, <1>8, <1>10, <1>12 DEF EventStands
  <2> QED BY <1>8, <1>11, <1>12, <2>1 DEF SessionsGrow, LogChanged
<1>19. HooksStand'
  <2>1. /\ \A d \in Calls : d # c /\ Started(d)' => LeftStands(d)'
        /\ \A d \in Calls : d # c /\ Started(d)' /\ at'[d] = "addhook" => GoodHooks(held[d].read)'
    BY <1>16, <1>17, OthersStand DEF DebugInv, DebugTypeOK
  <2>2. GoodHooks(hooks)'
    BY <1>16, <1>17, HooksStay DEF DebugInv, DebugTypeOK, HooksStand, GoodHooks
  <2>3. \A i \in DOMAIN w : GoodHook(w[i].hook)'
    <3> SUFFICES ASSUME NEW i \in DOMAIN w PROVE GoodHook(w[i].hook)'
      OBVIOUS
    <3>1. PICK j \in DOMAIN left : w[i].hook = left[j].hook
      BY <1>13
    <3>2. PICK x : x = left[j].hook
      OBVIOUS
    <3>3. GoodHook(x)
      BY <1>1, <1>2, <3>2 DEF DebugInv, HooksStand, LeftStands
    <3>4. left[j] \in Waiting
      BY <1>3
    <3>5. x \in Hooks
      BY <3>2, <3>4 DEF Waiting
    <3>6. GoodHook(x)'
      BY <1>17, <3>3, <3>5, HookStays
    <3> QED BY <3>1, <3>2, <3>6 DEF GoodHook, Joined, Started
  <2>4. held'[c].left = w /\ held'[c].node = old.node /\ traces'[c] = trace
    BY <1>2, <1>15, <1>16, <1>17
  <2>5. LeftStands(c)'
    <3>1. \A i \in DOMAIN held'[c].left : GoodHook(held[c].left[i].hook)'
      BY <2>3, <2>4 DEF GoodHook, Joined, Started
    <3>2. LeftFits(held[c].left, traces[c], held[c].node)'
      BY <1>13, <2>4
    <3> QED BY <3>1, <3>2 DEF LeftStands
  <2>6. at'[c] # "addhook"
    BY <1>1, <1>16
  <2> QED BY <2>1, <2>2, <2>5, <2>6 DEF HooksStand
<1>20. HooksKept'
  <2> SUFFICES ASSUME NEW r \in Calls, Followed(r)'
               PROVE  /\ HasHook(r, hooks)'
                      /\ \A d \in Calls : (Started(d) /\ at[d] = "addhook")' =>
                           HasHook(r, held[d].read)'
    BY DEF HooksKept
  <2>1. Joined(r)
    BY <1>17 DEF Followed
  <2>2. Followed(r)
    BY <1>16, <1>17, <1>18, <2>1, FollowedBefore
  <2> QED BY <1>1, <1>16, <1>17, <2>2 DEF DebugInv, HooksKept, HasHook
<1>21. EventsStand'
  BY <1>17, <1>18, EventsStay
<1>22. LogsStand'
  <2> SUFFICES ASSUME NEW r \in Calls, NEW q \in Calls, Followed(r)', Joined(q)'
               PROVE  LogStands(sessions[held[r].session].events, r, q, traces[q], held[q].left)'
    BY DEF LogsStand
  <2>1. Joined(r) /\ Joined(q)
    BY <1>17 DEF Followed
  <2>2. Followed(r) /\ held'[r].session = held[r].session
    BY <1>16, <1>17, <1>18, <2>1, FollowedBefore
  <2>3. PICK x, log, new, wait, yet, road :
          /\ x = held[r].session /\ log = sessions[x].events /\ new = sessions'[x].events
          /\ wait = held[q].left /\ yet = held'[q].left /\ road = traces[q]
    OBVIOUS
  <2>4. LogStands(log, r, q, road, wait) /\ log \in DebugLogs /\ x \in SessionIds
        /\ sessions[x] # None
    BY <2>1, <2>2, <2>3, StoredLog DEF DebugInv, LogsStand, Followed, Stored
  <2>5. new = log \/ new = Append(log, e)
    BY <1>11, <1>12, <2>3, <2>4
  <2>6. LogStands(new, r, q, road, yet)
    <3>1. CASE q # c
      <4>1. yet = wait /\ ~Told(e, r, q)
        BY <1>8, <1>17, <2>3, <3>1 DEF Told
      <4>2. LogStands(Append(log, e), r, q, road, wait)
        BY <2>4, <4>1, ForeignEvent
      <4> QED BY <2>4, <2>5, <4>1, <4>2
    <3>2. CASE q = c /\ r # r0
      <4>1. wait = left /\ road = trace /\ yet = w /\ ~Told(e, r, q)
        BY <1>2, <1>8, <1>10, <1>15, <1>17, <2>3, <3>2 DEF Told
      <4>2. r # left[1].hook.run /\ Len(left[1].types) >= 1
        BY <1>2, <1>5, <1>6, <1>10, <3>2
      <4>3. LogStands(log, r, q, trace, left)
        BY <2>4, <4>1
      <4>4. LogStands(log, r, q, trace, w)
        BY <1>2, <1>3, <4>2, <4>3, OtherLogged
      <4>5. LogStands(Append(log, e), r, q, trace, w)
        BY <2>4, <4>1, <4>4, ForeignEvent
      <4> QED BY <2>5, <4>1, <4>4, <4>5
    <3>3. CASE q = c /\ r = r0
      <4>1. wait = left /\ road = trace /\ yet = w /\ Told(e, r, q)
        BY <1>2, <1>8, <1>10, <1>15, <1>17, <2>3, <3>3 DEF Told
      <4>2. new = Append(log, e)
        BY <1>11, <1>12, <2>3, <2>4, <3>3
      <4>3. /\ left[1].hook.run = r /\ e.type = Head(left[1].types) /\ e.node = old.node
            /\ e.nth = Len(trace) - Len(left[1].types) + 1
        BY <1>2, <1>5, <1>8, <1>10, <3>3
      <4>4. PICK node : node = old.node
        OBVIOUS
      <4>5. LogStands(log, r, q, trace, left) /\ LeftFits(left, trace, node) /\ e.node = node
        BY <1>3, <2>4, <4>1, <4>3, <4>4
      <4>6. LogStands(Append(log, e), r, q, trace, w)
        BY <1>2, <1>3, <2>4, <4>1, <4>3, <4>5, OwnLogged
      <4> QED BY <4>1, <4>2, <4>6
    <3> QED BY <3>1, <3>2, <3>3
  <2>7. /\ sessions'[held'[r].session].events = new /\ traces'[q] = road
        /\ held'[q].left = yet
    BY <1>16, <2>2, <2>3
  <2> QED BY <2>6, <2>7
<1> QED BY <1>17, <1>19, <1>20, <1>21, <1>22 DEF DebugInv

(* Steps of a call that is no run, or is refused as malformed. *)
LEMMA QuietAnswers ==
    ASSUME DebugInv, NEW c \in Calls, at[c] # "done", NEW a, Answer(c, a), UNCHANGED held,
           ask[c].op # "debugrun" \/ (ask[c].bad /\ at[c] = "start" /\ a = "refused"),
           sessions' \in [SessionIds -> SessionRows \cup {None}], SessionsKept,
           UNCHANGED <<hooks, traces, raced>>
    PROVE  DebugInv'
<1>1. PICK l, h : l = "done" /\ h = held[c]
  OBVIOUS
<1>2. /\ ask' = ask /\ at' = [at EXCEPT ![c] = l] /\ held' = [held EXCEPT ![c] = h]
      /\ reply' = [reply EXCEPT ![c] = a]
  BY <1>1 DEF Answer, DebugInv, DebugTypeOK
<1> QED BY <1>1, <1>2, QuietKeeps

LEMMA QuietGoes ==
    ASSUME DebugInv, NEW c \in Calls, at[c] # "done", NEW l, l # "done", Goto(c, l), NEW h,
           held' = [held EXCEPT ![c] = h], ask[c].op # "debugrun",
           sessions' \in [SessionIds -> SessionRows \cup {None}], SessionsKept,
           UNCHANGED <<hooks, traces, raced>>
    PROVE  DebugInv'
<1>1. PICK a : a = reply[c]
  OBVIOUS
<1>2. a = "none"
  BY <1>1 DEF DebugInv, RunsStand, RunStands
<1>3. ask' = ask /\ at' = [at EXCEPT ![c] = l] /\ reply' = [reply EXCEPT ![c] = a]
  BY <1>1 DEF Goto, DebugInv, DebugTypeOK
<1> QED BY <1>2, <1>3, QuietKeeps

(* One event more in a session, not by a run. *)
LEMMA AnnouncementKept ==
    ASSUME DebugInv, NEW s \in SessionIds, NEW e \in DebugEvents, NotOfRuns(e),
           sessions[s] # None => sessions'[s].events = Append(sessions[s].events, e),
           sessions[s] = None => sessions'[s] = None,
           \A x \in SessionIds : x # s => sessions'[x] = sessions[x]
    PROVE  SessionsKept
  BY DEF SessionsKept, LogChanged

LEMMA StartSessionKeeps ==
    ASSUME DebugInv, NEW c \in Calls, StartDebugSession(c)
    PROVE  DebugInv'
<1>1. /\ sessions \in [SessionIds -> SessionRows \cup {None}] /\ c \in SessionIds
      /\ held = [held EXCEPT ![c] = held[c]]
  BY DEF DebugInv, DebugTypeOK, SessionIds
<1>2. ask[c].op = "debugsession" /\ at[c] # "done" /\ ask[c].op # "debugrun"
  BY DEF StartDebugSession, Begins, Serving
<1>3. CASE /\ Begins(c, "debugsession") /\ UNCHANGED debugVars
           /\ (Goto(c, "insert") /\ UNCHANGED held) \/ Refuse(c)
  <2>1. /\ sessions' = sessions /\ UNCHANGED <<hooks, traces, raced>> /\ SessionsKept
    BY <1>3, SessionsSame DEF debugVars
  <2>2. CASE Goto(c, "insert") /\ UNCHANGED held
    <3>1. PICK l, h : l = "insert" /\ h = held[c]
      OBVIOUS
    <3>2. l # "done" /\ Goto(c, l) /\ held' = [held EXCEPT ![c] = h]
      BY <1>1, <2>2, <3>1
    <3> QED BY <1>1, <1>2, <2>1, <3>2, QuietGoes
  <2>3. CASE Refuse(c)
    BY <1>1, <1>2, <2>1, <2>3, QuietAnswers DEF Refuse
  <2> QED BY <1>3, <2>2, <2>3
<1>4. CASE /\ Serving(c, "debugsession", "insert")
           /\ sessions' = [sessions EXCEPT ![c] = NewSession]
           /\ Goto(c, "announce") /\ UNCHANGED <<held, hooks, traces, raced>>
  <2>1. PICK none, new : none = <<>> /\ new = NewSession
    OBVIOUS
  <2>2. none \in DebugLogs
    BY <2>1 DEF DebugLogs
  <2>3. new \in SessionRows /\ new.events = <<>>
    BY <2>1, <2>2 DEF NewSession, SessionRows
  <2>4. ~Settled(c)
    BY <1>4, SessionAssumption DEF Settled, Serving
  <2>5. /\ sessions' \in [SessionIds -> SessionRows \cup {None}] /\ sessions'[c] = new
        /\ \A x \in SessionIds : x # c => sessions'[x] = sessions[x]
    BY <1>1, <1>4, <2>1, <2>3
  <2>6. SessionsKept
    BY <2>3, <2>4, <2>5 DEF SessionsKept, LogChanged
  <2>7. PICK l, h : l = "announce" /\ h = held[c]
    OBVIOUS
  <2>8. l # "done" /\ Goto(c, l) /\ held' = [held EXCEPT ![c] = h]
    BY <1>1, <1>4, <2>7
  <2> QED BY <1>2, <1>4, <2>5, <2>6, <2>8, QuietGoes
<1>5. CASE /\ Serving(c, "debugsession", "announce")
           /\ LogEvent(c, Event("execution_start", 0, c, c, 0))
           /\ Ok(c) /\ UNCHANGED <<hooks, traces, raced>>
  <2>1. PICK e : e = Event("execution_start", 0, c, c, 0)
    OBVIOUS
  <2>2. e \in DebugEvents /\ NotOfRuns(e)
    BY <1>2, <2>1 DEF Event, DebugEvents, LogTypes, NotOfRuns
  <2>3. LogEvent(c, e)
    BY <1>5, <2>1
  <2>4. /\ sessions' \in [SessionIds -> SessionRows \cup {None}]
        /\ \A x \in SessionIds : x # c => sessions'[x] = sessions[x]
        /\ sessions[c] = None => sessions' = sessions
        /\ sessions[c] # None => sessions'[c].events = Append(sessions[c].events, e)
    BY <1>1, <2>2, <2>3, EventAdded
  <2>5. SessionsKept
    BY <1>1, <2>2, <2>4, AnnouncementKept
  <2> QED BY <1>2, <1>5, <2>4, <2>5, QuietAnswers DEF Ok
<1> QED BY <1>3, <1>4, <1>5 DEF StartDebugSession

LEMMA EndSessionKeeps ==
    ASSUME DebugInv, NEW c \in Calls, EndDebugSession(c)
    PROVE  DebugInv'
<1>1. /\ sessions \in [SessionIds -> SessionRows \cup {None}]
      /\ at[c] # "done" /\ ask[c].op # "debugrun" /\ UNCHANGED <<hooks, traces, raced>>
  BY DEF DebugInv, DebugTypeOK, EndDebugSession, Begins, Serving
<1>2. PICK s \in Announced :
        IF sessions[s] = None THEN Refuse(c) /\ UNCHANGED sessions
        ELSE /\ sessions' = [sessions EXCEPT
                  ![s] = [active |-> FALSE,
                          events |-> Append(@.events, Event("execution_end", 0, c, c, 0))]]
             /\ Ok(c)
  BY DEF EndDebugSession
<1>3. CASE sessions[s] = None
  BY <1>1, <1>2, <1>3, SessionsSame, QuietAnswers DEF Refuse
<1>4. CASE sessions[s] # None
  <2>1. PICK e, row, log :
          e = Event("execution_end", 0, c, c, 0) /\ row = sessions[s] /\ log = Append(row.events, e)
    OBVIOUS
  <2>2. e \in DebugEvents /\ NotOfRuns(e)
    BY <1>1, <2>1 DEF Event, DebugEvents, LogTypes, NotOfRuns
  <2>3. s \in SessionIds
    BY AnnouncedSettled
  <2>4. log \in DebugLogs
    BY <1>1, <1>4, <2>1, <2>2, <2>3 DEF SessionRows, DebugLogs
  <2>5. PICK new : new = [active |-> FALSE, events |-> log]
    OBVIOUS
  <2>6. new \in SessionRows /\ new.events = log
    BY <2>4, <2>5 DEF SessionRows
  <2>7. sessions' = [sessions EXCEPT ![s] = new] /\ Ok(c)
    BY <1>1, <1>2, <1>4, <2>1, <2>3, <2>5
  <2>8. /\ sessions' \in [SessionIds -> SessionRows \cup {None}]
        /\ \A x \in SessionIds : x # s => sessions'[x] = sessions[x]
        /\ sessions'[s].events = Append(sessions[s].events, e)
    BY <1>1, <2>1, <2>3, <2>6, <2>7
  <2>9. SessionsKept
    BY <1>4, <2>2, <2>3, <2>8, AnnouncementKept
  <2> QED BY <1>1, <2>7, <2>8, <2>9, QuietAnswers DEF Ok
<1> QED BY <1>3, <1>4

LEMMA CleanupKeeps ==
    ASSUME DebugInv, NEW c \in Calls, CleanupOldSessions(c)
    PROVE  DebugInv'
<1>1. /\ sessions \in [SessionIds -> SessionRows \cup {None}]
      /\ at[c] # "done" /\ ask[c].op # "debugrun" /\ UNCHANGED <<hooks, traces, raced>> /\ Ok(c)
  BY DEF DebugInv, DebugTypeOK, CleanupOldSessions, Begins, Serving
<1>2. PICK old \in SUBSET Stored :
        sessions' = [s \in SessionIds |-> IF s \in old THEN None ELSE sessions[s]]
  BY DEF CleanupOldSessions
<1>3. sessions' \in [SessionIds -> SessionRows \cup {None}]
  BY <1>1, <1>2
<1>4. SessionsKept
  BY <1>2 DEF SessionsKept, LogChanged
<1> QED BY <1>1, <1>3, <1>4, QuietAnswers DEF Ok

LEMMA EventsReadKeeps ==
    ASSUME DebugInv, NEW c \in Calls, GetDebugEvents(c)
    PROVE  DebugInv'
<1>1. /\ sessions' = sessions /\ sessions \in [SessionIds -> SessionRows \cup {None}]
      /\ at[c] # "done" /\ ask[c].op # "debugrun" /\ UNCHANGED <<hooks, traces, raced>>
  BY DEF DebugInv, DebugTypeOK, GetDebugEvents, Begins, Serving, debugVars
<1>2. Ok(c) \/ Refuse(c)
  BY DEF GetDebugEvents
<1> QED BY <1>1, <1>2, SessionsSame, QuietAnswers DEF Ok, Refuse

LEMMA SocketKeeps ==
    ASSUME DebugInv, NEW c \in Calls, DebugWebSocket(c)
    PROVE  DebugInv'
<1>1. /\ sessions' = sessions /\ sessions \in [SessionIds -> SessionRows \cup {None}]
      /\ at[c] # "done" /\ ask[c].op # "debugrun" /\ UNCHANGED <<hooks, traces, raced>>
  BY DEF DebugInv, DebugTypeOK, DebugWebSocket, Begins, Serving, debugVars
<1>2. \/ Refuse(c) \/ Ok(c)
      \/ \E h, l : l # "done" /\ Goto(c, l) /\ held' = [held EXCEPT ![c] = h]
  <2>1. CASE Begins(c, "follow")
    BY <2>1 DEF DebugWebSocket, Hold, Begins, Serving
  <2>2. CASE Serving(c, "follow", "poll")
    <3>1. at = [at EXCEPT ![c] = "poll"]
      BY <2>2 DEF Serving, DebugInv, DebugTypeOK
    <3>2. UNCHANGED <<ask, at, reply>> => Goto(c, "poll")
      BY <3>1 DEF Goto
    <3> QED BY <2>2, <3>2 DEF DebugWebSocket, Hold, Begins, Serving
  <2> QED BY <2>1, <2>2 DEF DebugWebSocket
<1>3. CASE Refuse(c) \/ Ok(c)
  BY <1>1, <1>3, SessionsSame, QuietAnswers DEF Ok, Refuse
<1>4. CASE \E h, l : l # "done" /\ Goto(c, l) /\ held' = [held EXCEPT ![c] = h]
  BY <1>1, <1>4, SessionsSame, QuietGoes
<1> QED BY <1>2, <1>3, <1>4

LEMMA MalformedKeeps ==
    ASSUME DebugInv, NEW c \in Calls, Malformed(c), UNCHANGED debugVars
    PROVE  DebugInv'
<1>1. /\ sessions' = sessions /\ sessions \in [SessionIds -> SessionRows \cup {None}]
      /\ at[c] # "done" /\ UNCHANGED <<hooks, traces, raced>>
      /\ ask[c].bad /\ at[c] = "start" /\ Answer(c, "refused") /\ UNCHANGED held
  BY DEF DebugInv, DebugTypeOK, Malformed, Refuse, debugVars
<1> QED BY <1>1, SessionsSame, QuietAnswers

LEMMA ExecuteKeeps ==
    ASSUME DebugInv, NEW c \in Calls, ExecuteWithDebug(c)
    PROVE  DebugInv'
<1>1. CASE /\ Begins(c, "debugrun")
           /\ \E s \in Announced :
                Hold(c, [session |-> s, read |-> hooks, left |-> <<>>, node |-> 0,
                         outcome |-> "ok"])
           /\ Goto(c, "addhook") /\ UNCHANGED debugVars
  BY <1>1, BeginKeeps
<1>2. CASE /\ Serving(c, "debugrun", "addhook")
           /\ AddHook(c) /\ Hold(c, [held[c] EXCEPT !.read = <<>>])
           /\ Goto(c, "create") /\ UNCHANGED <<sessions, traces>>
  BY <1>2, AddKeeps
<1>3. ASSUME at[c] \in {"create", "visit"}, ask[c].op = "debugrun"
      PROVE  /\ Joined(c) /\ held[c].left = <<>> /\ at[c] # "done" /\ held[c] \in RunStates
             /\ reply[c] = "none"
  BY <1>3 DEF DebugInv, RunsStand, RunStands, Joined, DebugTypeOK
<1>4. CASE /\ Serving(c, "debugrun", "create")
           /\ (Goto(c, "visit") /\ UNCHANGED held) \/ (MayFail /\ Refuse(c))
           /\ UNCHANGED debugVars
  <2>1. Joined(c) /\ held[c].left = <<>> /\ at[c] # "done" /\ reply[c] = "none"
    BY <1>3, <1>4 DEF Serving
  <2>2. PICK l, a : /\ (l = "visit" /\ a = "none") \/ (l = "done" /\ a = "refused")
                    /\ ask' = ask /\ held' = held /\ at' = [at EXCEPT ![c] = l]
                    /\ reply' = [reply EXCEPT ![c] = a]
    BY <1>4, <2>1 DEF Goto, Refuse, Answer, DebugInv, DebugTypeOK
  <2>3. l \notin {"start", "addhook"} /\ (l # "done" => a = "none")
    BY <2>2
  <2> QED BY <1>4, <2>1, <2>2, <2>3, PlainKeeps
<1>5. CASE /\ Serving(c, "debugrun", "visit")
           /\ IF held[c].outcome = "ok" /\ held[c].node < Len(ask[c].nodes)
              THEN CallHooks(c, <<"node_start">>, held[c].node + 1, "ok") /\ Goto(c, "before")
              ELSE Answer(c, held[c].outcome) /\ UNCHANGED <<held, debugVars>>
  <2>1. /\ Joined(c) /\ held[c].left = <<>> /\ at[c] # "done" /\ reply[c] = "none"
        /\ held[c] \in RunStates
    BY <1>3, <1>5 DEF Serving
  <2>2. CASE CallHooks(c, <<"node_start">>, held[c].node + 1, "ok") /\ Goto(c, "before")
    <3>1. PICK types, n, outcome, l :
            types = <<"node_start">> /\ n = held[c].node + 1 /\ outcome = "ok" /\ l = "before"
      OBVIOUS
    <3>2. types \in Seq(LogTypes) /\ Len(types) >= 1
      BY <3>1 DEF LogTypes
    <3>3. n \in Nat /\ outcome \in NodeOutcomes /\ l \in {"before", "after"}
      BY <2>1, <3>1 DEF RunStates, NodeOutcomes
    <3>4. CallHooks(c, types, n, outcome) /\ Goto(c, l)
      BY <2>2, <3>1
    <3> QED BY <2>1, <3>2, <3>3, <3>4, CallKeeps
  <2>3. CASE Answer(c, held[c].outcome) /\ UNCHANGED <<held, debugVars>>
    <3>1. PICK l, a : l = "done" /\ a = held[c].outcome
      OBVIOUS
    <3>2. /\ ask' = ask /\ held' = held /\ at' = [at EXCEPT ![c] = l]
          /\ reply' = [reply EXCEPT ![c] = a] /\ UNCHANGED debugVars
      BY <2>3, <3>1 DEF Answer
    <3>3. l \notin {"start", "addhook"} /\ (l # "done" => a = "none")
      BY <3>1
    <3> QED BY <2>1, <3>2, <3>3, PlainKeeps
  <2> QED BY <1>5, <2>2, <2>3
<1> QED BY <1>1, <1>2, <1>4, <1>5 DEF ExecuteWithDebug

LEMMA LoggedTypes ==
    ASSUME NEW node, NEW outcome
    PROVE  Logged(node, outcome) \in Seq(LogTypes) /\ Len(Logged(node, outcome)) >= 1
<1>1. PICK a, b, d, e : /\ a = <<"node_paused">> /\ b = <<"node_error">>
                        /\ d = <<"condition_eval", "node_end">> /\ e = <<"node_end">>
  OBVIOUS
<1>2. a \in Seq(LogTypes) /\ Len(a) = 1
  BY <1>1 DEF LogTypes
<1>3. b \in Seq(LogTypes) /\ Len(b) = 1
  BY <1>1 DEF LogTypes
<1>4. d \in Seq(LogTypes) /\ Len(d) = 2
  BY <1>1 DEF LogTypes
<1>5. e \in Seq(LogTypes) /\ Len(e) = 1
  BY <1>1 DEF LogTypes
<1>6. Logged(node, outcome) \in {a, b, d, e}
  BY <1>1 DEF Logged
<1> QED BY <1>2, <1>3, <1>4, <1>5, <1>6

LEMMA HandleKeeps ==
    ASSUME DebugInv, NEW c \in Calls, Handle(c)
    PROVE  DebugInv'
<1>1. /\ Joined(c) /\ held[c].left = <<>> /\ at[c] # "done" /\ held[c] \in RunStates
  BY DEF Handle, Serving, DebugInv, RunsStand, RunStands, Joined, Started, DebugTypeOK
<1>2. PICK n : n = held[c].node
  OBVIOUS
<1>3. PICK outcome \in {"ok", "paused", "error"} :
        CallHooks(c, Logged(ask[c].nodes[n], outcome), n, outcome)
  BY <1>2 DEF Handle
<1>4. PICK types, l : types = Logged(ask[c].nodes[n], outcome) /\ l = "after"
  OBVIOUS
<1>5. types \in Seq(LogTypes) /\ Len(types) >= 1
  BY <1>4, LoggedTypes
<1>6. n \in Nat /\ outcome \in NodeOutcomes /\ l \in {"before", "after"}
  BY <1>1, <1>2, <1>4 DEF RunStates, NodeOutcomes
<1>7. CallHooks(c, types, n, outcome) /\ Goto(c, l)
  BY <1>3, <1>4 DEF Handle
<1> QED BY <1>1, <1>5, <1>6, <1>7, CallKeeps

LEMMA NodeDoneKeeps ==
    ASSUME DebugInv, NEW c \in Calls, NodeDone(c)
    PROVE  DebugInv'
<1>1. /\ Joined(c) /\ held[c].left = <<>> /\ at[c] # "done" /\ reply[c] = "none"
  BY DEF NodeDone, Serving, DebugInv, RunsStand, RunStands, Joined, Started
<1>2. PICK l, a : l = "visit" /\ a = "none"
  OBVIOUS
<1>3. /\ ask' = ask /\ held' = held /\ at' = [at EXCEPT ![c] = l]
      /\ reply' = [reply EXCEPT ![c] = a] /\ UNCHANGED debugVars
  BY <1>1, <1>2 DEF NodeDone, Goto, DebugInv, DebugTypeOK
<1>4. l \notin {"start", "addhook"} /\ (l # "done" => a = "none")
  BY <1>2
<1> QED BY <1>1, <1>3, <1>4, PlainKeeps

(* The process stops: no session and no hook is left. *)
LEMMA RaceStops ==
    ASSUME DebugInv, StopOnRace
    PROVE  DebugInv'
<1>1. /\ sessions' = [s \in SessionIds |-> None] /\ hooks' = <<>>
      /\ \A d \in Calls : /\ at'[d] = IF at[d] = "start" THEN "start" ELSE "done"
                          /\ reply'[d] = IF at[d] \in {"start", "done"} THEN reply[d] ELSE "lost"
      /\ ask' = ask /\ held' = held /\ traces' = traces /\ raced' = raced
  BY DEF StopOnRace
<1>2. \A d \in Calls : /\ (Started(d)' <=> Started(d)) /\ (Joined(d)' <=> Started(d))
                       /\ (Joined(d) => Started(d)) /\ at'[d] \in {"start", "done"}
  BY <1>1 DEF Started, Joined
<1>3. RunsGrow
  BY <1>1, <1>2 DEF RunsGrow
<1>4. Stored' = {} /\ hooks' \in Seq(Hooks) /\ DOMAIN hooks' = {}
  BY <1>1 DEF Stored, SessionIds
<1>5. DebugTypeOK'
  <2>1. /\ at' = [c \in Calls |-> at'[c]] /\ held' = [c \in Calls |-> held'[c]]
        /\ reply' = [c \in Calls |-> reply'[c]]
    BY <1>1 DEF StopOnRace, DebugInv, DebugTypeOK
  <2>2. sessions' \in [SessionIds -> SessionRows \cup {None}]
    BY <1>1
  <2> QED BY <1>1, <1>2, <1>4, <2>1, <2>2 DEF DebugInv, DebugTypeOK
<1>6. RunsStand'
  <2> SUFFICES ASSUME NEW d \in Calls PROVE RunStands(d)'
    BY DEF RunsStand
  <2>1. RunStands(d)
    BY DEF DebugInv, RunsStand
  <2>2. Started(d) => Settled(held[d].session)'
    BY <1>1, <1>3, <2>1, SettledStays DEF RunStands, Started, Settled
  <2>3. Ran(d)' => Ran(d) /\ at[d] = "done"
    BY <1>1, <2>1 DEF Ran, RunStands
  <2> QED BY <1>1, <1>2, <2>1, <2>2, <2>3 DEF RunStands
<1>7. HooksStand'
  <2>1. ASSUME NEW d \in Calls, Started(d)' PROVE LeftStands(d)'
    BY <1>1, <1>2, <1>3, <2>1, LeftStays
  <2>2. GoodHooks(hooks)'
    BY <1>4 DEF GoodHooks
  <2> QED BY <1>2, <2>1, <2>2 DEF HooksStand
<1>8. \A r \in Calls : ~Followed(r)'
  BY <1>4 DEF Followed
<1> QED BY <1>4, <1>5, <1>6, <1>7, <1>8 DEF DebugInv, HooksKept, EventsStand, LogsStand

LEMMA DebugStep ==
    ASSUME DebugInv, [DebugNext]_debugAllVars
    PROVE  DebugInv'
<1>1. CASE UNCHANGED debugAllVars
  <2>1. /\ UNCHANGED <<sessions, hooks, traces, raced>> /\ UNCHANGED <<ask, at, held, reply>>
    BY <1>1 DEF debugAllVars, debugVars, callVars
  <2>2. \A d \in Calls : (Started(d)' <=> Started(d)) /\ (Joined(d)' <=> Joined(d))
    BY <2>1 DEF Started, Joined
  <2>3. DebugTypeOK' /\ RunsStand'
    BY <2>1, <2>2 DEF DebugInv, DebugTypeOK, RunsStand, RunStands, Settled, Ran
  <2>4. HooksStand'
    BY <2>1 DEF DebugInv, HooksStand, GoodHooks, GoodHook, LeftStands, Joined, Started
  <2>5. \A r \in Calls : Followed(r)' <=> Followed(r)
    BY <2>1, <2>2 DEF Followed, Stored
  <2>6. HooksKept' /\ LogsStand'
    BY <2>1, <2>2, <2>5 DEF DebugInv, HooksKept, LogsStand
  <2>7. EventsStand'
    BY <2>1 DEF DebugInv, EventsStand, EventStands, Joined, Started, Stored
  <2> QED BY <2>3, <2>4, <2>6, <2>7 DEF DebugInv
<1>2. CASE StopOnRace
  BY <1>2, RaceStops
<1>3. ASSUME NEW c \in Calls,
             \/ ask[c].op \in DebugOps /\ Malformed(c) /\ UNCHANGED debugVars
             \/ StartDebugSession(c) \/ EndDebugSession(c) \/ CleanupOldSessions(c)
             \/ ExecuteWithDebug(c) \/ Handle(c) \/ LogNode(c) \/ NodeDone(c)
             \/ GetDebugEvents(c) \/ DebugWebSocket(c)
      PROVE  DebugInv'
  BY <1>3, MalformedKeeps, StartSessionKeeps, EndSessionKeeps, CleanupKeeps, ExecuteKeeps,
     HandleKeeps, LogKeeps, NodeDoneKeeps, EventsReadKeeps, SocketKeeps
<1> QED BY <1>1, <1>2, <1>3 DEF DebugNext

(* The invariant says enough: the events of a run that is over are logged. *)
LEMMA TracesTold == DebugInv => TracesAreComplete
<1> SUFFICES ASSUME DebugInv, NEW r \in Calls, ask[r].op = "debugrun", held[r] # None,
                    held[r].session \in Stored, r \notin raced, NEW q \in Calls, Ran(q)
             PROVE  /\ Follows(sessions[held[r].session].events, r, q, traces[q], Len(traces[q]))
                    /\ q = r => FromTheStart(sessions[held[r].session].events, r, Len(traces[r]))
  BY DEF TracesAreComplete
<1>1. PICK s, log, trace, left, n :
        /\ s = held[r].session /\ log = sessions[s].events /\ trace = traces[q]
        /\ left = held[q].left /\ n = Len(trace)
  OBVIOUS
<1>2. /\ Started(r) /\ Started(q) /\ left = <<>> /\ at[q] = "done" /\ Joined(q)
  BY <1>1 DEF DebugInv, RunsStand, RunStands, Ran, Joined
<1>3. n \in Nat /\ DOMAIN left = {}
  BY <1>1, <1>2 DEF DebugInv, DebugTypeOK, RunTraces
<1>4. UpTo(r, trace, left, n)
  BY <1>1, <1>3 DEF UpTo
<1>5. CASE Joined(r)
  <2>1. LogStands(log, r, q, trace, left)
    BY <1>1, <1>2, <1>5 DEF DebugInv, LogsStand, Followed
  <2>2. Follows(log, r, q, trace, n) /\ (q = r => FromTheStart(log, r, n))
    BY <1>3, <1>4, <2>1 DEF LogStands
  <2> QED BY <1>1, <2>2
<1>6. CASE ~Joined(r)
  <2>1. q # r
    BY <1>2, <1>6
  <2>2. \A i \in DOMAIN log : ~Told(log[i], r, q)
    BY <1>1, <1>6 DEF DebugInv, EventsStand, EventStands, Told
  <2>3. Follows(log, r, q, trace, n)
    BY <2>2 DEF Follows
  <2> QED BY <1>1, <2>1, <2>3
<1> QED BY <1>5, <1>6

(* A session that is kept has the events of its own run, all of them, in   *)
(* order and each once, and of every other run what came after a certain   *)
(* point, without gaps, unless hooks were added at the same time: for any  *)
(* number of sessions, runs, nodes and hooks, and with sessions that are   *)
(* ended or forgotten meanwhile (ExecuteWithDebug, AddHook, logEvent).     *)
THEOREM TracesHold == DebugSpec => []TracesAreComplete
<1>1. DebugSpec => []DebugInv
  BY DebugStarts, DebugStep, PTL DEF DebugSpec
<1> QED BY <1>1, TracesTold, PTL
=============================================================================
