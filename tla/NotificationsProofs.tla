------------------------ MODULE NotificationsProofs ------------------------
(* Proofs about the notification service, for any number of events,        *)
(* replicas and faults.                                                    *)
EXTENDS Notifications, FiniteSetTheorems, TLAPS

Ids == {"idle", "check", "send", "mark", "ack", "nack"}
Consumers == [task : Tasks \cup {NoTask}, bound : BOOLEAN, pc : Ids]

(* The tasks a queue's consumer sends. *)
Sent == {t \in Tasks : t[2] \in Workers}

(* A task is an event and a channel; a consumer at rest has none. *)
LEMMA TaskFacts ==
    /\ NoTask \notin Tasks
    /\ \A t \in Tasks : t[1] \in Events /\ t[2] \in Channels /\ t = <<t[1], t[2]>>
    /\ \A e \in Events, c \in Channels : <<e, c>> \in Tasks
    /\ \A c \in Workers : c \in Channels
  BY DEF NoTask, Tasks, Events, Channels

SendsGrow == \A t \in Tasks : sends'[t] >= sends[t]

(* Who was told once stays told. *)
LEMMA ToldKept ==
    ASSUME TypeOK, TypeOK', SendsGrow, NEW e \in Events, Told(e)
    PROVE  Told(e)'
  <1>1. PICK c \in Channels : sends[<<e, c>>] > 0
    BY DEF Told
  <1>2. <<e, c>> \in Tasks
    BY TaskFacts
  <1>3. sends'[<<e, c>>] >= sends[<<e, c>>] /\ sends[<<e, c>>] \in Nat
        /\ sends'[<<e, c>>] \in Nat
    BY <1>2 DEF SendsGrow, TypeOK
  <1>4. QED
    BY <1>1, <1>3 DEF Told

(* The number of stray consumers, and how a step changes it. *)
LEMMA StrayFinite ==
    ASSUME NEW t
    PROVE  /\ IsFiniteSet(Stray(t)) /\ Cardinality(Stray(t)) \in Nat
           /\ IsFiniteSet(Stray(t)') /\ Cardinality(Stray(t)') \in Nat
  <1>1. Stray(t) \subseteq Replicas /\ Stray(t)' \subseteq Replicas
    BY DEF Stray
  <1>2. QED
    BY <1>1, ReplicasAssumption, FS_Subset, FS_CardinalityType

LEMMA StrayShrinks ==
    ASSUME NEW t, Stray(t)' \subseteq Stray(t)
    PROVE  Cardinality(Stray(t)') <= Cardinality(Stray(t))
  BY StrayFinite, FS_Subset

LEMMA StrayLeaves ==
    ASSUME NEW t, NEW r \in Stray(t), Stray(t)' \subseteq Stray(t) \ {r}
    PROVE  Cardinality(Stray(t)') <= Cardinality(Stray(t)) - 1
  <1>1. /\ IsFiniteSet(Stray(t) \ {r})
        /\ Cardinality(Stray(t) \ {r}) = Cardinality(Stray(t)) - 1
    BY StrayFinite, FS_RemoveElement
  <1>2. Cardinality(Stray(t)') <= Cardinality(Stray(t) \ {r})
    BY <1>1, FS_Subset
  <1>3. QED
    BY <1>1, <1>2

LEMMA OneMore ==
    ASSUME NEW S, IsFiniteSet(S), NEW r
    PROVE  IsFiniteSet(S \cup {r}) /\ Cardinality(S \cup {r}) <= Cardinality(S) + 1
  <1>1. Cardinality(S) \in Nat
    BY FS_CardinalityType
  <1>2. CASE r \in S
    <2>1. S \cup {r} = S
      BY <1>2
    <2>2. Cardinality(S) <= Cardinality(S) + 1
      BY <1>1
    <2>3. QED
      BY <2>1, <2>2, Zenon
  <1>3. CASE r \notin S
    <2>1. IsFiniteSet(S \cup {r}) /\ Cardinality(S \cup {r}) = Cardinality(S) + 1
      BY <1>3, FS_AddElement
    <2>2. QED
      BY <1>1, <2>1
  <1>4. QED
    BY <1>2, <1>3

LEMMA StrayGrows ==
    ASSUME NEW t, NEW r, Stray(t)' \subseteq Stray(t) \cup {r}
    PROVE  Cardinality(Stray(t)') <= Cardinality(Stray(t)) + 1
  <1>1. /\ IsFiniteSet(Stray(t) \cup {r})
        /\ Cardinality(Stray(t) \cup {r}) <= Cardinality(Stray(t)) + 1
    BY StrayFinite, OneMore
  <1>2. /\ Cardinality(Stray(t)') <= Cardinality(Stray(t) \cup {r})
        /\ Cardinality(Stray(t) \cup {r}) \in Nat
    BY <1>1, FS_Subset, FS_CardinalityType
  <1>3. QED
    BY <1>1, <1>2, StrayFinite

(* The sums of a budget are numbers. *)
LEMMA BudgetType ==
    ASSUME TypeOK, TypeOK', NEW t \in Tasks
    PROVE  /\ sends[t] \in Nat /\ sends'[t] \in Nat
           /\ excuses[t] \in Nat /\ excuses'[t] \in Nat
  BY DEF TypeOK

(* A step that adds no send, made or to come, keeps the budget. *)
LEMMA BudgetKept ==
    ASSUME TypeOK, TypeOK', NEW t \in Tasks, Budget(t),
           Stray(t)' \subseteq Stray(t), CanSend(t)' => CanSend(t),
           sends'[t] = sends[t], excuses'[t] >= excuses[t]
    PROVE  Budget(t)'
  <1>1. Cardinality(Stray(t)') <= Cardinality(Stray(t))
    BY StrayShrinks
  <1>2. QED
    BY <1>1, BudgetType, StrayFinite DEF Budget

(* A fault pays for the send it makes possible. *)
LEMMA BudgetExcused ==
    ASSUME TypeOK, TypeOK', NEW t \in Tasks, Budget(t),
           Stray(t)' \subseteq Stray(t),
           sends'[t] = sends[t], excuses'[t] = excuses[t] + 1
    PROVE  Budget(t)'
  <1>1. Cardinality(Stray(t)') <= Cardinality(Stray(t))
    BY StrayShrinks
  <1>2. QED
    BY <1>1, BudgetType, StrayFinite DEF Budget

-----------------------------------------------------------------------------
(* Steps that leave the consumers, the keys and the sends alone. *)
LEMMA QuietStep ==
    ASSUME NotifyInv, TypeOK', UNCHANGED <<worker, marked, sends, excuses>>
    PROVE  /\ TellingComesFirst'
           /\ \A t \in Tasks : t[2] \in Workers => Budget(t)'
           /\ \A t \in Tasks : t[2] \notin Workers => sends'[t] = 0
  <1>1. TellingComesFirst'
    BY DEF NotifyInv, TellingComesFirst, Told, Task
  <1>2. ASSUME NEW t \in Tasks, t[2] \in Workers PROVE Budget(t)'
    <2>1. Stray(t)' = Stray(t)
      BY DEF Stray
    <2>2. CanSend(t)' <=> CanSend(t)
      BY DEF CanSend, HeldAt, Held
    <2>3. QED
      BY <1>2, <2>1, <2>2, BudgetKept, BudgetType DEF NotifyInv
  <1>3. QED
    BY <1>1, <1>2 DEF NotifyInv

LEMMA RulesType ==
    ASSUME NEW x \in Types PROVE Rules[x] \subseteq Channels
  <1>1. x \in {"payment_succeeded", "payment_failed", "refund_initiated",
              "refund_completed", "user_registered", "password_reset"}
    BY TypesAssumption DEF Rules
  <1>2. QED
    BY <1>1 DEF Rules, Channels, Workers

LEMMA ReadEvent_Inv ==
    ASSUME NotifyInv, NEW r \in Replicas, ReadEvent(r)
    PROVE  NotifyInv'
  <1>0. /\ UNCHANGED <<topic, task, link, worker, marked, sends, excuses, faults>>
        /\ routing[r] = {} /\ offset + 1 \in Events /\ offset' = offset + 1
        /\ routing \in [Replicas -> SUBSET Tasks] /\ topic \in [Events -> Types]
        /\ offset \in Nat
    BY MaxEventAssumption DEF ReadEvent, NotifyInv, TypeOK, Events
  <1>1. PICK new : /\ new = {offset + 1} \X Rules[topic[offset + 1]]
                   /\ routing' = [routing EXCEPT ![r] = new]
    BY DEF ReadEvent
  <1>2. new \in SUBSET Tasks /\ \A t \in new : t[1] = offset + 1
    <2>1. Rules[topic[offset + 1]] \subseteq Channels
      BY <1>0, RulesType
    <2>2. QED
      BY <1>0, <1>1, <2>1 DEF Tasks
  <1>3. TypeOK'
    BY <1>0, <1>1, <1>2 DEF NotifyInv, TypeOK
  <1>4. RoutedOnce'
    <2>1. routing'[r] = new /\ \A q \in Replicas \ {r} : routing'[q] = routing[q]
      BY <1>0, <1>1
    <2>2. ASSUME NEW q \in Replicas, NEW t \in routing[q]
          PROVE  /\ t \in Tasks /\ t[1] \in Nat /\ t[1] <= offset
                 /\ task[t] = "absent" /\ t \notin new
      <3>1. t \in Tasks /\ t[1] <= offset /\ task[t] = "absent"
        BY <1>0 DEF NotifyInv, RoutedOnce
      <3>2. t[1] \in Nat
        BY <3>1, TaskFacts, MaxEventAssumption DEF Events
      <3>3. QED
        BY <1>0, <1>2, <3>1, <3>2
    <2>3. ASSUME NEW t \in new PROVE t[1] <= offset' /\ task[t] = "absent"
      <3>1. t \in Tasks /\ t[1] > offset
        BY <1>0, <1>2
      <3>2. QED
        BY <1>0, <1>2, <3>1 DEF NotifyInv, RoutedOnce
    <2>4. \A q \in Replicas : \A t \in routing'[q] :
             t[1] <= offset' /\ task'[t] = "absent"
      BY <1>0, <2>1, <2>2, <2>3
    <2>5. \A p, q \in Replicas : p /= q => routing'[p] \cap routing'[q] = {}
      BY <2>1, <2>2 DEF NotifyInv, RoutedOnce
    <2>6. \A t \in Tasks : t[1] > offset' => task'[t] = "absent"
      <3>1. \A t \in Tasks : t[1] \in Nat
        BY TaskFacts, MaxEventAssumption DEF Events
      <3>2. QED
        BY <1>0, <3>1 DEF NotifyInv, RoutedOnce
    <2>7. QED
      BY <2>4, <2>5, <2>6 DEF RoutedOnce
  <1>5. HoldersAgree' /\ AcknowledgedMeansTold'
    BY <1>0 DEF NotifyInv, HoldersAgree, Held, Task, AcknowledgedMeansTold, Told
  <1>6. QED
    BY <1>0, <1>3, <1>4, <1>5, QuietStep DEF NotifyInv

LEMMA Route_Inv ==
    ASSUME NotifyInv, NEW r \in Replicas, Route(r)
    PROVE  NotifyInv'
  <1>1. PICK t \in routing[r] :
             /\ routing' = [routing EXCEPT ![r] = @ \ {t}]
             /\ UNCHANGED <<topic, offset, link, worker, marked, sends, excuses>>
             /\ task' = [task EXCEPT ![t] = "ready"] \/ UNCHANGED task
             /\ UNCHANGED faults \/ Fault
    BY DEF Route
  <1>2. /\ t \in Tasks /\ t[1] <= offset /\ task[t] = "absent"
        /\ routing \in [Replicas -> SUBSET Tasks] /\ offset \in Nat
        /\ task \in [Tasks -> {"absent", "ready", "acked"} \cup Replicas]
    BY MaxEventAssumption DEF NotifyInv, TypeOK, RoutedOnce, Events
  <1>3. faults' \in 0 .. MaxFaults
    BY <1>1, MaxFaultsAssumption DEF NotifyInv, TypeOK, Fault
  <1>4. /\ task' \in [Tasks -> {"absent", "ready", "acked"} \cup Replicas]
        /\ \A u \in Tasks \ {t} : task'[u] = task[u]
        /\ task'[t] \in {"absent", "ready"}
    BY <1>1, <1>2
  <1>5. TypeOK'
    <2>1. routing' \in [Replicas -> SUBSET Tasks]
      BY <1>1, <1>2
    <2>2. QED
      BY <1>1, <1>3, <1>4, <2>1 DEF NotifyInv, TypeOK
  <1>6. RoutedOnce'
    <2>1. /\ routing'[r] = routing[r] \ {t}
          /\ \A q \in Replicas \ {r} : routing'[q] = routing[q] /\ t \notin routing[q]
      BY <1>1, <1>2 DEF NotifyInv, RoutedOnce
    <2>2. \A q \in Replicas : \A u \in routing'[q] :
             u \in routing[q] /\ u /= t /\ u \in Tasks
      BY <1>2, <2>1
    <2>3. \A q \in Replicas : \A u \in routing'[q] :
             u[1] <= offset' /\ task'[u] = "absent"
      BY <1>1, <1>4, <2>2 DEF NotifyInv, RoutedOnce
    <2>4. \A p, q \in Replicas : p /= q => routing'[p] \cap routing'[q] = {}
      BY <2>2 DEF NotifyInv, RoutedOnce
    <2>5. \A u \in Tasks : u[1] > offset' => task'[u] = "absent"
      <3>1. ~(t[1] > offset)
        BY <1>2, TaskFacts, MaxEventAssumption DEF Events
      <3>2. QED
        BY <1>1, <1>4, <3>1 DEF NotifyInv, RoutedOnce
    <2>6. QED
      BY <2>3, <2>4, <2>5 DEF RoutedOnce
  <1>7. HoldersAgree'
    <2>1. \A q \in Replicas : t[2] \in Workers => ~Held(q, t)
      BY <1>2, ReplicasAssumption DEF NotifyInv, HoldersAgree
    <2>2. QED
      BY <1>1, <1>4, <2>1 DEF NotifyInv, HoldersAgree, Held, Task
  <1>8. AcknowledgedMeansTold'
    <2>1. \A e \in Events, c \in Workers : <<e, c>> \in Tasks
      BY TaskFacts
    <2>2. QED
      BY <1>1, <1>4, <2>1 DEF NotifyInv, AcknowledgedMeansTold, Told
  <1>9. QED
    BY <1>1, <1>5, <1>6, <1>7, <1>8, QuietStep DEF NotifyInv

-----------------------------------------------------------------------------
(* A consumer goes on with its task. *)
LEMMA PcStep ==
    ASSUME NotifyInv, NEW r \in Replicas, NEW c \in Workers,
           NEW pc \in Ids, Set(r, c, pc)
    PROVE  /\ worker' \in [Replicas -> [Workers -> Consumers]]
           /\ worker'[r][c].pc = pc
           /\ \A q \in Replicas, d \in Workers :
                 /\ worker'[q][d].task = worker[q][d].task
                 /\ worker'[q][d].bound = worker[q][d].bound
                 /\ (q /= r \/ d /= c) => worker'[q][d] = worker[q][d]
  <1>1. worker \in [Replicas -> [Workers -> Consumers]]
    BY DEF NotifyInv, TypeOK, Consumers, Ids
  <1>a. worker[r][c] \in Consumers
    BY <1>1
  <1>b. [worker[r][c] EXCEPT !.pc = pc] \in Consumers
    BY <1>a DEF Consumers
  <1>2. PICK k \in Consumers : k = [worker[r][c] EXCEPT !.pc = pc]
    BY <1>b
  <1>3. /\ k.pc = pc /\ k.task = worker[r][c].task /\ k.bound = worker[r][c].bound
    BY <1>1, <1>2 DEF Consumers
  <1>4. worker' = [worker EXCEPT ![r] = [worker[r] EXCEPT ![c] = k]]
    BY <1>1, <1>2 DEF Set
  <1>5. QED
    BY <1>1, <1>3, <1>4

(* The consumer under way has a task of its channel. *)
LEMMA BusyTask ==
    ASSUME NotifyInv, NEW r \in Replicas, NEW c \in Workers,
           worker[r][c].pc \in {"check", "send", "mark", "ack", "nack"}
    PROVE  /\ Task(r, c) \in Tasks /\ Task(r, c)[2] = c
           /\ Task(r, c)[1] \in Events
           /\ Held(r, Task(r, c)) <=> worker[r][c].bound
  <1>1. Task(r, c) \in Tasks /\ Task(r, c)[2] = c
    BY DEF NotifyInv, HoldersAgree
  <1>2. QED
    BY <1>1, TaskFacts DEF Held, Task

(* What such a step leaves of the invariant, whatever else it does. *)
LEMMA PcStepKeeps ==
    ASSUME NotifyInv, NEW r \in Replicas, NEW c \in Workers,
           worker[r][c].pc \in {"check", "send", "mark", "ack", "nack"},
           NEW pc \in {"check", "send", "mark", "ack", "nack"}, Set(r, c, pc),
           NEW u, u = worker[r][c].task,
           UNCHANGED <<topic, offset, routing, task, link>>
    PROVE  /\ RoutedOnce' /\ HoldersAgree'
           /\ \A t \in Tasks : \A q \in Replicas : t[2] \in Workers =>
                 (Held(q, t)' <=> Held(q, t))
           /\ \A t \in Tasks \ {u} : t[2] \in Workers =>
                 /\ Stray(t)' = Stray(t)
                 /\ HeldAt(t, "send")' <=> HeldAt(t, "send")
                 /\ HeldAt(t, "mark")' <=> HeldAt(t, "mark")
  <1>0. pc \in Ids /\ worker[r][c].pc \in Ids
    BY DEF Ids
  <1>1. /\ worker'[r][c].pc = pc
        /\ \A q \in Replicas, d \in Workers :
              /\ worker'[q][d].task = worker[q][d].task
              /\ worker'[q][d].bound = worker[q][d].bound
              /\ (q /= r \/ d /= c) => worker'[q][d] = worker[q][d]
    BY <1>0, PcStep
  <1>2. u \in Tasks /\ u[2] = c /\ worker[r][c].task = u
    BY BusyTask DEF Task
  <1>3. RoutedOnce'
    BY DEF NotifyInv, RoutedOnce
  <1>4. ASSUME NEW t \in Tasks, NEW q \in Replicas, t[2] \in Workers
        PROVE  Held(q, t)' <=> Held(q, t)
    BY <1>1, <1>4 DEF Held
  <1>5. HoldersAgree'
    <2>1. ASSUME NEW q \in Replicas, NEW d \in Workers
          PROVE  /\ worker'[q][d].pc /= "idle" =>
                       worker'[q][d].task \in Tasks /\ worker'[q][d].task[2] = d
                 /\ worker'[q][d].pc = "idle" => worker'[q][d] = Resting
      <3>1. CASE q = r /\ d = c
        BY <1>1, <1>2, <3>1
      <3>2. CASE q /= r \/ d /= c
        BY <1>1, <3>2 DEF NotifyInv, HoldersAgree, Task
      <3>3. QED
        BY <3>1, <3>2
    <2>2. QED
      BY <1>4, <2>1 DEF NotifyInv, HoldersAgree, Task
  <1>6. ASSUME NEW t \in Tasks \ {u}, t[2] \in Workers
        PROVE  /\ Stray(t)' = Stray(t)
               /\ HeldAt(t, "send")' <=> HeldAt(t, "send")
               /\ HeldAt(t, "mark")' <=> HeldAt(t, "mark")
    <2>1. ASSUME NEW q \in Replicas, worker[q][t[2]].task = t
          PROVE  worker'[q][t[2]] = worker[q][t[2]]
      BY <1>1, <1>2, <1>6, <2>1
    <2>2. ASSUME NEW q \in Replicas
          PROVE  worker'[q][t[2]].task = t <=> worker[q][t[2]].task = t
      BY <1>1, <1>6
    <2>3. QED
      BY <2>1, <2>2 DEF Stray, HeldAt, Held
  <1>7. QED
    BY <1>3, <1>4, <1>5, <1>6

(* What it does to the task of the handler itself. *)
LEMMA OwnStep ==
    ASSUME NotifyInv, NEW r \in Replicas, NEW c \in Workers,
           worker[r][c].pc \in {"check", "send", "mark", "ack", "nack"},
           NEW pc \in {"check", "send", "mark", "ack", "nack"}, Set(r, c, pc),
           NEW u, u = worker[r][c].task,
           UNCHANGED <<topic, offset, routing, task, link>>
    PROVE  /\ worker[r][c].bound =>
                 /\ Stray(u)' = Stray(u)
                 /\ \A x \in Ids : HeldAt(u, x)' <=> x = pc
                 /\ \A x \in Ids : HeldAt(u, x) <=> x = worker[r][c].pc
           /\ ~worker[r][c].bound =>
                 /\ pc \notin {"check", "send"} =>
                       Stray(u)' = Stray(u) \ {r}
                 /\ worker[r][c].pc \in {"check", "send"} =>
                       /\ r \in Stray(u)
                       /\ Stray(u)' \subseteq Stray(u)
                 /\ \A x \in Ids : HeldAt(u, x)' <=> HeldAt(u, x)
  <1>0. pc \in Ids /\ worker[r][c].pc \in Ids
    BY DEF Ids
  <1>1. /\ worker'[r][c].pc = pc
        /\ \A q \in Replicas, d \in Workers :
              /\ worker'[q][d].task = worker[q][d].task
              /\ worker'[q][d].bound = worker[q][d].bound
              /\ (q /= r \/ d /= c) => worker'[q][d] = worker[q][d]
    BY <1>0, PcStep
  <1>2. u \in Tasks /\ u[2] = c /\ worker[r][c].task = u
    BY BusyTask DEF Task
  <1>3. ASSUME NEW t \in Tasks, NEW q \in Replicas, t[2] \in Workers
        PROVE  Held(q, t)' <=> Held(q, t)
    BY <1>1, <1>3 DEF Held
  <1>4. ASSUME worker[r][c].bound
        PROVE  /\ Stray(u)' = Stray(u)
               /\ \A x \in Ids : HeldAt(u, x)' <=> x = pc
               /\ \A x \in Ids : HeldAt(u, x) <=> x = worker[r][c].pc
    <2>1. Stray(u)' = Stray(u)
      <3>1. r \notin Stray(u) /\ r \notin Stray(u)'
        BY <1>1, <1>2, <1>4 DEF Stray
      <3>2. \A q \in Replicas \ {r} : q \in Stray(u)' <=> q \in Stray(u)
        BY <1>1, <1>2 DEF Stray
      <3>3. QED
        BY <3>1, <3>2 DEF Stray
    <2>2. \A q \in Replicas : Held(q, u) <=> q = r
      BY <1>2, <1>4, ReplicasAssumption DEF NotifyInv, HoldersAgree, Held
    <2>3. \A q \in Replicas : Held(q, u)' <=> q = r
      BY <1>2, <1>3, <2>2
    <2>4. QED
      BY <1>1, <1>2, <2>1, <2>2, <2>3 DEF HeldAt
  <1>5. ASSUME ~worker[r][c].bound
        PROVE  /\ pc \notin {"check", "send"} => Stray(u)' = Stray(u) \ {r}
               /\ worker[r][c].pc \in {"check", "send"} =>
                     r \in Stray(u) /\ Stray(u)' \subseteq Stray(u)
               /\ \A x \in Ids : HeldAt(u, x)' <=> HeldAt(u, x)
    <2>1. \A q \in Replicas \ {r} : q \in Stray(u)' <=> q \in Stray(u)
      BY <1>1, <1>2 DEF Stray
    <2>2. r \in Stray(u) <=> worker[r][c].pc \in {"check", "send"}
      BY <1>2, <1>5 DEF Stray
    <2>3. r \in Stray(u)' <=> pc \in {"check", "send"}
      BY <1>1, <1>2, <1>5 DEF Stray
    <2>4. Stray(u)' \subseteq Replicas /\ Stray(u) \subseteq Replicas
      BY DEF Stray
    <2>5. ~Held(r, u)
      BY <1>2, <1>5 DEF Held
    <2>6. \A q \in Replicas : Held(q, u)' <=> Held(q, u)
      BY <1>2, <1>3
    <2>7. \A x \in Ids : HeldAt(u, x)' <=> HeldAt(u, x)
      BY <1>1, <1>2, <2>5, <2>6 DEF HeldAt
    <2>8. QED
      BY <2>1, <2>2, <2>3, <2>4, <2>7
  <1>6. QED
    BY <1>4, <1>5

(* The rest of a handler's step: what it tells, marks and excuses is about *)
(* its own task, and that one's budget is left to each handler.            *)
LEMMA HandlerStep ==
    ASSUME NotifyInv, NEW r \in Replicas, NEW c \in Workers,
           worker[r][c].pc \in {"check", "send", "mark", "ack", "nack"},
           NEW pc \in {"check", "send", "mark", "ack", "nack"}, Set(r, c, pc),
           NEW u, u = worker[r][c].task,
           UNCHANGED <<topic, offset, routing, task, link>>,
           sends' \in [Tasks -> Nat], excuses' \in [Tasks -> Nat],
           marked' \in SUBSET Events, faults' \in 0 .. MaxFaults,
           \A t \in Tasks \ {u} : sends'[t] = sends[t] /\ excuses'[t] = excuses[t],
           sends'[u] >= sends[u],
           marked \subseteq marked', marked' \subseteq marked \cup {u[1]},
           (pc \in {"mark", "ack"} \/ u[1] \in marked') =>
              (Told(u[1]) \/ sends'[u] > 0),
           Budget(u)'
    PROVE  NotifyInv'
  <1>1. /\ worker' \in [Replicas -> [Workers -> Consumers]]
        /\ worker'[r][c].pc = pc
        /\ \A q \in Replicas, d \in Workers :
              /\ worker'[q][d].task = worker[q][d].task
              /\ (q /= r \/ d /= c) => worker'[q][d] = worker[q][d]
    <2>1. pc \in Ids
      BY DEF Ids
    <2>2. QED
      BY <2>1, PcStep
  <1>2. u \in Tasks /\ u[2] = c /\ u[1] \in Events
    BY BusyTask DEF Task
  <1>3. TypeOK'
    BY <1>1 DEF NotifyInv, TypeOK, Consumers, Ids
  <1>4. TypeOK
    BY DEF NotifyInv
  <1>5. /\ RoutedOnce' /\ HoldersAgree'
        /\ \A t \in Tasks \ {u} : t[2] \in Workers =>
              /\ Stray(t)' = Stray(t)
              /\ HeldAt(t, "send")' <=> HeldAt(t, "send")
              /\ HeldAt(t, "mark")' <=> HeldAt(t, "mark")
    BY PcStepKeeps
  <1>6. SendsGrow
    <2>1. \A t \in Tasks : sends[t] \in Nat
      BY <1>4 DEF TypeOK
    <2>2. QED
      BY <2>1 DEF SendsGrow
  <1>7. \A e \in Events : Told(e) => Told(e)'
    BY <1>3, <1>4, <1>6, ToldKept
  <1>8. (pc \in {"mark", "ack"} \/ u[1] \in marked') => Told(u[1])'
    <2>1. u[2] \in Channels /\ u = <<u[1], u[2]>>
      BY <1>2, TaskFacts
    <2>2. sends'[u] > 0 => Told(u[1])'
      BY <2>1 DEF Told
    <2>3. QED
      BY <1>2, <1>7, <2>2
  <1>9. TellingComesFirst'
    <2>1. \A e \in marked' : Told(e)'
      BY <1>4, <1>7, <1>8 DEF NotifyInv, TellingComesFirst, TypeOK
    <2>2. ASSUME NEW q \in Replicas, NEW d \in Workers,
                 worker'[q][d].pc \in {"mark", "ack"}
          PROVE  Told(worker[q][d].task[1])'
      <3>1. CASE q = r /\ d = c
        BY <1>1, <1>8, <2>2, <3>1
      <3>2. CASE q /= r \/ d /= c
        <4>1. /\ worker[q][d].pc \in {"mark", "ack"}
              /\ worker'[q][d].task = worker[q][d].task
          BY <1>1, <2>2, <3>2
        <4>2. Told(worker[q][d].task[1]) /\ worker[q][d].task[1] \in Events
          BY <4>1, BusyTask DEF NotifyInv, TellingComesFirst, Task
        <4>3. QED
          BY <1>7, <4>1, <4>2
      <3>3. QED
        BY <3>1, <3>2
    <2>3. QED
      BY <2>1, <2>2 DEF TellingComesFirst, Task
  <1>10. AcknowledgedMeansTold'
    BY <1>7 DEF NotifyInv, AcknowledgedMeansTold
  <1>11. ASSUME NEW t \in Tasks, t[2] \in Workers PROVE Budget(t)'
    <2>1. CASE t /= u
      <3>1. Stray(t)' \subseteq Stray(t) /\ (CanSend(t)' => CanSend(t))
        BY <1>5, <1>11, <2>1 DEF CanSend
      <3>2. sends'[t] = sends[t] /\ excuses'[t] >= excuses[t]
        BY <1>3, <1>4, <2>1, BudgetType
      <3>3. Budget(t)
        BY <1>11 DEF NotifyInv
      <3>4. QED
        BY <1>3, <1>4, <3>1, <3>2, <3>3, BudgetKept
    <2>2. QED
      BY <2>1
  <1>12. \A t \in Tasks : t[2] \notin Workers => sends'[t] = 0
    BY <1>2 DEF NotifyInv
  <1>13. QED
    BY <1>3, <1>5, <1>9, <1>10, <1>11, <1>12 DEF NotifyInv

(* What every handler finds. *)
LEMMA Busy ==
    ASSUME NotifyInv, NEW r \in Replicas, NEW c \in Workers,
           worker[r][c].pc \in {"check", "send", "mark", "ack", "nack"}
    PROVE  \E u \in Tasks :
              /\ u = worker[r][c].task /\ u[2] = c /\ u[1] \in Events
              /\ Budget(u) /\ sends[u] \in Nat /\ excuses[u] \in Nat
              /\ worker[r][c].pc \in {"mark", "ack"} => Told(u[1])
              /\ u[1] \in marked => Told(u[1])
              /\ sends \in [Tasks -> Nat] /\ excuses \in [Tasks -> Nat]
              /\ marked \in SUBSET Events /\ faults \in 0 .. MaxFaults
  <1>1. Task(r, c) \in Tasks /\ Task(r, c)[2] = c /\ Task(r, c)[1] \in Events
    BY BusyTask
  <1>2. /\ sends \in [Tasks -> Nat] /\ excuses \in [Tasks -> Nat]
        /\ marked \in SUBSET Events /\ faults \in 0 .. MaxFaults
    BY DEF NotifyInv, TypeOK
  <1>3. /\ Budget(Task(r, c))
        /\ worker[r][c].pc \in {"mark", "ack"} => Told(Task(r, c)[1])
        /\ Task(r, c)[1] \in marked => Told(Task(r, c)[1])
    BY <1>1 DEF NotifyInv, TellingComesFirst
  <1>4. sends[Task(r, c)] \in Nat /\ excuses[Task(r, c)] \in Nat
    BY <1>1, <1>2
  <1>5. QED
    BY <1>1, <1>2, <1>3, <1>4 DEF Task

(* A fault is one of a bounded number. *)
LEMMA FaultType ==
    ASSUME Fault, faults \in 0 .. MaxFaults PROVE faults' \in 0 .. MaxFaults
  BY MaxFaultsAssumption DEF Fault

LEMMA CheckKey_Inv ==
    ASSUME NotifyInv, NEW r \in Replicas, NEW c \in Workers, CheckKey(r, c)
    PROVE  NotifyInv'
  <1>0. /\ worker[r][c].pc = "check"
        /\ UNCHANGED <<topic, offset, routing, task, link, marked, sends>>
    BY DEF CheckKey
  <1>1. PICK u \in Tasks :
              /\ u = worker[r][c].task /\ u[2] = c /\ u[1] \in Events
              /\ Budget(u) /\ sends[u] \in Nat /\ excuses[u] \in Nat
              /\ u[1] \in marked => Told(u[1])
              /\ sends \in [Tasks -> Nat] /\ excuses \in [Tasks -> Nat]
              /\ marked \in SUBSET Events /\ faults \in 0 .. MaxFaults
    BY <1>0, Busy
  <1>2. CASE u[1] \in marked /\ Set(r, c, "ack") /\ UNCHANGED <<excuses, faults>>
    <2>1. Stray(u)' \subseteq Stray(u) /\ (CanSend(u)' => CanSend(u))
      <3>1. CASE worker[r][c].bound
        BY <1>0, <1>1, <1>2, <3>1, OwnStep DEF CanSend, Ids
      <3>2. CASE ~worker[r][c].bound
        <4>1. /\ Stray(u)' = Stray(u) \ {r}
              /\ \A x \in Ids : HeldAt(u, x)' <=> HeldAt(u, x)
          BY <1>0, <1>1, <1>2, <3>2, OwnStep
        <4>2. QED
          BY <1>0, <4>1 DEF CanSend, Ids
      <3>3. QED
        BY <3>1, <3>2
    <2>2. Budget(u)'
      <3>1. Cardinality(Stray(u)') <= Cardinality(Stray(u))
        BY <2>1, StrayShrinks
      <3>2. QED
        BY <1>0, <1>1, <1>2, <2>1, <3>1, StrayFinite DEF Budget
    <2>3. QED
      BY <1>0, <1>1, <1>2, <2>2, HandlerStep
  <1>3. CASE u[1] \notin marked /\ Set(r, c, "send") /\ UNCHANGED <<excuses, faults>>
    <2>1. Stray(u)' \subseteq Stray(u) /\ (CanSend(u)' => CanSend(u))
      <3>1. CASE worker[r][c].bound
        BY <1>0, <1>1, <1>3, <3>1, OwnStep DEF CanSend, Ids
      <3>2. CASE ~worker[r][c].bound
        BY <1>0, <1>1, <1>3, <3>2, OwnStep DEF CanSend, Ids
      <3>3. QED
        BY <3>1, <3>2
    <2>2. Budget(u)'
      <3>1. Cardinality(Stray(u)') <= Cardinality(Stray(u))
        BY <2>1, StrayShrinks
      <3>2. QED
        BY <1>0, <1>1, <1>3, <2>1, <3>1, StrayFinite DEF Budget
    <2>3. QED
      BY <1>0, <1>1, <1>3, <2>2, HandlerStep
  <1>4. CASE /\ Fault /\ Set(r, c, "send")
             /\ excuses' = [excuses EXCEPT ![u] = @ + 1]
    <2>1. Stray(u)' \subseteq Stray(u)
      <3>1. CASE worker[r][c].bound
        BY <1>0, <1>1, <1>4, <3>1, OwnStep
      <3>2. CASE ~worker[r][c].bound
        BY <1>0, <1>1, <1>4, <3>2, OwnStep
      <3>3. QED
        BY <3>1, <3>2
    <2>2. /\ excuses' \in [Tasks -> Nat] /\ excuses'[u] = excuses[u] + 1
          /\ \A t \in Tasks \ {u} : excuses'[t] = excuses[t]
          /\ faults' \in 0 .. MaxFaults
      BY <1>1, <1>4, FaultType
    <2>3. Budget(u)'
      <3>1. Cardinality(Stray(u)') <= Cardinality(Stray(u))
        BY <2>1, StrayShrinks
      <3>2. QED
        BY <1>0, <1>1, <2>2, <3>1, StrayFinite DEF Budget
    <2>4. QED
      BY <1>0, <1>1, <1>4, <2>2, <2>3, HandlerStep
  <1>5. QED
    BY <1>1, <1>2, <1>3, <1>4 DEF CheckKey, Task

LEMMA RenderFails_Inv ==
    ASSUME NotifyInv, NEW r \in Replicas, NEW c \in Workers, RenderFails(r, c)
    PROVE  NotifyInv'
  <1>0. /\ worker[r][c].pc = "send" /\ Set(r, c, "nack")
        /\ UNCHANGED <<topic, offset, routing, task, link, marked, sends, excuses, faults>>
    BY DEF RenderFails
  <1>1. PICK u \in Tasks :
              /\ u = worker[r][c].task /\ u[2] = c /\ u[1] \in Events
              /\ Budget(u) /\ sends[u] \in Nat /\ excuses[u] \in Nat
              /\ u[1] \in marked => Told(u[1])
              /\ sends \in [Tasks -> Nat] /\ excuses \in [Tasks -> Nat]
              /\ marked \in SUBSET Events /\ faults \in 0 .. MaxFaults
    BY <1>0, Busy
  <1>2. Stray(u)' \subseteq Stray(u) /\ (CanSend(u)' => CanSend(u))
    BY <1>0, <1>1, OwnStep DEF CanSend, Ids
  <1>3. Budget(u)'
    <2>1. Cardinality(Stray(u)') <= Cardinality(Stray(u))
      BY <1>2, StrayShrinks
    <2>2. QED
      BY <1>0, <1>1, <1>2, <2>1, StrayFinite DEF Budget
  <1>4. QED
    BY <1>0, <1>1, <1>3, HandlerStep

LEMMA Send_Inv ==
    ASSUME NotifyInv, NEW r \in Replicas, NEW c \in Workers, Send(r, c)
    PROVE  NotifyInv'
  <1>0. /\ worker[r][c].pc = "send" /\ Set(r, c, "mark")
        /\ UNCHANGED <<topic, offset, routing, task, link, marked, excuses, faults>>
    BY DEF Send
  <1>1. PICK u \in Tasks :
              /\ u = worker[r][c].task /\ u[2] = c /\ u[1] \in Events
              /\ Budget(u) /\ sends[u] \in Nat /\ excuses[u] \in Nat
              /\ u[1] \in marked => Told(u[1])
              /\ sends \in [Tasks -> Nat] /\ excuses \in [Tasks -> Nat]
              /\ marked \in SUBSET Events /\ faults \in 0 .. MaxFaults
    BY <1>0, Busy
  <1>2. /\ sends' \in [Tasks -> Nat] /\ sends'[u] = sends[u] + 1
        /\ \A t \in Tasks \ {u} : sends'[t] = sends[t]
    BY <1>1 DEF Send, Task
  <1>3. Budget(u)'
    <2>1. CASE worker[r][c].bound
      <3>1. Stray(u)' \subseteq Stray(u) /\ CanSend(u) /\ ~CanSend(u)'
        BY <1>0, <1>1, <2>1, OwnStep DEF CanSend, Ids
      <3>2. Cardinality(Stray(u)') <= Cardinality(Stray(u))
        BY <3>1, StrayShrinks
      <3>3. QED
        BY <1>0, <1>1, <1>2, <3>1, <3>2, StrayFinite DEF Budget
    <2>2. CASE ~worker[r][c].bound
      <3>1. /\ r \in Stray(u) /\ Stray(u)' \subseteq Stray(u) \ {r}
            /\ CanSend(u)' => CanSend(u)
        BY <1>0, <1>1, <2>2, OwnStep DEF CanSend, Ids
      <3>2. Cardinality(Stray(u)') <= Cardinality(Stray(u)) - 1
        BY <3>1, StrayLeaves
      <3>3. QED
        BY <1>0, <1>1, <1>2, <3>1, <3>2, StrayFinite DEF Budget
    <2>3. QED
      BY <2>1, <2>2
  <1>4. QED
    BY <1>0, <1>1, <1>2, <1>3, HandlerStep

LEMMA SendFails_Inv ==
    ASSUME NotifyInv, NEW r \in Replicas, NEW c \in Workers, SendFails(r, c)
    PROVE  NotifyInv'
  <1>0. /\ worker[r][c].pc = "send" /\ Set(r, c, "nack") /\ Fault
        /\ UNCHANGED <<topic, offset, routing, task, link, marked>>
    BY DEF SendFails
  <1>1. PICK u \in Tasks :
              /\ u = worker[r][c].task /\ u[2] = c /\ u[1] \in Events
              /\ Budget(u) /\ sends[u] \in Nat /\ excuses[u] \in Nat
              /\ u[1] \in marked => Told(u[1])
              /\ sends \in [Tasks -> Nat] /\ excuses \in [Tasks -> Nat]
              /\ marked \in SUBSET Events /\ faults \in 0 .. MaxFaults
    BY <1>0, Busy
  <1>2. /\ sends' \in [Tasks -> Nat] /\ excuses' \in [Tasks -> Nat]
        /\ sends'[u] \in Nat /\ excuses'[u] \in Nat
        /\ sends'[u] - sends[u] = excuses'[u] - excuses[u] /\ sends'[u] >= sends[u]
        /\ \A t \in Tasks \ {u} : sends'[t] = sends[t] /\ excuses'[t] = excuses[t]
    <2>1. CASE UNCHANGED <<sends, excuses>>
      BY <1>1, <2>1
    <2>2. CASE /\ sends' = [sends EXCEPT ![u] = @ + 1]
               /\ excuses' = [excuses EXCEPT ![u] = @ + 1]
      BY <1>1, <2>2
    <2>3. QED
      BY <1>1, <2>1, <2>2 DEF SendFails, Task
  <1>3. faults' \in 0 .. MaxFaults
    BY <1>0, <1>1, FaultType
  <1>4. Stray(u)' \subseteq Stray(u) /\ (CanSend(u)' => CanSend(u))
    BY <1>0, <1>1, OwnStep DEF CanSend, Ids
  <1>5. Budget(u)'
    <2>1. Cardinality(Stray(u)') <= Cardinality(Stray(u))
      BY <1>4, StrayShrinks
    <2>2. QED
      BY <1>1, <1>2, <1>4, <2>1, StrayFinite DEF Budget
  <1>6. QED
    BY <1>0, <1>1, <1>2, <1>3, <1>5, HandlerStep

LEMMA Mark_Inv ==
    ASSUME NotifyInv, NEW r \in Replicas, NEW c \in Workers, Mark(r, c)
    PROVE  NotifyInv'
  <1>0. /\ worker[r][c].pc = "mark" /\ Set(r, c, "ack")
        /\ UNCHANGED <<topic, offset, routing, task, link, sends>>
    BY DEF Mark
  <1>1. PICK u \in Tasks :
              /\ u = worker[r][c].task /\ u[2] = c /\ u[1] \in Events
              /\ Budget(u) /\ sends[u] \in Nat /\ excuses[u] \in Nat
              /\ Told(u[1])
              /\ sends \in [Tasks -> Nat] /\ excuses \in [Tasks -> Nat]
              /\ marked \in SUBSET Events /\ faults \in 0 .. MaxFaults
    BY <1>0, Busy
  <1>2. Stray(u)' \subseteq Stray(u)
    BY <1>0, <1>1, OwnStep
  <1>3. Cardinality(Stray(u)') <= Cardinality(Stray(u))
    BY <1>2, StrayShrinks
  <1>4. CASE marked' = marked \cup {u[1]} /\ UNCHANGED <<excuses, faults>>
    <2>1. CanSend(u)' => CanSend(u)
      BY <1>0, <1>1, <1>4, OwnStep DEF CanSend, Ids
    <2>2. Budget(u)'
      BY <1>0, <1>1, <1>3, <1>4, <2>1, StrayFinite DEF Budget
    <2>3. QED
      BY <1>0, <1>1, <1>4, <2>2, HandlerStep
  <1>5. CASE /\ Fault /\ UNCHANGED marked
             /\ excuses' = [excuses EXCEPT ![u] = @ + 1]
    <2>1. /\ excuses' \in [Tasks -> Nat] /\ excuses'[u] = excuses[u] + 1
          /\ \A t \in Tasks \ {u} : excuses'[t] = excuses[t]
          /\ faults' \in 0 .. MaxFaults
      BY <1>1, <1>5, FaultType
    <2>2. Budget(u)'
      BY <1>0, <1>1, <1>3, <2>1, StrayFinite DEF Budget
    <2>3. QED
      BY <1>0, <1>1, <1>5, <2>1, <2>2, HandlerStep
  <1>6. QED
    BY <1>1, <1>4, <1>5 DEF Mark, Task

-----------------------------------------------------------------------------
(* Nobody holds a task that RabbitMQ has for itself. *)
LEMMA FreeTask ==
    ASSUME NotifyInv, NEW t \in Tasks, t[2] \in Workers,
           task[t] \in {"absent", "ready", "acked"}
    PROVE  \A q \in Replicas : ~Held(q, t)
  BY ReplicasAssumption DEF NotifyInv, HoldersAgree

(* A published task is not published again. *)
LEMMA PublishedTask ==
    ASSUME NotifyInv, NEW t \in Tasks, task[t] /= "absent"
    PROVE  /\ \A q \in Replicas : t \notin routing[q]
           /\ ~(t[1] > offset)
  BY DEF NotifyInv, RoutedOnce

(* So a step that changes only published tasks leaves the routing alone. *)
LEMMA RoutingKept ==
    ASSUME NotifyInv, offset' = offset,
           \A q \in Replicas : routing'[q] \subseteq routing[q],
           \A t \in Tasks : task[t] = "absent" => task'[t] = "absent"
    PROVE  RoutedOnce'
  <1>1. \A q \in Replicas : \A t \in routing[q] : t \in Tasks
    BY DEF NotifyInv, TypeOK
  <1>2. QED
    BY <1>1 DEF NotifyInv, RoutedOnce

LEMMA Deliver_Inv ==
    ASSUME NotifyInv, NEW r \in Replicas, NEW t \in Tasks, Deliver(r, t)
    PROVE  NotifyInv'
  <1>0. /\ t[2] \in Workers /\ worker[r][t[2]].pc = "idle" /\ task[t] = "ready"
        /\ task' = [task EXCEPT ![t] = r]
        /\ UNCHANGED <<topic, offset, routing, link, marked, sends, excuses, faults>>
        /\ worker \in [Replicas -> [Workers -> Consumers]]
        /\ task \in [Tasks -> {"absent", "ready", "acked"} \cup Replicas]
    BY DEF Deliver, NotifyInv, TypeOK, Consumers, Ids
  <1>1. PICK c \in Workers, k \in Consumers :
             /\ c = t[2] /\ k = [task |-> t, pc |-> "check", bound |-> TRUE]
             /\ worker' = [worker EXCEPT ![r][c] = k]
    <2>1. [task |-> t, pc |-> "check", bound |-> TRUE] \in Consumers
      BY DEF Consumers, Ids
    <2>2. QED
      BY <1>0, <2>1 DEF Deliver
  <1>2. /\ worker' \in [Replicas -> [Workers -> Consumers]] /\ worker'[r][c] = k
        /\ \A q \in Replicas, d \in Workers :
              (q /= r \/ d /= c) => worker'[q][d] = worker[q][d]
    BY <1>0, <1>1
  <1>3. k.task = t /\ k.pc = "check" /\ k.bound
    BY <1>1
  <1>4. worker[r][c] = Resting /\ worker[r][c].task = NoTask
    <2>1. worker[r][c] = Resting
      BY <1>0, <1>1 DEF NotifyInv, HoldersAgree
    <2>2. QED
      BY <2>1 DEF Resting
  <1>5. /\ task' \in [Tasks -> {"absent", "ready", "acked"} \cup Replicas]
        /\ task'[t] = r /\ \A u \in Tasks \ {t} : task'[u] = task[u]
    BY <1>0
  <1>6. TypeOK'
    BY <1>0, <1>2, <1>5 DEF NotifyInv, TypeOK, Consumers, Ids
  <1>7. RoutedOnce'
    BY <1>0, <1>5, RoutingKept
  <1>8. HoldersAgree'
    <2>1. ASSUME NEW q \in Replicas, NEW d \in Workers
          PROVE  /\ worker'[q][d].pc /= "idle" =>
                       worker'[q][d].task \in Tasks /\ worker'[q][d].task[2] = d
                 /\ worker'[q][d].pc = "idle" => worker'[q][d] = Resting
      <3>1. CASE q = r /\ d = c
        BY <1>1, <1>2, <1>3, <3>1
      <3>2. CASE q /= r \/ d /= c
        BY <1>2, <3>2 DEF NotifyInv, HoldersAgree, Task
      <3>3. QED
        BY <3>1, <3>2
    <2>2. ASSUME NEW q \in Replicas, NEW u \in Tasks, u[2] \in Workers, Held(q, u)'
          PROVE  task'[u] = q
      <3>1. CASE q = r /\ u[2] = c
        BY <1>2, <1>3, <1>5, <2>2, <3>1 DEF Held
      <3>2. CASE q /= r \/ u[2] /= c
        <4>1. Held(q, u)
          BY <1>2, <2>2, <3>2 DEF Held
        <4>2. u /= t /\ task[u] = q
          BY <1>0, <2>2, <4>1, FreeTask DEF NotifyInv, HoldersAgree
        <4>3. QED
          BY <1>5, <4>2
      <3>3. QED
        BY <3>1, <3>2
    <2>3. QED
      BY <2>1, <2>2 DEF HoldersAgree, Task
  <1>9. TellingComesFirst'
    <2>1. ASSUME NEW q \in Replicas, NEW d \in Workers,
                 worker'[q][d].pc \in {"mark", "ack"}
          PROVE  worker'[q][d] = worker[q][d]
      BY <1>2, <1>3, <2>1
    <2>2. \A e : Told(e)' <=> Told(e)
      BY <1>0 DEF Told
    <2>3. QED
      BY <1>0, <2>1, <2>2 DEF NotifyInv, TellingComesFirst, Task
  <1>10. AcknowledgedMeansTold'
    <2>1. \A e \in Events, d \in Workers : <<e, d>> \in Tasks
      BY TaskFacts
    <2>2. r /= "acked"
      BY ReplicasAssumption
    <2>3. QED
      BY <1>0, <1>5, <2>1, <2>2 DEF NotifyInv, AcknowledgedMeansTold, Told
  <1>11. ASSUME NEW u \in Tasks, u[2] \in Workers PROVE Budget(u)'
    <2>1. ASSUME NEW q \in Replicas
          PROVE  \/ worker'[q][u[2]] = worker[q][u[2]]
                 \/ /\ worker[q][u[2]].task /= u
                    /\ worker'[q][u[2]].pc = "check" /\ worker'[q][u[2]].bound
      BY <1>2, <1>3, <1>4, <1>11, TaskFacts
    <2>2. Stray(u)' \subseteq Stray(u)
      BY <2>1 DEF Stray
    <2>3. \A x \in {"send", "mark"} : HeldAt(u, x)' <=> HeldAt(u, x)
      BY <2>1 DEF HeldAt, Held
    <2>4. CanSend(u)' => CanSend(u)
      BY <1>0, <2>3 DEF CanSend
    <2>5. QED
      BY <1>0, <1>6, <1>11, <2>2, <2>4, BudgetKept, BudgetType DEF NotifyInv
  <1>12. QED
    BY <1>0, <1>6, <1>7, <1>8, <1>9, <1>10, <1>11 DEF NotifyInv

LEMMA SkipWebhook_Inv ==
    ASSUME NotifyInv, NEW r \in Replicas, NEW t \in Tasks, SkipWebhook(r, t)
    PROVE  NotifyInv'
  <1>0. /\ t[2] \notin Workers /\ task[t] = "ready"
        /\ task' = [task EXCEPT ![t] = "acked"]
        /\ UNCHANGED <<topic, offset, routing, link, worker, marked, sends, excuses, faults>>
        /\ task \in [Tasks -> {"absent", "ready", "acked"} \cup Replicas]
    BY DEF SkipWebhook, Workers, NotifyInv, TypeOK
  <1>1. /\ task' \in [Tasks -> {"absent", "ready", "acked"} \cup Replicas]
        /\ \A u \in Tasks \ {t} : task'[u] = task[u]
    BY <1>0
  <1>2. TypeOK'
    BY <1>0, <1>1 DEF NotifyInv, TypeOK
  <1>3. RoutedOnce'
    BY <1>0, <1>1, RoutingKept
  <1>4. HoldersAgree'
    BY <1>0, <1>1 DEF NotifyInv, HoldersAgree, Held, Task
  <1>5. AcknowledgedMeansTold'
    <2>1. \A e \in Events, c \in Workers : <<e, c>> \in Tasks /\ <<e, c>> /= t
      BY <1>0, TaskFacts
    <2>2. QED
      BY <1>0, <1>1, <2>1 DEF NotifyInv, AcknowledgedMeansTold, Told
  <1>6. QED
    BY <1>0, <1>2, <1>3, <1>4, <1>5, QuietStep DEF NotifyInv

LEMMA Reconnect_Inv ==
    ASSUME NotifyInv, NEW r \in Replicas, Reconnect(r)
    PROVE  NotifyInv'
  <1>0. /\ link' = [link EXCEPT ![r] = "back"]
        /\ UNCHANGED <<topic, offset, routing, task, worker, marked, sends, excuses, faults>>
    BY DEF Reconnect
  <1>1. TypeOK'
    BY <1>0 DEF NotifyInv, TypeOK
  <1>2. RoutedOnce' /\ HoldersAgree' /\ AcknowledgedMeansTold'
    BY <1>0 DEF NotifyInv, RoutedOnce, HoldersAgree, Held, Task,
                AcknowledgedMeansTold, Told
  <1>3. QED
    BY <1>0, <1>1, <1>2, QuietStep DEF NotifyInv

LEMMA Settle_Inv ==
    ASSUME NotifyInv, NEW r \in Replicas, NEW c \in Workers, Settle(r, c)
    PROVE  NotifyInv'
  <1>0. /\ worker[r][c].pc \in {"ack", "nack"}
        /\ worker' = [worker EXCEPT ![r][c] = Resting]
        /\ UNCHANGED <<topic, offset, routing, link, marked, sends, excuses, faults>>
        /\ worker \in [Replicas -> [Workers -> Consumers]]
        /\ task \in [Tasks -> {"absent", "ready", "acked"} \cup Replicas]
    BY DEF Settle, NotifyInv, TypeOK, Consumers, Ids
  <1>1. PICK u \in Tasks : /\ u = worker[r][c].task /\ u[2] = c
                           /\ worker[r][c].pc = "ack" => Told(u[1])
    BY <1>0, Busy
  <1>2. /\ Resting \in Consumers /\ Resting.task = NoTask /\ ~Resting.bound
        /\ Resting.pc = "idle"
    BY DEF Resting, Consumers, Ids
  <1>3. /\ worker' \in [Replicas -> [Workers -> Consumers]]
        /\ worker'[r][c] = Resting
        /\ \A q \in Replicas, d \in Workers :
              (q /= r \/ d /= c) => worker'[q][d] = worker[q][d]
    BY <1>0, <1>2
  <1>4. /\ task' \in [Tasks -> {"absent", "ready", "acked"} \cup Replicas]
        /\ \A t \in Tasks \ {u} : task'[t] = task[t]
        /\ task'[u] = "acked" => task[u] = "acked" \/ Told(u[1])
        /\ task'[u] = task[u] \/ task[u] = r
    <2>1. CASE worker[r][c].bound
      <3>1. task[u] = r
        BY <1>1, <2>1 DEF NotifyInv, HoldersAgree, Held
      <3>2. task' = [task EXCEPT ![u] =
                       IF worker[r][c].pc = "ack" THEN "acked" ELSE "ready"]
        BY <1>1, <2>1 DEF Settle, Task
      <3>3. QED
        BY <1>0, <1>1, <3>1, <3>2
    <2>2. CASE ~worker[r][c].bound
      BY <1>0, <2>2 DEF Settle
    <2>3. QED
      BY <2>1, <2>2
  <1>5. TypeOK'
    BY <1>0, <1>3, <1>4 DEF NotifyInv, TypeOK, Consumers, Ids
  <1>6. RoutedOnce'
    <2>1. \A t \in Tasks : task[t] = "absent" => task'[t] = "absent"
      BY <1>4, ReplicasAssumption
    <2>2. QED
      BY <1>0, <2>1, RoutingKept
  <1>7. HoldersAgree'
    <2>1. ASSUME NEW q \in Replicas, NEW d \in Workers
          PROVE  /\ worker'[q][d].pc /= "idle" =>
                       worker'[q][d].task \in Tasks /\ worker'[q][d].task[2] = d
                 /\ worker'[q][d].pc = "idle" => worker'[q][d] = Resting
      BY <1>2, <1>3 DEF NotifyInv, HoldersAgree, Task
    <2>2. ASSUME NEW q \in Replicas, NEW t \in Tasks, t[2] \in Workers, Held(q, t)'
          PROVE  task'[t] = q
      <3>1. q /= r \/ t[2] /= c
        BY <1>2, <1>3, <2>2 DEF Held
      <3>2. Held(q, t)
        BY <1>3, <2>2, <3>1 DEF Held
      <3>3. task[t] = q
        BY <2>2, <3>2 DEF NotifyInv, HoldersAgree
      <3>4. QED
        BY <1>1, <1>4, <3>1, <3>3
    <2>3. QED
      BY <2>1, <2>2 DEF HoldersAgree, Task
  <1>8. TellingComesFirst'
    <2>1. ASSUME NEW q \in Replicas, NEW d \in Workers,
                 worker'[q][d].pc \in {"mark", "ack"}
          PROVE  worker'[q][d] = worker[q][d]
      BY <1>2, <1>3, <2>1
    <2>2. \A e : Told(e)' <=> Told(e)
      BY <1>0 DEF Told
    <2>3. QED
      BY <1>0, <2>1, <2>2 DEF NotifyInv, TellingComesFirst, Task
  <1>9. AcknowledgedMeansTold'
    <2>1. \A e : Told(e)' <=> Told(e)
      BY <1>0 DEF Told
    <2>2. ASSUME NEW e \in Events, NEW d \in Workers, task'[<<e, d>>] = "acked"
          PROVE  Told(e)
      <3>1. <<e, d>> \in Tasks
        BY TaskFacts
      <3>2. CASE <<e, d>> = u
        <4>1. u[1] = e
          BY <3>2
        <4>2. QED
          BY <1>4, <2>2, <3>2, <4>1 DEF NotifyInv, AcknowledgedMeansTold
      <3>3. CASE <<e, d>> /= u
        BY <1>4, <2>2, <3>1, <3>3 DEF NotifyInv, AcknowledgedMeansTold
      <3>4. QED
        BY <3>2, <3>3
    <2>3. QED
      BY <2>1, <2>2 DEF AcknowledgedMeansTold
  <1>10. ASSUME NEW t \in Tasks, t[2] \in Workers PROVE Budget(t)'
    <2>1. ASSUME NEW q \in Replicas
          PROVE  \/ worker'[q][t[2]] = worker[q][t[2]]
                 \/ /\ worker'[q][t[2]].task /= t
                    /\ worker[q][t[2]].pc \in {"ack", "nack"}
      BY <1>0, <1>2, <1>3, <1>10, TaskFacts
    <2>2. Stray(t)' \subseteq Stray(t)
      BY <2>1 DEF Stray
    <2>3. \A x \in {"send", "mark"} : HeldAt(t, x)' <=> HeldAt(t, x)
      BY <2>1 DEF HeldAt, Held
    <2>4. CanSend(t)' => CanSend(t)
      BY <1>0, <2>3 DEF CanSend
    <2>5. QED
      BY <1>0, <1>5, <1>10, <2>2, <2>4, BudgetKept, BudgetType DEF NotifyInv
  <1>11. QED
    BY <1>0, <1>5, <1>6, <1>7, <1>8, <1>9, <1>10 DEF NotifyInv

(* A replica loses its link or stops: its tasks go back, and what it may   *)
(* send once more, or has sent and not marked, is excused.                 *)
LEMMA Losing ==
    ASSUME NotifyInv, NEW r \in Replicas, TypeOK', GiveBack(r), Excuse(r),
           UNCHANGED <<offset, marked, sends>>,
           \A q \in Replicas : routing'[q] \subseteq routing[q],
           \A q \in Replicas \ {r} : worker'[q] = worker[q],
           \A c \in Workers :
              \/ worker'[r][c] = Resting
              \/ /\ worker'[r][c].task = worker[r][c].task
                 /\ worker'[r][c].pc = worker[r][c].pc
                 /\ worker'[r][c].pc = "idle" => worker'[r][c] = Resting
                 /\ ~worker'[r][c].bound
    PROVE  NotifyInv'
  <1>0. TypeOK /\ Resting.task = NoTask /\ ~Resting.bound /\ Resting.pc = "idle"
    BY DEF NotifyInv, Resting
  <1>1. \A t \in Tasks : task'[t] = IF task[t] = r THEN "ready" ELSE task[t]
    BY DEF GiveBack
  <1>2. \A e : Told(e)' <=> Told(e)
    BY DEF Told
  <1>3. RoutedOnce'
    <2>1. \A t \in Tasks : task[t] = "absent" => task'[t] = "absent"
      BY <1>1, ReplicasAssumption
    <2>2. QED
      BY <2>1, RoutingKept
  <1>4. ASSUME NEW q \in Replicas, NEW t \in Tasks, t[2] \in Workers
        PROVE  Held(q, t)' <=> q /= r /\ Held(q, t)
    BY <1>0, <1>4 DEF Held
  <1>5. HoldersAgree'
    <2>1. ASSUME NEW q \in Replicas, NEW d \in Workers
          PROVE  /\ worker'[q][d].pc /= "idle" =>
                       worker'[q][d].task \in Tasks /\ worker'[q][d].task[2] = d
                 /\ worker'[q][d].pc = "idle" => worker'[q][d] = Resting
      BY <1>0 DEF NotifyInv, HoldersAgree, Task
    <2>2. ASSUME NEW q \in Replicas, NEW t \in Tasks, t[2] \in Workers, Held(q, t)'
          PROVE  task'[t] = q
      <3>1. q /= r /\ Held(q, t)
        BY <1>4, <2>2
      <3>2. task[t] = q
        BY <2>2, <3>1 DEF NotifyInv, HoldersAgree
      <3>3. QED
        BY <1>1, <3>1, <3>2
    <2>3. QED
      BY <2>1, <2>2 DEF HoldersAgree, Task
  <1>6. TellingComesFirst'
    <2>1. ASSUME NEW q \in Replicas, NEW d \in Workers,
                 worker'[q][d].pc \in {"mark", "ack"}
          PROVE  /\ worker'[q][d].task = worker[q][d].task
                 /\ worker[q][d].pc \in {"mark", "ack"}
      BY <1>0, <2>1
    <2>2. QED
      BY <1>2, <2>1 DEF NotifyInv, TellingComesFirst, Task
  <1>7. AcknowledgedMeansTold'
    <2>1. \A e \in Events, d \in Workers : <<e, d>> \in Tasks
      BY TaskFacts
    <2>2. \A t \in Tasks : task'[t] = "acked" => task[t] = "acked"
      BY <1>1, ReplicasAssumption
    <2>3. QED
      BY <1>2, <2>1, <2>2 DEF NotifyInv, AcknowledgedMeansTold
  <1>8. ASSUME NEW t \in Tasks, t[2] \in Workers PROVE Budget(t)'
    <2> DEFINE w == worker[r][t[2]]
    <2>0. /\ Budget(t) /\ sends[t] \in Nat /\ excuses[t] \in Nat
          /\ sends'[t] = sends[t]
      BY <1>0, <1>8, BudgetType DEF NotifyInv
    <2>1. excuses'[t] = IF t \in AtRisk(r) THEN excuses[t] + 1 ELSE excuses[t]
      BY DEF Excuse
    <2>2. t \in AtRisk(r) <=> w.task = t /\ w.pc \in {"check", "send", "mark"}
      <3>1. t \in AtRisk(r) <=> \E c \in Workers : /\ worker[r][c].task = t
                                  /\ worker[r][c].pc \in {"check", "send", "mark"}
        BY DEF AtRisk
      <3>2. ASSUME NEW c \in Workers, worker[r][c].task = t,
                   worker[r][c].pc \in {"check", "send", "mark"}
            PROVE  c = t[2]
        BY <3>2 DEF NotifyInv, HoldersAgree, Task
      <3>3. QED
        BY <1>8, <3>1, <3>2
    <2>3. \A q \in Replicas \ {r} : q \in Stray(t)' <=> q \in Stray(t)
      BY DEF Stray
    <2>4. r \in Stray(t)' => w.task = t /\ w.pc \in {"check", "send"}
      BY <1>0, <1>8, TaskFacts DEF Stray
    <2>5. Stray(t)' \subseteq Replicas
      BY DEF Stray
    <2>6. \A x : HeldAt(t, x)' => HeldAt(t, x)
      BY <1>4, <1>8 DEF HeldAt
    <2>7. ASSUME NEW x, HeldAt(t, x), ~(Held(r, t) /\ w.pc = x) PROVE HeldAt(t, x)'
      BY <1>4, <1>8, <2>7 DEF HeldAt
    <2>8. CASE r \in Stray(t)'
      <3>1. t \in AtRisk(r)
        BY <2>2, <2>4, <2>8
      <3>2. Cardinality(Stray(t)') <= Cardinality(Stray(t)) + 1
        <4>1. Stray(t)' \subseteq Stray(t) \cup {r}
          BY <2>3, <2>5
        <4>2. QED
          BY <4>1, StrayGrows
      <3>3. CanSend(t)' => CanSend(t)
        <4>1. ~(w.pc = "mark")
          BY <2>4, <2>8
        <4>2. HeldAt(t, "mark") => HeldAt(t, "mark")'
          BY <2>7, <4>1
        <4>3. QED
          BY <2>6, <4>2 DEF CanSend
      <3>4. excuses'[t] = excuses[t] + 1
        BY <2>1, <3>1
      <3>5. QED
        BY <2>0, <3>2, <3>3, <3>4, StrayFinite DEF Budget
    <2>9. CASE r \notin Stray(t)' /\ t \in AtRisk(r)
      <3>1. Stray(t)' \subseteq Stray(t)
        BY <2>3, <2>5, <2>9
      <3>2. excuses'[t] = excuses[t] + 1
        BY <2>1, <2>9
      <3>3. QED
        BY <1>0, <2>0, <3>1, <3>2, BudgetExcused
    <2>10. CASE r \notin Stray(t)' /\ t \notin AtRisk(r)
      <3>1. Stray(t)' \subseteq Stray(t)
        BY <2>3, <2>5, <2>10
      <3>2. ~(Held(r, t) /\ w.pc = "mark")
        BY <2>2, <2>10 DEF Held
      <3>3. CanSend(t)' => CanSend(t)
        BY <2>6, <2>7, <3>2 DEF CanSend
      <3>4. excuses'[t] >= excuses[t]
        BY <2>0, <2>1, <2>10
      <3>5. QED
        BY <1>0, <2>0, <3>1, <3>3, <3>4, BudgetKept
    <2>11. QED
      BY <2>8, <2>9, <2>10
  <1>9. QED
    BY <1>3, <1>5, <1>6, <1>7, <1>8 DEF NotifyInv

(* Excuses and returned tasks are what they should be. *)
LEMMA LosingType ==
    ASSUME NotifyInv, NEW r \in Replicas, Fault, GiveBack(r), Excuse(r)
    PROVE  /\ task' \in [Tasks -> {"absent", "ready", "acked"} \cup Replicas]
           /\ excuses' \in [Tasks -> Nat]
           /\ faults' \in 0 .. MaxFaults
  <1>1. task' \in [Tasks -> {"absent", "ready", "acked"} \cup Replicas]
    BY DEF NotifyInv, TypeOK, GiveBack
  <1>2. excuses' \in [Tasks -> Nat]
    <2>1. \A t \in Tasks : excuses[t] \in Nat /\ excuses[t] + 1 \in Nat
      BY DEF NotifyInv, TypeOK
    <2>2. QED
      BY <2>1 DEF Excuse
  <1>3. QED
    BY <1>1, <1>2, FaultType DEF NotifyInv, TypeOK

(* The consumers of a first channel lose it.                              *)
LEMMA LoseConsumers_Inv ==
    ASSUME NotifyInv, NEW r \in Replicas, NEW to \in {"down", "stuck"}, LoseLink(r, to),
           link[r] = "up"
    PROVE  NotifyInv'
  <1>0. /\ Fault /\ GiveBack(r) /\ Excuse(r) /\ link' = [link EXCEPT ![r] = to]
        /\ UNCHANGED <<topic, offset, routing, marked, sends>>
        /\ worker \in [Replicas -> [Workers -> Consumers]]
    BY DEF LoseLink, NotifyInv, TypeOK, Consumers, Ids
  <1>1. PICK loose : /\ loose = [c \in Workers |-> [worker[r][c] EXCEPT !.bound = FALSE]]
                     /\ worker' = [worker EXCEPT ![r] = loose]
    BY DEF LoseLink
  <1>2. ASSUME NEW c \in Workers
        PROVE  /\ loose[c] \in Consumers
               /\ loose[c].task = worker[r][c].task
               /\ loose[c].pc = worker[r][c].pc
               /\ ~loose[c].bound
               /\ loose[c].pc = "idle" => loose[c] = Resting
    <2>1. worker[r][c] \in Consumers
      BY <1>0
    <2>2. loose[c] = [worker[r][c] EXCEPT !.bound = FALSE]
      BY <1>1
    <2>3. /\ loose[c] \in Consumers
          /\ loose[c].task = worker[r][c].task
          /\ loose[c].pc = worker[r][c].pc
          /\ ~loose[c].bound
      BY <2>1, <2>2 DEF Consumers
    <2>4. ASSUME worker[r][c].pc = "idle" PROVE loose[c] = Resting
      <3>1. worker[r][c] = Resting
        BY <2>4 DEF NotifyInv, HoldersAgree
      <3>2. /\ loose[c].task = NoTask /\ loose[c].pc = "idle" /\ loose[c].bound = FALSE
        BY <2>1, <2>2, <3>1 DEF Resting, Consumers
      <3>3. loose[c] = [task |-> loose[c].task, pc |-> loose[c].pc, bound |-> loose[c].bound]
        BY <2>3 DEF Consumers
      <3>4. QED
        BY <3>2, <3>3 DEF Resting
    <2>5. QED
      BY <2>3, <2>4
  <1>3. loose \in [Workers -> Consumers]
    <2>1. loose = [c \in Workers |-> loose[c]]
      BY <1>1
    <2>2. QED
      BY <1>2, <2>1
  <1>4. /\ worker' \in [Replicas -> [Workers -> Consumers]] /\ worker'[r] = loose
        /\ \A q \in Replicas \ {r} : worker'[q] = worker[q]
    BY <1>0, <1>1, <1>3
  <1>5. TypeOK'
    BY <1>0, <1>4, LosingType DEF NotifyInv, TypeOK, Consumers, Ids
  <1>6. QED
    BY <1>0, <1>2, <1>4, <1>5, Losing

LEMMA LoseLink_Inv ==
    ASSUME NotifyInv, NEW r \in Replicas, NEW to \in {"down", "stuck"}, LoseLink(r, to)
    PROVE  NotifyInv'
  <1>1. CASE link[r] = "up"
    BY <1>1, LoseConsumers_Inv
  <1>2. CASE link[r] /= "up"
    <2>0. /\ Fault /\ link' = [link EXCEPT ![r] = to]
          /\ UNCHANGED <<topic, offset, routing, task, worker, marked, sends, excuses>>
      BY <1>2 DEF LoseLink
    <2>1. TypeOK'
      BY <2>0, FaultType DEF NotifyInv, TypeOK
    <2>2. RoutedOnce' /\ HoldersAgree' /\ AcknowledgedMeansTold'
      BY <2>0 DEF NotifyInv, RoutedOnce, HoldersAgree, Held, Task,
                  AcknowledgedMeansTold, Told
    <2>3. QED
      BY <2>0, <2>1, <2>2, QuietStep DEF NotifyInv
  <1>3. QED
    BY <1>1, <1>2

LEMMA Crash_Inv ==
    ASSUME NotifyInv, NEW r \in Replicas, Crash(r)
    PROVE  NotifyInv'
  <1>0. /\ Fault /\ GiveBack(r) /\ Excuse(r) /\ link' = [link EXCEPT ![r] = "up"]
        /\ routing' = [routing EXCEPT ![r] = {}]
        /\ worker' = [worker EXCEPT ![r] = [c \in Workers |-> Resting]]
        /\ UNCHANGED <<topic, offset, marked, sends>>
        /\ worker \in [Replicas -> [Workers -> Consumers]]
        /\ routing \in [Replicas -> SUBSET Tasks]
    BY DEF Crash, NotifyInv, TypeOK, Consumers, Ids
  <1>1. Resting \in Consumers
    BY DEF Resting, Consumers, Ids
  <1>2. /\ worker' \in [Replicas -> [Workers -> Consumers]]
        /\ \A c \in Workers : worker'[r][c] = Resting
        /\ \A q \in Replicas \ {r} : worker'[q] = worker[q]
    BY <1>0, <1>1
  <1>3. /\ routing' \in [Replicas -> SUBSET Tasks]
        /\ \A q \in Replicas : routing'[q] \subseteq routing[q]
    BY <1>0
  <1>4. TypeOK'
    BY <1>0, <1>2, <1>3, LosingType DEF NotifyInv, TypeOK, Consumers, Ids
  <1>5. QED
    BY <1>0, <1>2, <1>3, <1>4, Losing

LEMMA Expire_Inv ==
    ASSUME NotifyInv, NEW e \in Events, Expire(e)
    PROVE  NotifyInv'
  <1>0. /\ Fault /\ marked' = marked \ {e}
        /\ excuses' = [t \in Tasks |-> IF t[1] = e THEN excuses[t] + 1 ELSE excuses[t]]
        /\ UNCHANGED <<topic, offset, routing, task, link, worker, sends>>
    BY DEF Expire
  <1>1. TypeOK'
    <2>1. \A t \in Tasks : excuses[t] \in Nat /\ excuses[t] + 1 \in Nat
      BY DEF NotifyInv, TypeOK
    <2>2. excuses' \in [Tasks -> Nat]
      BY <1>0, <2>1
    <2>3. faults' \in 0 .. MaxFaults
      BY <1>0, FaultType DEF NotifyInv, TypeOK
    <2>4. QED
      BY <1>0, <2>2, <2>3 DEF NotifyInv, TypeOK
  <1>2. RoutedOnce' /\ HoldersAgree' /\ AcknowledgedMeansTold' /\ TellingComesFirst'
    BY <1>0 DEF NotifyInv, RoutedOnce, HoldersAgree, Held, Task,
                AcknowledgedMeansTold, TellingComesFirst, Told
  <1>3. ASSUME NEW t \in Tasks, t[2] \in Workers PROVE Budget(t)'
    <2>0. Budget(t) /\ TypeOK /\ excuses[t] \in Nat
      BY <1>3 DEF NotifyInv, TypeOK
    <2>1. Stray(t)' = Stray(t)
      BY <1>0 DEF Stray
    <2>2. CASE t[1] = e
      BY <1>0, <1>1, <2>0, <2>1, <2>2, BudgetExcused
    <2>3. CASE t[1] /= e
      <3>1. CanSend(t)' <=> CanSend(t)
        BY <1>0, <2>3 DEF CanSend, HeldAt, Held
      <3>2. excuses'[t] >= excuses[t]
        BY <1>0, <2>0, <2>3
      <3>3. QED
        BY <1>0, <1>1, <2>0, <2>1, <3>1, <3>2, BudgetKept
    <2>4. QED
      BY <2>2, <2>3
  <1>4. QED
    BY <1>0, <1>1, <1>2, <1>3 DEF NotifyInv

-----------------------------------------------------------------------------
LEMMA Init_Inv == Init => NotifyInv
  <1> SUFFICES ASSUME Init PROVE NotifyInv
    OBVIOUS
  <1>0. Resting.pc = "idle" /\ ~Resting.bound /\ Resting.task = NoTask
    BY DEF Resting
  <1>1. TypeOK
    <2>1. worker \in [Replicas -> [Workers ->
                        [task : Tasks \cup {NoTask}, bound : BOOLEAN,
                         pc : {"idle", "check", "send", "mark", "ack", "nack"}]]]
      BY DEF Init, Resting
    <2>2. QED
      BY <2>1, MaxFaultsAssumption DEF Init, TypeOK
  <1>2. \A r \in Replicas, c \in Workers : worker[r][c] = Resting
    BY DEF Init
  <1>3. RoutedOnce
    BY DEF Init, RoutedOnce
  <1>4. HoldersAgree
    BY <1>0, <1>2, TaskFacts DEF HoldersAgree, Held, Task
  <1>5. TellingComesFirst
    BY <1>0, <1>2 DEF Init, TellingComesFirst
  <1>6. AcknowledgedMeansTold
    <2>1. \A e \in Events, c \in Workers : <<e, c>> \in Tasks
      BY TaskFacts
    <2>2. QED
      BY <2>1 DEF Init, AcknowledgedMeansTold
  <1>7. ASSUME NEW t \in Tasks, t[2] \in Workers PROVE Budget(t)
    <2>1. Stray(t) = {}
      BY <1>0, <1>2, <1>7, TaskFacts DEF Stray
    <2>2. Cardinality(Stray(t)) = 0
      BY <2>1, FS_EmptySet
    <2>3. QED
      BY <2>2 DEF Budget, Init
  <1>8. QED
    BY <1>1, <1>3, <1>4, <1>5, <1>6, <1>7 DEF NotifyInv, Init

LEMMA Next_Inv == NotifyInv /\ [Next]_vars => NotifyInv'
  <1> SUFFICES ASSUME NotifyInv, [Next]_vars PROVE NotifyInv'
    OBVIOUS
  <1>1. ASSUME NEW r \in Replicas, NEW c \in Workers, Handle(r, c) PROVE NotifyInv'
    BY <1>1, CheckKey_Inv, RenderFails_Inv, Send_Inv, SendFails_Inv, Mark_Inv,
       Settle_Inv DEF Handle
  <1>2. CASE UNCHANGED vars
    <2>0. UNCHANGED <<topic, offset, routing, task, link, worker, marked, sends,
                      excuses, faults>>
      BY <1>2 DEF vars
    <2>1. TypeOK'
      BY <2>0 DEF NotifyInv, TypeOK
    <2>2. RoutedOnce' /\ HoldersAgree' /\ AcknowledgedMeansTold'
      BY <2>0 DEF NotifyInv, RoutedOnce, HoldersAgree, Held, Task,
                  AcknowledgedMeansTold, Told
    <2>3. QED
      BY <2>0, <2>1, <2>2, QuietStep DEF NotifyInv
  <1>3. QED
    BY <1>1, <1>2, ReadEvent_Inv, Route_Inv, Reconnect_Inv, Crash_Inv,
       LoseLink_Inv, Deliver_Inv, SkipWebhook_Inv, Expire_Inv DEF Next

(* In every state, with any number of replicas and faults, each task has   *)
(* at most one consumer RabbitMQ waits for, and the sends made and still   *)
(* to come have an excuse each (rabbitmq.go, worker.go).                   *)
THEOREM NotifyInvHolds == Spec => []NotifyInv
  BY Init_Inv, Next_Inv, PTL DEF Spec

(* Acknowledged means that somebody was told (ProcessTask, Ack). *)
THEOREM AcksAreTold == Spec => []AcknowledgedMeansTold
  <1>1. NotifyInv => AcknowledgedMeansTold
    BY DEF NotifyInv
  <1>2. QED
    BY <1>1, NotifyInvHolds, PTL

(* A task is sent once, and once more for each fault that explains it.     *)
THEOREM RepeatsExplained == Spec => []RepeatsAreExplained
  <1>1. NotifyInv => RepeatsAreExplained
    <2> SUFFICES ASSUME NotifyInv, NEW t \in Tasks PROVE sends[t] <= 1 + excuses[t]
      BY DEF RepeatsAreExplained
    <2>1. sends[t] \in Nat /\ excuses[t] \in Nat
      BY DEF NotifyInv, TypeOK
    <2>2. t[2] \in Workers => Budget(t)
      BY DEF NotifyInv
    <2>3. t[2] \notin Workers => sends[t] = 0
      BY DEF NotifyInv
    <2>4. Cardinality(Stray(t)) \in Nat
      BY StrayFinite
    <2>5. QED
      BY <2>1, <2>2, <2>3, <2>4 DEF Budget
  <1>2. QED
    BY <1>1, NotifyInvHolds, PTL
=============================================================================
