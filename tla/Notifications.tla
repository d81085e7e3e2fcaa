--------------------------- MODULE Notifications ---------------------------
(***************************************************************************)
(* The notification service (cmd/notifications, internal/notification): it *)
(* reads business events from Kafka, routes each to the queues of its      *)
(* channels in RabbitMQ, and one consumer per queue sends the tasks        *)
(* (pkg/messaging/rabbitmq.go).  Replicas share the topic, the queues and  *)
(* the Redis keys that mark what was sent.                                 *)
(*                                                                         *)
(* RabbitMQ gives a task to one consumer and takes it back when that       *)
(* consumer's channel goes; the handler does not notice and carries on.    *)
(* RabbitMQ may push several tasks to a consumer; the ones not taken up    *)
(* count as still in the queue: once the channel has gone the consumer     *)
(* gets no further than the Ack or Nack of the task it is at.              *)
(* The service does not set the breaker's threshold and timeout: it opens  *)
(* at the first failure and lets the next call through all the same.       *)
(***************************************************************************)
EXTENDS Naturals, FiniteSets

CONSTANTS
    MaxEvent,   \* the events of the topic are numbered up to this one
    Types,      \* the types of these events
    Replicas,   \* the processes of the service
    MaxFaults   \* how many crashes, lost links and failed calls there may be

Events == 1 .. MaxEvent
Workers == {"email", "sms", "web"}     \* the channels of ProcessTask
Channels == Workers \cup {"webhook"}

(* DefaultRoutingRules; Route publishes in the order of the channels.      *)
RouteOrder == [email |-> 1, sms |-> 2, web |-> 3, webhook |-> 4]
Rules ==
    [payment_succeeded |-> {"email", "web", "webhook"},
     payment_failed    |-> {"email", "sms", "web", "webhook"},
     refund_initiated  |-> {"email", "web", "webhook"},
     refund_completed  |-> {"email", "sms", "web", "webhook"},
     user_registered   |-> {"email"},
     password_reset    |-> {"email", "sms"}]

(* Of the templates the router names, RenderEmailTemplate knows this one's.*)
WithEmailTemplate == {"user_registered"}

ASSUME MaxEventAssumption == MaxEvent \in Nat
ASSUME TypesAssumption == Types \subseteq DOMAIN Rules
ASSUME ReplicasAssumption ==
    IsFiniteSet(Replicas) /\ Replicas \cap {"absent", "ready", "acked"} = {}
ASSUME MaxFaultsAssumption == MaxFaults \in Nat

Tasks == Events \X Channels
NoTask == <<0, "none">>

VARIABLES
    topic,      \* the type of each event of the topic
    offset,     \* the events the consumer group has read
    routing,    \* the tasks each replica has yet to publish for its event
    task,       \* each task in RabbitMQ: absent, ready, held by a replica, acked
    link,       \* each replica's connection and channel
    worker,     \* what the consumer of each queue is doing, in each replica
    marked,     \* the keys in Redis: by event, as the key names no channel
    sends,      \* how often each task has really been sent
    excuses,    \* the faults that can make a task be sent once more
    faults      \* all faults so far

vars == <<topic, offset, routing, task, link, worker, marked, sends, excuses, faults>>

Resting == [task |-> NoTask, pc |-> "idle", bound |-> FALSE]

Init ==
    /\ topic \in [Events -> Types]
    /\ offset = 0
    /\ routing = [r \in Replicas |-> {}]
    /\ task = [t \in Tasks |-> "absent"]
    /\ link = [r \in Replicas |-> "up"]
    /\ worker = [r \in Replicas |-> [c \in Workers |-> Resting]]
    /\ marked = {}
    /\ sends = [t \in Tasks |-> 0]
    /\ excuses = [t \in Tasks |-> 0]
    /\ faults = 0

Fault == faults < MaxFaults /\ faults' = faults + 1

-----------------------------------------------------------------------------
(* Routing.  ReadMessage commits the offset before the handler runs.       *)
ReadEvent(r) ==
    /\ routing[r] = {}
    /\ offset + 1 \in Events
    /\ offset' = offset + 1
    /\ routing' = [routing EXCEPT ![r] = {offset + 1} \X Rules[topic[offset + 1]]]
    /\ UNCHANGED <<topic, task, link, worker, marked, sends, excuses, faults>>

(* The publisher takes the client's channel of the moment, the one that a  *)
(* reconnect has opened too.                                               *)
CanPublish(r) == link[r] \in {"up", "back"}

(* One publish after the other; an error, which a lost link gives if the   *)
(* call returns at all, is logged and the next channel gets its turn.      *)
Route(r) ==
    \E t \in routing[r] :
       /\ \A u \in routing[r] : RouteOrder[t[2]] <= RouteOrder[u[2]]
       /\ \/ /\ CanPublish(r)
             /\ task' = [task EXCEPT ![t] = "ready"]
             /\ UNCHANGED faults
          \/ /\ ~CanPublish(r)
             /\ UNCHANGED <<task, faults>>
          \/ /\ CanPublish(r)
             /\ Fault
             /\ UNCHANGED task
       /\ routing' = [routing EXCEPT ![r] = @ \ {t}]
       /\ UNCHANGED <<topic, offset, link, worker, marked, sends, excuses>>

-----------------------------------------------------------------------------
(* A queue's consumer.                                                     *)
Set(r, c, pc) == worker' = [worker EXCEPT ![r][c].pc = pc]
Task(r, c) == worker[r][c].task

Deliver(r, t) ==
    /\ t[2] \in Workers
    /\ worker[r][t[2]].pc = "idle"
    /\ link[r] = "up"
    /\ task[t] = "ready"
    /\ task' = [task EXCEPT ![t] = r]
    /\ worker' = [worker EXCEPT ![r][t[2]] = [task |-> t, pc |-> "check", bound |-> TRUE]]
    /\ UNCHANGED <<topic, offset, routing, link, marked, sends, excuses, faults>>

(* ProcessWebhook: the router knows no URL for a webhook, and a task       *)
(* without one is done.  Nothing else depends on when.                     *)
SkipWebhook(r, t) ==
    /\ t[2] = "webhook"
    /\ link[r] = "up"
    /\ task[t] = "ready"
    /\ task' = [task EXCEPT ![t] = "acked"]
    /\ UNCHANGED <<topic, offset, routing, link, worker, marked, sends, excuses, faults>>

(* Slip: the key is set when the task is taken up, not when it is sent. *)
CheckKeyReserving(r, c) ==
    /\ worker[r][c].pc = "check"
    /\ marked' = marked \cup {Task(r, c)[1]}
    /\ Set(r, c, IF Task(r, c)[1] \in marked THEN "ack" ELSE "send")
    /\ UNCHANGED <<topic, offset, routing, task, link, sends, excuses, faults>>

(* Exists: a task whose key is there is done.  A failing Redis is taken    *)
(* for a missing key.                                                      *)
CheckKey(r, c) ==
    /\ worker[r][c].pc = "check"
    /\ \/ /\ Set(r, c, IF Task(r, c)[1] \in marked THEN "ack" ELSE "send")
          /\ UNCHANGED <<excuses, faults>>
       \/ /\ Fault
          /\ excuses' = [excuses EXCEPT ![Task(r, c)] = @ + 1]
          /\ Set(r, c, "send")
    /\ UNCHANGED <<topic, offset, routing, task, link, marked, sends>>

(* An email without a template goes back at once; the other channels send  *)
(* a text in place of a template.                                          *)
CanRender(t) == t[2] = "email" => topic[t[1]] \in WithEmailTemplate

RenderFails(r, c) ==
    /\ worker[r][c].pc = "send"
    /\ ~CanRender(Task(r, c))
    /\ Set(r, c, "nack")
    /\ UNCHANGED <<topic, offset, routing, task, link, marked, sends, excuses, faults>>

Send(r, c) ==
    /\ worker[r][c].pc = "send"
    /\ CanRender(Task(r, c))
    /\ sends' = [sends EXCEPT ![Task(r, c)] = @ + 1]
    /\ Set(r, c, "mark")
    /\ UNCHANGED <<topic, offset, routing, task, link, marked, excuses, faults>>

(* handleRetry counts in its copy of the task, which starts from zero at   *)
(* each delivery: the limit is never reached and the task goes back.  The  *)
(* provider may have sent it before the error came.                        *)
SendFails(r, c) ==
    /\ worker[r][c].pc = "send"
    /\ CanRender(Task(r, c))
    /\ Fault
    /\ \/ UNCHANGED <<sends, excuses>>
       \/ /\ sends' = [sends EXCEPT ![Task(r, c)] = @ + 1]
          /\ excuses' = [excuses EXCEPT ![Task(r, c)] = @ + 1]
    /\ Set(r, c, "nack")
    /\ UNCHANGED <<topic, offset, routing, task, link, marked>>

(* Slip: nothing remembers that the task was sent. *)
MarkNothing(r, c) ==
    /\ worker[r][c].pc = "mark"
    /\ Set(r, c, "ack")
    /\ UNCHANGED <<topic, offset, routing, task, link, marked, sends, excuses, faults>>

(* Set: its error is not looked at.                                        *)
Mark(r, c) ==
    /\ worker[r][c].pc = "mark"
    /\ \/ /\ marked' = marked \cup {Task(r, c)[1]}
          /\ UNCHANGED <<excuses, faults>>
       \/ /\ Fault
          /\ excuses' = [excuses EXCEPT ![Task(r, c)] = @ + 1]
          /\ UNCHANGED marked
    /\ Set(r, c, "ack")
    /\ UNCHANGED <<topic, offset, routing, task, link, sends>>

(* Slip: a task is settled with neither Ack nor Nack; RabbitMQ waits. *)
SettleSilently(r, c) ==
    /\ worker[r][c].pc \in {"ack", "nack"}
    /\ task' = IF worker[r][c].bound /\ worker[r][c].pc = "ack"
               THEN [task EXCEPT ![Task(r, c)] = "acked"] ELSE task
    /\ worker' = [worker EXCEPT ![r][c] = Resting]
    /\ UNCHANGED <<topic, offset, routing, link, marked, sends, excuses, faults>>

(* Ack, or Nack with requeue; both are lost if the channel has gone.       *)
Settle(r, c) ==
    /\ worker[r][c].pc \in {"ack", "nack"}
    /\ task' = IF worker[r][c].bound
               THEN [task EXCEPT ![Task(r, c)] =
                       IF worker[r][c].pc = "ack" THEN "acked" ELSE "ready"]
               ELSE task
    /\ worker' = [worker EXCEPT ![r][c] = Resting]
    /\ UNCHANGED <<topic, offset, routing, link, marked, sends, excuses, faults>>

-----------------------------------------------------------------------------
(* What happens to a replica.                                              *)
GiveBack(r) == task' = [t \in Tasks |-> IF task[t] = r THEN "ready" ELSE task[t]]

(* The tasks a replica may be about to send, or has sent and not marked.   *)
AtRisk(r) == {worker[r][c].task : c \in {w \in Workers : worker[r][w].pc \in {"check", "send", "mark"}}}
Excuse(r) == excuses' = [t \in Tasks |-> IF t \in AtRisk(r) THEN excuses[t] + 1 ELSE excuses[t]]

(* The connection is lost, and reconnect will see to it; or only the       *)
(* channel closes, which nothing notices while the connection lasts.  With *)
(* the first channel of the process the consumers lose theirs.             *)
LoseLink(r, to) ==
    /\ <<link[r], to>> \in {"up", "back"} \X {"down", "stuck"} \cup {<<"stuck", "down">>}
    /\ Fault
    /\ link' = [link EXCEPT ![r] = to]
    /\ \/ /\ link[r] = "up"
          /\ GiveBack(r)
          /\ Excuse(r)
          /\ worker' = [worker EXCEPT ![r] = [c \in Workers |-> [@[c] EXCEPT !.bound = FALSE]]]
       \/ /\ link[r] /= "up"
          /\ UNCHANGED <<task, excuses, worker>>
    /\ UNCHANGED <<topic, offset, routing, marked, sends>>

(* A new connection and a new channel, for publishing.  The consumers      *)
(* still range over the deliveries of the old channel, which are never     *)
(* closed: its shutdown first hands the error to notifyChanClose, which is *)
(* not buffered and which nobody receives from.  Only a restart of the     *)
(* process brings them back.                                               *)
Reconnect(r) ==
    /\ link[r] = "down"
    /\ link' = [link EXCEPT ![r] = "back"]
    /\ UNCHANGED <<topic, offset, routing, task, worker, marked, sends, excuses, faults>>

(* The process stops and a new one takes its place: its event is not       *)
(* routed any further, its tasks go back.                                  *)
Crash(r) ==
    /\ Fault
    /\ routing' = [routing EXCEPT ![r] = {}]
    /\ worker' = [worker EXCEPT ![r] = [c \in Workers |-> Resting]]
    /\ link' = [link EXCEPT ![r] = "up"]
    /\ GiveBack(r)
    /\ Excuse(r)
    /\ UNCHANGED <<topic, offset, marked, sends>>

(* The key lives for a day.                                                *)
Expire(e) ==
    /\ e \in marked
    /\ Fault
    /\ marked' = marked \ {e}
    /\ excuses' = [t \in Tasks |-> IF t[1] = e THEN excuses[t] + 1 ELSE excuses[t]]
    /\ UNCHANGED <<topic, offset, routing, task, link, worker, sends>>

Handle(r, c) ==
    CheckKey(r, c) \/ RenderFails(r, c) \/ Send(r, c) \/ SendFails(r, c) \/ Mark(r, c) \/ Settle(r, c)

Next ==
    \/ \E r \in Replicas :
          \/ ReadEvent(r) \/ Route(r) \/ Reconnect(r) \/ Crash(r)
          \/ \E to \in {"down", "stuck"} : LoseLink(r, to)
          \/ \E t \in Tasks : Deliver(r, t) \/ SkipWebhook(r, t)
          \/ \E c \in Workers : Handle(r, c)
    \/ \E e \in Events : Expire(e)

Spec == Init /\ [][Next]_vars

(* A consumer that can go on goes on, and RabbitMQ delivers.  Nothing is   *)
(* assumed of the reader, of the publisher (a publish on a channel that    *)
(* has closed need not return) and of the reconnects.                      *)
FairSpec ==
    /\ Spec
    /\ \A r \in Replicas, c \in Workers : WF_vars(Handle(r, c))
    /\ \A t \in Tasks : WF_vars(\E r \in Replicas : Deliver(r, t) \/ SkipWebhook(r, t))

-----------------------------------------------------------------------------
(* The state of the service, the queues and the keys.                      *)
TypeOK ==
    /\ topic \in [Events -> Types]
    /\ offset \in {0} \cup Events
    /\ routing \in [Replicas -> SUBSET Tasks]
    /\ task \in [Tasks -> {"absent", "ready", "acked"} \cup Replicas]
    /\ link \in [Replicas -> {"up", "down", "stuck", "back"}]
    /\ worker \in [Replicas -> [Workers -> [task : Tasks \cup {NoTask}, bound : BOOLEAN,
                     pc : {"idle", "check", "send", "mark", "ack", "nack"}]]]
    /\ marked \subseteq Events
    /\ sends \in [Tasks -> Nat] /\ excuses \in [Tasks -> Nat]
    /\ faults \in 0 .. MaxFaults

Told(e) == \E c \in Channels : sends[<<e, c>>] > 0

(* A task leaves its queue for good only if somebody was told of its event *)
(* on some channel (ProcessTask acknowledges after a send or because of a  *)
(* key): no failure, crash or lost link makes a notification vanish whole. *)
AcknowledgedMeansTold ==
    \A e \in Events, c \in Workers :
       task[<<e, c>>] = "acked" => Told(e)

(* Whatever is sent twice has a reason: a task is sent at most once more   *)
(* than there were faults between the check of its key and the setting of  *)
(* it.  A link or a process lost later, before the Ack, repeats nothing.   *)
RepeatsAreExplained == \A t \in Tasks : sends[t] <= 1 + excuses[t]

(* Once the failures end the queues run empty, as long as one replica has  *)
(* kept the channel it started with: one is enough, whatever the others    *)
(* held when they lost theirs, and a restarted process counts.  When all   *)
(* have lost it nobody consumes any more, reconnected or not.  What stays  *)
(* is the email that cannot be rendered, which is requeued without end:    *)
(* what settles it is the key, set for another channel of its event.       *)
CanSettle(t) == CanRender(t) \/ t[1] \in marked
EveryTaskSettles ==
    <>[](\A t \in Tasks :
           task[t] \notin {"absent", "acked"} /\ CanSettle(t) =>
              \A r \in Replicas : link[r] /= "up")

-----------------------------------------------------------------------------
(* The inductive invariant.  Each event is read once, each task published  *)
(* once, and nothing is in RabbitMQ or under way before that.              *)
RoutedOnce ==
    /\ \A r \in Replicas : \A t \in routing[r] :
          t[1] <= offset /\ task[t] = "absent"
    /\ \A r, q \in Replicas : r /= q => routing[r] \cap routing[q] = {}
    /\ \A t \in Tasks : t[1] > offset => task[t] = "absent"

(* RabbitMQ and the consumers agree: a task is held by the replica whose   *)
(* consumer can still settle it.                                           *)
Held(r, t) == worker[r][t[2]].task = t /\ worker[r][t[2]].bound
HoldersAgree ==
    /\ \A r \in Replicas, c \in Workers :
          /\ worker[r][c].pc /= "idle" => Task(r, c) \in Tasks /\ Task(r, c)[2] = c
          /\ worker[r][c].pc = "idle" => worker[r][c] = Resting
    /\ \A r \in Replicas, t \in Tasks :
          t[2] \in Workers /\ Held(r, t) => task[t] = r

(* A key, an acknowledgement and the step to either follow a send.         *)
TellingComesFirst ==
    /\ \A e \in marked : Told(e)
    /\ \A r \in Replicas, c \in Workers :
          worker[r][c].pc \in {"mark", "ack"} => Told(Task(r, c)[1])

(* The sends of a task still to come: by consumers whose link is gone, and *)
(* by the one that holds it, or will, unless a key or that one's own mark  *)
(* is in the way.  Together with those made they have an excuse each.      *)
Stray(t) == {r \in Replicas : /\ worker[r][t[2]].task = t /\ ~worker[r][t[2]].bound
                              /\ worker[r][t[2]].pc \in {"check", "send"}}
HeldAt(t, pc) == \E r \in Replicas : Held(r, t) /\ worker[r][t[2]].pc = pc
CanSend(t) == HeldAt(t, "send") \/ (t[1] \notin marked /\ ~HeldAt(t, "mark"))
Budget(t) == sends[t] + Cardinality(Stray(t)) + (IF CanSend(t) THEN 1 ELSE 0)
                <= 1 + excuses[t]

NotifyInv ==
    /\ TypeOK
    /\ RoutedOnce
    /\ HoldersAgree
    /\ TellingComesFirst
    /\ AcknowledgedMeansTold
    /\ \A t \in Tasks : t[2] \in Workers => Budget(t)
    /\ \A t \in Tasks : t[2] \notin Workers => sends[t] = 0
=============================================================================
