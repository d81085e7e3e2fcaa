------------------------------ MODULE FlowApi ------------------------------
(***************************************************************************)
(* The routes of the flow service for flows, executions and past events.   *)
(* A past event is replayed by a message to the topic that the Kafka       *)
(* consumer of the flow runner reads; the message is the payload of the    *)
(* event alone, so the runner knows of zone and type what the payload says *)
(* ("" if nothing).  Edits of a flow are in FlowStore, the steps of an     *)
(* execution in Flow.  A flow is named by the call that creates it.        *)
(***************************************************************************)
EXTENDS Handlers, SequencesExt

CONSTANTS
    FirstFlows,     \* flows of the start: zone, event type, enabled
    FirstEvents,    \* the events table of the start: id, zone, type, payload
    Arriving        \* events that arrive on the streams

VARIABLES
    flowRows,   \* the flows table
    past,       \* the events table, in the order of created_at
    arrived,    \* the events the runner has processed
    topic,      \* the messages on the Kafka topic
    readTo,     \* how many of them the runner has read
    executions  \* flow_executions that replays have caused

flowApiVars == <<flowRows, past, arrived, topic, readTo, executions>>

FlowIds == Calls \cup DOMAIN FirstFlows

(* Rows of the events table, and what handlers keep: the results of their  *)
(* replays and the rows of a page.                                         *)
EventRows == [id : STRING, zone : STRING, type : STRING, payload : [zone : STRING, type : STRING]]
FlowRows == [zone : STRING, type : STRING, enabled : BOOLEAN]
Outcomes == [results : Seq({"success", "error"}), page : Seq(STRING)]

ASSUME FlowApiAssumption ==
    /\ FirstFlows \in [DOMAIN FirstFlows -> FlowRows] /\ Calls \cap DOMAIN FirstFlows = {}
    /\ FirstEvents \in Seq(EventRows) /\ Arriving \subseteq EventRows
    /\ None \notin Outcomes \cup FlowRows

FlowApiInit ==
    /\ flowRows = [f \in FlowIds |-> IF f \in DOMAIN FirstFlows THEN FirstFlows[f] ELSE None]
    /\ past = FirstEvents
    /\ arrived = {}
    /\ topic = <<>>
    /\ readTo = 0
    /\ executions = {}

Outcome(results, page) == [results |-> results, page |-> page]

(* SQLRepository.GetEventByID: the rows of that id, one at most. *)
GetEventByID(id) == {e \in ToSet(past) : e.id = id}

(* ListFlows: the enabled flows of a zone. *)
ListFlows(zone) ==
    {f \in FlowIds : flowRows[f] # None /\ flowRows[f].zone = zone /\ flowRows[f].enabled}

-----------------------------------------------------------------------------
(* POST /v1/flows: the row and its first version in one transaction. *)
CreateFlow(c) ==
    /\ Begins(c, "createflow")
    /\ \/ flowRows' = [flowRows EXCEPT ![c] = ask[c].flow] /\ Ok(c)
       \/ MayFail /\ UNCHANGED flowRows /\ Refuse(c)
    /\ UNCHANGED <<past, arrived, topic, readTo, executions>>

(* GET of a flow, of the flows of a zone, of executions. *)
ReadFlows(c) ==
    /\ Begins(c, "readflow")
    /\ \/ (ask[c].flow \in FlowIds /\ flowRows[ask[c].flow] # None) /\ Ok(c)
       \/ (MayFail \/ ask[c].flow \notin FlowIds) /\ Refuse(c)
    /\ UNCHANGED flowApiVars

ReadExecutions(c) ==
    /\ Begins(c, "readexecution")
    /\ \/ (\E x \in executions : x.flow = ask[c].flow) /\ Ok(c)
       \/ (MayFail \/ ~\E x \in executions : x.flow = ask[c].flow) /\ Refuse(c)
    /\ UNCHANGED flowApiVars

(* SQLRepository.GetPastEvents: newest first, a page of them. *)
PageOf(request) ==
    LET rows == Reverse(SelectSeq(past, LAMBDA e : e.zone = request.zone))
        from == request.offset + 1
        to == IF Len(rows) < request.offset + request.limit
              THEN Len(rows) ELSE request.offset + request.limit
    IN  [n \in 1 .. Len(SubSeq(rows, from, to)) |-> rows[request.offset + n].id]

(* GET .../events/past: a negative limit is an error. *)
GetPastEvents(c) ==
    /\ Begins(c, "past")
    /\ \/ Hold(c, Outcome(<<>>, PageOf(ask[c]))) /\ Answer(c, "ok")
       \/ MayFail /\ Refuse(c)
    /\ UNCHANGED flowApiVars

-----------------------------------------------------------------------------
(* KafkaEventRetriggerer: the payload and nothing else.  An error may be   *)
(* reported although the message was written.                              *)
RetriggerEvent(c, n, event, result) ==
    \/ /\ result = "success" \/ (MayFail /\ result = "error")
       /\ topic' = Append(topic, [by |-> c, item |-> n, payload |-> event.payload])
    \/ MayFail /\ result = "error" /\ UNCHANGED topic

(* Item n of a replay: the event is read, then sent.  *)
ReplayItem(c, n, result) ==
    LET found == GetEventByID(ask[c].ids[n]) IN
    \/ \E event \in found : RetriggerEvent(c, n, event, result)
    \/ (found = {} \/ MayFail) /\ result = "error" /\ UNCHANGED topic

(* POST /v1/events/<id>/replay *)
ReplayEvent(c) ==
    /\ Begins(c, "replay")
    /\ \E result \in {"success", "error"} :
         /\ ReplayItem(c, 1, result)
         /\ Hold(c, Outcome(<<result>>, <<>>))
         /\ Answer(c, IF result = "success" THEN "ok" ELSE "refused")
    /\ UNCHANGED <<flowRows, past, arrived, readTo, executions>>

(* Slip: the first error ends the loop. *)
BulkReplayEventsUntilError(c) ==
    \/ /\ Begins(c, "bulkreplay")
       /\ Hold(c, Outcome(<<>>, <<>>)) /\ Goto(c, "each") /\ UNCHANGED flowApiVars
    \/ /\ Serving(c, "bulkreplay", "each")
       /\ LET done == held[c].results
              next == Len(done) + 1
              over == next > Len(ask[c].ids) \/ (done # <<>> /\ Last(done) = "error")
          IN  \/ over /\ Ok(c) /\ UNCHANGED topic
              \/ /\ ~over
                 /\ \E result \in {"success", "error"} :
                      /\ ReplayItem(c, next, result)
                      /\ Hold(c, Outcome(Append(done, result), <<>>))
                 /\ Goto(c, "each")
       /\ UNCHANGED <<flowRows, past, arrived, readTo, executions>>

(* POST .../events/bulk-replay: one after the other, with a delay. *)
BulkReplayEvents(c) ==
    \/ /\ Begins(c, "bulkreplay")
       /\ IF ask[c].ids = <<>> THEN Refuse(c)
          ELSE Hold(c, Outcome(<<>>, <<>>)) /\ Goto(c, "each")
       /\ UNCHANGED flowApiVars
    \/ /\ Serving(c, "bulkreplay", "each")
       /\ LET done == held[c].results
              next == Len(done) + 1
          IN  \/ next > Len(ask[c].ids) /\ Ok(c) /\ UNCHANGED topic
              \/ /\ next <= Len(ask[c].ids)
                 /\ \E result \in {"success", "error"} :
                      /\ ReplayItem(c, next, result)
                      /\ Hold(c, Outcome(Append(done, result), <<>>))
                 /\ Goto(c, "each")
       /\ UNCHANGED <<flowRows, past, arrived, readTo, executions>>

-----------------------------------------------------------------------------
(* The runner takes an event off a stream and stores it; an error is only  *)
(* logged.  The flows it starts are in Flow.                               *)
StoreEvent(e) ==
    /\ e \in Arriving \ arrived
    /\ arrived' = arrived \cup {e}
    /\ (past' = Append(past, e)) \/ (MayFail /\ UNCHANGED past)
    /\ UNCHANGED <<callVars, flowRows, topic, readTo, executions>>

(* The Kafka consumer reads the next message.  It needs a zone, and        *)
(* executes the flows of that zone whose trigger names the type or is      *)
(* generic; an error of ListFlows drops the message.                       *)
ConsumeReplay ==
    /\ readTo < Len(topic)
    /\ readTo' = readTo + 1
    /\ LET m == topic[readTo + 1]
           matching == {f \in ListFlows(m.payload.zone) :
                          flowRows[f].type \in {m.payload.type, "*"}}
       IN  \/ executions' = executions \cup
                {[flow |-> f, by |-> m.by, item |-> m.item] :
                   f \in IF m.payload.zone = "" THEN {} ELSE matching}
           \/ MayFail /\ UNCHANGED executions
    /\ UNCHANGED <<callVars, flowRows, past, arrived, topic>>

FlowApiOps == {"createflow", "readflow", "readexecution", "past", "replay", "bulkreplay"}

FlowApiNext ==
    \/ \E c \in Calls :
         \/ ask[c].op \in FlowApiOps /\ Malformed(c) /\ UNCHANGED flowApiVars
         \/ CreateFlow(c) \/ ReadFlows(c) \/ ReadExecutions(c)
         \/ GetPastEvents(c) \/ ReplayEvent(c) \/ BulkReplayEvents(c)
    \/ \E e \in Arriving : StoreEvent(e)
    \/ ConsumeReplay

-----------------------------------------------------------------------------
Sent(c, n) == \E m \in DOMAIN topic : topic[m].by = c /\ topic[m].item = n

(* A bulk replay that is answered has a result for every event that was    *)
(* asked for, in that order; an event reported as replayed is on the topic *)
(* once, in the order of the request, whatever is stored or replayed       *)
(* meanwhile; one that is there unreported was cut off or its error is a   *)
(* lie of Kafka; and a flow runs at most once for a replay, because of a   *)
(* message that names its zone (BulkReplayEvents, RetriggerEvent).         *)
ReplaysAreAccountedFor ==
    /\ \A c \in Calls : ask[c].op \in {"replay", "bulkreplay"} /\ held[c] # None =>
         LET results == held[c].results IN
         /\ reply[c] = "ok" => Len(results) = Len(ask[c].ids)
         /\ \A n \in DOMAIN results : results[n] = "success" => Sent(c, n)
         /\ \A n \in 1 .. Len(ask[c].ids) : Sent(c, n) => n \in DOMAIN results
    /\ \A m, n \in DOMAIN topic : m < n /\ topic[m].by = topic[n].by => topic[m].item < topic[n].item
    /\ \A x \in executions : \E m \in 1 .. readTo :
         /\ topic[m].by = x.by /\ topic[m].item = x.item
         /\ topic[m].payload.zone = flowRows[x.flow].zone
=============================================================================
