------------------------------ MODULE Debugger ------------------------------
(***************************************************************************)
(* The debug sessions of the flow service.  Sessions live in the memory of *)
(* the process.  A run under debug adds a hook for its session to the      *)
(* runner it shares with other runs, without a lock and for good, so that  *)
(* a session also hears of later runs.  A client may follow the events of  *)
(* a session over a WebSocket.  A session, a run and a hook are named by   *)
(* the call that makes them.                                               *)
(* A run is asked for with the node types of its flow, in their order.     *)
(***************************************************************************)
EXTENDS Handlers

CONSTANTS
    FirstSessions,  \* sessions of the start
    MaxPolls        \* bound: the polls of a client that are looked at

ASSUME SessionAssumption == Calls \cap FirstSessions = {}

VARIABLES
    sessions,   \* the stored sessions: their events, and whether they are active
    hooks,      \* the hooks of the runner, oldest first
    traces,     \* history: the events of each run
    raced       \* history: the runs that added their hooks at the same time

debugVars == <<sessions, hooks, traces, raced>>

SessionIds == Calls \cup FirstSessions
Stored == {s \in SessionIds : sessions[s] # None}

(* The sessions a client may have been told of. *)
Announced == FirstSessions \cup {c \in Calls : ask[c].op = "debugsession" /\ reply[c] = "ok"}

(* History of an event: by whose hook, of which run, and its place in the  *)
(* trace of the run.                                                       *)
Event(type, node, by, of, nth) ==
    [type |-> type, node |-> node, by |-> by, of |-> of, nth |-> nth]
NewSession == [active |-> TRUE, events |-> <<>>]

DebugInit ==
    /\ sessions = [s \in SessionIds |-> IF s \in FirstSessions THEN NewSession ELSE None]
    /\ hooks = <<>>
    /\ traces = [c \in Calls |-> <<>>]
    /\ raced = {}

(* logEvent, under the lock of the sessions: an event of a session that is *)
(* gone is dropped, one of an ended session is kept.                       *)
LogEvent(s, e) ==
    sessions' = IF sessions[s] = None THEN sessions
                ELSE [sessions EXCEPT ![s].events = Append(@, e)]

(* StartDebugSession: the flow must exist in the zone; then CreateSession. *)
StartDebugSession(c) ==
    \/ /\ Begins(c, "debugsession")
       /\ (Goto(c, "insert") /\ UNCHANGED held) \/ Refuse(c)
       /\ UNCHANGED debugVars
    \/ /\ Serving(c, "debugsession", "insert")
       /\ sessions' = [sessions EXCEPT ![c] = NewSession]
       /\ Goto(c, "announce") /\ UNCHANGED <<held, hooks, traces, raced>>
    \/ /\ Serving(c, "debugsession", "announce")
       /\ LogEvent(c, Event("execution_start", 0, c, c, 0))
       /\ Ok(c) /\ UNCHANGED <<hooks, traces, raced>>

(* EndSession: the flag and the last event, under one lock. *)
EndDebugSession(c) ==
    /\ Begins(c, "enddebug")
    /\ \E s \in Announced :
         IF sessions[s] = None THEN Refuse(c) /\ UNCHANGED sessions
         ELSE /\ sessions' = [sessions EXCEPT
                    ![s] = [active |-> FALSE,
                            events |-> Append(@.events, Event("execution_end", 0, c, c, 0))]]
              /\ Ok(c)
    /\ UNCHANGED <<hooks, traces, raced>>

(* CleanupOldSessions: whichever are too old. *)
CleanupOldSessions(c) ==
    /\ Begins(c, "forgetsessions")
    /\ \E old \in SUBSET Stored :
         sessions' = [s \in SessionIds |-> IF s \in old THEN None ELSE sessions[s]]
    /\ Ok(c) /\ UNCHANGED <<hooks, traces, raced>>

(* What a node that runs with this outcome makes a hook log (AfterNode). *)
Logged(node, outcome) ==
    CASE outcome = "paused" -> <<"node_paused">>
      [] outcome = "error" -> <<"node_error">>
      [] outcome = "ok" /\ node = "condition" -> <<"condition_eval", "node_end">>
      [] OTHER -> <<"node_end">>

(* Each hook in turn logs these events: what is left to do, by hook. *)
ToLog(types) == [h \in 1 .. Len(hooks) |-> [hook |-> hooks[h], types |-> types]]

(* The loop of executeNode over the hooks begins; the run has a trace. *)
CallHooks(c, types, n, outcome) ==
    /\ Hold(c, [held[c] EXCEPT !.left = ToLog(types), !.node = n, !.outcome = outcome])
    /\ traces' = [traces EXCEPT
         ![c] = @ \o [i \in 1 .. Len(types) |-> [type |-> types[i], node |-> n]]]
    /\ UNCHANGED <<sessions, hooks, raced>>

(* Slip: the hook of the run takes the place of all others. *)
AddHookAlone(c) ==
    /\ hooks' = <<[session |-> held[c].session, run |-> c]>>
    /\ raced' = raced

(* AddHook: append to the slice that was read; two runs that do so at the  *)
(* same time may lose one of the hooks.                                    *)
AddHook(c) ==
    LET others == {d \in Calls \ {c} : Serving(d, "debugrun", "addhook")} IN
    /\ hooks' = Append(held[c].read, [session |-> held[c].session, run |-> c])
    /\ raced' = raced \cup others \cup (IF others = {} THEN {} ELSE {c})

(* ExecuteWithDebug: the hook, the row of the execution, and node by node  *)
(* BeforeNode, the handler, AfterNode.  A pause or an error ends the run.  *)
ExecuteWithDebug(c) ==
    \/ /\ Begins(c, "debugrun")
       /\ \E s \in Announced :
            Hold(c, [session |-> s, read |-> hooks, left |-> <<>>, node |-> 0, outcome |-> "ok"])
       /\ Goto(c, "addhook") /\ UNCHANGED debugVars
    \/ /\ Serving(c, "debugrun", "addhook")
       /\ AddHook(c) /\ Hold(c, [held[c] EXCEPT !.read = <<>>])
       /\ Goto(c, "create") /\ UNCHANGED <<sessions, traces>>
    \/ /\ Serving(c, "debugrun", "create")
       /\ (Goto(c, "visit") /\ UNCHANGED held) \/ (MayFail /\ Refuse(c))
       /\ UNCHANGED debugVars
    \/ /\ Serving(c, "debugrun", "visit")
       /\ IF held[c].outcome = "ok" /\ held[c].node < Len(ask[c].nodes)
          THEN CallHooks(c, <<"node_start">>, held[c].node + 1, "ok") /\ Goto(c, "before")
          ELSE Answer(c, held[c].outcome) /\ UNCHANGED <<held, debugVars>>

(* The handler of the node: an approval pauses, a condition may not parse. *)
Handle(c) ==
    /\ Serving(c, "debugrun", "before") /\ held[c].left = <<>>
    /\ LET n == held[c].node IN
       \E outcome \in {"ok", "paused", "error"} :
         /\ outcome = "paused" <=> ask[c].nodes[n] = "approval"
         /\ outcome = "error" => ask[c].nodes[n] = "condition"
         /\ CallHooks(c, Logged(ask[c].nodes[n], outcome), n, outcome)
    /\ Goto(c, "after")

(* What is left once the first hook has logged one event. *)
OneLogged(left) ==
    IF Len(Head(left).types) = 1 THEN Tail(left)
    ELSE [left EXCEPT ![1] = [hook |-> Head(left).hook, types |-> Tail(Head(left).types)]]

(* One hook logs one event. *)
LogNode(c) ==
    /\ ask[c].op = "debugrun" /\ at[c] \in {"before", "after"} /\ held[c].left # <<>>
    /\ LET next == Head(held[c].left)
           nth == Len(traces[c]) - Len(next.types) + 1
       IN  LogEvent(next.hook.session,
                    Event(Head(next.types), held[c].node, next.hook.run, c, nth))
    /\ Hold(c, [held[c] EXCEPT !.left = OneLogged(@)])
    /\ UNCHANGED <<ask, at, reply, hooks, traces, raced>>

NodeDone(c) ==
    /\ Serving(c, "debugrun", "after") /\ held[c].left = <<>>
    /\ Goto(c, "visit") /\ UNCHANGED <<held, debugVars>>

(* Two runs write the start times of one hook, a plain map: the process    *)
(* may be stopped, and with it go the sessions and the runs.               *)
Starts(c, hook) ==
    /\ Serving(c, "debugrun", "before") /\ held[c].left # <<>>
    /\ Head(held[c].left) = [hook |-> hook, types |-> <<"node_start">>]

StopOnRace ==
    /\ \E h \in DOMAIN hooks : \E c, d \in Calls :
         c # d /\ Starts(c, hooks[h]) /\ Starts(d, hooks[h])
    /\ sessions' = [s \in SessionIds |-> None]
    /\ hooks' = <<>>
    /\ at' = [c \in Calls |-> IF at[c] = "start" THEN "start" ELSE "done"]
    /\ reply' = [c \in Calls |-> IF at[c] \in {"start", "done"} THEN reply[c] ELSE "lost"]
    /\ UNCHANGED <<ask, held, traces, raced>>

(* GetDebugSession and GetDebugEvents *)
GetDebugEvents(c) ==
    /\ Begins(c, "debugevents")
    /\ \E s \in Announced :
         IF sessions[s] = None THEN Refuse(c) ELSE Ok(c)
    /\ UNCHANGED debugVars

(* DebugWebSocket: what is there at the start is sent, and then at every   *)
(* tick what lies behind the events there were at the start.               *)
DebugWebSocket(c) ==
    \/ /\ Begins(c, "follow")
       /\ \E s \in Announced :
            IF sessions[s] = None THEN Refuse(c)
            ELSE LET first == Len(sessions[s].events) IN
                 /\ Hold(c, [session |-> s, first |-> first, polls |-> 0,
                             sent |-> [n \in 1 .. first |-> n]])
                 /\ Goto(c, "poll")
       /\ UNCHANGED debugVars
    \/ /\ Serving(c, "follow", "poll") /\ held[c].polls < MaxPolls
       /\ LET log == sessions[held[c].session]
              new == IF log = None THEN <<>>
                     ELSE [n \in 1 .. Len(log.events) - held[c].first |-> held[c].first + n]
          IN  Hold(c, [held[c] EXCEPT !.polls = @ + 1, !.sent = @ \o new])
       /\ UNCHANGED <<ask, at, reply, debugVars>>
    \/ /\ Serving(c, "follow", "poll")      \* the client leaves, or a write fails
       /\ Ok(c) /\ UNCHANGED debugVars

DebugOps == {"debugsession", "enddebug", "forgetsessions", "debugrun", "debugevents", "follow"}

DebugNext ==
    \/ \E c \in Calls :
         \/ ask[c].op \in DebugOps /\ Malformed(c) /\ UNCHANGED debugVars
         \/ StartDebugSession(c) \/ EndDebugSession(c) \/ CleanupOldSessions(c)
         \/ ExecuteWithDebug(c) \/ Handle(c) \/ LogNode(c) \/ NodeDone(c)
         \/ GetDebugEvents(c) \/ DebugWebSocket(c)
    \/ StopOnRace

-----------------------------------------------------------------------------
(* The hook of run r logged e of run q. *)
Told(e, r, q) == e.by = r /\ e.of = q

(* What the hook of r logged of q is the trace of q from some event on and *)
(* up to the n-th: these events, in this order, each once, without gaps.   *)
Follows(log, r, q, trace, n) ==
    /\ \A i \in DOMAIN log : Told(log[i], r, q) =>
         /\ log[i].nth \in 1 .. n
         /\ trace[log[i].nth] = [type |-> log[i].type, node |-> log[i].node]
         /\ \A k \in log[i].nth .. n :
              \E j \in DOMAIN log : Told(log[j], r, q) /\ log[j].nth = k
    /\ \A i, j \in DOMAIN log :
         Told(log[i], r, q) /\ Told(log[j], r, q) /\ i < j => log[i].nth < log[j].nth

(* It begins with the first event. *)
FromTheStart(log, r, n) ==
    n > 0 => \E i \in DOMAIN log : Told(log[i], r, r) /\ log[i].nth = 1

Ran(q) == ask[q].op = "debugrun" /\ reply[q] \in {"ok", "paused", "error"}

(* A session that is kept has the events of its own run, all of them and   *)
(* in order, although other runs log to it and it may have been ended,     *)
(* unless hooks were added at the same time; and of another run what came  *)
(* after a certain point, without gaps (ExecuteWithDebug, logEvent).       *)
TracesAreComplete ==
    \A r \in Calls :
        ask[r].op = "debugrun" /\ held[r] # None /\ held[r].session \in Stored /\ r \notin raced =>
            LET log == sessions[held[r].session].events IN
            \A q \in Calls : Ran(q) =>
                /\ Follows(log, r, q, traces[q], Len(traces[q]))
                /\ q = r => FromTheStart(log, r, Len(traces[r]))
=============================================================================
