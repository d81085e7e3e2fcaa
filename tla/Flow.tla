-------------------------------- MODULE Flow --------------------------------
(***************************************************************************)
(* The flow engine: the consumer that starts flows (cmd/flow-runner), the  *)
(* runner that walks them (internal/flow/domain/runner.go) and the resume  *)
(* requests of cmd/flow-service, over the flow store.                      *)
(*                                                                         *)
(* An execution is a row of flow_executions and the goroutine that walks   *)
(* the flow on a copy of that row.  The recursion of executeNode is a list *)
(* of what is left to do: visit a node, or save the row once the nodes     *)
(* below one are through.  A resume walks on from the row it has read, in  *)
(* another process; nothing reserves the row for it.  Flows are acyclic.   *)
(***************************************************************************)
EXTENDS FlowStore, Sequences, SequencesExt

CONSTANTS
    Messages,       \* the events; each starts at most one execution of the flow
    EventType,      \* the type of each message
    Resumers,       \* the resume requests
    Nodes,          \* the node ids
    NoNode,         \* the empty current_node_id of a new row
    MaxCrashes      \* how often a process may stop

(* "webhook" stands for every node whose handler only passes data on: the  *)
(* webhook and audit handlers, and the types without a handler.            *)
NodeTypes == {"eventTrigger", "condition", "webhook", "approval"}
Edges == [source : Nodes, target : Nodes, handle : {"", "true", "false"}]

(* A definition: the type of each node it has, its edges in their order,   *)
(* its trigger node and the event type that one names.                     *)
ASSUME ContentsAssumption ==
    \A c \in Contents :
       /\ c.on \in {EventType[m] : m \in Messages} \cup {"*"}
       /\ DOMAIN c.type \subseteq Nodes
       /\ c.trigger \in DOMAIN c.type
       /\ \A n \in DOMAIN c.type : c.type[n] \in NodeTypes
       /\ c.edges \in Seq(Edges)

ASSUME NoNodeAssumption == NoNode \notin Nodes
ASSUME WorkersAssumption == Messages \cap Resumers = {}
ASSUME MaxCrashesAssumption == MaxCrashes \in Nat

Workers == Messages \cup Resumers

VARIABLES
    message,    \* how far the consumer is with each message
    row,        \* flow_executions, by the message that started the execution
    job,        \* the goroutine of each execution and of each resume request
    ran,        \* the nodes whose handlers have run for each execution
    admitted,   \* the approvals each execution was resumed from, and in which
                \* definition it went on
    crashes     \* how often a process has stopped

flowVars == <<message, row, job, ran, admitted, crashes>>
engineVars == <<storeVars, flowVars>>

NoRow == [status |-> "absent", node |-> NoNode, steps |-> <<>>, version |-> 0]

Idle(w) == [pc |-> "idle", exec |-> w, memory |-> NoRow, content |-> FirstContent,
            todo |-> <<>>, result |-> "none"]

Visit(n) == [op |-> "visit", node |-> n]
Save(n) == [op |-> "save", node |-> n]
Step(n, s) == [node |-> n, status |-> s]

(* The copy of the row after node n: where it is, and the step added.      *)
Passed(memory, n, s) ==
    [memory EXCEPT !.node = n, !.steps = Append(memory.steps, Step(n, s))]

HasNode(c, n) == n \in DOMAIN c.type

(* The k-th number of a set. *)
Nth(I, k) == CHOOSE i \in I : Cardinality({j \in I : j < i}) = k - 1

(* The edges from n, by their places; those to a node the definition does  *)
(* not have are passed over.                                               *)
Outgoing(c, n, handles) ==
    {i \in DOMAIN c.edges : /\ c.edges[i].source = n
                            /\ c.edges[i].handle \in handles
                            /\ HasNode(c, c.edges[i].target)}

(* The nodes to visit after n, in the order of the edges. *)
Targets(c, n, handles) ==
    LET out == Outgoing(c, n, handles)
    IN  [k \in 1 .. Cardinality(out) |-> Visit(c.edges[Nth(out, k)].target)]

AllHandles == {"", "true", "false"}

(* The handles a node's output follows: one of two for a condition.        *)
Outcomes(c, n) ==
    IF c.type[n] = "condition" THEN {{"true"}, {"false"}} ELSE {AllHandles}

Matches(c, m) == c.on \in {EventType[m], "*"}

FlowInit ==
    /\ StoreInit
    /\ message = [m \in Messages |-> "waiting"]
    /\ row = [m \in Messages |-> NoRow]
    /\ job = [w \in Workers |-> Idle(w)]
    /\ ran = [m \in Messages |-> {}]
    /\ admitted = [m \in Messages |-> {}]
    /\ crashes = 0

(* The job ends; what it returns is all that is left of it.                *)
Return(w, result) ==
    job' = [job EXCEPT ![w] = [Idle(@.exec) EXCEPT !.pc = "done", !.result = result]]

(* UpdateExecution: the row becomes the copy in memory.                    *)
UpdateExecution(w, memory) == row' = [row EXCEPT ![job[w].exec] = memory]

-----------------------------------------------------------------------------
(* The consumer.  Reading takes a message off the stream for good: only    *)
(* new messages are ever asked for, from Redis as from Kafka.              *)
ReadMessage(m) ==
    /\ message[m] = "waiting"
    /\ message' = [message EXCEPT ![m] = "read"]
    /\ UNCHANGED <<row, job, ran, admitted, crashes>>

(* The flow as ListFlows returned it starts if it is enabled and its       *)
(* trigger matches; the message is acknowledged in any case, also when     *)
(* the flows could not be listed.                                          *)
ProcessMessage(m) ==
    /\ message[m] = "read"
    /\ message' = [message EXCEPT ![m] = "acked"]
    /\ \/ /\ flow.enabled /\ Matches(flow.content, m)
          /\ job' = [job EXCEPT ![m].pc = "create", ![m].content = flow.content,
                                ![m].memory.version = flow.version]
       \/ /\ ~(flow.enabled /\ Matches(flow.content, m)) \/ MayFail
          /\ UNCHANGED job
    /\ UNCHANGED <<row, ran, admitted, crashes>>

(* Execute creates the row before it looks at the first node.              *)
CreateExecution(m) ==
    /\ job[m].pc = "create"
    /\ LET new == [job[m].memory EXCEPT !.status = "running"]
       IN  /\ UpdateExecution(m, new)
           /\ job' = [job EXCEPT ![m].pc = "run", ![m].memory = new,
                                 ![m].todo = <<Visit(job[m].content.trigger)>>]
    /\ UNCHANGED <<message, ran, admitted, crashes>>

-----------------------------------------------------------------------------
(* The walk.                                                               *)
NextIs(w, op) == job[w].pc = "run" /\ job[w].todo /= <<>> /\ Head(job[w].todo).op = op
AtApproval(w) ==
    NextIs(w, "visit") /\ job[w].content.type[Head(job[w].todo).node] = "approval"

(* executeNode up to its children, which come next, and its own save last. *)
VisitNode(w) ==
    /\ NextIs(w, "visit") /\ ~AtApproval(w)
    /\ LET n == Head(job[w].todo).node
           c == job[w].content
       IN  /\ \E handles \in Outcomes(c, n) :
                 job' = [job EXCEPT
                    ![w].memory = Passed(job[w].memory, n, "completed"),
                    ![w].todo = Targets(c, n, handles) \o <<Save(n)>> \o Tail(job[w].todo)]
           /\ ran' = [ran EXCEPT ![job[w].exec] = @ \cup {n}]
    /\ UNCHANGED <<message, row, admitted, crashes>>

(* Slip: the pause is stored but not passed up, so the walk goes on. *)
PauseAtApprovalAndGoOn(w) ==
    /\ AtApproval(w)
    /\ LET n == Head(job[w].todo).node
           paused == [Passed(job[w].memory, n, "paused") EXCEPT !.status = "paused"]
       IN  /\ UpdateExecution(w, paused)
           /\ job' = [job EXCEPT ![w].memory = paused,
                  ![w].todo = Targets(job[w].content, n, AllHandles) \o Tail(@)]
    /\ UNCHANGED <<message, ran, admitted, crashes>>

(* An approval stores the row as paused and gives up what was left to do;  *)
(* the caller is told that all is well.                                    *)
PauseAtApproval(w) ==
    /\ AtApproval(w)
    /\ LET n == Head(job[w].todo).node
       IN  UpdateExecution(w, [Passed(job[w].memory, n, "paused") EXCEPT
                                  !.status = "paused"])
    /\ Return(w, "ok")
    /\ UNCHANGED <<message, ran, admitted, crashes>>

SaveProgress(w) ==
    /\ NextIs(w, "save")
    /\ UpdateExecution(w, job[w].memory)
    /\ job' = [job EXCEPT ![w].todo = Tail(job[w].todo)]
    /\ UNCHANGED <<message, ran, admitted, crashes>>

Complete(w) ==
    /\ job[w].pc = "run" /\ job[w].todo = <<>>
    /\ UpdateExecution(w, [job[w].memory EXCEPT !.status = "completed"])
    /\ Return(w, "ok")
    /\ UNCHANGED <<message, ran, admitted, crashes>>

-----------------------------------------------------------------------------

(* Resume reads the row and goes on from its copy if that is paused.       *)
GetExecution(w) ==
    /\ job[w].pc = "idle"
    /\ \E m \in Messages :
          \/ /\ row[m].status = "paused"
             /\ job' = [job EXCEPT ![w].pc = "decide", ![w].exec = m, ![w].memory = row[m]]
          \/ /\ row[m].status /= "paused"
             /\ Return(w, "refused")
    /\ UNCHANGED <<message, row, ran, admitted, crashes>>

(* A body that says the approver rejects: the row fails, for good.         *)
Reject(w) ==
    /\ job[w].pc = "decide"
    /\ UpdateExecution(w, [job[w].memory EXCEPT !.status = "failed"])
    /\ Return(w, "rejected")
    /\ UNCHANGED <<message, ran, admitted, crashes>>

(* A body that approves, or no body: on with the flow as it is now.        *)
GetFlow(w) ==
    /\ job[w].pc = "decide"
    /\ IF HasNode(flow.content, job[w].memory.node)
       THEN job' = [job EXCEPT ![w].pc = "begin", ![w].content = flow.content]
       ELSE Return(w, "error")
    /\ UNCHANGED <<message, row, ran, admitted, crashes>>

Continue(w) ==
    /\ job[w].pc = "begin"
    /\ LET again == [job[w].memory EXCEPT !.status = "running"]
           n == again.node
       IN  /\ UpdateExecution(w, again)
           /\ job' = [job EXCEPT ![w].pc = "run", ![w].memory = again,
                                 ![w].todo = Targets(job[w].content, n, AllHandles)]
           /\ admitted' = [admitted EXCEPT ![job[w].exec] = @ \cup {<<n, job[w].content>>}]
    /\ UNCHANGED <<message, ran, crashes>>

-----------------------------------------------------------------------------

(* A request to the database fails, or the client of a resume has gone:    *)
(* the error goes to the caller, and the row stays as it was stored last.  *)
FailJob(w) ==
    /\ MayFail
    /\ \/ job[w].pc \in {"create", "decide", "begin"}
       \/ job[w].pc = "run" /\ (job[w].todo = <<>> \/ NextIs(w, "save") \/ AtApproval(w))
    /\ Return(w, "error")
    /\ UNCHANGED <<message, row, ran, admitted, crashes>>

(* The flow runner, or the flow service, stops with all its jobs.          *)
Crash(process) ==
    /\ crashes < MaxCrashes
    /\ \E w \in process : job[w].pc \notin {"idle", "done"}
    /\ crashes' = crashes + 1
    /\ job' = [w \in Workers |->
                 IF w \in process /\ job[w].pc \notin {"idle", "done"}
                 THEN [Idle(job[w].exec) EXCEPT !.pc = "done", !.result = "lost"] ELSE job[w]]
    /\ UNCHANGED <<message, row, ran, admitted>>

Walk(w) == VisitNode(w) \/ PauseAtApproval(w) \/ SaveProgress(w) \/ Complete(w)
Consume(m) == ReadMessage(m) \/ ProcessMessage(m) \/ CreateExecution(m)
Resume(w) == GetExecution(w) \/ Reject(w) \/ GetFlow(w) \/ Continue(w)

EngineNext ==
    \/ \E m \in Messages : Consume(m)
    \/ \E w \in Resumers : Resume(w)
    \/ \E w \in Workers : Walk(w) \/ FailJob(w)
    \/ \E process \in {Messages, Resumers} : Crash(process)

FlowNext ==
    \/ EngineNext /\ UNCHANGED storeVars
    \/ StoreNext /\ UNCHANGED flowVars

FlowSpec == FlowInit /\ [][FlowNext]_engineVars

(* A goroutine that can run runs; PostgreSQL hands a free row to the       *)
(* transactions that wait for it.                                          *)
FlowFairSpec ==
    /\ FlowSpec
    /\ \A m \in Messages : WF_engineVars(Consume(m) /\ UNCHANGED storeVars)
    /\ \A w \in Resumers : WF_engineVars((Reject(w) \/ GetFlow(w) \/ Continue(w))
                                         /\ UNCHANGED storeVars)
    /\ \A w \in Workers : WF_engineVars(Walk(w) /\ UNCHANGED storeVars)
    /\ \A e \in Editors : WF_engineVars((InsertVersion(e) \/ CommitEdit(e)) /\ UNCHANGED flowVars)
    /\ \A e \in Editors : SF_engineVars(UpdateRow(e) /\ UNCHANGED flowVars)

-----------------------------------------------------------------------------
Rows == [status : {"absent", "running", "paused", "completed", "failed"},
         node : Nodes \cup {NoNode}, version : Nat,
         steps : Seq([node : Nodes, status : {"completed", "paused"}])]

Tasks == [op : {"visit", "save"}, node : Nodes]

Jobs == [pc : {"idle", "create", "decide", "begin", "run", "done"},
         exec : Workers, memory : Rows, content : Contents, todo : Seq(Tasks),
         result : {"none", "ok", "refused", "rejected", "error", "lost"}]

(* The type of every variable the engine adds to the store's. *)
FlowTypeOK ==
    /\ message \in [Messages -> {"waiting", "read", "acked"}]
    /\ row \in [Messages -> Rows]
    /\ job \in [Workers -> Jobs]
    /\ ran \in [Messages -> SUBSET Nodes]
    /\ admitted \in [Messages -> SUBSET ((Nodes \cup {NoNode}) \X Contents)]
    /\ crashes \in 0 .. MaxCrashes

EdgeSet(c) == {c.edges[i] : i \in DOMAIN c.edges}
Started(m) == (CHOOSE h \in history : h.version = row[m].version).content

(* n can be reached from S without passing an approval: it is in every set *)
(* that has S and is closed under the edges of other nodes.                *)
FreelyReached(c, S, n) ==
    \A T \in SUBSET Nodes :
       (/\ S \subseteq T
        /\ \A e \in EdgeSet(c) :
              (e.source \in T /\ HasNode(c, e.source) /\ c.type[e.source] /= "approval")
                 => e.target \in T)
       => n \in T

Below(c, n) == {e.target : e \in {d \in EdgeSet(c) : d.source = n}}

(* No handler behind an approval runs unless a resume was admitted at that *)
(* very approval: each node that ran is reached without passing one, from  *)
(* the trigger of the definition the execution started with or from the    *)
(* successors of an approval it was resumed from (executeNode, Resume).    *)
NothingPassesUnapproved ==
    \A m \in Messages : \A n \in ran[m] :
       \/ FreelyReached(Started(m), {Started(m).trigger}, n)
       \/ \E a \in admitted[m] : FreelyReached(a[2], Below(a[2], a[1]), n)

(* Every execution, resume and edit under way returns: no edit waits for   *)
(* the row for ever, and the walk comes to its end (Execute, Resume,       *)
(* UpdateFlow).                                                            *)
EveryJobReturns ==
    /\ \A w \in Workers : job[w].pc \in {"create", "decide", "begin", "run"}
                             ~> job[w].pc = "done"
    /\ \A e \in Editors : Editing(e) ~> edit[e].pc = "done"

-----------------------------------------------------------------------------
(* The inductive invariant of the engine.  What a walk still has to visit  *)
(* in definition c may be visited.                                         *)
Approved(m, c, n) ==
    \/ c = Started(m) /\ FreelyReached(c, {c.trigger}, n)
    \/ \E a \in admitted[m] : a[2] = c /\ FreelyReached(c, Below(c, a[1]), n)

(* Each execution is created once, by its message, at a version the        *)
(* history has, and nothing runs for it before.                            *)
RowsAreRooted ==
    \A m \in Messages :
       /\ job[m].exec = m
       /\ message[m] /= "acked" => job[m].pc = "idle"
       /\ job[m].pc \in {"idle", "create"} => row[m].status = "absent"
       /\ row[m].status = "absent" => ran[m] = {}
       /\ row[m].status /= "absent" => Taken(row[m].version)

(* A job knows the version its execution started with, whoever else works  *)
(* on the row, and walks only where it may.                                *)
JobIsRooted(w) ==
    LET j == job[w] IN
    /\ j.pc = "create" => Version(j.memory.version, j.content) \in history
    /\ j.pc \in {"decide", "begin", "run"} =>
          /\ j.exec \in Messages
          /\ row[j.exec].status /= "absent" /\ j.memory.status /= "absent"
          /\ j.memory.version = row[j.exec].version
    /\ j.pc = "run" =>
          \A i \in DOMAIN j.todo :
             j.todo[i].op = "visit" => /\ HasNode(j.content, j.todo[i].node)
                                       /\ Approved(j.exec, j.content, j.todo[i].node)

FlowInv ==
    /\ FlowTypeOK
    /\ RowsAreRooted
    /\ \A w \in Workers : JobIsRooted(w)
    /\ NothingPassesUnapproved
=============================================================================
