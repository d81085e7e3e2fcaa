----------------------------- MODULE FlowStore -----------------------------
(***************************************************************************)
(* A flow definition and its history: the rows of flows and flow_versions  *)
(* (migrations/microservices) under concurrent edits                       *)
(* (internal/flow/infrastructure/sql_repository.go).                       *)
(*                                                                         *)
(* An edit is the transaction of UpdateFlow at READ COMMITTED: it reads    *)
(* the version, rewrites the row, which it then holds until it ends, and   *)
(* adds the new version to the history.  The read takes no lock, so two    *)
(* edits can read one version; UNIQUE (flow_id, version) decides between   *)
(* them.  Flows do not share rows: the module follows one of them.         *)
(***************************************************************************)
EXTENDS Naturals, FiniteSets

CONSTANTS
    Editors,        \* the UpdateFlow requests
    Contents,       \* the definitions (nodes and edges) a flow can have
    FirstContent,   \* the definition CreateFlow stored
    Body,           \* what each UpdateFlow request wants to store
    Nobody,         \* no editor: the row is free
    MayFail         \* whether requests to the database can fail

ASSUME FirstContentAssumption == FirstContent \in Contents
ASSUME BodyAssumption == Body \in [Editors -> [content : Contents, enabled : BOOLEAN]]
ASSUME NobodyAssumption == Nobody \notin Editors
ASSUME MayFailAssumption == MayFail \in BOOLEAN

VARIABLES
    flow,       \* the row of flows: version, content, enabled
    history,    \* the rows of flow_versions
    holder,     \* the transaction that holds the row
    edit        \* where each edit is and which version it read

storeVars == <<flow, history, holder, edit>>

Version(v, c) == [version |-> v, content |-> c]

(* CreateFlow stores the row and version 1 of its history in one           *)
(* transaction, before any edit can name the flow.                         *)
StoreInit ==
    /\ flow = [version |-> 1, content |-> FirstContent, enabled |-> TRUE]
    /\ history = {Version(1, FirstContent)}
    /\ holder = Nobody
    /\ edit = [e \in Editors |-> [pc |-> "idle", read |-> 0]]

(* Slip: no deferred Rollback; a transaction that ends early keeps the row. *)
EndEditHolding(e) ==
    /\ edit' = [edit EXCEPT ![e].pc = "done"]
    /\ holder' = holder

(* Ending an edit commits or rolls back: either way the row is free again. *)
EndEdit(e) ==
    /\ edit' = [edit EXCEPT ![e].pc = "done"]
    /\ holder' = IF holder = e THEN Nobody ELSE holder

ReadVersion(e) ==
    /\ edit[e].pc = "idle"
    /\ edit' = [edit EXCEPT ![e] = [pc |-> "update", read |-> flow.version]]
    /\ UNCHANGED <<flow, history, holder>>

(* The UPDATE waits for the transaction that holds the row.                *)
UpdateRow(e) ==
    /\ edit[e].pc = "update"
    /\ holder = Nobody
    /\ holder' = e
    /\ edit' = [edit EXCEPT ![e].pc = "insert"]
    /\ UNCHANGED <<flow, history>>

Taken(v) == \E h \in history : h.version = v

(* Slip: no UNIQUE (flow_id, version) on the history. *)
InsertVersionUnchecked(e) ==
    /\ edit[e].pc = "insert"
    /\ edit' = [edit EXCEPT ![e].pc = "commit"]
    /\ UNCHANGED <<flow, history, holder>>

InsertVersion(e) ==
    /\ edit[e].pc = "insert"
    /\ IF Taken(edit[e].read + 1)
       THEN EndEdit(e)
       ELSE edit' = [edit EXCEPT ![e].pc = "commit"] /\ holder' = holder
    /\ UNCHANGED <<flow, history>>

(* The body replaces the whole definition, enabled included.               *)
CommitEdit(e) ==
    /\ edit[e].pc = "commit"
    /\ LET v == edit[e].read + 1
       IN  /\ flow' = [version |-> v, content |-> Body[e].content,
                       enabled |-> Body[e].enabled]
           /\ history' = history \cup {Version(v, Body[e].content)}
    /\ EndEdit(e)

(* A statement fails, or the service stops: the database rolls back.       *)
FailEdit(e) ==
    /\ MayFail
    /\ edit[e].pc \in {"update", "insert", "commit"}
    /\ EndEdit(e)
    /\ UNCHANGED <<flow, history>>

(* EnableFlow, DisableFlow, DeleteFlow and the bulk form: one UPDATE.      *)
SetEnabled(b) ==
    /\ holder = Nobody
    /\ flow.enabled /= b
    /\ flow' = [flow EXCEPT !.enabled = b]
    /\ UNCHANGED <<history, holder, edit>>

EditStep(e) == ReadVersion(e) \/ UpdateRow(e) \/ InsertVersion(e) \/ CommitEdit(e)

StoreNext ==
    \/ \E e \in Editors : EditStep(e) \/ FailEdit(e)
    \/ \E b \in BOOLEAN : SetEnabled(b)

StoreSpec == StoreInit /\ [][StoreNext]_storeVars

-----------------------------------------------------------------------------
(* Edits that are under way.                                               *)
Editing(e) == edit[e].pc \in {"update", "insert", "commit"}

StoreTypeOK ==
    /\ flow \in [version : Nat \ {0}, content : Contents, enabled : BOOLEAN]
    /\ history \subseteq [version : Nat \ {0}, content : Contents]
    /\ holder \in Editors \cup {Nobody}
    /\ edit \in [Editors -> [pc : {"idle", "update", "insert", "commit", "done"},
                             read : Nat]]

(* The history is the flow's past without gaps or forks: one definition    *)
(* per version, every version up to the current one, and the current one   *)
(* is what the row holds, however edits that read the same version         *)
(* interleave (UpdateFlow in sql_repository.go).                           *)
HistoryIsLinear ==
    /\ \A h, k \in history : h.version = k.version => h = k
    /\ {h.version : h \in history} = 1 .. flow.version
    /\ Version(flow.version, flow.content) \in history

(* What makes it inductive: an edit past its INSERT holds the row and its  *)
(* version is the next one.                                                *)
StoreInv ==
    /\ StoreTypeOK
    /\ HistoryIsLinear
    /\ \A e \in Editors :
          /\ edit[e].pc \in {"insert", "commit"} <=> holder = e
          /\ Editing(e) => edit[e].read \in 1 .. flow.version
          /\ edit[e].pc = "commit" => edit[e].read = flow.version
=============================================================================
