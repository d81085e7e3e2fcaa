----------------------------- MODULE FlowProofs -----------------------------
(* Proofs about the flow store, alone and under the engine, and about the  *)
(* engine, for any set of edits, definitions, messages and resume requests. *)
EXTENDS Flow, FiniteSetTheorems, TLAPS

(* Only the last number of an interval has its successor outside.          *)
LEMMA LastOfInterval ==
    ASSUME NEW n \in Nat, NEW r \in 1 .. n, r + 1 \notin 1 .. n PROVE r = n
  OBVIOUS

(* CreateFlow leaves a linear history.                                     *)
LEMMA StoreInit_Inv == StoreInit => StoreInv
  <1> SUFFICES ASSUME StoreInit PROVE StoreInv
    OBVIOUS
  <1>1. StoreTypeOK
    BY FirstContentAssumption DEF StoreInit, StoreTypeOK, Version
  <1>2. HistoryIsLinear
    BY DEF StoreInit, HistoryIsLinear, Version
  <1>3. \A e \in Editors : edit[e].pc = "idle" /\ holder /= e
    BY NobodyAssumption DEF StoreInit
  <1> QED
    BY <1>1, <1>2, <1>3 DEF StoreInv, Editing

(* An edit that ends early, with the row and the history as they were,     *)
(* leaves the invariant: the rollback of UpdateFlow.                       *)
LEMMA Rollback_Inv ==
    ASSUME StoreInv, NEW e \in Editors, Editing(e), EndEdit(e),
           UNCHANGED <<flow, history>>
    PROVE  StoreInv'
  <1>1. /\ edit' = [edit EXCEPT ![e].pc = "done"]
        /\ holder' = IF holder = e THEN Nobody ELSE holder
    BY DEF EndEdit
  <1>2. StoreTypeOK'
    BY <1>1 DEF StoreInv, StoreTypeOK
  <1>3. HistoryIsLinear'
    BY DEF StoreInv, HistoryIsLinear, Version
  <1>4. ASSUME NEW d \in Editors
        PROVE  /\ (edit[d].pc \in {"insert", "commit"} <=> holder = d)'
               /\ (Editing(d) => edit[d].read \in 1 .. flow.version)'
               /\ (edit[d].pc = "commit" => edit[d].read = flow.version)'
    <2>1. CASE d = e
      <3>1. edit'[d].pc = "done" /\ holder' /= d
        BY <1>1, <2>1, NobodyAssumption DEF StoreInv, StoreTypeOK
      <3> QED
        BY <3>1 DEF Editing
    <2>2. CASE d /= e
      <3>1. edit'[d] = edit[d] /\ (holder' = d <=> holder = d)
        BY <1>1, <2>2, NobodyAssumption DEF StoreInv, StoreTypeOK
      <3> QED
        BY <3>1 DEF StoreInv, Editing
    <2> QED
      BY <2>1, <2>2
  <1> QED
    BY <1>2, <1>3, <1>4 DEF StoreInv

(* No statement of an edit, and no switch, breaks the invariant.           *)
LEMMA StoreNext_Inv == StoreInv /\ [StoreNext]_storeVars => StoreInv'
  <1> SUFFICES ASSUME StoreInv, [StoreNext]_storeVars PROVE StoreInv'
    OBVIOUS
  <1> USE NobodyAssumption, BodyAssumption DEF StoreInv, StoreTypeOK, Editing
  <1>1. ASSUME NEW e \in Editors, ReadVersion(e) PROVE StoreInv'
    BY <1>1 DEF ReadVersion, HistoryIsLinear, Version
  <1>2. ASSUME NEW e \in Editors, UpdateRow(e) PROVE StoreInv'
    BY <1>2 DEF UpdateRow, HistoryIsLinear, Version
  <1>3. ASSUME NEW e \in Editors, InsertVersion(e) PROVE StoreInv'
    <2>1. CASE Taken(edit[e].read + 1)
      <3>1. Editing(e) /\ EndEdit(e) /\ UNCHANGED <<flow, history>>
        BY <1>3, <2>1 DEF InsertVersion
      <3> QED
        BY <3>1, Rollback_Inv
    <2>2. CASE ~Taken(edit[e].read + 1)
      <3>1. edit[e].read = flow.version
        <4>1. edit[e].read \in 1 .. flow.version
          BY <1>3 DEF InsertVersion
        <4>2. edit[e].read + 1 \notin {h.version : h \in history}
          BY <2>2 DEF Taken
        <4>3. edit[e].read + 1 \notin 1 .. flow.version
          BY <4>2 DEF HistoryIsLinear
        <4>4. flow.version \in Nat
          OBVIOUS
        <4> QED
          BY <4>1, <4>3, <4>4, LastOfInterval
      <3>2. /\ edit' = [edit EXCEPT ![e].pc = "commit"]
            /\ UNCHANGED <<flow, history, holder>>
        BY <1>3, <2>2 DEF InsertVersion
      <3> QED
        BY <1>3, <3>1, <3>2 DEF InsertVersion, HistoryIsLinear, Version
    <2> QED
      BY <2>1, <2>2
  <1>4. ASSUME NEW e \in Editors, CommitEdit(e) PROVE StoreInv'
    <2> DEFINE v == flow.version + 1
               new == Version(v, Body[e].content)
    <2>1. /\ edit[e].pc = "commit" /\ holder = e /\ edit[e].read = flow.version
          /\ history' = history \cup {new}
          /\ flow' = [version |-> v, content |-> Body[e].content,
                      enabled |-> Body[e].enabled]
          /\ edit' = [edit EXCEPT ![e].pc = "done"]
          /\ holder' = Nobody
      BY <1>4 DEF CommitEdit, EndEdit
    <2>2. StoreTypeOK'
      BY <2>1 DEF Version
    <2>3. HistoryIsLinear'
      <3>1. v \notin {h.version : h \in history}
        BY DEF HistoryIsLinear
      <3>2. \A h, k \in history' : h.version = k.version => h = k
        BY <2>1, <3>1 DEF HistoryIsLinear, Version
      <3>3. {h.version : h \in history'} = 1 .. v
        <4>1. {h.version : h \in history} = 1 .. flow.version
          BY DEF HistoryIsLinear
        <4>2. new.version = v /\ history' = history \cup {new}
          BY <2>1 DEF Version
        <4>3. ASSUME NEW x PROVE x \in {h.version : h \in history'} <=>
                                 x \in {h.version : h \in history} \/ x = v
          BY <4>2
        <4>4. ASSUME NEW x PROVE x \in 1 .. v <=> x \in 1 .. flow.version \/ x = v
          OBVIOUS
        <4> QED
          BY <4>1, <4>3, <4>4
      <3> QED
        BY <2>1, <3>2, <3>3 DEF HistoryIsLinear, Version
    <2>4. ASSUME NEW d \in Editors
          PROVE  /\ (edit[d].pc \in {"insert", "commit"} <=> holder = d)'
                 /\ (Editing(d) => edit[d].read \in 1 .. flow.version)'
                 /\ (edit[d].pc = "commit" => edit[d].read = flow.version)'
      BY <2>1, <2>4
    <2> QED
      BY <2>2, <2>3, <2>4
  <1>5. ASSUME NEW e \in Editors, FailEdit(e) PROVE StoreInv'
    <2>1. Editing(e) /\ EndEdit(e) /\ UNCHANGED <<flow, history>>
      BY <1>5 DEF FailEdit
    <2> QED
      BY <2>1, Rollback_Inv
  <1>6. ASSUME NEW b \in BOOLEAN, SetEnabled(b) PROVE StoreInv'
    BY <1>6 DEF SetEnabled, HistoryIsLinear, Version
  <1>7. ASSUME UNCHANGED storeVars PROVE StoreInv'
    BY <1>7 DEF storeVars, HistoryIsLinear, Version
  <1> QED
    BY <1>1, <1>2, <1>3, <1>4, <1>5, <1>6, <1>7 DEF StoreNext, EditStep

(* Every state of the store satisfies the inductive invariant, its types   *)
(* included: UpdateFlow and BulkUpdateFlowsEnabled in sql_repository.go.   *)
THEOREM StoreInvHolds == StoreSpec => []StoreInv
  BY StoreInit_Inv, StoreNext_Inv, PTL DEF StoreSpec

(* Concurrent edits never fork the history of a flow or leave a gap in it: *)
(* of two UpdateFlow calls that read one version, one fails on UNIQUE.     *)
THEOREM LinearHistory == StoreSpec => []HistoryIsLinear
  <1>1. StoreInv => HistoryIsLinear
    BY DEF StoreInv
  <1> QED
    BY <1>1, StoreInvHolds, PTL

(* Consumers, walks, resumes and crashes leave the store alone: what holds *)
(* of it by itself holds under the engine (cmd/flow-runner, flow-service). *)
THEOREM StoreUndisturbed == FlowSpec => StoreSpec
  <1>1. FlowInit => StoreInit
    BY DEF FlowInit
  <1>2. [FlowNext]_engineVars => [StoreNext]_storeVars
    BY DEF FlowNext, engineVars
  <1> QED
    BY <1>1, <1>2, PTL DEF FlowSpec, StoreSpec

(* So the version an execution or a resume works with is always one of a   *)
(* linear history, whatever the engine does.                               *)
THEOREM LinearHistoryUnderEngine == FlowSpec => []HistoryIsLinear
  BY StoreUndisturbed, LinearHistory, PTL

-----------------------------------------------------------------------------
(* The list of nodes to visit.  First, a set of numbers has a least one.   *)
LEMMA Least ==
    ASSUME NEW T \in SUBSET Nat, T # {}
    PROVE  \E x \in T : \A y \in T : x <= y
  <1>1. PICK R : /\ IsWellFoundedOn(R, Nat)
                 /\ \A x, y \in Nat : <<y, x>> \in R <=> y < x
    <2>1. \A x, y \in Nat : <<y, x>> \in OpToRel(<, Nat) <=> y < x
      BY DEF OpToRel
    <2>2. QED
      BY <2>1, NatLessThanWellFounded, Zenon
  <1>2. PICK x \in T : \A y \in T : ~ (<<y, x>> \in R)
    BY <1>1, WFMin
  <1>3. \A y \in T : ~(y < x) /\ y \in Nat /\ x \in Nat
    BY <1>1, <1>2, Zenon
  <1>4. QED
    BY <1>3

(* So the k-th number of a finite set is there: a least k without one has  *)
(* the number after the one before it.                                     *)
LEMMA NthExists ==
    ASSUME NEW I \in SUBSET Nat, IsFiniteSet(I), NEW k \in 1 .. Cardinality(I)
    PROVE  \E i \in I : Cardinality({j \in I : j < i}) = k - 1
  <1> DEFINE Has(n) == \E i \in I : Cardinality({j \in I : j < i}) = n - 1
             Bad == {n \in 1 .. Cardinality(I) : ~Has(n)}
  <1>0. Cardinality(I) \in Nat
    BY FS_CardinalityType
  <1>a. \A i \in I : i \in Nat
    OBVIOUS
  <1>1. SUFFICES ASSUME Bad # {} PROVE FALSE
    OBVIOUS
  <1>b. Bad \in SUBSET Nat
    BY <1>0
  <1>2. PICK n \in Bad : \A m \in Bad : n <= m
    <2> HIDE DEF Bad
    <2> QED BY <1>b, <1>1, Least
  <1>3. n \in 1 .. Cardinality(I) /\ ~Has(n)
    OBVIOUS
  <1>4. CASE n = 1
    <2>1. I # {}
      BY <1>0, <1>3, FS_EmptySet
    <2>2. PICK i \in I : \A j \in I : i <= j
      BY <2>1, Least
    <2>3. \A j \in I : ~(j < i)
      BY <1>a, <2>2
    <2>4. Cardinality({j \in I : j < i}) = 0
      BY <2>3, FS_EmptySet
    <2>5. QED
      BY <1>3, <1>4, <2>4
  <1>5. CASE n > 1
    <2>1. n - 1 \in 1 .. Cardinality(I) /\ n - 1 \notin Bad
      BY <1>0, <1>2, <1>3, <1>5
    <2>2. PICK h \in I : Cardinality({j \in I : j < h}) = (n - 1) - 1
      BY <2>1
    <2> DEFINE Smaller == {j \in I : j < h}
    <2> DEFINE Larger == {j \in I : j > h}
    <2>3. IsFiniteSet(Smaller) /\ h \notin Smaller
      BY <1>a, FS_Subset
    <2>4. Cardinality(Smaller \cup {h}) = n - 1
      <3>1. Cardinality(Smaller \cup {h}) = Cardinality(Smaller) + 1
        <4> HIDE DEF Smaller
        <4> QED BY <2>3, FS_AddElement
      <3>2. QED
        BY <1>0, <1>3, <2>2, <3>1
    <2>5. Larger # {}
      <3>1. SUFFICES ASSUME Larger = {} PROVE FALSE
        OBVIOUS
      <3>2. \A j \in I : j \in Smaller \cup {h}
        BY <1>a, <3>1
      <3>3. Smaller \cup {h} = I
        BY <3>2
      <3>4. Cardinality(I) = n - 1
        <4> HIDE DEF Smaller
        <4> QED BY <2>4, <3>3
      <3>5. QED
        BY <1>0, <1>3, <3>4
    <2>6. PICK i \in Larger : \A j \in Larger : i <= j
      <3>1. Larger \in SUBSET Nat
        BY <1>a
      <3> HIDE DEF Larger
      <3>2. QED
        BY <2>5, <3>1, Least
    <2>7. ASSUME NEW j \in I PROVE j < i <=> j \in Smaller \cup {h}
      BY <1>a, <2>6
    <2>8. {j \in I : j < i} = Smaller \cup {h}
      <3>1. Smaller \cup {h} \subseteq I
        OBVIOUS
      <3> HIDE DEF Smaller
      <3>2. QED
        BY <2>7, <3>1
    <2>9. QED
      BY <1>3, <2>4, <2>6, <2>8
  <1>6. QED
    BY <1>0, <1>3, <1>4, <1>5

(* Every node on the list is the target of an edge from n, and one the     *)
(* definition has.                                                         *)
LEMMA TargetsAreBelow ==
    ASSUME NEW c \in Contents, NEW n, NEW handles,
           NEW k \in DOMAIN Targets(c, n, handles)
    PROVE  \E e \in EdgeSet(c) :
              /\ e.source = n /\ e.target \in Nodes /\ HasNode(c, e.target)
              /\ Targets(c, n, handles)[k] = Visit(e.target)
  <1> DEFINE out == Outgoing(c, n, handles)
  <1>1. c.edges \in Seq(Edges) /\ DOMAIN c.edges = 1 .. Len(c.edges)
        /\ Len(c.edges) \in Nat
    BY ContentsAssumption
  <1>2. out \in SUBSET Nat /\ IsFiniteSet(out)
    <2>1. out \in SUBSET (1 .. Len(c.edges))
      BY <1>1 DEF Outgoing
    <2>2. IsFiniteSet(1 .. Len(c.edges))
      BY <1>1, FS_Interval
    <2> HIDE DEF out
    <2>3. IsFiniteSet(out)
      BY <2>1, <2>2, FS_Subset
    <2>4. QED
      BY <1>1, <2>1, <2>3
  <1>3. /\ k \in 1 .. Cardinality(out)
        /\ Targets(c, n, handles)[k] = Visit(c.edges[Nth(out, k)].target)
    BY DEF Targets
  <1>4. Nth(out, k) \in out
    <2> HIDE DEF out
    <2>1. \E i \in out : Cardinality({j \in out : j < i}) = k - 1
      BY <1>2, <1>3, NthExists
    <2>2. QED
      BY <2>1 DEF Nth
  <1>5. PICK i \in DOMAIN c.edges :
              /\ c.edges[i].source = n /\ HasNode(c, c.edges[i].target)
              /\ Targets(c, n, handles)[k] = Visit(c.edges[i].target)
    BY <1>3, <1>4 DEF Outgoing
  <1>6. c.edges[i] \in EdgeSet(c) /\ c.edges[i] \in Edges
    BY <1>1 DEF EdgeSet
  <1>7. c.edges[i].target \in Nodes
    BY <1>6 DEF Edges
  <1>8. QED
    BY <1>5, <1>6, <1>7

LEMMA TargetsType ==
    ASSUME NEW c \in Contents, NEW n, NEW handles
    PROVE  Targets(c, n, handles) \in Seq(Tasks)
  <1> DEFINE out == Outgoing(c, n, handles)
  <1>1. c.edges \in Seq(Edges) /\ DOMAIN c.edges = 1 .. Len(c.edges)
        /\ Len(c.edges) \in Nat
    BY ContentsAssumption
  <1>2. IsFiniteSet(out)
    <2>1. out \in SUBSET (1 .. Len(c.edges))
      BY <1>1 DEF Outgoing
    <2>2. IsFiniteSet(1 .. Len(c.edges))
      BY <1>1, FS_Interval
    <2> HIDE DEF out
    <2>3. QED
      BY <2>1, <2>2, FS_Subset
  <1>3. Cardinality(out) \in Nat
    BY <1>2, FS_CardinalityType
  <1>4. ASSUME NEW k \in 1 .. Cardinality(out)
        PROVE  Targets(c, n, handles)[k] \in Tasks
    <2>1. k \in DOMAIN Targets(c, n, handles)
      BY DEF Targets
    <2>2. PICK e \in EdgeSet(c) :
            e.target \in Nodes /\ Targets(c, n, handles)[k] = Visit(e.target)
      BY <2>1, TargetsAreBelow
    <2>3. QED
      BY <2>2 DEF Visit, Tasks
  <1>5. Targets(c, n, handles) = [k \in 1 .. Cardinality(out) |->
                                     Targets(c, n, handles)[k]]
    BY DEF Targets
  <1> HIDE DEF out
  <1>6. QED
    BY <1>3, <1>4, <1>5

(* Reaching freely goes on along every edge of a node that is no approval. *)
LEMMA FreelyOnward ==
    ASSUME NEW c, NEW S, NEW n, FreelyReached(c, S, n), HasNode(c, n),
           c.type[n] /= "approval", NEW e \in EdgeSet(c), e.source = n
    PROVE  FreelyReached(c, S, e.target)
  BY DEF FreelyReached

LEMMA FreelyFirst ==
    ASSUME NEW c, NEW S, NEW n \in S PROVE FreelyReached(c, S, n)
  BY DEF FreelyReached

-----------------------------------------------------------------------------
(* What the store keeps for the engine: versions stay as they are. *)
LEMMA VersionIsUnique ==
    ASSUME StoreInv, NEW h \in history
    PROVE  (CHOOSE k \in history : k.version = h.version) = h
  BY DEF StoreInv, HistoryIsLinear

LEMMA HistoryGrows ==
    ASSUME [StoreNext]_storeVars PROVE history \subseteq history'
  BY DEF StoreNext, EditStep, ReadVersion, UpdateRow, InsertVersion, CommitEdit,
         FailEdit, SetEnabled, storeVars

(* Rows that exist keep their version. *)
RowsKept == \A m \in Messages : row[m].status /= "absent" =>
                /\ row'[m].status /= "absent"
                /\ row'[m].version = row[m].version

Grown == /\ history \subseteq history'
         /\ \A m \in Messages : admitted[m] \subseteq admitted'[m]

(* The definition an execution started with is never another. *)
LEMMA StartedKept ==
    ASSUME FlowInv, StoreInv, StoreInv', Grown, RowsKept,
           NEW m \in Messages, row[m].status /= "absent"
    PROVE  Started(m)' = Started(m)
  <1>1. PICK h \in history : h.version = row[m].version
    BY DEF FlowInv, RowsAreRooted, Taken
  <1>2. (CHOOSE k \in history : k.version = row[m].version) = h
    BY <1>1 DEF StoreInv, HistoryIsLinear
  <1>3. h \in history' /\ row'[m].version = h.version
    BY <1>1 DEF Grown, RowsKept
  <1>4. (CHOOSE k \in history' : k.version = row'[m].version) = h
    BY <1>3 DEF StoreInv, HistoryIsLinear
  <1>5. QED
    BY <1>2, <1>4 DEF Started

LEMMA ApprovedKept ==
    ASSUME FlowInv, StoreInv, StoreInv', Grown, RowsKept,
           NEW m \in Messages, row[m].status /= "absent",
           NEW c, NEW n, Approved(m, c, n)
    PROVE  Approved(m, c, n)'
  <1>1. Started(m)' = Started(m)
    BY StartedKept
  <1>2. CASE c = Started(m) /\ FreelyReached(c, {c.trigger}, n)
    BY <1>1, <1>2 DEF Approved, FreelyReached, EdgeSet, HasNode
  <1>3. CASE \E a \in admitted[m] : a[2] = c /\ FreelyReached(c, Below(c, a[1]), n)
    BY <1>3 DEF Approved, Grown, FreelyReached, EdgeSet, HasNode, Below
  <1>4. QED
    BY <1>2, <1>3 DEF Approved

(* A job nobody touches stays rooted. *)
LEMMA OtherJobs ==
    ASSUME FlowInv, StoreInv, StoreInv', Grown, RowsKept,
           NEW w \in Workers, job'[w] = job[w]
    PROVE  JobIsRooted(w)'
  <1>1. JobIsRooted(w)
    BY DEF FlowInv
  <1>2. job[w].pc = "create" =>
           Version(job[w].memory.version, job[w].content) \in history'
    BY <1>1 DEF JobIsRooted, Grown
  <1>3. ASSUME job[w].pc \in {"decide", "begin", "run"}
        PROVE  /\ job[w].exec \in Messages
               /\ row[job[w].exec].status /= "absent"
               /\ row'[job[w].exec].status /= "absent"
               /\ job[w].memory.status /= "absent"
               /\ job[w].memory.version = row'[job[w].exec].version
    BY <1>1, <1>3 DEF JobIsRooted, RowsKept
  <1>4. ASSUME job[w].pc = "run", NEW i \in DOMAIN job[w].todo,
               job[w].todo[i].op = "visit"
        PROVE  /\ HasNode(job[w].content, job[w].todo[i].node)
               /\ Approved(job[w].exec, job[w].content, job[w].todo[i].node)'
    <2>1. PICK m, c, n :
             /\ m \in Messages /\ m = job[w].exec /\ c = job[w].content /\ n = job[w].todo[i].node
             /\ row[m].status /= "absent" /\ HasNode(c, n) /\ Approved(m, c, n)
      BY <1>1, <1>3, <1>4 DEF JobIsRooted
    <2>2. Approved(m, c, n)'
      BY <2>1, ApprovedKept
    <2>3. /\ m = job'[w].exec /\ c = job'[w].content /\ n = job'[w].todo[i].node
      BY <2>1
    <2>4. QED
      BY <2>1, <2>2, <2>3 DEF Approved
  <1>5. QED
    BY <1>2, <1>3, <1>4 DEF JobIsRooted, Version, HasNode

(* What has run stays justified, and what runs now has to be. *)
LEMMA RanKept ==
    ASSUME FlowInv, StoreInv, StoreInv', Grown, RowsKept,
           \A m \in Messages : \A n \in ran'[m] :
              n \in ran[m] \/ \E c : Approved(m, c, n)'
    PROVE  NothingPassesUnapproved'
  <1>1. ASSUME NEW m \in Messages, NEW n, NEW c, Approved(m, c, n)'
        PROVE  \/ FreelyReached(Started(m), {Started(m).trigger}, n)'
               \/ \E a \in admitted'[m] : FreelyReached(a[2], Below(a[2], a[1]), n)
    BY <1>1 DEF Approved
  <1>2. ASSUME NEW m \in Messages, NEW n \in ran[m]
        PROVE  \E c : Approved(m, c, n)'
    <2>1. row[m].status /= "absent"
      BY DEF FlowInv, RowsAreRooted
    <2>2. \E c : Approved(m, c, n)
      BY DEF FlowInv, NothingPassesUnapproved, Approved
    <2>3. QED
      BY <2>1, <2>2, ApprovedKept
  <1>3. \A m \in Messages : \A n \in ran'[m] : \E c : Approved(m, c, n)'
    BY <1>2
  <1>4. QED
    BY <1>1, <1>3 DEF NothingPassesUnapproved

(* One job changes, the others stay. *)
LEMMA OneJob ==
    ASSUME FlowInv, StoreInv, StoreInv', Grown, RowsKept,
           NEW w \in Workers, NEW j \in Jobs, job' = [job EXCEPT ![w] = j],
           JobIsRooted(w)'
    PROVE  /\ job' \in [Workers -> Jobs]
           /\ \A v \in Workers : JobIsRooted(v)'
  <1>1. job' \in [Workers -> Jobs] /\ \A v \in Workers \ {w} : job'[v] = job[v]
    BY DEF FlowInv, FlowTypeOK
  <1>2. QED
    BY <1>1, OtherJobs

(* A job that ends does nothing more. *)
LEMMA EndedJob ==
    ASSUME FlowInv, NEW w \in Workers,
           NEW r \in {"ok", "refused", "rejected", "error", "lost"}, Return(w, r)
    PROVE  \E j \in Jobs : /\ job' = [job EXCEPT ![w] = j]
                           /\ job'[w] = j /\ j.pc = "done" /\ j.exec = job[w].exec
                           /\ JobIsRooted(w)'
  <1> DEFINE j == [pc |-> "done", exec |-> job[w].exec, memory |-> NoRow,
                   content |-> FirstContent, todo |-> <<>>, result |-> r]
  <1>1. job \in [Workers -> Jobs]
    BY DEF FlowInv, FlowTypeOK
  <1>2. NoRow \in Rows
    BY DEF NoRow, Rows
  <1>3. j \in Jobs
    BY <1>1, <1>2, FirstContentAssumption DEF Jobs
  <1>4. job' = [job EXCEPT ![w] = j] /\ job'[w] = j
    <2>1. [Idle(job[w].exec) EXCEPT !.pc = "done", !.result = r] = j
      <3>1. [Idle(job[w].exec) EXCEPT !.pc = "done"] =
               [pc |-> "done", exec |-> job[w].exec, memory |-> NoRow,
                content |-> FirstContent, todo |-> <<>>, result |-> "none"]
        BY DEF Idle
      <3>2. [[Idle(job[w].exec) EXCEPT !.pc = "done"] EXCEPT !.result = r] = j
        <4>1. [[pc |-> "done", exec |-> job[w].exec, memory |-> NoRow,
                content |-> FirstContent, todo |-> <<>>, result |-> "none"]
                  EXCEPT !.result = r] = j
          OBVIOUS
        <4>2. QED
          BY <3>1, <4>1
      <3>3. QED
        BY <3>2
    <2>2. job' = [job EXCEPT ![w] =
                    [Idle(job[w].exec) EXCEPT !.pc = "done", !.result = r]]
      BY DEF Return
    <2> HIDE DEF j
    <2>3. QED
      BY <1>1, <2>1, <2>2
  <1>5. JobIsRooted(w)'
    BY <1>4 DEF JobIsRooted
  <1>6. QED
    BY <1>3, <1>4, <1>5

(* A job under way stores its copy of the row: the row keeps its version. *)
LEMMA StoredRow ==
    ASSUME FlowInv, NEW w \in Workers, job[w].pc \in {"decide", "begin", "run"},
           NEW r \in Rows, r.status /= "absent",
           r.version = job[w].memory.version,
           row' = [row EXCEPT ![job[w].exec] = r]
    PROVE  /\ row' \in [Messages -> Rows]
           /\ RowsKept
           /\ \A m \in Messages :
                 /\ row'[m].status = "absent" <=> row[m].status = "absent"
                 /\ row'[m].version = row[m].version
           /\ row'[job[w].exec] = r
  BY DEF FlowInv, FlowTypeOK, JobIsRooted, RowsKept

(* Nothing happens to the executions: they stay rooted when no row comes   *)
(* into being and no job goes back to its beginning.                       *)
LEMMA RootsKept ==
    ASSUME FlowInv, Grown,
           UNCHANGED message,
           \A m \in Messages :
              /\ row'[m].status = "absent" <=> row[m].status = "absent"
              /\ row'[m].version = row[m].version
              /\ row[m].status = "absent" => ran'[m] = ran[m]
              /\ \/ job'[m] = job[m]
                 \/ job[m].pc /= "idle" /\ job'[m].exec = job[m].exec
                    /\ job'[m].pc \notin {"idle", "create"}
    PROVE  RowsAreRooted'
  BY DEF FlowInv, RowsAreRooted, Grown, Taken

(* The first event the consumer takes off the stream. *)
LEMMA ReadMessage_Inv ==
    ASSUME FlowInv, StoreInv, StoreInv', UNCHANGED storeVars,
           NEW m \in Messages, ReadMessage(m)
    PROVE  FlowInv'
  <1>1. Grown /\ RowsKept
    BY DEF ReadMessage, Grown, RowsKept, storeVars
  <1>2. FlowTypeOK'
    BY DEF FlowInv, FlowTypeOK, ReadMessage
  <1>3. RowsAreRooted'
    BY DEF FlowInv, FlowTypeOK, ReadMessage, RowsAreRooted, Taken, storeVars
  <1>4. \A w \in Workers : JobIsRooted(w)'
    BY <1>1, OtherJobs DEF ReadMessage
  <1>5. NothingPassesUnapproved'
    BY <1>1, RanKept DEF ReadMessage
  <1>6. QED
    BY <1>2, <1>3, <1>4, <1>5 DEF FlowInv

LEMMA ProcessMessage_Inv ==
    ASSUME FlowInv, StoreInv, StoreInv', UNCHANGED storeVars,
           NEW m \in Messages, ProcessMessage(m)
    PROVE  FlowInv'
  <1>0. /\ job \in [Workers -> Jobs] /\ m \in Workers /\ job[m] \in Jobs
        /\ message \in [Messages -> {"waiting", "read", "acked"}]
        /\ message' = [message EXCEPT ![m] = "acked"]
        /\ UNCHANGED <<row, ran, admitted, crashes>>
        /\ job[m].pc = "idle"
    BY DEF FlowInv, FlowTypeOK, Workers, ProcessMessage, RowsAreRooted
  <1>1. Grown /\ RowsKept
    BY <1>0 DEF Grown, RowsKept, storeVars
  <1>2. NothingPassesUnapproved'
    BY <1>0, <1>1, RanKept
  <1>3. CASE UNCHANGED job
    <2>1. \A w \in Workers : JobIsRooted(w)'
      BY <1>1, <1>3, OtherJobs
    <2>2. FlowTypeOK'
      BY <1>0, <1>3 DEF FlowInv, FlowTypeOK
    <2>3. RowsAreRooted'
      BY <1>0, <1>3 DEF FlowInv, RowsAreRooted, Taken, storeVars
    <2>4. QED
      BY <1>2, <2>1, <2>2, <2>3 DEF FlowInv
  <1>4. CASE job' = [job EXCEPT ![m].pc = "create", ![m].content = flow.content,
                                ![m].memory.version = flow.version]
    <2> DEFINE memory == [job[m].memory EXCEPT !.version = flow.version]
               j == [job[m] EXCEPT !.pc = "create", !.content = flow.content,
                                   !.memory = memory]
    <2>1. flow.content \in Contents /\ flow.version \in Nat
          /\ Version(flow.version, flow.content) \in history
      BY DEF StoreInv, StoreTypeOK, HistoryIsLinear
    <2>2. memory \in Rows /\ memory.version = flow.version
      BY <1>0, <2>1 DEF Jobs, Rows
    <2>3. /\ j \in Jobs /\ j.pc = "create" /\ j.content = flow.content
          /\ j.memory = memory /\ j.exec = job[m].exec
      <3> HIDE DEF memory
      <3> QED
        BY <1>0, <2>1, <2>2 DEF Jobs
    <2>4. job' = [job EXCEPT ![m] = j] /\ job'[m] = j
      BY <1>0, <1>4 DEF Jobs, Rows
    <2> HIDE DEF j, memory
    <2>5. JobIsRooted(m)'
      BY <2>1, <2>2, <2>3, <2>4 DEF JobIsRooted, Version, storeVars
    <2>6. job' \in [Workers -> Jobs] /\ \A v \in Workers : JobIsRooted(v)'
      BY <1>0, <1>1, <2>3, <2>4, <2>5, OneJob
    <2>7. FlowTypeOK'
      BY <1>0, <2>6 DEF FlowInv, FlowTypeOK
    <2>8. RowsAreRooted'
      BY <1>0, <2>3, <2>4 DEF FlowInv, RowsAreRooted, Taken, storeVars, Workers
    <2>9. QED
      BY <1>2, <2>6, <2>7, <2>8 DEF FlowInv
  <1>5. QED
    BY <1>3, <1>4 DEF ProcessMessage

LEMMA CreateExecution_Inv ==
    ASSUME FlowInv, StoreInv, StoreInv', UNCHANGED storeVars,
           NEW m \in Messages, CreateExecution(m)
    PROVE  FlowInv'
  <1>0. /\ job \in [Workers -> Jobs] /\ m \in Workers /\ job[m] \in Jobs
        /\ row \in [Messages -> Rows]
        /\ job[m].pc = "create" /\ job[m].exec = m /\ row[m].status = "absent"
        /\ UNCHANGED <<message, ran, admitted, crashes>>
        /\ message[m] = "acked"
        /\ Version(job[m].memory.version, job[m].content) \in history
    BY DEF FlowInv, FlowTypeOK, Workers, CreateExecution, RowsAreRooted,
           JobIsRooted
  <1>1. PICK c \in Contents, new \in Rows :
             /\ c = job[m].content
             /\ new = [job[m].memory EXCEPT !.status = "running"]
             /\ new.status = "running" /\ new.version = job[m].memory.version
    <2>1. job[m].content \in Contents /\ job[m].memory \in Rows
      BY <1>0 DEF Jobs
    <2>2. [job[m].memory EXCEPT !.status = "running"] \in Rows
      BY <2>1 DEF Rows
    <2>3. QED
      BY <2>1, <2>2 DEF Rows
  <1>2. /\ c.trigger \in Nodes /\ HasNode(c, c.trigger)
        /\ Visit(c.trigger) \in Tasks /\ <<Visit(c.trigger)>> \in Seq(Tasks)
    BY <1>0, ContentsAssumption DEF HasNode, Visit, Tasks
  <1>3. /\ row' = [row EXCEPT ![m] = new]
        /\ job' = [job EXCEPT ![m].pc = "run", ![m].memory = new,
                              ![m].todo = <<Visit(c.trigger)>>]
    BY <1>0, <1>1 DEF CreateExecution, UpdateExecution
  <1>4. PICK j \in Jobs :
             /\ job' = [job EXCEPT ![m] = j] /\ job'[m] = j
             /\ j.pc = "run" /\ j.exec = m /\ j.content = c
             /\ j.memory = new /\ j.todo = <<Visit(c.trigger)>>
    <2> DEFINE k == [job[m] EXCEPT !.pc = "run", !.memory = new,
                                   !.todo = <<Visit(c.trigger)>>]
    <2>1. /\ k \in Jobs /\ k.pc = "run" /\ k.exec = m /\ k.content = c
          /\ k.memory = new /\ k.todo = <<Visit(c.trigger)>>
      BY <1>0, <1>1, <1>2 DEF Jobs
    <2>2. job' = [job EXCEPT ![m] = k] /\ job'[m] = k
      BY <1>0, <1>3 DEF Jobs
    <2>3. QED
      BY <2>1, <2>2
  <1>5. Grown /\ RowsKept
    BY <1>0, <1>3 DEF Grown, RowsKept, storeVars
  <1>6. row'[m] = new /\ \A k \in Messages \ {m} : row'[k] = row[k]
    BY <1>0, <1>3
  <1>7. Version(new.version, c) \in history'
    BY <1>0, <1>1 DEF storeVars
  <1>8. Started(m)' = c
    <2>1. PICK v \in history' : v.version = new.version /\ v.content = c
      BY <1>7 DEF Version
    <2>2. (CHOOSE h \in history' : h.version = row'[m].version) = v
      BY <1>6, <2>1 DEF StoreInv, HistoryIsLinear
    <2>3. QED
      BY <2>1, <2>2 DEF Started
  <1>9. Approved(m, c, c.trigger)'
    <2>1. FreelyReached(c, {c.trigger}, c.trigger)
      BY FreelyFirst
    <2>2. QED
      BY <1>8, <2>1 DEF Approved
  <1>10. JobIsRooted(m)'
    <2>1. \A i \in DOMAIN j.todo : j.todo[i].node = c.trigger
      BY <1>4 DEF Visit
    <2>2. /\ job'[m].pc = "run" /\ job'[m].exec = m /\ job'[m].content = c
          /\ job'[m].memory = new /\ job'[m].todo = j.todo
      BY <1>4
    <2>3. QED
      BY <1>1, <1>2, <1>6, <1>9, <2>1, <2>2 DEF JobIsRooted
  <1>11. job' \in [Workers -> Jobs] /\ \A v \in Workers : JobIsRooted(v)'
    BY <1>0, <1>4, <1>5, <1>10, OneJob
  <1>12. FlowTypeOK'
    BY <1>0, <1>1, <1>3, <1>11 DEF FlowInv, FlowTypeOK
  <1>13. RowsAreRooted'
    <2>1. \E h \in history' : h.version = new.version
      BY <1>7 DEF Version
    <2>2. ASSUME NEW k \in Messages \ {m}
          PROVE  job'[k] = job[k] /\ row'[k] = row[k]
      BY <1>0, <1>4, <1>6 DEF Workers
    <2>3. job'[m].exec = m /\ job'[m].pc = "run" /\ row'[m].status = "running"
          /\ row'[m].version = new.version
      BY <1>1, <1>4, <1>6
    <2>4. history' = history /\ message' = message /\ ran' = ran
      BY <1>0 DEF storeVars
    <2>5. QED
      BY <1>0, <2>1, <2>2, <2>3, <2>4 DEF FlowInv, RowsAreRooted, Taken
  <1>14. NothingPassesUnapproved'
    BY <1>0, <1>5, RanKept
  <1>15. QED
    BY <1>11, <1>12, <1>13, <1>14 DEF FlowInv

(* What a list has after its first element, or after two are joined. *)
LEMMA TailElements ==
    ASSUME NEW S, NEW s \in Seq(S), s /= <<>>
    PROVE  /\ Head(s) \in S /\ Head(s) = s[1] /\ 1 \in DOMAIN s
           /\ Tail(s) \in Seq(S)
           /\ \A i \in DOMAIN Tail(s) : \E k \in DOMAIN s : Tail(s)[i] = s[k]
  <1>1. /\ Head(s) \in S /\ Head(s) = s[1] /\ 1 \in DOMAIN s
        /\ Tail(s) \in Seq(S)
    OBVIOUS
  <1>2. ASSUME NEW i \in DOMAIN Tail(s)
        PROVE  i + 1 \in DOMAIN s /\ Tail(s)[i] = s[i + 1]
    OBVIOUS
  <1>3. QED
    BY <1>1, <1>2

LEMMA ConcatElements ==
    ASSUME NEW S, NEW s \in Seq(S), NEW t \in Seq(S)
    PROVE  /\ s \o t \in Seq(S)
           /\ \A i \in DOMAIN (s \o t) :
                 \/ \E k \in DOMAIN s : (s \o t)[i] = s[k]
                 \/ \E k \in DOMAIN t : (s \o t)[i] = t[k]
  <1>1. s \o t \in Seq(S)
    OBVIOUS
  <1>2. ASSUME NEW i \in DOMAIN (s \o t)
        PROVE  \/ i \in DOMAIN s /\ (s \o t)[i] = s[i]
               \/ i - Len(s) \in DOMAIN t /\ (s \o t)[i] = t[i - Len(s)]
    OBVIOUS
  <1>3. QED
    BY <1>1, <1>2

(* A walk that follows the edges of an admitted node stays where it may. *)
LEMMA OnwardApproved ==
    ASSUME NEW m, NEW c, NEW n, Approved(m, c, n), HasNode(c, n),
           c.type[n] /= "approval", NEW e \in EdgeSet(c), e.source = n
    PROVE  Approved(m, c, e.target)
  <1>1. CASE c = Started(m) /\ FreelyReached(c, {c.trigger}, n)
    BY <1>1, FreelyOnward DEF Approved
  <1>2. ASSUME NEW a \in admitted[m], a[2] = c,
               FreelyReached(c, Below(c, a[1]), n)
        PROVE  Approved(m, c, e.target)
    <2>1. FreelyReached(c, Below(c, a[1]), e.target)
      BY <1>2, FreelyOnward
    <2>2. QED
      BY <1>2, <2>1 DEF Approved
  <1>3. QED
    BY <1>1, <1>2 DEF Approved

(* Passing a node keeps what a row says of its status and version. *)
LEMMA PassedType ==
    ASSUME NEW memory \in Rows, NEW n \in Nodes, NEW s \in {"completed", "paused"}
    PROVE  /\ Passed(memory, n, s) \in Rows
           /\ Passed(memory, n, s).status = memory.status
           /\ Passed(memory, n, s).version = memory.version
  <1> DEFINE steps == Append(memory.steps, Step(n, s))
  <1>1. steps \in Seq([node : Nodes, status : {"completed", "paused"}])
    BY DEF Rows, Step
  <1> HIDE DEF steps
  <1>2. [memory EXCEPT !.node = n, !.steps = steps]
           = [status |-> memory.status, node |-> n, steps |-> steps,
              version |-> memory.version]
    <2>1. [memory EXCEPT !.node = n]
             = [status |-> memory.status, node |-> n, steps |-> memory.steps,
                version |-> memory.version]
      BY DEF Rows
    <2>2. [[status |-> memory.status, node |-> n, steps |-> memory.steps,
            version |-> memory.version] EXCEPT !.steps = steps]
             = [status |-> memory.status, node |-> n, steps |-> steps,
                version |-> memory.version]
      OBVIOUS
    <2>3. [[memory EXCEPT !.node = n] EXCEPT !.steps = steps]
             = [status |-> memory.status, node |-> n, steps |-> steps,
                version |-> memory.version]
      BY <2>1, <2>2
    <2>4. QED
      BY <2>3
  <1>3. [status |-> memory.status, node |-> n, steps |-> steps,
         version |-> memory.version] \in Rows
    BY <1>1 DEF Rows
  <1>4. QED
    BY <1>2, <1>3 DEF Passed, steps

LEMMA VisitNode_Inv ==
    ASSUME FlowInv, StoreInv, StoreInv', UNCHANGED storeVars,
           NEW w \in Workers, VisitNode(w)
    PROVE  FlowInv'
  <1>0. /\ job \in [Workers -> Jobs] /\ job[w] \in Jobs
        /\ ran \in [Messages -> SUBSET Nodes]
        /\ UNCHANGED <<message, row, admitted, crashes>>
        /\ job[w].pc = "run" /\ job[w].todo /= <<>>
        /\ Head(job[w].todo).op = "visit"
        /\ JobIsRooted(w)
    BY DEF FlowInv, FlowTypeOK, VisitNode, NextIs
  <1>1. PICK m \in Messages, c \in Contents, todo \in Seq(Tasks), memory \in Rows :
             /\ m = job[w].exec /\ c = job[w].content /\ todo = job[w].todo
             /\ memory = job[w].memory /\ memory.status /= "absent"
             /\ memory.version = row[m].version /\ row[m].status /= "absent"
    BY <1>0 DEF Jobs, JobIsRooted
  <1>2. PICK n \in Nodes : n = Head(todo).node
    <2>1. Head(todo) \in Tasks
      BY <1>0, <1>1, TailElements
    <2>2. QED
      BY <2>1 DEF Tasks
  <1>3. HasNode(c, n) /\ Approved(m, c, n) /\ c.type[n] /= "approval"
    <2>1. 1 \in DOMAIN todo /\ todo[1].op = "visit" /\ todo[1].node = n
      BY <1>0, <1>1, <1>2, TailElements
    <2>2. HasNode(c, n) /\ Approved(m, c, n)
      BY <1>0, <1>1, <2>1 DEF JobIsRooted
    <2>3. ~AtApproval(w) /\ NextIs(w, "visit")
      BY DEF VisitNode
    <2>4. QED
      BY <1>1, <1>2, <2>2, <2>3 DEF AtApproval
  <1>4. PICK handles :
             job' = [job EXCEPT
               ![w].memory = Passed(memory, n, "completed"),
               ![w].todo = Targets(c, n, handles) \o <<Save(n)>> \o Tail(todo)]
    BY <1>1, <1>2 DEF VisitNode
  <1>5. PICK rest \in Seq(Tasks) :
             /\ rest = Targets(c, n, handles) \o <<Save(n)>> \o Tail(todo)
             /\ \A i \in DOMAIN rest : rest[i].op = "visit" =>
                   HasNode(c, rest[i].node) /\ Approved(m, c, rest[i].node)
    <2> DEFINE first == Targets(c, n, handles)
               second == first \o <<Save(n)>>
    <2>1. /\ first \in Seq(Tasks)
          /\ \A i \in DOMAIN first :
                HasNode(c, first[i].node) /\ Approved(m, c, first[i].node)
      <3>1. ASSUME NEW i \in DOMAIN first
            PROVE  HasNode(c, first[i].node) /\ Approved(m, c, first[i].node)
        <4>1. PICK e \in EdgeSet(c) : e.source = n /\ HasNode(c, e.target)
                                      /\ first[i] = Visit(e.target)
          BY TargetsAreBelow
        <4>2. Approved(m, c, e.target)
          BY <1>3, <4>1, OnwardApproved
        <4>3. QED
          BY <4>1, <4>2 DEF Visit
      <3>2. QED
        BY <3>1, TargetsType
    <2> HIDE DEF first
    <2>2. /\ <<Save(n)>> \in Seq(Tasks)
          /\ \A k \in DOMAIN <<Save(n)>> : <<Save(n)>>[k].op = "save"
      BY DEF Save, Tasks
    <2>3. /\ second \in Seq(Tasks)
          /\ \A i \in DOMAIN second : second[i].op = "visit" =>
                HasNode(c, second[i].node) /\ Approved(m, c, second[i].node)
      <3>1. /\ second \in Seq(Tasks)
            /\ \A i \in DOMAIN second :
                 \/ \E k \in DOMAIN first : second[i] = first[k]
                 \/ \E k \in DOMAIN <<Save(n)>> : second[i] = <<Save(n)>>[k]
        BY <2>1, <2>2, ConcatElements
      <3>2. QED
        BY <2>1, <2>2, <3>1
    <2>4. /\ Tail(todo) \in Seq(Tasks)
          /\ \A i \in DOMAIN Tail(todo) : Tail(todo)[i].op = "visit" =>
                HasNode(c, Tail(todo)[i].node) /\ Approved(m, c, Tail(todo)[i].node)
      <3>1. \A i \in DOMAIN todo : todo[i].op = "visit" =>
                HasNode(c, todo[i].node) /\ Approved(m, c, todo[i].node)
        BY <1>0, <1>1 DEF JobIsRooted
      <3>2. QED
        BY <1>0, <1>1, <3>1, TailElements
    <2> HIDE DEF second
    <2>5. /\ second \o Tail(todo) \in Seq(Tasks)
          /\ \A i \in DOMAIN (second \o Tail(todo)) :
               \/ \E k \in DOMAIN second : (second \o Tail(todo))[i] = second[k]
               \/ \E k \in DOMAIN Tail(todo) :
                     (second \o Tail(todo))[i] = Tail(todo)[k]
      BY <2>3, <2>4, ConcatElements
    <2>6. \A i \in DOMAIN (second \o Tail(todo)) :
             (second \o Tail(todo))[i].op = "visit" =>
                /\ HasNode(c, (second \o Tail(todo))[i].node)
                /\ Approved(m, c, (second \o Tail(todo))[i].node)
      BY <2>3, <2>4, <2>5
    <2>7. QED
      BY <2>5, <2>6 DEF second, first
  <1>6. PICK new \in Rows : /\ new = Passed(memory, n, "completed")
                            /\ new.status = memory.status
                            /\ new.version = memory.version
    BY PassedType
  <1>7. PICK j \in Jobs :
             /\ job' = [job EXCEPT ![w] = j] /\ job'[w] = j
             /\ j.pc = "run" /\ j.exec = m /\ j.content = c
             /\ j.memory = new /\ j.todo = rest
    <2> DEFINE k == [job[w] EXCEPT !.memory = new, !.todo = rest]
    <2>1. /\ k \in Jobs /\ k.pc = "run" /\ k.exec = m /\ k.content = c
          /\ k.memory = new /\ k.todo = rest
      BY <1>0, <1>1 DEF Jobs
    <2>2. job' = [job EXCEPT ![w].memory = new, ![w].todo = rest]
      BY <1>4, <1>5, <1>6
    <2>3. job' = [job EXCEPT ![w] = k] /\ job'[w] = k
      BY <1>0, <2>2 DEF Jobs
    <2>4. QED
      BY <2>1, <2>3
  <1>8. Grown /\ RowsKept
    BY <1>0 DEF Grown, RowsKept, storeVars
  <1>9. \A x : Approved(m, c, x) => Approved(m, c, x)'
    BY <1>1, <1>8, ApprovedKept
  <1>10. JobIsRooted(w)'
    <2>1. /\ job'[w].pc = "run" /\ job'[w].exec = m /\ job'[w].content = c
          /\ job'[w].memory = new /\ job'[w].todo = rest
      BY <1>7
    <2>2. \A i \in DOMAIN rest : rest[i].op = "visit" =>
             HasNode(c, rest[i].node) /\ Approved(m, c, rest[i].node)'
      BY <1>5, <1>9
    <2>3. row'[m].status /= "absent" /\ new.version = row'[m].version
      BY <1>0, <1>1, <1>6
    <2>4. QED
      BY <1>1, <1>6, <2>1, <2>2, <2>3 DEF JobIsRooted
  <1>11. job' \in [Workers -> Jobs] /\ \A v \in Workers : JobIsRooted(v)'
    BY <1>7, <1>8, <1>10, OneJob
  <1>12. ran' = [ran EXCEPT ![m] = @ \cup {n}]
    BY <1>1, <1>2 DEF VisitNode
  <1>13. FlowTypeOK'
    BY <1>0, <1>11, <1>12 DEF FlowInv, FlowTypeOK
  <1>14. RowsAreRooted'
    <2>1. ASSUME NEW k \in Messages
          PROVE  \/ job'[k] = job[k]
                 \/ job[k].pc /= "idle" /\ job'[k].exec = job[k].exec
                    /\ job'[k].pc \notin {"idle", "create"}
      BY <1>0, <1>1, <1>7 DEF Workers
    <2>2. QED
      BY <1>0, <1>1, <1>8, <1>12, <2>1, RootsKept
  <1>15. NothingPassesUnapproved'
    <2>1. \A k \in Messages : \A x \in ran'[k] : x \in ran[k] \/ (k = m /\ x = n)
      <3>1. ran'[m] = ran[m] \cup {n} /\ \A k \in Messages \ {m} : ran'[k] = ran[k]
        BY <1>0, <1>12
      <3>2. QED
        BY <3>1
    <2>2. Approved(m, c, n)'
      BY <1>3, <1>9
    <2>3. QED
      BY <1>8, <2>1, <2>2, RanKept
  <1>16. QED
    BY <1>11, <1>13, <1>14, <1>15 DEF FlowInv

(* A job ends, having stored its row or left it alone. *)
LEMMA EndingStep ==
    ASSUME FlowInv, StoreInv, StoreInv', UNCHANGED storeVars,
           NEW w \in Workers, w \in Messages => job[w].pc /= "idle",
           NEW r \in {"ok", "refused", "rejected", "error", "lost"}, Return(w, r),
           UNCHANGED <<message, ran, admitted, crashes>>,
           row' \in [Messages -> Rows], RowsKept,
           \A m \in Messages :
              /\ row'[m].status = "absent" <=> row[m].status = "absent"
              /\ row'[m].version = row[m].version
    PROVE  FlowInv'
  <1>1. PICK j \in Jobs : /\ job' = [job EXCEPT ![w] = j]
                          /\ job'[w] = j /\ j.pc = "done" /\ j.exec = job[w].exec
                          /\ JobIsRooted(w)'
    BY EndedJob
  <1>2. Grown
    BY DEF Grown, storeVars
  <1>3. job' \in [Workers -> Jobs] /\ \A v \in Workers : JobIsRooted(v)'
    BY <1>1, <1>2, OneJob
  <1>4. FlowTypeOK'
    BY <1>3 DEF FlowInv, FlowTypeOK
  <1>5. RowsAreRooted'
    <2>1. ASSUME NEW m \in Messages
          PROVE  \/ job'[m] = job[m]
                 \/ job[m].pc /= "idle" /\ job'[m].exec = job[m].exec
                    /\ job'[m].pc \notin {"idle", "create"}
      BY <1>1 DEF Workers, FlowInv, FlowTypeOK
    <2>2. QED
      BY <1>2, <2>1, RootsKept
  <1>6. NothingPassesUnapproved'
    BY <1>2, RanKept
  <1>7. QED
    BY <1>3, <1>4, <1>5, <1>6 DEF FlowInv

(* A job under way ends with a row it stores. *)
LEMMA EndingWithRow ==
    ASSUME FlowInv, StoreInv, StoreInv', UNCHANGED storeVars,
           NEW w \in Workers, job[w].pc \in {"decide", "begin", "run"},
           NEW r \in {"ok", "rejected"}, Return(w, r),
           NEW new \in Rows, new.status /= "absent",
           new.version = job[w].memory.version, UpdateExecution(w, new),
           UNCHANGED <<message, ran, admitted, crashes>>
    PROVE  FlowInv'
  <1>1. row' = [row EXCEPT ![job[w].exec] = new]
    BY DEF UpdateExecution
  <1>2. /\ row' \in [Messages -> Rows]
        /\ RowsKept
        /\ \A m \in Messages :
              /\ row'[m].status = "absent" <=> row[m].status = "absent"
              /\ row'[m].version = row[m].version
    BY <1>1, StoredRow
  <1>3. QED
    BY <1>2, EndingStep

(* A job ends and stores nothing. *)
LEMMA EndingSilently ==
    ASSUME FlowInv, StoreInv, StoreInv', UNCHANGED storeVars,
           NEW w \in Workers, w \in Messages => job[w].pc /= "idle",
           NEW r \in {"refused", "error"}, Return(w, r),
           UNCHANGED <<message, row, ran, admitted, crashes>>
    PROVE  FlowInv'
  BY EndingStep DEF FlowInv, FlowTypeOK, RowsKept

(* The type of a job, in one place. *)
LEMMA JobType ==
    ASSUME FlowInv, NEW w \in Workers
    PROVE  /\ job \in [Workers -> Jobs] /\ job[w] \in Jobs
           /\ job[w].memory \in Rows /\ job[w].content \in Contents
           /\ job[w].todo \in Seq(Tasks) /\ row \in [Messages -> Rows]
           /\ admitted \in [Messages -> SUBSET ((Nodes \cup {NoNode}) \X Contents)]
           /\ JobIsRooted(w)
  BY DEF FlowInv, FlowTypeOK, Jobs

LEMMA WithStatus ==
    ASSUME NEW memory \in Rows,
           NEW s \in {"running", "paused", "completed", "failed"}
    PROVE  /\ [memory EXCEPT !.status = s] \in Rows
           /\ [memory EXCEPT !.status = s].status = s
           /\ [memory EXCEPT !.status = s].status /= "absent"
           /\ [memory EXCEPT !.status = s].version = memory.version
           /\ [memory EXCEPT !.status = s].node = memory.node
  BY DEF Rows

LEMMA PauseAtApproval_Inv ==
    ASSUME FlowInv, StoreInv, StoreInv', UNCHANGED storeVars,
           NEW w \in Workers, PauseAtApproval(w)
    PROVE  FlowInv'
  <1>1. job[w].pc = "run" /\ job[w].todo /= <<>>
    BY DEF PauseAtApproval, AtApproval, NextIs
  <1>2. PICK n \in Nodes : n = Head(job[w].todo).node
    <2>1. Head(job[w].todo) \in Tasks
      BY <1>1, JobType, TailElements
    <2>2. QED
      BY <2>1 DEF Tasks
  <1>3. PICK new \in Rows :
             /\ new = [Passed(job[w].memory, n, "paused") EXCEPT !.status = "paused"]
             /\ new.status /= "absent" /\ new.version = job[w].memory.version
    <2>1. PICK passed \in Rows : /\ passed = Passed(job[w].memory, n, "paused")
                                /\ passed.version = job[w].memory.version
      <3>1. job[w].memory \in Rows /\ "paused" \in {"completed", "paused"}
        BY JobType
      <3>2. QED
        BY <3>1, PassedType
    <2>2. /\ [passed EXCEPT !.status = "paused"] \in Rows
          /\ [passed EXCEPT !.status = "paused"].status /= "absent"
          /\ [passed EXCEPT !.status = "paused"].version = passed.version
      BY WithStatus
    <2>3. QED
      BY <2>1, <2>2
  <1>4. QED
    BY <1>1, <1>2, <1>3, EndingWithRow DEF PauseAtApproval

LEMMA Complete_Inv ==
    ASSUME FlowInv, StoreInv, StoreInv', UNCHANGED storeVars,
           NEW w \in Workers, Complete(w)
    PROVE  FlowInv'
  <1>1. PICK new \in Rows :
             /\ new = [job[w].memory EXCEPT !.status = "completed"]
             /\ new.status /= "absent" /\ new.version = job[w].memory.version
    BY JobType, WithStatus
  <1>2. QED
    BY <1>1, EndingWithRow DEF Complete

LEMMA Reject_Inv ==
    ASSUME FlowInv, StoreInv, StoreInv', UNCHANGED storeVars,
           NEW w \in Workers, Reject(w)
    PROVE  FlowInv'
  <1>1. PICK new \in Rows :
             /\ new = [job[w].memory EXCEPT !.status = "failed"]
             /\ new.status /= "absent" /\ new.version = job[w].memory.version
    BY JobType, WithStatus
  <1>2. QED
    BY <1>1, EndingWithRow DEF Reject

LEMMA FailJob_Inv ==
    ASSUME FlowInv, StoreInv, StoreInv', UNCHANGED storeVars,
           NEW w \in Workers, FailJob(w)
    PROVE  FlowInv'
  BY EndingSilently DEF FailJob

LEMMA SaveProgress_Inv ==
    ASSUME FlowInv, StoreInv, StoreInv', UNCHANGED storeVars,
           NEW w \in Workers, SaveProgress(w)
    PROVE  FlowInv'
  <1>0. /\ job[w].pc = "run" /\ job[w].todo /= <<>>
        /\ UNCHANGED <<message, ran, admitted, crashes>>
        /\ row' = [row EXCEPT ![job[w].exec] = job[w].memory]
        /\ job' = [job EXCEPT ![w].todo = Tail(job[w].todo)]
    BY DEF SaveProgress, NextIs, UpdateExecution
  <1>a. job \in [Workers -> Jobs] /\ job[w] \in Jobs /\ JobIsRooted(w)
    BY JobType
  <1>1. PICK m \in Messages, c \in Contents, todo \in Seq(Tasks), memory \in Rows :
             /\ m = job[w].exec /\ c = job[w].content /\ memory = job[w].memory
             /\ todo = job[w].todo /\ memory.status /= "absent"
             /\ memory.version = row[m].version /\ row[m].status /= "absent"
    BY <1>0, <1>a DEF Jobs, JobIsRooted
  <1>2. PICK rest \in Seq(Tasks) :
             /\ rest = Tail(todo)
             /\ \A i \in DOMAIN rest : rest[i].op = "visit" =>
                   HasNode(c, rest[i].node) /\ Approved(m, c, rest[i].node)
    <2>1. \A i \in DOMAIN todo : todo[i].op = "visit" =>
              HasNode(c, todo[i].node) /\ Approved(m, c, todo[i].node)
      BY <1>0, <1>1, <1>a DEF JobIsRooted
    <2>2. /\ Tail(todo) \in Seq(Tasks)
          /\ \A i \in DOMAIN Tail(todo) : Tail(todo)[i].op = "visit" =>
                HasNode(c, Tail(todo)[i].node) /\ Approved(m, c, Tail(todo)[i].node)
      BY <1>0, <1>1, <2>1, TailElements
    <2>3. QED
      BY <2>2
  <1>3. /\ row' \in [Messages -> Rows]
        /\ RowsKept
        /\ \A k \in Messages :
              /\ row'[k].status = "absent" <=> row[k].status = "absent"
              /\ row'[k].version = row[k].version
    BY <1>0, <1>1, StoredRow
  <1>4. PICK j \in Jobs :
             /\ job' = [job EXCEPT ![w] = j] /\ job'[w] = j
             /\ j.pc = "run" /\ j.exec = m /\ j.content = c
             /\ j.memory = memory /\ j.todo = rest
    <2> DEFINE k == [job[w] EXCEPT !.todo = rest]
    <2>1. /\ k \in Jobs /\ k.pc = "run" /\ k.exec = m /\ k.content = c
          /\ k.memory = memory /\ k.todo = rest
      BY <1>0, <1>1, <1>a DEF Jobs
    <2>2. job' = [job EXCEPT ![w] = k] /\ job'[w] = k
      BY <1>0, <1>1, <1>2, <1>a DEF Jobs
    <2>3. QED
      BY <2>1, <2>2
  <1>5. Grown
    BY <1>0 DEF Grown, storeVars
  <1>6. \A x : Approved(m, c, x) => Approved(m, c, x)'
    BY <1>1, <1>3, <1>5, ApprovedKept
  <1>7. JobIsRooted(w)'
    <2>1. /\ job'[w].pc = "run" /\ job'[w].exec = m /\ job'[w].content = c
          /\ job'[w].memory = memory /\ job'[w].todo = rest
      BY <1>4
    <2>2. \A i \in DOMAIN rest : rest[i].op = "visit" =>
             HasNode(c, rest[i].node) /\ Approved(m, c, rest[i].node)'
      BY <1>2, <1>6
    <2>3. row'[m].status /= "absent" /\ memory.version = row'[m].version
      BY <1>1, <1>3
    <2>4. QED
      BY <1>1, <2>1, <2>2, <2>3 DEF JobIsRooted
  <1>8. job' \in [Workers -> Jobs] /\ \A v \in Workers : JobIsRooted(v)'
    BY <1>3, <1>4, <1>5, <1>7, OneJob
  <1>9. FlowTypeOK'
    BY <1>0, <1>3, <1>8 DEF FlowInv, FlowTypeOK
  <1>10. RowsAreRooted'
    <2>1. ASSUME NEW k \in Messages
          PROVE  \/ job'[k] = job[k]
                 \/ job[k].pc /= "idle" /\ job'[k].exec = job[k].exec
                    /\ job'[k].pc \notin {"idle", "create"}
      BY <1>0, <1>1, <1>4, <1>a DEF Workers
    <2>2. QED
      BY <1>0, <1>3, <1>5, <2>1, RootsKept
  <1>11. NothingPassesUnapproved'
    BY <1>0, <1>3, <1>5, RanKept
  <1>12. QED
    BY <1>8, <1>9, <1>10, <1>11 DEF FlowInv

(* A resume request changes; the executions of the messages stay rooted. *)
LEMMA ResumeStep ==
    ASSUME FlowInv, StoreInv, StoreInv', UNCHANGED storeVars,
           NEW w \in Resumers, NEW j \in Jobs, job' = [job EXCEPT ![w] = j],
           JobIsRooted(w)', UNCHANGED <<message, row, ran, admitted, crashes>>
    PROVE  FlowInv'
  <1>1. Grown /\ RowsKept /\ w \in Workers
    BY DEF Grown, RowsKept, storeVars, Workers
  <1>2. job' \in [Workers -> Jobs] /\ \A v \in Workers : JobIsRooted(v)'
    BY <1>1, OneJob
  <1>3. FlowTypeOK'
    BY <1>2 DEF FlowInv, FlowTypeOK
  <1>4. RowsAreRooted'
    <2>1. \A k \in Messages : job'[k] = job[k]
      BY WorkersAssumption DEF Workers, FlowInv, FlowTypeOK
    <2>2. QED
      BY <1>1, <2>1, RootsKept
  <1>5. NothingPassesUnapproved'
    BY <1>1, RanKept
  <1>6. QED
    BY <1>2, <1>3, <1>4, <1>5 DEF FlowInv

LEMMA GetExecution_Inv ==
    ASSUME FlowInv, StoreInv, StoreInv', UNCHANGED storeVars,
           NEW w \in Resumers, GetExecution(w)
    PROVE  FlowInv'
  <1>0. w \in Workers /\ w \notin Messages
        /\ UNCHANGED <<message, row, ran, admitted, crashes>>
    BY WorkersAssumption DEF Workers, GetExecution
  <1>a. job \in [Workers -> Jobs] /\ job[w] \in Jobs /\ row \in [Messages -> Rows]
    BY <1>0, JobType
  <1>1. CASE Return(w, "refused")
    BY <1>0, <1>1, EndingSilently
  <1>2. ASSUME NEW m \in Messages, row[m].status = "paused",
               job' = [job EXCEPT ![w].pc = "decide", ![w].exec = m,
                                  ![w].memory = row[m]]
        PROVE  FlowInv'
    <2> DEFINE k == [job[w] EXCEPT !.pc = "decide", !.exec = m, !.memory = row[m]]
    <2>0. row[m] \in Rows /\ m \in Workers
      BY <1>a DEF Workers
    <2>1. /\ k \in Jobs /\ k.pc = "decide" /\ k.exec = m /\ k.memory = row[m]
      BY <1>0, <1>a, <2>0 DEF Jobs
    <2>2. job' = [job EXCEPT ![w] = k] /\ job'[w] = k
      BY <1>0, <1>2, <1>a DEF Jobs
    <2>3. JobIsRooted(w)'
      BY <1>0, <1>2, <2>1, <2>2 DEF JobIsRooted
    <2> HIDE DEF k
    <2>4. QED
      BY <1>0, <2>1, <2>2, <2>3, ResumeStep
  <1>3. QED
    BY <1>1, <1>2 DEF GetExecution

LEMMA GetFlow_Inv ==
    ASSUME FlowInv, StoreInv, StoreInv', UNCHANGED storeVars,
           NEW w \in Resumers, GetFlow(w)
    PROVE  FlowInv'
  <1>0. w \in Workers /\ w \notin Messages /\ job[w].pc = "decide"
        /\ UNCHANGED <<message, row, ran, admitted, crashes>>
    BY WorkersAssumption DEF Workers, GetFlow
  <1>a. job \in [Workers -> Jobs] /\ job[w] \in Jobs /\ JobIsRooted(w)
    BY <1>0, JobType
  <1>1. CASE Return(w, "error")
    BY <1>0, <1>1, EndingSilently
  <1>2. CASE job' = [job EXCEPT ![w].pc = "begin", ![w].content = flow.content]
    <2> DEFINE k == [job[w] EXCEPT !.pc = "begin", !.content = flow.content]
    <2>0. flow.content \in Contents
      BY DEF StoreInv, StoreTypeOK
    <2>1. /\ k \in Jobs /\ k.pc = "begin" /\ k.exec = job[w].exec
          /\ k.memory = job[w].memory
      BY <1>0, <1>a, <2>0 DEF Jobs
    <2>2. job' = [job EXCEPT ![w] = k] /\ job'[w] = k
      BY <1>0, <1>2, <1>a DEF Jobs
    <2>3. /\ job[w].exec \in Messages /\ row[job[w].exec].status /= "absent"
          /\ job[w].memory.status /= "absent"
          /\ job[w].memory.version = row[job[w].exec].version
      BY <1>0, <1>a DEF JobIsRooted
    <2>4. JobIsRooted(w)'
      BY <1>0, <2>1, <2>2, <2>3 DEF JobIsRooted
    <2> HIDE DEF k
    <2>5. QED
      BY <1>0, <2>1, <2>2, <2>4, ResumeStep
  <1>3. QED
    BY <1>1, <1>2 DEF GetFlow

LEMMA Continue_Inv ==
    ASSUME FlowInv, StoreInv, StoreInv', UNCHANGED storeVars,
           NEW w \in Resumers, Continue(w)
    PROVE  FlowInv'
  <1>0. w \in Workers /\ w \notin Messages /\ job[w].pc = "begin"
        /\ UNCHANGED <<message, ran, crashes>>
    BY WorkersAssumption DEF Workers, Continue
  <1>a. /\ job \in [Workers -> Jobs] /\ job[w] \in Jobs /\ JobIsRooted(w)
        /\ row \in [Messages -> Rows]
        /\ admitted \in [Messages -> SUBSET ((Nodes \cup {NoNode}) \X Contents)]
    BY <1>0, JobType
  <1>1. PICK m \in Messages, c \in Contents, memory \in Rows :
             /\ m = job[w].exec /\ c = job[w].content /\ memory = job[w].memory
             /\ memory.version = row[m].version /\ row[m].status /= "absent"
    BY <1>0, <1>a DEF Jobs, JobIsRooted
  <1>2. PICK again \in Rows, n \in Nodes \cup {NoNode} :
             /\ again = [memory EXCEPT !.status = "running"] /\ n = again.node
             /\ again.status /= "absent" /\ again.version = memory.version
    <2>1. /\ [memory EXCEPT !.status = "running"] \in Rows
          /\ [memory EXCEPT !.status = "running"].status /= "absent"
          /\ [memory EXCEPT !.status = "running"].version = memory.version
      BY WithStatus
    <2>2. [memory EXCEPT !.status = "running"].node \in Nodes \cup {NoNode}
      BY <2>1 DEF Rows
    <2>3. QED
      BY <2>1, <2>2
  <1>3. /\ row' = [row EXCEPT ![m] = again]
        /\ job' = [job EXCEPT ![w].pc = "run", ![w].memory = again,
                              ![w].todo = Targets(c, n, AllHandles)]
        /\ admitted' = [admitted EXCEPT ![m] = @ \cup {<<n, c>>}]
    BY <1>1, <1>2 DEF Continue, UpdateExecution
  <1>4. /\ row' \in [Messages -> Rows]
        /\ RowsKept
        /\ \A k \in Messages :
              /\ row'[k].status = "absent" <=> row[k].status = "absent"
              /\ row'[k].version = row[k].version
    BY <1>0, <1>1, <1>2, <1>3, StoredRow
  <1>5. /\ admitted' \in [Messages -> SUBSET ((Nodes \cup {NoNode}) \X Contents)]
        /\ <<n, c>> \in admitted'[m]
        /\ \A k \in Messages : admitted[k] \subseteq admitted'[k]
    <2>1. <<n, c>> \in (Nodes \cup {NoNode}) \X Contents
      OBVIOUS
    <2>2. QED
      BY <1>3, <1>a, <2>1
  <1>6. Grown
    BY <1>5 DEF Grown, storeVars
  <1>7. PICK todo \in Seq(Tasks) :
             /\ todo = Targets(c, n, AllHandles)
             /\ \A i \in DOMAIN todo :
                   HasNode(c, todo[i].node) /\ Approved(m, c, todo[i].node)'
    <2> DEFINE first == Targets(c, n, AllHandles)
    <2>1. ASSUME NEW i \in DOMAIN first
          PROVE  HasNode(c, first[i].node) /\ Approved(m, c, first[i].node)'
      <3>1. PICK e \in EdgeSet(c) : e.source = n /\ HasNode(c, e.target)
                                    /\ first[i] = Visit(e.target)
        BY TargetsAreBelow
      <3>2. e.target \in Below(c, n)
        BY <3>1 DEF Below
      <3>3. FreelyReached(c, Below(c, n), e.target)
        BY <3>2, FreelyFirst
      <3>4. Approved(m, c, e.target)'
        <4>1. PICK a \in admitted'[m] : a = <<n, c>> /\ a[1] = n /\ a[2] = c
          BY <1>5
        <4>2. QED
          BY <3>3, <4>1 DEF Approved
      <3>5. first[i].node = e.target
        BY <3>1 DEF Visit
      <3>6. QED
        BY <3>1, <3>4, <3>5
    <2>2. first \in Seq(Tasks)
      BY TargetsType
    <2> HIDE DEF first
    <2>3. QED
      BY <2>1, <2>2 DEF first
  <1>8. PICK j \in Jobs :
             /\ job' = [job EXCEPT ![w] = j] /\ job'[w] = j
             /\ j.pc = "run" /\ j.exec = m /\ j.content = c
             /\ j.memory = again /\ j.todo = todo
    <2> DEFINE k == [job[w] EXCEPT !.pc = "run", !.memory = again, !.todo = todo]
    <2>1. /\ k \in Jobs /\ k.pc = "run" /\ k.exec = m /\ k.content = c
          /\ k.memory = again /\ k.todo = todo
      BY <1>1, <1>a DEF Jobs
    <2>2. job' = [job EXCEPT ![w].pc = "run", ![w].memory = again, ![w].todo = todo]
      BY <1>3, <1>7
    <2>3. job' = [job EXCEPT ![w] = k] /\ job'[w] = k
      BY <1>0, <1>a, <2>2 DEF Jobs
    <2>4. QED
      BY <2>1, <2>3
  <1>9. JobIsRooted(w)'
    <2>1. /\ job'[w].pc = "run" /\ job'[w].exec = m /\ job'[w].content = c
          /\ job'[w].memory = again /\ job'[w].todo = todo
      BY <1>8
    <2>2. row'[m].status /= "absent" /\ again.version = row'[m].version
      BY <1>1, <1>2, <1>4
    <2>3. QED
      BY <1>1, <1>2, <1>7, <2>1, <2>2 DEF JobIsRooted
  <1>10. job' \in [Workers -> Jobs] /\ \A v \in Workers : JobIsRooted(v)'
    BY <1>0, <1>4, <1>6, <1>8, <1>9, OneJob
  <1>11. FlowTypeOK'
    BY <1>0, <1>4, <1>5, <1>10 DEF FlowInv, FlowTypeOK
  <1>12. RowsAreRooted'
    <2>1. \A k \in Messages : job'[k] = job[k]
      BY <1>0, <1>8, <1>a DEF Workers
    <2>2. QED
      BY <1>0, <1>4, <1>6, <2>1, RootsKept
  <1>13. NothingPassesUnapproved'
    BY <1>0, <1>4, <1>6, RanKept
  <1>14. QED
    BY <1>10, <1>11, <1>12, <1>13 DEF FlowInv

(* A crash ends every job of a process; the rows stay as they were stored. *)
LEMMA Crash_Inv ==
    ASSUME FlowInv, StoreInv, StoreInv', UNCHANGED storeVars,
           NEW process, Crash(process)
    PROVE  FlowInv'
  <1>1. Grown /\ RowsKept /\ UNCHANGED <<message, row, ran, admitted>>
    BY DEF Crash, Grown, RowsKept, storeVars
  <1>2. ASSUME NEW w \in Workers
        PROVE  /\ job'[w] \in Jobs /\ JobIsRooted(w)'
               /\ \/ job'[w] = job[w]
                  \/ /\ job[w].pc /= "idle" /\ job'[w].exec = job[w].exec
                     /\ job'[w].pc \notin {"idle", "create"}
    <2>1. job[w] \in Jobs
      BY JobType
    <2>2. CASE job'[w] = job[w]
      BY <1>1, <2>1, <2>2, OtherJobs
    <2>3. CASE /\ job'[w] = [Idle(job[w].exec) EXCEPT !.pc = "done", !.result = "lost"]
               /\ job[w].pc /= "idle"
      <3> DEFINE j == [pc |-> "done", exec |-> job[w].exec, memory |-> NoRow,
                       content |-> FirstContent, todo |-> <<>>, result |-> "lost"]
      <3>1. job'[w] = j
        BY <2>3 DEF Idle
      <3>2. NoRow \in Rows
        BY DEF NoRow, Rows
      <3>3. j \in Jobs
        BY <2>1, <3>2, FirstContentAssumption DEF Jobs
      <3>4. job'[w].pc = "done" /\ job'[w].exec = job[w].exec
        BY <3>1
      <3>5. JobIsRooted(w)'
        BY <3>4 DEF JobIsRooted
      <3>6. QED
        BY <2>3, <3>1, <3>3, <3>4, <3>5
    <2>4. QED
      BY <2>2, <2>3 DEF Crash
  <1>3. job' \in [Workers -> Jobs]
    <2>1. job' = [w \in Workers |-> job'[w]]
      BY DEF Crash
    <2>2. QED
      BY <1>2, <2>1
  <1>4. FlowTypeOK'
    <2>1. crashes' \in 0 .. MaxCrashes
      <3>1. crashes < MaxCrashes /\ crashes' = crashes + 1
        BY DEF Crash
      <3>2. crashes \in 0 .. MaxCrashes
        BY DEF FlowInv, FlowTypeOK
      <3>3. QED
        BY <3>1, <3>2, MaxCrashesAssumption
    <2>2. QED
      BY <1>1, <1>3, <2>1 DEF FlowInv, FlowTypeOK
  <1>5. RowsAreRooted'
    BY <1>1, <1>2, RootsKept DEF Workers
  <1>6. NothingPassesUnapproved'
    BY <1>1, RanKept
  <1>7. QED
    BY <1>2, <1>4, <1>5, <1>6 DEF FlowInv

(* An edit of the flow leaves what executions started with. *)
LEMMA Edit_Inv ==
    ASSUME FlowInv, StoreInv, StoreInv', [StoreNext]_storeVars, UNCHANGED flowVars
    PROVE  FlowInv'
  <1>1. /\ Grown /\ RowsKept
        /\ UNCHANGED <<message, row, job, ran, admitted, crashes>>
    BY HistoryGrows DEF Grown, RowsKept, flowVars
  <1>2. FlowTypeOK'
    BY <1>1 DEF FlowInv, FlowTypeOK
  <1>3. RowsAreRooted'
    BY <1>1, RootsKept
  <1>4. \A w \in Workers : JobIsRooted(w)'
    BY <1>1, OtherJobs
  <1>5. NothingPassesUnapproved'
    BY <1>1, RanKept
  <1>6. QED
    BY <1>2, <1>3, <1>4, <1>5 DEF FlowInv

LEMMA FlowInit_Inv == FlowInit => FlowInv
  <1> SUFFICES ASSUME FlowInit PROVE FlowInv
    OBVIOUS
  <1>1. NoRow \in Rows /\ NoRow.status = "absent"
    BY DEF NoRow, Rows
  <1>2. ASSUME NEW w \in Workers
        PROVE  job[w] \in Jobs /\ job[w].pc = "idle" /\ job[w].exec = w
    BY <1>1, FirstContentAssumption DEF FlowInit, Idle, Jobs
  <1>3. FlowTypeOK
    <2>1. job \in [Workers -> Jobs]
      BY <1>2 DEF FlowInit
    <2>2. QED
      BY <1>1, <2>1, MaxCrashesAssumption DEF FlowInit, FlowTypeOK
  <1>4. RowsAreRooted
    BY <1>1, <1>2 DEF FlowInit, RowsAreRooted, Workers
  <1>5. \A w \in Workers : JobIsRooted(w)
    BY <1>2 DEF JobIsRooted
  <1>6. NothingPassesUnapproved
    BY DEF FlowInit, NothingPassesUnapproved
  <1>7. QED
    BY <1>3, <1>4, <1>5, <1>6 DEF FlowInv

LEMMA FlowNext_Inv ==
    FlowInv /\ StoreInv /\ StoreInv' /\ [FlowNext]_engineVars => FlowInv'
  <1> SUFFICES ASSUME FlowInv, StoreInv, StoreInv', [FlowNext]_engineVars
               PROVE  FlowInv'
    OBVIOUS
  <1>1. CASE EngineNext /\ UNCHANGED storeVars
    <2>1. CASE \E m \in Messages : Consume(m)
      BY <1>1, <2>1, ReadMessage_Inv, ProcessMessage_Inv, CreateExecution_Inv
         DEF Consume
    <2>2. CASE \E w \in Resumers : Resume(w)
      BY <1>1, <2>2, GetExecution_Inv, Reject_Inv, GetFlow_Inv, Continue_Inv
         DEF Resume, Workers
    <2>3. CASE \E w \in Workers : Walk(w) \/ FailJob(w)
      BY <1>1, <2>3, VisitNode_Inv, PauseAtApproval_Inv, SaveProgress_Inv,
         Complete_Inv, FailJob_Inv DEF Walk
    <2>4. CASE \E process \in {Messages, Resumers} : Crash(process)
      BY <1>1, <2>4, Crash_Inv
    <2>5. QED
      BY <1>1, <2>1, <2>2, <2>3, <2>4 DEF EngineNext
  <1>2. CASE StoreNext /\ UNCHANGED flowVars
    BY <1>2, Edit_Inv
  <1>3. CASE UNCHANGED engineVars
    BY <1>3, Edit_Inv DEF engineVars
  <1>4. QED
    BY <1>1, <1>2, <1>3 DEF FlowNext

(* In every state of the engine the rows belong to versions the history    *)
(* has, and each job, through crashes, failures, edits of the flow and     *)
(* resumes of one row at the same time, has only nodes left to visit that  *)
(* it may visit (Execute, executeNode and Resume in runner.go).            *)
THEOREM FlowInvHolds == FlowSpec => []FlowInv
  <1>1. FlowSpec => []StoreInv
    BY StoreUndisturbed, StoreInvHolds, PTL
  <1>2. QED
    BY <1>1, FlowInit_Inv, FlowNext_Inv, PTL DEF FlowSpec

(* No handler behind an approval runs unless a resume was admitted at that *)
(* approval, for any flows, messages, resumes, edits and crashes.          *)
THEOREM NothingUnapproved == FlowSpec => []NothingPassesUnapproved
  <1>1. FlowInv => NothingPassesUnapproved
    BY DEF FlowInv
  <1>2. QED
    BY <1>1, FlowInvHolds, PTL
=============================================================================
