------------------------------- MODULE Outbox -------------------------------
(***************************************************************************)
(* The ledger together with its outbox publishers                          *)
(* (internal/ledger/infrastructure/publisher.go), one in every replica of  *)
(* the service.  A publisher polls the outbox table, sends each pending    *)
(* event to Kafka and marks it as processed; the replicas do not know of   *)
(* each other, and any of them can stop between two of its steps.          *)
(***************************************************************************)
EXTENDS Ledger

CONSTANTS
    Publishers,     \* the replicas
    BatchLimit,     \* the LIMIT of the polling query (50)
    Unsendable,     \* the events Kafka never takes (e.g. over its size limit)
    MaxCrashes      \* bound: how often replicas stop

ASSUME PublisherAssumption ==
    BatchLimit \in Nat \ {0} /\ Unsendable \subseteq Calls /\ MaxCrashes \in Nat

VARIABLES
    processed,  \* the events with a processed_at
    published,  \* the events Kafka holds, however often it was sent them
    batch,      \* what is left of each publisher's current poll
    stage,      \* "waiting", "publishing" or "marking" the oldest of the batch
    crashes     \* how often a publisher has stopped

publisherVars == <<processed, published, batch, stage, crashes>>
allVars == <<vars, publisherVars>>

-----------------------------------------------------------------------------

(* SELECT ... FROM outbox WHERE processed_at IS NULL *)
Pending == {v.tx : v \in VisibleOutbox} \ processed

(* ... ORDER BY created_at ASC LIMIT BatchLimit *)
GetUnprocessedEvents ==
    {c \in Pending :
        Cardinality({d \in Pending : began[d] < began[c]}) < BatchLimit}

IsOldest(c, S) == c \in S /\ \A d \in S : began[c] <= began[d]

PublisherInit ==
    /\ processed = {}
    /\ published = {}
    /\ batch = [p \in Publishers |-> {}]
    /\ stage = [p \in Publishers |-> "waiting"]
    /\ crashes = 0

(* processOutbox, called by the ticker: fetch a batch. *)
Fetch(p) ==
    /\ stage[p] = "waiting"
    /\ Pending # {}
    /\ batch' = [batch EXCEPT ![p] = GetUnprocessedEvents]
    /\ stage' = [stage EXCEPT ![p] = "publishing"]
    /\ UNCHANGED <<processed, published, crashes>>

(* The loop goes on to the next event of the batch, or waits for the tick. *)
NextEvent(p, c) ==
    LET rest == batch[p] \ {c}
    IN /\ batch' = [batch EXCEPT ![p] = rest]
       /\ stage' = [stage EXCEPT ![p] = IF rest = {} THEN "waiting"
                                                   ELSE "publishing"]

PublishSucceeds(p, c) ==
    /\ stage[p] = "publishing"
    /\ IsOldest(c, batch[p])
    /\ c \notin Unsendable
    /\ published' = published \cup {c}
    /\ stage' = [stage EXCEPT ![p] = "marking"]
    /\ UNCHANGED <<processed, batch, crashes>>

(* Slip: the rest of the batch is given up as well. *)
PublishFailsAndReturns(p, c) ==
    /\ stage[p] = "publishing"
    /\ IsOldest(c, batch[p])
    /\ batch' = [batch EXCEPT ![p] = {}]
    /\ stage' = [stage EXCEPT ![p] = "waiting"]
    /\ UNCHANGED <<processed, published, crashes>>

(* Slip: the error is logged and the event is marked as processed. *)
PublishFailsUnnoticed(p, c) ==
    /\ stage[p] = "publishing"
    /\ IsOldest(c, batch[p])
    /\ stage' = [stage EXCEPT ![p] = "marking"]
    /\ UNCHANGED <<processed, published, batch, crashes>>

(* An error from Kafka: `continue'.  The message may have been written     *)
(* even so, when only the acknowledgement was lost.                        *)
PublishFails(p, c) ==
    /\ stage[p] = "publishing"
    /\ IsOldest(c, batch[p])
    /\ \/ UNCHANGED published
       \/ c \notin Unsendable /\ published' = published \cup {c}
    /\ NextEvent(p, c)
    /\ UNCHANGED <<processed, crashes>>

(* UPDATE outbox SET processed_at; the trigger lets it happen once. *)
MarkEventProcessed(p, c) ==
    /\ stage[p] = "marking"
    /\ IsOldest(c, batch[p])
    /\ c \notin processed
    /\ processed' = processed \cup {c}
    /\ NextEvent(p, c)
    /\ UNCHANGED <<published, crashes>>

(* The UPDATE fails, or the trigger refuses it; this is only logged. *)
MarkFails(p, c) ==
    /\ stage[p] = "marking"
    /\ IsOldest(c, batch[p])
    /\ NextEvent(p, c)
    /\ UNCHANGED <<processed, published, crashes>>

(* A replica stops and another takes its place: the batch is forgotten. *)
Crash(p) ==
    /\ crashes < MaxCrashes
    /\ stage[p] # "waiting"
    /\ crashes' = crashes + 1
    /\ batch' = [batch EXCEPT ![p] = {}]
    /\ stage' = [stage EXCEPT ![p] = "waiting"]
    /\ UNCHANGED <<processed, published>>

Poll(p) ==
    \/ Fetch(p)
    \/ \E c \in Calls : \/ PublishSucceeds(p, c)
                        \/ PublishFails(p, c)
                        \/ MarkEventProcessed(p, c)
                        \/ MarkFails(p, c)

OutboxInit == Init /\ PublisherInit

OutboxNext ==
    \/ Next /\ UNCHANGED publisherVars
    \/ \E p \in Publishers : (Poll(p) \/ Crash(p)) /\ UNCHANGED vars

OutboxSpec == OutboxInit /\ [][OutboxNext]_allVars

(* Calls and tickers keep going; a broker and a database that are asked    *)
(* again and again say yes at some point.                                  *)
OutboxFairSpec ==
    /\ OutboxSpec
    /\ \A c \in Calls : WF_allVars(Step(c) /\ UNCHANGED publisherVars)
    /\ \A p \in Publishers :
         /\ WF_allVars(Poll(p) /\ UNCHANGED vars)
         /\ \A c \in Calls :
              /\ SF_allVars(PublishSucceeds(p, c) /\ UNCHANGED vars)
              /\ SF_allVars(MarkEventProcessed(p, c) /\ UNCHANGED vars)

-----------------------------------------------------------------------------
(* The type of every variable the publishers add. *)
PublisherTypeOK ==
    /\ processed \subseteq Calls
    /\ published \subseteq Calls
    /\ batch \in [Publishers -> SUBSET Calls]
    /\ stage \in [Publishers -> {"waiting", "publishing", "marking"}]
    /\ crashes \in 0 .. MaxCrashes

(* Nothing leaves the ledger that a rollback could still take back. *)
OnlyCommittedIsPublished == published \subseteq committed

(* An event is not marked before Kafka has it, whoever marks it: a failed  *)
(* send, a crash between the two steps or a second publisher working on    *)
(* the same batch loses no event.                                          *)
ProcessedWasPublished == processed \subseteq published

(* Every committed transaction is announced and leaves the outbox, as long *)
(* as fewer events than one batch holds can never be sent.                 *)
EveryEventIsPublished ==
    \A c \in Calls \ Unsendable : c \in committed ~> c \in processed

(* The inductive invariant: a batch holds committed events, and the one    *)
(* being marked has been sent.                                             *)
PublisherInv ==
    /\ PublisherTypeOK
    /\ committed \subseteq Calls
    /\ OnlyCommittedIsPublished
    /\ ProcessedWasPublished
    /\ \A p \in Publishers :
         /\ batch[p] \subseteq committed
         /\ stage[p] = "marking" =>
              \A c \in Calls : IsOldest(c, batch[p]) => c \in published
=============================================================================
