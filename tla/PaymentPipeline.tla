--------------------------- MODULE PaymentPipeline ---------------------------
(***************************************************************************)
(* What happens to a payment behind the payments service: the ledger's     *)
(* consumer of the Kafka topic (cmd/ledger/events.go, over the loop of     *)
(* pkg/messaging/kafka.go) and the reconciler that compares the payments   *)
(* with the ledger every minute (cmd/reconciler/main.go).                  *)
(*                                                                         *)
(* The reconciler reads two databases, one row after the other, while      *)
(* payments go on; it repairs nothing.                                     *)
(***************************************************************************)
EXTENDS Payments

VARIABLES
    offset,     \* how many events of the topic the consumer group has read
    handling,   \* the events the consumer has read and not dealt with, 0 or 1
    recent,     \* the intents created within the last hour
    rows,       \* what is left of the payments the reconciler has fetched
    reported    \* the intents ever reported as missing from the ledger

consumerVars == <<offset, handling>>
auditVars == <<recent, rows, reported>>
pipeVars == <<payVars, consumerVars, auditVars>>

-----------------------------------------------------------------------------
PipelineInit ==
    /\ Init
    /\ offset = 0
    /\ handling = {}
    /\ recent = Intents
    /\ rows = {}
    /\ reported = {}

(* reader.ReadMessage, which commits the offset before the handler runs. *)
ReadMessage ==
    /\ handling = {}
    /\ offset < Len(topic)
    /\ handling' = {topic[offset + 1]}
    /\ offset' = offset + 1
    /\ UNCHANGED <<payVars, auditVars>>

(* The reference the handler gives an event: it decodes data.id, and the   *)
(* events of the payments service carry data.payment_id instead.           *)
EventRef(event) == PaymentRef("")

(* The handler: payment.succeeded is recorded, "refund.completed" is none  *)
(* of the types it knows.  An error is logged and the event is gone, as it *)
(* is when the consumer stops in the middle of it.                         *)
HandleEvent(event) ==
    /\ event \in handling
    /\ handling' = {}
    /\ \/ /\ event.type = "payment.succeeded"
          /\ Post(EventRef(event),
                  EntriesOf([account |-> "user", amount |-> Amount[event.payment]]))
       \/ /\ event.type # "payment.succeeded"
          /\ UNCHANGED book
    /\ UNCHANGED <<status, saved, charged, topic, pc, request, recorded, reply,
                   offset, auditVars>>

-----------------------------------------------------------------------------
(* An hour passes after the creation of an intent. *)
GrowOld(i) ==
    /\ i \in recent
    /\ status[i] # "absent"
    /\ recent' = recent \ {i}
    /\ UNCHANGED <<payVars, consumerVars, rows, reported>>

PaidRows(S) == {[id |-> i, status |-> status[i]] :
                i \in {j \in S : status[j] \in {"succeeded", "refunded"}}}

(* reconcile: SELECT id, status, amount FROM payment_intents ... *)
FetchPayments ==
    /\ rows = {}
    /\ PaidRows(recent) # {}
    /\ rows' = PaidRows(recent)
    /\ UNCHANGED <<payVars, consumerVars, recent, reported>>

(* The reference_id the reconciler looks for. *)
LedgerRef(row) ==
    IF row.status = "refunded" THEN RefundRef(row.id) ELSE PaymentRef(row.id)

(* Slip: a missing transaction is taken for an error of the database. *)
CheckRowSilently(row) ==
    /\ row \in rows
    /\ rows' = rows \ {row}
    /\ UNCHANGED <<payVars, consumerVars, recent, reported>>

(* One round of its loop: SELECT id FROM transactions WHERE reference_id. *)
CheckRow(row) ==
    /\ row \in rows
    /\ rows' = rows \ {row}
    /\ \/ /\ PostedRef(LedgerRef(row))
          /\ UNCHANGED reported
       \/ /\ ~PostedRef(LedgerRef(row))
          /\ reported' = reported \cup {row.id}
    /\ UNCHANGED <<payVars, consumerVars, recent>>

(* The ledger's database does not answer: the row is skipped. *)
SkipRow(row) ==
    /\ MayFail
    /\ row \in rows
    /\ rows' = rows \ {row}
    /\ UNCHANGED <<payVars, consumerVars, recent, reported>>

Rows == [id : Intents, status : {"succeeded", "refunded"}]

PipelineNext ==
    \/ Next /\ UNCHANGED <<consumerVars, auditVars>>
    \/ ReadMessage
    \/ \E event \in Events : HandleEvent(event)
    \/ \E i \in Intents : GrowOld(i)
    \/ FetchPayments
    \/ \E row \in Rows : CheckRow(row) \/ SkipRow(row)

PipelineSpec == PipelineInit /\ [][PipelineNext]_pipeVars

(* The services and the two loops keep running, and a ledger that is asked *)
(* about a row every minute answers at some point.                         *)
PipelineFairSpec ==
    /\ PipelineSpec
    /\ \A c \in Calls : WF_pipeVars(Serve(c) /\ UNCHANGED <<consumerVars, auditVars>>)
    /\ WF_pipeVars(ReadMessage)
    /\ WF_pipeVars(\E event \in Events : HandleEvent(event))
    /\ WF_pipeVars(FetchPayments)
    /\ \A row \in Rows : /\ WF_pipeVars(CheckRow(row) \/ SkipRow(row))
                         /\ SF_pipeVars(CheckRow(row))

(* No call and no event for i is on its way. *)
AtRest(i) ==
    /\ \A c \in Calls : Intent(c) = i => pc[c] = "done"
    /\ \A event \in handling : event.payment # i

(* A payment the ledger knows nothing of, because the service stopped or   *)
(* the ledger failed between the status and the posting, is reported,      *)
(* provided it stays inside the reconciler's window.                       *)
LossIsReported ==
    \A i \in Intents :
        AtRest(i) /\ status[i] = "succeeded" /\ ~PostedRef(PaymentRef(i))
            ~> i \in reported \/ i \notin recent
=============================================================================
