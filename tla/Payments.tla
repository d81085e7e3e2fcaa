------------------------------ MODULE Payments ------------------------------
(***************************************************************************)
(* The payments service: the create, confirm and refund handlers behind    *)
(* the idempotency middleware (cmd/payments/handlers.go) over the SQL      *)
(* repository (internal/payment/infrastructure/sql_repository.go).         *)
(*                                                                         *)
(* Requests are served concurrently, by two replicas.  They share the      *)
(* database, the bank, the Kafka topic and the ledger; each step of a call *)
(* is one request to one of these.  A handler uses the request's context   *)
(* throughout, so a client that goes away makes every later step fail; a   *)
(* replica that stops leaves everything as it is.  The ledger appears as   *)
(* its contract, AtomicLedger: one posting per reference, for good.        *)
(***************************************************************************)
EXTENDS Integers, Sequences, FiniteSets, SequencesExt

CONSTANTS
    Calls,      \* the HTTP requests
    Intents,    \* the ids a payment intent can have
    Keys,       \* the Idempotency-Key values of one user
    NoKey,      \* a request without the header
    Requests,   \* what clients send
    Amount,     \* the amount of each intent
    Fee,        \* the application fee; positive only for a split payment
    MayFail     \* whether calls to the database, bank, Kafka, ledger can fail

ASSUME KeysAssumption == NoKey \notin Keys

(* A request is complete, or has no usable body, or no authenticated user. *)
ASSUME PaymentRequestsAssumption ==
    Requests \subseteq [op : {"create", "confirm", "refund"}, intent : Intents,
                        key : Keys \cup {NoKey},
                        fault : {"none", "body", "user"}]

(* CreatePaymentIntent turns other amounts away; it does not look at fees. *)
ASSUME AmountAssumption ==
    Amount \in [Intents -> Nat \ {0}] /\ Fee \in [Intents -> Int]

ASSUME MayFailAssumption == MayFail \in BOOLEAN

VARIABLES
    status,     \* the status column of each intent, "absent" before its INSERT
    saved,      \* idempotency_keys: the response saved under each key, if any
    charged,    \* the calls for which the bank has taken money
    topic,      \* the events the Kafka topic holds, in order
    book,       \* the postings of the ledger
    pc,         \* where each call is
    request,    \* the request of each call that has begun
    recorded,   \* how many of its shares a confirm has sent to the ledger
    reply       \* the response each call has written

external == <<charged, topic, book>>
payVars == <<status, saved, charged, topic, book, pc, request, recorded, reply>>

-----------------------------------------------------------------------------
(* A response by what happened.  "internal" is a failure of the service    *)
(* itself; WriteErrorJSON sends it as a 400, like every other error.       *)
StatusCode(r) ==
    CASE r = "created" -> 201
      [] r \in {"paid", "declined", "refunded"} -> 200
      [] r \in {"rejected", "internal"} -> 400

Responses == {"created", "paid", "declined", "refunded", "rejected", "internal"}

(* The RecordTransaction calls a confirmed payment makes, in order. *)
Shares(i) ==
    IF Fee[i] > 0
    THEN <<[account |-> "connected", amount |-> Amount[i] - Fee[i]],
           [account |-> "platform", amount |-> Fee[i]],
           [account |-> "user", amount |-> -Amount[i]]>>
    ELSE <<[account |-> "user", amount |-> Amount[i]]>>

(* The entries the ledger's gRPC server makes of a share. *)
EntriesOf(share) ==
    {share, [account |-> "system_balancing", amount |-> -share.amount]}

(* A ledger reference: the id of an intent, or "refund_" and the id. *)
PaymentRef(i) == [of |-> "payment", id |-> i]
RefundRef(i) == [of |-> "refund", id |-> i]

PostedRef(ref) == \E p \in book : p.ref = ref

(* Whether RecordTransaction posts: a reference counts once, and an amount *)
(* of zero violates the CHECK of the entries table.                        *)
LedgerPosts(ref, es) == ~PostedRef(ref) /\ \A e \in es : e.amount # 0

(* A RecordTransaction call, or the failure of it. *)
Post(ref, es) ==
    \/ /\ LedgerPosts(ref, es)
       /\ book' = book \cup {[ref |-> ref, entries |-> es]}
    \/ /\ MayFail \/ ~LedgerPosts(ref, es)
       /\ UNCHANGED book

(* A Kafka write; a failure is logged and changes nothing else. *)
Publish(event) ==
    \/ topic' = Append(topic, event)
    \/ MayFail /\ UNCHANGED topic

-----------------------------------------------------------------------------
(* The queries of the SQL repository. *)
GetPaymentIntent(i) == status[i]

InsertPaymentIntent(i) ==
    status[i] = "absent" /\ status' = [status EXCEPT ![i] = "requires_payment_method"]

UpdateStatus(i, new) == status' = [status EXCEPT ![i] = new]

GetIdempotencyKey(k) == saved[k]

(* A second INSERT violates the primary key. *)
SaveIdempotencyKey(k, r) ==
    saved' = IF saved[k] = "none" THEN [saved EXCEPT ![k] = r] ELSE saved

Goto(c, label) == pc' = [pc EXCEPT ![c] = label]

Key(c) == request[c].key
Intent(c) == request[c].intent

(* The handler writes its response; the middleware then saves it. *)
Respond(c, r) ==
    /\ reply' = [reply EXCEPT ![c] = r]
    /\ Goto(c, IF Key(c) = NoKey THEN "done" ELSE "save")

(* The middleware answers by itself and saves nothing. *)
Answer(c, r) ==
    /\ reply' = [reply EXCEPT ![c] = r]
    /\ Goto(c, "done")

(* Some intents were created before the calls that are looked at. *)
Init ==
    /\ status \in [Intents -> {"absent", "requires_payment_method"}]
    /\ saved = [k \in Keys |-> "none"]
    /\ charged = {}
    /\ topic = <<>>
    /\ book = {}
    /\ pc = [c \in Calls |-> "idle"]
    /\ request \in [Calls -> Requests]
    /\ recorded = [c \in Calls |-> 0]
    /\ reply = [c \in Calls |-> "none"]

(* A request arrives: without a key the handler runs at once; with a key   *)
(* and without a user the middleware refuses.                              *)
Begin(c) ==
    /\ pc[c] = "idle"
    /\ \/ /\ Key(c) = NoKey
          /\ Goto(c, request[c].op)
          /\ UNCHANGED reply
       \/ /\ Key(c) # NoKey
          /\ request[c].fault = "user"
          /\ Answer(c, "rejected")
       \/ /\ Key(c) # NoKey
          /\ request[c].fault # "user"
          /\ Goto(c, "lookup")
          /\ UNCHANGED reply
    /\ UNCHANGED <<status, saved, external, request, recorded>>

(* GetIdempotencyKey: a saved response is replayed. *)
LookUp(c) ==
    /\ pc[c] = "lookup"
    /\ \/ /\ GetIdempotencyKey(Key(c)) = "none"
          /\ Goto(c, request[c].op)
          /\ UNCHANGED reply
       \/ /\ GetIdempotencyKey(Key(c)) # "none"
          /\ Answer(c, GetIdempotencyKey(Key(c)))
       \/ /\ MayFail
          /\ Answer(c, "internal")
    /\ UNCHANGED <<status, saved, external, request, recorded>>

(* SaveIdempotencyKey, unless the response is a 5xx.  The primary key      *)
(* keeps the response that is there; an error is only logged.              *)
Save(c) ==
    /\ pc[c] = "save"
    /\ Goto(c, "done")
    /\ \/ StatusCode(reply[c]) < 500 /\ SaveIdempotencyKey(Key(c), reply[c])
       \/ (MayFail \/ StatusCode(reply[c]) >= 500) /\ UNCHANGED saved
    /\ UNCHANGED <<status, external, request, recorded, reply>>

-----------------------------------------------------------------------------
(* CreatePaymentIntent: checks, then the INSERT, which makes a new id up. *)
CreatePaymentIntent(c) ==
    /\ pc[c] = "create"
    /\ \/ /\ request[c].fault # "none"
          /\ Respond(c, "rejected")
          /\ UNCHANGED status
       \/ /\ request[c].fault = "none"
          /\ \E i \in Intents : InsertPaymentIntent(i)
          /\ Respond(c, "created")
       \/ /\ request[c].fault = "none"
          /\ MayFail
          /\ Respond(c, "internal")
          /\ UNCHANGED status
    /\ UNCHANGED <<saved, external, request, recorded>>

(* Slip: a payment that has succeeded is charged again. *)
ReadForConfirmUnchecked(c) ==
    /\ pc[c] = "confirm"
    /\ status[Intent(c)] # "absent"
    /\ Goto(c, "charge")
    /\ UNCHANGED <<status, saved, external, request, recorded, reply>>

(* ConfirmPaymentIntent up to its decision: the body, the intent and that  *)
(* it has not succeeded.  Any other status lets the charge go ahead, and   *)
(* nobody looks whose intent it is.  A failed read says "not found".       *)
ReadForConfirm(c) ==
    LET refused == \/ request[c].fault = "body"
                   \/ GetPaymentIntent(Intent(c)) \in {"absent", "succeeded"}
    IN /\ pc[c] = "confirm"
       /\ \/ /\ refused
             /\ Respond(c, "rejected")
          \/ /\ ~refused
             /\ Goto(c, "charge")
             /\ UNCHANGED reply
          \/ /\ MayFail
             /\ Respond(c, "internal")
       /\ UNCHANGED <<status, saved, external, request, recorded>>

(* bankClient.Charge. *)
Charge(c) ==
    /\ pc[c] = "charge"
    /\ \/ charged' = charged \cup {c} /\ Goto(c, "settle")
       \/ MayFail /\ UNCHANGED charged /\ Goto(c, "decline")
    /\ UNCHANGED <<status, saved, topic, book, request, recorded, reply>>

(* The bank declined: UpdateStatus "failed", whatever became of it. *)
Decline(c) ==
    /\ pc[c] = "decline"
    /\ \/ UpdateStatus(Intent(c), "failed")
       \/ UNCHANGED status
    /\ Respond(c, "declined")
    /\ UNCHANGED <<saved, external, request, recorded>>

(* UpdateStatus "succeeded", whatever the status is by now. *)
Settle(c) ==
    /\ pc[c] = "settle"
    /\ \/ /\ UpdateStatus(Intent(c), "succeeded")
          /\ Goto(c, "announce")
          /\ UNCHANGED reply
       \/ /\ MayFail
          /\ Respond(c, "internal")
          /\ UNCHANGED status
    /\ UNCHANGED <<saved, external, request, recorded>>

(* The payment.succeeded event.  (The copy for the CLI goes to a Redis     *)
(* channel that keeps nothing.)                                            *)
Announce(c) ==
    /\ pc[c] = "announce"
    /\ Publish([type |-> "payment.succeeded", payment |-> Intent(c)])
    /\ Goto(c, "record")
    /\ UNCHANGED <<status, saved, charged, book, request, recorded, reply>>

(* One RecordTransaction call to the ledger, all under the intent's id;    *)
(* errors are logged.  After the last one the payment is reported.         *)
RecordShare(c) ==
    LET n == recorded[c] + 1
    IN /\ pc[c] = "record"
       /\ Post(PaymentRef(Intent(c)), EntriesOf(Shares(Intent(c))[n]))
       /\ recorded' = [recorded EXCEPT ![c] = n]
       /\ \/ n = Len(Shares(Intent(c))) /\ Respond(c, "paid")
          \/ n < Len(Shares(Intent(c))) /\ UNCHANGED <<pc, reply>>
       /\ UNCHANGED <<status, saved, charged, topic, request>>

(* Slip: the status of the intent is not looked at. *)
ReadForRefundUnchecked(c) ==
    /\ pc[c] = "refund"
    /\ Goto(c, "giveback")
    /\ UNCHANGED <<status, saved, external, request, recorded, reply>>

(* RefundPaymentIntent up to its decision; it reads no body. *)
ReadForRefund(c) ==
    /\ pc[c] = "refund"
    /\ \/ /\ GetPaymentIntent(Intent(c)) # "succeeded"
          /\ Respond(c, "rejected")
       \/ /\ GetPaymentIntent(Intent(c)) = "succeeded"
          /\ Goto(c, "giveback")
          /\ UNCHANGED reply
       \/ /\ MayFail
          /\ Respond(c, "internal")
    /\ UNCHANGED <<status, saved, external, request, recorded>>

(* UpdateStatus "refunded"; the bank is not asked for anything. *)
GiveBack(c) ==
    /\ pc[c] = "giveback"
    /\ \/ /\ UpdateStatus(Intent(c), "refunded")
          /\ Goto(c, "announceRefund")
          /\ UNCHANGED reply
       \/ /\ MayFail
          /\ Respond(c, "internal")
          /\ UNCHANGED status
    /\ UNCHANGED <<saved, external, request, recorded>>

AnnounceRefund(c) ==
    /\ pc[c] = "announceRefund"
    /\ Publish([type |-> "refund.completed", payment |-> Intent(c)])
    /\ Respond(c, "refunded")
    /\ UNCHANGED <<status, saved, charged, book, request, recorded>>

(* The replica serving the call stops. *)
Stop(c) ==
    /\ MayFail
    /\ pc[c] \notin {"idle", "done"}
    /\ Goto(c, "done")
    /\ UNCHANGED <<status, saved, external, request, recorded, reply>>

Serve(c) ==
    \/ Begin(c) \/ LookUp(c) \/ Save(c)
    \/ CreatePaymentIntent(c)
    \/ ReadForConfirm(c) \/ Charge(c) \/ Decline(c) \/ Settle(c)
    \/ Announce(c) \/ RecordShare(c)
    \/ ReadForRefund(c) \/ GiveBack(c) \/ AnnounceRefund(c)

Next == \E c \in Calls : Serve(c) \/ Stop(c)

Spec == Init /\ [][Next]_payVars

-----------------------------------------------------------------------------
ChargedFor(i) == {c \in charged : Intent(c) = i}

AnnouncedFor(i, type) == [type |-> type, payment |-> i] \in Range(topic)

Statuses == {"absent", "requires_payment_method", "failed", "succeeded", "refunded"}

Labels == {"idle", "lookup", "save", "create", "confirm", "charge", "decline",
           "settle", "announce", "record", "refund", "giveback",
           "announceRefund", "done"}

Events == [type : {"payment.succeeded", "refund.completed"}, payment : Intents]

(* The type of every variable. *)
TypeOK ==
    /\ status \in [Intents -> Statuses]
    /\ saved \in [Keys -> Responses \cup {"none"}]
    /\ charged \subseteq Calls
    /\ topic \in Seq(Events)
    /\ \A p \in book : DOMAIN p = {"ref", "entries"}
    /\ pc \in [Calls -> Labels]
    /\ request \in [Calls -> Requests]
    /\ recorded \in [Calls -> 0 .. 3]
    /\ reply \in [Calls -> Responses \cup {"none"}]

(* Nothing claims a payment the bank did not make: not the status of an    *)
(* intent, not an event, not a posting of the ledger, whichever handlers   *)
(* ran at once and wherever they failed.                                   *)
MoneyBehindEveryRecord ==
    \A i \in Intents :
        \/ status[i] \in {"succeeded", "refunded"}
        \/ \E type \in {"payment.succeeded", "refund.completed"} :
               AnnouncedFor(i, type)
        \/ PostedRef(PaymentRef(i))
        => ChargedFor(i) # {}

(* No call can still change the status of i away from "succeeded". *)
Settled(i) ==
    /\ status[i] = "succeeded"
    /\ \A c \in Calls :
          Intent(c) = i =>
             /\ pc[c] \notin {"charge", "decline", "settle"}
             /\ request[c].op # "refund" \/ pc[c] = "done"

(* A payment that has succeeded stays so and is not charged again, unless  *)
(* it is refunded or a confirm that read it earlier is still running.      *)
NoChargeOnceSettled ==
    [][\A i \in Intents :
          Settled(i) => Settled(i)' /\ ChargedFor(i)' = ChargedFor(i)]_payVars

-----------------------------------------------------------------------------
(* The inductive invariant: a handler is at a place of its own operation,  *)
(* and from the charge on, or after the refund's check, money was taken.   *)
AtOwnPlaces ==
    \A c \in Calls :
        /\ pc[c] \in {"confirm", "charge", "decline", "settle", "announce",
                      "record"} => request[c].op = "confirm"
        /\ pc[c] \in {"refund", "giveback", "announceRefund"} =>
              request[c].op = "refund"
        /\ pc[c] = "lookup" => Key(c) # NoKey

MoneyBehindEveryHandler ==
    \A c \in Calls :
        /\ pc[c] \in {"settle", "announce", "record"} => c \in charged
        /\ pc[c] \in {"giveback", "announceRefund"} =>
              ChargedFor(Intent(c)) # {}

PayInv ==
    /\ TypeOK
    /\ AtOwnPlaces
    /\ MoneyBehindEveryHandler
    /\ MoneyBehindEveryRecord

-----------------------------------------------------------------------------
(* What the documentation says and the code does not do.                   *)

(* "IdempotencyMiddleware wraps a handler to ensure idempotency": requests *)
(* that carry the same key take money once.                                *)
OneChargePerKey ==
    \A c, d \in charged : Key(c) = Key(d) /\ Key(c) # NoKey => c = d
=============================================================================
