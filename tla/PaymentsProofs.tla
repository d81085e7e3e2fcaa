--------------------------- MODULE PaymentsProofs ---------------------------
(***************************************************************************)
(* Proofs about Payments, for any set of concurrent requests, intents,     *)
(* keys, amounts and fees, with or without failures, and about what the    *)
(* Kafka consumer of PaymentPipeline adds to it.                           *)
(***************************************************************************)
EXTENDS PaymentPipeline, TLAPS

(* What the assumption on Requests says of a single request. *)
LEMMA CallType ==
    ASSUME TypeOK, NEW c \in Calls
    PROVE  /\ Intent(c) \in Intents
           /\ Key(c) \in Keys \cup {NoKey}
           /\ request[c].op \in {"create", "confirm", "refund"}
           /\ request[c].fault \in {"none", "body", "user"}
  BY PaymentRequestsAssumption DEF TypeOK, Intent, Key

(* An event that is published joins the events of the topic. *)
LEMMA RangeOfAppend ==
    ASSUME NEW S, NEW s \in Seq(S), NEW e \in S
    PROVE  /\ Append(s, e) \in Seq(S)
           /\ Range(Append(s, e)) = Range(s) \cup {e}
  <1>1. Append(s, e) \in Seq(S)
    OBVIOUS
  <1>2. /\ DOMAIN s = 1 .. Len(s) /\ Len(s) \in Nat
        /\ DOMAIN Append(s, e) = 1 .. Len(s) + 1
        /\ \A i \in 1 .. Len(s) : Append(s, e)[i] = s[i]
        /\ Append(s, e)[Len(s) + 1] = e
    OBVIOUS
  <1>3. ASSUME NEW x \in Range(Append(s, e)) PROVE x \in Range(s) \cup {e}
    <2>1. PICK i \in DOMAIN Append(s, e) : x = Append(s, e)[i]
      BY DEF Range
    <2>2. i \in 1 .. Len(s) \/ i = Len(s) + 1
      BY <1>2, <2>1
    <2>3. QED
      BY <1>2, <2>1, <2>2 DEF Range
  <1>4. ASSUME NEW x \in Range(s) PROVE x \in Range(Append(s, e))
    <2>1. PICK i \in DOMAIN s : x = s[i]
      BY DEF Range
    <2>2. i \in DOMAIN Append(s, e) /\ Append(s, e)[i] = x
      BY <1>2, <2>1
    <2>3. QED
      BY <2>2 DEF Range
  <1>5. e \in Range(Append(s, e))
    BY <1>2 DEF Range
  <1>6. QED
    BY <1>1, <1>3, <1>4, <1>5

(* No step of a call touches the requests or forgets a charge. *)
LEMMA ChargesStay ==
    ASSUME NEW c \in Calls, Serve(c) \/ Stop(c)
    PROVE  request' = request /\ charged \subseteq charged'
  BY DEF Serve, Stop, Begin, LookUp, Save, CreatePaymentIntent, ReadForConfirm,
         Charge, Decline, Settle, Announce, RecordShare, ReadForRefund,
         GiveBack, AnnounceRefund, external

LEMMA PayInitInv == Init => PayInv
  <1> SUFFICES ASSUME Init PROVE PayInv
    OBVIOUS
  <1>1. TypeOK
    BY DEF Init, TypeOK, Statuses, Labels
  <1>2. AtOwnPlaces /\ MoneyBehindEveryHandler
    BY DEF Init, AtOwnPlaces, MoneyBehindEveryHandler
  <1>3. MoneyBehindEveryRecord
    <2>1. Range(topic) = {}
      BY DEF Init, Range
    <2>2. QED
      BY <2>1 DEF Init, MoneyBehindEveryRecord, AnnouncedFor, PostedRef
  <1>4. QED
    BY <1>1, <1>2, <1>3 DEF PayInv

-----------------------------------------------------------------------------
(* Type correctness, one step per action. *)
LEMMA RespondType ==
    ASSUME TypeOK, NEW c \in Calls, NEW r \in Responses \cup {"none"},
           Respond(c, r) \/ Answer(c, r)
    PROVE  /\ reply' \in [Calls -> Responses \cup {"none"}]
           /\ pc' \in [Calls -> Labels]
  <1>1. PICK label \in {"done", "save"} :
              /\ reply' = [reply EXCEPT ![c] = r]
              /\ pc' = [pc EXCEPT ![c] = label]
    BY DEF Respond, Answer, Goto
  <1>2. label \in Labels
    BY DEF Labels
  <1>3. QED
    BY <1>1, <1>2 DEF TypeOK

LEMMA SharesBound == \A i : Len(Shares(i)) \in 1 .. 3
  BY DEF Shares

LEMMA TypeKept ==
    ASSUME PayInv, NEW c \in Calls, Serve(c) \/ Stop(c)
    PROVE  TypeOK'
  <1> USE DEF PayInv
  <1>0. /\ TypeOK /\ Intent(c) \in Intents
        /\ request[c].op \in {"create", "confirm", "refund"}
        /\ {"created", "paid", "declined", "refunded", "rejected", "internal",
            "none"} = Responses \cup {"none"}
    BY CallType DEF Responses
  <1>1. CASE Begin(c)
    <2>1. CASE Answer(c, "rejected")
      BY <1>0, <1>1, <2>1, RespondType DEF Begin, external, TypeOK
    <2>2. CASE ~Answer(c, "rejected")
      BY <1>0, <1>1, <2>2 DEF Begin, external, TypeOK, Goto, Labels
    <2>3. QED
      BY <2>1, <2>2
  <1>2. CASE LookUp(c)
    <2>1. Key(c) \in Keys
      BY <1>2, CallType DEF LookUp, AtOwnPlaces
    <2>2. saved[Key(c)] \in Responses \cup {"none"}
      BY <2>1 DEF TypeOK
    <2>3. CASE Answer(c, saved[Key(c)]) \/ Answer(c, "internal")
      BY <1>0, <1>2, <2>2, <2>3, RespondType DEF LookUp, external, TypeOK
    <2>4. CASE Goto(c, request[c].op) /\ UNCHANGED reply
      BY <1>0, <1>2, <2>4 DEF LookUp, external, TypeOK, Goto, Labels
    <2>5. QED
      BY <1>2, <2>3, <2>4 DEF LookUp, GetIdempotencyKey
  <1>3. CASE Save(c)
    <2>1. reply[c] \in Responses \cup {"none"}
      BY DEF TypeOK
    <2>2. saved' \in [Keys -> Responses \cup {"none"}]
      BY <1>3, <2>1 DEF Save, SaveIdempotencyKey, TypeOK
    <2>3. QED
      BY <1>3, <2>2 DEF Save, external, TypeOK, Goto, Labels
  <1>4. CASE CreatePaymentIntent(c)
    <2>1. status' \in [Intents -> Statuses]
      BY <1>4 DEF CreatePaymentIntent, InsertPaymentIntent, TypeOK, Statuses
    <2>2. QED
      BY <1>0, <1>4, <2>1, RespondType DEF CreatePaymentIntent, external, TypeOK
  <1>5. CASE ReadForConfirm(c)
    <2>1. CASE Goto(c, "charge") /\ UNCHANGED reply
      BY <1>5, <2>1 DEF ReadForConfirm, external, TypeOK, Goto, Labels
    <2>2. CASE Respond(c, "rejected") \/ Respond(c, "internal")
      BY <1>0, <1>5, <2>2, RespondType DEF ReadForConfirm, external, TypeOK
    <2>3. QED
      BY <1>5, <2>1, <2>2 DEF ReadForConfirm
  <1>6. CASE Charge(c)
    BY <1>6 DEF Charge, TypeOK, Goto, Labels
  <1>7. CASE Decline(c)
    <2>1. status' \in [Intents -> Statuses]
      BY <1>7 DEF Decline, UpdateStatus, TypeOK, Statuses
    <2>2. QED
      BY <1>0, <1>7, <2>1, RespondType DEF Decline, external, TypeOK
  <1>8. CASE Settle(c)
    <2>1. status' \in [Intents -> Statuses]
      BY <1>8 DEF Settle, UpdateStatus, TypeOK, Statuses
    <2>2. CASE Respond(c, "internal")
      BY <1>0, <1>8, <2>1, <2>2, RespondType DEF Settle, external, TypeOK
    <2>3. CASE Goto(c, "announce") /\ UNCHANGED reply
      BY <1>8, <2>1, <2>3 DEF Settle, external, TypeOK, Goto, Labels
    <2>4. QED
      BY <1>8, <2>2, <2>3 DEF Settle
  <1>9. CASE Announce(c)
    <2>1. [type |-> "payment.succeeded", payment |-> Intent(c)] \in Events
      BY <1>0 DEF Events
    <2>2. topic' \in Seq(Events)
      BY <1>9, <2>1, RangeOfAppend DEF Announce, Publish, TypeOK
    <2>3. QED
      BY <1>9, <2>2 DEF Announce, TypeOK, Goto, Labels
  <1>10. CASE RecordShare(c)
    <2> DEFINE n == recorded[c] + 1
    <2>1. n \in 0 .. 3
      BY <1>10, SharesBound DEF RecordShare, TypeOK
    <2>2. recorded' \in [Calls -> 0 .. 3]
      BY <1>10, <2>1 DEF RecordShare, TypeOK
    <2>3. \A p \in book' : DOMAIN p = {"ref", "entries"}
      BY <1>10 DEF RecordShare, Post, TypeOK
    <2>4. CASE Respond(c, "paid")
      BY <1>0, <1>10, <2>2, <2>3, <2>4, RespondType DEF RecordShare, TypeOK
    <2>5. CASE UNCHANGED <<pc, reply>>
      BY <1>10, <2>2, <2>3, <2>5 DEF RecordShare, TypeOK
    <2>6. QED
      BY <1>10, <2>4, <2>5 DEF RecordShare
  <1>11. CASE ReadForRefund(c)
    <2>1. CASE Goto(c, "giveback") /\ UNCHANGED reply
      BY <1>11, <2>1 DEF ReadForRefund, external, TypeOK, Goto, Labels
    <2>2. CASE Respond(c, "rejected") \/ Respond(c, "internal")
      BY <1>0, <1>11, <2>2, RespondType DEF ReadForRefund, external, TypeOK
    <2>3. QED
      BY <1>11, <2>1, <2>2 DEF ReadForRefund
  <1>12. CASE GiveBack(c)
    <2>1. status' \in [Intents -> Statuses]
      BY <1>12 DEF GiveBack, UpdateStatus, TypeOK, Statuses
    <2>2. CASE Respond(c, "internal")
      BY <1>0, <1>12, <2>1, <2>2, RespondType DEF GiveBack, external, TypeOK
    <2>3. CASE Goto(c, "announceRefund") /\ UNCHANGED reply
      BY <1>12, <2>1, <2>3 DEF GiveBack, external, TypeOK, Goto, Labels
    <2>4. QED
      BY <1>12, <2>2, <2>3 DEF GiveBack
  <1>13. CASE AnnounceRefund(c)
    <2>1. [type |-> "refund.completed", payment |-> Intent(c)] \in Events
      BY <1>0 DEF Events
    <2>2. topic' \in Seq(Events)
      BY <1>13, <2>1, RangeOfAppend DEF AnnounceRefund, Publish, TypeOK
    <2>3. QED
      BY <1>0, <1>13, <2>2, RespondType DEF AnnounceRefund, TypeOK
  <1>14. CASE Stop(c)
    BY <1>14 DEF Stop, external, TypeOK, Goto, Labels
  <1>15. QED
    BY <1>1, <1>2, <1>3, <1>4, <1>5, <1>6, <1>7, <1>8, <1>9, <1>10, <1>11,
       <1>12, <1>13, <1>14 DEF Serve

-----------------------------------------------------------------------------
(* Where a call goes next belongs to the operation it was asked for. *)
LEMMA PlacesKept ==
    ASSUME PayInv, NEW c \in Calls, Serve(c) \/ Stop(c)
    PROVE  AtOwnPlaces'
  <1> USE DEF PayInv
  <1>0. /\ pc \in [Calls -> Labels]
        /\ request' = request
        /\ request[c].op \in {"create", "confirm", "refund"}
    BY ChargesStay, CallType DEF TypeOK
  <1>1. PICK label : pc' = [pc EXCEPT ![c] = label] /\
          \/ label \in {"done", "save"}
          \/ label = request[c].op
          \/ label = "lookup" /\ Key(c) # NoKey
          \/ pc[c] = "confirm" /\ label = "charge"
          \/ pc[c] = "charge" /\ label \in {"settle", "decline"}
          \/ pc[c] = "settle" /\ label = "announce"
          \/ pc[c] = "announce" /\ label = "record"
          \/ pc[c] = "record" /\ label = "record"
          \/ pc[c] = "refund" /\ label = "giveback"
          \/ pc[c] = "giveback" /\ label = "announceRefund"
    <2>1. CASE Stop(c)
      BY <2>1 DEF Stop, Goto
    <2>2. CASE RecordShare(c)
      <3>1. UNCHANGED pc => pc' = [pc EXCEPT ![c] = "record"]
        BY <1>0, <2>2 DEF RecordShare
      <3>2. QED
        BY <2>2, <3>1 DEF RecordShare, Respond, Goto
    <2>3. CASE Begin(c) \/ LookUp(c)
      BY <2>3 DEF Begin, LookUp, Answer, Goto
    <2>4. CASE Save(c) \/ CreatePaymentIntent(c)
      BY <2>4 DEF Save, CreatePaymentIntent, Respond, Goto
    <2>5. CASE ReadForConfirm(c) \/ Charge(c) \/ Decline(c) \/ Settle(c)
      BY <2>5 DEF ReadForConfirm, Charge, Decline, Settle, Respond, Goto
    <2>6. CASE Announce(c)
      BY <2>6 DEF Announce, Goto
    <2>7. CASE ReadForRefund(c) \/ GiveBack(c) \/ AnnounceRefund(c)
      BY <2>7 DEF ReadForRefund, GiveBack, AnnounceRefund, Respond, Goto
    <2>8. QED
      BY <2>1, <2>2, <2>3, <2>4, <2>5, <2>6, <2>7 DEF Serve
  <1>2. \A d \in Calls : pc'[d] = IF d = c THEN label ELSE pc[d]
    BY <1>0, <1>1
  <1>3. QED
    BY <1>0, <1>1, <1>2 DEF AtOwnPlaces, Key

(* Money that was taken stays taken. *)
LEMMA BackingStays ==
    ASSUME NEW i, request' = request, charged \subseteq charged',
           ChargedFor(i) # {}
    PROVE  ChargedFor(i)' # {}
  BY DEF ChargedFor, Intent

(* The records stay backed when whatever a step adds to them is.  *)
LEMMA RecordsKept ==
    ASSUME MoneyBehindEveryRecord, request' = request,
           charged \subseteq charged', NEW j \in Intents,
           ChargedFor(j)' # {},
           \A i \in Intents \ {j} :
              /\ status'[i] \in {"succeeded", "refunded"} =>
                    status[i] \in {"succeeded", "refunded"}
              /\ \A type : AnnouncedFor(i, type)' => AnnouncedFor(i, type)
              /\ PostedRef(PaymentRef(i))' => PostedRef(PaymentRef(i))
    PROVE  MoneyBehindEveryRecord'
  BY BackingStays DEF MoneyBehindEveryRecord

(* They stay backed when nothing is added. *)
LEMMA RecordsUntouched ==
    ASSUME MoneyBehindEveryRecord, request' = request,
           charged \subseteq charged', UNCHANGED <<topic, book>>,
           \A i \in Intents :
              status'[i] \in {"succeeded", "refunded"} =>
                 status[i] \in {"succeeded", "refunded"}
    PROVE  MoneyBehindEveryRecord'
  <1>1. \A i \in Intents :
           /\ \A type : AnnouncedFor(i, type)' => AnnouncedFor(i, type)
           /\ PostedRef(PaymentRef(i))' => PostedRef(PaymentRef(i))
    BY DEF AnnouncedFor, PostedRef, PaymentRef
  <1>2. QED
    BY <1>1, BackingStays DEF MoneyBehindEveryRecord

(* A posting of the ledger concerns one reference. *)
LEMMA PostAddsOne ==
    ASSUME NEW ref, NEW es, Post(ref, es), NEW other, PostedRef(other)'
    PROVE  PostedRef(other) \/ other = ref
  BY DEF Post, PostedRef

(* A publication concerns one payment. *)
LEMMA PublishAddsOne ==
    ASSUME TypeOK, NEW t \in {"payment.succeeded", "refund.completed"},
           NEW j \in Intents, Publish([type |-> t, payment |-> j]),
           NEW i \in Intents, NEW type, AnnouncedFor(i, type)', i # j
    PROVE  AnnouncedFor(i, type)
  <1>1. [type |-> t, payment |-> j] \in Events
    BY DEF Events
  <1>2. Range(topic') \subseteq Range(topic) \cup {[type |-> t, payment |-> j]}
    <2>1. Range(Append(topic, [type |-> t, payment |-> j])) =
             Range(topic) \cup {[type |-> t, payment |-> j]}
      BY <1>1, RangeOfAppend DEF TypeOK
    <2>2. \/ topic' = Append(topic, [type |-> t, payment |-> j])
          \/ topic' = topic
      BY DEF Publish
    <2>3. QED
      BY <2>1, <2>2
  <1>3. [type |-> type, payment |-> i] # [type |-> t, payment |-> j]
    OBVIOUS
  <1>4. QED
    BY <1>2, <1>3 DEF AnnouncedFor

LEMMA MoneyKept ==
    ASSUME PayInv, NEW c \in Calls, Serve(c) \/ Stop(c)
    PROVE  MoneyBehindEveryRecord' /\ MoneyBehindEveryHandler'
  <1> USE DEF PayInv
  <1>0. /\ pc \in [Calls -> Labels] /\ status \in [Intents -> Statuses]
        /\ request' = request /\ charged \subseteq charged'
        /\ Intent(c) \in Intents /\ Intent(c)' = Intent(c)
        /\ request[c].op \in {"create", "confirm", "refund"}
    BY ChargesStay, CallType DEF TypeOK, Intent
  <1> DEFINE Backed(d, label) ==
        /\ label \in {"settle", "announce", "record"} => d \in charged'
        /\ label \in {"giveback", "announceRefund"} => ChargedFor(Intent(d))' # {}
  <1>1. ASSUME NEW label, pc' = [pc EXCEPT ![c] = label], Backed(c, label)
        PROVE  MoneyBehindEveryHandler'
    <2>1. \A d \in Calls : pc'[d] = IF d = c THEN label ELSE pc[d]
      BY <1>0, <1>1
    <2>2. \A d \in Calls : Intent(d)' = Intent(d)
      BY <1>0 DEF Intent
    <2>3. \A d \in Calls \ {c} : Backed(d, pc[d])
      BY <1>0, <2>2, BackingStays DEF MoneyBehindEveryHandler
    <2>4. QED
      BY <1>1, <2>1, <2>2, <2>3 DEF MoneyBehindEveryHandler
  <1>2. ASSUME pc[c] \in {"settle", "announce", "record"}
        PROVE  c \in charged' /\ ChargedFor(Intent(c))' # {}
    BY <1>0, <1>2 DEF MoneyBehindEveryHandler, ChargedFor
  <1>3. ASSUME pc[c] \in {"giveback", "announceRefund"}
        PROVE  ChargedFor(Intent(c))' # {}
    BY <1>0, <1>3, BackingStays DEF MoneyBehindEveryHandler
  <1>4. ASSUME NEW r, Respond(c, r) \/ Answer(c, r)
        PROVE  MoneyBehindEveryHandler'
    BY <1>1, <1>4 DEF Respond, Answer, Goto
  <1>5. CASE Begin(c) \/ LookUp(c)
    <2>1. MoneyBehindEveryRecord'
      BY <1>0, <1>5, RecordsUntouched DEF Begin, LookUp, external
    <2>2. CASE \E r : Answer(c, r)
      BY <1>4, <2>1, <2>2
    <2>3. CASE Goto(c, request[c].op) \/ Goto(c, "lookup")
      BY <1>0, <1>1, <2>1, <2>3 DEF Goto
    <2>4. QED
      BY <1>5, <2>2, <2>3 DEF Begin, LookUp
  <1>6. CASE Save(c) \/ Stop(c)
    <2>1. MoneyBehindEveryRecord'
      BY <1>0, <1>6, RecordsUntouched DEF Save, Stop, external
    <2>2. QED
      BY <1>1, <1>6, <2>1 DEF Save, Stop, Goto
  <1>7. CASE CreatePaymentIntent(c)
    <2>1. \A i \in Intents : status'[i] \in {"succeeded", "refunded"} =>
                             status[i] \in {"succeeded", "refunded"}
      BY <1>0, <1>7 DEF CreatePaymentIntent, InsertPaymentIntent
    <2>2. MoneyBehindEveryRecord'
      BY <1>0, <1>7, <2>1, RecordsUntouched DEF CreatePaymentIntent, external
    <2>3. QED
      BY <1>4, <1>7, <2>2 DEF CreatePaymentIntent
  <1>8. CASE ReadForConfirm(c)
    <2>1. MoneyBehindEveryRecord'
      BY <1>0, <1>8, RecordsUntouched DEF ReadForConfirm, external
    <2>2. CASE Goto(c, "charge")
      BY <1>1, <2>1, <2>2 DEF Goto
    <2>3. QED
      BY <1>4, <1>8, <2>1, <2>2 DEF ReadForConfirm
  <1>9. CASE Charge(c)
    <2>1. MoneyBehindEveryRecord'
      BY <1>0, <1>9, RecordsUntouched DEF Charge
    <2>2. QED
      BY <1>1, <1>9, <2>1 DEF Charge, Goto
  <1>10. CASE Decline(c)
    <2>1. \A i \in Intents : status'[i] \in {"succeeded", "refunded"} =>
                             status[i] \in {"succeeded", "refunded"}
      BY <1>0, <1>10 DEF Decline, UpdateStatus
    <2>2. MoneyBehindEveryRecord'
      BY <1>0, <1>10, <2>1, RecordsUntouched DEF Decline, external
    <2>3. QED
      BY <1>4, <1>10, <2>2 DEF Decline
  <1>11. CASE Settle(c)
    <2>1. pc[c] = "settle" /\ UNCHANGED <<topic, book>>
      BY <1>11 DEF Settle, external
    <2>2. \A i \in Intents \ {Intent(c)} : status'[i] = status[i]
      BY <1>0, <1>11 DEF Settle, UpdateStatus
    <2>3. MoneyBehindEveryRecord'
      BY <1>0, <1>2, <2>1, <2>2, RecordsKept
         DEF AnnouncedFor, PostedRef, PaymentRef
    <2>4. CASE Goto(c, "announce")
      BY <1>1, <1>2, <2>1, <2>3, <2>4 DEF Goto
    <2>5. QED
      BY <1>4, <1>11, <2>3, <2>4 DEF Settle
  <1>12. CASE Announce(c)
    <2>1. /\ pc[c] = "announce" /\ UNCHANGED <<status, book>>
          /\ Publish([type |-> "payment.succeeded", payment |-> Intent(c)])
      BY <1>12 DEF Announce
    <2>2. MoneyBehindEveryRecord'
      BY <1>0, <1>2, <2>1, PublishAddsOne, RecordsKept DEF PostedRef, PaymentRef
    <2>3. QED
      BY <1>1, <1>2, <1>12, <2>1, <2>2 DEF Announce, Goto
  <1>13. CASE RecordShare(c)
    <2>1. PICK es : /\ pc[c] = "record" /\ UNCHANGED <<status, topic>>
                    /\ Post(PaymentRef(Intent(c)), es)
      BY <1>13 DEF RecordShare
    <2>2. \A i \in Intents \ {Intent(c)} :
             PostedRef(PaymentRef(i))' => PostedRef(PaymentRef(i))
      <3>1. SUFFICES ASSUME NEW i \in Intents \ {Intent(c)},
                            PostedRef(PaymentRef(i))'
                     PROVE  PostedRef(PaymentRef(i))
        OBVIOUS
      <3>2. PaymentRef(i) # PaymentRef(Intent(c))
        BY DEF PaymentRef
      <3>3. QED
        BY <2>1, <3>1, <3>2 DEF Post, PostedRef
    <2>3. MoneyBehindEveryRecord'
      BY <1>0, <1>2, <2>1, <2>2, RecordsKept DEF AnnouncedFor
    <2>4. CASE UNCHANGED pc
      <3>1. pc' = [pc EXCEPT ![c] = "record"]
        BY <1>0, <2>1, <2>4
      <3>2. QED
        BY <1>1, <1>2, <2>1, <2>3, <3>1
    <2>5. QED
      BY <1>4, <1>13, <2>3, <2>4 DEF RecordShare
  <1>14. CASE ReadForRefund(c)
    <2>1. MoneyBehindEveryRecord'
      BY <1>0, <1>14, RecordsUntouched DEF ReadForRefund, external
    <2>2. CASE Goto(c, "giveback") /\ status[Intent(c)] = "succeeded"
      <3>1. ChargedFor(Intent(c))' # {}
        BY <1>0, <2>2, BackingStays DEF MoneyBehindEveryRecord
      <3>2. QED
        BY <1>1, <2>1, <2>2, <3>1 DEF Goto
    <2>3. QED
      BY <1>4, <1>14, <2>1, <2>2 DEF ReadForRefund, GetPaymentIntent
  <1>15. CASE GiveBack(c)
    <2>1. pc[c] = "giveback" /\ UNCHANGED <<topic, book>>
      BY <1>15 DEF GiveBack, external
    <2>2. \A i \in Intents \ {Intent(c)} : status'[i] = status[i]
      BY <1>0, <1>15 DEF GiveBack, UpdateStatus
    <2>3. MoneyBehindEveryRecord'
      BY <1>0, <1>3, <2>1, <2>2, RecordsKept
         DEF AnnouncedFor, PostedRef, PaymentRef
    <2>4. CASE Goto(c, "announceRefund")
      BY <1>1, <1>3, <2>1, <2>3, <2>4 DEF Goto
    <2>5. QED
      BY <1>4, <1>15, <2>3, <2>4 DEF GiveBack
  <1>16. CASE AnnounceRefund(c)
    <2>1. /\ pc[c] = "announceRefund" /\ UNCHANGED <<status, book>>
          /\ Publish([type |-> "refund.completed", payment |-> Intent(c)])
      BY <1>16 DEF AnnounceRefund
    <2>2. MoneyBehindEveryRecord'
      BY <1>0, <1>3, <2>1, PublishAddsOne, RecordsKept DEF PostedRef, PaymentRef
    <2>3. QED
      BY <1>4, <1>16, <2>2 DEF AnnounceRefund
  <1>17. QED
    BY <1>5, <1>6, <1>7, <1>8, <1>9, <1>10, <1>11, <1>12, <1>13, <1>14, <1>15,
       <1>16 DEF Serve

LEMMA StutterPayInv == ASSUME PayInv, UNCHANGED payVars PROVE PayInv'
  BY DEF payVars, PayInv, TypeOK, AtOwnPlaces, Key, Intent, ChargedFor,
         MoneyBehindEveryHandler, MoneyBehindEveryRecord,
         AnnouncedFor, PostedRef, PaymentRef

(* Every handler is at a place of its operation, and money was taken       *)
(* before anything said so.                                                *)
THEOREM PayInvHolds == Spec => []PayInv
  <1>1. PayInv /\ [Next]_payVars => PayInv'
    <2> SUFFICES ASSUME PayInv, [Next]_payVars PROVE PayInv'
      OBVIOUS
    <2>1. ASSUME NEW c \in Calls, Serve(c) \/ Stop(c) PROVE PayInv'
      BY <2>1, TypeKept, PlacesKept, MoneyKept DEF PayInv
    <2>2. CASE UNCHANGED payVars
      BY <2>2, StutterPayInv
    <2>3. QED
      BY <2>1, <2>2 DEF Next
  <1>2. QED
    BY <1>1, PayInitInv, PTL DEF Spec

(* Nothing claims a payment the bank did not make. *)
THEOREM MoneyFirst == Spec => []MoneyBehindEveryRecord
  <1>1. PayInv => MoneyBehindEveryRecord
    BY DEF PayInv
  <1>2. QED
    BY <1>1, PayInvHolds, PTL

(* A step of a call leaves a settled payment alone. *)
LEMMA SettledStays ==
    ASSUME PayInv, NEW c \in Calls, Serve(c) \/ Stop(c), NEW i \in Intents, Settled(i)
    PROVE  Settled(i)' /\ ChargedFor(i)' = ChargedFor(i)
  <1> USE DEF PayInv
  <1>0. /\ pc \in [Calls -> Labels] /\ status \in [Intents -> Statuses]
        /\ request' = request /\ \A d \in Calls : Intent(d)' = Intent(d)
        /\ Intent(c) \in Intents
        /\ request[c].op \in {"create", "confirm", "refund"}
    BY ChargesStay, CallType DEF TypeOK, Intent
  <1>1. /\ status[i] = "succeeded"
        /\ Intent(c) = i => /\ pc[c] \notin {"charge", "decline", "settle"}
                            /\ request[c].op # "refund" \/ pc[c] = "done"
    BY DEF Settled
  <1>2. Intent(c) = i => pc[c] \notin {"refund", "giveback", "announceRefund"}
    BY <1>1 DEF AtOwnPlaces
  <1>3. pc[c] # "done"
    BY DEF Serve, Stop, Begin, LookUp, Save, CreatePaymentIntent,
                ReadForConfirm, Charge, Decline, Settle, Announce,
                RecordShare, ReadForRefund, GiveBack, AnnounceRefund
  <1>4. status'[i] = "succeeded"
    <2>1. CASE CreatePaymentIntent(c)
      BY <1>0, <1>1, <2>1 DEF CreatePaymentIntent, InsertPaymentIntent
    <2>2. CASE Decline(c) \/ Settle(c)
      BY <1>0, <1>1, <2>2 DEF Decline, Settle, UpdateStatus
    <2>3. CASE GiveBack(c)
      BY <1>0, <1>1, <1>2, <2>3 DEF GiveBack, UpdateStatus
    <2>4. CASE UNCHANGED status
      BY <1>1, <2>4
    <2>5. QED
      BY <2>1, <2>2, <2>3, <2>4
         DEF Serve, Stop, Begin, LookUp, Save, ReadForConfirm, Charge,
             Announce, RecordShare, ReadForRefund, AnnounceRefund
  <1>5. ChargedFor(i)' = ChargedFor(i)
    <2>1. CASE Charge(c)
      BY <1>0, <1>1, <2>1 DEF Charge, ChargedFor, Intent
    <2>2. CASE UNCHANGED charged
      BY <1>0, <2>2 DEF ChargedFor, Intent
    <2>3. QED
      BY <2>1, <2>2
         DEF Serve, Stop, Begin, LookUp, Save, CreatePaymentIntent,
             ReadForConfirm, Decline, Settle, Announce, RecordShare,
             ReadForRefund, GiveBack, AnnounceRefund, external
  <1>6. ASSUME Intent(c) = i
        PROVE  /\ pc'[c] \notin {"charge", "decline", "settle"}
               /\ request[c].op # "refund" \/ pc'[c] = "done"
    <2>1. request[c].op # "refund"
      BY <1>1, <1>3, <1>6
    <2>2. PICK label : /\ pc' = [pc EXCEPT ![c] = label]
                       /\ \/ label \in {"done", "save", "lookup", "announce",
                                        "record", "announceRefund", "giveback"}
                          \/ label = request[c].op
      <3>1. CASE RecordShare(c)
        <4>1. UNCHANGED pc => pc' = [pc EXCEPT ![c] = "record"]
          BY <1>0, <3>1 DEF RecordShare
        <4>2. QED
          BY <3>1, <4>1 DEF RecordShare, Respond, Goto
      <3>2. CASE ReadForConfirm(c)
        BY <1>1, <1>6, <3>2 DEF ReadForConfirm, GetPaymentIntent, Respond, Goto
      <3>3. CASE Begin(c) \/ LookUp(c) \/ Save(c) \/ Stop(c)
        BY <3>3 DEF Begin, LookUp, Save, Stop, Answer, Goto
      <3>4. CASE \/ CreatePaymentIntent(c) \/ Announce(c)
                 \/ ReadForRefund(c) \/ GiveBack(c) \/ AnnounceRefund(c)
        BY <3>4 DEF CreatePaymentIntent, Announce, ReadForRefund, GiveBack,
                    AnnounceRefund, Respond, Goto
      <3>5. CASE Charge(c) \/ Decline(c) \/ Settle(c)
        BY <1>1, <1>6, <3>5 DEF Charge, Decline, Settle
      <3>6. QED
        BY <3>1, <3>2, <3>3, <3>4, <3>5 DEF Serve
    <2>3. pc'[c] = label
      BY <1>0, <2>2
    <2>4. QED
      BY <1>0, <2>1, <2>2, <2>3
  <1>7. \A d \in Calls \ {c} : pc'[d] = pc[d]
    BY <1>0
       DEF Serve, Stop, Begin, LookUp, Save, CreatePaymentIntent, Charge,
           ReadForConfirm, Decline, Settle, Announce, RecordShare, Goto,
           ReadForRefund, GiveBack, AnnounceRefund, Respond, Answer
  <1>8. ASSUME NEW d \in Calls, Intent(d)' = i
        PROVE  /\ pc'[d] \notin {"charge", "decline", "settle"}
               /\ request'[d].op # "refund" \/ pc'[d] = "done"
    BY <1>0, <1>6, <1>7, <1>8 DEF Settled
  <1>9. QED
    BY <1>4, <1>5, <1>8 DEF Settled

(* What a payment has come to is left alone once nobody can change it. *)
THEOREM SettledForGood == Spec => NoChargeOnceSettled
  <1> DEFINE Kept(i) == Settled(i) => Settled(i)' /\ ChargedFor(i)' = ChargedFor(i)
  <1>1. ASSUME UNCHANGED payVars, NEW i \in Intents PROVE Kept(i)
    BY <1>1 DEF payVars, Settled, ChargedFor, Intent
  <1>2. PayInv /\ [Next]_payVars => [\A i \in Intents : Kept(i)]_payVars
    BY <1>1, SettledStays DEF Next
  <1>3. QED
    BY <1>2, PayInvHolds, PTL DEF Spec, NoChargeOnceSettled

-----------------------------------------------------------------------------
(* The Kafka consumer posts to the ledger as well, under the reference it  *)
(* finds in the event, which is empty; no intent has an empty id.          *)
LEMMA ConsumerInv ==
    ASSUME "" \notin Intents, PayInv, NEW event \in Events, HandleEvent(event)
    PROVE  PayInv'
  <1> USE DEF PayInv
  <1>1. UNCHANGED <<status, saved, charged, topic, pc, request, recorded, reply>>
    BY DEF HandleEvent
  <1>2. PICK es : \/ UNCHANGED book
                  \/ book' = book \cup {[ref |-> PaymentRef(""), entries |-> es]}
    BY DEF HandleEvent, Post, EventRef
  <1>3. \A p \in book' : DOMAIN p = {"ref", "entries"}
    <2>1. \A p \in book : DOMAIN p = {"ref", "entries"}
      BY DEF TypeOK
    <2>2. DOMAIN [ref |-> PaymentRef(""), entries |-> es] = {"ref", "entries"}
      OBVIOUS
    <2>3. QED
      BY <1>2, <2>1, <2>2
  <1>4. TypeOK' /\ AtOwnPlaces' /\ MoneyBehindEveryHandler'
    BY <1>1, <1>3 DEF TypeOK, AtOwnPlaces, Key, MoneyBehindEveryHandler,
                      ChargedFor, Intent
  <1>5. \A i \in Intents : PostedRef(PaymentRef(i))' => PostedRef(PaymentRef(i))
    <2>1. SUFFICES ASSUME NEW i \in Intents, NEW p \in book',
                          p.ref = PaymentRef(i)
                   PROVE  p \in book
      BY DEF PostedRef, PaymentRef
    <2>2. PaymentRef(i) # PaymentRef("")
      BY DEF PaymentRef
    <2>3. [ref |-> PaymentRef(""), entries |-> es].ref = PaymentRef("")
      OBVIOUS
    <2>4. QED
      BY <1>2, <2>1, <2>2, <2>3
  <1>6. MoneyBehindEveryRecord'
    BY <1>1, <1>5 DEF MoneyBehindEveryRecord, AnnouncedFor, ChargedFor, Intent
  <1>7. QED
    BY <1>4, <1>6

(* A step of the pipeline is one of a call, one of the consumer, or one    *)
(* that leaves the payments and the ledger alone.                          *)
LEMMA PipelineSteps ==
    ASSUME [PipelineNext]_pipeVars
    PROVE  \/ \E c \in Calls : (Serve(c) \/ Stop(c)) /\ UNCHANGED <<consumerVars, auditVars>>
           \/ \E event \in Events : HandleEvent(event)
           \/ UNCHANGED payVars
  BY DEF PipelineNext, pipeVars, Next, ReadMessage, GrowOld, FetchPayments, CheckRow, SkipRow

LEMMA PipelineInv ==
    ASSUME "" \notin Intents PROVE PipelineSpec => []PayInv
  <1>1. PipelineInit => PayInv
    BY PayInitInv DEF PipelineInit
  <1>2. PayInv /\ [PipelineNext]_pipeVars => PayInv'
    <2> SUFFICES ASSUME PayInv, [PipelineNext]_pipeVars PROVE PayInv'
      OBVIOUS
    <2>1. ASSUME NEW c \in Calls, Serve(c) \/ Stop(c) PROVE PayInv'
      BY <2>1, TypeKept, PlacesKept, MoneyKept DEF PayInv
    <2>2. ASSUME NEW event \in Events, HandleEvent(event) PROVE PayInv'
      BY <2>2, ConsumerInv
    <2>3. CASE UNCHANGED payVars
      BY <2>3, StutterPayInv
    <2>4. QED
      BY <2>1, <2>2, <2>3, PipelineSteps
  <1>3. QED
    BY <1>1, <1>2, PTL DEF PipelineSpec

(* With the consumer and the reconciler at work, still nothing claims a    *)
(* payment the bank did not make.                                          *)
THEOREM MoneyFirstInPipeline ==
    ASSUME "" \notin Intents PROVE PipelineSpec => []MoneyBehindEveryRecord
  <1>1. PayInv => MoneyBehindEveryRecord
    BY DEF PayInv
  <1>2. QED
    BY <1>1, PipelineInv, PTL

(* Nor do they touch a payment that is settled. *)
THEOREM SettledForGoodInPipeline ==
    ASSUME "" \notin Intents PROVE PipelineSpec => NoChargeOnceSettled
  <1> DEFINE Kept(i) == Settled(i) => Settled(i)' /\ ChargedFor(i)' = ChargedFor(i)
  <1>1. ASSUME UNCHANGED <<status, charged, pc, request>>, NEW i \in Intents PROVE Kept(i)
    BY <1>1 DEF Settled, ChargedFor, Intent
  <1>2. ASSUME PayInv, [PipelineNext]_pipeVars PROVE \A i \in Intents : Kept(i)
    <2>1. ASSUME NEW event \in Events, HandleEvent(event)
          PROVE  UNCHANGED <<status, charged, pc, request>>
      BY <2>1 DEF HandleEvent
    <2>2. UNCHANGED payVars => UNCHANGED <<status, charged, pc, request>>
      BY DEF payVars
    <2>3. QED
      BY <1>1, <1>2, <2>1, <2>2, PipelineSteps, SettledStays
  <1>3. PayInv /\ [PipelineNext]_pipeVars => [\A i \in Intents : Kept(i)]_payVars
    BY <1>2
  <1>4. QED
    BY <1>3, PipelineInv, PTL DEF PipelineSpec, NoChargeOnceSettled

-----------------------------------------------------------------------------
(* What the ledger has of the payments. *)

(* A posting holds a share of the payment it is for, or comes from the     *)
(* consumer; no refund is posted.                                          *)
OfSomePayment(p) ==
    \E i \in Intents :
        p.ref = PaymentRef(i) /\ \E n \in DOMAIN Shares(i) : p.entries = EntriesOf(Shares(i)[n])

SharesInBook ==
    /\ \A p, q \in book : p.ref = q.ref => p = q
    /\ \A p \in book : p.ref = PaymentRef("") \/ OfSomePayment(p)

(* One more posting under a reference that was free. *)
LEMMA OnePostingMore ==
    ASSUME SharesInBook, NEW ref, NEW es, Post(ref, es),
           \/ ref = PaymentRef("")
           \/ \E i \in Intents : /\ ref = PaymentRef(i)
                                 /\ \E n \in DOMAIN Shares(i) : es = EntriesOf(Shares(i)[n])
    PROVE  SharesInBook' /\ book \subseteq book'
  <1>1. CASE UNCHANGED book
    BY <1>1 DEF SharesInBook, OfSomePayment
  <1>2. CASE ~PostedRef(ref) /\ book' = book \cup {[ref |-> ref, entries |-> es]}
    <2>1. PICK new : new = [ref |-> ref, entries |-> es]
      OBVIOUS
    <2>2. new.ref = ref /\ new.entries = es /\ book' = book \cup {new}
      BY <1>2, <2>1
    <2>3. \A p \in book : p.ref # new.ref
      BY <1>2, <2>2 DEF PostedRef
    <2>4. \A p, q \in book' : p.ref = q.ref => p = q
      BY <2>2, <2>3 DEF SharesInBook
    <2>5. new.ref = PaymentRef("") \/ OfSomePayment(new)
      BY <2>2 DEF OfSomePayment
    <2>6. \A p \in book' : p.ref = PaymentRef("") \/ OfSomePayment(p)
      BY <2>2, <2>5 DEF SharesInBook
    <2>7. QED
      BY <2>2, <2>4, <2>6 DEF SharesInBook
  <1>3. QED
    BY <1>1, <1>2 DEF Post, LedgerPosts

LEMMA BookStep ==
    ASSUME PayInv, SharesInBook, [PipelineNext]_pipeVars
    PROVE  SharesInBook' /\ book \subseteq book'
  <1>1. UNCHANGED book => SharesInBook' /\ book \subseteq book'
    BY DEF SharesInBook, OfSomePayment
  <1>2. ASSUME NEW c \in Calls, RecordShare(c) PROVE SharesInBook' /\ book \subseteq book'
    <2>1. PICK i, n : i = Intent(c) /\ n = recorded[c] + 1
      OBVIOUS
    <2>2. i \in Intents /\ recorded[c] \in 0 .. 3
      BY <2>1, CallType DEF PayInv, TypeOK
    <2>3. PICK es : es = EntriesOf(Shares(i)[n])
      OBVIOUS
    <2>4. Post(PaymentRef(i), es) /\ n \in 1 .. Len(Shares(i))
      <3>1. Len(Shares(i)) \in 1 .. 3
        BY SharesBound
      <3>2. n = Len(Shares(i)) \/ n < Len(Shares(i))
        BY <1>2, <2>1 DEF RecordShare
      <3>3. Post(PaymentRef(i), es)
        BY <1>2, <2>1, <2>3 DEF RecordShare
      <3>4. QED
        BY <2>1, <2>2, <3>1, <3>2, <3>3
    <2>5. n \in DOMAIN Shares(i)
      BY <2>4 DEF Shares
    <2>6. PICK ref : ref = PaymentRef(i)
      OBVIOUS
    <2>7. QED
      BY <2>2, <2>3, <2>4, <2>5, <2>6, OnePostingMore
  <1>3. ASSUME NEW c \in Calls, Serve(c) \/ Stop(c) PROVE RecordShare(c) \/ UNCHANGED book
    BY <1>3 DEF Serve, Stop, Begin, LookUp, Save, CreatePaymentIntent, ReadForConfirm, Charge,
                Decline, Settle, Announce, ReadForRefund, GiveBack, AnnounceRefund, external
  <1>4. ASSUME NEW event \in Events, HandleEvent(event)
        PROVE  SharesInBook' /\ book \subseteq book'
    <2>1. CASE UNCHANGED book
      BY <1>1, <2>1
    <2>2. CASE Post(EventRef(event),
                    EntriesOf([account |-> "user", amount |-> Amount[event.payment]]))
      <3>1. PICK ref, es :
              /\ ref = PaymentRef("")
              /\ es = EntriesOf([account |-> "user", amount |-> Amount[event.payment]])
        OBVIOUS
      <3>2. Post(ref, es)
        BY <2>2, <3>1 DEF EventRef
      <3>3. QED
        BY <3>1, <3>2, OnePostingMore
    <2>3. QED
      BY <1>4, <2>1, <2>2 DEF HandleEvent
  <1>5. UNCHANGED payVars => UNCHANGED book
    BY DEF payVars
  <1>6. QED
    BY <1>1, <1>2, <1>3, <1>4, <1>5, PipelineSteps

(* The ledger calls of a split payment share one reference and the events  *)
(* of the consumer another: of each payment the ledger has at most one     *)
(* share, however many calls confirm it, and of the refunds nothing        *)
(* (HandleConfirmPayment, the consumer of cmd/ledger/events.go).           *)
THEOREM OneShareIsPosted ==
    ASSUME "" \notin Intents PROVE PipelineSpec => []SharesInBook
  <1>1. PipelineInit => SharesInBook
    BY DEF PipelineInit, Init, SharesInBook
  <1>2. QED
    BY <1>1, BookStep, PipelineInv, PTL DEF PipelineSpec

(* What has been posted for a payment stays as it was posted. *)
THEOREM PostingsStay ==
    ASSUME "" \notin Intents PROVE PipelineSpec => [][book \subseteq book']_book
  <1>1. PayInv /\ SharesInBook /\ [PipelineNext]_pipeVars => [book \subseteq book']_book
    BY BookStep
  <1>2. QED
    BY <1>1, PipelineInv, OneShareIsPosted, PTL DEF PipelineSpec

-----------------------------------------------------------------------------
(* The reconciler. *)

(* Whoever was fetched or reported was charged; a payment that has been    *)
(* refunded since is still one of them.                                    *)
ReportsAreBacked ==
    /\ recent \subseteq Intents
    /\ \A row \in rows : row.id \in Intents /\ ChargedFor(row.id) # {}
    /\ \A i \in reported : i \in Intents /\ ChargedFor(i) # {}

LEMMA BackingStands ==
    ASSUME ReportsAreBacked, request' = request, charged \subseteq charged',
           recent' \subseteq recent, rows' \subseteq rows,
           \A i \in reported' : i \in reported \/ \E row \in rows : i = row.id
    PROVE  ReportsAreBacked'
  <1>1. \A i : ChargedFor(i) \subseteq ChargedFor(i)'
    BY DEF ChargedFor, Intent
  <1>2. QED
    BY <1>1 DEF ReportsAreBacked

(* The reconciler reports no payment the bank did not make, although the   *)
(* rows it goes through may have changed since it fetched them (reconcile  *)
(* of cmd/reconciler/main.go).                                             *)
THEOREM NoFalseReports ==
    ASSUME "" \notin Intents PROVE PipelineSpec => []ReportsAreBacked
  <1>1. PipelineInit => ReportsAreBacked
    BY DEF PipelineInit, ReportsAreBacked
  <1>2. PayInv /\ ReportsAreBacked /\ [PipelineNext]_pipeVars => ReportsAreBacked'
    <2> SUFFICES ASSUME PayInv, ReportsAreBacked, [PipelineNext]_pipeVars
                 PROVE  ReportsAreBacked'
      OBVIOUS
    <2>1. CASE Next /\ UNCHANGED <<consumerVars, auditVars>>
      BY <2>1, ChargesStay, BackingStands DEF Next, auditVars
    <2>2. CASE ReadMessage \/ \E i \in Intents : GrowOld(i)
      BY <2>2, BackingStands DEF ReadMessage, GrowOld, payVars, auditVars
    <2>3. CASE \E event \in Events : HandleEvent(event)
      BY <2>3, BackingStands DEF HandleEvent, auditVars
    <2>4. CASE UNCHANGED pipeVars
      BY <2>4, BackingStands DEF pipeVars, payVars, auditVars
    <2>5. CASE \E row \in Rows : CheckRow(row) \/ SkipRow(row)
      BY <2>5, BackingStands DEF CheckRow, SkipRow, payVars
    <2>6. CASE FetchPayments
      <3>1. /\ rows' = PaidRows(recent) /\ reported' = reported
            /\ charged' = charged /\ request' = request
        BY <2>6 DEF FetchPayments, payVars
      <3>2. recent \subseteq Intents
        BY DEF ReportsAreBacked
      <3>3. \A row \in PaidRows(recent) : row.id \in Intents /\ ChargedFor(row.id) # {}
        <4>1. ASSUME NEW j \in recent, status[j] \in {"succeeded", "refunded"}
              PROVE  j \in Intents /\ ChargedFor(j) # {}
          BY <3>2, <4>1 DEF PayInv, MoneyBehindEveryRecord
        <4>2. ASSUME NEW row \in PaidRows(recent)
              PROVE  \E j \in recent : status[j] \in {"succeeded", "refunded"} /\ row.id = j
          <5>1. PICK j \in {k \in recent : status[k] \in {"succeeded", "refunded"}} :
                  row = [id |-> j, status |-> status[j]]
            BY <4>2 DEF PaidRows
          <5>2. row.id = j
            BY <5>1
          <5>3. QED
            BY <5>2
        <4>3. QED
          BY <4>1, <4>2
      <3>4. \A i : ChargedFor(i)' = ChargedFor(i)
        BY <3>1 DEF ChargedFor, Intent
      <3>5. \A row \in rows' : row.id \in Intents /\ ChargedFor(row.id)' # {}
        BY <3>1, <3>3, <3>4
      <3>6. \A i \in reported' : i \in Intents /\ ChargedFor(i)' # {}
        BY <3>1, <3>4 DEF ReportsAreBacked
      <3>7. recent' \subseteq Intents
        BY <2>6, <3>2 DEF FetchPayments
      <3>8. QED
        BY <3>5, <3>6, <3>7 DEF ReportsAreBacked
    <2>7. QED
      BY <2>1, <2>2, <2>3, <2>4, <2>5, <2>6 DEF PipelineNext
  <1>3. QED
    BY <1>1, <1>2, PipelineInv, PTL DEF PipelineSpec
=============================================================================
