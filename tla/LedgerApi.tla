----------------------------- MODULE LedgerApi -----------------------------
(***************************************************************************)
(* The HTTP and gRPC servers of the ledger, in one process.  They record   *)
(* transactions one by one or in bulk, where each one is a database        *)
(* transaction of its own.  LedgerService.RecordTransaction is here what   *)
(* the Ledger module shows it to be: one atomic step, at most once for a   *)
(* reference.  An account is named by the call that creates it.            *)
(***************************************************************************)
EXTENDS Handlers, SequencesExt

CONSTANT FirstAccounts      \* accounts of the start

VARIABLES
    opened,     \* the accounts table
    recorded    \* the transactions table, in the order of created_at

apiVars == <<opened, recorded>>

(* What handlers keep: the results of items, and the rows of a list. *)
Reports == [results : Seq({"recorded", "error"}), rows : Seq(STRING)]

ASSUME ApiAssumption == None \notin Reports

ApiInit == opened = FirstAccounts /\ recorded = <<>>

Known(ref) == \E n \in DOMAIN recorded : recorded[n].ref = ref

(* What a handler keeps: the results of its items, and the rows it reads. *)
Report(results, rows) == [results |-> results, rows |-> rows]

(* LedgerService.RecordTransaction of item n of call c.  One that does not *)
(* balance or names an unknown account is refused even when its reference  *)
(* is known; otherwise a known reference is answered like a new one.  The  *)
(* commit of a new one may take effect and still be answered with an       *)
(* error.                                                                  *)
RecordItem(c, n, item, zone, result) ==
    \/ /\ item.sound /\ ~Known(item.ref) /\ (result = "recorded" \/ MayFail)
       /\ recorded' = Append(recorded, [ref |-> item.ref, zone |-> zone, by |-> c, item |-> n])
    \/ /\ result = "recorded" /\ item.sound /\ Known(item.ref)
       /\ UNCHANGED recorded
    \/ /\ result = "error" /\ (MayFail \/ ~item.sound)
       /\ UNCHANGED recorded

(* POST /accounts and the gRPC method. *)
CreateLedgerAccount(c) ==
    /\ Begins(c, "openaccount")
    /\ \/ opened' = opened \cup {c} /\ Ok(c)
       \/ MayFail /\ UNCHANGED opened /\ Refuse(c)
    /\ UNCHANGED recorded

(* GET /accounts/<id> *)
GetLedgerAccount(c) ==
    /\ Begins(c, "account") /\ ask[c].via = "http"
    /\ (ask[c].id \in opened /\ Ok(c)) \/ ((MayFail \/ ask[c].id \notin opened) /\ Refuse(c))
    /\ UNCHANGED apiVars

(* The gRPC method takes the fields of the account it was given, which is  *)
(* nil if there is none: the process stops, and every call in it with it.  *)
GetAccountOverGRPC(c) ==
    /\ Begins(c, "account") /\ ask[c].via = "grpc"
    /\ \/ ask[c].id \in opened /\ Ok(c)
       \/ MayFail /\ Refuse(c)
       \/ /\ ask[c].id \notin opened
          /\ at' = [d \in Calls |-> IF d = c \/ at[d] # "start" THEN "done" ELSE "start"]
          /\ reply' = [d \in Calls |-> IF d = c \/ at[d] \notin {"start", "done"}
                                       THEN "lost" ELSE reply[d]]
          /\ UNCHANGED <<ask, held>>
    /\ UNCHANGED apiVars

(* POST /transactions: the process may stop before the answer. *)
RecordOverHTTP(c) ==
    \/ /\ Begins(c, "record")
       /\ \E result \in {"recorded", "error"} :
            /\ RecordItem(c, 1, ask[c].items[1], ask[c].items[1].zone, result)
            /\ Hold(c, Report(<<result>>, <<>>))
       /\ Goto(c, "answer") /\ UNCHANGED opened
    \/ /\ Serving(c, "record", "answer")
       /\ IF held[c].results[1] = "recorded" THEN Ok(c) ELSE Refuse(c)
       /\ UNCHANGED apiVars

(* All of a bulk goes to one zone: that of the HTTP header, or that of the *)
(* first transaction of a gRPC request.                                    *)
ZoneOfBulk(c) ==
    IF ask[c].via = "http" THEN ask[c].zone
    ELSE IF ask[c].items = <<>> THEN "" ELSE ask[c].items[1].zone

(* Slip: the first error ends the loop. *)
BulkRecordUntilError(c) ==
    \/ /\ Begins(c, "bulk")
       /\ Hold(c, Report(<<>>, <<>>)) /\ Goto(c, "each") /\ UNCHANGED apiVars
    \/ /\ Serving(c, "bulk", "each")
       /\ LET done == held[c].results
              next == Len(done) + 1
              over == next > Len(ask[c].items) \/ (done # <<>> /\ Last(done) = "error")
          IN  \/ over /\ Ok(c) /\ UNCHANGED recorded
              \/ /\ ~over
                 /\ \E result \in {"recorded", "error"} :
                      /\ RecordItem(c, next, ask[c].items[next], ZoneOfBulk(c), result)
                      /\ Hold(c, Report(Append(done, result), <<>>))
                 /\ Goto(c, "each")
       /\ UNCHANGED opened

(* POST /bulk-transactions and the gRPC method: one after the other, each  *)
(* with its own result; nothing is undone, and no item is checked for a    *)
(* reference.                                                              *)
BulkRecordTransactions(c) ==
    \/ /\ Begins(c, "bulk")
       /\ Hold(c, Report(<<>>, <<>>)) /\ Goto(c, "each") /\ UNCHANGED apiVars
    \/ /\ Serving(c, "bulk", "each")
       /\ LET done == held[c].results
              next == Len(done) + 1
          IN  \/ next > Len(ask[c].items) /\ Ok(c) /\ UNCHANGED recorded
              \/ /\ next <= Len(ask[c].items)
                 /\ \E result \in {"recorded", "error"} :
                      /\ RecordItem(c, next, ask[c].items[next], ZoneOfBulk(c), result)
                      /\ Hold(c, Report(Append(done, result), <<>>))
                 /\ Goto(c, "each")
       /\ UNCHANGED opened

(* The rows of a zone, or of all zones, newest first. *)
RowsOfZone(zone) ==
    Reverse(SelectSeq(recorded, LAMBDA row : zone \in {"", row.zone}))

(* LedgerService.ListTransactions: a limit that is not positive is 50,     *)
(* which is more than the rows there are.                                  *)
CountOf(limit, rows) == IF limit <= 0 \/ Len(rows) < limit THEN Len(rows) ELSE limit

(* GET /transactions: the rows, then the entries of each one. *)
ListTransactions(c) ==
    \/ /\ Begins(c, "transactions")
       /\ LET rows == RowsOfZone(ask[c].zone)
              count == CountOf(ask[c].limit, rows)
          IN  \/ /\ Hold(c, Report(<<>>, [n \in 1 .. count |-> rows[n].ref]))
                 /\ Goto(c, "entries")
              \/ MayFail /\ Refuse(c)
       /\ UNCHANGED apiVars
    \/ /\ Serving(c, "transactions", "entries")
       /\ Ok(c) \/ (MayFail /\ Refuse(c))
       /\ UNCHANGED apiVars

(* GET /transactions/<id> *)
GetTransaction(c) ==
    /\ Begins(c, "transaction")
    /\ (Known(ask[c].ref) /\ Ok(c)) \/ ((MayFail \/ ~Known(ask[c].ref)) /\ Refuse(c))
    /\ UNCHANGED apiVars

ApiOps == {"openaccount", "account", "record", "bulk", "transactions", "transaction"}

ApiNext ==
    \E c \in Calls :
        \/ ask[c].op \in ApiOps /\ Malformed(c) /\ UNCHANGED apiVars
        \/ CreateLedgerAccount(c) \/ GetLedgerAccount(c) \/ GetAccountOverGRPC(c)
        \/ RecordOverHTTP(c) \/ BulkRecordTransactions(c)
        \/ ListTransactions(c) \/ GetTransaction(c)

-----------------------------------------------------------------------------
Reported(c) == ask[c].op \in {"record", "bulk"} /\ held[c] # None

(* Whatever other calls record meanwhile, and wherever the process stops:  *)
(* no reference is recorded twice; a bulk that is answered has a result    *)
(* for each of its items; an item reported as recorded has its reference   *)
(* in the book; and what a call recorded are sound items of its own,       *)
(* each under its reference and in the zone of the call, none of them      *)
(* behind the last item it has a result for (BulkRecordTransactions).      *)
BulksAreAccountedFor ==
    /\ \A m, n \in DOMAIN recorded : recorded[m].ref = recorded[n].ref => m = n
    /\ \A c \in Calls : Reported(c) =>
         LET results == held[c].results IN
         /\ ask[c].op = "bulk" /\ reply[c] = "ok" => Len(results) = Len(ask[c].items)
         /\ \A n \in DOMAIN results :
              (results[n] = "recorded") => Known(ask[c].items[n].ref)
    /\ \A m \in DOMAIN recorded :
         LET row == recorded[m] IN
         /\ Reported(row.by) /\ row.item \in DOMAIN held[row.by].results
         /\ LET item == ask[row.by].items[row.item] IN item.sound /\ item.ref = row.ref
         /\ ask[row.by].op = "bulk" => row.zone = ZoneOfBulk(row.by)
=============================================================================
