---------------------------- MODULE LedgerProofs ----------------------------
(***************************************************************************)
(* Proofs about Ledger, for any set of calls, accounts and requests, and   *)
(* about Outbox, for any number of replicas, any batch limit and any       *)
(* number of crashes.                                                      *)
(***************************************************************************)
EXTENDS Outbox, TLAPS

LEMMA SeqElement ==
    ASSUME NEW S, NEW s \in Seq(S), NEW i \in DOMAIN s
    PROVE  i \in Nat /\ i \in 1 .. Len(s) /\ s[i] \in S
  OBVIOUS

(* What the assumption on Requests says of a single request. *)
LEMMA RequestType ==
    ASSUME NEW q \in Requests
    PROVE  /\ q.ref \in References
           /\ q.entries \in Seq([account : Accounts, amount : Int])
           /\ Lines(q) \subseteq LineRows
  <1>1. q \in [ref : STRING, entries : Seq([account : Accounts, amount : Int])]
    BY RequestsAssumption
  <1>2. q.ref \in References
    BY DEF References
  <1>3. Lines(q) \subseteq LineRows
    <2>1. ASSUME NEW i \in DOMAIN q.entries
          PROVE  [n |-> i, account |-> q.entries[i].account,
                  amount |-> q.entries[i].amount] \in LineRows
      <3>1. i \in Nat /\ q.entries[i] \in [account : Accounts, amount : Int]
        BY <1>1, SeqElement
      <3>2. QED
        BY <3>1 DEF LineRows
    <2>2. QED
      BY <2>1 DEF Lines
  <1>4. QED
    BY <1>1, <1>2, <1>3

(* The tables are empty and no call has started. *)
LEMMA InitInv == Init => Inv
  <1> SUFFICES ASSUME Init PROVE Inv
    OBVIOUS
  <1> USE DEF Init
  <1>1. TypeOK
    BY DEF TypeOK, Labels
  <1>2. TransactionRows /\ EntryRows /\ EventRows /\ UniqueReference
    BY DEF TransactionRows, EntryRows, EventRows, UniqueReference,
           HasTransaction, HasEntries, HasEvent
  <1>3. ChecksPassed /\ DistinctTimes
    BY DEF ChecksPassed, Validated, HasEntries, DistinctTimes, HasBegun
  <1>4. AnswersStand
    BY DEF AnswersStand
  <1>5. QED
    BY <1>1, <1>2, <1>3, <1>4 DEF Inv

(* Creating an account disturbs only what is said of accounts. *)
LEMMA CreateAccountInv ==
    ASSUME Inv, NEW a \in Accounts, CreateAccount(a) PROVE Inv'
  <1> USE DEF Inv, CreateAccount, tables
  <1>1. TypeOK'
    BY DEF TypeOK
  <1>2. /\ TransactionRows' /\ EntryRows' /\ EventRows'
        /\ UniqueReference' /\ AnswersStand'
    BY DEF TransactionRows, EntryRows, EventRows, UniqueReference, Ref,
           HasTransaction, HasEntries, HasEvent, AnswersStand
  <1>3. ChecksPassed'
    BY DEF ChecksPassed, Validated, HasEntries, AccountAccepted
  <1>4. DistinctTimes'
    BY DEF DistinctTimes, HasBegun
  <1>5. QED
    BY <1>1, <1>2, <1>3, <1>4

LEMMA ValidateBalanceInv ==
    ASSUME Inv, NEW c \in Calls, ValidateBalance(c) PROVE Inv'
  <1> USE DEF Inv, ValidateBalance, tables, Goto, Return
  <1>0. request[c].entries \in Seq([account : Accounts, amount : Int])
    BY RequestType DEF TypeOK
  <1>1. TypeOK'
    BY DEF TypeOK, Labels
  <1>2. TransactionRows' /\ EntryRows' /\ EventRows'
    BY DEF TypeOK, TransactionRows, EntryRows, EventRows, Ref,
           HasTransaction, HasEntries, HasEvent
  <1>3. UniqueReference' /\ DistinctTimes'
    BY DEF TypeOK, UniqueReference, Ref, HasTransaction,
           DistinctTimes, HasBegun
  <1>4. ChecksPassed'
    BY <1>0 DEF TypeOK, ChecksPassed, Validated, HasEntries, AccountAccepted
  <1>5. AnswersStand'
    BY DEF TypeOK, AnswersStand, Ref
  <1>6. QED
    BY <1>1, <1>2, <1>3, <1>4, <1>5

LEMMA ValidateAccountInv ==
    ASSUME Inv, NEW c \in Calls, ValidateAccount(c) PROVE Inv'
  <1> DEFINE i == checked[c] + 1
  <1> DEFINE es == request[c].entries
  <1> USE DEF Inv
  <1>1. /\ es \in Seq([account : Accounts, amount : Int])
        /\ i \in Nat
        /\ pc[c] = "accounts"
        /\ UNCHANGED <<accounts, transactions, entries, outbox, committed,
                       clock, request, began>>
    <2>1. request[c] \in Requests /\ checked[c] \in Nat
      BY DEF TypeOK
    <2>2. es \in Seq([account : Accounts, amount : Int])
      BY <2>1, RequestType
    <2>3. i \in Nat
      BY <2>1
    <2>4. QED
      BY <2>2, <2>3 DEF ValidateAccount, tables
  <1>2. CASE /\ AccountAccepted(es, i)
             /\ checked' = [checked EXCEPT ![c] = i]
             /\ pc' = [pc EXCEPT ![c] = IF i = Len(es) THEN "begin"
                                                       ELSE "accounts"]
             /\ UNCHANGED reply
    <2>1. TypeOK'
      BY <1>1, <1>2 DEF TypeOK, Labels
    <2>2. TransactionRows' /\ EntryRows' /\ EventRows'
      BY <1>1, <1>2 DEF TypeOK, TransactionRows, EntryRows, EventRows, Ref,
                        HasTransaction, HasEntries, HasEvent
    <2>3. UniqueReference' /\ DistinctTimes'
      BY <1>1, <1>2 DEF TypeOK, UniqueReference, Ref, HasTransaction,
                        DistinctTimes, HasBegun
    <2>4. ChecksPassed'
      <3>1. checked[c] < Len(es) /\ SumIsZero(request[c]) /\ c \notin committed
        BY <1>1 DEF ChecksPassed, AnswersStand
      <3>2. \A k \in 1 .. i : AccountAccepted(es, k)
        <4>1. \A k \in 1 .. checked[c] : AccountAccepted(es, k)
          BY DEF ChecksPassed
        <4>2. checked[c] \in Nat
          BY DEF TypeOK
        <4>3. \A k \in 1 .. i : k \in 1 .. checked[c] \/ k = i
          BY <4>2
        <4> QED
          BY <1>2, <4>1, <4>3
      <3>3. checked'[c] = i /\ i <= Len(es) /\ Len(es) \in Nat
        BY <1>1, <1>2, <3>1 DEF TypeOK
      <3>4. \A d \in Calls \ {c} : checked'[d] = checked[d] /\ pc'[d] = pc[d]
        BY <1>2 DEF TypeOK
      <3>5. pc'[c] = IF i = Len(es) THEN "begin" ELSE "accounts"
        BY <1>2 DEF TypeOK
      <3> HIDE DEF i, es
      <3>6. QED
        BY <1>1, <3>1, <3>2, <3>3, <3>4, <3>5, SMTT(30)
           DEF ChecksPassed, Validated, HasEntries, AccountAccepted, es
    <2>5. AnswersStand'
      BY <1>1, <1>2 DEF TypeOK, AnswersStand, Ref
    <2>6. QED
      BY <2>1, <2>2, <2>3, <2>4, <2>5
  <1>3. CASE /\ pc' = [pc EXCEPT ![c] = "done"]
             /\ reply' = [reply EXCEPT ![c] = "error"]
             /\ UNCHANGED checked
    <2>1. TypeOK'
      BY <1>1, <1>3 DEF TypeOK, Labels
    <2>2. TransactionRows' /\ EntryRows' /\ EventRows'
      BY <1>1, <1>3 DEF TypeOK, TransactionRows, EntryRows, EventRows, Ref,
                        HasTransaction, HasEntries, HasEvent
    <2>3. UniqueReference' /\ DistinctTimes'
      BY <1>1, <1>3 DEF TypeOK, UniqueReference, Ref, HasTransaction,
                        DistinctTimes, HasBegun
    <2>4. ChecksPassed'
      BY <1>1, <1>3 DEF TypeOK, ChecksPassed, Validated, HasEntries,
                        AccountAccepted, AnswersStand
    <2>5. AnswersStand'
      BY <1>1, <1>3 DEF TypeOK, AnswersStand, Ref
    <2>6. QED
      BY <2>1, <2>2, <2>3, <2>4, <2>5
  <1>4. QED
    BY <1>2, <1>3 DEF ValidateAccount, Goto, Return

LEMMA CheckIdempotencyInv ==
    ASSUME Inv, NEW c \in Calls, CheckIdempotency(c) PROVE Inv'
  <1> USE DEF Inv, CheckIdempotency, tables, Goto, Return
  <1>1. TypeOK'
    BY DEF TypeOK, Labels
  <1>2. TransactionRows' /\ EntryRows'
    BY DEF TypeOK, TransactionRows, EntryRows, Ref, HasTransaction, HasEntries
  <1>3. EventRows'
    BY DEF TypeOK, EventRows, Ref, HasEvent, AnswersStand
  <1>4. UniqueReference' /\ DistinctTimes'
    BY DEF TypeOK, UniqueReference, Ref, HasTransaction,
           DistinctTimes, HasBegun
  <1>5. ChecksPassed'
    BY DEF TypeOK, ChecksPassed, Validated, HasEntries, AccountAccepted
  <1>6. AnswersStand'
    BY DEF TypeOK, AnswersStand, TransactionRows, Recorded, Ref
  <1>7. QED
    BY <1>1, <1>2, <1>3, <1>4, <1>5, <1>6

(* A rollback takes away exactly the rows of a transaction in progress. *)
LEMMA RollbackInv ==
    ASSUME Inv, NEW c \in Calls, pc[c] # "done", Rollback(c),
           Return(c, "error"),
           UNCHANGED <<accounts, clock, request, checked, began>>
    PROVE  Inv'
  <1> USE DEF Inv, Rollback, Return, Goto, RowsOf
  <1>1. TypeOK'
    BY DEF TypeOK, Labels
  <1>2. TransactionRows'
    BY DEF TypeOK, TransactionRows, Ref, HasTransaction, AnswersStand
  <1>3. EntryRows'
    BY DEF TypeOK, EntryRows, Ref, HasEntries, AnswersStand
  <1>4. EventRows'
    BY DEF TypeOK, EventRows, Ref, HasEvent, AnswersStand
  <1>5. UniqueReference' /\ DistinctTimes'
    BY DEF TypeOK, UniqueReference, Ref, HasTransaction,
           DistinctTimes, HasBegun
  <1>6. ChecksPassed'
    BY DEF TypeOK, ChecksPassed, Validated, HasEntries, AccountAccepted,
           AnswersStand
  <1>7. AnswersStand'
    BY DEF TypeOK, AnswersStand, Ref
  <1>8. QED
    BY <1>1, <1>2, <1>3, <1>4, <1>5, <1>6, <1>7

(* The INSERT keeps references unique because it waits for the holder. *)
LEMMA CreateTransactionInv ==
    ASSUME Inv, NEW c \in Calls, CreateTransaction(c) PROVE Inv'
  <1>1. CASE Recorded(Ref(c))
    BY <1>1, RollbackInv DEF CreateTransaction
  <1>2. CASE ~Recorded(Ref(c))
    <2> USE DEF Inv, Goto
    <2>1. /\ transactions' = transactions \cup {[tx |-> c, ref |-> Ref(c)]}
          /\ pc' = [pc EXCEPT ![c] = "entries"]
          /\ UNCHANGED <<accounts, entries, outbox, committed, clock, request,
                         checked, began, reply>>
          /\ pc[c] = "insert"
          /\ ~HeldByAnother(Ref(c), c)
      BY <1>2 DEF CreateTransaction
    <2>2. Ref(c) \in References
      BY RequestType DEF TypeOK, Ref
    <2>3. TypeOK'
      BY <2>1, <2>2 DEF TypeOK, Labels
    <2>4. TransactionRows'
      BY <2>1 DEF TypeOK, TransactionRows, Ref, HasTransaction
    <2>5. EntryRows' /\ EventRows'
      BY <2>1 DEF TypeOK, EntryRows, EventRows, Ref, HasEntries, HasEvent
    <2>6. \A d \in Calls : HasTransaction(d) => Ref(d) # Ref(c)
      <3>1. SUFFICES ASSUME NEW d \in Calls, HasTransaction(d), Ref(d) = Ref(c)
                     PROVE  FALSE
        OBVIOUS
      <3>2. d # c
        BY <2>1, <3>1 DEF HasTransaction, AnswersStand
      <3>3. [tx |-> d, ref |-> Ref(c)] \in transactions
        BY <3>1 DEF TransactionRows
      <3>4. QED
        BY <1>2, <2>1, <3>2, <3>3 DEF Recorded, HeldByAnother
    <2>7. UniqueReference' /\ DistinctTimes'
      BY <2>1, <2>6 DEF TypeOK, UniqueReference, Ref, HasTransaction,
                        DistinctTimes, HasBegun
    <2>8. ChecksPassed'
      BY <2>1 DEF TypeOK, ChecksPassed, Validated, HasEntries, AccountAccepted
    <2>9. AnswersStand'
      BY <2>1 DEF TypeOK, AnswersStand, Ref
    <2>10. QED
      BY <2>3, <2>4, <2>5, <2>7, <2>8, <2>9
  <1>3. QED
    BY <1>1, <1>2

LEMMA CreateEntriesInv ==
    ASSUME Inv, NEW c \in Calls, CreateEntries(c) PROVE Inv'
  <1> DEFINE lines == Lines(request[c])
  <1>1. CASE ~(\A l \in lines : l.amount # 0)
    BY <1>1, RollbackInv DEF CreateEntries
  <1>2. CASE \A l \in lines : l.amount # 0
    <2> USE DEF Inv
    <2>1. /\ entries' = entries \cup {[tx |-> c, line |-> l] : l \in lines}
          /\ pc' = [pc EXCEPT ![c] = "outbox"]
          /\ UNCHANGED <<accounts, transactions, outbox, committed, clock,
                         request, checked, began, reply>>
          /\ pc[c] = "entries"
      BY <1>2 DEF CreateEntries, Goto
    <2>2. lines \subseteq LineRows
      BY RequestType DEF TypeOK
    <2>3. TypeOK'
      BY <2>1, <2>2 DEF TypeOK, Labels
    <2>4. TransactionRows' /\ EventRows'
      BY <2>1 DEF TypeOK, TransactionRows, EventRows, Ref, HasTransaction,
                  HasEvent
    <2>5. EntryRows'
      BY <2>1 DEF TypeOK, EntryRows, HasEntries
    <2>6. UniqueReference' /\ DistinctTimes'
      BY <2>1 DEF TypeOK, UniqueReference, Ref, HasTransaction,
                  DistinctTimes, HasBegun
    <2>7. ChecksPassed'
      BY <1>2, <2>1 DEF TypeOK, ChecksPassed, Validated, HasEntries,
                        AccountAccepted
    <2>8. AnswersStand'
      BY <2>1 DEF TypeOK, AnswersStand, Ref
    <2>9. QED
      BY <2>3, <2>4, <2>5, <2>6, <2>7, <2>8
  <1>3. QED
    BY <1>1, <1>2

LEMMA CreateOutboxEventInv ==
    ASSUME Inv, NEW c \in Calls, CreateOutboxEvent(c) PROVE Inv'
  <1> USE DEF Inv, CreateOutboxEvent, Goto
  <1>1. Ref(c) \in References
    BY RequestType DEF TypeOK, Ref
  <1>2. TypeOK'
    BY <1>1 DEF TypeOK, Labels
  <1>3. TransactionRows' /\ EntryRows'
    BY DEF TypeOK, TransactionRows, EntryRows, Ref, HasTransaction, HasEntries
  <1>4. EventRows'
    BY DEF TypeOK, EventRows, Ref, HasEvent
  <1>5. UniqueReference' /\ DistinctTimes'
    BY DEF TypeOK, UniqueReference, Ref, HasTransaction,
           DistinctTimes, HasBegun
  <1>6. ChecksPassed'
    BY DEF TypeOK, ChecksPassed, Validated, HasEntries, AccountAccepted
  <1>7. AnswersStand'
    BY DEF TypeOK, AnswersStand, Ref
  <1>8. QED
    BY <1>2, <1>3, <1>4, <1>5, <1>6, <1>7

LEMMA CommitInv ==
    ASSUME Inv, NEW c \in Calls, Commit(c) PROVE Inv'
  <1> USE DEF Inv, Commit, Return, Goto
  <1>1. TypeOK'
    BY DEF TypeOK, Labels
  <1>2. TransactionRows' /\ EntryRows' /\ EventRows'
    BY DEF TypeOK, TransactionRows, EntryRows, EventRows, Ref,
           HasTransaction, HasEntries, HasEvent
  <1>3. UniqueReference' /\ DistinctTimes'
    BY DEF TypeOK, UniqueReference, Ref, HasTransaction,
           DistinctTimes, HasBegun
  <1>4. ChecksPassed'
    BY DEF TypeOK, ChecksPassed, Validated, HasEntries, AccountAccepted
  <1>5. AnswersStand'
    BY DEF TypeOK, AnswersStand, Ref
  <1>6. QED
    BY <1>1, <1>2, <1>3, <1>4, <1>5

LEMMA FailInv ==
    ASSUME Inv, NEW c \in Calls, Fail(c) PROVE Inv'
  BY RollbackInv DEF Fail

LEMMA StutterInv == ASSUME Inv, UNCHANGED vars PROVE Inv'
  BY DEF Inv, vars, TypeOK, TransactionRows, EntryRows, EventRows,
         UniqueReference, DistinctTimes, ChecksPassed, AnswersStand, Validated,
         Ref, HasTransaction, HasEntries, HasEvent, HasBegun, AccountAccepted

(* Every step of the ledger preserves the inductive invariant. *)
LEMMA NextInv == Inv /\ [Next]_vars => Inv'
  <1> SUFFICES ASSUME Inv, [Next]_vars PROVE Inv'
    OBVIOUS
  <1>1. ASSUME NEW a \in Accounts, CreateAccount(a) PROVE Inv'
    BY <1>1, CreateAccountInv
  <1>2. ASSUME NEW c \in Calls, Step(c) PROVE Inv'
    BY <1>2, ValidateBalanceInv, ValidateAccountInv, CheckIdempotencyInv,
       CreateTransactionInv, CreateEntriesInv, CreateOutboxEventInv, CommitInv
       DEF Step
  <1>3. ASSUME NEW c \in Calls, Fail(c) PROVE Inv'
    BY <1>3, FailInv
  <1>4. CASE Quiet \/ UNCHANGED vars
    BY <1>4, StutterInv DEF Quiet
  <1>5. QED
    BY <1>1, <1>2, <1>3, <1>4 DEF Next

(* The rows, the checks and the answers of every call agree with the place *)
(* it has reached in RecordTransaction, in every reachable state.          *)
THEOREM InvHolds == Spec => []Inv
  BY InitInv, NextInv, PTL DEF Spec

(* At most one committed transaction carries a reference, for any number   *)
(* of concurrent calls and retries.                                        *)
THEOREM Idempotent == Spec => []OneTransactionPerReference
  <1>1. Inv => OneTransactionPerReference
    BY DEF Inv, TypeOK, TransactionRows, UniqueReference, HasTransaction, Ref,
           OneTransactionPerReference, VisibleTransactions
  <1>2. QED
    BY <1>1, InvHolds, PTL

(* What the invariant says of a committed transaction. *)
LEMMA CommittedIsWhole == Inv => AllOrNothing
  <1>1. ASSUME Inv, NEW c \in committed
        PROVE  /\ [tx |-> c, ref |-> Ref(c)] \in transactions
               /\ Posting(c) = Lines(request[c])
               /\ RowsOf(outbox, c) =
                      {[tx |-> c, ref |-> Ref(c), at |-> began[c]]}
    <2>1. c \in Calls /\ HasTransaction(c) /\ HasEntries(c) /\ HasEvent(c)
      BY <1>1 DEF Inv, TypeOK, HasTransaction, HasEntries, HasEvent
    <2>2. [tx |-> c, ref |-> Ref(c)] \in transactions
      BY <1>1, <2>1 DEF Inv, TransactionRows
    <2>3. \A l \in Lines(request[c]) : [tx |-> c, line |-> l] \in entries
      BY <1>1, <2>1 DEF Inv, EntryRows
    <2>4. \A e \in entries : e.tx = c => e.line \in Lines(request[c])
      BY <1>1 DEF Inv, EntryRows
    <2>5. Posting(c) = Lines(request[c])
      <3>1. Posting(c) \subseteq Lines(request[c])
        BY <2>4 DEF Posting, RowsOf
      <3>2. ASSUME NEW l \in Lines(request[c]) PROVE l \in Posting(c)
        <4>1. [tx |-> c, line |-> l] \in RowsOf(entries, c)
          BY <2>3 DEF RowsOf
        <4>2. [tx |-> c, line |-> l].line \in Posting(c)
          BY <4>1 DEF Posting
        <4>3. QED
          BY <4>2
      <3>3. QED
        BY <3>1, <3>2
    <2>6. [tx |-> c, ref |-> Ref(c), at |-> began[c]] \in outbox
      BY <1>1, <2>1 DEF Inv, EventRows
    <2>7. \A v \in RowsOf(outbox, c) :
             v = [tx |-> c, ref |-> Ref(c), at |-> began[c]]
      BY <1>1 DEF Inv, TypeOK, EventRows, RowsOf
    <2>8. QED
      BY <2>2, <2>5, <2>6, <2>7 DEF RowsOf
  <1>2. QED
    BY <1>1 DEF AllOrNothing

(* A committed transaction has its row, all its entries and one event. *)
THEOREM Atomicity == Spec => []AllOrNothing
  BY CommittedIsWhole, InvHolds, PTL

(* The answer "recorded" is never given for a transaction that is not in   *)
(* the ledger.                                                             *)
THEOREM Acknowledgement == Spec => []AcknowledgedIsRecorded
  <1>1. ASSUME Inv, NEW c \in Calls, reply[c] = "ok"
        PROVE  \E t \in VisibleTransactions : t.ref = Ref(c)
    <2>1. PICK d \in committed : Ref(d) = Ref(c)
      BY <1>1 DEF Inv, AnswersStand
    <2>2. [tx |-> d, ref |-> Ref(d)] \in transactions
      BY <1>1 DEF Inv, TypeOK, TransactionRows, HasTransaction
    <2>3. QED
      BY <2>1, <2>2 DEF VisibleTransactions
  <1>2. Inv => AcknowledgedIsRecorded
    BY <1>1 DEF AcknowledgedIsRecorded
  <1>3. QED
    BY <1>2, InvHolds, PTL

(* Double entry, as far as the code's own sum can tell: if no request's    *)
(* total leaves the range of the integer it is computed in, the amounts of *)
(* every committed transaction add up to zero.                             *)
THEOREM DoubleEntry ==
    ASSUME \A q \in Requests : Wrap(Total(q.entries)) = Total(q.entries)
    PROVE  Spec => []EntriesSumToZero
  <1>1. Inv => EntriesSumToZero
    BY DEF Inv, TypeOK, ChecksPassed, Validated, SumIsZero, EntriesSumToZero
  <1>2. QED
    BY <1>1, InvHolds, PTL

(* No committed transaction mixes currencies. *)
THEOREM SingleCurrency == Spec => []OneCurrency
  <1>1. ASSUME Inv, NEW c \in committed, NEW l \in Posting(c)
        PROVE  /\ l.account \in accounts
               /\ Currency[l.account] = Currency[request[c].entries[1].account]
    <2>1. c \in Calls /\ Validated(c) /\ request[c] \in Requests
      BY <1>1 DEF Inv, TypeOK, Validated
    <2>2. l \in Lines(request[c])
      BY <1>1 DEF Inv, EntryRows, Posting, RowsOf
    <2>3. PICK i \in DOMAIN request[c].entries :
                 l.account = request[c].entries[i].account
      BY <2>2 DEF Lines
    <2>4. i \in 1 .. Len(request[c].entries)
      BY <2>1, <2>3, RequestType, SeqElement
    <2>5. AccountAccepted(request[c].entries, i)
      BY <1>1, <2>1, <2>4 DEF Inv, ChecksPassed
    <2>6. QED
      BY <2>3, <2>5 DEF AccountAccepted
  <1>2. Inv => OneCurrency
    BY <1>1 DEF OneCurrency
  <1>3. QED
    BY <1>2, InvHolds, PTL

(* What a reader has seen in the ledger stays as it was. *)
THEOREM Immutability == Spec => RecordsAreImmutable
  <1> DEFINE Kept == /\ VisibleTransactions \subseteq VisibleTransactions'
                     /\ VisibleEntries \subseteq VisibleEntries'
                     /\ VisibleOutbox \subseteq VisibleOutbox'
  <1> USE DEF VisibleTransactions, VisibleEntries, VisibleOutbox
  <1>1. ASSUME NEW c \in Calls, Inv, pc[c] # "done", Rollback(c) PROVE Kept
    BY <1>1 DEF Inv, AnswersStand, Rollback, RowsOf
  <1>2. ASSUME NEW c \in Calls, Inv, Step(c) PROVE Kept
    BY <1>1, <1>2 DEF Step, ValidateBalance, ValidateAccount, CheckIdempotency,
                      CreateTransaction, CreateEntries, CreateOutboxEvent,
                      Commit, tables
  <1>3. ASSUME NEW c \in Calls, Inv, Fail(c) PROVE Kept
    BY <1>1, <1>3 DEF Fail
  <1>4. ASSUME NEW a \in Accounts, CreateAccount(a) PROVE Kept
    BY <1>4 DEF CreateAccount, tables
  <1>5. Inv /\ [Next]_vars => [Kept]_vars
    BY <1>2, <1>3, <1>4 DEF Next, Quiet
  <1>6. QED
    BY <1>5, InvHolds, PTL DEF Spec, RecordsAreImmutable

-----------------------------------------------------------------------------
(* The refinement of AtomicLedger.  A call that has committed stands in    *)
(* the book with the reference and the lines of its request.               *)
Entry(c) == [ref |-> Ref(c), lines |-> Lines(request[c])]

BookIsCommitted == Book = {Entry(c) : c \in committed}

LEMMA BookOfCommitted == Inv => BookIsCommitted
  <1> SUFFICES ASSUME Inv PROVE Book = {Entry(c) : c \in committed}
    BY DEF BookIsCommitted
  <1>1. AllOrNothing
    BY CommittedIsWhole
  <1>2. ASSUME NEW t \in VisibleTransactions
        PROVE  [ref |-> t.ref, lines |-> Posting(t.tx)] = Entry(t.tx)
    BY <1>1 DEF VisibleTransactions, Inv, TransactionRows, AllOrNothing, Entry
  <1>3. ASSUME NEW c \in committed
        PROVE  \E t \in VisibleTransactions : t.tx = c
    <2>1. [tx |-> c, ref |-> Ref(c)] \in VisibleTransactions
      BY <1>1 DEF AllOrNothing, VisibleTransactions
    <2>2. QED
      BY <2>1
  <1>4. Book \subseteq {Entry(c) : c \in committed}
    BY <1>2 DEF Book, VisibleTransactions
  <1>5. ASSUME NEW c \in committed PROVE Entry(c) \in Book
    BY <1>2, <1>3 DEF Book
  <1>6. QED
    BY <1>4, <1>5

(* The book changes only when a call commits. *)
LEMMA BookKept ==
    ASSUME Inv, Inv', UNCHANGED <<committed, request>> PROVE Book' = Book
  <1>1. BookIsCommitted /\ BookIsCommitted'
    BY BookOfCommitted, PTL
  <1>2. {Entry(c) : c \in committed}' = {Entry(c) : c \in committed}
    BY DEF Entry, Ref
  <1>3. QED
    BY <1>1, <1>2 DEF BookIsCommitted

(* A reference is in the book when a committed call carries it. *)
LEMMA PostedIsCommitted ==
    ASSUME Inv, NEW ref
    PROVE  Atomic!Posted(ref) <=> \E d \in committed : Ref(d) = ref
  <1>1. Book = {Entry(d) : d \in committed}
    BY BookOfCommitted DEF BookIsCommitted
  <1>2. \A d \in committed : Entry(d) \in Book /\ Entry(d).ref = Ref(d)
    BY <1>1 DEF Entry
  <1>3. \A p \in Book : \E d \in committed : p.ref = Ref(d)
    BY <1>1 DEF Entry
  <1>4. QED
    BY <1>2, <1>3 DEF Atomic!Posted

(* Returning without a commit is a refusal. *)
LEMMA ErrorRefuses ==
    ASSUME Inv, Inv', NEW c \in Calls, pc[c] # "done", Return(c, "error"),
           UNCHANGED <<committed, request>>
    PROVE  Atomic!Refuse(c)
  BY BookKept DEF Return, Inv, AnswersStand, Atomic!Refuse, Atomic!Answer

(* Steps that answer nobody and commit nothing are invisible. *)
LEMMA InvisibleStep ==
    ASSUME Inv, Inv', UNCHANGED <<committed, request, reply>>
    PROVE  UNCHANGED Atomic!vars
  BY BookKept DEF Atomic!vars

LEMMA CommitPosts ==
    ASSUME Inv, Inv', NEW c \in Calls, Commit(c) PROVE Atomic!Post(c)
  <1>1. /\ pc[c] = "commit" /\ c \notin committed
        /\ committed' = committed \cup {c}
        /\ request' = request
    BY DEF Commit, Inv, AnswersStand
  <1>2. Acceptable(request[c])
    BY <1>1 DEF Inv, ChecksPassed, Validated, HasEntries, Acceptable
  <1>3. ~Atomic!Posted(Ref(c))
    <2>1. ASSUME NEW d \in committed, Ref(d) = Ref(c) PROVE FALSE
      BY <1>1, <2>1 DEF Inv, TypeOK, UniqueReference, HasTransaction
    <2>2. QED
      BY <2>1, PostedIsCommitted
  <1>4. Book' = Book \cup {Entry(c)}
    <2>1. BookIsCommitted /\ BookIsCommitted'
      BY BookOfCommitted, PTL
    <2>2. {Entry(d) : d \in committed}' = {Entry(d) : d \in committed \cup {c}}
      BY <1>1 DEF Entry, Ref
    <2>3. QED
      BY <2>1, <2>2 DEF BookIsCommitted
  <1>5. \E a \in {"ok", "error"} : Atomic!Answer(c, a)
    BY <1>1 DEF Commit, Return, Inv, AnswersStand, Atomic!Answer
  <1>6. QED
    BY <1>2, <1>3, <1>4, <1>5 DEF Atomic!Post, Entry, Ref

(* Every statement a call sends to the database is a step of the atomic    *)
(* ledger or invisible in it.                                              *)
LEMMA StepRefines ==
    ASSUME Inv, Inv', NEW c \in Calls, Step(c) \/ Fail(c)
    PROVE  [Atomic!Next]_(Atomic!vars)
  <1>1. CASE ValidateBalance(c)
    BY <1>1, ErrorRefuses, InvisibleStep DEF ValidateBalance, tables, Atomic!Next
  <1>2. CASE ValidateAccount(c)
    BY <1>2, ErrorRefuses, InvisibleStep DEF ValidateAccount, tables, Atomic!Next
  <1>3. CASE CheckIdempotency(c)
    <2>1. CASE Recorded(Ref(c))
      <3>1. \E d \in committed : Ref(d) = Ref(c)
        BY <2>1 DEF Recorded, Inv, TransactionRows
      <3>2. Atomic!Posted(request[c].ref)
        BY <3>1, PostedIsCommitted DEF Ref
      <3>3. Atomic!Acknowledge(c)
        BY <1>3, <2>1, <3>2, BookKept
           DEF CheckIdempotency, tables, Return, Inv, AnswersStand,
               Atomic!Acknowledge, Atomic!Answer
      <3>4. QED
        BY <3>3 DEF Atomic!Next
    <2>2. CASE ~Recorded(Ref(c))
      BY <1>3, <2>2, InvisibleStep DEF CheckIdempotency, tables
    <2>3. QED
      BY <2>1, <2>2
  <1>4. CASE CreateTransaction(c)
    BY <1>4, ErrorRefuses, InvisibleStep
       DEF CreateTransaction, Rollback, Atomic!Next
  <1>5. CASE CreateEntries(c)
    BY <1>5, ErrorRefuses, InvisibleStep DEF CreateEntries, Rollback, Atomic!Next
  <1>6. CASE CreateOutboxEvent(c)
    BY <1>6, InvisibleStep DEF CreateOutboxEvent
  <1>7. CASE Commit(c)
    BY <1>7, CommitPosts DEF Atomic!Next
  <1>8. CASE Fail(c)
    BY <1>8, ErrorRefuses DEF Fail, Rollback, Atomic!Next
  <1>9. QED
    BY <1>1, <1>2, <1>3, <1>4, <1>5, <1>6, <1>7, <1>8 DEF Step

(* The ledger implements the atomic one: whatever the interleaving of its  *)
(* statements, its callers see postings that appear whole, one for each    *)
(* reference, and answers that tell the truth about them.                  *)
THEOREM Refinement == Spec => ImplementsAtomicLedger
  <1>1. Init => Atomic!Init
    BY DEF Init, Book, VisibleTransactions, Atomic!Init
  <1>2. Inv /\ Inv' /\ [Next]_vars => [Atomic!Next]_(Atomic!vars)
    <2> SUFFICES ASSUME Inv, Inv', [Next]_vars
                 PROVE  [Atomic!Next]_(Atomic!vars)
      OBVIOUS
    <2>1. ASSUME NEW a \in Accounts, CreateAccount(a)
          PROVE  UNCHANGED Atomic!vars
      BY <2>1, InvisibleStep DEF CreateAccount, tables
    <2>2. CASE Quiet \/ UNCHANGED vars
      BY <2>2, InvisibleStep DEF Quiet, vars
    <2>3. QED
      BY <2>1, <2>2, StepRefines DEF Next
  <1>3. QED
    BY <1>1, <1>2, InvHolds, PTL DEF Spec, ImplementsAtomicLedger, Atomic!Spec

-----------------------------------------------------------------------------
(* The publishers. *)

(* Publishers write no table of the ledger but the processed_at column. *)
LEMMA LedgerUndisturbed == OutboxSpec => Spec
  <1>1. OutboxInit => Init
    BY DEF OutboxInit
  <1>2. [OutboxNext]_allVars => [Next]_vars
    BY DEF OutboxNext, allVars, vars
  <1>3. QED
    BY <1>1, <1>2, PTL DEF OutboxSpec, Spec

(* With publishers at work the ledger still implements the atomic one. *)
THEOREM PublishedRefinement == OutboxSpec => ImplementsAtomicLedger
  BY LedgerUndisturbed, Refinement, PTL

(* A step of the ledger keeps what is committed, and the times of it. *)
LEMMA CommittedKept ==
    ASSUME Inv, Next
    PROVE  /\ committed \subseteq committed'
           /\ \A d \in committed : began'[d] = began[d]
  <1>1. ASSUME NEW c \in Calls, Step(c) \/ Fail(c)
        PROVE  /\ committed \subseteq committed'
               /\ \A d \in committed : began'[d] = began[d]
    <2>1. CASE CheckIdempotency(c)
      BY <2>1 DEF CheckIdempotency, Inv, AnswersStand, TypeOK, tables
    <2>2. CASE ~CheckIdempotency(c)
      BY <1>1, <2>2 DEF Step, Fail, ValidateBalance, ValidateAccount,
           CreateTransaction, CreateEntries, CreateOutboxEvent, Commit,
           Rollback, tables
    <2>3. QED
      BY <2>1, <2>2
  <1>2. ASSUME NEW a \in Accounts, CreateAccount(a)
        PROVE  UNCHANGED <<committed, began>>
    BY <1>2 DEF CreateAccount, tables
  <1>3. CASE Quiet
    BY <1>3 DEF Quiet, vars
  <1>4. QED
    BY <1>1, <1>2, <1>3 DEF Next

LEMMA PublisherInitInv == OutboxInit => PublisherInv
  BY PublisherAssumption
     DEF OutboxInit, Init, PublisherInit, PublisherInv, PublisherTypeOK,
         OnlyCommittedIsPublished, ProcessedWasPublished

LEMMA LedgerStepInv ==
    ASSUME Inv, Inv', PublisherInv, Next, UNCHANGED publisherVars
    PROVE  PublisherInv'
  <1> USE DEF PublisherInv, publisherVars
  <1>1. /\ committed \subseteq committed'
        /\ \A d \in committed : began'[d] = began[d]
        /\ committed' \subseteq Calls
    BY CommittedKept DEF Inv, TypeOK
  <1>2. PublisherTypeOK' /\ OnlyCommittedIsPublished' /\ ProcessedWasPublished'
    BY <1>1 DEF PublisherTypeOK, OnlyCommittedIsPublished,
                ProcessedWasPublished
  <1>3. ASSUME NEW p \in Publishers
        PROVE  /\ batch'[p] \subseteq committed'
               /\ stage'[p] = "marking" =>
                    \A c \in Calls : IsOldest(c, batch[p])' => c \in published'
    BY <1>1, <1>3 DEF IsOldest
  <1>4. QED
    BY <1>1, <1>2, <1>3

LEMMA PollInv ==
    ASSUME Inv, PublisherInv, NEW p \in Publishers, Poll(p) \/ Crash(p),
           UNCHANGED vars
    PROVE  PublisherInv'
  <1> USE DEF PublisherInv, PublisherTypeOK, OnlyCommittedIsPublished,
              ProcessedWasPublished, vars, IsOldest
  <1>1. CASE Fetch(p)
    <2>1. GetUnprocessedEvents \subseteq committed
      BY DEF GetUnprocessedEvents, Pending, VisibleOutbox
    <2>2. QED
      BY <1>1, <2>1 DEF Fetch
  <1>2. ASSUME NEW c \in Calls, PublishSucceeds(p, c) PROVE PublisherInv'
    <2>1. \A d \in Calls : IsOldest(d, batch[p]) => d = c
      <3>1. \A d \in batch[p] : HasBegun(d) /\ d \in Calls /\ began[d] \in Nat
        BY DEF HasBegun, Inv, TypeOK
      <3>2. QED
        BY <1>2, <3>1 DEF PublishSucceeds, Inv, DistinctTimes
    <2>2. QED
      BY <1>2, <2>1 DEF PublishSucceeds
  <1>3. ASSUME NEW c \in Calls, PublishFails(p, c) PROVE PublisherInv'
    BY <1>3 DEF PublishFails, NextEvent
  <1>4. ASSUME NEW c \in Calls, MarkEventProcessed(p, c) PROVE PublisherInv'
    BY <1>4 DEF MarkEventProcessed, NextEvent
  <1>5. ASSUME NEW c \in Calls, MarkFails(p, c) PROVE PublisherInv'
    BY <1>5 DEF MarkFails, NextEvent
  <1>6. CASE Crash(p)
    BY <1>6, PublisherAssumption DEF Crash
  <1>7. QED
    BY <1>1, <1>2, <1>3, <1>4, <1>5, <1>6 DEF Poll

(* Batches hold committed events, and what is marked has been sent. *)
THEOREM PublisherInvHolds == OutboxSpec => []PublisherInv
  <1>1. Inv /\ Inv' /\ PublisherInv /\ [OutboxNext]_allVars => PublisherInv'
    <2> SUFFICES ASSUME Inv, Inv', PublisherInv, [OutboxNext]_allVars
                 PROVE  PublisherInv'
      OBVIOUS
    <2>1. CASE Next /\ UNCHANGED publisherVars
      BY <2>1, LedgerStepInv
    <2>2. ASSUME NEW p \in Publishers, Poll(p) \/ Crash(p), UNCHANGED vars
          PROVE  PublisherInv'
      BY <2>2, PollInv
    <2>3. CASE UNCHANGED allVars
      BY <2>3 DEF allVars, vars, publisherVars, PublisherInv, PublisherTypeOK,
                  OnlyCommittedIsPublished, ProcessedWasPublished, IsOldest
    <2>4. QED
      BY <2>1, <2>2, <2>3 DEF OutboxNext
  <1>2. QED
    BY <1>1, PublisherInitInv, LedgerUndisturbed, InvHolds, PTL DEF OutboxSpec

(* No event is lost on the way to Kafka: a processed one is there. *)
THEOREM NoEventLost == OutboxSpec => []ProcessedWasPublished
  <1>1. PublisherInv => ProcessedWasPublished
    BY DEF PublisherInv
  <1>2. QED
    BY <1>1, PublisherInvHolds, PTL

(* No event is sent for a transaction that is not in the ledger. *)
THEOREM NoEventInvented == OutboxSpec => []OnlyCommittedIsPublished
  <1>1. PublisherInv => OnlyCommittedIsPublished
    BY DEF PublisherInv
  <1>2. QED
    BY <1>1, PublisherInvHolds, PTL
=============================================================================
