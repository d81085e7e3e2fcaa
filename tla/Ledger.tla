------------------------------- MODULE Ledger -------------------------------
(***************************************************************************)
(* The transaction ledger: LedgerService.RecordTransaction                 *)
(* (internal/ledger/domain/service.go) over the SQL repository             *)
(* (internal/ledger/infrastructure/sql_repository.go) and its schema       *)
(* (internal/ledger/schema.sql).                                           *)
(*                                                                         *)
(* Several calls run at once: HTTP and gRPC requests, the Kafka consumer,  *)
(* and all of these in each replica of the service.  They meet only in the *)
(* database, so each step of a call is one statement sent to it.  The      *)
(* tables hold the rows of transactions still in progress as well; a row   *)
(* is visible to others once its transaction is in `committed' (READ       *)
(* COMMITTED), and a rollback removes the rows of its transaction.         *)
(***************************************************************************)
EXTENDS Integers, Sequences, FiniteSets, SequencesExt

CONSTANTS
    Calls,      \* the calls of RecordTransaction; also the ids of their rows
    Accounts,   \* the ids an account row can have
    Currency,   \* the currency column of each account
    Requests,   \* the TransactionRequests callers send
    WordBits    \* the width of the integer the amounts are summed in (64)

(* What the decoders can produce: a reference and a list of entries, which *)
(* BulkRecordTransactions lets be empty.                                   *)
ASSUME RequestsAssumption ==
    Requests \subseteq
        [ref : STRING, entries : Seq([account : Accounts, amount : Int])]

ASSUME WordBitsAssumption == WordBits \in Nat \ {0}

References == {q.ref : q \in Requests}

VARIABLES
    accounts,       \* the rows of table accounts
    transactions,   \* the rows of table transactions
    entries,        \* the rows of table entries
    outbox,         \* the rows of table outbox
    committed,      \* the database transactions that have committed
    clock,          \* the database's NOW(), counted in transactions begun
    pc,             \* where each call is
    request,        \* the request each call was given
    checked,        \* how many entries of the request passed the account check
    began,          \* NOW() of each call's database transaction
    reply           \* what each call returned

tables == <<transactions, entries, outbox, committed>>
vars == <<accounts, transactions, entries, outbox, committed, clock,
          pc, request, checked, began, reply>>

-----------------------------------------------------------------------------
(* Sums are taken in a two's complement integer of WordBits bits.          *)
Wrap(n) == ((n + 2^(WordBits - 1)) % 2^WordBits) - 2^(WordBits - 1)

Total(es) == FoldLeft(LAMBDA sum, e : sum + e.amount, 0, es)

(* Slip: nothing is checked. *)
SumIsNotChecked(q) == TRUE

SumIsZero(q) == Wrap(Total(q.entries)) = 0

(* The entry rows a request asks for, with their place in the request. *)
Lines(q) == {[n |-> i, account |-> q.entries[i].account,
              amount |-> q.entries[i].amount] : i \in DOMAIN q.entries}

RowsOf(table, c) == {row \in table : row.tx = c}

Ref(c) == request[c].ref

(* Slip: the SELECT also finds rows that are not committed yet. *)
RecordedDirtyRead(ref) == \E t \in transactions : t.ref = ref

(* The result of SELECT id FROM transactions WHERE reference_id = $1. *)
Recorded(ref) == \E t \in transactions : t.ref = ref /\ t.tx \in committed

(* The unique index entry another open transaction holds on a reference. *)
HeldByAnother(ref, c) ==
    \E t \in transactions : t.ref = ref /\ t.tx # c /\ t.tx \notin committed

-----------------------------------------------------------------------------
Goto(c, label) == pc' = [pc EXCEPT ![c] = label]

Return(c, answer) ==
    /\ Goto(c, "done")
    /\ reply' = [reply EXCEPT ![c] = answer]

(* The deferred txCtx.Rollback, and the database's own when a client dies. *)
Rollback(c) ==
    /\ transactions' = transactions \ RowsOf(transactions, c)
    /\ entries' = entries \ RowsOf(entries, c)
    /\ outbox' = outbox \ RowsOf(outbox, c)
    /\ UNCHANGED committed

Init ==
    /\ accounts = {}
    /\ transactions = {}
    /\ entries = {}
    /\ outbox = {}
    /\ committed = {}
    /\ clock = 0
    /\ pc = [c \in Calls |-> "idle"]
    /\ request \in [Calls -> Requests]
    /\ checked = [c \in Calls |-> 0]
    /\ began = [c \in Calls |-> 0]
    /\ reply = [c \in Calls |-> "none"]

(* LedgerService.CreateAccount.  The database makes the id up, so no call  *)
(* can have used it before; rows of this table are never changed.          *)
CreateAccount(a) ==
    /\ a \notin accounts
    /\ accounts' = accounts \cup {a}
    /\ UNCHANGED <<tables, clock, pc, request, checked, began, reply>>

(* Step 1: the amounts must add up to zero. *)
ValidateBalance(c) ==
    /\ pc[c] = "idle"
    /\ \/ /\ SumIsZero(request[c])
          /\ Goto(c, IF request[c].entries = <<>> THEN "begin" ELSE "accounts")
          /\ UNCHANGED reply
       \/ /\ ~SumIsZero(request[c])
          /\ Return(c, "error")
    /\ UNCHANGED <<accounts, tables, clock, request, checked, began>>

(* The account of entry i exists and has the currency of the first one's.  *)
AccountAccepted(es, i) ==
    /\ es[i].account \in accounts
    /\ Currency[es[i].account] = Currency[es[1].account]

(* Step 2, one round of the loop over the entries. *)
ValidateAccount(c) ==
    LET i == checked[c] + 1
    IN /\ pc[c] = "accounts"
       /\ \/ /\ AccountAccepted(request[c].entries, i)
             /\ checked' = [checked EXCEPT ![c] = i]
             /\ Goto(c, IF i = Len(request[c].entries) THEN "begin"
                                                       ELSE "accounts")
             /\ UNCHANGED reply
          \/ /\ ~AccountAccepted(request[c].entries, i)
             /\ Return(c, "error")
             /\ UNCHANGED checked
       /\ UNCHANGED <<accounts, tables, clock, request, began>>

(* Step 3: BEGIN, which fixes NOW() for the transaction, and the SELECT    *)
(* that looks for the reference.  Nothing between the two can be observed. *)
CheckIdempotency(c) ==
    /\ pc[c] = "begin"
    /\ began' = [began EXCEPT ![c] = clock]
    /\ clock' = clock + 1
    /\ \/ /\ Recorded(Ref(c))
          /\ Return(c, "ok")
       \/ /\ ~Recorded(Ref(c))
          /\ Goto(c, "insert")
          /\ UNCHANGED reply
    /\ UNCHANGED <<accounts, tables, request, checked>>

(* Slip: no UNIQUE constraint; only the SELECT guards against duplicates. *)
CreateTransactionNotUnique(c) ==
    /\ pc[c] = "insert"
    /\ transactions' = transactions \cup {[tx |-> c, ref |-> Ref(c)]}
    /\ Goto(c, "entries")
    /\ UNCHANGED <<accounts, entries, outbox, committed, clock, request,
                   checked, began, reply>>

(* Step 4: INSERT INTO transactions.  The UNIQUE reference_id makes it wait *)
(* for another open transaction that inserted the reference, and fail when  *)
(* that one has committed.                                                  *)
CreateTransaction(c) ==
    /\ pc[c] = "insert"
    /\ ~HeldByAnother(Ref(c), c)
    /\ \/ /\ ~Recorded(Ref(c))
          /\ transactions' = transactions \cup {[tx |-> c, ref |-> Ref(c)]}
          /\ Goto(c, "entries")
          /\ UNCHANGED <<entries, outbox, committed, reply>>
       \/ /\ Recorded(Ref(c))
          /\ Rollback(c)
          /\ Return(c, "error")
    /\ UNCHANGED <<accounts, clock, request, checked, began>>

(* Slip: the loop leaves out the first entry. *)
CreateEntriesOffByOne(c) ==
    /\ pc[c] = "entries"
    /\ entries' = entries \cup {[tx |-> c, line |-> l] :
                                l \in {k \in Lines(request[c]) : k.n > 1}}
    /\ Goto(c, "outbox")
    /\ UNCHANGED <<accounts, transactions, outbox, committed, clock, request,
                   checked, began, reply>>

(* Step 5: the entry rows, under CHECK (amount != 0).  They are invisible   *)
(* to everybody else until the commit, so the loop is one step.             *)
CreateEntries(c) ==
    LET lines == Lines(request[c])
        allowed == \A l \in lines : l.amount # 0
    IN /\ pc[c] = "entries"
       /\ \/ /\ allowed
             /\ entries' = entries \cup {[tx |-> c, line |-> l] : l \in lines}
             /\ Goto(c, "outbox")
             /\ UNCHANGED <<transactions, outbox, committed, reply>>
          \/ /\ ~allowed
             /\ Rollback(c)
             /\ Return(c, "error")
       /\ UNCHANGED <<accounts, clock, request, checked, began>>

(* Step 6: the event, in the same database transaction; created_at is the  *)
(* time the transaction began.                                             *)
CreateOutboxEvent(c) ==
    /\ pc[c] = "outbox"
    /\ outbox' = outbox \cup {[tx |-> c, ref |-> Ref(c), at |-> began[c]]}
    /\ Goto(c, "commit")
    /\ UNCHANGED <<accounts, transactions, entries, committed, clock, request,
                   checked, began, reply>>

(* COMMIT.  When the connection is lost at this moment the caller gets an  *)
(* error although the transaction stands.                                  *)
Commit(c) ==
    /\ pc[c] = "commit"
    /\ committed' = committed \cup {c}
    /\ \E answer \in {"ok", "error"} : Return(c, answer)
    /\ UNCHANGED <<accounts, transactions, entries, outbox, clock, request,
                   checked, began>>

(* A statement fails, the caller's context is cancelled or the replica     *)
(* dies: whatever the call had written is rolled back.                     *)
Fail(c) ==
    /\ pc[c] \in {"accounts", "begin", "insert", "entries", "outbox", "commit"}
    /\ Rollback(c)
    /\ Return(c, "error")
    /\ UNCHANGED <<accounts, clock, request, checked, began>>

Step(c) ==
    \/ ValidateBalance(c)
    \/ ValidateAccount(c)
    \/ CheckIdempotency(c)
    \/ CreateTransaction(c)
    \/ CreateEntries(c)
    \/ CreateOutboxEvent(c)
    \/ Commit(c)

(* All calls have returned and all accounts exist: the ledger is quiet. *)
Quiet ==
    /\ \A c \in Calls : pc[c] = "done"
    /\ accounts = Accounts
    /\ UNCHANGED vars

Next ==
    \/ \E a \in Accounts : CreateAccount(a)
    \/ \E c \in Calls : Step(c) \/ Fail(c)
    \/ Quiet

Spec == Init /\ [][Next]_vars

-----------------------------------------------------------------------------
(* What a reader of the tables sees. *)
VisibleTransactions == {t \in transactions : t.tx \in committed}
VisibleEntries == {e \in entries : e.tx \in committed}
VisibleOutbox == {v \in outbox : v.tx \in committed}

(* The lines posted for a database transaction. *)
Posting(c) == {e.line : e \in RowsOf(entries, c)}

Labels == {"idle", "accounts", "begin", "insert", "entries", "outbox",
           "commit", "done"}

LineRows == [n : Nat, account : Accounts, amount : Int]

(* The type of every variable. *)
TypeOK ==
    /\ accounts \subseteq Accounts
    /\ transactions \subseteq [tx : Calls, ref : References]
    /\ entries \subseteq [tx : Calls, line : LineRows]
    /\ outbox \subseteq [tx : Calls, ref : References, at : Nat]
    /\ committed \subseteq Calls
    /\ clock \in Nat
    /\ pc \in [Calls -> Labels]
    /\ request \in [Calls -> Requests]
    /\ checked \in [Calls -> Nat]
    /\ began \in [Calls -> Nat]
    /\ reply \in [Calls -> {"none", "ok", "error"}]

(* However many calls carry a reference, and however they interleave the   *)
(* idempotency SELECT with their INSERTs, one transaction with it stands.  *)
OneTransactionPerReference ==
    \A s, t \in VisibleTransactions : s.ref = t.ref => s = t

(* RecordTransaction is all or nothing: what is visible of a transaction   *)
(* is its row, every entry its request asked for, and its one event.       *)
AllOrNothing ==
    \A c \in committed :
        /\ [tx |-> c, ref |-> Ref(c)] \in transactions
        /\ Posting(c) = Lines(request[c])
        /\ RowsOf(outbox, c) = {[tx |-> c, ref |-> Ref(c), at |-> began[c]]}

(* Double entry (README.md:19, and the comment of step 1): the amounts of  *)
(* every transaction in the ledger add up to zero, so none creates money.  *)
EntriesSumToZero == \A c \in committed : Total(request[c].entries) = 0

(* No transaction mixes currencies, although the accounts were read in     *)
(* separate statements before the database transaction began, and every    *)
(* account it touches exists.                                              *)
OneCurrency ==
    \A c \in committed : \A k, l \in Posting(c) :
        /\ k.account \in accounts
        /\ Currency[k.account] = Currency[l.account]

(* A caller that is told "recorded" finds its reference in the ledger: the *)
(* early return for a known reference never answers for a transaction that *)
(* is rolled back afterwards.                                              *)
AcknowledgedIsRecorded ==
    \A c \in Calls :
        reply[c] = "ok" => \E t \in VisibleTransactions : t.ref = Ref(c)

(* Financial records are immutable (the triggers of schema.sql): what a   *)
(* reader has seen never changes or goes away, whatever fails later.       *)
RecordsAreImmutable ==
    [][/\ VisibleTransactions \subseteq VisibleTransactions'
       /\ VisibleEntries \subseteq VisibleEntries'
       /\ VisibleOutbox \subseteq VisibleOutbox']_vars

-----------------------------------------------------------------------------
(* The inductive invariant: which rows a call has written, and what it has *)
(* validated, at each place in RecordTransaction.                          *)
Validated(c) == pc[c] \in {"begin", "insert", "entries", "outbox", "commit"}
                \/ c \in committed
HasTransaction(c) == pc[c] \in {"entries", "outbox", "commit"}
                     \/ c \in committed
HasEntries(c) == pc[c] \in {"outbox", "commit"} \/ c \in committed
HasEvent(c) == pc[c] = "commit" \/ c \in committed

TransactionRows ==
    /\ \A t \in transactions : HasTransaction(t.tx) /\ t.ref = Ref(t.tx)
    /\ \A c \in Calls : HasTransaction(c) =>
          [tx |-> c, ref |-> Ref(c)] \in transactions

EntryRows ==
    /\ \A e \in entries : HasEntries(e.tx) /\ e.line \in Lines(request[e.tx])
    /\ \A c \in Calls : HasEntries(c) =>
          \A l \in Lines(request[c]) : [tx |-> c, line |-> l] \in entries

EventRows ==
    /\ \A v \in outbox :
          HasEvent(v.tx) /\ v.ref = Ref(v.tx) /\ v.at = began[v.tx]
    /\ \A c \in Calls : HasEvent(c) =>
          [tx |-> c, ref |-> Ref(c), at |-> began[c]] \in outbox

UniqueReference ==
    \A c, d \in Calls :
        HasTransaction(c) /\ HasTransaction(d) /\ Ref(c) = Ref(d) => c = d

HasBegun(c) == pc[c] \in {"insert", "entries", "outbox", "commit"}
               \/ c \in committed

DistinctTimes ==
    /\ \A c \in Calls : HasBegun(c) => began[c] < clock
    /\ \A c, d \in Calls :
          HasBegun(c) /\ HasBegun(d) /\ began[c] = began[d] => c = d

ChecksPassed ==
    \A c \in Calls :
        /\ pc[c] = "accounts" \/ Validated(c) => SumIsZero(request[c])
        /\ pc[c] = "idle" => checked[c] = 0
        /\ pc[c] = "accounts" => checked[c] < Len(request[c].entries)
        /\ Validated(c) => checked[c] = Len(request[c].entries)
        /\ HasEntries(c) => \A l \in Lines(request[c]) : l.amount # 0
        /\ \A i \in 1 .. checked[c] : AccountAccepted(request[c].entries, i)

AnswersStand ==
    \A c \in Calls :
        /\ c \in committed => pc[c] = "done"
        /\ reply[c] = "none" <=> pc[c] # "done"
        /\ reply[c] = "ok" => \E d \in committed : Ref(d) = Ref(c)

(* Rows, checks and answers agree with the place each call has reached. *)
Inv ==
    /\ TypeOK
    /\ TransactionRows
    /\ EntryRows
    /\ EventRows
    /\ UniqueReference
    /\ DistinctTimes
    /\ ChecksPassed
    /\ AnswersStand

-----------------------------------------------------------------------------
(* The ledger implements the atomic one: postings are the committed        *)
(* transactions with the entry rows a reader finds for them.               *)
Acceptable(q) == SumIsZero(q) /\ \A l \in Lines(q) : l.amount # 0

Book == {[ref |-> t.ref, lines |-> Posting(t.tx)] : t \in VisibleTransactions}

Atomic == INSTANCE AtomicLedger WITH
    book <- Book, asked <- request, answer <- reply,
    LinesOf <- Lines, Acceptable <- Acceptable

(* Every step of a call is a step of AtomicLedger, or changes nothing its  *)
(* callers can see.                                                        *)
ImplementsAtomicLedger == Atomic!Spec
=============================================================================
