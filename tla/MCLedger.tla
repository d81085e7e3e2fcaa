------------------------------ MODULE MCLedger ------------------------------
(* Small instances of the ledger for TLC: by itself (no publishers), and   *)
(* with two of the publishers of Outbox.                                   *)
EXTENDS Outbox, TLC

CONSTANTS
    c1, c2, c3,     \* calls
    p1, p2          \* publishers

MCCalls == {c1, c2, c3}
TwoCalls == {c1, c2}
OneUnsendable == {c1}
TwoPublishers == {p1, p2}

CallSymmetry == Permutations(Calls)

MCAccounts == {"user", "merchant", "euro"}
OneAccount == {"user"}
MCCurrency == [a \in MCAccounts |-> IF a = "euro" THEN "EUR" ELSE "USD"]

Move(from, to, amount) == <<[account |-> to, amount |-> amount],
                            [account |-> from, amount |-> -amount]>>

(* Two payments, one of them asked for with two different amounts, and one *)
(* request for each reason to refuse: unbalanced, two currencies, a zero   *)
(* amount.                                                                 *)
MCRequests == {
    [ref |-> "pay1", entries |-> Move("user", "merchant", 1)],
    [ref |-> "pay1", entries |-> Move("user", "merchant", 2)],
    [ref |-> "pay2", entries |-> Move("merchant", "user", 1)],
    [ref |-> "pay2", entries |-> Move("user", "merchant", 0)],
    [ref |-> "pay1", entries |-> Move("euro", "user", 1)],
    [ref |-> "pay2", entries |-> <<[account |-> "user", amount |-> 1]>>],
    [ref |-> "empty", entries |-> <<>>]}

(* Requests of BulkRecordTransactions without entries, the shortest way to *)
(* an event; calls with one reference compete for it.                      *)
EmptyPayments == {[ref |-> r, entries |-> <<>>] : r \in {"pay1", "pay2"}}
=============================================================================
