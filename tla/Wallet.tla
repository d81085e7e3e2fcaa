------------------------------- MODULE Wallet -------------------------------
(***************************************************************************)
(* The wallet service: balances, top-ups and transfers over the gRPC       *)
(* interface of the ledger.  A transfer is two ledger transactions, one    *)
(* after the other, each under its own reference; a client that saw an     *)
(* error repeats the request with the same reference.  The ledger commits  *)
(* a transaction at once and at most once per reference (the Ledger module *)
(* shows it); an answer of it may be lost after the commit.                *)
(***************************************************************************)
EXTENDS Handlers, Integers

CONSTANTS
    Wallets,        \* the accounts of users in the ledger
    References      \* the references of requests

ASSUME WalletAssumption == None \notin [account : Wallets, amount : Int]

VARIABLE
    posted      \* the transaction under each reference and suffix, or None

walletVars == <<posted>>

Legs == {"top-up", "debit", "credit"}

WalletInit == posted = [r \in References |-> [leg \in Legs |-> None]]

(* LedgerGRPCServer.RecordTransaction, the entry of the wallet's account;  *)
(* the other entry goes to system_balancing.  A known reference posts      *)
(* nothing and is no error; an unknown account is one.                     *)
RecordTransaction(r, leg, account, amount) ==
    /\ account \in Wallets
    /\ posted' = IF posted[r][leg] # None THEN posted
                 ELSE [posted EXCEPT ![r][leg] = [account |-> account, amount |-> amount]]

(* An error: the account is unknown, the ledger failed, or it committed    *)
(* and its answer was lost.                                                *)
RecordingFails(r, leg, account, amount) ==
    \/ account \notin Wallets /\ UNCHANGED posted
    \/ MayFail /\ UNCHANGED posted
    \/ MayFail /\ RecordTransaction(r, leg, account, amount)

(* GET /v1/wallets/<user> and the gRPC method *)
GetWallet(c) ==
    /\ Begins(c, "wallet")
    /\ (ask[c].user \in Wallets /\ Ok(c)) \/ ((MayFail \/ ask[c].user \notin Wallets) /\ Refuse(c))
    /\ UNCHANGED walletVars

(* POST /v1/wallets/top-up and the gRPC method *)
TopUp(c) ==
    /\ Begins(c, "topup")
    /\ \/ RecordTransaction(ask[c].ref, "top-up", ask[c].user, ask[c].amount) /\ Ok(c)
       \/ RecordingFails(ask[c].ref, "top-up", ask[c].user, ask[c].amount) /\ Refuse(c)

Debit(c) == RecordTransaction(ask[c].ref, "debit", ask[c].from, -ask[c].amount)
Credit(c) == RecordTransaction(ask[c].ref, "credit", ask[c].to, ask[c].amount)

(* Slip: the receiver is credited first. *)
TransferCreditingFirst(c) ==
    \/ /\ Begins(c, "transfer")
       /\ \/ Credit(c) /\ Goto(c, "credit") /\ UNCHANGED held
          \/ UNCHANGED posted /\ Refuse(c)
    \/ /\ Serving(c, "transfer", "credit")
       /\ \/ Debit(c) /\ Ok(c)
          \/ UNCHANGED posted /\ Refuse(c)

(* POST /v1/wallets/transfer and the gRPC method *)
Transfer(c) ==
    \/ /\ Begins(c, "transfer")
       /\ \/ Debit(c) /\ Goto(c, "credit") /\ UNCHANGED held
          \/ RecordingFails(ask[c].ref, "debit", ask[c].from, -ask[c].amount) /\ Refuse(c)
    \/ /\ Serving(c, "transfer", "credit")
       /\ \/ Credit(c) /\ Ok(c)
          \/ RecordingFails(ask[c].ref, "credit", ask[c].to, ask[c].amount) /\ Refuse(c)

WalletOps == {"wallet", "topup", "transfer"}

WalletNext ==
    \E c \in Calls :
        \/ ask[c].op \in WalletOps /\ Malformed(c) /\ UNCHANGED walletVars
        \/ GetWallet(c) \/ TopUp(c) \/ Transfer(c)

-----------------------------------------------------------------------------
(* Both legs of a transfer are in the ledger. *)
Whole(r) == posted[r]["debit"] # None /\ posted[r]["credit"] # None

(* However often a transfer is repeated, and whichever of its calls fail:  *)
(* the receiver is credited only what the sender was debited, never        *)
(* before; an answer of success means that both are done; and a transfer   *)
(* is left half done only by a call that is under way or was refused       *)
(* (Transfer).                                                             *)
TransfersLoseNothing ==
    \A r \in References :
        /\ posted[r]["credit"] # None =>
             posted[r]["debit"] # None /\ posted[r]["credit"].amount = -posted[r]["debit"].amount
        /\ \A c \in Calls : ask[c].op = "transfer" /\ ask[c].ref = r /\ reply[c] = "ok" => Whole(r)
        /\ posted[r]["debit"] # None /\ ~Whole(r) =>
             \E c \in Calls : /\ ask[c].op = "transfer" /\ ask[c].ref = r
                              /\ at[c] = "credit" \/ reply[c] = "refused"
=============================================================================
