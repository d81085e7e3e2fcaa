--------------------------- MODULE ServiceProofs ---------------------------
(***************************************************************************)
(* What the request handlers of the services keep, for every set of calls  *)
(* and every interleaving of their round trips: the transfers of the       *)
(* wallet, the keys and limits of the gateway, the grants of the OAuth     *)
(* server, the users, tokens, organizations, policies and zones of the     *)
(* auth service.                                                           *)
(* Each part is proved on its own, with requests of its own: the parts     *)
(* share no state.                                                         *)
(***************************************************************************)
EXTENDS Wallet, Gateway, OAuth, Credentials, Teams, Policies, ZoneService, FiniteSetTheorems,
        TLAPS

-----------------------------------------------------------------------------
(* Wallet *)

Amounts == Nat \ {0}

TransferAsks ==
    [op : {"transfer"}, bad : BOOLEAN, ref : References, from : STRING, to : STRING,
     amount : Amounts]

WalletAsks ==
    TransferAsks
      \cup [op : {"topup"}, bad : BOOLEAN, ref : References, user : STRING, amount : Amounts]
      \cup [op : {"wallet"}, bad : BOOLEAN, user : STRING]

(* A client that uses a reference again repeats the transfer it stands for. *)
Repeated ==
    {f \in [Calls -> WalletAsks] :
       \A c, d \in Calls :
         f[c].op = "transfer" /\ f[d].op = "transfer" /\ f[c].ref = f[d].ref
           => f[c].amount = f[d].amount}

walletAllVars == <<walletVars, callVars>>

(* The wallet service, with any number of such requests. *)
WalletSpec ==
    /\ CallsInit(Repeated) /\ WalletInit
    /\ [][WalletNext]_walletAllVars

Postings == [account : Wallets, amount : Int]

WalletTypeOK ==
    /\ ask \in Repeated
    /\ posted \in [References -> [Legs -> Postings \cup {None}]]
    /\ at \in [Calls -> {"start", "credit", "done"}]
    /\ reply \in [Calls -> {"none", "ok", "refused"}]

(* The amount of a leg is the one its transfer asked for. *)
AmountsAgree ==
    \A r \in References :
        /\ posted[r]["debit"] # None =>
             \E c \in Calls : /\ ask[c].op = "transfer" /\ ask[c].ref = r
                              /\ posted[r]["debit"].amount = -ask[c].amount
        /\ posted[r]["credit"] # None =>
             \E c \in Calls : /\ ask[c].op = "transfer" /\ ask[c].ref = r
                              /\ posted[r]["credit"].amount = ask[c].amount

(* A handler that goes on to the credit has seen the debit. *)
DebitComesFirst ==
    /\ \A r \in References : posted[r]["credit"] # None => posted[r]["debit"] # None
    /\ \A c \in Calls : Serving(c, "transfer", "credit") => posted[ask[c].ref]["debit"] # None

WalletInv == WalletTypeOK /\ AmountsAgree /\ DebitComesFirst /\ TransfersLoseNothing

(* The ledger posts a leg once; the other legs it leaves alone. *)
LEMMA Recording ==
    ASSUME WalletTypeOK, NEW r \in References, NEW leg \in Legs, NEW account,
           NEW amount \in Int, RecordTransaction(r, leg, account, amount)
    PROVE  /\ posted' \in [References -> [Legs -> Postings \cup {None}]]
           /\ posted'[r][leg] # None
           /\ posted[r][leg] # None => posted' = posted
           /\ posted[r][leg] = None => posted'[r][leg].amount = amount
           /\ \A q \in References, l \in Legs : <<q, l>> # <<r, leg>> => posted'[q][l] = posted[q][l]
<1>1. CASE posted[r][leg] # None
  BY <1>1 DEF RecordTransaction, WalletTypeOK
<1>2. CASE posted[r][leg] = None
  <2>1. PICK row : row = [account |-> account, amount |-> amount]
    OBVIOUS
  <2>2. account \in Wallets /\ posted' = [posted EXCEPT ![r][leg] = row]
    BY <1>2, <2>1 DEF RecordTransaction
  <2>3. row \in Postings /\ row.amount = amount
    BY <2>1, <2>2 DEF Postings
  <2>4. row # None
    BY <2>3, WalletAssumption DEF Postings
  <2> QED BY <1>2, <2>2, <2>3, <2>4 DEF WalletTypeOK
<1> QED BY <1>1, <1>2

LEMMA WalletStarts == CallsInit(Repeated) /\ WalletInit => WalletInv
<1> SUFFICES ASSUME CallsInit(Repeated), WalletInit PROVE WalletInv
  OBVIOUS
<1>1. /\ ask \in Repeated /\ at = [c \in Calls |-> "start"]
      /\ reply = [c \in Calls |-> "none"]
  BY DEF CallsInit
<1>2. posted \in [References -> [Legs -> {None}]]
  BY DEF WalletInit
<1>3. \A r \in References : posted[r]["debit"] = None /\ posted[r]["credit"] = None
  BY <1>2 DEF Legs
<1> QED BY <1>1, <1>2, <1>3
       DEF WalletInv, WalletTypeOK, AmountsAgree, DebitComesFirst, TransfersLoseNothing, Serving

(* A call that posts no leg of a transfer, and is no transfer or refused. *)
LEMMA WalletAside ==
    ASSUME WalletInv, NEW c \in Calls, NEW a \in {"ok", "refused"},
           ask[c].op = "transfer" => a = "refused",
           Answer(c, a), at[c] # "done",
           posted' \in [References -> [Legs -> Postings \cup {None}]],
           \A r \in References, l \in {"debit", "credit"} : posted'[r][l] = posted[r][l]
    PROVE  WalletInv'
<1>1. /\ ask' = ask /\ at' = [at EXCEPT ![c] = "done"] /\ reply' = [reply EXCEPT ![c] = a]
  BY DEF Answer
<1>2. WalletTypeOK'
  BY <1>1 DEF WalletInv, WalletTypeOK
<1>3. AmountsAgree'
  BY <1>1 DEF WalletInv, AmountsAgree
<1>4. \A d \in Calls : /\ ask[d].op = "transfer" => ask[d].ref \in References
                       /\ at'[d] = "credit" => at[d] = "credit"
  BY <1>1 DEF WalletInv, WalletTypeOK, Repeated, WalletAsks, TransferAsks
<1>5. DebitComesFirst'
  BY <1>1, <1>4 DEF WalletInv, DebitComesFirst, Serving
<1>6. \A r \in References : Whole(r)' <=> Whole(r)
  BY DEF Whole
<1>7. TransfersLoseNothing'
  <2> SUFFICES ASSUME NEW r \in References
               PROVE  /\ posted'[r]["credit"] # None =>
                            /\ posted'[r]["debit"] # None
                            /\ posted'[r]["credit"].amount = -posted'[r]["debit"].amount
                      /\ \A d \in Calls : ask[d].op = "transfer" /\ ask[d].ref = r /\ reply'[d] = "ok"
                            => Whole(r)
                      /\ posted'[r]["debit"] # None /\ ~Whole(r) =>
                            \E d \in Calls : /\ ask[d].op = "transfer" /\ ask[d].ref = r
                                             /\ at'[d] = "credit" \/ reply'[d] = "refused"
    BY <1>1, <1>6 DEF TransfersLoseNothing
  <2>1. /\ posted'[r]["credit"] # None =>
             /\ posted'[r]["debit"] # None
             /\ posted'[r]["credit"].amount = -posted'[r]["debit"].amount
    BY DEF WalletInv, TransfersLoseNothing
  <2>2. ASSUME NEW d \in Calls, ask[d].op = "transfer", ask[d].ref = r, reply'[d] = "ok"
        PROVE  Whole(r)
    BY <1>1, <2>2 DEF WalletInv, WalletTypeOK, TransfersLoseNothing
  <2>3. ASSUME posted'[r]["debit"] # None, ~Whole(r)
        PROVE  \E d \in Calls : /\ ask[d].op = "transfer" /\ ask[d].ref = r
                                /\ at'[d] = "credit" \/ reply'[d] = "refused"
    <3>1. PICK d \in Calls : /\ ask[d].op = "transfer" /\ ask[d].ref = r
                             /\ at[d] = "credit" \/ reply[d] = "refused"
      BY <2>3 DEF WalletInv, TransfersLoseNothing
    <3> QED BY <1>1, <3>1 DEF WalletInv, WalletTypeOK
  <2> QED BY <2>1, <2>2, <2>3
<1> QED BY <1>2, <1>3, <1>5, <1>7 DEF WalletInv

(* What a request of a transfer carries. *)
LEMMA TransferAsked ==
    ASSUME WalletTypeOK, NEW c \in Calls, ask[c].op = "transfer"
    PROVE  ask[c].ref \in References /\ ask[c].amount \in Int /\ -ask[c].amount \in Int
<1>1. ask[c] \in TransferAsks
  BY DEF WalletTypeOK, Repeated, WalletAsks, TransferAsks
<1> QED BY <1>1 DEF TransferAsks, Amounts

(* Every leg carries the amount of every call of its transfer. *)
LEMMA AmountOfAnyCall ==
    ASSUME WalletInv, NEW c \in Calls, ask[c].op = "transfer"
    PROVE  /\ posted[ask[c].ref]["debit"] # None =>
                posted[ask[c].ref]["debit"].amount = -ask[c].amount
           /\ posted[ask[c].ref]["credit"] # None =>
                posted[ask[c].ref]["credit"].amount = ask[c].amount
<1>1. \A d \in Calls : ask[d].op = "transfer" /\ ask[d].ref = ask[c].ref
                          => ask[d].amount = ask[c].amount
  BY DEF WalletInv, WalletTypeOK, Repeated
<1> QED BY <1>1, TransferAsked DEF WalletInv, AmountsAgree

(* The debit, and on to the credit or to an error. *)
LEMMA DebitKeeps ==
    ASSUME WalletInv, NEW c \in Calls, Begins(c, "transfer"), Debit(c),
           Goto(c, "credit") \/ Refuse(c)
    PROVE  WalletInv'
<1> DEFINE r == ask[c].ref
<1>1. /\ r \in References /\ -ask[c].amount \in Int /\ "debit" \in Legs /\ "credit" \in Legs
      /\ ask[c].op = "transfer" /\ at[c] = "start"
  BY TransferAsked DEF WalletInv, Begins, Serving, Legs
<1>2. /\ posted' \in [References -> [Legs -> Postings \cup {None}]]
      /\ posted'[r]["debit"] # None
      /\ posted[r]["debit"] # None => posted' = posted
      /\ posted[r]["debit"] = None => posted'[r]["debit"].amount = -ask[c].amount
      /\ \A q \in References, l \in Legs :
            <<q, l>> # <<r, "debit">> => posted'[q][l] = posted[q][l]
  BY <1>1, Recording DEF WalletInv, Debit
<1>3. /\ ask' = ask
      /\ \/ at' = [at EXCEPT ![c] = "credit"] /\ reply' = reply
         \/ at' = [at EXCEPT ![c] = "done"] /\ reply' = [reply EXCEPT ![c] = "refused"]
  BY DEF Goto, Refuse, Answer
<1>4. WalletTypeOK'
  BY <1>2, <1>3 DEF WalletInv, WalletTypeOK
<1>5. \A q \in References : posted'[q]["credit"] = posted[q]["credit"]
  BY <1>1, <1>2
<1>6. \A q \in References : q # r => posted'[q]["debit"] = posted[q]["debit"]
  BY <1>1, <1>2
<1>7. posted'[r]["debit"].amount = -ask[c].amount
  BY <1>1, <1>2, AmountOfAnyCall
<1>8. AmountsAgree'
  BY <1>1, <1>3, <1>5, <1>6, <1>7 DEF WalletInv, AmountsAgree
<1>9. DebitComesFirst'
  <2>1. \A q \in References : posted'[q]["credit"] # None => posted'[q]["debit"] # None
    BY <1>2, <1>5, <1>6 DEF WalletInv, DebitComesFirst
  <2>2. ASSUME NEW d \in Calls, ask[d].op = "transfer", at'[d] = "credit"
        PROVE  posted'[ask[d].ref]["debit"] # None
    BY <1>1, <1>2, <1>3, <1>6, <2>2, TransferAsked
       DEF WalletInv, WalletTypeOK, DebitComesFirst, Serving
  <2> QED BY <1>3, <2>1, <2>2 DEF DebitComesFirst, Serving
<1>10. TransfersLoseNothing'
  <2> SUFFICES ASSUME NEW q \in References
               PROVE  /\ posted'[q]["credit"] # None =>
                            /\ posted'[q]["debit"] # None
                            /\ posted'[q]["credit"].amount = -posted'[q]["debit"].amount
                      /\ \A d \in Calls : ask[d].op = "transfer" /\ ask[d].ref = q /\ reply'[d] = "ok"
                            => Whole(q)'
                      /\ posted'[q]["debit"] # None /\ ~Whole(q)' =>
                            \E d \in Calls : /\ ask[d].op = "transfer" /\ ask[d].ref = q
                                             /\ at'[d] = "credit" \/ reply'[d] = "refused"
    BY <1>3 DEF TransfersLoseNothing
  <2>1. ASSUME posted'[q]["credit"] # None
        PROVE  /\ posted'[q]["debit"] # None
               /\ posted'[q]["credit"].amount = -posted'[q]["debit"].amount
    <3>1. CASE q # r
      BY <1>5, <1>6, <2>1, <3>1 DEF WalletInv, TransfersLoseNothing
    <3>2. CASE q = r
      <4>1. posted[r]["debit"] # None /\ posted' = posted
        BY <1>1, <1>2, <1>5, <2>1, <3>2 DEF WalletInv, TransfersLoseNothing
      <4> QED BY <2>1, <3>2, <4>1 DEF WalletInv, TransfersLoseNothing
    <3> QED BY <3>1, <3>2
  <2>2. ASSUME NEW d \in Calls, ask[d].op = "transfer", ask[d].ref = q, reply'[d] = "ok"
        PROVE  Whole(q)'
    <3>1. Whole(q)
      BY <1>3, <2>2 DEF WalletInv, WalletTypeOK, TransfersLoseNothing
    <3> QED BY <1>2, <1>5, <1>6, <3>1 DEF Whole
  <2>3. ASSUME posted'[q]["debit"] # None, ~Whole(q)'
        PROVE  \E d \in Calls : /\ ask[d].op = "transfer" /\ ask[d].ref = q
                                /\ at'[d] = "credit" \/ reply'[d] = "refused"
    <3>1. CASE q = r
      BY <1>1, <1>3, <3>1 DEF WalletInv, WalletTypeOK
    <3>2. CASE q # r
      <4>1. posted[q]["debit"] # None /\ ~Whole(q)
        BY <1>5, <1>6, <2>3, <3>2 DEF Whole
      <4>2. PICK d \in Calls : /\ ask[d].op = "transfer" /\ ask[d].ref = q
                               /\ at[d] = "credit" \/ reply[d] = "refused"
        BY <4>1 DEF WalletInv, TransfersLoseNothing
      <4>3. d # c
        BY <3>2, <4>2
      <4> QED BY <1>3, <4>2, <4>3 DEF WalletInv, WalletTypeOK
    <3> QED BY <3>1, <3>2
  <2> QED BY <2>1, <2>2, <2>3
<1> QED BY <1>4, <1>8, <1>9, <1>10 DEF WalletInv

(* The credit, and the answer. *)
LEMMA CreditKeeps ==
    ASSUME WalletInv, NEW c \in Calls, Serving(c, "transfer", "credit"), Credit(c),
           NEW a \in {"ok", "refused"}, Answer(c, a)
    PROVE  WalletInv'
<1> DEFINE r == ask[c].ref
<1>1. /\ r \in References /\ ask[c].amount \in Int /\ "debit" \in Legs /\ "credit" \in Legs
      /\ ask[c].op = "transfer" /\ at[c] = "credit" /\ posted[r]["debit"] # None
  BY TransferAsked DEF WalletInv, Serving, Legs, DebitComesFirst
<1>2. /\ posted' \in [References -> [Legs -> Postings \cup {None}]]
      /\ posted'[r]["credit"] # None
      /\ posted[r]["credit"] # None => posted' = posted
      /\ posted[r]["credit"] = None => posted'[r]["credit"].amount = ask[c].amount
      /\ \A q \in References, l \in Legs :
            <<q, l>> # <<r, "credit">> => posted'[q][l] = posted[q][l]
  BY <1>1, Recording DEF WalletInv, Credit
<1>3. /\ ask' = ask /\ at' = [at EXCEPT ![c] = "done"] /\ reply' = [reply EXCEPT ![c] = a]
  BY DEF Answer
<1>4. WalletTypeOK'
  BY <1>2, <1>3 DEF WalletInv, WalletTypeOK
<1>5. \A q \in References : posted'[q]["debit"] = posted[q]["debit"]
  BY <1>1, <1>2
<1>6. \A q \in References : q # r => posted'[q]["credit"] = posted[q]["credit"]
  BY <1>1, <1>2
<1>7. posted'[r]["credit"].amount = ask[c].amount /\ posted'[r]["debit"].amount = -ask[c].amount
  BY <1>1, <1>2, <1>5, AmountOfAnyCall
<1>8. AmountsAgree'
  BY <1>1, <1>3, <1>5, <1>6, <1>7 DEF WalletInv, AmountsAgree
<1>9. DebitComesFirst'
  <2>1. \A q \in References : posted'[q]["credit"] # None => posted'[q]["debit"] # None
    BY <1>1, <1>5, <1>6 DEF WalletInv, DebitComesFirst
  <2>2. ASSUME NEW d \in Calls, ask[d].op = "transfer", at'[d] = "credit"
        PROVE  posted'[ask[d].ref]["debit"] # None
    BY <1>1, <1>3, <1>5, <2>2, TransferAsked
       DEF WalletInv, WalletTypeOK, DebitComesFirst, Serving
  <2> QED BY <1>3, <2>1, <2>2 DEF DebitComesFirst, Serving
<1>10. \A q \in References : q = r => Whole(q)'
  BY <1>1, <1>2, <1>5 DEF Whole
<1>11. TransfersLoseNothing'
  <2> SUFFICES ASSUME NEW q \in References
               PROVE  /\ posted'[q]["credit"] # None =>
                            /\ posted'[q]["debit"] # None
                            /\ posted'[q]["credit"].amount = -posted'[q]["debit"].amount
                      /\ \A d \in Calls : ask[d].op = "transfer" /\ ask[d].ref = q /\ reply'[d] = "ok"
                            => Whole(q)'
                      /\ posted'[q]["debit"] # None /\ ~Whole(q)' =>
                            \E d \in Calls : /\ ask[d].op = "transfer" /\ ask[d].ref = q
                                             /\ at'[d] = "credit" \/ reply'[d] = "refused"
    BY <1>3 DEF TransfersLoseNothing
  <2>1. CASE q = r
    <3>1. posted'[r]["credit"].amount = -posted'[r]["debit"].amount
      BY <1>1, <1>7
    <3>2. Whole(q)'
      BY <1>10, <2>1
    <3> QED BY <1>1, <1>5, <2>1, <3>1, <3>2
  <2>2. CASE q # r
    <3>1. Whole(q)' <=> Whole(q)
      BY <1>5, <1>6, <2>2 DEF Whole
    <3>2. \A d \in Calls : ask[d].ref = q => at'[d] = at[d] /\ reply'[d] = reply[d]
      BY <1>3, <2>2 DEF WalletInv, WalletTypeOK
    <3> QED BY <1>5, <1>6, <2>2, <3>1, <3>2 DEF WalletInv, TransfersLoseNothing
  <2> QED BY <2>1, <2>2
<1> QED BY <1>4, <1>8, <1>9, <1>11 DEF WalletInv

(* A top-up is in no transfer. *)
LEMMA TopUpKeeps ==
    ASSUME WalletInv, NEW c \in Calls, TopUp(c)
    PROVE  WalletInv'
<1> DEFINE row == ask[c]
<1>1. row.op = "topup" /\ at[c] = "start" /\ row.ref \in References /\ row.amount \in Int
  <2>1. row.op = "topup" /\ at[c] = "start"
    BY DEF TopUp, Begins, Serving
  <2>2. row \in [op : {"topup"}, bad : BOOLEAN, ref : References, user : STRING, amount : Amounts]
    BY <2>1 DEF WalletInv, WalletTypeOK, Repeated, WalletAsks, TransferAsks
  <2> QED BY <2>1, <2>2 DEF Amounts
<1>2. posted' = posted \/ RecordTransaction(row.ref, "top-up", row.user, row.amount)
  BY DEF TopUp, RecordingFails
<1>3. PICK a \in {"ok", "refused"} : Answer(c, a)
  BY DEF TopUp, Ok, Refuse
<1>4. posted' \in [References -> [Legs -> Postings \cup {None}]]
  BY <1>1, <1>2, Recording DEF WalletInv, WalletTypeOK, Legs
<1>5. \A r \in References, l \in {"debit", "credit"} : posted'[r][l] = posted[r][l]
  <2>1. CASE posted' = posted
    BY <2>1
  <2>2. CASE RecordTransaction(row.ref, "top-up", row.user, row.amount)
    <3>1. \A q \in References, l \in Legs :
            <<q, l>> # <<row.ref, "top-up">> => posted'[q][l] = posted[q][l]
      BY <1>1, <2>2, Recording DEF WalletInv, Legs
    <3> QED BY <3>1 DEF Legs
  <2> QED BY <1>2, <2>1, <2>2
<1> QED BY <1>1, <1>3, <1>4, <1>5, WalletAside

LEMMA WalletStep == WalletInv /\ [WalletNext]_walletAllVars => WalletInv'
<1> SUFFICES ASSUME WalletInv, [WalletNext]_walletAllVars PROVE WalletInv'
  OBVIOUS
<1>0. posted \in [References -> [Legs -> Postings \cup {None}]]
  BY DEF WalletInv, WalletTypeOK
<1>1. CASE UNCHANGED walletAllVars
  BY <1>1 DEF walletAllVars, walletVars, callVars, WalletInv, WalletTypeOK, AmountsAgree,
              DebitComesFirst, TransfersLoseNothing, Whole, Serving
<1>2. ASSUME NEW c \in Calls, Malformed(c), UNCHANGED walletVars PROVE WalletInv'
  <2>1. Answer(c, "refused") /\ at[c] = "start" /\ posted' = posted
    BY <1>2 DEF Malformed, Refuse, walletVars
  <2> QED BY <1>0, <2>1, WalletAside
<1>3. ASSUME NEW c \in Calls, GetWallet(c) PROVE WalletInv'
  <2>1. at[c] = "start" /\ posted' = posted /\ ask[c].op = "wallet"
    BY <1>3 DEF GetWallet, Begins, Serving, walletVars
  <2>2. PICK a \in {"ok", "refused"} : Answer(c, a)
    BY <1>3 DEF GetWallet, Ok, Refuse
  <2> QED BY <1>0, <2>1, <2>2, WalletAside
<1>4. ASSUME NEW c \in Calls, Transfer(c) PROVE WalletInv'
  <2>1. CASE posted' = posted /\ Answer(c, "refused")
    <3>1. at[c] # "done"
      BY <1>4 DEF Transfer, Begins, Serving
    <3> QED BY <1>0, <2>1, <3>1, WalletAside
  <2>2. CASE Begins(c, "transfer") /\ Debit(c) /\ (Goto(c, "credit") \/ Refuse(c))
    BY <2>2, DebitKeeps
  <2>3. CASE /\ Serving(c, "transfer", "credit") /\ Credit(c)
             /\ Answer(c, "ok") \/ Answer(c, "refused")
    BY <2>3, CreditKeeps
  <2> QED BY <1>4, <2>1, <2>2, <2>3 DEF Transfer, RecordingFails, Debit, Credit, Ok, Refuse
<1> QED BY <1>1, <1>2, <1>3, <1>4, TopUpKeeps DEF WalletNext

(* However a transfer is repeated and whichever of its round trips fail,   *)
(* its legs are posted in order and for the amount asked: the inductive    *)
(* invariant of the wallet, its types included.                            *)
LEMMA WalletInvHolds == WalletSpec => []WalletInv
<1> QED BY WalletStarts, WalletStep, PTL DEF WalletSpec

(* A transfer credits what it debited, never before, and is left half done *)
(* only by a call that is under way or was refused.                        *)
THEOREM NothingIsLost == WalletSpec => []TransfersLoseNothing
<1>1. WalletInv => TransfersLoseNothing
  BY DEF WalletInv
<1> QED BY <1>1, WalletInvHolds, PTL

-----------------------------------------------------------------------------
(* Gateway *)

GateAsks ==
    [op : {"http"}, bad : BOOLEAN, path : [area : STRING, v1 : BOOLEAN], method : STRING,
     key : APIKeys, idem : IdempotencyKeys \cup {None}]
      \cup [op : {"validatekey"}, bad : BOOLEAN, key : APIKeys]
      \cup [op : {"generate"}, bad : BOOLEAN, zone : Zones, type : {"secret", "publishable"}]

gateAllVars == <<gateVars, callVars>>

(* The gateway and the API keys, with any number of requests. *)
GateSpec ==
    /\ CallsInit([Calls -> GateAsks]) /\ GateInit
    /\ [][GateNext]_gateAllVars

(* The labels behind the lookup of the key. *)
Found == {"fill", "judge", "limit", "incr", "expire", "route", "emit", "add", "store"}

(* The steps before Redis lets a request in. *)
Uncounted == {"fill", "judge", "limit", "incr"}

GateTypeOK ==
    /\ ask \in [Calls -> GateAsks]
    /\ at \in [Calls -> {"start", "cache", "table", "done"} \cup Found]
    /\ held \in [Calls -> Holdings \cup {None}]
    /\ apiKeys \in [APIKeys -> KeyRows \cup {None}]
    /\ keyCache \in [APIKeys -> KeyRows \cup {None}]
    /\ window \in Windows
    /\ stream \in Seq([event : Calls, zone : Zones, idem : IdempotencyKeys])
    /\ dedup \in [Zones \X IdempotencyKeys -> Calls \cup {None}]

(* What the handler of c, at l and holding h, has made sure of: behind the *)
(* lookup it holds the row; one that is counted holds its window, and one  *)
(* that emits has a key to store the event under.                          *)
FoundBy(c, l, h) ==
    /\ l \in Found => h # None
    /\ l \in {"incr", "expire"} => h.window # None /\ ask[c].op = "http"
    /\ l \in Uncounted => h.counted = None
    /\ l \in {"emit", "add", "store"} => ask[c].op = "http" /\ ask[c].idem # None

FoundIsHeld == \A c \in Calls : FoundBy(c, at[c], held[c])

(* No window is held that the clock has not reached. *)
HeldIsPast ==
    \A c \in Calls :
        held[c] # None /\ held[c].window # None => held[c].window <= window

(* The time to live of a counter ends after the minute the counter is for. *)
CountersOK ==
    /\ count \in [Counters -> Nat] /\ due \in [Counters -> Nat \cup {None}]
    /\ \A k \in APIKeys, w \in Windows : due[<<k, w>>] # None => due[<<k, w>>] > w

AdmittedTo(k, w) == {c \in Calls : Admitted(c, k, w)}

(* While its minute lasts, a counter counts the requests let in, and more. *)
CountersCover ==
    \A k \in APIKeys, w \in Windows :
        window <= w => Cardinality(AdmittedTo(k, w)) <= count[<<k, w>>]

GateInv ==
    /\ GateTypeOK /\ FoundIsHeld /\ HeldIsPast
    /\ CountersOK /\ CountersCover /\ QuotaHolds

LEMMA GateStarts == CallsInit([Calls -> GateAsks]) /\ GateInit => GateInv
<1> SUFFICES ASSUME CallsInit([Calls -> GateAsks]), GateInit PROVE GateInv
  OBVIOUS
<1>1. /\ ask \in [Calls -> GateAsks] /\ at = [c \in Calls |-> "start"]
      /\ held = [c \in Calls |-> None]
  BY DEF CallsInit
<1>2. GateTypeOK
  BY <1>1, GateAssumption DEF GateInit, GateTypeOK, Windows
<1>3. FoundIsHeld
  BY <1>1 DEF FoundIsHeld, FoundBy, Found, Uncounted
<1>4. \A k, w : AdmittedTo(k, w) = {}
  BY <1>1 DEF AdmittedTo, Admitted
<1>5. \A k, w : Cardinality(AdmittedTo(k, w)) = 0
  BY <1>4, FS_EmptySet
<1>6. CountersCover
  BY <1>5 DEF CountersCover, GateInit, Counters
<1>7. QuotaHolds
  <2>1. \A k \in APIKeys, w \in Windows : Cardinality(AdmittedTo(k, w)) <= Quota
    BY <1>5, GateAssumption
  <2> QED BY <2>1 DEF QuotaHolds, AdmittedTo
<1>8. HeldIsPast
  BY <1>1 DEF HeldIsPast
<1>9. CountersOK
  BY DEF CountersOK, GateInit, Counters
<1> QED BY <1>2, <1>3, <1>6, <1>7, <1>8, <1>9 DEF GateInv

(* A handler that moves on, with what it holds. *)
LEMMA GateMoves ==
    ASSUME GateInv, NEW c \in Calls, NEW l \in {"start", "cache", "table", "done"} \cup Found,
           NEW h \in Holdings \cup {None},
           FoundBy(c, l, h), h # None /\ h.window # None => h.window <= window,
           ask' = ask, at' = [at EXCEPT ![c] = l], held' = [held EXCEPT ![c] = h],
           window' = window
    PROVE  /\ at' \in [Calls -> {"start", "cache", "table", "done"} \cup Found]
           /\ held' \in [Calls -> Holdings \cup {None}]
           /\ FoundIsHeld' /\ HeldIsPast'
<1>1. /\ at \in [Calls -> {"start", "cache", "table", "done"} \cup Found]
      /\ held \in [Calls -> Holdings \cup {None}]
  BY DEF GateInv, GateTypeOK
<1>2. FoundIsHeld'
  <2> SUFFICES ASSUME NEW d \in Calls PROVE FoundBy(d, at[d], held[d])'
    BY DEF FoundIsHeld
  <2>1. CASE d = c
    <3>1. at'[d] = l /\ held'[d] = h
      BY <1>1, <2>1
    <3> QED BY <2>1, <3>1 DEF FoundBy
  <2>2. CASE d # c
    <3>1. at'[d] = at[d] /\ held'[d] = held[d] /\ FoundBy(d, at[d], held[d])
      BY <1>1, <2>2 DEF GateInv, FoundIsHeld
    <3> QED BY <3>1 DEF FoundBy
  <2> QED BY <2>1, <2>2
<1>3. HeldIsPast'
  BY <1>1 DEF GateInv, HeldIsPast
<1> QED BY <1>1, <1>2, <1>3

(* No counter whose minute lasts is counted down. *)
NoCounterDrops ==
    \A k \in APIKeys, w \in Windows : window' <= w => count[<<k, w>>] <= count'[<<k, w>>]

LEMMA CountersStay ==
    ASSUME GateInv, UNCHANGED <<window, count, due>>
    PROVE  CountersOK' /\ NoCounterDrops
<1>1. \A k \in APIKeys, w \in Windows : count[<<k, w>>] \in Nat
  BY DEF GateInv, CountersOK, Counters
<1> QED BY <1>1 DEF GateInv, CountersOK, NoCounterDrops

LEMMA AdmittedAreFinite ==
    \A k, w : /\ IsFiniteSet(AdmittedTo(k, w)) /\ Cardinality(AdmittedTo(k, w)) \in Nat
<1>1. \A k, w : AdmittedTo(k, w) \subseteq Calls
  BY DEF AdmittedTo
<1> QED BY <1>1, CallsAssumption, FS_Subset, FS_CardinalityType

(* A step that lets nobody in. *)
LEMMA GateAside ==
    ASSUME GateInv, GateTypeOK', FoundIsHeld', HeldIsPast', CountersOK', NoCounterDrops,
           ask' = ask, window <= window',
           \A d \in Calls : held'[d] # None =>
              \/ held'[d].counted = None
              \/ /\ held[d] # None /\ held'[d].window = held[d].window
                 /\ held'[d].counted = held[d].counted
    PROVE  GateInv'
<1>1. \A w \in Windows : w # None /\ w \in Nat
  BY GateAssumption DEF Windows
<1>2. ASSUME NEW k, NEW w \in Windows
      PROVE  AdmittedTo(k, w)' \subseteq AdmittedTo(k, w)
  BY <1>1 DEF AdmittedTo, Admitted
<1>3. ASSUME NEW k, NEW w \in Windows
      PROVE  /\ Cardinality(AdmittedTo(k, w)') \in Nat
             /\ Cardinality(AdmittedTo(k, w)) \in Nat
             /\ Cardinality(AdmittedTo(k, w)') <= Cardinality(AdmittedTo(k, w))
  <2>1. IsFiniteSet(AdmittedTo(k, w)) /\ IsFiniteSet(AdmittedTo(k, w)')
    <3>1. AdmittedTo(k, w) \subseteq Calls /\ AdmittedTo(k, w)' \subseteq Calls
      BY DEF AdmittedTo
    <3> QED BY <3>1, CallsAssumption, FS_Subset
  <2> QED BY <1>2, <2>1, FS_Subset, FS_CardinalityType
<1>4. /\ window \in Nat /\ window' \in Nat /\ Quota \in Nat
  BY <1>1, GateAssumption DEF GateInv, GateTypeOK
<1>5. CountersCover'
  <2> SUFFICES ASSUME NEW k \in APIKeys, NEW w \in Windows, window' <= w
               PROVE  Cardinality(AdmittedTo(k, w)') <= count'[<<k, w>>]
    BY DEF CountersCover
  <2>1. count[<<k, w>>] \in Nat /\ count'[<<k, w>>] \in Nat
    BY DEF GateInv, CountersOK, Counters
  <2>2. Cardinality(AdmittedTo(k, w)) <= count[<<k, w>>]
    BY <1>1, <1>4 DEF GateInv, CountersCover
  <2>3. count[<<k, w>>] <= count'[<<k, w>>]
    BY DEF NoCounterDrops
  <2> QED BY <1>3, <2>1, <2>2, <2>3
<1>6. QuotaHolds'
  <2>1. ASSUME NEW k \in APIKeys, NEW w \in Windows
        PROVE  Cardinality(AdmittedTo(k, w)') <= Quota
    <3>1. Cardinality(AdmittedTo(k, w)) <= Quota
      BY DEF GateInv, QuotaHolds, AdmittedTo
    <3> QED BY <1>3, <1>4, <3>1
  <2> QED BY <2>1 DEF QuotaHolds, AdmittedTo
<1> QED BY <1>5, <1>6 DEF GateInv

(* The lookup of a key. *)
LEMMA LookupKeeps ==
    ASSUME GateInv, NEW c \in Calls, ask[c].op \in {"http", "validatekey"}, GetAPIKeyByHash(c),
           UNCHANGED <<apiKeys, window, count, due, stream, dedup>>
    PROVE  GateInv'
<1>0. /\ ask[c].key \in APIKeys
      /\ held \in [Calls -> Holdings \cup {None}] /\ at \in [Calls -> {"start", "cache", "table", "done"} \cup Found]
      /\ keyCache \in [APIKeys -> KeyRows \cup {None}] /\ apiKeys \in [APIKeys -> KeyRows \cup {None}]
  BY DEF GateInv, GateTypeOK, GateAsks
<1>1. \A row \in KeyRows : /\ Holding(row) \in Holdings /\ Holding(row).window = None
                             /\ Holding(row).counted = None /\ Holding(row) # None
  <2> SUFFICES ASSUME NEW row \in KeyRows
               PROVE  /\ Holding(row) \in Holdings /\ Holding(row).window = None
                      /\ Holding(row).counted = None
    BY GateAssumption
  <2> QED BY DEF Holding, Holdings
<1>2. ask' = ask
  BY DEF GetAPIKeyByHash, Goto, Refuse, Answer
<1>3. ASSUME NEW l \in {"table", "judge", "fill", "done"}, NEW h \in Holdings \cup {None},
             at' = [at EXCEPT ![c] = l], held' = [held EXCEPT ![c] = h],
             l \in Found => h # None /\ h.counted = None,
             h = held[c] \/ (h \in Holdings /\ h.window = None /\ h.counted = None),
             keyCache' \in [APIKeys -> KeyRows \cup {None}]
      PROVE  GateInv'
  <2>0. /\ FoundBy(c, l, h) /\ l \in {"start", "cache", "table", "done"} \cup Found
        /\ h # None /\ h.window # None => h.window <= window
    BY <1>3 DEF FoundBy, Found, Uncounted, GateInv, HeldIsPast
  <2>1. /\ at' \in [Calls -> {"start", "cache", "table", "done"} \cup Found]
        /\ held' \in [Calls -> Holdings \cup {None}]
        /\ FoundIsHeld' /\ HeldIsPast'
    BY <1>2, <1>3, <2>0, GateMoves
  <2>2. GateTypeOK'
    BY <1>2, <1>3, <2>1 DEF GateInv, GateTypeOK
  <2>3. \A d \in Calls : held'[d] # None =>
           \/ held'[d].counted = None
           \/ /\ held[d] # None /\ held'[d].window = held[d].window
              /\ held'[d].counted = held[d].counted
    BY <1>0, <1>3
  <2>4. window <= window'
    BY DEF GateInv, GateTypeOK, Windows
  <2>5. CountersOK' /\ NoCounterDrops
    BY CountersStay
  <2> QED BY <1>2, <2>1, <2>2, <2>3, <2>4, <2>5, GateAside
<1>4. CASE at[c] = "cache" /\ keyCache[ask[c].key] # None
           /\ Hold(c, Holding(keyCache[ask[c].key])) /\ Goto(c, "judge") /\ UNCHANGED keyCache
  <2>1. keyCache[ask[c].key] \in KeyRows
    BY <1>0, <1>4
  <2> QED BY <1>0, <1>1, <1>3, <1>4, <2>1 DEF Hold, Goto
<1>5. CASE Goto(c, "table") /\ UNCHANGED <<held, keyCache>>
  <2>1. held' = [held EXCEPT ![c] = held[c]] /\ held[c] \in Holdings \cup {None}
    BY <1>0, <1>5
  <2> QED BY <1>0, <1>3, <1>5, <2>1 DEF Goto, Found
<1>6. CASE apiKeys[ask[c].key] # None
           /\ Hold(c, Holding(apiKeys[ask[c].key])) /\ Goto(c, "fill") /\ UNCHANGED keyCache
  <2>1. apiKeys[ask[c].key] \in KeyRows
    BY <1>0, <1>6
  <2> QED BY <1>0, <1>1, <1>3, <1>6, <2>1 DEF Hold, Goto
<1>7. CASE Refuse(c) /\ UNCHANGED keyCache
  <2>1. held' = [held EXCEPT ![c] = held[c]] /\ held[c] \in Holdings \cup {None}
    BY <1>0, <1>7 DEF Refuse
  <2> QED BY <1>0, <1>3, <1>7, <2>1 DEF Refuse, Answer, Found
<1>8. CASE at[c] = "fill" /\ Goto(c, "judge") /\ UNCHANGED held
           /\ (keyCache' = [keyCache EXCEPT ![ask[c].key] = held[c].row] \/ UNCHANGED keyCache)
  <2>1. held[c] # None /\ held[c] \in Holdings /\ held[c].counted = None
    BY <1>0, <1>8 DEF GateInv, FoundIsHeld, FoundBy, Found, Uncounted
  <2>2. held[c].row \in KeyRows
    BY <2>1 DEF Holdings
  <2>3. held' = [held EXCEPT ![c] = held[c]] /\ keyCache' \in [APIKeys -> KeyRows \cup {None}]
    BY <1>0, <1>8, <2>2
  <2> QED BY <1>3, <1>8, <2>1, <2>3 DEF Goto
<1> QED BY <1>4, <1>5, <1>6, <1>7, <1>8 DEF GetAPIKeyByHash, ReadKeyRow

(* A step of a handler that only moves on: nothing but its label changes. *)
LEMMA GateGoesOn ==
    ASSUME GateInv, NEW c \in Calls, NEW l \in {"cache", "done"} \cup Found,
           FoundBy(c, l, held[c]),
           ask' = ask, at' = [at EXCEPT ![c] = l], held' = held,
           GateTypeOK => stream' \in Seq([event : Calls, zone : Zones, idem : IdempotencyKeys]),
           GateTypeOK => dedup' \in [Zones \X IdempotencyKeys -> Calls \cup {None}],
           GateTypeOK => apiKeys' \in [APIKeys -> KeyRows \cup {None}],
           UNCHANGED <<keyCache, window>>, CountersOK', NoCounterDrops
    PROVE  GateInv'
<1>1. /\ held' = [held EXCEPT ![c] = held[c]] /\ held[c] \in Holdings \cup {None}
      /\ held[c] # None /\ held[c].window # None => held[c].window <= window
      /\ window <= window'
  BY DEF GateInv, GateTypeOK, HeldIsPast, Windows
<1>2. PICK h \in Holdings \cup {None} : h = held[c]
  BY <1>1
<1>3. /\ FoundBy(c, l, h) /\ held' = [held EXCEPT ![c] = h]
      /\ h # None /\ h.window # None => h.window <= window
  BY <1>1, <1>2
<1>4. /\ at' \in [Calls -> {"start", "cache", "table", "done"} \cup Found]
      /\ held' \in [Calls -> Holdings \cup {None}]
      /\ FoundIsHeld' /\ HeldIsPast'
  BY <1>3, GateMoves
<1>5. GateTypeOK'
  BY <1>4 DEF GateInv, GateTypeOK
<1> QED BY <1>1, <1>4, <1>5, GateAside

(* It is done, or asks for a key. *)
LEMMA GateEnds ==
    ASSUME GateInv, NEW c \in Calls, NEW l \in {"cache", "done"},
           ask' = ask, at' = [at EXCEPT ![c] = l], held' = held,
           GateTypeOK => stream' \in Seq([event : Calls, zone : Zones, idem : IdempotencyKeys]),
           GateTypeOK => dedup' \in [Zones \X IdempotencyKeys -> Calls \cup {None}],
           GateTypeOK => apiKeys' \in [APIKeys -> KeyRows \cup {None}],
           UNCHANGED <<keyCache, window, count, due>>
    PROVE  GateInv'
<1>1. FoundBy(c, l, held[c])
  BY DEF FoundBy, Found, Uncounted
<1>2. CountersOK' /\ NoCounterDrops
  BY CountersStay
<1> QED BY <1>1, <1>2, GateGoesOn

(* INCR: a counter counted up.  A request is let in only as one of the     *)
(* first Quota of its counter, and while the minute lasts the counter      *)
(* covers all who were let in.                                             *)
LEMMA IncrKeeps ==
    ASSUME GateInv, NEW c \in Calls, Serving(c, "http", "incr"), Incr(CounterOf(c))
    PROVE  /\ CounterOf(c) \in Counters /\ CounterOf(c) = <<ask[c].key, held[c].window>>
           /\ ask[c].key \in APIKeys /\ held[c].window \in Windows /\ held[c].counted = None
           /\ held[c] # None /\ held[c] \in Holdings
           /\ count'[CounterOf(c)] = count[CounterOf(c)] + 1
           /\ count' \in [Counters -> Nat]
           /\ \A k \in Counters : count[k] <= count'[k]
<1>1. /\ ask[c].op = "http" /\ ask[c].key \in APIKeys
      /\ held[c] # None /\ held[c] \in Holdings
      /\ held[c].window # None /\ held[c].counted = None
  BY DEF Serving, GateInv, GateTypeOK, GateAsks, FoundIsHeld, FoundBy, Found, Uncounted
<1>2. held[c].window \in Windows
  BY <1>1 DEF Holdings
<1>3. CounterOf(c) \in Counters /\ CounterOf(c) = <<ask[c].key, held[c].window>>
  BY <1>1, <1>2 DEF CounterOf, Counters
<1>4. PICK k \in Counters : k = CounterOf(c)
  BY <1>3
<1>5. count \in [Counters -> Nat] /\ count' = [count EXCEPT ![k] = count[k] + 1]
  BY <1>4 DEF GateInv, CountersOK, Incr
<1>6. /\ count'[k] = count[k] + 1 /\ count' \in [Counters -> Nat]
      /\ \A j \in Counters : count[j] <= count'[j]
  BY <1>5
<1> QED BY <1>1, <1>2, <1>3, <1>4, <1>6

(* The request is let in. *)
LEMMA AdmitKeeps ==
    ASSUME GateInv, NEW c \in Calls, Serving(c, "http", "incr"), Incr(CounterOf(c)),
           count[CounterOf(c)] < Quota, Hold(c, [held[c] EXCEPT !.counted = window]),
           NEW l \in {"expire", "route"}, Goto(c, l),
           UNCHANGED <<apiKeys, keyCache, window, due, stream, dedup>>
    PROVE  GateInv'
<1>1. /\ CounterOf(c) \in Counters /\ CounterOf(c) = <<ask[c].key, held[c].window>>
      /\ ask[c].key \in APIKeys /\ held[c].window \in Windows /\ held[c].counted = None
      /\ held[c] # None /\ held[c] \in Holdings
      /\ count'[CounterOf(c)] = count[CounterOf(c)] + 1
      /\ count' \in [Counters -> Nat]
      /\ \A k \in Counters : count[k] <= count'[k]
  BY IncrKeeps
<1>2. PICK k \in APIKeys : k = ask[c].key
  BY <1>1
<1>3. PICK n \in Windows : n = held[c].window
  BY <1>1
<1>4. /\ window \in Windows /\ held \in [Calls -> Holdings \cup {None}]
      /\ ask' = ask /\ at' = [at EXCEPT ![c] = l] /\ ask[c].op = "http"
  BY DEF GateInv, GateTypeOK, Goto, Serving
<1>5. \A w \in Windows : w \in Nat /\ w # None
  BY GateAssumption DEF Windows
<1>6. PICK h \in Holdings : /\ h = [held[c] EXCEPT !.counted = window]
                            /\ h.window = n /\ h.counted = window
  BY <1>1, <1>3, <1>4 DEF Holdings
<1>7. held' = [held EXCEPT ![c] = h] /\ h # None /\ h \in Holdings \cup {None}
  BY <1>6, GateAssumption DEF Hold
<1>8. FoundBy(c, l, h) /\ (h # None /\ h.window # None => h.window <= window)
  BY <1>1, <1>3, <1>4, <1>5, <1>6, <1>7 DEF FoundBy, Found, Uncounted, GateInv, HeldIsPast
<1>9. /\ at' \in [Calls -> {"start", "cache", "table", "done"} \cup Found]
      /\ held' \in [Calls -> Holdings \cup {None}]
      /\ FoundIsHeld' /\ HeldIsPast'
  <2>1. l \in {"start", "cache", "table", "done"} \cup Found
    BY DEF Found
  <2> QED BY <1>4, <1>7, <1>8, <2>1, GateMoves
<1>10. GateTypeOK'
  BY <1>4, <1>9 DEF GateInv, GateTypeOK
<1>11. CountersOK'
  BY <1>1 DEF GateInv, CountersOK
<1>12. \A j, w : /\ IsFiniteSet(AdmittedTo(j, w)) /\ IsFiniteSet(AdmittedTo(j, w)')
                 /\ Cardinality(AdmittedTo(j, w)) \in Nat /\ Cardinality(AdmittedTo(j, w)') \in Nat
  <2>1. \A j, w : AdmittedTo(j, w) \subseteq Calls /\ AdmittedTo(j, w)' \subseteq Calls
    BY DEF AdmittedTo
  <2> QED BY <2>1, CallsAssumption, FS_Subset, FS_CardinalityType
<1>13. ASSUME NEW j \in APIKeys, NEW w \in Windows, ~(j = k /\ w = n /\ w = window)
       PROVE  AdmittedTo(j, w)' \subseteq AdmittedTo(j, w)
  BY <1>2, <1>4, <1>6, <1>7, <1>13 DEF AdmittedTo, Admitted
<1>14. AdmittedTo(k, n)' \subseteq AdmittedTo(k, n) \cup {c}
  BY <1>4, <1>7 DEF AdmittedTo, Admitted
<1>15. Cardinality(AdmittedTo(k, n)') <= Cardinality(AdmittedTo(k, n)) + 1
  <2>1. PICK A : A = AdmittedTo(k, n) /\ IsFiniteSet(A) /\ Cardinality(A) \in Nat
    BY <1>12
  <2>2. /\ IsFiniteSet(A \cup {c})
        /\ Cardinality(A \cup {c}) <= Cardinality(A) + 1
        /\ Cardinality(A \cup {c}) \in Nat
    <3>1. CASE c \in A
      <4>1. A \cup {c} = A
        BY <3>1
      <4>2. Cardinality(A) <= Cardinality(A) + 1
        BY <2>1
      <4> QED BY <2>1, <4>1, <4>2
    <3>2. CASE c \notin A
      <4>1. IsFiniteSet(A \cup {c}) /\ Cardinality(A \cup {c}) = Cardinality(A) + 1
        BY <2>1, <3>2, FS_AddElement
      <4> QED BY <2>1, <4>1
    <3> QED BY <3>1, <3>2
  <2>3. Cardinality(AdmittedTo(k, n)') <= Cardinality(A \cup {c})
    BY <1>14, <2>1, <2>2, FS_Subset
  <2> QED BY <1>12, <2>1, <2>2, <2>3
<1>16. /\ Quota \in Nat /\ count[<<k, n>>] \in Nat /\ count[<<k, n>>] < Quota
       /\ count'[<<k, n>>] = count[<<k, n>>] + 1
  BY <1>1, <1>2, <1>3, GateAssumption DEF GateInv, CountersOK
<1>17. ASSUME NEW j \in APIKeys, NEW w \in Windows, ~(j = k /\ w = n /\ w = window)
       PROVE  Cardinality(AdmittedTo(j, w)') <= Cardinality(AdmittedTo(j, w))
  BY <1>12, <1>13, <1>17, FS_Subset
<1>18. ASSUME NEW j \in APIKeys, NEW w \in Windows, window <= w
       PROVE  Cardinality(AdmittedTo(j, w)) <= count[<<j, w>>]
  BY <1>18 DEF GateInv, CountersCover
<1>19. CountersCover'
  <2> SUFFICES ASSUME NEW j \in APIKeys, NEW w \in Windows, window <= w
               PROVE  Cardinality(AdmittedTo(j, w)') <= count'[<<j, w>>]
    BY DEF CountersCover
  <2>1. count[<<j, w>>] \in Nat /\ count'[<<j, w>>] \in Nat /\ count[<<j, w>>] <= count'[<<j, w>>]
    BY <1>1 DEF GateInv, CountersOK, Counters
  <2>2. CASE j = k /\ w = n /\ w = window
    <3>1. Cardinality(AdmittedTo(k, n)) <= count[<<k, n>>]
      BY <1>18, <2>2
    <3>2. Cardinality(AdmittedTo(k, n)') <= count'[<<k, n>>]
      BY <1>12, <1>15, <1>16, <3>1
    <3> QED BY <2>2, <3>2
  <2>3. CASE ~(j = k /\ w = n /\ w = window)
    BY <1>12, <1>17, <1>18, <2>1, <2>3
  <2> QED BY <2>2, <2>3
<1>20. QuotaHolds'
  <2>1. ASSUME NEW j \in APIKeys, NEW w \in Windows
        PROVE  Cardinality(AdmittedTo(j, w)') <= Quota
    <3>1. CASE j = k /\ w = n /\ w = window
      <4>0. window <= n
        BY <1>5, <3>1
      <4>1. Cardinality(AdmittedTo(k, n)) <= count[<<k, n>>]
        BY <1>18, <4>0
      <4>2. Cardinality(AdmittedTo(k, n)') <= Quota
        BY <1>12, <1>15, <1>16, <4>1
      <4> QED BY <3>1, <4>2
    <3>2. CASE ~(j = k /\ w = n /\ w = window)
      <4>1. Cardinality(AdmittedTo(j, w)) <= Quota
        BY DEF GateInv, QuotaHolds, AdmittedTo
      <4> QED BY <1>12, <1>16, <1>17, <3>2, <4>1
    <3> QED BY <3>1, <3>2
  <2> QED BY <2>1 DEF QuotaHolds, AdmittedTo
<1> QED BY <1>9, <1>10, <1>11, <1>19, <1>20 DEF GateInv

(* The window, the count and the time to live, one after the other. *)
LEMMA RateLimitKeeps ==
    ASSUME GateInv, NEW c \in Calls, CheckRateLimit(c)
    PROVE  GateInv'
<1>1. /\ ask[c].op = "http" /\ at[c] \in {"limit", "incr", "expire"}
      /\ UNCHANGED <<apiKeys, keyCache, window, stream, dedup, ask>>
  BY DEF CheckRateLimit, Serving, gateVars, Goto, Refuse, Answer
<1>2. held[c] # None /\ held[c] \in Holdings
  BY <1>1 DEF GateInv, GateTypeOK, FoundIsHeld, FoundBy, Found
<1>3. CASE /\ Serving(c, "http", "limit") /\ Hold(c, [held[c] EXCEPT !.window = window])
           /\ Goto(c, "incr") /\ UNCHANGED gateVars
  <2>1. /\ held[c].counted = None /\ window \in Windows /\ window # None /\ window <= window
        /\ held \in [Calls -> Holdings \cup {None}]
    BY <1>3, GateAssumption DEF Serving, GateInv, GateTypeOK, FoundIsHeld, FoundBy, Uncounted, Windows
  <2>2. PICK h \in Holdings : /\ h = [held[c] EXCEPT !.window = window]
                              /\ h.window = window /\ h.counted = None
    <3>1. PICK w \in Windows : w = window
      BY <2>1
    <3>2. /\ [held[c] EXCEPT !.window = w] \in Holdings
          /\ [held[c] EXCEPT !.window = w].window = w
          /\ [held[c] EXCEPT !.window = w].counted = held[c].counted
      BY <1>2 DEF Holdings
    <3> QED BY <2>1, <3>1, <3>2
  <2>3. held' = [held EXCEPT ![c] = h] /\ h # None /\ h \in Holdings \cup {None}
    BY <1>3, <2>2, GateAssumption DEF Hold
  <2>4. /\ FoundBy(c, "incr", h) /\ (h # None /\ h.window # None => h.window <= window)
        /\ "incr" \in {"start", "cache", "table", "done"} \cup Found
        /\ at' = [at EXCEPT ![c] = "incr"] /\ ask' = ask /\ window' = window
    BY <1>1, <1>3, <2>1, <2>2, <2>3 DEF FoundBy, Found, Uncounted, Goto
  <2>5. /\ at' \in [Calls -> {"start", "cache", "table", "done"} \cup Found]
        /\ held' \in [Calls -> Holdings \cup {None}]
        /\ FoundIsHeld' /\ HeldIsPast'
    BY <2>3, <2>4, GateMoves
  <2>6. GateTypeOK'
    BY <1>1, <2>5 DEF GateInv, GateTypeOK
  <2>7. \A d \in Calls : held'[d] # None =>
           \/ held'[d].counted = None
           \/ /\ held[d] # None /\ held'[d].window = held[d].window
              /\ held'[d].counted = held[d].counted
    BY <2>1, <2>2, <2>3
  <2>8. CountersOK' /\ NoCounterDrops
    BY <1>3, CountersStay DEF gateVars
  <2> QED BY <1>1, <2>1, <2>5, <2>6, <2>7, <2>8, GateAside
<1>4. CASE /\ Serving(c, "http", "incr") /\ Refuse(c) /\ UNCHANGED due
           /\ (Incr(CounterOf(c)) \/ UNCHANGED count)
  <2>1. CountersOK' /\ NoCounterDrops
    <3>1. CASE UNCHANGED count
      BY <1>1, <1>4, <3>1, CountersStay
    <3>2. CASE Incr(CounterOf(c))
      <4>1. count' \in [Counters -> Nat] /\ \A k \in Counters : count[k] <= count'[k]
        BY <1>4, <3>2, IncrKeeps
      <4> QED BY <1>4, <4>1 DEF GateInv, CountersOK, NoCounterDrops, Counters
    <3> QED BY <1>4, <3>1, <3>2
  <2>2. FoundBy(c, "done", held[c]) /\ at' = [at EXCEPT ![c] = "done"] /\ held' = held
    BY <1>4 DEF FoundBy, Found, Uncounted, Refuse, Answer
  <2> QED BY <1>1, <2>1, <2>2, GateGoesOn DEF GateTypeOK
<1>5. CASE /\ Serving(c, "http", "expire") /\ Goto(c, "route") /\ UNCHANGED <<held, count>>
           /\ (due' = [due EXCEPT ![CounterOf(c)] = window + 1] \/ UNCHANGED due)
  <2>1. /\ held[c].window \in Windows /\ held[c].window <= window /\ ask[c].key \in APIKeys
        /\ window \in Nat
    BY <1>1, <1>2, <1>5 DEF Serving, GateInv, GateTypeOK, GateAsks, FoundIsHeld, FoundBy, HeldIsPast,
                            Holdings, Windows
  <2>2. CountersOK' /\ NoCounterDrops
    <3>1. CASE UNCHANGED due
      BY <1>1, <1>5, <3>1, CountersStay
    <3>2. CASE due' = [due EXCEPT ![CounterOf(c)] = window + 1]
      <4>1. PICK j \in APIKeys, n \in Windows : j = ask[c].key /\ n = held[c].window
        BY <2>1
      <4>2. <<j, n>> \in Counters /\ due' = [due EXCEPT ![<<j, n>>] = window + 1]
        BY <3>2, <4>1 DEF CounterOf, Counters
      <4>3. /\ due \in [Counters -> Nat \cup {None}] /\ window + 1 \in Nat /\ window + 1 > n
            /\ count \in [Counters -> Nat] /\ n \in Nat
        BY <2>1, <4>1 DEF GateInv, CountersOK, Windows
      <4>4. due' \in [Counters -> Nat \cup {None}]
        BY <4>2, <4>3
      <4>5. ASSUME NEW i \in APIKeys, NEW w \in Windows, due'[<<i, w>>] # None
            PROVE  due'[<<i, w>>] > w
        <5>1. <<i, w>> \in Counters /\ (due[<<i, w>>] # None => due[<<i, w>>] > w)
          BY DEF Counters, GateInv, CountersOK
        <5>2. CASE <<i, w>> = <<j, n>>
          BY <4>2, <4>3, <5>2
        <5>3. CASE <<i, w>> # <<j, n>>
          BY <4>2, <4>3, <4>5, <5>1, <5>3
        <5> QED BY <5>2, <5>3
      <4>6. NoCounterDrops
        BY <1>5, <4>3 DEF NoCounterDrops, Counters
      <4> QED BY <1>5, <4>3, <4>4, <4>5, <4>6 DEF CountersOK
    <3> QED BY <1>5, <3>1, <3>2
  <2>3. /\ FoundBy(c, "route", held[c]) /\ at' = [at EXCEPT ![c] = "route"] /\ held' = held
        /\ "route" \in {"cache", "done"} \cup Found
    BY <1>2, <1>5 DEF FoundBy, Found, Uncounted, Goto
  <2> QED BY <1>1, <2>2, <2>3, GateGoesOn DEF GateTypeOK
<1>6. CASE /\ Serving(c, "http", "incr") /\ Incr(CounterOf(c)) /\ count[CounterOf(c)] < Quota
           /\ Hold(c, [held[c] EXCEPT !.counted = window])
           /\ Goto(c, IF count[CounterOf(c)] = 0 THEN "expire" ELSE "route")
           /\ UNCHANGED due
  <2>1. PICK l \in {"expire", "route"} : Goto(c, l)
    BY <1>6
  <2> QED BY <1>1, <1>6, <2>1, AdmitKeeps
<1> QED BY <1>1, <1>3, <1>4, <1>5, <1>6 DEF CheckRateLimit, Unanswered

(* A step of the clock or of Redis, on which no handler moves. *)
LEMMA NobodyMoves ==
    ASSUME GateInv, UNCHANGED <<ask, at, held, stream, dedup>>, window <= window',
           window' \in Windows, CountersOK', NoCounterDrops,
           apiKeys' \in [APIKeys -> KeyRows \cup {None}],
           keyCache' \in [APIKeys -> KeyRows \cup {None}]
    PROVE  GateInv'
<1>1. GateTypeOK'
  BY DEF GateInv, GateTypeOK
<1>2. FoundIsHeld'
  BY DEF GateInv, FoundIsHeld, FoundBy
<1>3. HeldIsPast'
  <2> SUFFICES ASSUME NEW c \in Calls, held[c] # None, held[c].window # None
               PROVE  held[c].window <= window'
    BY DEF HeldIsPast
  <2>1. held[c] \in Holdings /\ held[c].window <= window
    BY DEF GateInv, GateTypeOK, HeldIsPast
  <2>2. held[c].window \in Nat /\ window \in Nat /\ window' \in Nat
    BY <2>1 DEF Holdings, Windows, GateInv, GateTypeOK
  <2> QED BY <2>1, <2>2
<1> QED BY <1>1, <1>2, <1>3, GateAside

(* A new minute begins with no request in it. *)
LEMMA WindowKeeps ==
    ASSUME GateInv, NextWindow
    PROVE  GateInv'
<1>1. /\ window \in Nat /\ window' = window + 1 /\ window' \in Windows /\ window <= window'
      /\ UNCHANGED <<apiKeys, keyCache, stream, dedup, ask, at, held, count, due>>
  BY GateAssumption DEF NextWindow, GateInv, GateTypeOK, callVars, Windows
<1>2. CountersOK'
  BY <1>1 DEF GateInv, CountersOK
<1>3. NoCounterDrops
  BY <1>1 DEF GateInv, CountersOK, NoCounterDrops, Counters
<1>4. apiKeys' \in [APIKeys -> KeyRows \cup {None}] /\ keyCache' \in [APIKeys -> KeyRows \cup {None}]
  BY <1>1 DEF GateInv, GateTypeOK
<1> QED BY <1>1, <1>2, <1>3, <1>4, NobodyMoves

(* Redis drops a counter only when its minute is over. *)
LEMMA ExpireCounterKeeps ==
    ASSUME GateInv, NEW c \in Counters, ExpireCounter(c)
    PROVE  GateInv'
<1>1. PICK j \in APIKeys, n \in Windows : c = <<j, n>>
  BY DEF Counters
<1>2. /\ UNCHANGED <<apiKeys, keyCache, stream, dedup, ask, at, held, window>>
      /\ window \in Windows /\ window \in Nat /\ n \in Nat
  BY DEF ExpireCounter, callVars, GateInv, GateTypeOK, Windows
<1>3. /\ count \in [Counters -> Nat] /\ due \in [Counters -> Nat \cup {None}]
      /\ count' = [count EXCEPT ![c] = 0] /\ due' = [due EXCEPT ![c] = None]
  BY DEF ExpireCounter, GateInv, CountersOK
<1>4. n < window
  <2>1. due[c] # None /\ due[c] <= window /\ due[c] > n
    BY <1>1 DEF ExpireCounter, GateInv, CountersOK
  <2> QED BY <1>2, <1>3, <2>1
<1>5. CountersOK'
  <2>1. count' \in [Counters -> Nat] /\ due' \in [Counters -> Nat \cup {None}]
    BY <1>3
  <2>2. ASSUME NEW i \in APIKeys, NEW w \in Windows, due'[<<i, w>>] # None
        PROVE  due'[<<i, w>>] > w
    <3>1. <<i, w>> \in Counters /\ (due[<<i, w>>] # None => due[<<i, w>>] > w)
      BY DEF Counters, GateInv, CountersOK
    <3> QED BY <1>3, <2>2, <3>1
  <2> QED BY <2>1, <2>2 DEF CountersOK
<1>6. NoCounterDrops
  <2> SUFFICES ASSUME NEW i \in APIKeys, NEW w \in Windows, window <= w
               PROVE  count[<<i, w>>] <= count'[<<i, w>>]
    BY <1>2 DEF NoCounterDrops
  <2>1. <<i, w>> \in Counters /\ <<i, w>> # c
    BY <1>1, <1>2, <1>4 DEF Counters, Windows
  <2> QED BY <1>3, <2>1
<1>7. apiKeys' \in [APIKeys -> KeyRows \cup {None}] /\ keyCache' \in [APIKeys -> KeyRows \cup {None}]
  BY <1>2 DEF GateInv, GateTypeOK
<1> QED BY <1>2, <1>5, <1>6, <1>7, NobodyMoves

(* A key that is revoked or dropped from the cache lets nobody in. *)
LEMMA KeysKeep ==
    ASSUME GateInv, NEW k \in APIKeys, RevokeKey(k) \/ ExpireKey(k)
    PROVE  GateInv'
<1>1. /\ UNCHANGED <<ask, at, held, window, count, due, stream, dedup>>
      /\ window <= window' /\ window' \in Windows
  BY DEF RevokeKey, ExpireKey, callVars, GateInv, GateTypeOK, Windows
<1>2. apiKeys' \in [APIKeys -> KeyRows \cup {None}]
  <2>1. CASE RevokeKey(k)
    <3>1. apiKeys[k] \in KeyRows /\ apiKeys' = [apiKeys EXCEPT ![k] = [apiKeys[k] EXCEPT !.revoked = TRUE]]
      BY <2>1 DEF RevokeKey, GateInv, GateTypeOK
    <3>2. [apiKeys[k] EXCEPT !.revoked = TRUE] \in KeyRows
      BY <3>1 DEF KeyRows
    <3> QED BY <3>1, <3>2 DEF GateInv, GateTypeOK
  <2>2. CASE ExpireKey(k)
    BY <2>2 DEF ExpireKey, GateInv, GateTypeOK
  <2> QED BY <2>1, <2>2
<1>3. keyCache' \in [APIKeys -> KeyRows \cup {None}]
  BY DEF RevokeKey, ExpireKey, GateInv, GateTypeOK
<1>4. CountersOK' /\ NoCounterDrops
  BY <1>1, CountersStay
<1> QED BY <1>1, <1>2, <1>3, <1>4, NobodyMoves

LEMMA GenerateKeeps ==
    ASSUME GateInv, NEW c \in Calls, GenerateAPIKey(c)
    PROVE  GateInv'
<1>1. /\ UNCHANGED <<keyCache, window, count, due, stream, dedup>>
      /\ ask' = ask /\ at' = [at EXCEPT ![c] = "done"] /\ held' = held
      /\ ask[c].op = "generate"
  BY DEF GenerateAPIKey, Ok, Refuse, Answer, Begins, Serving
<1>2. PICK k \in APIKeys : \/ CreateAPIKey(k, KeyRow(ask[c].type, ask[c].zone, {}))
                            \/ apiKeys' = apiKeys
  BY DEF GenerateAPIKey, Unanswered
<1>3. ask[c].type \in {"secret", "publishable"} /\ ask[c].zone \in Zones
  BY <1>1 DEF GateInv, GateTypeOK, GateAsks
<1>4. PICK row \in KeyRows : row = KeyRow(ask[c].type, ask[c].zone, {})
  BY <1>3 DEF KeyRow, KeyRows
<1>5. [row EXCEPT !.scopes = IF @ = {} THEN FullAccess ELSE @] \in KeyRows
  <2>1. FullAccess \in SUBSET KeyScopes
    <3>1. PICK x \in KeyScopes : x = [area |-> "*", right |-> "*"]
      BY DEF KeyScopes
    <3> QED BY <3>1 DEF FullAccess
  <2>2. PICK scopes \in SUBSET KeyScopes :
           scopes = IF row.scopes = {} THEN FullAccess ELSE row.scopes
    BY <2>1 DEF KeyRows
  <2>3. [row EXCEPT !.scopes = scopes] \in KeyRows
    BY DEF KeyRows
  <2> QED BY <2>2, <2>3
<1>6. apiKeys' \in [APIKeys -> KeyRows \cup {None}]
  BY <1>2, <1>4, <1>5 DEF CreateAPIKey, GateInv, GateTypeOK
<1> QED BY <1>1, <1>6, GateEnds DEF GateTypeOK

(* The emission of an event leaves the window the call is counted in. *)
LEMMA EmitKeeps ==
    ASSUME GateInv, NEW c \in Calls, HandleEventEmit(c),
           UNCHANGED <<apiKeys, keyCache, window, count, due>>
    PROVE  GateInv'
<1>1. /\ ask[c].op = "http" /\ at[c] \in {"emit", "add", "store"}
      /\ held[c] # None /\ held[c] \in Holdings
      /\ ask[c].idem \in IdempotencyKeys
  <2>1. ask[c].op = "http" /\ at[c] \in {"emit", "add", "store"}
    BY DEF HandleEventEmit, Serving
  <2>2. ask[c].idem \in IdempotencyKeys \cup {None}
    BY <2>1 DEF GateInv, GateTypeOK, GateAsks
  <2> QED BY <2>1, <2>2 DEF GateInv, GateTypeOK, FoundIsHeld, FoundBy, Found
<1>2. held[c].row.zone \in Zones /\ DedupKey(c) \in Zones \X IdempotencyKeys
  BY <1>1 DEF Holdings, KeyRows, DedupKey
<1>3. ask' = ask
  BY DEF HandleEventEmit, Answer, Goto, Refuse
<1>4. /\ CountersOK' /\ NoCounterDrops /\ window <= window' /\ ask[c].idem # None
  BY <1>1, CountersStay, GateAssumption DEF GateInv, GateTypeOK, Windows, FoundIsHeld, FoundBy
<1>5. CASE /\ Hold(c, [held[c] EXCEPT !.event = dedup[DedupKey(c)]])
           /\ Answer(c, "duplicate") /\ UNCHANGED <<stream, dedup>>
  <2>1. dedup[DedupKey(c)] \in Calls \cup {None}
    BY <1>2 DEF GateInv, GateTypeOK
  <2>2. PICK h \in Holdings : /\ h = [held[c] EXCEPT !.event = dedup[DedupKey(c)]]
                              /\ h.window = held[c].window /\ h.counted = held[c].counted
    <3>1. PICK e \in Calls \cup {None} : e = dedup[DedupKey(c)]
      BY <2>1
    <3>2. /\ [held[c] EXCEPT !.event = e] \in Holdings
          /\ [held[c] EXCEPT !.event = e].window = held[c].window
          /\ [held[c] EXCEPT !.event = e].counted = held[c].counted
      BY <1>1 DEF Holdings
    <3> QED BY <3>1, <3>2
  <2>3. /\ held' = [held EXCEPT ![c] = h] /\ at' = [at EXCEPT ![c] = "done"]
        /\ h \in Holdings \cup {None} /\ FoundBy(c, "done", h)
        /\ h # None /\ h.window # None => h.window <= window
    BY <1>1, <1>5, <2>2 DEF Hold, Answer, FoundBy, Found, Uncounted, GateInv, HeldIsPast
  <2>4. /\ at' \in [Calls -> {"start", "cache", "table", "done"} \cup Found]
        /\ held' \in [Calls -> Holdings \cup {None}]
        /\ FoundIsHeld' /\ HeldIsPast'
    BY <1>3, <2>3, GateMoves
  <2>5. GateTypeOK'
    BY <1>3, <1>5, <2>4 DEF GateInv, GateTypeOK
  <2>6. \A d \in Calls : held'[d] # None =>
           \/ held'[d].counted = None
           \/ /\ held[d] # None /\ held'[d].window = held[d].window
              /\ held'[d].counted = held[d].counted
    BY <1>1, <2>2, <2>3 DEF GateInv, GateTypeOK
  <2> QED BY <1>3, <1>4, <2>4, <2>5, <2>6, GateAside
<1>6. CASE Goto(c, "add") /\ UNCHANGED <<held, stream, dedup>>
  <2>1. /\ FoundBy(c, "add", held[c]) /\ "add" \in {"cache", "done"} \cup Found
        /\ at' = [at EXCEPT ![c] = "add"]
    BY <1>1, <1>4, <1>6 DEF FoundBy, Found, Uncounted, Goto
  <2> QED BY <1>3, <1>4, <1>6, <2>1, GateGoesOn DEF GateTypeOK
<1>7. [event |-> c, zone |-> held[c].row.zone, idem |-> ask[c].idem]
         \in [event : Calls, zone : Zones, idem : IdempotencyKeys]
  BY <1>1, <1>2
<1>8. ASSUME stream' = Append(stream, [event |-> c, zone |-> held[c].row.zone, idem |-> ask[c].idem])
      PROVE  stream' \in Seq([event : Calls, zone : Zones, idem : IdempotencyKeys])
  BY <1>7, <1>8 DEF GateInv, GateTypeOK
<1>9. CASE /\ stream' = Append(stream, [event |-> c, zone |-> held[c].row.zone, idem |-> ask[c].idem])
           /\ Goto(c, "store") /\ UNCHANGED <<held, dedup>>
  <2>1. /\ FoundBy(c, "store", held[c]) /\ "store" \in {"cache", "done"} \cup Found
        /\ at' = [at EXCEPT ![c] = "store"]
    BY <1>1, <1>4, <1>9 DEF FoundBy, Found, Uncounted, Goto
  <2> QED BY <1>3, <1>4, <1>8, <1>9, <2>1, GateGoesOn DEF GateTypeOK
<1>10. CASE /\ \/ stream' = Append(stream, [event |-> c, zone |-> held[c].row.zone, idem |-> ask[c].idem])
               \/ UNCHANGED stream
            /\ Refuse(c) /\ UNCHANGED dedup
  <2>1. at' = [at EXCEPT ![c] = "done"] /\ held' = held
    BY <1>10 DEF Refuse, Answer
  <2>2. GateTypeOK => stream' \in Seq([event : Calls, zone : Zones, idem : IdempotencyKeys])
    BY <1>8, <1>10 DEF GateTypeOK
  <2> QED BY <1>3, <1>10, <2>1, <2>2, GateEnds DEF GateTypeOK
<1>11. CASE /\ dedup' = [dedup EXCEPT ![DedupKey(c)] = c] \/ UNCHANGED dedup
            /\ Answer(c, "ingested") /\ UNCHANGED <<held, stream>>
  <2>1. dedup' \in [Zones \X IdempotencyKeys -> Calls \cup {None}]
    BY <1>11 DEF GateInv, GateTypeOK
  <2>2. at' = [at EXCEPT ![c] = "done"]
    BY <1>11 DEF Answer
  <2> QED BY <1>3, <1>11, <2>1, <2>2, GateEnds DEF GateTypeOK
<1> QED BY <1>5, <1>6, <1>9, <1>10, <1>11 DEF HandleEventEmit, Unanswered

LEMMA GateStep == GateInv /\ [GateNext]_gateAllVars => GateInv'
<1> SUFFICES ASSUME GateInv, [GateNext]_gateAllVars PROVE GateInv'
  OBVIOUS
<1>1. CASE UNCHANGED gateAllVars
  <2>1. /\ UNCHANGED <<apiKeys, keyCache, window, count, due, stream, dedup, ask, at, held, reply>>
        /\ window <= window' /\ window' \in Windows
    BY <1>1 DEF gateAllVars, gateVars, callVars, GateInv, GateTypeOK, Windows
  <2>2. CountersOK' /\ NoCounterDrops
    BY <2>1, CountersStay
  <2>3. apiKeys' \in [APIKeys -> KeyRows \cup {None}] /\ keyCache' \in [APIKeys -> KeyRows \cup {None}]
    BY <2>1 DEF GateInv, GateTypeOK
  <2> QED BY <2>1, <2>2, <2>3, NobodyMoves
<1>2. ASSUME NEW c \in Calls, UNCHANGED gateVars, NEW a, Answer(c, a), UNCHANGED held PROVE GateInv'
  BY <1>2, GateEnds DEF Answer, gateVars, GateTypeOK
<1>3. ASSUME NEW c \in Calls, Malformed(c), UNCHANGED gateVars PROVE GateInv'
  BY <1>2, <1>3 DEF Malformed, Refuse
<1>4. ASSUME NEW c \in Calls, Goto(c, "cache"), UNCHANGED <<held, gateVars>> PROVE GateInv'
  BY <1>4, GateEnds DEF Goto, gateVars, GateTypeOK
<1>5. ASSUME NEW c \in Calls, ValidateAPIKey(c) PROVE GateInv'
  <2>1. CASE ask[c].op = "validatekey" /\ GetAPIKeyByHash(c)
             /\ UNCHANGED <<apiKeys, window, count, due, stream, dedup>>
    BY <2>1, LookupKeeps
  <2>2. CASE (Refuse(c) \/ Ok(c)) /\ UNCHANGED gateVars
    BY <1>2, <2>2 DEF Refuse, Ok
  <2> QED BY <1>4, <1>5, <2>1, <2>2 DEF ValidateAPIKey
<1>6. ASSUME NEW c \in Calls, NEW l \in {"limit", "emit"}, Goto(c, l), UNCHANGED <<held, gateVars>>,
             FoundBy(c, l, held[c])
      PROVE  GateInv'
  <2>1. CountersOK' /\ NoCounterDrops
    BY <1>6, CountersStay DEF gateVars
  <2>2. l \in {"cache", "done"} \cup Found
    BY DEF Found
  <2> QED BY <1>6, <2>1, <2>2, GateGoesOn DEF Goto, gateVars, GateTypeOK
<1>7. ASSUME NEW c \in Calls, EnforceKey(c) PROVE GateInv'
  <2>1. at[c] = "judge" /\ FoundBy(c, "limit", held[c])
    BY <1>7 DEF EnforceKey, Serving, GateInv, FoundIsHeld, FoundBy, Found, Uncounted
  <2> QED BY <1>2, <1>6, <1>7, <2>1 DEF EnforceKey, Refuse
<1>10. ASSUME NEW c \in Calls, RouteRequest(c) PROVE GateInv'
  <2>1. at[c] = "route" /\ held[c] # None /\ ask[c].op = "http" /\ UNCHANGED <<held, gateVars>>
    BY <1>10 DEF RouteRequest, Serving, GateInv, FoundIsHeld, FoundBy, Found
  <2>2. CASE Emits(c) /\ Goto(c, "emit")
    <3>1. FoundBy(c, "emit", held[c])
      BY <2>1, <2>2 DEF FoundBy, Emits, Found, Uncounted
    <3> QED BY <1>6, <2>1, <2>2, <3>1
  <2> QED BY <1>2, <1>10, <2>1, <2>2 DEF RouteRequest
<1>11. ASSUME NEW c \in Calls, ReceiveRequest(c) PROVE GateInv'
  BY <1>2, <1>4, <1>11 DEF ReceiveRequest
<1>8. ASSUME NEW c \in Calls, ServeHTTP(c) PROVE GateInv'
  <2>1. CASE ValidateKey(c)
    BY <2>1, LookupKeeps DEF ValidateKey
  <2> QED BY <1>7, <1>8, <1>10, <1>11, <2>1, RateLimitKeeps, EmitKeeps DEF ServeHTTP
<1> QED BY <1>1, <1>3, <1>5, <1>8, GenerateKeeps, KeysKeep, ExpireCounterKeeps, WindowKeeps DEF GateNext

(* While a minute lasts the counter of a key covers every request of it    *)
(* that got through, and Redis does not drop it before: the inductive      *)
(* invariant of the gateway, its types included.                           *)
LEMMA GateInvHolds == GateSpec => []GateInv
<1> QED BY GateStarts, GateStep, PTL DEF GateSpec

(* Of the requests of a key that are counted in the minute they came in,   *)
(* no more get through than its quota (checkRateLimit), for every quota    *)
(* and any number of requests, with lost answers and counters that expire. *)
THEOREM QuotaIsKept == GateSpec => []QuotaHolds
<1>1. GateInv => QuotaHolds
  BY DEF GateInv
<1> QED BY <1>1, GateInvHolds, PTL

-----------------------------------------------------------------------------
(* OAuth server *)

AuthorizeAsks ==
    [op : {"authorize"}, bad : BOOLEAN, user : STRING \cup {None}, uri : RedirectURIs,
     challenge : [of : STRING, hashed : BOOLEAN] \cup {None}, method : Methods \cup {None}]

ExchangeAsks ==
    [op : {"exchange"}, bad : BOOLEAN, uri : RedirectURIs \cup {None},
     verifier : STRING \cup {None}]

OAuthAsks ==
    AuthorizeAsks \cup ExchangeAsks
      \cup [op : {"client"}, bad : BOOLEAN, user : STRING, public : BOOLEAN]
      \cup [op : {"credentials"}, bad : BOOLEAN, secret : {"right", "wrong"}]
      \cup [op : {"introspect", "validate"}, bad : BOOLEAN]

oauthAllVars == <<oauthVars, callVars>>

(* The OAuth endpoints, with any number of requests. *)
OAuthSpec ==
    /\ CallsInit([Calls -> OAuthAsks]) /\ OAuthInit
    /\ [][OAuthNext]_oauthAllVars

OAuthTypeOK ==
    /\ ask \in [Calls -> OAuthAsks]
    /\ at \in [Calls -> {"start", "uris", "uri", "insert", "mark", "issue", "done"}]
    /\ held \in [Calls -> ClientIds \cup (SUBSET RedirectURIs) \cup {None}]
    /\ clients \in [ClientIds -> ClientRows \cup {None}]
    /\ uris \in SUBSET (ClientIds \X RedirectURIs)
    /\ codes \in [Calls -> CodeRows \cup {None}]
    /\ access \in [Calls -> AccessRows \cup {None}]

(* What the handler of c has made sure of when it is at l and holds h. *)
Knows(c, l, h) ==
    /\ ask[c].op = "client" /\ l = "uris" => h \in SUBSET RedirectURIs
    /\ ask[c].op = "authorize" /\ l \in {"uri", "insert"} => h \in ClientIds /\ clients[h] # None
    /\ ask[c].op = "authorize" /\ l = "insert" =>
         /\ <<h, ask[c].uri>> \in uris /\ ask[c].user # None
         /\ clients[h].public => ask[c].challenge # None
    /\ ask[c].op = "exchange" /\ l \in {"mark", "issue"} =>
         /\ h \in Calls /\ codes[h] # None
         /\ codes[h].challenge # None => ask[c].verifier = codes[h].challenge.of
    /\ ask[c].op = "credentials" /\ l = "issue" =>
         h \in ClientIds /\ clients[h] # None /\ ~clients[h].public

HandlersKnow == \A c \in Calls : Knows(c, at[c], held[c])

(* A row is made by one step of the handler that it is named after. *)
RowsAreMadeOnce ==
    \A c \in Calls :
        /\ clients[c] # None => at[c] # "start"
        /\ codes[c] # None => at[c] = "done"
        /\ access[c] # None => at[c] = "done"

(* What a code stands for was checked before it was made. *)
WasChecked(k) ==
    /\ clients[codes[k].client] # None
    /\ <<codes[k].client, codes[k].uri>> \in uris
    /\ clients[codes[k].client].public => codes[k].challenge # None

CodesWereChecked == \A k \in Calls : codes[k] # None => WasChecked(k)

ClientsOfTokens == \A t \in Calls : access[t] # None => clients[access[t].client] # None

(* Call t has the code k to itself, on the way to its token or with it. *)
Spends(t, k) ==
    \/ Serving(t, "exchange", "issue") /\ held[t] = k
    \/ access[t] # None /\ access[t].code = k

SpentOnce ==
    \A k, t \in Calls : Spends(t, k) =>
        codes[k] # None /\ codes[k].used /\ \A u \in Calls : Spends(u, k) => u = t

OAuthInv ==
    /\ OAuthTypeOK /\ HandlersKnow /\ RowsAreMadeOnce /\ CodesWereChecked /\ ClientsOfTokens
    /\ SpentOnce /\ TokensHaveAGrant

LEMMA OAuthStarts == CallsInit([Calls -> OAuthAsks]) /\ OAuthInit => OAuthInv
<1> SUFFICES ASSUME CallsInit([Calls -> OAuthAsks]), OAuthInit PROVE OAuthInv
  OBVIOUS
<1>1. /\ ask \in [Calls -> OAuthAsks] /\ at = [c \in Calls |-> "start"]
      /\ held = [c \in Calls |-> None]
  BY DEF CallsInit
<1>2. [public |-> FALSE, owner |-> None] \in ClientRows
  BY DEF ClientRows
<1>3. OAuthTypeOK
  <2>1. clients \in [ClientIds -> ClientRows \cup {None}]
    BY <1>2 DEF OAuthInit
  <2>2. uris \in SUBSET (ClientIds \X RedirectURIs)
    BY DEF OAuthInit, ClientIds
  <2>3. /\ at \in [Calls -> {"start", "uris", "uri", "insert", "mark", "issue", "done"}]
        /\ codes \in [Calls -> CodeRows \cup {None}]
        /\ access \in [Calls -> AccessRows \cup {None}]
    BY <1>1 DEF OAuthInit
  <2>4. held \in [Calls -> ClientIds \cup (SUBSET RedirectURIs) \cup {None}]
    BY <1>1
  <2> QED BY <1>1, <2>1, <2>2, <2>3, <2>4 DEF OAuthTypeOK
<1>4. \A c \in Calls : clients[c] = None /\ codes[c] = None /\ access[c] = None
  BY OAuthAssumption DEF OAuthInit, ClientIds
<1>5. HandlersKnow
  BY <1>1 DEF HandlersKnow, Knows
<1> QED BY <1>1, <1>3, <1>4, <1>5
       DEF OAuthInv, RowsAreMadeOnce, CodesWereChecked, ClientsOfTokens, SpentOnce, Spends,
           Serving, TokensHaveAGrant

(* No step takes anything back: rows stay, and only their marks are set. *)
TablesGrow ==
    /\ \A k \in ClientIds : clients[k] # None => clients'[k] = clients[k]
    /\ uris \subseteq uris'
    /\ \A k \in Calls : codes[k] # None =>
         /\ codes'[k] # None /\ codes'[k].client = codes[k].client /\ codes'[k].user = codes[k].user
         /\ codes'[k].uri = codes[k].uri /\ codes'[k].challenge = codes[k].challenge
         /\ codes[k].used => codes'[k].used

(* So what a handler knows stays true while others run. *)
LEMMA KnowledgeLasts ==
    ASSUME ask' = ask, TablesGrow, NEW c \in Calls, NEW l, NEW h, Knows(c, l, h)
    PROVE  Knows(c, l, h)'
<1>1. ask[c].op = "client" /\ l = "uris" => h \in SUBSET RedirectURIs
  BY DEF Knows
<1>2. ask[c].op = "authorize" /\ l \in {"uri", "insert"} => h \in ClientIds /\ clients'[h] # None
  BY DEF Knows, TablesGrow
<1>3. ask[c].op = "authorize" /\ l = "insert" =>
        /\ <<h, ask[c].uri>> \in uris' /\ ask[c].user # None
        /\ clients'[h].public => ask[c].challenge # None
  BY DEF Knows, TablesGrow
<1>4. ask[c].op = "exchange" /\ l \in {"mark", "issue"} =>
        /\ h \in Calls /\ codes'[h] # None
        /\ codes'[h].challenge # None => ask[c].verifier = codes'[h].challenge.of
  BY DEF Knows, TablesGrow
<1>5. ask[c].op = "credentials" /\ l = "issue" =>
        h \in ClientIds /\ clients'[h] # None /\ ~clients'[h].public
  BY DEF Knows, TablesGrow
<1> QED BY <1>1, <1>2, <1>3, <1>4, <1>5 DEF Knows

(* and so does the grant of a token. *)
LEMMA GrantLasts ==
    ASSUME OAuthInv, ask' = ask, TablesGrow, NEW t \in Calls, access[t] # None,
           access'[t].code = access[t].code, access'[t].client = access[t].client,
           access'[t].user = access[t].user
    PROVE  HasGrant(t)' /\ clients'[access'[t].client] # None
<1>1. /\ clients[access[t].client] # None /\ HasGrant(t) /\ access[t] \in AccessRows
      /\ access[t].client \in ClientIds /\ access[t].code \in Calls \cup {None}
  BY DEF OAuthInv, OAuthTypeOK, ClientsOfTokens, TokensHaveAGrant, AccessRows
<1>2. clients'[access[t].client] = clients[access[t].client]
  BY <1>1 DEF TablesGrow
<1>3. CASE access[t].code = None
  BY <1>1, <1>2, <1>3 DEF HasGrant
<1>4. CASE access[t].code # None
  <2>1. PICK k \in Calls : k = access[t].code
    BY <1>1, <1>4
  <2>2. codes[k] # None /\ codes[k].used
    BY <2>1 DEF OAuthInv, SpentOnce, Spends
  <2>3. WasChecked(k) /\ codes[k].client = access[t].client
    BY <1>1, <1>4, <2>1, <2>2 DEF OAuthInv, CodesWereChecked, HasGrant
  <2> QED BY <1>1, <1>2, <1>4, <2>1, <2>2, <2>3 DEF HasGrant, TablesGrow, WasChecked
<1> QED BY <1>2, <1>1, <1>3, <1>4

(* What is left to show of a step that takes nothing back. *)
LEMMA OAuthKeeps ==
    ASSUME OAuthInv, OAuthTypeOK', ask' = ask, TablesGrow, HandlersKnow', RowsAreMadeOnce',
           \A k \in Calls : codes'[k] # None => codes[k] # None \/ WasChecked(k)',
           \A t \in Calls : access'[t] # None =>
              \/ /\ access[t] # None /\ access'[t].code = access[t].code
                 /\ access'[t].client = access[t].client /\ access'[t].user = access[t].user
              \/ clients'[access'[t].client] # None /\ HasGrant(t)',
           NEW c \in Calls,
           \A k, t \in Calls : Spends(t, k)' =>
              \/ Spends(t, k)
              \/ t = c /\ codes[k] # None /\ ~codes[k].used /\ codes'[k].used
    PROVE  OAuthInv'
<1>1. CodesWereChecked'
  <2> SUFFICES ASSUME NEW k \in Calls, codes'[k] # None, codes[k] # None PROVE WasChecked(k)'
    BY DEF CodesWereChecked
  <2>1. WasChecked(k) /\ codes[k].client \in ClientIds
    BY DEF OAuthInv, OAuthTypeOK, CodesWereChecked, CodeRows
  <2> QED BY <2>1 DEF WasChecked, TablesGrow
<1>2. ClientsOfTokens' /\ TokensHaveAGrant'
  BY GrantLasts DEF ClientsOfTokens, TokensHaveAGrant
<1>3. SpentOnce'
  <2> SUFFICES ASSUME NEW k \in Calls, NEW t \in Calls, Spends(t, k)'
               PROVE  codes'[k] # None /\ codes'[k].used
                      /\ \A u \in Calls : Spends(u, k)' => u = t
    BY DEF SpentOnce
  <2>1. \A u \in Calls : Spends(u, k) => codes[k] # None /\ codes[k].used
                                         /\ \A v \in Calls : Spends(v, k) => v = u
    BY DEF OAuthInv, SpentOnce
  <2>2. CASE Spends(t, k)
    BY <2>1, <2>2 DEF TablesGrow
  <2>3. CASE ~Spends(t, k)
    BY <2>1, <2>3 DEF TablesGrow
  <2> QED BY <2>2, <2>3
<1> QED BY <1>1, <1>2, <1>3 DEF OAuthInv

(* A handler that moves on keeps what it knows, and so do the others. *)
LEMMA OAuthMoves ==
    ASSUME OAuthInv, ask' = ask, TablesGrow, NEW c \in Calls, NEW l, NEW h,
           at' = [at EXCEPT ![c] = l], held' = [held EXCEPT ![c] = h],
           Knows(c, l, h)'
    PROVE  HandlersKnow'
<1>1. at \in [Calls -> {"start", "uris", "uri", "insert", "mark", "issue", "done"}]
      /\ held \in [Calls -> ClientIds \cup (SUBSET RedirectURIs) \cup {None}]
  BY DEF OAuthInv, OAuthTypeOK
<1> SUFFICES ASSUME NEW d \in Calls PROVE Knows(d, at[d], held[d])'
  BY DEF HandlersKnow
<1>2. CASE d = c
  <2>1. at'[d] = l /\ held'[d] = h
    BY <1>1, <1>2
  <2> QED BY <1>2, <2>1 DEF Knows
<1>3. CASE d # c
  <2>1. PICK m, g : m = at[d] /\ g = held[d] /\ m = at'[d] /\ g = held'[d]
    BY <1>1, <1>3
  <2>2. Knows(d, m, g)'
    BY <2>1, KnowledgeLasts DEF OAuthInv, HandlersKnow
  <2> QED BY <2>1, <2>2 DEF Knows
<1> QED BY <1>2, <1>3

(* Steps that leave the tables alone and do not go on to issue a token     *)
(* for a code.                                                             *)
LEMMA OAuthAside ==
    ASSUME OAuthInv, NEW c \in Calls,
           NEW l \in {"uris", "uri", "insert", "mark", "issue", "done"},
           NEW h \in ClientIds \cup (SUBSET RedirectURIs) \cup {None},
           ask' = ask, at' = [at EXCEPT ![c] = l], held' = [held EXCEPT ![c] = h],
           UNCHANGED oauthVars, at[c] # "done", Knows(c, l, h),
           l = "issue" => ask[c].op # "exchange"
    PROVE  OAuthInv'
<1>1. UNCHANGED <<clients, uris, codes, access>>
  BY DEF oauthVars
<1>2. OAuthTypeOK'
  BY <1>1 DEF OAuthInv, OAuthTypeOK
<1>3. TablesGrow
  BY <1>1 DEF TablesGrow
<1>4. HandlersKnow'
  BY <1>3, OAuthMoves, KnowledgeLasts
<1>5. RowsAreMadeOnce'
  BY <1>1 DEF OAuthInv, OAuthTypeOK, RowsAreMadeOnce
<1>6. \A k, t \in Calls : Spends(t, k)' => Spends(t, k)
  BY <1>1 DEF Spends, Serving, OAuthInv, OAuthTypeOK
<1> QED BY <1>1, <1>2, <1>3, <1>4, <1>5, <1>6, OAuthKeeps

(* What a request of each kind carries. *)
LEMMA OAuthAsked ==
    ASSUME OAuthTypeOK, NEW c \in Calls
    PROVE  /\ ask[c].op = "client" => ask[c].user \in STRING /\ ask[c].public \in BOOLEAN
           /\ ask[c].op = "authorize" => ask[c] \in AuthorizeAsks
<1>1. ask[c] \in OAuthAsks
  BY DEF OAuthTypeOK
<1>2. ask[c].op = "client" => ask[c] \in [op : {"client"}, bad : BOOLEAN, user : STRING, public : BOOLEAN]
  BY <1>1 DEF OAuthAsks, AuthorizeAsks, ExchangeAsks
<1>3. ask[c].op = "authorize" => ask[c] \in AuthorizeAsks
  BY <1>1 DEF OAuthAsks, ExchangeAsks
<1> QED BY <1>2, <1>3

(* Registration: the client, then one redirect URI after the other. *)
LEMMA RegisterKeeps ==
    ASSUME OAuthInv, NEW c \in Calls, RegisterClientHandler(c)
    PROVE  OAuthInv'
<1>0. ask[c].op = "client" /\ at[c] \in {"start", "uris"} /\ ask' = ask
      /\ c \in ClientIds /\ held[c] \in ClientIds \cup (SUBSET RedirectURIs) \cup {None}
  BY DEF RegisterClientHandler, Begins, Serving, Goto, Ok, Refuse, Answer, ClientIds,
         OAuthInv, OAuthTypeOK
<1>1. CASE /\ Begins(c, "client")
           /\ CreateOAuthClient(c, [public |-> ask[c].public, owner |-> ask[c].user])
           /\ Hold(c, RedirectURIs) /\ Goto(c, "uris") /\ UNCHANGED <<uris, codes, access>>
  <2>1. PICK row \in ClientRows : row = [public |-> ask[c].public, owner |-> ask[c].user]
    BY <1>0, OAuthAsked DEF OAuthInv, ClientRows
  <2>2. /\ clients' = [clients EXCEPT ![c] = row] /\ row # None
        /\ at' = [at EXCEPT ![c] = "uris"] /\ held' = [held EXCEPT ![c] = RedirectURIs]
        /\ at[c] = "start" /\ clients[c] = None
    BY <1>1, <2>1, OAuthAssumption
       DEF CreateOAuthClient, Hold, Goto, Begins, Serving, OAuthInv, RowsAreMadeOnce
  <2>3. OAuthTypeOK'
    BY <1>0, <1>1, <2>2 DEF OAuthInv, OAuthTypeOK
  <2>4. TablesGrow
    BY <1>0, <1>1, <2>2 DEF TablesGrow, OAuthInv, OAuthTypeOK
  <2>5. Knows(c, "uris", RedirectURIs)'
    BY <1>0 DEF Knows
  <2>6. HandlersKnow'
    BY <1>0, <2>2, <2>4, <2>5, OAuthMoves
  <2>7. RowsAreMadeOnce'
    BY <1>0, <1>1, <2>2 DEF OAuthInv, OAuthTypeOK, RowsAreMadeOnce
  <2>8. \A k, t \in Calls : Spends(t, k)' => Spends(t, k)
    BY <1>0, <1>1, <2>2 DEF Spends, Serving, OAuthInv, OAuthTypeOK
  <2> QED BY <1>0, <1>1, <2>3, <2>4, <2>6, <2>7, <2>8, OAuthKeeps
<1>2. CASE (Refuse(c) \/ Ok(c)) /\ UNCHANGED oauthVars
  <2>1. held' = [held EXCEPT ![c] = held[c]] /\ at' = [at EXCEPT ![c] = "done"]
    BY <1>2 DEF Refuse, Ok, Answer, OAuthInv, OAuthTypeOK
  <2>2. Knows(c, "done", held[c])
    BY DEF Knows
  <2> QED BY <1>0, <1>2, <2>1, <2>2, OAuthAside
<1>3. ASSUME Serving(c, "client", "uris"), NEW uri \in held[c],
             AddRedirectURI(c, uri) \/ UNCHANGED uris,
             Hold(c, held[c] \ {uri}), Goto(c, "uris"), UNCHANGED <<clients, codes, access>>
      PROVE  OAuthInv'
  <2>1. PICK h \in SUBSET RedirectURIs : h = held[c] \ {uri}
    BY <1>0, <1>3 DEF Serving, OAuthInv, HandlersKnow, Knows
  <2>2. uri \in RedirectURIs
    BY <1>0, <1>3 DEF Serving, OAuthInv, HandlersKnow, Knows
  <2>3. at' = [at EXCEPT ![c] = "uris"] /\ held' = [held EXCEPT ![c] = h]
    BY <1>3, <2>1 DEF Goto, Hold
  <2>4. uris' \in SUBSET (ClientIds \X RedirectURIs) /\ uris \subseteq uris'
    BY <1>0, <1>3, <2>2 DEF AddRedirectURI, OAuthInv, OAuthTypeOK
  <2>5. OAuthTypeOK'
    BY <1>0, <1>3, <2>3, <2>4 DEF OAuthInv, OAuthTypeOK
  <2>6. TablesGrow
    BY <1>3, <2>4 DEF TablesGrow
  <2>7. HandlersKnow'
    <3>1. Knows(c, "uris", h)'
      BY <1>0 DEF Knows
    <3> QED BY <1>0, <2>3, <2>6, <3>1, OAuthMoves
  <2>8. RowsAreMadeOnce'
    BY <1>3, <2>3 DEF OAuthInv, OAuthTypeOK, RowsAreMadeOnce, Serving
  <2>9. \A k, t \in Calls : Spends(t, k)' => Spends(t, k)
    BY <1>0, <1>3, <2>3 DEF Spends, Serving, OAuthInv, OAuthTypeOK
  <2> QED BY <1>0, <1>3, <2>5, <2>6, <2>7, <2>8, <2>9, OAuthKeeps
<1>4. CASE Begins(c, "client")
  BY <1>1, <1>2, <1>4 DEF RegisterClientHandler, Begins, Serving, oauthVars
<1>5. CASE Serving(c, "client", "uris")
  BY <1>2, <1>3, <1>5 DEF RegisterClientHandler, Begins, Serving, oauthVars
<1> QED BY <1>4, <1>5 DEF RegisterClientHandler

(* A refusal or any other answer without a row. *)
LEMMA OAuthAnswers ==
    ASSUME OAuthInv, NEW c \in Calls, at[c] # "done", NEW a, Answer(c, a), UNCHANGED oauthVars,
           UNCHANGED held \/ \E t \in Calls : Hold(c, t)
    PROVE  OAuthInv'
<1>1. PICK h \in ClientIds \cup (SUBSET RedirectURIs) \cup {None} : held' = [held EXCEPT ![c] = h]
  <2>1. CASE UNCHANGED held
    <3>1. held' = [held EXCEPT ![c] = held[c]]
          /\ held[c] \in ClientIds \cup (SUBSET RedirectURIs) \cup {None}
      BY <2>1 DEF OAuthInv, OAuthTypeOK
    <3> QED BY <3>1
  <2>2. ASSUME NEW t \in Calls, Hold(c, t)
        PROVE  \E h \in ClientIds \cup (SUBSET RedirectURIs) \cup {None} : held' = [held EXCEPT ![c] = h]
    BY <2>2 DEF Hold, ClientIds
  <2> QED BY <2>1, <2>2
<1>2. at' = [at EXCEPT ![c] = "done"] /\ ask' = ask /\ Knows(c, "done", h)
  BY DEF Answer, Knows
<1> QED BY <1>1, <1>2, OAuthAside

(* /oauth/authorize *)
LEMMA AuthorizeKeeps ==
    ASSUME OAuthInv, NEW c \in Calls, AuthorizeHandler(c)
    PROVE  OAuthInv'
<1>0. /\ ask[c].op = "authorize" /\ at[c] \in {"start", "uri", "insert"} /\ ask' = ask
      /\ held[c] \in ClientIds \cup (SUBSET RedirectURIs) \cup {None}
  BY DEF AuthorizeHandler, AuthorizeClient, Begins, Serving, Goto, Ok, Refuse, Answer,
         OAuthInv, OAuthTypeOK
<1>1. CASE Refuse(c) /\ UNCHANGED oauthVars
  BY <1>0, <1>1, OAuthAnswers DEF Refuse
<1>2. ASSUME NEW k \in ClientIds, GetClientByID(k) # None, Hold(c, k), Goto(c, "uri"),
             UNCHANGED oauthVars
      PROVE  OAuthInv'
  <2>1. Knows(c, "uri", k)
    BY <1>0, <1>2 DEF Knows, GetClientByID
  <2> QED BY <1>0, <1>2, <2>1, OAuthAside DEF Hold, Goto
<1>3. CASE /\ Serving(c, "authorize", "uri") /\ MayAuthorize(c) /\ Goto(c, "insert")
           /\ UNCHANGED held /\ UNCHANGED oauthVars
  <2>1. held[c] \in ClientIds /\ clients[held[c]] # None
    BY <1>0, <1>3 DEF Serving, OAuthInv, HandlersKnow, Knows
  <2>2. Knows(c, "insert", held[c])
    BY <1>0, <1>3, <2>1 DEF MayAuthorize, ValidateRedirectURI, Knows
  <2>3. held' = [held EXCEPT ![c] = held[c]] /\ at' = [at EXCEPT ![c] = "insert"]
    BY <1>3 DEF Goto, OAuthInv, OAuthTypeOK
  <2> QED BY <1>0, <1>3, <2>2, <2>3, OAuthAside
<1>4. ASSUME NEW row, row = [client |-> held[c], user |-> ask[c].user, uri |-> ask[c].uri,
                    challenge |-> ask[c].challenge,
                    method |-> IF ask[c].method = None THEN "S256" ELSE ask[c].method,
                    used |-> FALSE, expired |-> FALSE],
             Serving(c, "authorize", "insert"), CreateAuthorizationCode(c, row), Ok(c),
             UNCHANGED <<clients, uris, access>>
      PROVE  OAuthInv'
  <2>1. /\ held[c] \in ClientIds /\ clients[held[c]] # None
        /\ <<held[c], ask[c].uri>> \in uris /\ ask[c].user # None
        /\ clients[held[c]].public => ask[c].challenge # None
    BY <1>4 DEF Serving, OAuthInv, HandlersKnow, Knows
  <2>2. /\ ask[c].user \in STRING /\ ask[c].uri \in RedirectURIs
        /\ ask[c].challenge \in [of : STRING, hashed : BOOLEAN] \cup {None}
        /\ (IF ask[c].method = None THEN "S256" ELSE ask[c].method) \in Methods
    BY <1>0, <2>1, OAuthAsked DEF OAuthInv, AuthorizeAsks, Methods
  <2>3. row \in CodeRows
    BY <1>4, <2>1, <2>2 DEF CodeRows
  <2>4. row # None
    BY <2>3, OAuthAssumption
  <2>5. /\ codes' = [codes EXCEPT ![c] = row] /\ codes[c] = None
        /\ at' = [at EXCEPT ![c] = "done"] /\ held' = held
        /\ held' = [held EXCEPT ![c] = held[c]]
    BY <1>4 DEF CreateAuthorizationCode, Ok, Answer, Serving, OAuthInv, OAuthTypeOK, RowsAreMadeOnce
  <2>6. OAuthTypeOK'
    BY <1>0, <1>4, <2>3, <2>5 DEF OAuthInv, OAuthTypeOK
  <2>7. TablesGrow
    BY <1>4, <2>5 DEF TablesGrow, OAuthInv, OAuthTypeOK
  <2>8. HandlersKnow'
    <3>1. PICK h : h = held[c]
      OBVIOUS
    <3>2. Knows(c, "done", h)'
      BY DEF Knows
    <3> QED BY <1>0, <2>5, <2>7, <3>1, <3>2, OAuthMoves
  <2>9. RowsAreMadeOnce'
    BY <1>0, <1>4, <2>5 DEF OAuthInv, OAuthTypeOK, RowsAreMadeOnce
  <2>10. codes'[c] = row /\ \A k \in Calls \ {c} : codes'[k] = codes[k]
    BY <2>5 DEF OAuthInv, OAuthTypeOK
  <2>11. WasChecked(c)'
    BY <1>4, <2>1, <2>10 DEF WasChecked
  <2>12. \A k, t \in Calls : Spends(t, k)' => Spends(t, k)
    BY <1>0, <1>4, <2>5 DEF Spends, Serving, OAuthInv, OAuthTypeOK
  <2> QED BY <1>0, <1>4, <2>6, <2>7, <2>8, <2>9, <2>10, <2>11, <2>12, OAuthKeeps
<1> QED BY <1>1, <1>2, <1>3, <1>4 DEF AuthorizeHandler, AuthorizeClient, oauthVars

(* issueTokens for a grant that was found. *)
LEMMA IssueKeeps ==
    ASSUME OAuthInv, NEW c \in Calls, NEW client \in ClientIds, NEW user \in STRING \cup {None},
           NEW code \in Calls \cup {None}, IssueTokens(c, client, user, code),
           clients[client] # None,
           ask[c].op \in {"credentials", "exchange"},
           code = None => ~clients[client].public,
           code # None => /\ ask[c].op = "exchange" /\ held[c] = code
                          /\ codes[code].client = client /\ codes[code].user = user
    PROVE  OAuthInv'
<1>0. at[c] = "issue" /\ UNCHANGED <<clients, uris, codes>> /\ ask' = ask
  BY DEF IssueTokens, Ok, Refuse, Answer
<1>1. CASE Refuse(c) /\ UNCHANGED access
  BY <1>0, <1>1, OAuthAnswers DEF Refuse, oauthVars
<1>2. ASSUME NEW row, row = [client |-> client, user |-> user, code |-> code, expired |-> FALSE],
             CreateOAuthToken(c, row), Ok(c)
      PROVE  OAuthInv'
  <2>1. row \in AccessRows
    BY <1>2 DEF AccessRows
  <2>2. row # None /\ row.client = client /\ row.user = user /\ row.code = code
    BY <1>2, <2>1, OAuthAssumption
  <2>3. /\ access' = [access EXCEPT ![c] = row] /\ at' = [at EXCEPT ![c] = "done"]
        /\ held' = held /\ held' = [held EXCEPT ![c] = held[c]] /\ access[c] = None
    BY <1>0, <1>2 DEF CreateOAuthToken, Ok, Answer, OAuthInv, OAuthTypeOK, RowsAreMadeOnce
  <2>4. access'[c] = row /\ \A t \in Calls \ {c} : access'[t] = access[t]
    BY <2>3 DEF OAuthInv, OAuthTypeOK
  <2>5. OAuthTypeOK'
    BY <1>0, <2>1, <2>3 DEF OAuthInv, OAuthTypeOK
  <2>6. TablesGrow
    BY <1>0 DEF TablesGrow
  <2>7. HandlersKnow'
    <3>1. PICK h : h = held[c]
      OBVIOUS
    <3>2. Knows(c, "done", h)'
      BY DEF Knows
    <3> QED BY <1>0, <2>3, <2>6, <3>1, <3>2, OAuthMoves
  <2>8. RowsAreMadeOnce'
    BY <1>0, <2>3 DEF OAuthInv, OAuthTypeOK, RowsAreMadeOnce
  <2>9. HasGrant(c)'
    <3>1. CASE code = None
      BY <1>0, <2>2, <2>4, <3>1 DEF HasGrant
    <3>2. CASE code # None
      <4>1. /\ code \in Calls /\ codes[code] # None /\ codes[code].used
            /\ codes[code].challenge # None => ask[c].verifier = codes[code].challenge.of
        BY <1>0, <3>2
           DEF OAuthInv, SpentOnce, Spends, Serving, HandlersKnow, Knows
      <4>2. WasChecked(code)
        BY <4>1 DEF OAuthInv, CodesWereChecked
      <4> QED BY <1>0, <2>2, <2>4, <3>2, <4>1, <4>2 DEF HasGrant, WasChecked
    <3> QED BY <3>1, <3>2
  <2>10. \A k, t \in Calls : Spends(t, k)' => Spends(t, k)
    <3> SUFFICES ASSUME NEW k \in Calls, NEW t \in Calls, Spends(t, k)' PROVE Spends(t, k)
      OBVIOUS
    <3>1. CASE t = c
      <4>1. at'[c] = "done"
        BY <2>3 DEF OAuthInv, OAuthTypeOK
      <4>2. code = k
        BY <2>2, <2>4, <3>1, <4>1 DEF Spends, Serving
      <4> QED BY <1>0, <3>1, <4>2, OAuthAssumption DEF Spends, Serving
    <3>2. CASE t # c
      BY <1>0, <2>3, <2>4, <3>2 DEF Spends, Serving, OAuthInv, OAuthTypeOK
    <3> QED BY <3>1, <3>2
  <2> QED BY <1>0, <2>2, <2>4, <2>5, <2>6, <2>7, <2>8, <2>9, <2>10, OAuthKeeps
<1> QED BY <1>1, <1>2 DEF IssueTokens

(* The client credentials grant *)
LEMMA CredentialsKeep ==
    ASSUME OAuthInv, NEW c \in Calls, HandleClientCredentials(c)
    PROVE  OAuthInv'
<1>0. ask[c].op = "credentials"
  BY DEF HandleClientCredentials, Begins, Serving
<1>1. ASSUME NEW k \in ClientIds, SecretMatches(GetClientByID(k), ask[c].secret),
             Begins(c, "credentials"), Hold(c, k), Goto(c, "issue"), UNCHANGED oauthVars
      PROVE  OAuthInv'
  <2>1. Knows(c, "issue", k)
    BY <1>0, <1>1 DEF SecretMatches, GetClientByID, Knows
  <2> QED BY <1>0, <1>1, <2>1, OAuthAside DEF Hold, Goto, Begins, Serving
<1>2. CASE Begins(c, "credentials") /\ Refuse(c) /\ UNCHANGED oauthVars
  BY <1>2, OAuthAnswers DEF Refuse, Begins, Serving
<1>3. CASE IssueTokens(c, held[c], clients[held[c]].owner, None)
  <2>1. at[c] = "issue"
    BY <1>3 DEF IssueTokens
  <2>2. held[c] \in ClientIds /\ clients[held[c]] # None /\ ~clients[held[c]].public
    BY <1>0, <2>1 DEF OAuthInv, HandlersKnow, Knows
  <2>3. clients[held[c]].owner \in STRING \cup {None}
    BY <2>2 DEF OAuthInv, OAuthTypeOK, ClientRows
  <2> QED BY <1>0, <1>3, <2>2, <2>3, IssueKeeps
<1> QED BY <1>1, <1>2, <1>3 DEF HandleClientCredentials

(* The authorization code grant: the UPDATE lets one call through. *)
LEMMA ExchangeKeeps ==
    ASSUME OAuthInv, NEW c \in Calls, HandleAuthorizationCode(c)
    PROVE  OAuthInv'
<1>0. ask[c].op = "exchange" /\ ask' = ask
  BY DEF HandleAuthorizationCode, Begins, Serving, IssueTokens, Goto, Refuse, Ok, Answer
<1>1. ASSUME NEW k \in Calls, MayExchange(c, GetAuthorizationCode(k)),
             Begins(c, "exchange"), Hold(c, k), Goto(c, "mark"), UNCHANGED oauthVars
      PROVE  OAuthInv'
  <2>1. codes[k] # None /\ (codes[k].challenge # None =>
                              codes[k].challenge = Challenge(ask[c].verifier, codes[k].method = "S256"))
    BY <1>1 DEF MayExchange, GetAuthorizationCode, VerifyCodeChallenge
  <2>2. \A m : Challenge(ask[c].verifier, m).of = ask[c].verifier
    BY DEF Challenge
  <2>3. Knows(c, "mark", k)
    BY <1>0, <2>1, <2>2 DEF Knows
  <2> QED BY <1>0, <1>1, <2>3, OAuthAside DEF Hold, Goto, Begins, Serving, ClientIds
<1>2. CASE /\ Begins(c, "exchange") \/ Serving(c, "exchange", "mark")
           /\ Refuse(c) /\ UNCHANGED oauthVars
  BY <1>2, OAuthAnswers DEF Refuse, Begins, Serving
<1>3. CASE /\ Serving(c, "exchange", "mark") /\ MarkAuthorizationCodeUsed(held[c])
           /\ Goto(c, "issue") /\ UNCHANGED held /\ UNCHANGED <<clients, uris, access>>
  <2>1. PICK k \in Calls : /\ k = held[c] /\ codes[k] # None
                           /\ codes[k].challenge # None => ask[c].verifier = codes[k].challenge.of
    BY <1>0, <1>3 DEF Serving, OAuthInv, HandlersKnow, Knows
  <2>2. PICK row : row = [codes[k] EXCEPT !.used = TRUE]
    OBVIOUS
  <2>3. codes[k] \in CodeRows
    BY <2>1 DEF OAuthInv, OAuthTypeOK
  <2>4. /\ row \in CodeRows /\ row.used /\ row.client = codes[k].client /\ row.user = codes[k].user
        /\ row.uri = codes[k].uri /\ row.challenge = codes[k].challenge
    BY <2>2, <2>3 DEF CodeRows
  <2>5. row # None
    BY <2>4, OAuthAssumption
  <2>6. /\ codes' = [codes EXCEPT ![k] = row] /\ ~codes[k].used /\ at[c] = "mark"
        /\ at' = [at EXCEPT ![c] = "issue"] /\ held' = held
        /\ held' = [held EXCEPT ![c] = k]
    BY <1>3, <2>1, <2>2 DEF MarkAuthorizationCodeUsed, Goto, Serving, OAuthInv, OAuthTypeOK
  <2>7. codes'[k] = row /\ \A j \in Calls \ {k} : codes'[j] = codes[j]
    BY <2>6 DEF OAuthInv, OAuthTypeOK
  <2>8. OAuthTypeOK'
    BY <1>0, <1>3, <2>4, <2>6 DEF OAuthInv, OAuthTypeOK
  <2>9. TablesGrow
    BY <1>3, <2>4, <2>5, <2>7 DEF TablesGrow
  <2>10. HandlersKnow'
    <3>1. Knows(c, "mark", k)
      BY <1>0, <2>1 DEF Knows
    <3>2. Knows(c, "issue", k)
      BY <1>0, <3>1 DEF Knows
    <3> QED BY <1>0, <2>6, <2>9, <3>2, KnowledgeLasts, OAuthMoves
  <2>11. RowsAreMadeOnce'
    BY <1>3, <2>1, <2>5, <2>6, <2>7 DEF OAuthInv, OAuthTypeOK, RowsAreMadeOnce
  <2>12. ASSUME NEW j \in Calls, NEW t \in Calls, Spends(t, j)'
         PROVE  \/ Spends(t, j)
                \/ t = c /\ codes[j] # None /\ ~codes[j].used /\ codes'[j].used
    <3>1. CASE t = c /\ j = k
      BY <2>1, <2>4, <2>6, <2>7, <3>1
    <3>2. CASE ~(t = c /\ j = k)
      BY <1>0, <1>3, <2>1, <2>6, <2>12, <3>2 DEF Spends, Serving, OAuthInv, OAuthTypeOK
    <3> QED BY <3>1, <3>2
  <2>13. \A j \in Calls : codes'[j] # None => codes[j] # None
    BY <2>1, <2>7
  <2> QED BY <1>0, <1>3, <2>8, <2>9, <2>10, <2>11, <2>12, <2>13, OAuthKeeps
<1>4. CASE IssueTokens(c, codes[held[c]].client, codes[held[c]].user, held[c])
  <2>1. at[c] = "issue"
    BY <1>4 DEF IssueTokens
  <2>2. PICK k \in Calls : k = held[c] /\ codes[k] # None
    BY <1>0, <2>1 DEF OAuthInv, HandlersKnow, Knows
  <2>3. WasChecked(k) /\ codes[k] \in CodeRows
    BY <2>2 DEF OAuthInv, OAuthTypeOK, CodesWereChecked
  <2>4. codes[k].client \in ClientIds /\ codes[k].user \in STRING /\ clients[codes[k].client] # None
    BY <2>3 DEF CodeRows, WasChecked
  <2> QED BY <1>0, <1>4, <2>2, <2>4, IssueKeeps, OAuthAssumption
<1> QED BY <1>1, <1>2, <1>3, <1>4 DEF HandleAuthorizationCode, oauthVars

(* Expiry marks a row and takes nothing back. *)
LEMMA ExpiryKeeps ==
    ASSUME OAuthInv, NEW k \in Calls, ExpireGrant(k)
    PROVE  OAuthInv'
<1>0. UNCHANGED <<clients, uris, ask, at, held>>
  BY DEF ExpireGrant, callVars
<1>1. /\ codes' \in [Calls -> CodeRows \cup {None}]
      /\ \A j \in Calls : codes[j] = None => codes'[j] = None
      /\ \A j \in Calls : codes[j] # None =>
           /\ codes'[j] # None /\ codes'[j].client = codes[j].client /\ codes'[j].user = codes[j].user
           /\ codes'[j].uri = codes[j].uri /\ codes'[j].challenge = codes[j].challenge
           /\ codes'[j].used = codes[j].used
  <2>1. CASE UNCHANGED codes
    BY <2>1 DEF OAuthInv, OAuthTypeOK
  <2>2. CASE codes[k] # None /\ codes' = [codes EXCEPT ![k].expired = TRUE]
    <3>1. PICK row : row = [codes[k] EXCEPT !.expired = TRUE]
      OBVIOUS
    <3>2. codes[k] \in CodeRows
      BY <2>2 DEF OAuthInv, OAuthTypeOK
    <3>3. /\ row \in CodeRows /\ row.used = codes[k].used /\ row.client = codes[k].client
          /\ row.user = codes[k].user /\ row.uri = codes[k].uri /\ row.challenge = codes[k].challenge
      BY <3>1, <3>2 DEF CodeRows
    <3>4. row # None /\ codes' = [codes EXCEPT ![k] = row]
      BY <2>2, <3>1, <3>3, OAuthAssumption
    <3> QED BY <2>2, <3>3, <3>4 DEF OAuthInv, OAuthTypeOK
  <2> QED BY <2>1, <2>2 DEF ExpireGrant
<1>2. /\ access' \in [Calls -> AccessRows \cup {None}]
      /\ \A t \in Calls : access[t] = None => access'[t] = None
      /\ \A t \in Calls : access[t] # None =>
           /\ access'[t].client = access[t].client /\ access'[t].user = access[t].user
           /\ access'[t].code = access[t].code
  <2>1. CASE UNCHANGED access
    BY <2>1 DEF OAuthInv, OAuthTypeOK
  <2>2. CASE access[k] # None /\ access' = [access EXCEPT ![k].expired = TRUE]
    <3>1. PICK row : row = [access[k] EXCEPT !.expired = TRUE]
      OBVIOUS
    <3>2. access[k] \in AccessRows
      BY <2>2 DEF OAuthInv, OAuthTypeOK
    <3>3. /\ row \in AccessRows /\ row.client = access[k].client
          /\ row.user = access[k].user /\ row.code = access[k].code
      BY <3>1, <3>2 DEF AccessRows
    <3>4. access' = [access EXCEPT ![k] = row]
      BY <2>2, <3>1
    <3> QED BY <2>2, <3>3, <3>4 DEF OAuthInv, OAuthTypeOK
  <2> QED BY <2>1, <2>2 DEF ExpireGrant
<1>3. OAuthTypeOK'
  BY <1>0, <1>1, <1>2 DEF OAuthInv, OAuthTypeOK
<1>4. TablesGrow
  BY <1>0, <1>1 DEF TablesGrow
<1>5. HandlersKnow'
  <2> SUFFICES ASSUME NEW d \in Calls PROVE Knows(d, at[d], held[d])'
    BY DEF HandlersKnow
  <2>1. PICK m, g : m = at[d] /\ g = held[d] /\ m = at'[d] /\ g = held'[d]
    BY <1>0
  <2>2. Knows(d, m, g)'
    BY <1>0, <1>4, <2>1, KnowledgeLasts DEF OAuthInv, HandlersKnow
  <2> QED BY <2>1, <2>2 DEF Knows
<1>6. RowsAreMadeOnce'
  BY <1>0, <1>1, <1>2 DEF OAuthInv, RowsAreMadeOnce
<1>7. \A j, t \in Calls : Spends(t, j)' => Spends(t, j)
  BY <1>0, <1>2 DEF Spends, Serving
<1>8. \A t \in Calls : access'[t] # None => access[t] # None
  BY <1>2
<1>9. \A j \in Calls : codes'[j] # None => codes[j] # None
  BY <1>1
<1> QED BY <1>0, <1>2, <1>3, <1>4, <1>5, <1>6, <1>7, <1>8, <1>9, OAuthKeeps

LEMMA OAuthStep == OAuthInv /\ [OAuthNext]_oauthAllVars => OAuthInv'
<1> SUFFICES ASSUME OAuthInv, [OAuthNext]_oauthAllVars PROVE OAuthInv'
  OBVIOUS
<1>1. CASE UNCHANGED oauthAllVars
  BY <1>1 DEF oauthAllVars, oauthVars, callVars, OAuthInv, OAuthTypeOK, HandlersKnow, Knows,
              RowsAreMadeOnce, CodesWereChecked, WasChecked, ClientsOfTokens, SpentOnce, Spends,
              Serving, TokensHaveAGrant, HasGrant
<1>2. ASSUME NEW c \in Calls, Malformed(c), UNCHANGED oauthVars PROVE OAuthInv'
  BY <1>2, OAuthAnswers DEF Malformed, Refuse
<1>3. ASSUME NEW c \in Calls, TokenIntrospectionHandler(c) \/ ValidateToken(c) PROVE OAuthInv'
  <2>1. at[c] = "start" /\ UNCHANGED oauthVars
    BY <1>3 DEF TokenIntrospectionHandler, ValidateToken, Begins, Serving
  <2>2. /\ Answer(c, "active") \/ Answer(c, "inactive")
        /\ UNCHANGED held \/ \E t \in Calls : Hold(c, t)
    BY <1>3 DEF TokenIntrospectionHandler, ValidateToken
  <2> QED BY <2>1, <2>2, OAuthAnswers
<1> QED BY <1>1, <1>2, <1>3, RegisterKeeps, AuthorizeKeeps, CredentialsKeep, ExchangeKeeps, ExpiryKeeps
       DEF OAuthNext, OAuthTokenHandler

(* What a handler has checked stays true until it acts on it, and a code   *)
(* has one taker: the inductive invariant of the OAuth server, its types   *)
(* included.                                                               *)
LEMMA OAuthInvHolds == OAuthSpec => []OAuthInv
<1> QED BY OAuthStarts, OAuthStep, PTL DEF OAuthSpec

(* A code buys at most one token and every token goes back to a grant,     *)
(* for any clients, redirect URIs and interleaving of the exchanges        *)
(* (handleAuthorizationCode, MarkAuthorizationCodeUsed).                   *)
THEOREM GrantsHold == OAuthSpec => []GrantsAreHonoured
<1>1. OAuthInv => GrantsAreHonoured
  <2> SUFFICES ASSUME OAuthInv PROVE OneTokenPerCode
    BY DEF OAuthInv, GrantsAreHonoured
  <2>1. \A t \in Calls : access[t] # None => access[t].code \in Calls \cup {None}
    BY DEF OAuthInv, OAuthTypeOK, AccessRows
  <2> QED BY <2>1 DEF OneTokenPerCode, OAuthInv, SpentOnce, Spends
<1> QED BY <1>1, OAuthInvHolds, PTL

-----------------------------------------------------------------------------
(* Users and their tokens *)

Mailing == {"register", "sso", "forgot", "resend"}

CredAsks ==
    [op : Mailing \cup {"login", "debug"}, bad : BOOLEAN, email : Emails, password : Passwords,
     identity : Identities]
      \cup [op : Kinds, bad : BOOLEAN, password : Passwords]

credAllVars == <<credVars, callVars>>

(* The users of the auth service, with any number of requests. *)
CredSpec ==
    /\ CallsInit([Calls -> CredAsks]) /\ CredInit
    /\ [][CredNext]_credAllVars

CredLabels ==
    {"start", "insert", "token", "publish", "second", "remember", "link", "act", "mark", "done"}

CredTypeOK ==
    /\ ask \in [Calls -> CredAsks]
    /\ at \in [Calls -> CredLabels]
    /\ held \in [Calls -> TokenIds \cup {None}]
    /\ reply \in [Calls -> {"none", "ok", "refused"}]
    /\ users \in [Emails -> UserRows \cup {None}]
    /\ tokens \in [TokenIds -> TokenRows \cup {None}]
    /\ links \in [Identities -> Emails \cup {None}]
    /\ mailed \in SUBSET TokenIds
    /\ shown \in [Kinds -> [Emails -> TokenIds \cup {None}]]

(* What the handler of c has made sure of when it is at l and holds h. *)
IsAware(c, l, h) ==
    /\ l \in {"insert", "token", "publish", "second", "remember", "link"} => ask[c].op \in Mailing
    /\ l \in {"token", "publish", "second", "remember", "link"} => users[ask[c].email] # None
    /\ l \in {"publish", "remember"} => h \in TokenIds
    /\ l \in {"act", "mark"} => h \in TokenIds /\ tokens[h] # None /\ tokens[h].kind = ask[c].op
    /\ l = "mark" /\ ask[c].op = "verify" => users[tokens[h].user].verified
    /\ l = "mark" /\ ask[c].op = "reset" => WasReset(tokens[h].user)

HandlersAreAware == \A c \in Calls : IsAware(c, at[c], held[c])

(* A token is made by one step of the handler it is named after, for a     *)
(* user who exists; no call is answered before it is done.                 *)
TokensMadeOnce ==
    \A c \in Calls :
        /\ tokens[<<c, 1>>] # None => at[c] \notin {"start", "insert", "token"}
        /\ tokens[<<c, 2>>] # None => at[c] \notin {"start", "insert", "token", "publish", "second"}
        /\ at[c] # "done" => reply[c] = "none"

UsersOfTokens == \A t \in TokenIds : tokens[t] # None => users[tokens[t].user] # None

(* A token is marked when what it is for has been done, *)
TokenIsDone(t) ==
    IF tokens[t].kind = "verify"
    THEN users[tokens[t].user].verified
    ELSE WasReset(tokens[t].user)

MarkedIsDone == \A t \in TokenIds : tokens[t] # None /\ tokens[t].used => TokenIsDone(t)

(* and a call is told that it worked when it has marked the token. *)
SuccessIsMarked ==
    \A op \in Kinds, t \in TokenIds, c \in Calls : Succeeded(c, op, t) =>
        /\ tokens[t] # None /\ tokens[t].used
        /\ \A d \in Calls : Succeeded(d, op, t) => d = c

CredInv ==
    /\ CredTypeOK /\ HandlersAreAware /\ TokensMadeOnce /\ UsersOfTokens
    /\ MarkedIsDone /\ SuccessIsMarked

LEMMA CredStarts == CallsInit([Calls -> CredAsks]) /\ CredInit => CredInv
<1> SUFFICES ASSUME CallsInit([Calls -> CredAsks]), CredInit PROVE CredInv
  OBVIOUS
<1>1. /\ ask \in [Calls -> CredAsks] /\ at = [c \in Calls |-> "start"]
      /\ held = [c \in Calls |-> None] /\ reply = [c \in Calls |-> "none"]
  BY DEF CallsInit
<1>2. [password |-> "first", verified |-> FALSE] \in UserRows
  BY DEF UserRows, Passwords
<1>3. users \in [Emails -> UserRows \cup {None}]
  BY <1>2 DEF CredInit
<1>4. \A t \in TokenIds : tokens[t] = None
  BY DEF CredInit
<1>5. CredTypeOK
  BY <1>1, <1>3 DEF CredInit, CredTypeOK, CredLabels
<1>6. HandlersAreAware
  BY <1>1 DEF HandlersAreAware, IsAware
<1>7. TokensMadeOnce
  <2>1. \A c \in Calls : <<c, 1>> \in TokenIds /\ <<c, 2>> \in TokenIds
    BY DEF TokenIds
  <2> QED BY <1>1, <1>4, <2>1 DEF TokensMadeOnce
<1>8. SuccessIsMarked
  BY <1>1 DEF SuccessIsMarked, Succeeded
<1> QED BY <1>4, <1>5, <1>6, <1>7, <1>8 DEF CredInv, UsersOfTokens, MarkedIsDone

(* No step takes anything back. *)
UsersGrow ==
    /\ \A e \in Emails : users[e] # None =>
         users'[e] # None /\ (users[e].verified => users'[e].verified)
    /\ \A t \in TokenIds : tokens[t] # None =>
         tokens'[t] # None /\ tokens'[t].kind = tokens[t].kind /\ tokens'[t].user = tokens[t].user

LEMMA CredAsked ==
    ASSUME CredTypeOK, NEW c \in Calls
    PROVE  /\ ask[c].op \in Mailing \cup {"login", "debug"} => ask[c].email \in Emails /\ ask[c].identity \in Identities
           /\ ask[c].password \in Passwords
           /\ ask[c].op \in Mailing \cup {"login", "debug"} \cup Kinds
<1>1. ask[c] \in CredAsks
  BY DEF CredTypeOK
<1> QED BY <1>1 DEF CredAsks, Mailing, Kinds

LEMMA TokenType ==
    ASSUME CredTypeOK, NEW t \in TokenIds, tokens[t] # None
    PROVE  /\ tokens[t] \in TokenRows /\ tokens[t].kind \in Kinds /\ tokens[t].user \in Emails
           /\ tokens[t].used \in BOOLEAN
<1>1. tokens[t] \in TokenRows
  BY DEF CredTypeOK
<1> QED BY <1>1 DEF TokenRows

(* A password that was given with a token is replaced only by another. *)
ResetsLast == \A e \in Emails : users[e] # None /\ WasReset(e) => WasReset(e)'

LEMMA ResetsStay ==
    ASSUME CredInv, ask' = ask, UsersGrow,
           \A w \in Calls : at[w] \in {"mark", "done"} =>
              at'[w] \in {"mark", "done"} /\ held'[w] = held[w],
           \A e \in Emails : users[e] # None =>
              users'[e].password = users[e].password \/ WasReset(e)'
    PROVE  ResetsLast
<1> SUFFICES ASSUME NEW e \in Emails, users[e] # None, WasReset(e) PROVE WasReset(e)'
  BY DEF ResetsLast
<1>1. PICK w \in Calls : SetBy(w, e)
  BY DEF WasReset
<1>2. CASE users'[e].password = users[e].password
  <2>1. /\ ask[w].op = "reset" /\ at[w] \in {"mark", "done"} /\ held[w] \in TokenIds
        /\ tokens[held[w]] # None /\ tokens[held[w]].user = e
        /\ users[e].password = ask[w].password
    BY <1>1 DEF SetBy
  <2>2. at'[w] \in {"mark", "done"} /\ held'[w] = held[w]
    BY <2>1
  <2>3. tokens'[held[w]] # None /\ tokens'[held[w]].user = e
    BY <2>1 DEF UsersGrow
  <2>4. SetBy(w, e)'
    BY <1>2, <2>1, <2>2, <2>3 DEF SetBy
  <2> QED BY <2>4 DEF WasReset
<1> QED BY <1>2

LEMMA AwarenessLasts ==
    ASSUME CredInv, ask' = ask, UsersGrow, ResetsLast, NEW c \in Calls, NEW l, NEW h, IsAware(c, l, h)
    PROVE  IsAware(c, l, h)'
<1>1. l \in {"insert", "token", "publish", "second", "remember", "link"} => ask[c].op \in Mailing
  BY DEF IsAware
<1>2. l \in {"token", "publish", "second", "remember", "link"} => users'[ask[c].email] # None
  BY <1>1, CredAsked DEF CredInv, IsAware, UsersGrow
<1>3. l \in {"act", "mark"} => h \in TokenIds /\ tokens'[h] # None /\ tokens'[h].kind = ask[c].op
  BY DEF IsAware, UsersGrow
<1>4. l = "mark" /\ ask[c].op = "verify" => users'[tokens'[h].user].verified
  <2> SUFFICES ASSUME l = "mark", ask[c].op = "verify" PROVE users'[tokens'[h].user].verified
    OBVIOUS
  <2>1. h \in TokenIds /\ tokens[h] # None /\ users[tokens[h].user].verified
    BY DEF IsAware
  <2>2. users[tokens[h].user] # None /\ tokens[h].user \in Emails
    BY <2>1, TokenType DEF CredInv, UsersOfTokens
  <2> QED BY <2>1, <2>2 DEF UsersGrow
<1>5. l = "mark" /\ ask[c].op = "reset" => WasReset(tokens[h].user)'
  <2> SUFFICES ASSUME l = "mark", ask[c].op = "reset" PROVE WasReset(tokens[h].user)'
    OBVIOUS
  <2>1. h \in TokenIds /\ tokens[h] # None /\ WasReset(tokens[h].user)
    BY DEF IsAware
  <2>2. PICK e \in Emails : e = tokens[h].user /\ users[e] # None
    BY <2>1, TokenType DEF CredInv, UsersOfTokens
  <2>3. e = tokens'[h].user
    BY <2>1, <2>2 DEF UsersGrow
  <2>4. WasReset(e)'
    BY <2>1, <2>2 DEF ResetsLast
  <2> QED BY <2>3, <2>4 DEF WasReset, SetBy
<1> QED BY <1>1, <1>2, <1>3, <1>4, <1>5 DEF IsAware

(* What is left to show of a step that marks no token. *)
LEMMA CredKeeps ==
    ASSUME CredInv, CredTypeOK', ask' = ask, UsersGrow, ResetsLast, HandlersAreAware',
           TokensMadeOnce',
           \A t \in TokenIds : tokens[t] # None => tokens'[t].used = tokens[t].used,
           \A t \in TokenIds : tokens'[t] # None =>
              tokens[t] # None \/ (~tokens'[t].used /\ users'[tokens'[t].user] # None),
           \A op \in Kinds, t \in TokenIds, d \in Calls : Succeeded(d, op, t)' <=> Succeeded(d, op, t)
    PROVE  CredInv'
<1>1. \A t \in TokenIds : tokens[t] # None =>
         users[tokens[t].user] # None /\ tokens[t].user \in Emails /\ tokens[t].kind \in Kinds
  BY TokenType DEF CredInv, UsersOfTokens
<1>2. UsersOfTokens'
  BY <1>1 DEF UsersOfTokens, UsersGrow
<1>3. MarkedIsDone'
  <2> SUFFICES ASSUME NEW t \in TokenIds, tokens'[t] # None, tokens'[t].used PROVE TokenIsDone(t)'
    BY DEF MarkedIsDone
  <2>1. tokens[t] # None /\ tokens[t].used /\ TokenIsDone(t)
    BY DEF CredInv, MarkedIsDone
  <2>2. tokens'[t].kind = tokens[t].kind /\ tokens'[t].user = tokens[t].user
    BY <2>1 DEF UsersGrow
  <2>3. CASE tokens[t].kind = "verify"
    BY <1>1, <2>1, <2>2, <2>3 DEF TokenIsDone, UsersGrow
  <2>4. CASE tokens[t].kind # "verify"
    <3>1. PICK e \in Emails : e = tokens[t].user /\ users[e] # None
      BY <1>1, <2>1
    <3>2. WasReset(e)'
      BY <2>1, <2>4, <3>1 DEF TokenIsDone, ResetsLast
    <3> QED BY <2>2, <2>4, <3>1, <3>2 DEF TokenIsDone, WasReset, SetBy
  <2> QED BY <2>3, <2>4
<1>4. SuccessIsMarked'
  <2> SUFFICES ASSUME NEW op \in Kinds, NEW t \in TokenIds, NEW c \in Calls, Succeeded(c, op, t)'
               PROVE  /\ tokens'[t] # None /\ tokens'[t].used
                      /\ \A d \in Calls : Succeeded(d, op, t)' => d = c
    BY DEF SuccessIsMarked
  <2>1. /\ tokens[t] # None /\ tokens[t].used
        /\ \A d \in Calls : Succeeded(d, op, t) => d = c
    BY DEF CredInv, SuccessIsMarked
  <2>2. tokens'[t] # None
    BY <2>1 DEF UsersGrow
  <2>3. tokens'[t].used
    BY <2>1
  <2> QED BY <2>1, <2>2, <2>3
<1> QED BY <1>2, <1>3, <1>4 DEF CredInv

(* A handler that moves on, without marking a token. *)
LEMMA CredMoves ==
    ASSUME CredInv, NEW c \in Calls, NEW l \in CredLabels, NEW h \in TokenIds \cup {None},
           NEW r \in {"none", "ok", "refused"}, at[c] # "done",
           ask' = ask, at' = [at EXCEPT ![c] = l], held' = [held EXCEPT ![c] = h],
           reply' = [reply EXCEPT ![c] = r],
           l # "done" => r = "none",
           r = "ok" => ask[c].op \notin Kinds,
           users' \in [Emails -> UserRows \cup {None}],
           tokens' \in [TokenIds -> TokenRows \cup {None}],
           links' \in [Identities -> Emails \cup {None}],
           mailed' \in SUBSET TokenIds,
           shown' \in [Kinds -> [Emails -> TokenIds \cup {None}]],
           UsersGrow, IsAware(c, l, h)',
           at[c] = "mark" => l = "done" /\ h = held[c],
           \A e \in Emails : users[e] # None =>
              users'[e].password = users[e].password \/ SetBy(c, e)',
           \A t \in TokenIds : tokens[t] # None => tokens'[t].used = tokens[t].used,
           \A t \in TokenIds : tokens'[t] # None =>
              tokens[t] # None \/ (~tokens'[t].used /\ users'[tokens'[t].user] # None),
           \A d \in Calls \ {c}, n \in {1, 2} : tokens'[<<d, n>>] # None => tokens[<<d, n>>] # None,
           tokens'[<<c, 1>>] # None => l \notin {"start", "insert", "token"},
           tokens'[<<c, 2>>] # None => l \notin {"start", "insert", "token", "publish", "second"}
    PROVE  CredInv'
<1>0. /\ at \in [Calls -> CredLabels] /\ held \in [Calls -> TokenIds \cup {None}]
      /\ reply \in [Calls -> {"none", "ok", "refused"}] /\ reply[c] = "none"
  BY DEF CredInv, CredTypeOK, TokensMadeOnce
<1>1. CredTypeOK'
  BY <1>0 DEF CredInv, CredTypeOK
<1>r. ResetsLast
  <2>1. \A w \in Calls : at[w] \in {"mark", "done"} =>
           at'[w] \in {"mark", "done"} /\ held'[w] = held[w]
    BY <1>0
  <2>2. \A e \in Emails : users[e] # None =>
           users'[e].password = users[e].password \/ WasReset(e)'
    BY DEF WasReset
  <2> QED BY <2>1, <2>2, ResetsStay
<1>2. HandlersAreAware'
  <2> SUFFICES ASSUME NEW d \in Calls PROVE IsAware(d, at[d], held[d])'
    BY DEF HandlersAreAware
  <2>1. CASE d = c
    <3>1. at'[d] = l /\ held'[d] = h
      BY <1>0, <2>1
    <3> QED BY <2>1, <3>1 DEF IsAware
  <2>2. CASE d # c
    <3>1. PICK m, g : m = at[d] /\ g = held[d] /\ m = at'[d] /\ g = held'[d]
      BY <1>0, <2>2
    <3>2. IsAware(d, m, g)
      BY <3>1 DEF CredInv, HandlersAreAware
    <3>3. IsAware(d, m, g)'
      BY <1>r, <3>2, AwarenessLasts
    <3> QED BY <3>1, <3>3 DEF IsAware
  <2> QED BY <2>1, <2>2
<1>3. TokensMadeOnce'
  <2> SUFFICES ASSUME NEW d \in Calls
               PROVE  /\ tokens'[<<d, 1>>] # None => at'[d] \notin {"start", "insert", "token"}
                      /\ tokens'[<<d, 2>>] # None =>
                           at'[d] \notin {"start", "insert", "token", "publish", "second"}
                      /\ at'[d] # "done" => reply'[d] = "none"
    BY DEF TokensMadeOnce
  <2>1. CASE d = c
    BY <1>0, <2>1
  <2>2. CASE d # c
    <3>1. at'[d] = at[d] /\ reply'[d] = reply[d]
      BY <1>0, <2>2
    <3>2. tokens'[<<d, 1>>] # None => tokens[<<d, 1>>] # None
      BY <2>2
    <3>3. tokens'[<<d, 2>>] # None => tokens[<<d, 2>>] # None
      BY <2>2
    <3> QED BY <3>1, <3>2, <3>3 DEF CredInv, TokensMadeOnce
  <2> QED BY <2>1, <2>2
<1>4. ASSUME NEW op \in Kinds, NEW t \in TokenIds, NEW d \in Calls
      PROVE  Succeeded(d, op, t)' <=> Succeeded(d, op, t)
  BY <1>0 DEF Succeeded
<1> QED BY <1>1, <1>r, <1>2, <1>3, <1>4, CredKeeps

(* It touches no user and no token, and moves forward. *)
LEMMA CredAside ==
    ASSUME CredInv, NEW c \in Calls, NEW l \in CredLabels, NEW h \in TokenIds \cup {None},
           NEW r \in {"none", "ok", "refused"}, at[c] # "done",
           ask' = ask, at' = [at EXCEPT ![c] = l], held' = [held EXCEPT ![c] = h],
           reply' = [reply EXCEPT ![c] = r],
           l # "done" => r = "none",
           r = "ok" => ask[c].op \notin Kinds,
           UNCHANGED <<users, tokens>>,
           links' \in [Identities -> Emails \cup {None}],
           mailed' \in SUBSET TokenIds,
           shown' \in [Kinds -> [Emails -> TokenIds \cup {None}]],
           IsAware(c, l, h),
           l # "start", l # "mark",
           at[c] = "mark" => l = "done" /\ h = held[c],
           l \in {"insert", "token"} => at[c] = "start",
           l \in {"publish", "second"} => at[c] \in {"token", "publish"}
    PROVE  CredInv'
<1>1. /\ UsersGrow
      /\ \A t \in TokenIds : tokens[t] # None => tokens'[t].used = tokens[t].used
      /\ users' \in [Emails -> UserRows \cup {None}]
      /\ tokens' \in [TokenIds -> TokenRows \cup {None}]
  BY DEF UsersGrow, CredInv, CredTypeOK
<1>2. IsAware(c, l, h)'
  BY <1>1 DEF IsAware
<1>r. \A e \in Emails : users[e] # None => users'[e].password = users[e].password \/ SetBy(c, e)'
  OBVIOUS
<1>3. /\ tokens'[<<c, 1>>] # None => l \notin {"start", "insert", "token"}
      /\ tokens'[<<c, 2>>] # None => l \notin {"start", "insert", "token", "publish", "second"}
  BY DEF CredInv, TokensMadeOnce
<1> QED BY <1>1, <1>2, <1>r, <1>3, CredMoves

(* An answer that is no success of a token. *)
LEMMA CredAnswers ==
    ASSUME CredInv, NEW c \in Calls, NEW r \in {"ok", "refused"}, at[c] # "done",
           Answer(c, r), UNCHANGED held, UNCHANGED <<users, tokens>>,
           r = "ok" => ask[c].op \notin Kinds,
           links' \in [Identities -> Emails \cup {None}],
           mailed' \in SUBSET TokenIds,
           shown' \in [Kinds -> [Emails -> TokenIds \cup {None}]]
    PROVE  CredInv'
<1>1. /\ held' = [held EXCEPT ![c] = held[c]] /\ held[c] \in TokenIds \cup {None}
      /\ at' = [at EXCEPT ![c] = "done"] /\ reply' = [reply EXCEPT ![c] = r] /\ ask' = ask
  BY DEF Answer, CredInv, CredTypeOK
<1>2. IsAware(c, "done", held[c]) /\ "done" \in CredLabels
  BY DEF IsAware, CredLabels
<1> QED BY <1>1, <1>2, CredAside

(* A handler that only goes to another label. *)
LEMMA CredGoesOn ==
    ASSUME CredInv, NEW c \in Calls, NEW l \in CredLabels \ {"done", "start", "mark"},
           at[c] \notin {"mark", "done"}, Goto(c, l), UNCHANGED held, UNCHANGED <<users, tokens, links, shown>>,
           mailed' \in SUBSET TokenIds,
           IsAware(c, l, held[c]),
           l \in {"insert", "token"} => at[c] = "start",
           l \in {"publish", "second"} => at[c] \in {"token", "publish"}
    PROVE  CredInv'
<1>1. /\ held' = [held EXCEPT ![c] = held[c]] /\ held[c] \in TokenIds \cup {None}
      /\ at' = [at EXCEPT ![c] = l] /\ reply' = reply /\ ask' = ask
      /\ reply[c] = "none" /\ reply' = [reply EXCEPT ![c] = "none"]
  BY DEF Goto, CredInv, CredTypeOK, TokensMadeOnce
<1>2. /\ links' \in [Identities -> Emails \cup {None}]
      /\ shown' \in [Kinds -> [Emails -> TokenIds \cup {None}]]
  BY DEF CredInv, CredTypeOK
<1> QED BY <1>1, <1>2, CredAside

(* A token is made for a user who exists, and the handler goes on to l. *)
LEMMA TokenIsMade ==
    ASSUME CredInv, NEW c \in Calls, NEW n \in {1, 2}, NEW kind \in Kinds,
           NEW l \in {"publish", "second", "link", "remember", "done"},
           NEW h \in TokenIds \cup {None}, NEW r \in {"none", "ok", "refused"},
           ask[c].op \in Mailing,
           (at[c] = "token" /\ n = 1) \/ (at[c] = "second" /\ n = 2 /\ l \in {"remember", "done"}),
           InsertToken(<<c, n>>, kind, ask[c].email),
           ask' = ask, at' = [at EXCEPT ![c] = l], held' = [held EXCEPT ![c] = h],
           reply' = [reply EXCEPT ![c] = r], l # "done" => r = "none",
           l \in {"publish", "remember"} => h \in TokenIds,
           UNCHANGED <<users, links, mailed, shown>>
    PROVE  CredInv'
<1>1. at[c] \notin {"mark", "done"} /\ l \in CredLabels /\ ask[c].op \notin Kinds
  BY DEF CredLabels, Mailing, Kinds
<1>2. PICK t \in TokenIds : t = <<c, n>>
  BY DEF TokenIds
<1>3. tokens[t] = None
  BY <1>2 DEF CredInv, TokensMadeOnce
<1>4. users[ask[c].email] # None /\ ask[c].email \in Emails
  BY CredAsked DEF CredInv, HandlersAreAware, IsAware
<1>5. PICK row \in TokenRows :
         /\ row = [kind |-> kind, user |-> ask[c].email, used |-> FALSE, expired |-> FALSE]
         /\ ~row.used /\ row.user = ask[c].email
  <2>1. [kind |-> kind, user |-> ask[c].email, used |-> FALSE, expired |-> FALSE] \in TokenRows
    BY <1>4 DEF TokenRows
  <2> QED BY <2>1
<1>6. tokens' = [tokens EXCEPT ![t] = row] /\ tokens \in [TokenIds -> TokenRows \cup {None}]
  BY <1>2, <1>5 DEF InsertToken, CredInv, CredTypeOK
<1>7. /\ tokens' \in [TokenIds -> TokenRows \cup {None}] /\ tokens'[t] = row
      /\ \A u \in TokenIds : u # t => tokens'[u] = tokens[u]
  BY <1>6
<1>8. UsersGrow
  BY <1>3, <1>7 DEF UsersGrow
<1>9. \A u \in TokenIds : tokens[u] # None => tokens'[u].used = tokens[u].used
  BY <1>3, <1>7
<1>10. \A u \in TokenIds : tokens'[u] # None =>
         tokens[u] # None \/ (~tokens'[u].used /\ users'[tokens'[u].user] # None)
  BY <1>4, <1>5, <1>7
<1>11. \A d \in Calls \ {c}, m \in {1, 2} : tokens'[<<d, m>>] # None => tokens[<<d, m>>] # None
  <2> SUFFICES ASSUME NEW d \in Calls \ {c}, NEW m \in {1, 2}
               PROVE  tokens'[<<d, m>>] = tokens[<<d, m>>]
    OBVIOUS
  <2>1. <<d, m>> \in TokenIds /\ <<d, m>> # t
    BY <1>2 DEF TokenIds
  <2> QED BY <1>7, <2>1
<1>12. tokens'[<<c, 2>>] # None => l \notin {"start", "insert", "token", "publish", "second"}
  <2>1. CASE n = 1
    <3>1. <<c, 2>> \in TokenIds /\ <<c, 2>> # t
      BY <1>2, <2>1 DEF TokenIds
    <3>2. tokens[<<c, 2>>] = None
      BY <2>1 DEF CredInv, TokensMadeOnce
    <3> QED BY <1>7, <3>1, <3>2
  <2>2. CASE n = 2
    BY <2>2
  <2> QED BY <2>1, <2>2
<1>13. IsAware(c, l, h)'
  BY <1>1, <1>4 DEF IsAware
<1>14. /\ users' \in [Emails -> UserRows \cup {None}] /\ links' \in [Identities -> Emails \cup {None}]
       /\ mailed' \in SUBSET TokenIds /\ shown' \in [Kinds -> [Emails -> TokenIds \cup {None}]]
  BY DEF CredInv, CredTypeOK
<1>15. tokens'[<<c, 1>>] # None => l \notin {"start", "insert", "token"}
  OBVIOUS
<1>16. \A e \in Emails : users[e] # None => users'[e].password = users[e].password \/ SetBy(c, e)'
  OBVIOUS
<1>17. at[c] = "mark" => l = "done" /\ h = held[c]
  BY <1>1
<1> QED BY <1>1, <1>7, <1>8, <1>9, <1>10, <1>11, <1>12, <1>13, <1>14, <1>15, <1>16, <1>17, CredMoves

(* Whether the handler is told or not that its token has been made. *)
LEMMA InsertKeeps ==
    ASSUME CredInv, NEW c \in Calls, NEW n \in {1, 2}, NEW kind \in Kinds, ask[c].op \in Mailing,
           (at[c] = "token" /\ n = 1) \/ (at[c] = "second" /\ n = 2),
           InsertToken(<<c, n>>, kind, ask[c].email),
           \/ /\ Goto(c, "remember") \/ (n = 1 /\ Goto(c, "publish"))
              /\ Hold(c, <<c, n>>)
           \/ n = 1 /\ (Goto(c, "second") \/ Goto(c, "link")) /\ UNCHANGED held
           \/ Ok(c) \/ Refuse(c),
           UNCHANGED <<users, links, mailed, shown>>
    PROVE  CredInv'
<1>0. /\ reply[c] = "none" /\ reply = [reply EXCEPT ![c] = "none"]
      /\ held[c] \in TokenIds \cup {None} /\ held = [held EXCEPT ![c] = held[c]]
  BY DEF CredInv, CredTypeOK, TokensMadeOnce
<1>1. CASE /\ Goto(c, "remember") \/ (n = 1 /\ Goto(c, "publish"))
           /\ Hold(c, <<c, n>>)
  <2>1. PICK l \in {"remember", "publish"}, h \in TokenIds :
           /\ Goto(c, l) /\ h = <<c, n>> /\ (n = 2 => l = "remember")
    BY <1>1 DEF TokenIds
  <2>2. /\ ask' = ask /\ at' = [at EXCEPT ![c] = l] /\ held' = [held EXCEPT ![c] = h]
        /\ reply' = [reply EXCEPT ![c] = "none"]
    BY <1>0, <1>1, <2>1 DEF Goto, Hold
  <2>3. (at[c] = "token" /\ n = 1) \/ (at[c] = "second" /\ n = 2 /\ l \in {"remember", "done"})
    BY <2>1
  <2>4. /\ l \in {"publish", "second", "link", "remember", "done"} /\ h \in TokenIds \cup {None}
        /\ l # "done" /\ "none" \in {"none", "ok", "refused"}
    BY <2>1
  <2> QED BY <2>1, <2>2, <2>3, <2>4, TokenIsMade
<1>2. CASE n = 1 /\ (Goto(c, "second") \/ Goto(c, "link")) /\ UNCHANGED held
  <2>1. PICK l \in {"second", "link"}, h \in TokenIds \cup {None} : Goto(c, l) /\ h = held[c]
    BY <1>0, <1>2
  <2>2. /\ ask' = ask /\ at' = [at EXCEPT ![c] = l] /\ held' = [held EXCEPT ![c] = h]
        /\ reply' = [reply EXCEPT ![c] = "none"]
    BY <1>0, <1>2, <2>1 DEF Goto
  <2>3. (at[c] = "token" /\ n = 1) \/ (at[c] = "second" /\ n = 2 /\ l \in {"remember", "done"})
    BY <1>2
  <2>4. /\ l \in {"publish", "second", "link", "remember", "done"} /\ l # "done"
        /\ l \notin {"publish", "remember"} /\ "none" \in {"none", "ok", "refused"}
    BY <2>1
  <2> HIDE <1>2
  <2> QED BY <2>1, <2>2, <2>3, <2>4, TokenIsMade
<1>3. CASE Ok(c) \/ Refuse(c)
  <2>1. PICK r \in {"ok", "refused"}, h \in TokenIds \cup {None} :
           Answer(c, r) /\ UNCHANGED held /\ h = held[c]
    BY <1>0, <1>3 DEF Ok, Refuse
  <2>2. /\ ask' = ask /\ at' = [at EXCEPT ![c] = "done"] /\ held' = [held EXCEPT ![c] = h]
        /\ reply' = [reply EXCEPT ![c] = r]
    BY <1>0, <2>1 DEF Answer
  <2> QED BY <2>1, <2>2, TokenIsMade
<1> QED BY <1>1, <1>2, <1>3

LEMMA InsertFirstKeeps ==
    ASSUME CredInv, NEW c \in Calls, NEW kind \in Kinds, ask[c].op \in Mailing, at[c] = "token",
           InsertToken(<<c, 1>>, kind, ask[c].email),
           \/ (Goto(c, "remember") \/ Goto(c, "publish")) /\ Hold(c, <<c, 1>>)
           \/ (Goto(c, "second") \/ Goto(c, "link")) /\ UNCHANGED held
           \/ Refuse(c),
           UNCHANGED <<users, links, mailed, shown>>
    PROVE  CredInv'
<1>1. PICK n \in {1, 2} : n = 1
  OBVIOUS
<1>2. /\ InsertToken(<<c, n>>, kind, ask[c].email)
      /\ \/ /\ Goto(c, "remember") \/ (n = 1 /\ Goto(c, "publish"))
            /\ Hold(c, <<c, n>>)
         \/ n = 1 /\ (Goto(c, "second") \/ Goto(c, "link")) /\ UNCHANGED held
         \/ Ok(c) \/ Refuse(c)
  BY <1>1
<1>3. (at[c] = "token" /\ n = 1) \/ (at[c] = "second" /\ n = 2)
  BY <1>1
<1> HIDE <1>1
<1> QED BY <1>2, <1>3, InsertKeeps

(* The row of a user is made where there is none. *)
LEMMA CreateUserKeeps ==
    ASSUME CredInv, NEW c \in Calls, ask[c].op \in {"register", "sso"},
           NEW p \in Passwords, NEW next \in {"second", "link"}, CreateUser(c, p, next),
           UNCHANGED <<links, shown>>
    PROVE  CredInv'
<1>0. /\ ask[c].op \in Mailing /\ ask[c].email \in Emails /\ ask[c].op \notin Kinds
      /\ links \in [Identities -> Emails \cup {None}] /\ mailed \in SUBSET TokenIds
      /\ shown \in [Kinds -> [Emails -> TokenIds \cup {None}]]
      /\ users \in [Emails -> UserRows \cup {None}]
  BY CredAsked DEF Mailing, Kinds, CredInv, CredTypeOK
<1>1. CASE at[c] # "done" /\ Refuse(c) /\ UNCHANGED <<users, tokens, mailed>>
  BY <1>0, <1>1, CredAnswers DEF Refuse
<1>2. CASE /\ at[c] = "insert" /\ users[ask[c].email] = None
           /\ CreateUserRow(ask[c].email, p) /\ UNCHANGED <<tokens, mailed>>
           /\ (Goto(c, "token") /\ UNCHANGED held) \/ Refuse(c)
  <2>1. [password |-> p, verified |-> FALSE] \in UserRows
    BY DEF UserRows
  <2>2. PICK row \in UserRows : row = [password |-> p, verified |-> FALSE]
    BY <2>1
  <2>3. users' = [users EXCEPT ![ask[c].email] = row] /\ row # None
    BY <1>2, <2>2, CredAssumption DEF CreateUserRow
  <2>4. /\ users' \in [Emails -> UserRows \cup {None}] /\ users'[ask[c].email] # None
        /\ \A e \in Emails : users[e] # None => users'[e] = users[e]
        /\ \A e \in Emails : users[e] # None => users'[e] # None
    BY <1>0, <1>2, <2>3
  <2>5. UsersGrow
    BY <1>2, <2>4 DEF UsersGrow
  <2>6. /\ reply[c] = "none" /\ reply = [reply EXCEPT ![c] = "none"]
        /\ held[c] \in TokenIds \cup {None} /\ held = [held EXCEPT ![c] = held[c]]
        /\ tokens' \in [TokenIds -> TokenRows \cup {None}]
    BY <1>2 DEF CredInv, CredTypeOK, TokensMadeOnce
  <2>7. PICK l \in {"token", "done"}, r \in {"none", "refused"} :
           /\ at' = [at EXCEPT ![c] = l] /\ reply' = [reply EXCEPT ![c] = r] /\ ask' = ask
           /\ l # "done" => r = "none"
    BY <1>2, <2>6 DEF Goto, Refuse, Answer
  <2>8. PICK h \in TokenIds \cup {None} : held' = [held EXCEPT ![c] = h]
    BY <1>2, <2>6 DEF Refuse
  <2>9. IsAware(c, l, h)'
    BY <1>0, <2>4, <2>7 DEF IsAware
  <2>10. tokens'[<<c, 1>>] = None /\ tokens'[<<c, 2>>] = None
    BY <1>2 DEF CredInv, TokensMadeOnce
  <2>11. \A t \in TokenIds : tokens[t] # None => tokens'[t].used = tokens[t].used
    BY <1>2
  <2>12. \A e \in Emails : users[e] # None => users'[e].password = users[e].password \/ SetBy(c, e)'
    BY <2>4
  <2>13. l \in CredLabels /\ at[c] \notin {"mark", "done"}
    BY <1>2 DEF CredLabels
  <2> QED BY <1>0, <1>2, <2>4, <2>5, <2>6, <2>7, <2>8, <2>9, <2>10, <2>11, <2>12, <2>13, CredMoves
<1>3. CASE /\ at[c] = "token" /\ InsertToken(<<c, 1>>, "verify", ask[c].email)
           /\ \/ Goto(c, "publish") /\ Hold(c, <<c, 1>>)
              \/ Goto(c, next) /\ UNCHANGED held
           /\ UNCHANGED <<users, mailed>>
  BY <1>0, <1>3, InsertFirstKeeps DEF Kinds
<1>4. CASE at[c] \in {"token", "publish"} /\ Goto(c, next) /\ UNCHANGED <<tokens, held, users>>
           /\ mailed' \in SUBSET TokenIds
  <2>1. IsAware(c, at[c], held[c])
    BY DEF CredInv, HandlersAreAware
  <2>2. IsAware(c, next, held[c])
    BY <1>0, <1>4, <2>1 DEF IsAware
  <2> QED BY <1>4, <2>2, CredGoesOn DEF CredLabels
<1>5. CASE at[c] = "publish" /\ PublishEvent(held[c]) /\ Goto(c, next) /\ UNCHANGED <<users, tokens, held>>
  <2>1. held[c] \in TokenIds
    BY <1>5 DEF CredInv, HandlersAreAware, IsAware
  <2>2. mailed' \in SUBSET TokenIds
    BY <1>0, <1>5, <2>1 DEF PublishEvent
  <2> QED BY <1>4, <1>5, <2>2
<1> QED BY <1>0, <1>1, <1>2, <1>3, <1>4, <1>5 DEF CreateUser, GetUserByEmail, Unanswered,
          CreateEmailVerificationToken

(* The last step of a handler that has made a token. *)
LEMMA RememberKeeps ==
    ASSUME CredInv, NEW c \in Calls, NEW k \in Kinds, at[c] = "remember", ask[c].op \in Mailing,
           Remember(k, ask[c].email, held[c]), Ok(c), UNCHANGED <<users, tokens, links, mailed>>
    PROVE  CredInv'
<1>1. /\ ask[c].op \notin Kinds /\ ask[c].email \in Emails /\ held[c] \in TokenIds
      /\ links' \in [Identities -> Emails \cup {None}] /\ mailed' \in SUBSET TokenIds
      /\ shown \in [Kinds -> [Emails -> TokenIds \cup {None}]]
  BY CredAsked DEF CredInv, CredTypeOK, HandlersAreAware, IsAware, Mailing, Kinds
<1>2. shown' \in [Kinds -> [Emails -> TokenIds \cup {None}]]
  BY <1>1 DEF Remember
<1> QED BY <1>1, <1>2, CredAnswers DEF Ok

(* An address is looked up: with a user behind it, a token is made next. *)
LEMMA LooksUp ==
    ASSUME CredInv, NEW c \in Calls, ask[c].op \in {"forgot", "resend"}, at[c] = "start",
           UNCHANGED credVars,
           \/ GetUserByEmail(ask[c].email) # None /\ Goto(c, "token") /\ UNCHANGED held
           \/ Ok(c)
    PROVE  CredInv'
<1>0. /\ ask[c].op \in Mailing /\ ask[c].op \notin Kinds /\ UNCHANGED <<users, tokens, links, mailed, shown>>
      /\ links' \in [Identities -> Emails \cup {None}] /\ mailed' \in SUBSET TokenIds
      /\ shown' \in [Kinds -> [Emails -> TokenIds \cup {None}]]
  BY DEF Mailing, Kinds, credVars, CredInv, CredTypeOK
<1>1. CASE Ok(c)
  BY <1>0, <1>1, CredAnswers DEF Ok
<1>2. CASE GetUserByEmail(ask[c].email) # None /\ Goto(c, "token") /\ UNCHANGED held
  <2>1. IsAware(c, "token", held[c])
    BY <1>0, <1>2 DEF IsAware, GetUserByEmail
  <2> QED BY <1>0, <1>2, <2>1, CredGoesOn DEF CredLabels
<1> QED BY <1>1, <1>2

LEMMA RegistrationKeeps ==
    ASSUME CredInv, NEW c \in Calls, Register(c)
    PROVE  CredInv'
<1>0. /\ ask[c].op = "register" /\ ask[c].op \in Mailing /\ ask[c].op \notin Kinds
      /\ ask[c].password \in Passwords
      /\ links \in [Identities -> Emails \cup {None}] /\ mailed \in SUBSET TokenIds
      /\ shown \in [Kinds -> [Emails -> TokenIds \cup {None}]]
  BY CredAsked DEF Register, Begins, Serving, Mailing, Kinds, CredInv, CredTypeOK
<1>1. CASE Begins(c, "register") /\ Goto(c, "insert") /\ UNCHANGED <<held, credVars>>
  <2>1. IsAware(c, "insert", held[c])
    BY <1>0 DEF IsAware
  <2> QED BY <1>0, <1>1, <2>1, CredGoesOn DEF CredLabels, Begins, Serving, credVars
<1>2. CASE CreateUser(c, ask[c].password, "second") /\ UNCHANGED <<links, shown>>
  BY <1>0, <1>2, CreateUserKeeps
<1>3. CASE /\ Serving(c, "register", "second") /\ UNCHANGED <<users, links, mailed, shown>>
           /\ InsertToken(<<c, 2>>, "verify", ask[c].email)
           /\ (Hold(c, <<c, 2>>) /\ Goto(c, "remember")) \/ Ok(c)
  BY <1>0, <1>3, InsertKeeps DEF Serving, Kinds
<1>4. CASE Serving(c, "register", "second") /\ Ok(c) /\ UNCHANGED <<users, tokens, links, mailed, shown>>
  BY <1>0, <1>4, CredAnswers DEF Ok, Serving
<1>5. CASE /\ Serving(c, "register", "remember") /\ Remember("verify", ask[c].email, held[c])
           /\ Ok(c) /\ UNCHANGED <<users, tokens, links, mailed>>
  BY <1>0, <1>5, RememberKeeps DEF Serving, Kinds
<1> QED BY <1>1, <1>2, <1>3, <1>4, <1>5 DEF Register, Unanswered, CreateEmailVerificationToken

LEMMA SSOKeeps ==
    ASSUME CredInv, NEW c \in Calls, SSOCallback(c)
    PROVE  CredInv'
<1>0. /\ ask[c].op = "sso" /\ ask[c].op \in Mailing /\ ask[c].op \notin Kinds
      /\ ask[c].email \in Emails /\ ask[c].identity \in Identities
      /\ "SSO_MANAGED" \in Passwords
      /\ links \in [Identities -> Emails \cup {None}] /\ mailed \in SUBSET TokenIds
      /\ shown \in [Kinds -> [Emails -> TokenIds \cup {None}]]
  BY CredAsked DEF SSOCallback, Begins, Serving, Mailing, Kinds, CredInv, CredTypeOK, Passwords
<1>1. CASE Begins(c, "sso") /\ (Ok(c) \/ Refuse(c)) /\ UNCHANGED credVars
  BY <1>0, <1>1, CredAnswers DEF Ok, Refuse, credVars, Begins, Serving
<1>2. CASE Begins(c, "sso") /\ Goto(c, "insert") /\ UNCHANGED held /\ UNCHANGED credVars
  <2>1. IsAware(c, "insert", held[c])
    BY <1>0 DEF IsAware
  <2> QED BY <1>0, <1>2, <2>1, CredGoesOn DEF CredLabels, Begins, Serving, credVars
<1>3. CASE CreateUser(c, "SSO_MANAGED", "link") /\ UNCHANGED <<links, shown>>
  BY <1>0, <1>3, CreateUserKeeps
<1>4. CASE /\ Serving(c, "sso", "link") /\ Ok(c) /\ UNCHANGED <<users, tokens, mailed, shown>>
           /\ LinkExternalIdentity(ask[c].identity, ask[c].email) \/ UNCHANGED links
  <2>1. links' \in [Identities -> Emails \cup {None}]
    BY <1>0, <1>4 DEF LinkExternalIdentity
  <2> QED BY <1>0, <1>4, <2>1, CredAnswers DEF Ok, Serving
<1> QED BY <1>1, <1>2, <1>3, <1>4 DEF SSOCallback

LEMMA ForgotKeeps ==
    ASSUME CredInv, NEW c \in Calls, ForgotPassword(c)
    PROVE  CredInv'
<1>0. /\ ask[c].op = "forgot" /\ ask[c].op \in Mailing /\ ask[c].op \notin Kinds
      /\ links \in [Identities -> Emails \cup {None}] /\ mailed \in SUBSET TokenIds
      /\ shown \in [Kinds -> [Emails -> TokenIds \cup {None}]]
  BY DEF ForgotPassword, Begins, Serving, Mailing, Kinds, CredInv, CredTypeOK
<1>1. CASE Begins(c, "forgot")
  BY <1>0, <1>1, LooksUp DEF ForgotPassword, CreatePasswordResetToken, Begins, Serving
<1>2. CASE CreatePasswordResetToken(c) /\ UNCHANGED <<users, links, shown>>
  <2>1. CASE at[c] = "token" /\ Refuse(c) /\ UNCHANGED <<tokens, mailed>>
    BY <1>0, <1>2, <2>1, CredAnswers DEF Refuse
  <2>2. CASE /\ at[c] = "token" /\ InsertToken(<<c, 1>>, "reset", ask[c].email)
             /\ (Hold(c, <<c, 1>>) /\ Goto(c, "publish")) \/ Refuse(c)
             /\ UNCHANGED mailed
    BY <1>0, <1>2, <2>2, InsertFirstKeeps DEF Kinds
  <2>3. CASE at[c] = "publish" /\ PublishEvent(held[c]) /\ Goto(c, "remember") /\ UNCHANGED <<tokens, held>>
    <3>1. IsAware(c, "publish", held[c])
      BY <2>3 DEF CredInv, HandlersAreAware
    <3>2. IsAware(c, "remember", held[c]) /\ held[c] \in TokenIds
      BY <1>0, <3>1 DEF IsAware
    <3>3. mailed' \in SUBSET TokenIds
      BY <1>0, <2>3, <3>2 DEF PublishEvent
    <3> QED BY <1>2, <2>3, <3>2, <3>3, CredGoesOn DEF CredLabels
  <2> QED BY <1>2, <2>1, <2>2, <2>3 DEF CreatePasswordResetToken, Unanswered
<1>3. CASE Serving(c, "forgot", "remember") /\ Remember("reset", ask[c].email, held[c])
           /\ Ok(c) /\ UNCHANGED <<users, tokens, links, mailed>>
  BY <1>0, <1>3, RememberKeeps DEF Serving, Kinds
<1> QED BY <1>1, <1>2, <1>3 DEF ForgotPassword

LEMMA ResendKeeps ==
    ASSUME CredInv, NEW c \in Calls, ResendVerification(c)
    PROVE  CredInv'
<1>0. /\ ask[c].op = "resend" /\ ask[c].op \in Mailing /\ ask[c].op \notin Kinds
      /\ links \in [Identities -> Emails \cup {None}] /\ mailed \in SUBSET TokenIds
      /\ shown \in [Kinds -> [Emails -> TokenIds \cup {None}]]
  BY DEF ResendVerification, Begins, Serving, Mailing, Kinds, CredInv, CredTypeOK
<1>1. CASE Begins(c, "resend")
  BY <1>0, <1>1, LooksUp DEF ResendVerification, Begins, Serving
<1>2. CASE /\ Serving(c, "resend", "token") /\ UNCHANGED <<users, links, mailed, shown>>
           /\ InsertToken(<<c, 1>>, "verify", ask[c].email)
           /\ (Hold(c, <<c, 1>>) /\ Goto(c, "remember")) \/ Refuse(c)
  BY <1>0, <1>2, InsertFirstKeeps DEF Serving, Kinds
<1>3. CASE Serving(c, "resend", "token") /\ Refuse(c) /\ UNCHANGED <<users, tokens, links, mailed, shown>>
  BY <1>0, <1>3, CredAnswers DEF Refuse, Serving
<1>4. CASE Serving(c, "resend", "remember") /\ Remember("verify", ask[c].email, held[c])
           /\ Ok(c) /\ UNCHANGED <<users, tokens, links, mailed>>
  BY <1>0, <1>4, RememberKeeps DEF Serving, Kinds
<1> QED BY <1>1, <1>2, <1>3, <1>4 DEF ResendVerification, Unanswered, CreateEmailVerificationToken

LEMMA DebugKeeps ==
    ASSUME CredInv, NEW c \in Calls, DebugGetTokens(c)
    PROVE  CredInv'
<1>0. /\ ask[c].op = "debug" /\ ask[c].op \notin Kinds /\ at[c] = "start"
      /\ ask[c].email \in Emails /\ UNCHANGED <<users, tokens, links, mailed, shown>>
      /\ links' \in [Identities -> Emails \cup {None}] /\ mailed' \in SUBSET TokenIds
      /\ shown' \in [Kinds -> [Emails -> TokenIds \cup {None}]]
  BY CredAsked DEF DebugGetTokens, Begins, Serving, Kinds, CredInv, CredTypeOK, credVars
<1>1. CASE Refuse(c)
  BY <1>0, <1>1, CredAnswers DEF Refuse
<1>2. ASSUME NEW k \in Kinds, Hold(c, shown[k][ask[c].email]), Answer(c, "ok") PROVE CredInv'
  <2>1. PICK h \in TokenIds \cup {None} : h = shown[k][ask[c].email]
    BY <1>0 DEF CredInv, CredTypeOK
  <2>2. /\ at' = [at EXCEPT ![c] = "done"] /\ held' = [held EXCEPT ![c] = h] /\ ask' = ask
        /\ reply' = [reply EXCEPT ![c] = "ok"] /\ "done" \in CredLabels
    BY <1>2, <2>1 DEF Answer, Hold, CredLabels
  <2>3. IsAware(c, "done", h)
    BY DEF IsAware
  <2> QED BY <1>0, <2>2, <2>3, CredAside
<1> QED BY <1>1, <1>2 DEF DebugGetTokens

(* What a token is for is done by a call that has checked it. *)
LEMMA ActKeeps ==
    ASSUME CredInv, NEW c \in Calls, at[c] = "act", ask[c].op \in Kinds,
           \/ ask[c].op = "reset" /\ UpdateUserPassword(tokens[held[c]].user, ask[c].password)
           \/ ask[c].op = "verify" /\ SetEmailVerified(tokens[held[c]].user),
           (Goto(c, "mark") /\ UNCHANGED held) \/ Refuse(c),
           UNCHANGED <<tokens, links, mailed, shown>>
    PROVE  CredInv'
<1>1. PICK h \in TokenIds :
         /\ h = held[c] /\ tokens[h] # None /\ tokens[h].kind = ask[c].op
  BY DEF CredInv, HandlersAreAware, IsAware
<1>2. PICK e \in Emails : e = tokens[h].user /\ users[e] # None
  BY <1>1, TokenType DEF CredInv, UsersOfTokens
<1>3. PICK old \in UserRows : old = users[e]
  BY <1>2 DEF CredInv, CredTypeOK
<1>4. /\ users \in [Emails -> UserRows \cup {None}] /\ ask[c].password \in Passwords
      /\ links' \in [Identities -> Emails \cup {None}] /\ mailed' \in SUBSET TokenIds
      /\ shown' \in [Kinds -> [Emails -> TokenIds \cup {None}]]
      /\ tokens' \in [TokenIds -> TokenRows \cup {None}]
  BY CredAsked DEF CredInv, CredTypeOK
<1>5. PICK row \in UserRows :
         /\ users' = [users EXCEPT ![e] = row]
         /\ old.verified => row.verified
         /\ ask[c].op = "verify" => row.verified /\ row.password = old.password
         /\ ask[c].op = "reset" => row.password = ask[c].password
  <2>1. CASE ask[c].op = "reset"
    <3>1. [old EXCEPT !.password = ask[c].password] \in UserRows
      BY <1>4 DEF UserRows
    <3>2. users' = [users EXCEPT ![e] = [old EXCEPT !.password = ask[c].password]]
      BY <1>1, <1>2, <1>3, <1>4, <2>1 DEF UpdateUserPassword
    <3>3. /\ [old EXCEPT !.password = ask[c].password].verified = old.verified
          /\ [old EXCEPT !.password = ask[c].password].password = ask[c].password
      BY DEF UserRows
    <3> QED BY <2>1, <3>1, <3>2, <3>3
  <2>2. CASE ask[c].op = "verify"
    <3>1. [old EXCEPT !.verified = TRUE] \in UserRows
      BY DEF UserRows
    <3>2. users' = [users EXCEPT ![e] = [old EXCEPT !.verified = TRUE]]
      BY <1>1, <1>2, <1>3, <1>4, <2>2 DEF SetEmailVerified
    <3>3. /\ [old EXCEPT !.verified = TRUE].verified
          /\ [old EXCEPT !.verified = TRUE].password = old.password
      BY DEF UserRows
    <3> QED BY <2>2, <3>1, <3>2, <3>3
  <2> QED BY <2>1, <2>2 DEF Kinds
<1>6. row # None
  BY CredAssumption
<1>7. /\ users' \in [Emails -> UserRows \cup {None}] /\ users'[e] = row
      /\ \A x \in Emails : x # e => users'[x] = users[x]
  BY <1>4, <1>5
<1>8. UsersGrow
  BY <1>3, <1>5, <1>6, <1>7 DEF UsersGrow
<1>9. /\ reply[c] = "none" /\ reply = [reply EXCEPT ![c] = "none"] /\ h \in TokenIds \cup {None}
      /\ held = [held EXCEPT ![c] = h] /\ held \in [Calls -> TokenIds \cup {None}]
      /\ at \in [Calls -> CredLabels]
  BY <1>1 DEF CredInv, CredTypeOK, TokensMadeOnce
<1>10. PICK l \in {"mark", "done"}, r \in {"none", "refused"} :
         /\ at' = [at EXCEPT ![c] = l] /\ reply' = [reply EXCEPT ![c] = r] /\ ask' = ask
         /\ l # "done" => r = "none"
  BY <1>9 DEF Goto, Refuse, Answer
<1>11. held' = [held EXCEPT ![c] = h] /\ held'[c] = h /\ at'[c] = l
  BY <1>9, <1>10 DEF Refuse
<1>12. ask[c].op = "reset" => SetBy(c, e)'
  BY <1>1, <1>2, <1>5, <1>7, <1>10, <1>11 DEF SetBy
<1>13. IsAware(c, l, h)'
  <2>1. ask[c].op = "reset" => WasReset(e)'
    BY <1>12 DEF WasReset
  <2>2. ask[c].op = "reset" => WasReset(tokens[h].user)'
    BY <1>2, <2>1 DEF WasReset, SetBy
  <2>3. ask[c].op = "verify" => users'[tokens[h].user].verified
    BY <1>2, <1>5, <1>7
  <2> QED BY <1>1, <1>10, <2>2, <2>3 DEF IsAware, Mailing, Kinds
<1>14. \A t \in TokenIds : tokens[t] # None => tokens'[t].used = tokens[t].used
  OBVIOUS
<1>15. \A x \in Emails : users[x] # None => users'[x].password = users[x].password \/ SetBy(c, x)'
  <2> SUFFICES ASSUME NEW x \in Emails, users[x] # None
               PROVE  users'[x].password = users[x].password \/ SetBy(c, x)'
    OBVIOUS
  <2>1. CASE x # e
    BY <1>7, <2>1
  <2>2. CASE x = e
    BY <1>3, <1>5, <1>7, <1>12, <2>2 DEF Kinds
  <2> QED BY <2>1, <2>2
<1>16. l \in CredLabels /\ at[c] \notin {"mark", "done"} /\ "refused" # "ok" /\ "none" # "ok"
  BY DEF CredLabels
<1>17. tokens'[<<c, 1>>] # None => l \notin {"start", "insert", "token"}
  OBVIOUS
<1>18. tokens'[<<c, 2>>] # None => l \notin {"start", "insert", "token", "publish", "second"}
  OBVIOUS
<1> QED BY <1>4, <1>7, <1>8, <1>9, <1>10, <1>11, <1>13, <1>14, <1>15, <1>16, <1>17, <1>18, CredMoves

(* The statement that marks a token tells its call that the token worked,  *)
(* unless its answer is lost.                                              *)
LEMMA MarkKeeps ==
    ASSUME CredInv, NEW c \in Calls, at[c] = "mark", ask[c].op \in Kinds,
           ~tokens[held[c]].used, tokens' = [tokens EXCEPT ![held[c]].used = TRUE],
           Ok(c) \/ Refuse(c),
           UNCHANGED <<users, links, mailed, shown>>
    PROVE  CredInv'
<1>1. PICK h \in TokenIds :
         /\ h = held[c] /\ tokens[h] # None /\ tokens[h].kind = ask[c].op
         /\ ask[c].op = "verify" => users[tokens[h].user].verified
         /\ ask[c].op = "reset" => WasReset(tokens[h].user)
  BY DEF CredInv, HandlersAreAware, IsAware
<1>2. PICK old \in TokenRows : old = tokens[h]
  BY <1>1, TokenType DEF CredInv
<1>3. PICK row \in TokenRows :
         row = [old EXCEPT !.used = TRUE] /\ row.used /\ row.kind = old.kind /\ row.user = old.user
  <2>1. /\ [old EXCEPT !.used = TRUE] \in TokenRows /\ [old EXCEPT !.used = TRUE].used
        /\ [old EXCEPT !.used = TRUE].kind = old.kind /\ [old EXCEPT !.used = TRUE].user = old.user
    BY DEF TokenRows
  <2> QED BY <2>1
<1>4. /\ tokens \in [TokenIds -> TokenRows \cup {None}] /\ at \in [Calls -> CredLabels]
      /\ reply \in [Calls -> {"none", "ok", "refused"}] /\ row # None
  BY CredAssumption DEF CredInv, CredTypeOK
<1>5. /\ tokens' \in [TokenIds -> TokenRows \cup {None}] /\ tokens'[h] = row
      /\ \A t \in TokenIds : t # h => tokens'[t] = tokens[t]
  BY <1>1, <1>2, <1>3, <1>4
<1>6. /\ ask' = ask /\ held' = held /\ at'[c] = "done" /\ at' \in [Calls -> CredLabels]
      /\ reply'[c] \in {"ok", "refused"} /\ reply' \in [Calls -> {"none", "ok", "refused"}]
      /\ \A d \in Calls : d # c => at'[d] = at[d] /\ reply'[d] = reply[d]
  BY <1>4 DEF Ok, Refuse, Answer, CredLabels
<1>7. UsersGrow
  BY <1>1, <1>2, <1>3, <1>4, <1>5 DEF UsersGrow
<1>8. CredTypeOK'
  BY <1>4, <1>5, <1>6 DEF CredInv, CredTypeOK
<1>r. ResetsLast
  <2>1. \A w \in Calls : at[w] \in {"mark", "done"} =>
           at'[w] \in {"mark", "done"} /\ held'[w] = held[w]
    BY <1>6
  <2>2. \A e \in Emails : users[e] # None =>
           users'[e].password = users[e].password \/ WasReset(e)'
    OBVIOUS
  <2> QED BY <1>6, <1>7, <2>1, <2>2, ResetsStay
<1>9. HandlersAreAware'
  <2> SUFFICES ASSUME NEW d \in Calls PROVE IsAware(d, at[d], held[d])'
    BY DEF HandlersAreAware
  <2>1. CASE d = c
    BY <1>6, <2>1 DEF IsAware
  <2>2. CASE d # c
    <3>1. PICK m, g : m = at[d] /\ g = held[d] /\ m = at'[d] /\ g = held'[d]
      BY <1>6, <2>2
    <3>2. IsAware(d, m, g)
      BY <3>1 DEF CredInv, HandlersAreAware
    <3>3. IsAware(d, m, g)'
      BY <1>6, <1>7, <1>r, <3>2, AwarenessLasts
    <3> QED BY <3>1, <3>3 DEF IsAware
  <2> QED BY <2>1, <2>2
<1>10. TokensMadeOnce'
  <2>1. \A t \in TokenIds : tokens'[t] # None => tokens[t] # None
    BY <1>1, <1>5
  <2> SUFFICES ASSUME NEW d \in Calls
               PROVE  /\ tokens'[<<d, 1>>] # None => at'[d] \notin {"start", "insert", "token"}
                      /\ tokens'[<<d, 2>>] # None =>
                           at'[d] \notin {"start", "insert", "token", "publish", "second"}
                      /\ at'[d] # "done" => reply'[d] = "none"
    BY DEF TokensMadeOnce
  <2>2. <<d, 1>> \in TokenIds /\ <<d, 2>> \in TokenIds
    BY DEF TokenIds
  <2>3. CASE d = c
    BY <1>6, <2>3
  <2>4. CASE d # c
    BY <1>6, <2>1, <2>2, <2>4 DEF CredInv, TokensMadeOnce
  <2> QED BY <2>3, <2>4
<1>11. UsersOfTokens'
  BY <1>1, <1>2, <1>3, <1>5 DEF CredInv, UsersOfTokens
<1>12. ASSUME NEW op \in Kinds, NEW t \in TokenIds, NEW d \in Calls
       PROVE  /\ d # c => (Succeeded(d, op, t)' <=> Succeeded(d, op, t))
              /\ Succeeded(c, op, t)' => (op = ask[c].op /\ t = h)
  BY <1>1, <1>6 DEF Succeeded
<1>13. MarkedIsDone'
  <2> SUFFICES ASSUME NEW t \in TokenIds, tokens'[t] # None, tokens'[t].used PROVE TokenIsDone(t)'
    BY DEF MarkedIsDone
  <2>1. CASE t = h
    <3>1. tokens'[t].kind = ask[c].op /\ tokens'[t].user = tokens[h].user
      BY <1>1, <1>2, <1>3, <1>5, <2>1
    <3>2. CASE ask[c].op = "verify"
      BY <1>1, <3>1, <3>2 DEF TokenIsDone
    <3>3. CASE ask[c].op = "reset"
      <4>1. PICK e \in Emails : e = tokens[h].user /\ users[e] # None
        BY <1>1, TokenType DEF CredInv, UsersOfTokens
      <4>2. WasReset(e)'
        BY <1>1, <1>r, <3>3, <4>1 DEF ResetsLast
      <4> QED BY <3>1, <3>3, <4>1, <4>2 DEF TokenIsDone, WasReset, SetBy
    <3> QED BY <3>2, <3>3 DEF Kinds
  <2>2. CASE t # h
    <3>1. tokens'[t] = tokens[t] /\ TokenIsDone(t)
      BY <1>5, <2>2 DEF CredInv, MarkedIsDone
    <3>2. CASE tokens[t].kind = "verify"
      BY <3>1, <3>2 DEF TokenIsDone
    <3>3. CASE tokens[t].kind # "verify"
      <4>1. PICK e \in Emails : e = tokens[t].user /\ users[e] # None
        BY <3>1, TokenType DEF CredInv, UsersOfTokens
      <4>2. WasReset(e)'
        BY <1>r, <3>1, <3>3, <4>1 DEF ResetsLast, TokenIsDone
      <4> QED BY <3>1, <3>3, <4>1, <4>2 DEF TokenIsDone, WasReset, SetBy
    <3> QED BY <3>2, <3>3
  <2> QED BY <2>1, <2>2
<1>14. SuccessIsMarked'
  <2> SUFFICES ASSUME NEW op \in Kinds, NEW t \in TokenIds, NEW d \in Calls, Succeeded(d, op, t)'
               PROVE  /\ tokens'[t] # None /\ tokens'[t].used
                      /\ \A e \in Calls : Succeeded(e, op, t)' => e = d
    BY DEF SuccessIsMarked
  <2>1. \A e \in Calls : ~Succeeded(e, op, h)
    BY <1>1 DEF CredInv, SuccessIsMarked
  <2>2. CASE t = h
    <3>1. \A e \in Calls : Succeeded(e, op, t)' => e = c
      BY <1>12, <2>1, <2>2
    <3> QED BY <1>3, <1>4, <1>5, <2>2, <3>1
  <2>3. CASE t # h
    <3>1. d # c /\ Succeeded(d, op, t)
      BY <1>12, <2>3
    <3>2. \A e \in Calls : Succeeded(e, op, t)' => Succeeded(e, op, t)
      BY <1>12, <2>3
    <3>3. /\ tokens[t] # None /\ tokens[t].used
          /\ \A e \in Calls : Succeeded(e, op, t) => e = d
      BY <3>1 DEF CredInv, SuccessIsMarked
    <3> QED BY <1>5, <2>3, <3>2, <3>3
  <2> QED BY <2>2, <2>3
<1> QED BY <1>8, <1>9, <1>10, <1>11, <1>13, <1>14 DEF CredInv

(* Check, act and mark, of either kind of token. *)
LEMMA TokenUseKeeps ==
    ASSUME CredInv, NEW c \in Calls, ResetPassword(c) \/ VerifyEmail(c)
    PROVE  CredInv'
<1>0. /\ ask[c].op \in Kinds
      /\ links \in [Identities -> Emails \cup {None}] /\ mailed \in SUBSET TokenIds
      /\ shown \in [Kinds -> [Emails -> TokenIds \cup {None}]]
  BY DEF ResetPassword, VerifyEmail, Kinds, CredInv, CredTypeOK
<1>1. CASE /\ at[c] \in {"start", "act", "mark"} /\ Refuse(c)
           /\ UNCHANGED <<users, tokens, links, mailed, shown>>
  BY <1>0, <1>1, CredAnswers DEF Refuse
<1>2. ASSUME at[c] = "start", NEW t \in TokenIds, tokens[t] # None, tokens[t].kind = ask[c].op,
             Hold(c, t), Goto(c, "act"), UNCHANGED credVars
      PROVE  CredInv'
  <2>1. IsAware(c, "act", t)
    BY <1>2 DEF IsAware
  <2>2. /\ at' = [at EXCEPT ![c] = "act"] /\ held' = [held EXCEPT ![c] = t] /\ ask' = ask
        /\ reply[c] = "none" /\ reply' = [reply EXCEPT ![c] = "none"] /\ "act" \in CredLabels
    BY <1>2 DEF Goto, Hold, CredInv, CredTypeOK, TokensMadeOnce, CredLabels
  <2> QED BY <1>0, <1>2, <2>1, <2>2, CredAside DEF credVars
<1>3. CASE ResetPassword(c)
  <2>1. CASE at[c] = "start"
    <3>1. PICK t \in TokenIds : ValidatePasswordResetToken(c, t) /\ UNCHANGED credVars
      BY <1>3, <2>1 DEF ResetPassword, ResetWithToken
    <3>2. CASE Refuse(c)
      BY <1>1, <2>1, <3>1, <3>2 DEF credVars
    <3>3. CASE Usable(GetPasswordResetToken(t)) /\ Hold(c, t) /\ Goto(c, "act")
      <4>1. tokens[t] # None /\ tokens[t].kind = ask[c].op
        BY <1>3, <3>3 DEF Usable, GetPasswordResetToken, ResetPassword
      <4> QED BY <1>2, <2>1, <3>1, <3>3, <4>1
    <3> QED BY <3>1, <3>2, <3>3 DEF ValidatePasswordResetToken
  <2>2. CASE /\ at[c] = "act" /\ UNCHANGED <<tokens, links, mailed, shown>>
             /\ UpdateUserPassword(tokens[held[c]].user, ask[c].password)
             /\ (Goto(c, "mark") /\ UNCHANGED held) \/ Refuse(c)
    BY <1>0, <1>3, <2>2, ActKeeps DEF ResetPassword
  <2>3. CASE /\ at[c] = "mark" /\ MarkPasswordResetTokenUsed(held[c]) /\ (Ok(c) \/ Refuse(c))
             /\ UNCHANGED <<users, links, mailed, shown>>
    BY <1>0, <2>3, MarkKeeps DEF MarkPasswordResetTokenUsed
  <2> QED BY <1>1, <1>3, <2>1, <2>2, <2>3 DEF ResetPassword, ResetWithToken
<1>4. CASE VerifyEmail(c)
  <2>1. CASE at[c] = "start"
    <3>1. PICK t \in TokenIds :
             /\ \/ Usable(GetEmailVerificationToken(t)) /\ Hold(c, t) /\ Goto(c, "act")
                \/ Refuse(c)
             /\ UNCHANGED credVars
      BY <1>4, <2>1 DEF VerifyEmail, VerifyWithToken
    <3>2. CASE Refuse(c)
      BY <1>1, <2>1, <3>1, <3>2 DEF credVars
    <3>3. CASE Usable(GetEmailVerificationToken(t)) /\ Hold(c, t) /\ Goto(c, "act")
      <4>1. tokens[t] # None /\ tokens[t].kind = ask[c].op
        BY <1>4, <3>3 DEF Usable, GetEmailVerificationToken, VerifyEmail
      <4> QED BY <1>2, <2>1, <3>1, <3>3, <4>1
    <3> QED BY <3>1, <3>2, <3>3
  <2>2. CASE /\ at[c] = "act" /\ UNCHANGED <<tokens, links, mailed, shown>>
             /\ SetEmailVerified(tokens[held[c]].user)
             /\ (Goto(c, "mark") /\ UNCHANGED held) \/ Refuse(c)
    BY <1>0, <1>4, <2>2, ActKeeps DEF VerifyEmail
  <2>3. CASE /\ at[c] = "mark" /\ MarkEmailVerificationTokenUsed(held[c]) /\ (Ok(c) \/ Refuse(c))
             /\ UNCHANGED <<users, links, mailed, shown>>
    BY <1>0, <2>3, MarkKeeps DEF MarkEmailVerificationTokenUsed
  <2> QED BY <1>1, <1>4, <2>1, <2>2, <2>3 DEF VerifyEmail, VerifyWithToken
<1> QED BY <1>3, <1>4

LEMMA TokenExpiryKeeps ==
    ASSUME CredInv, NEW t \in TokenIds, ExpireToken(t)
    PROVE  CredInv'
<1>1. PICK old \in TokenRows : old = tokens[t] /\ tokens[t] # None
  BY TokenType DEF CredInv, ExpireToken
<1>2. /\ [old EXCEPT !.expired = TRUE] \in TokenRows
      /\ [old EXCEPT !.expired = TRUE].kind = old.kind /\ [old EXCEPT !.expired = TRUE].user = old.user
      /\ [old EXCEPT !.expired = TRUE].used = old.used
  BY DEF TokenRows
<1>3. PICK row \in TokenRows :
         /\ row = [old EXCEPT !.expired = TRUE]
         /\ row.kind = old.kind /\ row.user = old.user /\ row.used = old.used
  BY <1>2
<1>4. /\ tokens \in [TokenIds -> TokenRows \cup {None}] /\ row # None
      /\ UNCHANGED <<ask, at, held, reply, users, links, mailed, shown>>
  BY CredAssumption DEF CredInv, CredTypeOK, ExpireToken, callVars
<1>5. /\ tokens' \in [TokenIds -> TokenRows \cup {None}] /\ tokens'[t] = row
      /\ \A u \in TokenIds : u # t => tokens'[u] = tokens[u]
  BY <1>1, <1>3, <1>4 DEF ExpireToken
<1>6. UsersGrow
  BY <1>1, <1>3, <1>4, <1>5 DEF UsersGrow
<1>r. ResetsLast
  <2>1. ask' = ask
    BY <1>4
  <2>2. \A w \in Calls : at[w] \in {"mark", "done"} =>
           at'[w] \in {"mark", "done"} /\ held'[w] = held[w]
    BY <1>4
  <2>3. \A e \in Emails : users[e] # None =>
           users'[e].password = users[e].password \/ WasReset(e)'
    BY <1>4
  <2> QED BY <1>6, <2>1, <2>2, <2>3, ResetsStay
<1>7. CredTypeOK'
  BY <1>4, <1>5 DEF CredInv, CredTypeOK
<1>8. HandlersAreAware'
  <2> SUFFICES ASSUME NEW d \in Calls PROVE IsAware(d, at[d], held[d])'
    BY DEF HandlersAreAware
  <2>1. PICK m, g : m = at[d] /\ g = held[d] /\ m = at'[d] /\ g = held'[d]
    BY <1>4
  <2>2. IsAware(d, m, g)
    BY <2>1 DEF CredInv, HandlersAreAware
  <2>3. IsAware(d, m, g)'
    BY <1>4, <1>6, <1>r, <2>2, AwarenessLasts
  <2> QED BY <2>1, <2>3 DEF IsAware
<1>9. \A u \in TokenIds : (tokens'[u] # None <=> tokens[u] # None)
        /\ (tokens[u] # None => tokens'[u].used = tokens[u].used)
  BY <1>1, <1>3, <1>4, <1>5
<1>10. TokensMadeOnce'
  <2>1. \A d \in Calls : <<d, 1>> \in TokenIds /\ <<d, 2>> \in TokenIds
    BY DEF TokenIds
  <2> QED BY <1>4, <1>9, <2>1 DEF CredInv, TokensMadeOnce
<1>11. \A op \in Kinds, u \in TokenIds, d \in Calls : Succeeded(d, op, u)' <=> Succeeded(d, op, u)
  BY <1>4 DEF Succeeded
<1> QED BY <1>4, <1>6, <1>r, <1>7, <1>8, <1>9, <1>10, <1>11, CredKeeps

LEMMA CredStep == CredInv /\ [CredNext]_credAllVars => CredInv'
<1> SUFFICES ASSUME CredInv, [CredNext]_credAllVars PROVE CredInv'
  OBVIOUS
<1>1. CASE UNCHANGED credAllVars
  BY <1>1 DEF credAllVars, credVars, callVars, CredInv, CredTypeOK, HandlersAreAware, IsAware,
              TokensMadeOnce, UsersOfTokens, MarkedIsDone, TokenIsDone, SuccessIsMarked, Succeeded,
              WasReset, SetBy
<1>2. ASSUME NEW c \in Calls, (ask[c].op \in CredOps /\ Malformed(c) /\ UNCHANGED credVars) \/ Login(c)
      PROVE  CredInv'
  <2>1. /\ links' \in [Identities -> Emails \cup {None}] /\ mailed' \in SUBSET TokenIds
        /\ shown' \in [Kinds -> [Emails -> TokenIds \cup {None}]]
        /\ UNCHANGED <<users, tokens>> /\ at[c] = "start"
    BY <1>2 DEF CredInv, CredTypeOK, credVars, Login, Malformed, Begins, Serving
  <2>2. CASE Refuse(c)
    BY <2>1, <2>2, CredAnswers DEF Refuse
  <2>3. CASE Ok(c) /\ ask[c].op = "login"
    BY <2>1, <2>3, CredAnswers DEF Ok, Kinds
  <2> QED BY <1>2, <2>2, <2>3 DEF Malformed, Login, Begins, Serving
<1> QED BY <1>1, <1>2, RegistrationKeeps, SSOKeeps, ForgotKeeps, ResendKeeps, DebugKeeps,
           TokenUseKeeps, TokenExpiryKeeps DEF CredNext

(* The inductive invariant: rows and handlers are well-typed, a handler's  *)
(* token is still there when it acts, tokens belong to users who exist, a  *)
(* mark comes after the act and a success with the mark, and a password    *)
(* given with a token gives way only to another one (AuthService).         *)
LEMMA CredInvHolds == CredSpec => []CredInv
<1> QED BY CredStarts, CredStep, PTL DEF CredSpec

(* A token works once and is used up only for what it is good for, for any *)
(* number of calls that check it at the same time and whichever of their   *)
(* answers are lost (AuthService.ResetPassword, VerifyEmail and the        *)
(* conditional UPDATEs of the repository).                                 *)
THEOREM TokensHold == CredSpec => []TokensWorkOnce
<1>1. CredInv => TokensWorkOnce
  <2> SUFFICES ASSUME CredInv, NEW t \in TokenIds, tokens[t] # None
               PROVE  /\ \A c, d \in Calls :
                           (\/ Succeeded(c, "reset", t) /\ Succeeded(d, "reset", t)
                            \/ Succeeded(c, "verify", t) /\ Succeeded(d, "verify", t)) => c = d
                      /\ \A c \in Calls, op \in Kinds : Succeeded(c, op, t) => tokens[t].used
                      /\ tokens[t].used => TokenIsDone(t)
    BY DEF TokensWorkOnce, TokenIsDone
  <2>1. "reset" \in Kinds /\ "verify" \in Kinds
    BY DEF Kinds
  <2> QED BY <2>1 DEF CredInv, SuccessIsMarked, MarkedIsDone
<1> QED BY <1>1, CredInvHolds, PTL

-----------------------------------------------------------------------------
(* Organizations *)

TeamRoles == {"owner", "admin", "developer", "member"}

TeamAsks ==
    [op : TeamOps \ {"logs"}, bad : BOOLEAN, user : Members, domain : Domains, role : TeamRoles,
     type : STRING]
      \cup [op : {"logs"}, bad : BOOLEAN, action : Actions \cup {None}, limit : Nat]

teamAllVars == <<teamVars, callVars>>

(* The organizations of the auth service, with any number of requests. *)
TeamSpec ==
    /\ CallsInit([Calls -> TeamAsks]) /\ TeamInit
    /\ [][TeamNext]_teamAllVars

TeamTypeOK ==
    /\ ask \in [Calls -> TeamAsks]
    /\ at \in [Calls -> {"start", "owner", "read", "count", "done"}]
    /\ reply \in [Calls -> {"none", "ok", "refused"}]
    /\ held = [c \in Calls |-> held[c]]
    /\ roles \in [Calls \X Members -> TeamRoles \cup {None}]
    /\ \A c \in Calls : reply[c] # "none" => at[c] = "done"

(* A call moves on or is answered; what the others keep stays. *)
TeamMove(c) ==
    /\ ask' = ask /\ at[c] # "done"
    /\ held' = held \/ \E h : held' = [held EXCEPT ![c] = h]
    /\ \/ \E l \in {"owner", "read", "count"} : at' = [at EXCEPT ![c] = l] /\ reply' = reply
       \/ \E a \in {"ok", "refused"} :
            at' = [at EXCEPT ![c] = "done"] /\ reply' = [reply EXCEPT ![c] = a]

Tells(c) == ask[c].op = "add" /\ reply[c] = "ok"

(* The four kinds of steps: none that matters, a membership that is added  *)
(* where there is none, one that is removed, and one that is told.         *)
QuietMove(c) == TeamMove(c) /\ UNCHANGED roles /\ ~Tells(c)'

GivingMove(c, o, role) ==
    /\ TeamMove(c) /\ ~Tells(c)'
    /\ ask[c].user \in Members /\ AddMember(o, ask[c].user, role)
    /\ Gives(c, o, ask[c].user, role)'

RemovingMove(c, o) ==
    /\ TeamMove(c) /\ ~Tells(c)'
    /\ ask[c].user \in Members /\ RemoveMember(o, ask[c].user)
    /\ Removes(c, ask[c].user)'

TellingMove(c, o) ==
    /\ TeamMove(c) /\ UNCHANGED roles /\ ask[c].op = "add" /\ ask[c].user \in Members
    /\ held'[c].org = o /\ held'[c].role = roles[<<o, ask[c].user>>]
    /\ held'[c].role # None

LEMMA TeamSteps ==
    ASSUME TeamTypeOK, TeamNext
    PROVE  \/ UNCHANGED <<roles, callVars>>
           \/ \E c \in Calls : QuietMove(c)
           \/ \E c \in Calls, o \in Calls, role \in TeamRoles : GivingMove(c, o, role)
           \/ \E c \in Calls, o \in Calls : RemovingMove(c, o)
           \/ \E c \in Calls, o \in Calls : TellingMove(c, o)
<1>0. ASSUME NEW c \in Calls, at[c] # "done", Refuse(c)
      PROVE  TeamMove(c) /\ ~Tells(c)' /\ at'[c] = "done"
  BY <1>0 DEF Refuse, Answer, TeamMove, Tells, TeamTypeOK
<1>1. ASSUME NEW c \in Calls, Malformed(c), UNCHANGED teamVars
      PROVE  QuietMove(c)
  <2>1. at[c] # "done" /\ Refuse(c) /\ UNCHANGED roles
    BY <1>1 DEF Malformed, teamVars
  <2> QED BY <2>1, <1>0 DEF QuietMove
<1>2. ASSUME NEW c \in Calls, CreateOrganization(c)
      PROVE  QuietMove(c) \/ GivingMove(c, c, "owner")
  <2>1. CASE Begins(c, "org") /\ UNCHANGED <<roles, providers, auditLog>>
    <3>1. at[c] # "done" /\ UNCHANGED roles
      BY <2>1 DEF Begins, Serving
    <3>2. Refuse(c) \/ (Goto(c, "owner") /\ UNCHANGED held)
      BY <1>2, <2>1 DEF CreateOrganization, Begins, Serving
    <3>3. CASE Goto(c, "owner") /\ UNCHANGED held
      BY <2>1, <3>1, <3>3 DEF Begins, Serving, Goto, TeamMove, Tells, QuietMove, TeamTypeOK
    <3> QED BY <3>1, <3>2, <3>3, <1>0 DEF QuietMove
  <2>2. CASE Serving(c, "org", "owner")
    <3>1. ask[c].user \in Members /\ ask[c].op = "org" /\ at[c] = "owner"
      BY <2>2 DEF Serving, TeamTypeOK, TeamAsks
    <3>2. Ok(c) /\ (AddMember(c, ask[c].user, "owner") \/ UNCHANGED roles)
      BY <1>2, <3>1 DEF CreateOrganization, Begins, Serving
    <3>3. TeamMove(c) /\ ~Tells(c)'
      BY <3>1, <3>2 DEF Ok, Answer, TeamMove, Tells, TeamTypeOK
    <3>4. Gives(c, c, ask[c].user, "owner")'
      BY <3>1, <3>2 DEF Ok, Answer, Gives, TeamTypeOK
    <3> QED BY <3>1, <3>2, <3>3, <3>4 DEF QuietMove, GivingMove
  <2> QED BY <1>2, <2>1, <2>2 DEF CreateOrganization
<1>3. ASSUME NEW c \in Calls, AddTeamMember(c)
      PROVE  \/ QuietMove(c)
             \/ \E o \in Calls : GivingMove(c, o, ask[c].role) /\ ask[c].role \in TeamRoles
             \/ \E o \in Calls : TellingMove(c, o)
  <2>1. CASE Begins(c, "add")
    <3>1. /\ ask[c].user \in Members /\ ask[c].role \in TeamRoles
          /\ ask[c].op = "add" /\ at[c] = "start"
      BY <2>1 DEF Begins, Serving, TeamTypeOK, TeamAsks
    <3>2. PICK o \in Calls : /\ AddMember(o, ask[c].user, ask[c].role) \/ UNCHANGED roles
                             /\ \/ Refuse(c)
                                \/ Goto(c, "read") /\ \E h : held' = [held EXCEPT ![c] = h]
      BY <1>3, <3>1 DEF AddTeamMember, Begins, Serving, Unanswered, Hold
    <3>3. CASE Refuse(c)
      <4>1. Gives(c, o, ask[c].user, ask[c].role)'
        BY <3>1, <3>3 DEF Refuse, Answer, Gives, TeamTypeOK
      <4> QED BY <3>1, <3>2, <3>3, <4>1, <1>0 DEF QuietMove, GivingMove
    <3>4. CASE Goto(c, "read") /\ \E h : held' = [held EXCEPT ![c] = h]
      <4>1. Gives(c, o, ask[c].user, ask[c].role)'
        BY <3>1, <3>4 DEF Goto, Gives, TeamTypeOK
      <4>2. reply[c] = "none"
        BY <3>1 DEF TeamTypeOK
      <4>3. TeamMove(c) /\ ~Tells(c)'
        BY <3>1, <3>4, <4>2 DEF Goto, TeamMove, Tells
      <4> QED BY <3>1, <3>2, <4>1, <4>3 DEF QuietMove, GivingMove
    <3> QED BY <3>2, <3>3, <3>4
  <2>2. CASE Serving(c, "add", "read")
    <3>1. ask[c].user \in Members /\ ask[c].op = "add" /\ at[c] = "read" /\ UNCHANGED roles
      BY <1>3, <2>2 DEF AddTeamMember, Begins, Serving, teamVars, TeamTypeOK, TeamAsks
    <3>2. CASE Refuse(c)
      BY <3>1, <3>2, <1>0 DEF QuietMove
    <3>3. ASSUME NEW m \in GetUserMemberships(ask[c].user), m[1] = held[c].org,
                 Hold(c, [org |-> m[1], role |-> m[2]]), Answer(c, "ok")
          PROVE  \E o \in Calls : TellingMove(c, o)
      <4>1. PICK o \in {p \in Calls : roles[<<p, ask[c].user>>] # None} :
                   m = <<o, roles[<<o, ask[c].user>>]>>
        BY <3>3 DEF GetUserMemberships
      <4>2. held'[c] = [org |-> o, role |-> roles[<<o, ask[c].user>>]]
        BY <3>3, <4>1 DEF Hold, TeamTypeOK
      <4>3. TeamMove(c)
        BY <3>1, <3>3 DEF Answer, Hold, TeamMove
      <4> QED BY <3>1, <4>1, <4>2, <4>3 DEF TellingMove
    <3> QED BY <1>3, <3>1, <3>2, <3>3 DEF AddTeamMember, Begins, Serving
  <2> QED BY <1>3, <2>1, <2>2 DEF AddTeamMember
<1>4. ASSUME NEW c \in Calls, RemoveTeamMember(c)
      PROVE  QuietMove(c) \/ \E o \in Calls : RemovingMove(c, o)
  <2>1. ask[c].user \in Members /\ ask[c].op = "remove" /\ at[c] = "start"
    BY <1>4 DEF RemoveTeamMember, Begins, Serving, TeamTypeOK, TeamAsks
  <2>2. PICK o \in Calls : /\ RemoveMember(o, ask[c].user) \/ UNCHANGED roles
                           /\ Ok(c) \/ Refuse(c)
    BY <1>4 DEF RemoveTeamMember, Unanswered
  <2>3. TeamMove(c) /\ ~Tells(c)' /\ Removes(c, ask[c].user)'
    BY <2>1, <2>2 DEF Ok, Refuse, Answer, TeamMove, Tells, Removes, TeamTypeOK
  <2> QED BY <2>1, <2>2, <2>3 DEF QuietMove, RemovingMove
<1>5. ASSUME NEW c \in Calls,
             \/ ListTeamMembers(c) \/ HasPermission(c) \/ CreateSSOProvider(c)
             \/ GetSSOProvider(c) \/ InitiateSSO(c) \/ GetAuditLogs(c)
      PROVE  QuietMove(c)
  <2>1. UNCHANGED roles
    BY <1>5 DEF ListTeamMembers, HasPermission, CreateSSOProvider, GetSSOProvider, InitiateSSO,
                GetAuditLogs, teamVars
  <2>2. ask[c].op # "add" /\ at[c] # "done"
    BY <1>5 DEF ListTeamMembers, HasPermission, CreateSSOProvider, GetSSOProvider, InitiateSSO,
                GetAuditLogs, Begins, Serving
  <2>3. /\ Answer(c, "ok") \/ Answer(c, "refused") \/ Goto(c, "count")
        /\ held' = held \/ \E h : held' = [held EXCEPT ![c] = h]
    BY <1>5 DEF ListTeamMembers, HasPermission, CreateSSOProvider, GetSSOProvider, InitiateSSO,
                GetAuditLogs, Ok, Refuse, Hold
  <2> QED BY <2>1, <2>2, <2>3 DEF Answer, Goto, TeamMove, Tells, QuietMove
<1>6. ASSUME NEW o \in Calls, NEW action \in Actions, Audit(o, action)
      PROVE  UNCHANGED <<roles, callVars>>
  BY <1>6 DEF Audit
<1> QED BY <1>1, <1>2, <1>3, <1>4, <1>5, <1>6 DEF TeamNext, TeamRoles

LEMMA TeamTypeStep == TeamTypeOK /\ [TeamNext]_teamAllVars => TeamTypeOK'
<1> SUFFICES ASSUME TeamTypeOK, [TeamNext]_teamAllVars PROVE TeamTypeOK'
  OBVIOUS
<1>1. CASE UNCHANGED <<roles, callVars>>
  BY <1>1 DEF TeamTypeOK, callVars
<1>2. ASSUME NEW c \in Calls, TeamMove(c), roles' \in [Calls \X Members -> TeamRoles \cup {None}]
      PROVE  TeamTypeOK'
  <2>1. /\ ask' \in [Calls -> TeamAsks]
        /\ at' \in [Calls -> {"start", "owner", "read", "count", "done"}]
        /\ reply' \in [Calls -> {"none", "ok", "refused"}]
    BY <1>2 DEF TeamMove, TeamTypeOK
  <2>2. held' = [d \in Calls |-> held'[d]]
    BY <1>2 DEF TeamMove, TeamTypeOK
  <2>3. \A d \in Calls : reply'[d] # "none" => at'[d] = "done"
    BY <1>2 DEF TeamMove, TeamTypeOK
  <2> QED BY <1>2, <2>1, <2>2, <2>3 DEF TeamTypeOK
<1>3. ASSUME NEW o, NEW u, NEW role \in TeamRoles, AddMember(o, u, role) \/ RemoveMember(o, u)
      PROVE  roles' \in [Calls \X Members -> TeamRoles \cup {None}]
  BY <1>3 DEF AddMember, RemoveMember, TeamTypeOK
<1>4. UNCHANGED roles => roles' \in [Calls \X Members -> TeamRoles \cup {None}]
  BY DEF TeamTypeOK
<1>5. CASE UNCHANGED teamAllVars
  BY <1>1, <1>5 DEF teamAllVars, teamVars
<1>6. CASE TeamNext
  <2>1. "owner" \in TeamRoles
    BY DEF TeamRoles
  <2> QED BY <1>1, <1>2, <1>3, <1>4, <1>6, <2>1, TeamSteps
          DEF QuietMove, GivingMove, RemovingMove, TellingMove
<1> QED BY <1>5, <1>6

(* The types of the organizations' tables and of their handlers. *)
THEOREM TeamTypesHold == TeamSpec => []TeamTypeOK
<1>1. CallsInit([Calls -> TeamAsks]) /\ TeamInit => TeamTypeOK
  BY DEF CallsInit, TeamInit, TeamTypeOK
<1> QED BY <1>1, TeamTypeStep, PTL DEF TeamSpec

(* Every membership was given by some call. *)
RolesAreGiven ==
    \A o \in Calls, u \in Members : roles[<<o, u>>] # None =>
        \E d \in Calls : Gives(d, o, u, roles[<<o, u>>])

(* What is told of a member: an organization there is, and a role that     *)
(* another call gave if it is not the one asked for; and it is what the    *)
(* member has, unless it may have been removed.                            *)
ToldIsTrue(c) ==
    /\ held[c].org \in Calls /\ ask[c].user \in Members /\ held[c].role # None
    /\ held[c].role # ask[c].role =>
          \E d \in Calls \ {c} : Gives(d, held[c].org, ask[c].user, held[c].role)
    /\ roles[<<held[c].org, ask[c].user>>] # held[c].role =>
          \E d \in Calls : Removes(d, ask[c].user)

TeamInv == TeamTypeOK /\ RolesAreGiven /\ \A c \in Calls : Tells(c) => ToldIsTrue(c)

(* What a call has given or removed stays so. *)
LEMMA TeamPast ==
    ASSUME TeamTypeOK, NEW c \in Calls, TeamMove(c), NEW d \in Calls, NEW o, NEW u, NEW role
    PROVE  /\ Gives(d, o, u, role) => Gives(d, o, u, role)'
           /\ Removes(d, u) => Removes(d, u)'
           /\ Tells(d) /\ d # c => held'[d] = held[d]
           /\ Tells(d)' => Tells(d) \/ d = c
<1>1. ask' = ask /\ (at'[d] = at[d] \/ (d = c /\ at'[d] # "start" /\ at[d] # "done"))
  BY DEF TeamMove, TeamTypeOK
<1>2. (Gives(d, o, u, role) => Gives(d, o, u, role)') /\ (Removes(d, u) => Removes(d, u)')
  BY <1>1 DEF Gives, Removes
<1>3. d # c => held'[d] = held[d] /\ reply'[d] = reply[d]
  BY DEF TeamMove, TeamTypeOK
<1> QED BY <1>1, <1>2, <1>3 DEF Tells

LEMMA RolesAreGivenStep ==
    ASSUME TeamInv, TeamNext
    PROVE  RolesAreGiven'
<1>0. TeamTypeOK
  BY DEF TeamInv
<1> SUFFICES ASSUME NEW o \in Calls, NEW u \in Members, roles'[<<o, u>>] # None
             PROVE  \E d \in Calls : Gives(d, o, u, roles[<<o, u>>])'
  BY DEF RolesAreGiven
<1>r. PICK role : role = roles'[<<o, u>>]
  OBVIOUS
<1> SUFFICES \E d \in Calls : Gives(d, o, u, role)'
  BY <1>r DEF Gives
<1> USE <1>r
<1>1. ASSUME role = roles[<<o, u>>]
      PROVE  \E d \in Calls : Gives(d, o, u, role)
  BY <1>1 DEF TeamInv, RolesAreGiven
<1>2. CASE UNCHANGED <<roles, callVars>>
  BY <1>1, <1>2 DEF Gives, callVars
<1>3. ASSUME NEW c \in Calls, TeamMove(c), role = roles[<<o, u>>]
      PROVE  \E d \in Calls : Gives(d, o, u, role)'
  <2>1. PICK d \in Calls : Gives(d, o, u, role)
    BY <1>1, <1>3
  <2> QED BY <1>0, <1>3, <2>1, TeamPast
<1>4. ASSUME NEW c \in Calls, NEW p \in Calls, NEW r \in TeamRoles, GivingMove(c, p, r)
      PROVE  \E d \in Calls : Gives(d, o, u, role)'
  <2>1. CASE role = roles[<<o, u>>]
    BY <1>3, <1>4, <2>1 DEF GivingMove
  <2>2. CASE role # roles[<<o, u>>]
    <3>1. p = o /\ ask[c].user = u /\ role = r
      BY <1>0, <1>4, <2>2 DEF GivingMove, AddMember, TeamTypeOK
    <3>2. Gives(c, p, ask[c].user, r)' /\ ask' = ask
      BY <1>4 DEF GivingMove, TeamMove
    <3> QED BY <3>1, <3>2 DEF Gives
  <2> QED BY <2>1, <2>2
<1>5. ASSUME NEW c \in Calls, NEW p \in Calls, RemovingMove(c, p)
      PROVE  \E d \in Calls : Gives(d, o, u, role)'
  <2>1. role = roles[<<o, u>>]
    BY <1>0, <1>5 DEF RemovingMove, RemoveMember, TeamTypeOK
  <2> QED BY <1>3, <1>5, <2>1 DEF RemovingMove
<1>6. ASSUME NEW c \in Calls, TeamMove(c), UNCHANGED roles
      PROVE  \E d \in Calls : Gives(d, o, u, role)'
  BY <1>3, <1>6
<1> QED BY <1>0, <1>2, <1>4, <1>5, <1>6, TeamSteps DEF QuietMove, TellingMove

(* A role that was told stays true while roles change only where a member  *)
(* is removed or there was none.                                           *)
LEMMA ToldStaysTrue ==
    ASSUME TeamInv, NEW c \in Calls, TeamMove(c), NEW d \in Calls, d # c, Tells(d),
           \/ \A m \in Calls \X Members : roles[m] # None => roles'[m] = roles[m]
           \/ \E u \in Members : /\ Removes(c, u)'
                                 /\ \A m \in Calls \X Members : m[2] # u => roles'[m] = roles[m]
    PROVE  ToldIsTrue(d)'
<1>1. ToldIsTrue(d) /\ TeamTypeOK
  BY DEF TeamInv
<1>2. PICK o \in Calls, v \in Members, told \in {held[d].role} :
         o = held[d].org /\ v = ask[d].user /\ told = held[d].role /\ told # None
  BY <1>1 DEF ToldIsTrue
<1>3. held'[d] = held[d] /\ ask' = ask
  BY <1>1, TeamPast DEF TeamMove
<1>4. ASSUME told # ask[d].role
      PROVE  \E e \in Calls \ {d} : Gives(e, o, v, told)'
  <2>1. PICK e \in Calls \ {d} : Gives(e, o, v, told)
    BY <1>1, <1>2, <1>4 DEF ToldIsTrue
  <2> QED BY <1>1, <2>1, TeamPast
<1>5. ASSUME roles'[<<o, v>>] # told
      PROVE  \E e \in Calls : Removes(e, v)'
  <2>1. CASE roles[<<o, v>>] # told
    <3>1. PICK e \in Calls : Removes(e, v)
      BY <1>1, <1>2, <2>1 DEF ToldIsTrue
    <3> QED BY <1>1, <3>1, TeamPast
  <2>2. CASE roles[<<o, v>>] = told
    <3>0. <<o, v>> \in Calls \X Members /\ <<o, v>>[2] = v
      BY <1>2
    <3>1. PICK u \in Members : /\ Removes(c, u)'
                               /\ \A m \in Calls \X Members : m[2] # u => roles'[m] = roles[m]
      BY <1>2, <1>5, <2>2, <3>0
    <3>2. u = v
      BY <1>5, <2>2, <3>0, <3>1
    <3> QED BY <3>1, <3>2
  <2> QED BY <2>1, <2>2
<1>6. o = held'[d].org /\ v = ask'[d].user /\ told = held'[d].role /\ ask'[d].role = ask[d].role
  BY <1>2, <1>3
<1> QED BY <1>2, <1>4, <1>5, <1>6 DEF ToldIsTrue, Gives, Removes

(* The call that tells a role has just read it. *)
LEMMA ToldWhenRead ==
    ASSUME TeamInv, NEW c \in Calls, NEW o \in Calls, TellingMove(c, o)
    PROVE  ToldIsTrue(c)'
<1>1. /\ TeamTypeOK /\ TeamMove(c) /\ UNCHANGED roles /\ ask[c].op = "add"
      /\ ask[c].user \in Members /\ ask' = ask
  BY DEF TeamInv, TellingMove, TeamMove
<1>2. PICK u \in Members, role \in {held'[c].role} :
         /\ u = ask[c].user /\ role = roles[<<o, u>>] /\ role # None
         /\ held'[c].org = o /\ held'[c].role = role
  BY <1>1 DEF TellingMove
<1>3. PICK d \in Calls : Gives(d, o, u, role)
  BY <1>2 DEF TeamInv, RolesAreGiven
<1>4. role # ask[c].role => d # c
  BY <1>1, <1>3 DEF Gives
<1>5. Gives(d, o, u, role)'
  BY <1>1, <1>3, TeamPast
<1>6. role # ask[c].role => \E e \in Calls \ {c} : Gives(e, o, u, role)'
  BY <1>4, <1>5
<1>7. roles'[<<o, u>>] = role /\ ask'[c].user = u
  BY <1>1, <1>2
<1> QED BY <1>1, <1>2, <1>6, <1>7 DEF ToldIsTrue, Gives

LEMMA ToldStep ==
    ASSUME TeamInv, TeamNext, NEW d \in Calls, Tells(d)'
    PROVE  ToldIsTrue(d)'
<1>0. TeamTypeOK
  BY DEF TeamInv
<1>1. CASE UNCHANGED <<roles, callVars>>
  BY <1>1 DEF TeamInv, ToldIsTrue, Tells, Gives, Removes, callVars
<1>2. ASSUME NEW c \in Calls, QuietMove(c)
      PROVE  ToldIsTrue(d)'
  <2>1. d # c /\ Tells(d) /\ TeamMove(c) /\ UNCHANGED roles
    BY <1>0, <1>2, TeamPast DEF QuietMove
  <2> QED BY <2>1, ToldStaysTrue
<1>3. ASSUME NEW c \in Calls, NEW o \in Calls, NEW role \in TeamRoles, GivingMove(c, o, role)
      PROVE  ToldIsTrue(d)'
  <2>1. d # c /\ Tells(d) /\ TeamMove(c)
    BY <1>0, <1>3, TeamPast DEF GivingMove
  <2>2. \A m \in Calls \X Members : roles[m] # None => roles'[m] = roles[m]
    BY <1>0, <1>3 DEF GivingMove, AddMember, TeamTypeOK
  <2> QED BY <2>1, <2>2, ToldStaysTrue
<1>4. ASSUME NEW c \in Calls, NEW o \in Calls, RemovingMove(c, o)
      PROVE  ToldIsTrue(d)'
  <2>1. d # c /\ Tells(d) /\ TeamMove(c) /\ ask[c].user \in Members /\ ask' = ask
    BY <1>0, <1>4, TeamPast DEF RemovingMove, TeamMove
  <2>2. \A m \in Calls \X Members : m[2] # ask[c].user => roles'[m] = roles[m]
    BY <1>0, <1>4 DEF RemovingMove, RemoveMember, TeamTypeOK
  <2>3. PICK u \in Members : u = ask[c].user
    BY <2>1
  <2>4. Removes(c, u)' /\ \A m \in Calls \X Members : m[2] # u => roles'[m] = roles[m]
    BY <1>4, <2>1, <2>2, <2>3 DEF RemovingMove, Removes
  <2> QED BY <2>1, <2>3, <2>4, ToldStaysTrue
<1>5. ASSUME NEW c \in Calls, NEW o \in Calls, TellingMove(c, o)
      PROVE  ToldIsTrue(d)'
  <2>1. CASE d = c
    BY <1>5, <2>1, ToldWhenRead
  <2>2. CASE d # c
    <3>1. Tells(d) /\ TeamMove(c) /\ UNCHANGED roles
      BY <1>0, <1>5, <2>2, TeamPast DEF TellingMove
    <3> QED BY <2>2, <3>1, ToldStaysTrue
  <2> QED BY <2>1, <2>2
<1> QED BY <1>0, <1>1, <1>2, <1>3, <1>4, <1>5, TeamSteps

(* The role a call is told after adding a member was given by the calls    *)
(* there were, and is the member's until it is removed, for any            *)
(* organizations, users and interleaving of the calls (AddTeamMember).     *)
THEOREM RolesHold == TeamSpec => []ToldRolesAreTrue
<1>1. CallsInit([Calls -> TeamAsks]) /\ TeamInit => TeamInv
  BY DEF CallsInit, TeamInit, TeamTypeOK, TeamInv, RolesAreGiven, Tells
<1>2. TeamInv /\ [TeamNext]_teamAllVars => TeamInv'
  <2> SUFFICES ASSUME TeamInv, [TeamNext]_teamAllVars PROVE TeamInv'
    OBVIOUS
  <2>1. TeamTypeOK'
    BY TeamTypeStep DEF TeamInv
  <2>2. CASE UNCHANGED teamAllVars
    BY <2>1, <2>2 DEF TeamInv, RolesAreGiven, ToldIsTrue, Tells, Gives, Removes, teamAllVars,
                      teamVars, callVars
  <2>3. CASE TeamNext
    BY <2>1, <2>3, RolesAreGivenStep, ToldStep DEF TeamInv
  <2> QED BY <2>2, <2>3
<1>3. TeamInv => ToldRolesAreTrue
  BY DEF TeamInv, ToldIsTrue, Tells, ToldRolesAreTrue
<1> QED BY <1>1, <1>2, <1>3, PTL DEF TeamSpec

-----------------------------------------------------------------------------
(* Policies *)

PolicyAsks ==
    [op : {"checkpolicy"}, bad : BOOLEAN, roles : SUBSET STRING, action : STRING,
     rego : BOOLEAN, json : BOOLEAN]
      \cup [op : {"validateaction"}, bad : BOOLEAN, role : PolicyRoles, action : STRING,
            rego : BOOLEAN, json : BOOLEAN]

(* The policy checks, with any number of questions. *)
PolicySpec ==
    /\ CallsInit([Calls -> PolicyAsks])
    /\ [][PolicyNext]_callVars

PolicyInv ==
    /\ ask \in [Calls -> PolicyAsks]
    /\ at \in [Calls -> {"start", "done"}]
    /\ reply \in [Calls -> {"none", "ok", "refused"}]
    /\ EnginesAgree

(* The three engines decide alike, role by role and action by action. *)
LEMMA EnginesDecideAlike ==
    ASSUME NEW rs, NEW action, NEW rego \in BOOLEAN, NEW json \in BOOLEAN
    PROVE  EngineCheck(rego, json, rs, action) <=> HardcodedCheck(rs, action)
<1>1. DOMAIN permissions = {"finance", "developer", "viewer"}
  BY DEF permissions
<1>2. DOMAIN ConfiguredRoles = {"admin", "finance", "developer", "viewer"}
  BY DEF ConfiguredRoles
<1>3. /\ ConfiguredRoles["admin"] = {"*"}
      /\ \A r \in DOMAIN permissions : ConfiguredRoles[r] = permissions[r] /\ "*" \notin permissions[r]
  BY <1>1 DEF permissions, ConfiguredRoles
<1>4. HardcodedCheck(rs, action) <=>
        \/ "admin" \in rs
        \/ \E r \in rs : r \in DOMAIN permissions /\ action \in permissions[r]
  BY DEF HardcodedCheck, roleAllowsAction
<1>5. OPACheck(rs, action) <=>
        \/ "admin" \in rs
        \/ \E r \in rs : r \in DOMAIN permissions /\ action \in permissions[r]
  BY <1>1, <1>2, <1>3 DEF OPACheck
<1>6. JSONCheck(rs, action) <=> OPACheck(rs, action)
  BY DEF JSONCheck, OPACheck
<1> QED BY <1>4, <1>5, <1>6 DEF EngineCheck

LEMMA PolicyStep == PolicyInv /\ [PolicyNext]_callVars => PolicyInv'
<1> SUFFICES ASSUME PolicyInv, [PolicyNext]_callVars PROVE PolicyInv'
  OBVIOUS
<1>1. CASE UNCHANGED callVars
  BY <1>1 DEF callVars, PolicyInv, EnginesAgree
<1>2. ASSUME NEW c \in Calls, CheckPolicy(c) \/ ValidateAction(c)
      PROVE  PolicyInv'
  <2>1. PICK rs : rs = IF ask[c].op = "checkpolicy" THEN ask[c].roles ELSE {ask[c].role}
    OBVIOUS
  <2>2. /\ ask[c].rego \in BOOLEAN /\ ask[c].json \in BOOLEAN
        /\ ask[c].op = "validateaction" => ask[c].role # "owner"
    BY DEF PolicyInv, PolicyAsks, PolicyRoles
  <2>3. EngineCheck(ask[c].rego, ask[c].json, rs, ask[c].action)
          <=> HardcodedCheck(rs, ask[c].action)
    BY <2>2, EnginesDecideAlike
  <2>4. "admin" \in rs => HardcodedCheck(rs, ask[c].action)
    BY DEF HardcodedCheck, roleAllowsAction
  <2>5. IF HardcodedCheck(rs, ask[c].action) THEN Answer(c, "ok") ELSE Answer(c, "refused")
    <3>1. CASE CheckPolicy(c)
      BY <2>1, <2>3, <3>1 DEF CheckPolicy, Begins, Serving, Ok, Refuse
    <3>2. CASE ValidateAction(c)
      <4>1. ask[c].op = "validateaction" /\ rs = {ask[c].role}
        BY <2>1, <3>2 DEF ValidateAction, Begins, Serving
      <4>2. Can(ask[c].role, ask[c].action, ask[c].rego, ask[c].json)
              <=> HardcodedCheck(rs, ask[c].action)
        BY <2>2, <2>3, <2>4, <4>1 DEF Can
      <4> QED BY <3>2, <4>2 DEF ValidateAction, Ok, Refuse
    <3> QED BY <1>2, <3>1, <3>2
  <2>6. PICK a \in {"ok", "refused"} : Answer(c, a) /\ (a = "ok" <=> HardcodedCheck(rs, ask[c].action))
    BY <2>5
  <2>7. ask' = ask /\ at' = [at EXCEPT ![c] = "done"] /\ reply' = [reply EXCEPT ![c] = a]
    BY <2>6 DEF Answer
  <2>8. EnginesAgree'
    <3> SUFFICES ASSUME NEW d \in Calls, ask[d].op \in PolicyOps, ~ask[d].bad, at'[d] = "done"
                 PROVE  (reply'[d] = "ok") <=>
                          HardcodedCheck(IF ask[d].op = "checkpolicy" THEN ask[d].roles
                                         ELSE {ask[d].role}, ask[d].action)
      BY <2>7 DEF EnginesAgree
    <3>1. CASE d = c
      BY <2>1, <2>6, <2>7, <3>1 DEF PolicyInv
    <3>2. CASE d # c
      BY <2>7, <3>2 DEF PolicyInv, EnginesAgree
    <3> QED BY <3>1, <3>2
  <2> QED BY <2>7, <2>8 DEF PolicyInv
<1> QED BY <1>1, <1>2 DEF PolicyNext

(* Whichever engine is loaded grants what the table in the code grants,    *)
(* for any set of roles and any action (NewEngine, PolicyEngine.Can).      *)
THEOREM EnginesAlwaysAgree == PolicySpec => []EnginesAgree
<1>1. CallsInit([Calls -> PolicyAsks]) => PolicyInv
  BY DEF CallsInit, PolicyInv, EnginesAgree
<1>2. PolicyInv => EnginesAgree
  BY DEF PolicyInv
<1> QED BY <1>1, <1>2, PolicyStep, PTL DEF PolicySpec

-----------------------------------------------------------------------------
(* Zones *)

ZoneAsks ==
    [op : {"createzone"}, bad : BOOLEAN, org : Orgs, mode : {"test", "live"}, template : STRING]
      \cup [op : {"getzone"}, bad : BOOLEAN, zone : ZoneIds]
      \cup [op : {"listzones"}, bad : BOOLEAN, org : Orgs]
      \cup [op : {"bulkmeta"}, bad : BOOLEAN, ids : Seq(ZoneIds), meta : SUBSET STRING]
      \cup [op : {"template"}, bad : BOOLEAN, type : STRING]

zoneAllVars == <<zoneVars, callVars>>

(* The zones of the auth service, with any number of requests. *)
ZoneSpec ==
    /\ CallsInit([Calls -> ZoneAsks]) /\ ZoneInit
    /\ [][ZoneNext]_zoneAllVars

ZoneLists == SUBSET [id : ZoneIds, row : ZoneRows]

ZoneTypeOK ==
    /\ ask \in [Calls -> ZoneAsks]
    /\ DOMAIN at = Calls /\ at = [c \in Calls |-> at[c]]
    /\ DOMAIN held = Calls /\ held = [c \in Calls |-> held[c]]
    /\ zones \in [ZoneIds -> ZoneRows \cup {None}]
    /\ zoneCache \in [ZoneIds -> ZoneRows \cup {None}]
    /\ orgCache \in [Orgs -> ZoneLists \cup {None}]

(* What the handler of c has made sure of when it is at l and keeps h. *)
KnowsZones(c, l, h) ==
    /\ l = "start" => zones[c] = None
    /\ l = "forget" /\ ask[c].op = "createzone" =>
         zones[c] # None /\ zones[c].org = ask[c].org
    /\ l = "fill" /\ ask[c].op = "getzone" =>
         h.zone \in ZoneRows /\ zones[ask[c].zone] # None
    /\ l = "fill" /\ ask[c].op = "listzones" => h.list \in ZoneLists
    /\ l \in {"each", "update", "forget", "forgetlist"} /\ ask[c].op = "bulkmeta" =>
         h.todo \in Seq(ZoneIds)
    /\ l \in {"update", "forget", "forgetlist"} /\ ask[c].op = "bulkmeta" => h.todo # <<>>

ZonesAreKnown == \A c \in Calls : KnowsZones(c, at[c], held[c])

(* Call c has changed zone z and not yet dropped its key. *)
DroppingKey(c, z) == ask[c].op = "bulkmeta" /\ at[c] = "forget" /\ Subject(c) = z

(* A key is filled for a zone that exists, and stale only while the writer *)
(* that changed the row is about to drop it.                               *)
KeyIsFresh(z) ==
    /\ zones[z] = None => zoneCache[z] = None
    /\ zoneCache[z] \notin {None, zones[z]} =>
         z \in late \/ \E c \in Calls : DroppingKey(c, z)

DroppingList(o) ==
    \E c \in Calls, z \in ZoneIds : zones[z] # None /\ zones[z].org = o /\ Dropping(c, z)

ListIsFresh(o) ==
    orgCache[o] \notin {None, SelectZonesOf(o)} => o \in late \/ DroppingList(o)

ZoneInv ==
    /\ ZoneTypeOK /\ ZonesAreKnown
    /\ \A z \in ZoneIds : KeyIsFresh(z)
    /\ \A o \in Orgs : ListIsFresh(o)

LEMMA ZoneStarts == CallsInit([Calls -> ZoneAsks]) /\ ZoneInit => ZoneInv
<1> SUFFICES ASSUME CallsInit([Calls -> ZoneAsks]), ZoneInit PROVE ZoneInv
  OBVIOUS
<1>1. /\ ask \in [Calls -> ZoneAsks] /\ at = [c \in Calls |-> "start"]
      /\ held = [c \in Calls |-> None]
  BY DEF CallsInit
<1>2. /\ zones = [z \in ZoneIds |-> IF z \in FirstZones THEN ZoneRow("o", "test") ELSE None]
      /\ zoneCache = [z \in ZoneIds |-> None] /\ orgCache = [o \in Orgs |-> None]
  BY DEF ZoneInit
<1>3. ZoneRow("o", "test") \in ZoneRows
  BY ZoneAssumption DEF ZoneRow, ZoneRows
<1>4. ZoneTypeOK
  BY <1>1, <1>2, <1>3 DEF ZoneTypeOK
<1>5. \A c \in Calls : at[c] = "start" /\ zones[c] = None
  BY <1>1, <1>2, ZoneAssumption DEF ZoneIds
<1>6. ZonesAreKnown
  BY <1>5 DEF ZonesAreKnown, KnowsZones
<1>7. /\ \A z \in ZoneIds : KeyIsFresh(z)
      /\ \A o \in Orgs : ListIsFresh(o)
  BY <1>2 DEF KeyIsFresh, ListIsFresh
<1> QED BY <1>4, <1>6, <1>7 DEF ZoneInv

(* One call moves, to l and keeping h; the rows that exist stay, each in   *)
(* its organisation, and new ones are those of the call that moves.        *)
ZoneMove(c, l, h) ==
    /\ ask' = ask
    /\ at' = [at EXCEPT ![c] = l]
    /\ held' = [held EXCEPT ![c] = h]
    /\ zones' \in [ZoneIds -> ZoneRows \cup {None}]
    /\ \A z \in ZoneIds :
         /\ zones[z] # None => zones'[z] # None /\ zones'[z].org = zones[z].org
         /\ zones[z] = None /\ z # c => zones'[z] = None

(* Handlers keep what they know when another call moves. *)
LEMMA ZonesStayKnown ==
    ASSUME ZoneInv, NEW c \in Calls, NEW l, NEW h, ZoneMove(c, l, h), KnowsZones(c, l, h)',
           zoneCache' \in [ZoneIds -> ZoneRows \cup {None}],
           orgCache' \in [Orgs -> ZoneLists \cup {None}]
    PROVE  /\ ZoneTypeOK' /\ ZonesAreKnown'
           /\ at'[c] = l /\ held'[c] = h
           /\ \A d \in Calls : d # c => at'[d] = at[d] /\ held'[d] = held[d]
<1>1. /\ at'[c] = l /\ held'[c] = h
      /\ \A d \in Calls : d # c => at'[d] = at[d] /\ held'[d] = held[d]
  BY DEF ZoneInv, ZoneTypeOK, ZoneMove
<1>2. ZoneTypeOK'
  BY DEF ZoneInv, ZoneTypeOK, ZoneMove
<1>3. ASSUME NEW d \in Calls PROVE KnowsZones(d, at[d], held[d])'
  <2>1. CASE d = c
    BY <1>1, <2>1 DEF KnowsZones
  <2>2. CASE d # c
    <3>1. KnowsZones(d, at[d], held[d]) /\ at'[d] = at[d] /\ held'[d] = held[d] /\ ask' = ask
      BY <1>1, <2>2 DEF ZoneInv, ZonesAreKnown, ZoneMove
    <3>2. d \in ZoneIds /\ (ask[d].op = "getzone" => ask[d].zone \in ZoneIds)
      BY DEF ZoneInv, ZoneTypeOK, ZoneAsks, ZoneIds
    <3> QED BY <2>2, <3>1, <3>2 DEF KnowsZones, ZoneMove
  <2> QED BY <2>1, <2>2
<1> QED BY <1>1, <1>2, <1>3 DEF ZonesAreKnown

(* The list of an organisation whose rows stay the same. *)
LEMMA ListStays ==
    ASSUME NEW o, \A z \in ZoneIds :
             \/ zones'[z] = zones[z]
             \/ ~(zones[z] # None /\ zones[z].org = o) /\ ~(zones'[z] # None /\ zones'[z].org = o)
    PROVE  SelectZonesOf(o)' = SelectZonesOf(o)
<1>1. PICK old : old = {y \in ZoneIds : zones[y] # None /\ zones[y].org = o}
  OBVIOUS
<1>2. PICK new : new = {y \in ZoneIds : zones'[y] # None /\ zones'[y].org = o}
  OBVIOUS
<1>3. new = old /\ \A z \in old : zones'[z] = zones[z]
  BY <1>1, <1>2
<1>4. {[id |-> z, row |-> zones'[z]] : z \in new} = {[id |-> z, row |-> zones[z]] : z \in old}
  BY <1>3
<1> QED BY <1>1, <1>2, <1>4 DEF SelectZonesOf

(* A call moves and changes neither a row nor a key. *)
LEMMA ZoneAside ==
    ASSUME ZoneInv, NEW c \in Calls, NEW l, NEW h, ask' = ask, at' = [at EXCEPT ![c] = l],
           held' = [held EXCEPT ![c] = h], UNCHANGED <<zones, zoneCache, orgCache, late>>,
           at[c] \notin {"forget", "forgetlist"}, KnowsZones(c, l, h)'
    PROVE  ZoneInv'
<1>1. ZoneMove(c, l, h)
  BY DEF ZoneMove, ZoneInv, ZoneTypeOK
<1>2. /\ ZoneTypeOK' /\ ZonesAreKnown'
      /\ \A d \in Calls : d # c => at'[d] = at[d] /\ held'[d] = held[d]
  BY <1>1, ZonesStayKnown DEF ZoneInv, ZoneTypeOK
<1>3. ASSUME NEW d \in Calls, NEW z
      PROVE  /\ DroppingKey(d, z) => DroppingKey(d, z)'
             /\ Dropping(d, z) => Dropping(d, z)'
  BY <1>2 DEF DroppingKey, Dropping, Serving, Subject
<1>4. \A z \in ZoneIds : KeyIsFresh(z)'
  BY <1>3 DEF ZoneInv, KeyIsFresh
<1>5. \A o \in Orgs : DroppingList(o) => DroppingList(o)'
  BY <1>3 DEF DroppingList
<1>6. \A o \in Orgs : SelectZonesOf(o)' = SelectZonesOf(o)
  BY ListStays
<1>7. \A o \in Orgs : ListIsFresh(o)'
  BY <1>5, <1>6 DEF ZoneInv, ListIsFresh
<1> QED BY <1>2, <1>4, <1>7 DEF ZoneInv

(* The same for a call that is answered, *)
LEMMA ZoneAnswers ==
    ASSUME ZoneInv, NEW c \in Calls, NEW a, Answer(c, a), UNCHANGED held \/ \E h : Hold(c, h),
           UNCHANGED <<zones, zoneCache, orgCache, late>>, at[c] \notin {"forget", "forgetlist"}
    PROVE  ZoneInv'
<1>1. PICK h : held' = [held EXCEPT ![c] = h]
  <2>1. CASE UNCHANGED held
    <3>1. held' = [held EXCEPT ![c] = held[c]]
      BY <2>1 DEF ZoneInv, ZoneTypeOK
    <3> QED BY <3>1
  <2> QED BY <2>1 DEF Hold
<1>2. KnowsZones(c, "done", h)'
  BY DEF KnowsZones
<1> QED BY <1>1, <1>2, ZoneAside DEF Answer

(* and for one that goes on. *)
LEMMA ZoneGoesOn ==
    ASSUME ZoneInv, NEW c \in Calls, NEW l, Goto(c, l), UNCHANGED held,
           UNCHANGED <<zones, zoneCache, orgCache, late>>, at[c] \notin {"forget", "forgetlist"},
           KnowsZones(c, l, held[c])
    PROVE  ZoneInv'
<1>1. held' = [held EXCEPT ![c] = held[c]]
  BY DEF ZoneInv, ZoneTypeOK
<1>2. PICK h : h = held[c]
  OBVIOUS
<1>3. KnowsZones(c, l, h)'
  BY <1>2 DEF KnowsZones, Goto
<1> QED BY <1>1, <1>2, <1>3, ZoneAside DEF Goto

(* What a request carries. *)
LEMMA ZoneAsked ==
    ASSUME ZoneTypeOK, NEW c \in Calls
    PROVE  /\ c \in ZoneIds
           /\ ask[c].op = "createzone" => ask[c].org \in Orgs /\ ask[c].mode \in {"test", "live"}
           /\ ask[c].op = "getzone" => ask[c].zone \in ZoneIds
           /\ ask[c].op = "listzones" => ask[c].org \in Orgs
           /\ ask[c].op = "bulkmeta" => ask[c].ids \in Seq(ZoneIds) /\ ask[c].meta \in SUBSET STRING
  BY DEF ZoneTypeOK, ZoneAsks, ZoneIds

(* A zone and an organisation have different keys. *)
LEMMA KeysDiffer == \A z \in ZoneIds, o \in Orgs : z # o
  BY ZoneAssumption DEF ZoneIds

(* A new row: its creator will drop the list it belongs to, or does not    *)
(* know of the row, and the list is late.                                  *)
LEMMA InsertZoneKeeps ==
    ASSUME ZoneInv, NEW c \in Calls, Begins(c, "createzone"), NEW h, NEW l,
           InsertZone(c, ZoneRow(ask[c].org, ask[c].mode)), Hold(c, h),
           ask' = ask, at' = [at EXCEPT ![c] = l],
           \/ l = "forget" /\ UNCHANGED late
           \/ l = "done" /\ late' = late \cup {ask[c].org},
           UNCHANGED <<zoneCache, orgCache>>
    PROVE  ZoneInv'
<1> DEFINE row == ZoneRow(ask[c].org, ask[c].mode)
<1>1. /\ ask[c].op = "createzone" /\ at[c] = "start" /\ c \in ZoneIds /\ ask[c].org \in Orgs
      /\ row \in ZoneRows /\ row.org = ask[c].org /\ row # None /\ zones[c] = None
  BY ZoneAsked, ZoneAssumption
     DEF Begins, Serving, ZoneInv, ZonesAreKnown, KnowsZones, ZoneRow, ZoneRows
<1> HIDE DEF row
<1>2. /\ zones' = [zones EXCEPT ![c] = row] /\ zones \in [ZoneIds -> ZoneRows \cup {None}]
      /\ ask' = ask /\ at' = [at EXCEPT ![c] = l] /\ held' = [held EXCEPT ![c] = h]
  BY DEF InsertZone, Hold, row, ZoneInv, ZoneTypeOK
<1>3. zones'[c] = row /\ \A z \in ZoneIds : z # c => zones'[z] = zones[z]
  BY <1>1, <1>2
<1>4. ZoneMove(c, l, h)
  BY <1>1, <1>2, <1>3 DEF ZoneMove
<1>5. KnowsZones(c, l, h)'
  BY <1>1, <1>2, <1>3 DEF KnowsZones
<1>6. /\ ZoneTypeOK' /\ ZonesAreKnown' /\ at'[c] = l /\ late \subseteq late'
      /\ \A d \in Calls : d # c => at'[d] = at[d] /\ held'[d] = held[d]
  BY <1>4, <1>5, ZonesStayKnown DEF ZoneInv, ZoneTypeOK
<1>7. ASSUME NEW d \in Calls, NEW z
      PROVE  /\ DroppingKey(d, z) => DroppingKey(d, z)'
             /\ Dropping(d, z) => Dropping(d, z)'
  BY <1>1, <1>2, <1>6 DEF DroppingKey, Dropping, Serving, Subject
<1>8. \A z \in ZoneIds : KeyIsFresh(z)'
  BY <1>1, <1>3, <1>6, <1>7 DEF ZoneInv, KeyIsFresh
<1>9. ASSUME NEW o \in Orgs PROVE ListIsFresh(o)'
  <2>0. CASE o = ask[c].org /\ l = "done"
    BY <2>0 DEF ListIsFresh
  <2>1. CASE o = ask[c].org /\ l = "forget"
    <3>1. Dropping(c, c)'
      BY <1>1, <1>2, <1>6, <2>1 DEF Dropping, Serving
    <3>2. DroppingList(o)'
      BY <1>1, <1>3, <2>1, <3>1 DEF DroppingList
    <3> QED BY <3>2 DEF ListIsFresh
  <2>2. CASE o # ask[c].org
    <3>1. SelectZonesOf(o)' = SelectZonesOf(o)
      BY <1>1, <1>3, <2>2, ListStays
    <3>2. DroppingList(o) => DroppingList(o)'
      BY <1>1, <1>3, <1>7 DEF DroppingList
    <3> QED BY <1>6, <3>1, <3>2 DEF ZoneInv, ListIsFresh
  <2> QED BY <2>0, <2>1, <2>2
<1> QED BY <1>6, <1>8, <1>9 DEF ZoneInv

(* The list of an organisation is dropped, or its key is late, by the call *)
(* that has changed one of its zones and nothing else.                     *)
LEMMA ForgetListKeeps ==
    ASSUME ZoneInv, NEW c \in Calls, NEW o \in Orgs, NEW l, NEW h, ForgetList(o), ask' = ask,
           at' = [at EXCEPT ![c] = l], held' = [held EXCEPT ![c] = h],
           UNCHANGED <<zones, zoneCache>>, KnowsZones(c, l, h)',
           \A z : ~DroppingKey(c, z),
           \A z \in ZoneIds : zones[z] # None /\ Dropping(c, z) => zones[z].org = o
    PROVE  ZoneInv'
<1>1. ZoneMove(c, l, h)
  BY DEF ZoneMove, ZoneInv, ZoneTypeOK
<1>2. /\ orgCache' \in [Orgs -> ZoneLists \cup {None}]
      /\ \A p \in Orgs : p # o => orgCache'[p] = orgCache[p] /\ (p \in late => p \in late')
      /\ orgCache'[o] = None \/ o \in late'
      /\ \A z \in ZoneIds : z \in late => z \in late'
  BY KeysDiffer DEF ForgetList, ZoneInv, ZoneTypeOK
<1>3. /\ ZoneTypeOK' /\ ZonesAreKnown'
      /\ \A d \in Calls : d # c => at'[d] = at[d] /\ held'[d] = held[d]
  BY <1>1, <1>2, ZonesStayKnown DEF ZoneInv, ZoneTypeOK
<1>4. ASSUME NEW d \in Calls, NEW z
      PROVE  /\ DroppingKey(d, z) => DroppingKey(d, z)'
             /\ d # c /\ Dropping(d, z) => Dropping(d, z)'
  BY <1>3 DEF DroppingKey, Dropping, Serving, Subject
<1>5. \A z \in ZoneIds : KeyIsFresh(z)'
  BY <1>2, <1>4 DEF ZoneInv, KeyIsFresh
<1>6. ASSUME NEW p \in Orgs PROVE ListIsFresh(p)'
  <2>1. CASE p = o
    BY <1>2, <2>1 DEF ListIsFresh
  <2>2. CASE p # o
    <3>1. SelectZonesOf(p)' = SelectZonesOf(p)
      BY ListStays
    <3>2. DroppingList(p) => DroppingList(p)'
      BY <1>4, <2>2 DEF DroppingList
    <3> QED BY <1>2, <2>2, <3>1, <3>2 DEF ZoneInv, ListIsFresh
  <2> QED BY <2>1, <2>2
<1> QED BY <1>3, <1>5, <1>6 DEF ZoneInv

(* POST /zones *)
LEMMA CreateZoneKeeps ==
    ASSUME ZoneInv, NEW c \in Calls, CreateZone(c)
    PROVE  ZoneInv'
<1>1. CASE /\ Begins(c, "createzone")
           /\ \/ /\ InsertZone(c, ZoneRow(ask[c].org, ask[c].mode))
                 /\ Goto(c, "forget") /\ UNCHANGED late
              \/ /\ Unanswered(/\ InsertZone(c, ZoneRow(ask[c].org, ask[c].mode))
                               /\ late' = late \cup {ask[c].org}, <<zones, late>>)
                 /\ Answer(c, "refused")
           /\ Hold(c, Keeping(TemplateSteps(ask[c].template), None, None))
           /\ UNCHANGED <<zoneCache, orgCache, made>>
  <2>1. PICK h : Hold(c, h)
    BY <1>1
  <2>2. at[c] = "start"
    BY <1>1 DEF Begins, Serving
  <2>3. CASE InsertZone(c, ZoneRow(ask[c].org, ask[c].mode)) /\ Goto(c, "forget") /\ UNCHANGED late
    BY <1>1, <2>1, <2>3, InsertZoneKeeps DEF Goto
  <2>4. CASE /\ InsertZone(c, ZoneRow(ask[c].org, ask[c].mode)) /\ Answer(c, "refused")
             /\ late' = late \cup {ask[c].org}
    BY <1>1, <2>1, <2>4, InsertZoneKeeps DEF Answer
  <2>5. CASE Answer(c, "refused") /\ UNCHANGED <<zones, late>>
    BY <1>1, <2>1, <2>2, <2>5, ZoneAnswers
  <2> QED BY <1>1, <2>3, <2>4, <2>5 DEF Unanswered
<1>2. CASE /\ Serving(c, "createzone", "forget")
           /\ ForgetList(ask[c].org)
           /\ Goto(c, "template")
           /\ UNCHANGED <<held, zones, zoneCache, made>>
  <2>1. ask[c].op = "createzone" /\ at[c] = "forget" /\ ask[c].org \in Orgs
    BY <1>2, ZoneAsked DEF Serving, ZoneInv
  <2>2. PICK h : h = held[c] /\ held' = [held EXCEPT ![c] = h]
    BY <1>2 DEF ZoneInv, ZoneTypeOK
  <2>3. KnowsZones(c, "template", h)'
    BY DEF KnowsZones
  <2>4. /\ \A z : ~DroppingKey(c, z)
        /\ \A z \in ZoneIds : zones[z] # None /\ Dropping(c, z) => zones[z].org = ask[c].org
    BY <2>1 DEF DroppingKey, Dropping, ZoneInv, ZonesAreKnown, KnowsZones
  <2> QED BY <1>2, <2>1, <2>2, <2>3, <2>4, ForgetListKeeps DEF Goto
<1>3. CASE Serving(c, "createzone", "template")
  <2>1. UNCHANGED <<zones, zoneCache, orgCache, late>> /\ at[c] = "template"
    BY <1>3 DEF CreateZone, Begins, Serving
  <2>2. \/ Ok(c)
        \/ \E h : Hold(c, h) /\ Goto(c, "template")
    BY <1>3 DEF CreateZone, Begins, Serving
  <2>3. CASE Ok(c)
    BY <2>1, <2>3, ZoneAnswers DEF Ok
  <2>4. ASSUME NEW h, Hold(c, h), Goto(c, "template") PROVE ZoneInv'
    <3>1. KnowsZones(c, "template", h)'
      BY DEF KnowsZones
    <3> QED BY <2>1, <2>4, <3>1, ZoneAside DEF Hold, Goto
  <2> QED BY <2>2, <2>3, <2>4
<1> QED BY <1>1, <1>2, <1>3 DEF CreateZone

(* The key of a zone that exists is written with a row or dropped, by a    *)
(* call or by its expiry: it is late when it differs from the table.       *)
LEMMA KeyKeeps ==
    ASSUME ZoneInv, NEW z \in ZoneIds, NEW v \in ZoneRows \cup {None},
           zoneCache' = [zoneCache EXCEPT ![z] = v],
           late \ {z} \subseteq late', v \notin {None, zones[z]} => z \in late',
           v # None => zones[z] # None, UNCHANGED <<ask, zones, orgCache>>,
           \A d \in Calls, y \in ZoneIds :
             /\ DroppingKey(d, y) => DroppingKey(d, y)'
             /\ Dropping(d, y) => Dropping(d, y)'
    PROVE  /\ zoneCache' \in [ZoneIds -> ZoneRows \cup {None}]
           /\ \A y \in ZoneIds : KeyIsFresh(y)'
           /\ \A o \in Orgs : ListIsFresh(o)'
<1>1. /\ zoneCache' \in [ZoneIds -> ZoneRows \cup {None}] /\ zoneCache'[z] = v
      /\ \A y \in ZoneIds : y # z => zoneCache'[y] = zoneCache[y] /\ (y \in late => y \in late')
      /\ v \notin {None, zones[z]} => z \in late'
      /\ \A o \in Orgs : o \in late => o \in late'
  BY KeysDiffer DEF ZoneInv, ZoneTypeOK
<1>2. ASSUME NEW y \in ZoneIds PROVE KeyIsFresh(y)'
  BY <1>1 DEF ZoneInv, KeyIsFresh
<1>3. ASSUME NEW o \in Orgs PROVE ListIsFresh(o)'
  <2>1. SelectZonesOf(o)' = SelectZonesOf(o)
    BY ListStays
  <2>2. DroppingList(o) => DroppingList(o)'
    BY DEF DroppingList
  <2> QED BY <1>1, <2>1, <2>2 DEF ZoneInv, ListIsFresh
<1> QED BY <1>1, <1>2, <1>3

(* The same for the list of an organisation. *)
LEMMA ListKeeps ==
    ASSUME ZoneInv, NEW o \in Orgs, NEW v \in ZoneLists \cup {None},
           orgCache' = [orgCache EXCEPT ![o] = v],
           late \ {o} \subseteq late', v \notin {None, SelectZonesOf(o)} => o \in late',
           UNCHANGED <<ask, zones, zoneCache>>,
           \A d \in Calls, y \in ZoneIds :
             /\ DroppingKey(d, y) => DroppingKey(d, y)'
             /\ Dropping(d, y) => Dropping(d, y)'
    PROVE  /\ orgCache' \in [Orgs -> ZoneLists \cup {None}]
           /\ \A y \in ZoneIds : KeyIsFresh(y)'
           /\ \A p \in Orgs : ListIsFresh(p)'
<1>1. /\ orgCache' \in [Orgs -> ZoneLists \cup {None}] /\ orgCache'[o] = v
      /\ \A p \in Orgs : p # o => orgCache'[p] = orgCache[p] /\ (p \in late => p \in late')
      /\ v \notin {None, SelectZonesOf(o)} => o \in late'
      /\ \A y \in ZoneIds : y \in late => y \in late'
  BY KeysDiffer DEF ZoneInv, ZoneTypeOK
<1>2. ASSUME NEW y \in ZoneIds PROVE KeyIsFresh(y)'
  BY <1>1 DEF ZoneInv, KeyIsFresh
<1>3. ASSUME NEW p \in Orgs PROVE ListIsFresh(p)'
  <2>1. SelectZonesOf(p)' = SelectZonesOf(p)
    BY ListStays
  <2>2. DroppingList(p) => DroppingList(p)'
    BY DEF DroppingList
  <2> QED BY <1>1, <2>1, <2>2 DEF ZoneInv, ListIsFresh
<1> QED BY <1>1, <1>2, <1>3

(* A reader that has filled a key is answered; it drops nothing. *)
LEMMA FillerIsAside ==
    ASSUME ZoneInv, NEW c \in Calls, at[c] = "fill", Ok(c), UNCHANGED zones
    PROVE  /\ \E h : ZoneMove(c, "done", h) /\ KnowsZones(c, "done", h)'
           /\ \A d \in Calls, y \in ZoneIds :
                /\ DroppingKey(d, y) => DroppingKey(d, y)'
                /\ Dropping(d, y) => Dropping(d, y)'
<1>1. /\ ask' = ask /\ at' = [at EXCEPT ![c] = "done"] /\ held' = held
      /\ held = [held EXCEPT ![c] = held[c]]
  BY DEF Ok, Answer, ZoneInv, ZoneTypeOK
<1>2. PICK h : ZoneMove(c, "done", h)
  BY <1>1 DEF ZoneMove, ZoneInv, ZoneTypeOK
<1>3. \A d \in Calls : d # c => at'[d] = at[d]
  BY <1>1 DEF ZoneInv, ZoneTypeOK
<1>4. ASSUME NEW d \in Calls, NEW y \in ZoneIds
      PROVE  /\ DroppingKey(d, y) => DroppingKey(d, y)'
             /\ Dropping(d, y) => Dropping(d, y)'
  BY <1>1, <1>3 DEF DroppingKey, Dropping, Serving, Subject
<1> QED BY <1>2, <1>4 DEF KnowsZones

(* GET /zones/get *)
LEMMA GetZoneKeeps ==
    ASSUME ZoneInv, NEW c \in Calls, GetZone(c)
    PROVE  ZoneInv'
<1>1. CASE Begins(c, "getzone")
  <2>1. UNCHANGED <<zones, zoneCache, orgCache, late>> /\ at[c] = "start"
    BY <1>1 DEF GetZone, Begins, Serving, zoneVars
  <2>2. Ok(c) \/ (Goto(c, "table") /\ UNCHANGED held)
    BY <1>1 DEF GetZone, Begins, Serving
  <2>3. KnowsZones(c, "table", held[c])
    BY DEF KnowsZones
  <2> QED BY <2>1, <2>2, <2>3, ZoneAnswers, ZoneGoesOn DEF Ok
<1>2. CASE Serving(c, "getzone", "table")
  <2>1. /\ UNCHANGED <<zones, zoneCache, orgCache, late>> /\ at[c] = "table"
        /\ ask[c].op = "getzone" /\ ask[c].zone \in ZoneIds
    BY <1>2, ZoneAsked DEF GetZone, Begins, Serving, zoneVars, ZoneInv
  <2>2. PICK v, h : v = zones[ask[c].zone] /\ h = Keeping(<<>>, v, None)
    OBVIOUS
  <2>3. h.zone = v /\ v \in ZoneRows \cup {None}
    BY <2>1, <2>2 DEF Keeping, ZoneInv, ZoneTypeOK
  <2>4. \/ v # None /\ Hold(c, h) /\ Goto(c, "fill")
        \/ Refuse(c)
    BY <1>2, <2>2 DEF GetZone, Begins, Serving, SelectZone
  <2>5. CASE v # None /\ Hold(c, h) /\ Goto(c, "fill")
    <3>1. KnowsZones(c, "fill", h)'
      BY <2>1, <2>2, <2>3, <2>5 DEF KnowsZones, Goto
    <3> QED BY <2>1, <2>5, <3>1, ZoneAside DEF Hold, Goto
  <2> QED BY <2>1, <2>4, <2>5, ZoneAnswers DEF Refuse
<1>3. CASE Serving(c, "getzone", "fill")
  <2>1. PICK z : z = ask[c].zone
    OBVIOUS
  <2>2. /\ ask[c].op = "getzone" /\ at[c] = "fill" /\ z \in ZoneIds
        /\ Ok(c) /\ UNCHANGED <<zones, orgCache>>
    BY <1>3, <2>1, ZoneAsked DEF GetZone, Begins, Serving, ZoneInv
  <2>3. PICK v : v = held[c].zone
    OBVIOUS
  <2>4. v \in ZoneRows /\ v # None /\ zones[z] # None
    BY <2>1, <2>2, <2>3, ZoneAssumption DEF ZoneInv, ZonesAreKnown, KnowsZones
  <2>5. \/ /\ zoneCache' = [zoneCache EXCEPT ![z] = v]
           /\ late' = IF v = zones[z] THEN late \ {z} ELSE late \cup {z}
        \/ UNCHANGED <<zoneCache, late>>
    BY <1>3, <2>1, <2>3 DEF GetZone, Begins, Serving
  <2>6. CASE UNCHANGED <<zoneCache, late>>
    BY <2>2, <2>6, ZoneAnswers DEF Ok
  <2>7. CASE /\ zoneCache' = [zoneCache EXCEPT ![z] = v]
             /\ late' = IF v = zones[z] THEN late \ {z} ELSE late \cup {z}
    <3>1. late \ {z} \subseteq late' /\ (v \notin {None, zones[z]} => z \in late')
      BY <2>7
    <3>2. UNCHANGED <<ask, zones, orgCache>>
      BY <2>2 DEF Ok, Answer
    <3>3. /\ \E h : ZoneMove(c, "done", h) /\ KnowsZones(c, "done", h)'
          /\ \A d \in Calls, y \in ZoneIds :
                /\ DroppingKey(d, y) => DroppingKey(d, y)'
                /\ Dropping(d, y) => Dropping(d, y)'
      BY <2>2, FillerIsAside
    <3>4. /\ zoneCache' \in [ZoneIds -> ZoneRows \cup {None}]
          /\ \A y \in ZoneIds : KeyIsFresh(y)'
          /\ \A o \in Orgs : ListIsFresh(o)'
      BY <2>2, <2>4, <2>7, <3>1, <3>2, <3>3, KeyKeeps
    <3> QED BY <3>2, <3>3, <3>4, ZonesStayKnown DEF ZoneInv, ZoneTypeOK
  <2> QED BY <2>5, <2>6, <2>7
<1> QED BY <1>1, <1>2, <1>3 DEF GetZone

(* GET /zones *)
LEMMA ListZonesKeeps ==
    ASSUME ZoneInv, NEW c \in Calls, ListZones(c)
    PROVE  ZoneInv'
<1>1. CASE Begins(c, "listzones")
  <2>1. UNCHANGED <<zones, zoneCache, orgCache, late>> /\ at[c] = "start"
    BY <1>1 DEF ListZones, Begins, Serving, zoneVars
  <2>2. Ok(c) \/ (Goto(c, "table") /\ UNCHANGED held)
    BY <1>1 DEF ListZones, Begins, Serving
  <2>3. KnowsZones(c, "table", held[c])
    BY DEF KnowsZones
  <2> QED BY <2>1, <2>2, <2>3, ZoneAnswers, ZoneGoesOn DEF Ok
<1>2. CASE Serving(c, "listzones", "table")
  <2>1. /\ UNCHANGED <<zones, zoneCache, orgCache, late>> /\ at[c] = "table"
        /\ ask[c].op = "listzones" /\ ask[c].org \in Orgs
    BY <1>2, ZoneAsked DEF ListZones, Begins, Serving, zoneVars, ZoneInv
  <2>2. PICK v, h : v = SelectZonesOf(ask[c].org) /\ h = Keeping(<<>>, None, v)
    OBVIOUS
  <2>3. h.list = v /\ v \in ZoneLists
    <3>1. ASSUME NEW z \in ZoneIds, zones[z] # None
          PROVE  [id |-> z, row |-> zones[z]] \in [id : ZoneIds, row : ZoneRows]
      BY <3>1 DEF ZoneInv, ZoneTypeOK
    <3> QED BY <2>2, <3>1 DEF Keeping, SelectZonesOf, ZoneLists
  <2>4. \/ Hold(c, h) /\ Answer(c, "ok")
        \/ Hold(c, h) /\ Goto(c, "fill")
        \/ Refuse(c)
    BY <1>2, <2>2 DEF ListZones, Begins, Serving
  <2>5. CASE Hold(c, h) /\ Goto(c, "fill")
    <3>1. KnowsZones(c, "fill", h)'
      BY <2>1, <2>3, <2>5 DEF KnowsZones, Goto
    <3> QED BY <2>1, <2>5, <3>1, ZoneAside DEF Hold, Goto
  <2> QED BY <2>1, <2>4, <2>5, ZoneAnswers DEF Refuse
<1>3. CASE Serving(c, "listzones", "fill")
  <2>1. PICK o : o = ask[c].org
    OBVIOUS
  <2>2. /\ ask[c].op = "listzones" /\ at[c] = "fill" /\ o \in Orgs
        /\ Ok(c) /\ UNCHANGED <<zones, zoneCache>>
    BY <1>3, <2>1, ZoneAsked DEF ListZones, Begins, Serving, ZoneInv
  <2>3. PICK v : v = held[c].list
    OBVIOUS
  <2>4. v \in ZoneLists
    BY <2>1, <2>2, <2>3 DEF ZoneInv, ZonesAreKnown, KnowsZones
  <2>5. \/ /\ orgCache' = [orgCache EXCEPT ![o] = v]
           /\ late' = IF v = SelectZonesOf(o) THEN late \ {o} ELSE late \cup {o}
        \/ UNCHANGED <<orgCache, late>>
    BY <1>3, <2>1, <2>3 DEF ListZones, Begins, Serving
  <2>6. CASE UNCHANGED <<orgCache, late>>
    BY <2>2, <2>6, ZoneAnswers DEF Ok
  <2>7. CASE /\ orgCache' = [orgCache EXCEPT ![o] = v]
             /\ late' = IF v = SelectZonesOf(o) THEN late \ {o} ELSE late \cup {o}
    <3>1. late \ {o} \subseteq late' /\ (v \notin {None, SelectZonesOf(o)} => o \in late')
      BY <2>7
    <3>2. UNCHANGED <<ask, zones, zoneCache>>
      BY <2>2 DEF Ok, Answer
    <3>3. /\ \E h : ZoneMove(c, "done", h) /\ KnowsZones(c, "done", h)'
          /\ \A d \in Calls, y \in ZoneIds :
                /\ DroppingKey(d, y) => DroppingKey(d, y)'
                /\ Dropping(d, y) => Dropping(d, y)'
      BY <2>2, FillerIsAside
    <3>4. /\ orgCache' \in [Orgs -> ZoneLists \cup {None}]
          /\ \A y \in ZoneIds : KeyIsFresh(y)'
          /\ \A p \in Orgs : ListIsFresh(p)'
      BY <2>2, <2>4, <2>7, <3>1, <3>2, <3>3, ListKeeps
    <3> QED BY <3>2, <3>3, <3>4, ZonesStayKnown DEF ZoneInv, ZoneTypeOK
  <2> QED BY <2>5, <2>6, <2>7
<1> QED BY <1>1, <1>2, <1>3 DEF ListZones

(* The metadata of a zone: the row changes while its key and its list are  *)
(* about to be dropped, or are late, as the writer does not know.          *)
LEMMA MergeKeeps ==
    ASSUME ZoneInv, NEW c \in Calls, ask[c].op = "bulkmeta", at[c] = "update",
           MergeMetadata(Subject(c), ask[c].meta), NEW l, NEW h,
           ask' = ask, at' = [at EXCEPT ![c] = l], held' = [held EXCEPT ![c] = h],
           \/ l = "forget" /\ h = held[c] /\ UNCHANGED late
           \/ l = "each" /\ h.todo \in Seq(ZoneIds) /\ late' = late \cup KeysOf(Subject(c)),
           UNCHANGED <<zoneCache, orgCache>>
    PROVE  ZoneInv'
<1>1. PICK z : z = Subject(c)
  OBVIOUS
<1>2. held[c].todo \in Seq(ZoneIds) /\ held[c].todo # <<>> /\ z = Head(held[c].todo)
  BY <1>1 DEF Subject, ZoneInv, ZonesAreKnown, KnowsZones
<1>3. z \in ZoneIds /\ ask[c].meta \in SUBSET STRING
  BY <1>2, ZoneAsked DEF ZoneInv
<1>4. /\ zones \in [ZoneIds -> ZoneRows \cup {None}] /\ zones' \in [ZoneIds -> ZoneRows \cup {None}]
      /\ \A y \in ZoneIds : y # z => zones'[y] = zones[y]
      /\ zones[z] = None => zones'[z] = None
      /\ zones[z] # None => zones'[z] # None /\ zones'[z].org = zones[z].org
  <2>1. zones \in [ZoneIds -> ZoneRows \cup {None}]
    BY DEF ZoneInv, ZoneTypeOK
  <2>2. CASE zones[z] = None
    BY <1>1, <2>1, <2>2 DEF MergeMetadata
  <2>3. CASE zones[z] # None
    <3>1. PICK row : row = [zones[z] EXCEPT !.meta = @ \cup ask[c].meta]
      OBVIOUS
    <3>2. zones' = [zones EXCEPT ![z] = row]
      BY <1>1, <2>3, <3>1 DEF MergeMetadata
    <3>3. zones[z] \in ZoneRows
      BY <1>3, <2>1, <2>3
    <3>4. row \in ZoneRows /\ row.org = zones[z].org
      BY <1>3, <3>1, <3>3 DEF ZoneRows
    <3>5. row # None
      BY <3>4, ZoneAssumption
    <3> QED BY <1>3, <2>1, <2>3, <3>2, <3>4, <3>5
  <2> QED BY <2>2, <2>3
<1>5. late \subseteq late' /\ l \in {"forget", "each"}
  OBVIOUS
<1>6. ZoneMove(c, l, h)
  BY <1>4 DEF ZoneMove
<1>7. KnowsZones(c, l, h)'
  BY <1>2 DEF KnowsZones
<1>8. /\ ZoneTypeOK' /\ ZonesAreKnown' /\ at'[c] = l /\ held'[c] = h
      /\ \A d \in Calls : d # c => at'[d] = at[d] /\ held'[d] = held[d]
  BY <1>6, <1>7, ZonesStayKnown DEF ZoneInv, ZoneTypeOK
<1>9. ASSUME NEW d \in Calls, NEW y
      PROVE  /\ DroppingKey(d, y) => DroppingKey(d, y)'
             /\ Dropping(d, y) => Dropping(d, y)'
  BY <1>8 DEF DroppingKey, Dropping, Serving, Subject
<1>10. \/ DroppingKey(c, z)' /\ Dropping(c, z)'
       \/ KeysOf(z) \subseteq late'
  <2>1. CASE l = "forget" /\ h = held[c]
    BY <1>2, <1>8, <2>1 DEF DroppingKey, Dropping, Serving, Subject
  <2>2. CASE late' = late \cup KeysOf(Subject(c))
    BY <1>1, <2>2
  <2> QED BY <2>1, <2>2
<1>11. \A y \in ZoneIds : KeyIsFresh(y)'
  BY <1>4, <1>5, <1>9, <1>10 DEF ZoneInv, KeyIsFresh, KeysOf
<1>12. ASSUME NEW o \in Orgs PROVE ListIsFresh(o)'
  <2>1. CASE zones[z] # None /\ zones[z].org = o
    <3>1. DroppingList(o)' \/ o \in late'
      BY <1>3, <1>4, <1>10, <2>1 DEF DroppingList, KeysOf
    <3> QED BY <3>1 DEF ListIsFresh
  <2>2. CASE ~(zones[z] # None /\ zones[z].org = o)
    <3>1. SelectZonesOf(o)' = SelectZonesOf(o)
      BY <1>4, <2>2, ListStays
    <3>2. DroppingList(o) => DroppingList(o)'
      BY <1>4, <1>9 DEF DroppingList
    <3> QED BY <1>5, <3>1, <3>2 DEF ZoneInv, ListIsFresh
  <2> QED BY <2>1, <2>2
<1> QED BY <1>8, <1>11, <1>12 DEF ZoneInv

(* The key of the zone is dropped; its list is next. *)
LEMMA ForgetZoneKeeps ==
    ASSUME ZoneInv, NEW c \in Calls, ask[c].op = "bulkmeta", at[c] = "forget",
           ForgetZone(Subject(c)), Goto(c, "forgetlist"), UNCHANGED <<held, zones, orgCache>>
    PROVE  ZoneInv'
<1>1. PICK z, h : z = Subject(c) /\ h = held[c]
  OBVIOUS
<1>2. h.todo \in Seq(ZoneIds) /\ h.todo # <<>> /\ z = Head(h.todo)
  BY <1>1 DEF Subject, ZoneInv, ZonesAreKnown, KnowsZones
<1>3. z \in ZoneIds
  BY <1>2
<1>4. /\ zoneCache' \in [ZoneIds -> ZoneRows \cup {None}]
      /\ \A y \in ZoneIds : y # z => zoneCache'[y] = zoneCache[y] /\ (y \in late => y \in late')
      /\ zoneCache'[z] = None \/ (zoneCache'[z] = zoneCache[z] /\ z \in late')
      /\ \A o \in Orgs : o \in late => o \in late'
  BY <1>1, <1>3, KeysDiffer DEF ForgetZone, ZoneInv, ZoneTypeOK
<1>5. /\ ask' = ask /\ at' = [at EXCEPT ![c] = "forgetlist"] /\ held' = [held EXCEPT ![c] = h]
  BY <1>1 DEF Goto, ZoneInv, ZoneTypeOK
<1>6. ZoneMove(c, "forgetlist", h)
  BY <1>5 DEF ZoneMove, ZoneInv, ZoneTypeOK
<1>7. KnowsZones(c, "forgetlist", h)'
  BY <1>2, <1>5 DEF KnowsZones
<1>8. /\ ZoneTypeOK' /\ ZonesAreKnown' /\ at'[c] = "forgetlist" /\ held'[c] = h
      /\ \A d \in Calls : d # c => at'[d] = at[d] /\ held'[d] = held[d]
  BY <1>4, <1>6, <1>7, ZonesStayKnown DEF ZoneInv, ZoneTypeOK
<1>9. ASSUME NEW d \in Calls, NEW y
      PROVE  /\ d # c /\ DroppingKey(d, y) => DroppingKey(d, y)'
             /\ Dropping(d, y) => Dropping(d, y)'
  BY <1>1, <1>5, <1>8 DEF DroppingKey, Dropping, Serving, Subject
<1>10. \A y \in ZoneIds : DroppingKey(c, y) => y = z
  BY <1>1 DEF DroppingKey
<1>11. \A y \in ZoneIds : KeyIsFresh(y)'
  BY <1>3, <1>4, <1>9, <1>10 DEF ZoneInv, KeyIsFresh
<1>12. ASSUME NEW o \in Orgs PROVE ListIsFresh(o)'
  <2>1. SelectZonesOf(o)' = SelectZonesOf(o)
    BY ListStays
  <2>2. DroppingList(o) => DroppingList(o)'
    BY <1>9 DEF DroppingList
  <2> QED BY <1>4, <2>1, <2>2 DEF ZoneInv, ListIsFresh
<1> QED BY <1>8, <1>11, <1>12 DEF ZoneInv

(* Its list is dropped, if the row is there to tell of which organisation. *)
LEMMA ForgetListLastKeeps ==
    ASSUME ZoneInv, NEW c \in Calls, ask[c].op = "bulkmeta", at[c] = "forgetlist", NEW h,
           IF SelectZone(Subject(c)) = None THEN UNCHANGED <<orgCache, late>>
             ELSE ForgetList(SelectZone(Subject(c)).org),
           Hold(c, h), h.todo \in Seq(ZoneIds), Goto(c, "each"), UNCHANGED <<zones, zoneCache>>
    PROVE  ZoneInv'
<1>1. PICK z, v : z = Subject(c) /\ v = zones[z]
  OBVIOUS
<1>2. z \in ZoneIds
  <2>1. held[c].todo \in Seq(ZoneIds) /\ held[c].todo # <<>>
    BY DEF ZoneInv, ZonesAreKnown, KnowsZones
  <2> QED BY <1>1, <2>1 DEF Subject
<1>3. /\ ask' = ask /\ at' = [at EXCEPT ![c] = "each"] /\ held' = [held EXCEPT ![c] = h]
  BY DEF Goto, Hold
<1>4. KnowsZones(c, "each", h)'
  BY DEF KnowsZones
<1>5. (\A y : ~DroppingKey(c, y)) /\ (\A y : Dropping(c, y) => y = z)
  BY <1>1 DEF DroppingKey, Dropping, Serving
<1>6. CASE v = None
  <2>1. UNCHANGED <<orgCache, late>>
    BY <1>1, <1>6 DEF SelectZone
  <2>2. ZoneMove(c, "each", h)
    BY <1>3 DEF ZoneMove, ZoneInv, ZoneTypeOK
  <2>3. /\ ZoneTypeOK' /\ ZonesAreKnown'
        /\ \A d \in Calls : d # c => at'[d] = at[d] /\ held'[d] = held[d]
    BY <1>4, <2>1, <2>2, ZonesStayKnown DEF ZoneInv, ZoneTypeOK
  <2>4. ASSUME NEW d \in Calls, NEW y, zones[y] # None
        PROVE  /\ DroppingKey(d, y) => DroppingKey(d, y)'
               /\ Dropping(d, y) => Dropping(d, y)'
    BY <1>1, <1>3, <1>5, <1>6, <2>3, <2>4 DEF DroppingKey, Dropping, Serving, Subject
  <2>5. \A y \in ZoneIds : KeyIsFresh(y)'
    BY <2>1, <2>4 DEF ZoneInv, KeyIsFresh
  <2>6. ASSUME NEW o \in Orgs PROVE ListIsFresh(o)'
    <3>1. SelectZonesOf(o)' = SelectZonesOf(o)
      BY ListStays
    <3>2. DroppingList(o) => DroppingList(o)'
      BY <2>4 DEF DroppingList
    <3> QED BY <2>1, <3>1, <3>2 DEF ZoneInv, ListIsFresh
  <2> QED BY <2>3, <2>5, <2>6 DEF ZoneInv
<1>7. CASE v # None
  <2>1. PICK o : o = v.org
    OBVIOUS
  <2>2. ForgetList(o) /\ o \in Orgs
    <3>1. v \in ZoneRows
      BY <1>1, <1>2, <1>7 DEF ZoneInv, ZoneTypeOK
    <3> QED BY <1>1, <1>7, <2>1, <3>1 DEF SelectZone, ZoneRows
  <2>3. \A y \in ZoneIds : zones[y] # None /\ Dropping(c, y) => zones[y].org = o
    BY <1>1, <1>5, <2>1
  <2> QED BY <1>3, <1>4, <1>5, <2>2, <2>3, ForgetListKeeps
<1> QED BY <1>6, <1>7

(* PATCH /zones/metadata *)
LEMMA BulkKeeps ==
    ASSUME ZoneInv, NEW c \in Calls, BulkUpdateMetadata(c)
    PROVE  ZoneInv'
<1>1. CASE /\ Begins(c, "bulkmeta")
           /\ Hold(c, Keeping(ask[c].ids, None, None)) /\ Goto(c, "each")
           /\ UNCHANGED zoneVars
  <2>1. PICK h : h = Keeping(ask[c].ids, None, None)
    OBVIOUS
  <2>2. at[c] = "start" /\ h.todo \in Seq(ZoneIds)
    BY <1>1, <2>1, ZoneAsked DEF Begins, Serving, Keeping, ZoneInv
  <2>3. KnowsZones(c, "each", h)'
    BY <2>2 DEF KnowsZones
  <2> QED BY <1>1, <2>1, <2>2, <2>3, ZoneAside DEF Hold, Goto, zoneVars
<1>2. CASE /\ Serving(c, "bulkmeta", "each")
           /\ IF held[c].todo = <<>> THEN Ok(c) ELSE Goto(c, "update") /\ UNCHANGED held
           /\ UNCHANGED zoneVars
  <2>1. /\ ask[c].op = "bulkmeta" /\ at[c] = "each" /\ held[c].todo \in Seq(ZoneIds)
        /\ UNCHANGED <<zones, zoneCache, orgCache, late>>
    BY <1>2 DEF Serving, zoneVars, ZoneInv, ZonesAreKnown, KnowsZones
  <2>2. CASE held[c].todo = <<>>
    BY <1>2, <2>1, <2>2, ZoneAnswers DEF Ok
  <2>3. CASE held[c].todo # <<>>
    <3>1. KnowsZones(c, "update", held[c])
      BY <2>1, <2>3 DEF KnowsZones
    <3> QED BY <1>2, <2>1, <2>3, <3>1, ZoneGoesOn
  <2> QED BY <2>2, <2>3
<1>3. CASE ask[c].op = "bulkmeta" /\ UpdateMetadata(c)
  <2>1. at[c] \in {"update", "forget", "forgetlist"}
    BY <1>3 DEF UpdateMetadata
  <2>2. PICK h : h = [held[c] EXCEPT !.todo = Tail(@)]
    OBVIOUS
  <2>3. held[c].todo \in Seq(ZoneIds) /\ held[c].todo # <<>>
    BY <1>3, <2>1 DEF ZoneInv, ZonesAreKnown, KnowsZones
  <2>4. h.todo \in Seq(ZoneIds)
    BY <2>2, <2>3
  <2>5. CASE at[c] = "update"
    <3>1. UNCHANGED <<zoneCache, orgCache>> /\ ask[c].op = "bulkmeta"
      BY <1>3, <2>5 DEF UpdateMetadata
    <3>2. CASE /\ MergeMetadata(Subject(c), ask[c].meta)
               /\ Goto(c, "forget") /\ UNCHANGED <<held, late>>
      <4>1. PICK g : g = held[c] /\ held' = [held EXCEPT ![c] = g]
        BY <3>2 DEF ZoneInv, ZoneTypeOK
      <4> QED BY <2>5, <3>1, <3>2, <4>1, MergeKeeps DEF Goto
    <3>3. CASE /\ MergeMetadata(Subject(c), ask[c].meta)
               /\ late' = late \cup KeysOf(Subject(c)) /\ Hold(c, h) /\ Goto(c, "each")
      BY <2>4, <2>5, <3>1, <3>3, MergeKeeps DEF Goto, Hold
    <3>4. CASE UNCHANGED <<zones, late>> /\ Hold(c, h) /\ Goto(c, "each")
      <4>1. KnowsZones(c, "each", h)'
        BY <2>4 DEF KnowsZones
      <4> QED BY <2>5, <3>1, <3>4, <4>1, ZoneAside DEF Hold, Goto
    <3> QED BY <1>3, <2>2, <2>5, <3>2, <3>3, <3>4 DEF UpdateMetadata, Unanswered
  <2>6. CASE at[c] = "forget"
    BY <1>3, <2>6, ForgetZoneKeeps DEF UpdateMetadata
  <2>7. CASE at[c] = "forgetlist"
    <3>1. /\ IF SelectZone(Subject(c)) = None THEN UNCHANGED <<orgCache, late>>
               ELSE ForgetList(SelectZone(Subject(c)).org)
          /\ Hold(c, h) /\ Goto(c, "each") /\ UNCHANGED <<zones, zoneCache>>
      BY <1>3, <2>2, <2>7 DEF UpdateMetadata
    <3> QED BY <1>3, <2>4, <2>7, <3>1, ForgetListLastKeeps
  <2> QED BY <2>1, <2>5, <2>6, <2>7
<1> QED BY <1>1, <1>2, <1>3 DEF BulkUpdateMetadata

(* Entries expire. *)
LEMMA ZoneExpiryKeeps ==
    /\ \A z \in ZoneIds : ZoneInv /\ ExpireZone(z) => ZoneInv'
    /\ \A o \in Orgs : ZoneInv /\ ExpireList(o) => ZoneInv'
<1>1. ASSUME ZoneInv, UNCHANGED <<zones, callVars>>
      PROVE  /\ \A d \in Calls, y \in ZoneIds :
                  /\ DroppingKey(d, y) => DroppingKey(d, y)'
                  /\ Dropping(d, y) => Dropping(d, y)'
             /\ ZonesAreKnown'
  BY <1>1 DEF callVars, DroppingKey, Dropping, Serving, Subject, ZoneInv, ZonesAreKnown, KnowsZones
<1>2. ASSUME NEW z \in ZoneIds, ZoneInv, ExpireZone(z) PROVE ZoneInv'
  <2>1. /\ zoneCache' = [zoneCache EXCEPT ![z] = None] /\ late' = late \ {z}
        /\ UNCHANGED <<zones, orgCache, callVars>> /\ UNCHANGED <<ask, zones, orgCache>>
    BY <1>2 DEF ExpireZone, callVars
  <2>2. /\ zoneCache' \in [ZoneIds -> ZoneRows \cup {None}]
        /\ \A y \in ZoneIds : KeyIsFresh(y)'
        /\ \A o \in Orgs : ListIsFresh(o)'
    BY <1>1, <1>2, <2>1, KeyKeeps
  <2> QED BY <1>1, <1>2, <2>1, <2>2 DEF ZoneInv, ZoneTypeOK, callVars
<1>3. ASSUME NEW o \in Orgs, ZoneInv, ExpireList(o) PROVE ZoneInv'
  <2>1. /\ orgCache' = [orgCache EXCEPT ![o] = None] /\ late' = late \ {o}
        /\ UNCHANGED <<zones, zoneCache, callVars>> /\ UNCHANGED <<ask, zones, zoneCache>>
    BY <1>3 DEF ExpireList, callVars
  <2>2. /\ orgCache' \in [Orgs -> ZoneLists \cup {None}]
        /\ \A y \in ZoneIds : KeyIsFresh(y)'
        /\ \A p \in Orgs : ListIsFresh(p)'
    BY <1>1, <1>3, <2>1, ListKeeps
  <2> QED BY <1>1, <1>3, <2>1, <2>2 DEF ZoneInv, ZoneTypeOK, callVars
<1> QED BY <1>2, <1>3

LEMMA ZoneStep == ZoneInv /\ [ZoneNext]_zoneAllVars => ZoneInv'
<1> SUFFICES ASSUME ZoneInv, [ZoneNext]_zoneAllVars PROVE ZoneInv'
  OBVIOUS
<1>1. CASE UNCHANGED zoneAllVars
  BY <1>1 DEF zoneAllVars, zoneVars, callVars, ZoneInv, ZoneTypeOK, ZonesAreKnown, KnowsZones,
              KeyIsFresh, DroppingKey, ListIsFresh, DroppingList, Dropping, Serving, Subject,
              SelectZonesOf
<1>2. ASSUME NEW c \in Calls, Malformed(c) \/ UseTemplate(c), UNCHANGED zoneVars PROVE ZoneInv'
  <2>1. at[c] = "start" /\ UNCHANGED <<zones, zoneCache, orgCache, late>>
    BY <1>2 DEF Malformed, UseTemplate, Begins, Serving, zoneVars
  <2>2. \/ Refuse(c)
        \/ Answer(c, "ok") /\ \E h : Hold(c, h)
    BY <1>2 DEF Malformed, UseTemplate
  <2> QED BY <2>1, <2>2, ZoneAnswers DEF Refuse
<1> QED BY <1>1, <1>2, CreateZoneKeeps, GetZoneKeeps, ListZonesKeeps, BulkKeeps, ZoneExpiryKeeps
       DEF ZoneNext, UseTemplate

(* A writer that changes a row goes on to drop its key and its list, and a *)
(* key is filled for a zone that exists: the inductive invariant of the    *)
(* zones and their cache, its types included.                              *)
LEMMA ZoneInvHolds == ZoneSpec => []ZoneInv
<1> QED BY ZoneStarts, ZoneStep, PTL DEF ZoneSpec

(* What Redis holds of zones is what the table holds or the difference is  *)
(* explained, for any zones, organisations and interleaving of readers,    *)
(* writers and expiries (CachedRepository).                                *)
THEOREM StaleZonesHold == ZoneSpec => []StaleZonesAreExplained
<1>1. ZoneInv => StaleZonesAreExplained
  <2> SUFFICES ASSUME ZoneInv PROVE StaleZonesAreExplained
    OBVIOUS
  <2>1. \A c \in Calls, z \in ZoneIds : DroppingKey(c, z) => Dropping(c, z)
    BY DEF DroppingKey, Dropping
  <2> QED BY <2>1 DEF ZoneInv, KeyIsFresh, ListIsFresh, DroppingList, StaleZonesAreExplained
<1> QED BY <1>1, ZoneInvHolds, PTL
=============================================================================
