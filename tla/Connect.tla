------------------------------ MODULE Connect ------------------------------
(***************************************************************************)
(* The connect service: accounts of platforms and their payout settings,   *)
(* two tables written in one transaction.  An update reads the account,    *)
(* changes its copy and writes all of it back.                             *)
(* An account is named by the call that creates it.                        *)
(***************************************************************************)
EXTENDS Handlers

CONSTANTS
    FirstPlatforms,     \* the accounts of the start
    Emails,             \* the addresses that accounts may have
    Payouts             \* the payout settings that requests ask for

VARIABLES
    platforms,      \* the accounts table
    settings        \* the payout_settings table

connVars == <<platforms, settings>>

PlatformIds == Calls \cup FirstPlatforms

FirstSettings == [interval |-> "daily", bank |-> None]

(* Rows of the two tables, and the join of them. *)
PlatformRows == [email : Emails, fee : Nat]
PayoutRows == Payouts \cup {FirstSettings}
JoinedRows == [account : PlatformRows, payout : PayoutRows]

ASSUME ConnAssumption ==
    /\ Calls \cap FirstPlatforms = {} /\ "e0" \in Emails
    /\ None \notin PlatformRows \cup PayoutRows \cup JoinedRows

ConnInit ==
    /\ platforms = [a \in PlatformIds |-> IF a \in FirstPlatforms
                                          THEN [email |-> "e0", fee |-> 0] ELSE None]
    /\ settings = [a \in PlatformIds |-> IF a \in FirstPlatforms THEN FirstSettings ELSE None]

(* Repository.CreateAccount: both rows in one transaction. *)
CreateAccount(c) ==
    /\ Begins(c, "newplatform")
    /\ \/ /\ platforms' = [platforms EXCEPT ![c] = [email |-> ask[c].email, fee |-> 0]]
          /\ settings' = [settings EXCEPT ![c] = FirstSettings]
          /\ Ok(c)
       \/ MayFail /\ Refuse(c) /\ UNCHANGED connVars

(* Repository.GetAccount: one join of both rows. *)
ReadPlatform(a) == [account |-> platforms[a], payout |-> settings[a]]

(* No account is an empty answer, not an error. *)
GetAccount(c) ==
    /\ Begins(c, "getplatform")
    /\ Ok(c) \/ (MayFail /\ Refuse(c))
    /\ UNCHANGED connVars

(* Slip: each payout field is taken on its own. *)
ChangedFieldwise(row, r) ==
    [account |-> [email |-> IF r.email = None THEN row.account.email ELSE r.email,
                  fee |-> IF r.fee = 0 THEN row.account.fee ELSE r.fee],
     payout |-> IF r.payout = None THEN row.payout
                ELSE [row.payout EXCEPT !.interval = r.payout.interval]]

(* The fields a request fills; the payout settings come as a pair. *)
Changed(row, r) ==
    [account |-> [email |-> IF r.email = None THEN row.account.email ELSE r.email,
                  fee |-> IF r.fee = 0 THEN row.account.fee ELSE r.fee],
     payout |-> IF r.payout = None THEN row.payout ELSE r.payout]

(* Repository.UpdateAccount: both rows again, in one transaction. *)
StorePlatform(a, row) ==
    /\ platforms' = [platforms EXCEPT ![a] = row.account]
    /\ settings' = [settings EXCEPT ![a] = row.payout]

(* Service.UpdateAccount *)
UpdateAccount(c) ==
    \/ /\ Begins(c, "updateplatform")
       /\ LET a == ask[c].account IN
          \/ /\ platforms[a] # None
             /\ Hold(c, Changed(ReadPlatform(a), ask[c])) /\ Goto(c, "write")
          \/ platforms[a] = None /\ Ok(c)
          \/ MayFail /\ Refuse(c)
       /\ UNCHANGED connVars
    \/ /\ Serving(c, "updateplatform", "write")
       /\ \/ StorePlatform(ask[c].account, held[c]) /\ Ok(c)
          \/ MayFail /\ Refuse(c) /\ UNCHANGED connVars

ConnOps == {"newplatform", "getplatform", "updateplatform"}

ConnNext ==
    \E c \in Calls :
        \/ ask[c].op \in ConnOps /\ Malformed(c) /\ UNCHANGED connVars
        \/ CreateAccount(c) \/ GetAccount(c) \/ UpdateAccount(c)

-----------------------------------------------------------------------------
(* The changes that call c may have made to account a. *)
Changes(c, a) == ask[c].op = "updateplatform" /\ ask[c].account = a

(* Whatever updates overlap, an account has payout settings, the interval  *)
(* and the bank account of which were given together, and once an update   *)
(* is answered its change stands unless another update of the account has  *)
(* been under way (UpdateAccount).                                         *)
SettingsComeInPairs ==
    \A a \in PlatformIds : platforms[a] # None =>
        /\ settings[a] \in {FirstSettings} \cup
             ({ask[c].payout : c \in {d \in Calls : Changes(d, a)}} \ {None})
        /\ \A c \in Calls :
             /\ Changes(c, a) /\ reply[c] = "ok" /\ held[c] # None
             /\ \A d \in Calls \ {c} : Changes(d, a) => at[d] = "start"
             => ReadPlatform(a) = held[c]
=============================================================================
