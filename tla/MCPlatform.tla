----------------------------- MODULE MCPlatform -----------------------------
(***************************************************************************)
(* Money and automation: the wallets, the servers of the ledger, and the   *)
(* flow service with its triggers and its debugger.  What each part keeps  *)
(* is its own.  A step of one part leaves the others alone, and it is      *)
(* enough to look at the calls of one part at a time.                      *)
(***************************************************************************)
EXTENDS Wallet, LedgerApi, FlowApi, Triggers, Debugger, TLC

CONSTANTS c1, c2, c3, a0, f0, x0, s0

ThreeCalls == {c1, c2, c3}
OneAccount == {a0}
OneSession == {s0}
CallSymmetry == Permutations(Calls)

WalletRequests ==
    {[op |-> "transfer", bad |-> FALSE, ref |-> "r1", from |-> "w1", to |-> "w2", amount |-> 5],
     [op |-> "transfer", bad |-> FALSE, ref |-> "r2", from |-> "w1", to |-> "w3", amount |-> 5],
     [op |-> "topup", bad |-> FALSE, ref |-> "r1", user |-> "w1", amount |-> 5],
     [op |-> "wallet", bad |-> FALSE, user |-> "w3"],
     [op |-> "wallet", bad |-> FALSE, user |-> "w1"],
     [op |-> "wallet", bad |-> TRUE]}

(* Ledger: items of bulks, of two zones and with a reference in common. *)
Item(ref, zone, sound) == [ref |-> ref, zone |-> zone, sound |-> sound]
Both == <<Item("r1", "z1", TRUE), Item("r2", "z2", TRUE)>>
Three == <<Item("r2", "z2", FALSE), Item("r1", "z2", TRUE), Item("r1", "z2", TRUE)>>

ApiRequests ==
    {[op |-> "bulk", bad |-> FALSE, via |-> v, zone |-> "z1", items |-> Both] : v \in {"http", "grpc"}}
      \cup {[op |-> "bulk", bad |-> FALSE, via |-> "grpc", zone |-> "z1", items |-> s] :
               s \in {<<>>, Three}}
      \cup {[op |-> "record", bad |-> b, items |-> <<Item("r1", "z1", TRUE)>>] : b \in BOOLEAN}
      \cup {[op |-> "account", bad |-> FALSE, via |-> v, id |-> x] :
               v \in {"http", "grpc"}, x \in {a0, "none"}}
      \cup {[op |-> "transactions", bad |-> FALSE, zone |-> "", limit |-> 1],
            [op |-> "transactions", bad |-> FALSE, zone |-> "z1", limit |-> 0],
            [op |-> "transaction", bad |-> FALSE, ref |-> "r1"],
            [op |-> "openaccount", bad |-> FALSE]}

(* Flow service: the payload of an event may or may not name its zone. *)
EventRow(id, inside) ==
    [id |-> id, zone |-> "z1", type |-> "paid", payload |-> [zone |-> inside, type |-> ""]]
MCEvents == <<EventRow("e1", "z1"), EventRow("e2", "")>>
MCArriving == {EventRow("e3", "z1")}
MCFlows == (f0 :> [zone |-> "z1", type |-> "*", enabled |-> TRUE])

FlowRequests ==
    {[op |-> "bulkreplay", bad |-> FALSE, zone |-> "z2", ids |-> s] :
        s \in {<<"e1", "e2">>, <<"e3", "e1">>, <<>>}}
      \cup {[op |-> "replay", bad |-> FALSE, zone |-> "z2", ids |-> <<x>>] : x \in {"e1", "e3"}}
      \cup {[op |-> "past", bad |-> FALSE, zone |-> "z1", limit |-> 1, offset |-> 1]}
      \cup {[op |-> "createflow", bad |-> b, flow |-> [zone |-> "z1", type |-> "paid", enabled |-> TRUE]] :
               b \in BOOLEAN}
      \cup {[op |-> o, bad |-> FALSE, flow |-> f0] : o \in {"readflow", "readexecution"}}

NumberOf(f, op) == Cardinality({c \in Calls : f[c].op = op})

Replays == {f \in [Calls -> FlowRequests] : NumberOf(f, "bulkreplay") <= 1}

(* Triggers: patterns that overlap, and one schedule with its changes. *)
MCSchedules == (x0 :> [flow |-> "f1", cron |-> <<"0", "*", "*", "*", "*">>])
MCLength == [i \in {"minute", "5 minutes", "15 minutes", "hour", "day", "week"} |->
               IF i = "minute" THEN 1 ELSE 2]
MCTypes == {<<"payment", "succeeded">>, <<"payment", "failed">>}
Patterns == {[words |-> <<"payment", "succeeded">>, star |-> FALSE],
             [words |-> <<"payment">>, star |-> TRUE], [words |-> <<>>, star |-> TRUE]}

Listening ==
    {[op |-> "listen", bad |-> FALSE, trigger |-> [flow |-> "f1", pattern |-> p, zone |-> "z1"]] :
        p \in Patterns}
      \cup {[op |-> "listen", bad |-> p.star, trigger |-> [flow |-> "f2", pattern |-> p, zone |-> ""]] :
               p \in Patterns}
      \cup {[op |-> "unlisten", bad |-> FALSE, flow |-> "f1"]}

Planning ==
    {[op |-> "plan", bad |-> FALSE, flow |-> "f1", cron |-> <<"*", "*", "*", "*", "*">>],
     [op |-> "unplan", bad |-> FALSE, flow |-> "f1"]}
      \cup {[op |-> "stopplan", bad |-> b] : b \in BOOLEAN}

Planned == {f \in [Calls -> Planning] : \A c, d \in Calls : f[c] = f[d] => c = d}

(* Debugger: two runs, one in a session that may end or go; or one run and *)
(* a client that follows it.                                               *)
DebugRun(nodes) == [op |-> "debugrun", bad |-> FALSE, nodes |-> nodes]
DebugAsk(op, bad) == [op |-> op, bad |-> bad]

TwoRuns ==
    {f \in [Calls -> {DebugRun(<<"condition">>), DebugRun(<<"approval">>),
                      DebugAsk("forgetsessions", FALSE), DebugAsk("enddebug", FALSE)}] :
       NumberOf(f, "debugrun") = 2}

Followed ==
    {f \in [Calls -> {DebugRun(<<"condition", "approval">>), DebugAsk("debugevents", TRUE)}
                       \cup {DebugAsk(op, FALSE) : op \in DebugOps \ {"debugrun"}}] :
       \A op \in {"debugrun", "follow", "debugsession"} : NumberOf(f, op) <= 1}

MCGroups ==
    {Replays, Planned, TwoRuns, Followed}
      \cup {[Calls -> requests] :
              requests \in {WalletRequests, ApiRequests, Listening}}

-----------------------------------------------------------------------------
moneyVars == <<walletVars, apiVars>>
automationVars == <<flowApiVars, triggerVars, debugVars>>
platformVars == <<callVars, moneyVars, automationVars>>

PlatformInit ==
    /\ \E group \in MCGroups : CallsInit(group)
    /\ WalletInit /\ ApiInit
    /\ FlowApiInit /\ TriggersInit /\ DebugInit

PlatformNext ==
    \/ Asked(WalletOps) /\ WalletNext /\ UNCHANGED <<apiVars, automationVars>>
    \/ Asked(ApiOps) /\ ApiNext /\ UNCHANGED <<walletVars, automationVars>>
    \/ Asked(FlowApiOps) /\ FlowApiNext /\ UNCHANGED <<moneyVars, triggerVars, debugVars>>
    \/ Asked(ListenOps) /\ ListenNext /\ UNCHANGED <<moneyVars, flowApiVars, debugVars>>
    \/ Asked(PlanOps) /\ PlanNext /\ UNCHANGED <<moneyVars, flowApiVars, debugVars>>
    \/ Asked(DebugOps) /\ DebugNext /\ UNCHANGED <<moneyVars, flowApiVars, triggerVars>>

PlatformSpec == PlatformInit /\ [][PlatformNext]_platformVars
=============================================================================
