------------------------------- MODULE MCFlow -------------------------------
(* A small instance of Flow for TLC: one event, two resume requests, two   *)
(* edits of the definition.                                                *)
EXTENDS Flow

CONSTANTS m1, r1, r2, e1, e2

OneMessage == {m1}
TwoResumers == {r1, r2}
TwoEditors == {e1, e2}
MCEventType == [m \in OneMessage |-> "payment.succeeded"]
MCNodes == {"trigger", "amount", "ok", "hook", "after"}

Edge(s, t, h) == [source |-> s, target |-> t, handle |-> h]

(* Trigger, a condition whose one branch needs an approval before a        *)
(* webhook, and a webhook after either branch.                             *)
Guarded ==
    [on |-> "payment.succeeded", trigger |-> "trigger",
     type |-> [n \in MCNodes |->
                 CASE n = "trigger" -> "eventTrigger" [] n = "amount" -> "condition"
                   [] n = "ok" -> "approval" [] OTHER -> "webhook"],
     edges |-> <<Edge("trigger", "amount", ""), Edge("amount", "ok", "true"),
                 Edge("amount", "after", "false"), Edge("ok", "hook", ""),
                 Edge("trigger", "after", "")>>]

(* Two approvals in a row, for every event.                                *)
TwoStage ==
    [on |-> "*", trigger |-> "trigger",
     type |-> [n \in MCNodes \ {"after"} |->
                 CASE n = "trigger" -> "eventTrigger" [] n \in {"amount", "ok"} -> "approval"
                   [] OTHER -> "webhook"],
     edges |-> <<Edge("trigger", "amount", ""), Edge("amount", "ok", ""),
                 Edge("ok", "hook", ""), Edge("hook", "after", "")>>]

(* Without any approval.                                                   *)
Retired ==
    [on |-> "payment.succeeded", trigger |-> "trigger",
     type |-> [n \in {"trigger", "hook", "after"} |->
                 IF n = "trigger" THEN "eventTrigger" ELSE "webhook"],
     edges |-> <<Edge("trigger", "hook", ""), Edge("trigger", "after", "")>>]

MCBody == [e \in TwoEditors |-> IF e = e1 THEN [content |-> TwoStage, enabled |-> TRUE]
                                           ELSE [content |-> Retired, enabled |-> FALSE]]

ThreeContents == {Guarded, TwoStage, Retired}
=============================================================================
