------------------------------ MODULE Policies ------------------------------
(***************************************************************************)
(* The policy engines: a table in the code, one in JSON and one in Rego,   *)
(* of which the first that loads is used, and the check of the auth        *)
(* service in front of them.  They keep no state.                          *)
(***************************************************************************)
EXTENDS Handlers

PolicyRoles == {"admin", "finance", "developer", "viewer"}

PolicyActions ==
    {"zone.create", "zone.delete", "flow.deploy", "flow.deploy.live", "payment.create",
     "refund.create", "key.create", "key.revoke", "user.invite", "user.remove",
     "settings.update"}

(* Slip: finance may deploy, but not live. *)
permissionsWithoutLive ==
    [finance |-> {"payment.create", "refund.create", "flow.deploy"},
     developer |-> {"zone.create", "flow.deploy", "key.create"},
     viewer |-> {}]

(* The matrix of roleAllowsAction *)
permissions ==
    [finance |-> {"payment.create", "refund.create", "flow.deploy", "flow.deploy.live"},
     developer |-> {"zone.create", "flow.deploy", "key.create"},
     viewer |-> {}]

roleAllowsAction(role, action) ==
    role = "admin" \/ (role \in DOMAIN permissions /\ action \in permissions[role])

(* HardcodedPolicyEngine.Check: some role of the user allows it. *)
HardcodedCheck(roles, action) == \E r \in roles : roleAllowsAction(r, action)

(* config/policies.json, and the same data in config/policies.rego *)
ConfiguredRoles ==
    [admin |-> {"*"},
     finance |-> {"payment.create", "refund.create", "flow.deploy", "flow.deploy.live"},
     developer |-> {"zone.create", "flow.deploy", "key.create"},
     viewer |-> {}]

(* JSONPolicyEngine.Check: role by role, a wildcard or the action. *)
JSONCheck(roles, action) ==
    \E r \in roles \cap DOMAIN ConfiguredRoles : {"*", action} \cap ConfiguredRoles[r] # {}

(* OPAPolicyEngine.Check of data.sapliy.authz.allow: two rules, or deny. *)
OPACheck(roles, action) ==
    \/ \E r \in roles \cap DOMAIN ConfiguredRoles : "*" \in ConfiguredRoles[r]
    \/ \E r \in roles \cap DOMAIN ConfiguredRoles : action \in ConfiguredRoles[r]

(* NewEngine: Rego if its file loads, else JSON, else the table. *)
EngineCheck(rego, json, roles, action) ==
    IF rego THEN OPACheck(roles, action)
    ELSE IF json THEN JSONCheck(roles, action)
    ELSE HardcodedCheck(roles, action)

(* PolicyEngine.Can of the auth service: owners and admins may do anything. *)
Can(role, action, rego, json) ==
    role \in {"owner", "admin"} \/ EngineCheck(rego, json, {role}, action)

(* PolicyMiddleware.Check: the engine is asked about the roles of a user. *)
CheckPolicy(c) ==
    /\ Begins(c, "checkpolicy")
    /\ IF EngineCheck(ask[c].rego, ask[c].json, ask[c].roles, ask[c].action)
       THEN Ok(c) ELSE Refuse(c)

(* PolicyEngine.ValidateAction: the auth service asks about one role. *)
ValidateAction(c) ==
    /\ Begins(c, "validateaction")
    /\ IF Can(ask[c].role, ask[c].action, ask[c].rego, ask[c].json)
       THEN Ok(c) ELSE Refuse(c)

PolicyOps == {"checkpolicy", "validateaction"}

PolicyNext == \E c \in Calls : CheckPolicy(c) \/ ValidateAction(c)

-----------------------------------------------------------------------------
(* Whichever file is missing or broken, the engine that is left decides    *)
(* alike: a deployment that falls back to the next engine grants and       *)
(* refuses the same, and the auth service does so for each of the roles    *)
(* both know (NewEngine, PolicyEngine.Can).                                *)
EnginesAgree ==
    \A c \in Calls : ask[c].op \in PolicyOps /\ ~ask[c].bad /\ at[c] = "done" =>
        LET roles == IF ask[c].op = "checkpolicy" THEN ask[c].roles ELSE {ask[c].role}
        IN  (reply[c] = "ok") <=> HardcodedCheck(roles, ask[c].action)
=============================================================================
