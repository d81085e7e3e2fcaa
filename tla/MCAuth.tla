------------------------------ MODULE MCAuth ------------------------------
(***************************************************************************)
(* The auth service and the gateway in front of it: users, OAuth clients,  *)
(* teams, policies, API keys, zones.  The parts share no table and no      *)
(* Redis key, so a step of one leaves the state of the others alone, and   *)
(* calls of different parts cannot affect each other; it is enough to look *)
(* at the calls of one part at a time.                                     *)
(***************************************************************************)
EXTENDS Credentials, OAuth, Teams, Policies, Gateway, ZoneService, TLC

CONSTANTS c1, c2, c3, k0, z0

ThreeCalls == {c1, c2, c3}
OneClient == {k0}
OneZone == {z0}
CallSymmetry == Permutations(Calls)

Ask(op, email, password) ==
    [op |-> op, bad |-> FALSE, email |-> email, password |-> password, identity |-> "x"]

CredRequests ==
    {Ask("register", "a", "first"), Ask("sso", "a", None), Ask("resend", "a", None),
     Ask("forgot", "b", None), Ask("debug", "b", None), Ask("login", "b", "second"),
     Ask("reset", None, "second"), Ask("verify", None, None),
     [op |-> "login", bad |-> TRUE]}

Exchange(uri, v) == [op |-> "exchange", bad |-> FALSE, uri |-> uri, verifier |-> v]

Authorize(challenge, method) ==
    [op |-> "authorize", bad |-> FALSE, user |-> "u", uri |-> "r1",
     challenge |-> challenge, method |-> method]

OAuthRequests ==
    {[op |-> "client", bad |-> FALSE, user |-> "u", public |-> p] : p \in BOOLEAN}
      \cup {Authorize(None, None), Authorize(Challenge("v", TRUE), None),
            Authorize(Challenge("v", FALSE), "plain")}
      \cup {Exchange(None, "v"), Exchange("r1", None)}
      \cup {[op |-> "credentials", bad |-> FALSE, secret |-> "right"],
            [op |-> "introspect", bad |-> FALSE], [op |-> "validate", bad |-> TRUE],
            [op |-> "validate", bad |-> FALSE]}

TeamRequests ==
    {[op |-> op, bad |-> FALSE, user |-> "u", domain |-> "d", role |-> "member",
      type |-> "oidc"] : op \in TeamOps \ {"logs"}}
      \cup {[op |-> "logs", bad |-> FALSE, action |-> a, limit |-> 2] : a \in {None, "login"}}
      \cup {[op |-> "add", bad |-> FALSE, user |-> "u", domain |-> "d", role |-> "admin",
              type |-> "oidc"], [op |-> "org", bad |-> TRUE, user |-> "u"]}

Http(area, v1, key, idem) ==
    [op |-> "http", bad |-> FALSE, path |-> [area |-> area, v1 |-> v1], method |-> "POST",
     key |-> key, idem |-> idem]

MCKeys == [k \in APIKeys |-> CASE k = "k1" -> KeyRow("secret", "z1", FullAccess)
                               [] OTHER -> None]

GateRequests ==
    {Http("events", TRUE, k, "i1") : k \in {"k1", "k2"}}
      \cup {Http("payments", FALSE, "k1", None), Http("health", FALSE, "k1", None),
            Http("reports", TRUE, "k1", None)}
      \cup {[op |-> "generate", bad |-> FALSE, zone |-> "z2", type |-> "publishable"],
            [Http("payments", FALSE, "k1", None) EXCEPT !.bad = TRUE],
            [op |-> "validatekey", bad |-> FALSE, key |-> "k1"]}

(* Payments with the key k1 but for one call, or an event and its repeat. *)
OfOneKey == {f \in [Calls -> GateRequests] :
               LET others == {c \in Calls : f[c] # Http("payments", FALSE, "k1", None)} IN
               \/ Cardinality(others) <= 1
               \/ /\ Cardinality(others) = 2
                  /\ \A c \in others : f[c] = Http("events", TRUE, "k1", "i1")}

ZoneRequests ==
    {[op |-> "createzone", bad |-> FALSE, org |-> "o", mode |-> "test", template |-> t] :
        t \in {"default", "marketplace"}}
      \cup {[op |-> "bulkmeta", bad |-> FALSE, ids |-> ids, meta |-> {"m"}] :
               ids \in {<<z0>>, <<z0, z0>>}}
      \cup {[op |-> "getzone", bad |-> FALSE, zone |-> z0],
            [op |-> "listzones", bad |-> FALSE, org |-> "o"],
            [op |-> "template", bad |-> FALSE, type |-> "e-commerce"],
            [op |-> "template", bad |-> FALSE, type |-> "unknown"],
            [op |-> "template", bad |-> TRUE]}

(* One question to the policies. *)
PolicyRequests ==
    [op : {"checkpolicy"}, bad : {FALSE}, roles : SUBSET (PolicyRoles \cup {"stranger"}),
     action : PolicyActions, rego : BOOLEAN, json : BOOLEAN]
      \cup [op : {"validateaction"}, bad : {FALSE}, role : PolicyRoles,
            action : PolicyActions, rego : BOOLEAN, json : BOOLEAN]

NoQuestion == [op |-> "checkpolicy", bad |-> TRUE]
OneQuestion == {[c \in Calls |-> IF c = d THEN q ELSE NoQuestion] : d \in Calls, q \in PolicyRequests}

MCGroups ==
    {OneQuestion, OfOneKey}
      \cup {[Calls -> requests] :
               requests \in {CredRequests, OAuthRequests, TeamRequests, ZoneRequests}}

-----------------------------------------------------------------------------
peopleVars == <<credVars, oauthVars, teamVars>>
placeVars == <<gateVars, zoneVars>>
authVars == <<callVars, peopleVars, placeVars>>

AuthInit ==
    /\ \E group \in MCGroups : CallsInit(group)
    /\ CredInit /\ OAuthInit /\ TeamInit
    /\ GateInit /\ ZoneInit

(* The routes of the HTTP servers and the methods of the gRPC server. *)
AuthNext ==
    \/ Asked(CredOps) /\ CredNext /\ UNCHANGED <<oauthVars, teamVars, placeVars>>
    \/ Asked(OAuthOps) /\ OAuthNext /\ UNCHANGED <<credVars, teamVars, placeVars>>
    \/ Asked(TeamOps) /\ TeamNext /\ UNCHANGED <<credVars, oauthVars, placeVars>>
    \/ Asked(PolicyOps) /\ PolicyNext /\ UNCHANGED <<peopleVars, placeVars>>
    \/ Asked(GateOps) /\ GateNext /\ UNCHANGED <<peopleVars, zoneVars>>
    \/ Asked(ZoneOps) /\ ZoneNext /\ UNCHANGED <<peopleVars, gateVars>>

AuthSpec == AuthInit /\ [][AuthNext]_authVars
=============================================================================
