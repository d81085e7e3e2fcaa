----------------------------- MODULE MCToolkit -----------------------------
(***************************************************************************)
(* The libraries under pkg that services share: circuit breaker, retries,  *)
(* dead letters, rate limits, audit trail, secrets.  Each has state of its *)
(* own, so it is enough to look at the calls of one of them at a time.     *)
(***************************************************************************)
EXTENDS Breaker, Retry, DeadLetters, RateLimiter, AuditTrail, Secrets, TLC

CONSTANTS c1, c2, c3, c4, x0, v0

FourCalls == {c1, c2, c3, c4}
OneLetter == {x0}
CallSymmetry == Permutations(Calls)
Waits == <<1, 2>>
MCPaths == {<<"auth", "/", "token">>}
Tiering == [t \in {"free", "pro"} |-> IF t = "free" THEN 1 ELSE 2]

BreakerRequests == {[op |-> "execute", bad |-> b] : b \in BOOLEAN}

RetryRequests == {[op |-> op, bad |-> b] : op \in RetryOps, b \in {FALSE}}
                   \cup {[op |-> "letters", bad |-> TRUE]}

LetterRequests ==
    {[op |-> op, bad |-> FALSE, letter |-> x0] : op \in LetterOps}
      \cup {[op |-> "stats", bad |-> TRUE]}

LimitRequests ==
    {[op |-> "tenantallow", bad |-> FALSE, tenant |-> "t", where |-> w] : w \in {"events"}}
      \cup {[op |-> "settier", bad |-> FALSE, tenant |-> "t", tier |-> s] : s \in {"pro", "gone"}}
      \cup {[op |-> "endpoint", bad |-> b, path |-> <<"auth", "/", "token">>] : b \in BOOLEAN}

AuditRequests ==
    {[op |-> "log", bad |-> FALSE, logger |-> l, zone |-> z] : l \in Loggers, z \in {"z1", "z2"}}
      \cup {[op |-> "verifychain", bad |-> b, zone |-> "z1"] : b \in BOOLEAN}

ExportRequests == {[op |-> "enqueue", bad |-> b] : b \in BOOLEAN}

(* Two processes and one secret. *)
MCSecrets == [p \in {"vault", "aws"} |-> IF p = "vault" THEN v0 ELSE None]
SecretAsk(op, p, m) == [op |-> op, bad |-> FALSE, provider |-> p, manager |-> m]

SecretRequests ==
    {SecretAsk("secret", p, "m1") : p \in {"vault", "aws", "env", "gone"}}
      \cup {SecretAsk("rotate", "aws", m) : m \in {"m1", "m2"}}
      \cup {SecretAsk("secret", "aws", "m2"), SecretAsk("dropsecret", "aws", "m1")}
      \cup {[op |-> "providers", bad |-> b] : b \in BOOLEAN}

(* Two rotations, and no more than one call that leaves the shared secret alone. *)
OfTheSecret == {f \in [Calls -> SecretRequests] :
                  /\ Cardinality({c \in Calls : f[c].op = "rotate"}) = 2
                  /\ Cardinality({c \in Calls : \/ f[c].op = "providers"
                                                \/ f[c].provider \in {"env", "gone"}}) <= 1}

(* One call that leaves the queue alone. *)
OfTheQueue == {f \in [Calls -> RetryRequests] :
                 Cardinality({c \in Calls : f[c].op \in {"replay", "letters"}}) = 1}

(* Two failures, and no more than one call that leaves the letter alone. *)
FewReads == {f \in [Calls -> LetterRequests] :
               /\ Cardinality({c \in Calls : f[c].op = "failure"}) >= 2
               /\ Cardinality({c \in Calls :
                     f[c].op \in {"add", "pending", "stats", "cleanup"}}) <= 1}

(* Three requests of the tenant while its tier is raised, or one of a path. *)
OfATenant ==
    LET of(f, op) == {c \in Calls : f[c].op = op /\ ~f[c].bad}
    IN  {f \in [Calls -> LimitRequests] :
           IF of(f, "tenantallow") = {} THEN Cardinality(of(f, "endpoint")) = 1
           ELSE /\ Cardinality(of(f, "tenantallow")) = 3
                /\ \E c \in of(f, "settier") : f[c].tier = "pro"}

(* Three entries by one logger, one of them of a zone of its own, and a    *)
(* check; or two of one zone, not both by that logger.                     *)
OfTheTrail ==
    {f \in [Calls -> AuditRequests] :
       LET logs == {c \in Calls : f[c].op = "log"}
       IN  IF Cardinality(logs) = 3
           THEN /\ \A c \in logs : f[c].logger = "l1"
                /\ Cardinality({c \in logs : f[c].zone = "z2"}) = 1
                /\ \A c \in Calls : ~f[c].bad
           ELSE /\ Cardinality(logs) = 2 /\ \E c \in logs : f[c].logger = "l2"
                /\ \A c \in logs : f[c].zone = "z1"
                /\ Cardinality({c \in Calls : f[c].bad}) = 1}

(* Three entries for the exporter. *)
OfTheExport ==
    {f \in [Calls -> ExportRequests] : Cardinality({c \in Calls : ~f[c].bad}) = 3}

MCGroups ==
    {OfTheQueue, FewReads, OfATenant, OfTheTrail, OfTheExport, OfTheSecret,
     [Calls -> BreakerRequests]}

-----------------------------------------------------------------------------
toolVars == <<callVars, breakerVars, retryVars, dlqVars, limitVars, auditVars, secretVars>>

ToolInit ==
    /\ \E group \in MCGroups : CallsInit(group)
    /\ BreakerInit /\ RetryInit /\ LettersInit /\ LimitInit /\ AuditInit /\ SecretsInit

ToolNext ==
    \/ Asked(BreakerOps) /\ BreakerNext
         /\ UNCHANGED <<retryVars, dlqVars, limitVars, auditVars, secretVars>>
    \/ Asked(RetryOps) /\ RetryNext
         /\ UNCHANGED <<breakerVars, dlqVars, limitVars, auditVars, secretVars>>
    \/ Asked(LetterOps) /\ LettersNext
         /\ UNCHANGED <<breakerVars, retryVars, limitVars, auditVars, secretVars>>
    \/ Asked(LimitOps) /\ LimitNext
         /\ UNCHANGED <<breakerVars, retryVars, dlqVars, auditVars, secretVars>>
    \/ Asked(AuditOps) /\ AuditNext
         /\ UNCHANGED <<breakerVars, retryVars, dlqVars, limitVars, secretVars>>
    \/ Asked(SecretOps) /\ SecretsNext
         /\ UNCHANGED <<breakerVars, retryVars, dlqVars, limitVars, auditVars>>

ToolSpec == ToolInit /\ [][ToolNext]_toolVars
=============================================================================
