------------------------------ MODULE Secrets ------------------------------
(***************************************************************************)
(* The secrets manager (pkg/secrets): providers behind a cache in memory.  *)
(* Each process has a manager of its own.  Vault and AWS are shared by all *)
(* processes; the env provider keeps to the environment of its process.    *)
(* The cache knows keys and not providers, and only a Put through the same *)
(* manager drops an entry.  The value a call writes is named by the call.  *)
(***************************************************************************)
EXTENDS Handlers

CONSTANTS
    Managers,       \* the managers, one per process
    FirstSecrets    \* the values the providers start with

VARIABLES
    primary,    \* the provider all managers are configured with
    vault,      \* the value in each shared provider, or None
    environ,    \* the value in the environment of each process, or None
    secretCache,\* the cached value of each manager, or None
    excused     \* history: managers whose entry is late, foreign, or was changed elsewhere

secretVars == <<primary, vault, environ, secretCache, excused>>

SharedProviders == {"vault", "aws"}
Providers == SharedProviders \cup {"env"}

ASSUME SecretsAssumption == FirstSecrets = [p \in SharedProviders |-> FirstSecrets[p]]

SecretsInit ==
    /\ primary \in IF Asked({"rotate"}) THEN Providers ELSE {"vault"}
    /\ vault = FirstSecrets
    /\ environ = [m \in Managers |-> None]
    /\ secretCache = [m \in Managers |-> None]
    /\ excused = {}

(* What provider p holds for manager m. *)
Value(p, m) == IF p = "env" THEN environ[m] ELSE vault[p]

(* The other managers whose entry is stale once m has changed the secret. *)
Others(m) == {o \in Managers \ {m} : primary # "env" /\ secretCache[o] # None}

-----------------------------------------------------------------------------
(* VaultProvider.Put: a POST that makes a new version. *)
VaultPut(m, v) ==
    vault' = [vault EXCEPT !["vault"] = v] /\ UNCHANGED environ

(* EnvProvider.Put: the environment of this process. *)
EnvPut(m, v) ==
    environ' = [environ EXCEPT ![m] = v] /\ UNCHANGED vault

(* PutSecretValue of AWS, which needs an existing secret; CreateSecret,    *)
(* which needs a new name, is tried after any error of it.                 *)
PutSecretValue(v) ==
    vault["aws"] # None /\ vault' = [vault EXCEPT !["aws"] = v] /\ UNCHANGED environ

CreateSecret(v) ==
    vault["aws"] = None /\ vault' = [vault EXCEPT !["aws"] = v] /\ UNCHANGED environ

(* Delete of a provider; the manager has none. *)
DeleteSecret(c) ==
    /\ Begins(c, "dropsecret")
    /\ LET p == ask[c].provider
           m == ask[c].manager
       IN  \/ /\ IF p = "env" THEN environ' = [environ EXCEPT ![m] = None] /\ UNCHANGED vault
                 ELSE vault' = [vault EXCEPT ![p] = None] /\ UNCHANGED environ
              /\ excused' = IF p # primary THEN excused
                            ELSE IF p = "env" THEN excused \cup {m} ELSE Managers
              /\ Ok(c)
           \/ MayFail /\ p # "env" /\ Refuse(c) /\ UNCHANGED <<vault, environ, excused>>
    /\ UNCHANGED <<primary, secretCache>>

-----------------------------------------------------------------------------
(* secretCache.set and delete: an entry is excused if it is not what the   *)
(* primary provider holds.                                                 *)
SetSecret(m, v) ==
    /\ secretCache' = [secretCache EXCEPT ![m] = v]
    /\ excused' = IF v = Value(primary, m) THEN excused \ {m} ELSE excused \cup {m}

DropSecret(m) ==
    secretCache' = [secretCache EXCEPT ![m] = None] /\ excused' = excused \ {m}

(* GetFrom: the cache, whichever provider is asked for; the provider; the  *)
(* cache again.                                                            *)
GetFrom(c) ==
    LET m == ask[c].manager
        p == ask[c].provider
    IN
    \/ /\ Begins(c, "secret")
       /\ \/ secretCache[m] # None /\ Hold(c, secretCache[m]) /\ Answer(c, "ok")
          \/ /\ secretCache[m] = None
             /\ IF p \in Providers THEN Goto(c, "provider") /\ UNCHANGED held ELSE Refuse(c)
       /\ UNCHANGED secretVars
    \/ /\ Serving(c, "secret", "provider")
       /\ \/ Value(p, m) # None /\ Hold(c, Value(p, m)) /\ Goto(c, "fill")
          \/ (Value(p, m) = None \/ (MayFail /\ p # "env")) /\ Refuse(c)
       /\ UNCHANGED secretVars
    \/ /\ Serving(c, "secret", "fill")
       /\ SetSecret(m, held[c])
       /\ Ok(c) /\ UNCHANGED <<primary, vault, environ>>

(* Slip: the entry is dropped before the provider is written. *)
PutDroppingFirst(c) ==
    \/ /\ at[c] = "put"
       /\ DropSecret(ask[c].manager)
       /\ Goto(c, "drop") /\ UNCHANGED <<held, primary, vault, environ>>
    \/ /\ at[c] = "drop"
       /\ IF primary = "env" THEN EnvPut(ask[c].manager, c) ELSE VaultPut(ask[c].manager, c)
       /\ Ok(c) /\ UNCHANGED <<primary, secretCache, excused>>

(* Manager.Put: the primary provider, then the entry of this manager.  An  *)
(* answer of AWS or Vault may be lost, and then the entry stays.           *)
Put(c) ==
    LET m == ask[c].manager
        written == /\ excused' = excused \cup Others(m)
                   /\ Goto(c, "drop") /\ UNCHANGED <<held, primary, secretCache>>
        lost == /\ MayFail
                /\ excused' = excused \cup Others(m) \cup {m}
                /\ Refuse(c) /\ UNCHANGED <<primary, secretCache>>
    IN
    \/ /\ at[c] = "put" /\ primary = "vault"
       /\ \/ VaultPut(m, c) /\ (written \/ lost)
          \/ MayFail /\ Refuse(c) /\ UNCHANGED secretVars
    \/ /\ at[c] = "put" /\ primary = "env"
       /\ EnvPut(m, c) /\ written
    \/ /\ at[c] = "put" /\ primary = "aws"
       /\ \/ PutSecretValue(c) /\ written
          \/ /\ MayFail /\ PutSecretValue(c) /\ Goto(c, "create")
             /\ excused' = excused \cup Others(m) \cup {m}
             /\ UNCHANGED <<held, primary, secretCache>>
          \/ /\ MayFail \/ vault["aws"] = None
             /\ Goto(c, "create") /\ UNCHANGED <<held, secretVars>>
    \/ /\ at[c] = "create"
       /\ \/ CreateSecret(c) /\ (written \/ lost)
          \/ (MayFail \/ vault["aws"] # None) /\ Refuse(c) /\ UNCHANGED secretVars
    \/ /\ at[c] = "drop"
       /\ DropSecret(m)
       /\ Ok(c) /\ UNCHANGED <<primary, vault, environ>>

(* Rotator.Rotate: a new value, which may fail, then Put. *)
Rotate(c) ==
    \/ /\ Begins(c, "rotate")
       /\ (Goto(c, "put") /\ UNCHANGED held) \/ (MayFail /\ Refuse(c))
       /\ UNCHANGED secretVars
    \/ ask[c].op = "rotate" /\ Put(c)

(* List and Health of the providers only read. *)
ReadProviders(c) ==
    /\ Begins(c, "providers")
    /\ Ok(c) \/ (MayFail /\ Refuse(c))
    /\ UNCHANGED secretVars

(* An entry expires. *)
ExpireSecret(m) ==
    /\ secretCache[m] # None
    /\ DropSecret(m) /\ UNCHANGED <<primary, vault, environ, callVars>>

SecretOps == {"secret", "rotate", "dropsecret", "providers"}

SecretsNext ==
    \/ \E c \in Calls :
         \/ ask[c].op \in SecretOps /\ Malformed(c) /\ UNCHANGED secretVars
         \/ GetFrom(c) \/ Rotate(c) \/ DeleteSecret(c) \/ ReadProviders(c)
    \/ \E m \in Managers : ExpireSecret(m)

-----------------------------------------------------------------------------
(* A rotation through manager m is under way. *)
Rotating(m) ==
    \E c \in Calls : ask[c].op = "rotate" /\ ask[c].manager = m /\ at[c] \in {"create", "drop"}

(* A manager goes on serving an old secret only for a reason: the rotation *)
(* is still being made known, its answer was lost, the secret was changed  *)
(* through another process or behind the manager, or a reader filled the   *)
(* cache with what it had read before or from another provider.  What a    *)
(* finished rotation leaves behind is the new secret (GetFrom, Put).       *)
OldSecretsAreExplained ==
    \A m \in Managers :
        secretCache[m] \notin {None, Value(primary, m)} => m \in excused \/ Rotating(m)
=============================================================================
