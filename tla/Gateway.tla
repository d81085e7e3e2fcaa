------------------------------ MODULE Gateway ------------------------------
(***************************************************************************)
(* The API gateway in front of the services, and the API keys of the auth  *)
(* service it asks for: key lookup through a Redis cache, scopes, the      *)
(* request quota of a key, routing, and the emission of events with an     *)
(* idempotency key.  A gateway request and the ValidateKey call it makes   *)
(* are one call here.  An event is named by the call that ingested it.     *)
(***************************************************************************)
EXTENDS Handlers

CONSTANTS
    APIKeys,        \* API keys, by hash
    FirstKeys,      \* the rows the api_keys table starts with
    Quota,          \* the requests a key may make in a window
    MaxWindow       \* bound: the minutes that are looked at

IdempotencyKeys == {"i1", "i2"}
Zones == {"z1", "z2"}

(* The rows of api_keys, and what a call holds: the row it has found, the  *)
(* window it has read off the clock, the minute in which Redis counted it  *)
(* if that let it in, the event it repeats.                                *)
KeyScopes == [area : {"*", "payments", "ledger"}, right : {"*", "read", "write"}]

KeyRows ==
    [type : {"secret", "publishable"}, zone : Zones, scopes : SUBSET KeyScopes,
     revoked : BOOLEAN]

Windows == 0 .. MaxWindow
Counters == APIKeys \X Windows      \* rate_limit:<hash>:<window>

Holdings ==
    [row : KeyRows, window : Windows \cup {None}, counted : Windows \cup {None},
     event : Calls \cup {None}]

(* A quota of zero or less is replaced by a hundred. *)
ASSUME GateAssumption ==
    /\ Quota \in Nat \ {0} /\ MaxWindow \in Nat
    /\ FirstKeys \in [APIKeys -> KeyRows \cup {None}]
    /\ None \notin Nat \cup Holdings

VARIABLES
    apiKeys,    \* the api_keys table
    keyCache,   \* the rows Redis holds under auth:apikey:<hash>
    window,     \* the minute of the clock
    count,      \* the counters in Redis, by key and window
    due,        \* the minute in which each counter's time to live ends
    stream,     \* the events added to the Redis streams, in order
    dedup       \* the event stored under dedup:<zone>:<idempotency key>

gateVars == <<apiKeys, keyCache, window, count, due, stream, dedup>>

-----------------------------------------------------------------------------
(* Scopes: "*", "<area>:*" or "<area>:<right>".  A path is the area it     *)
(* leads to, behind /v1 or not; the scope is looked up under the path as   *)
(* it was sent, and only payments and ledger have one.                     *)
GetRequiredScope(path, method) ==
    IF path.v1 \/ path.area \notin {"payments", "ledger"} THEN None
    ELSE [area |-> path.area, right |-> IF method = "GET" THEN "read" ELSE "write"]

HasScope(scopes, required) ==
    \/ required = None
    \/ \E s \in scopes : /\ s.area \in {"*", required.area}
                         /\ s.right \in {"*", required.right}

(* The service a path is routed to, once /v1 is cut off. *)
Route(area) ==
    CASE area \in {"payments", "ledger", "wallets", "billing"} -> area
      [] area \in {"webhooks", "notifications"} -> "notifications"
      [] area \in {"flows", "executions"} -> "flow"
      [] area = "events" -> "events"
      [] OTHER -> "none"

-----------------------------------------------------------------------------
(* A key exists from the start or is made by GenerateAPIKey. *)
KeyRow(type, zone, scopes) ==
    [type |-> type, zone |-> zone, scopes |-> scopes, revoked |-> FALSE]

FullAccess == {[area |-> "*", right |-> "*"]}

GateInit ==
    /\ apiKeys = FirstKeys
    /\ keyCache = [k \in APIKeys |-> None]
    /\ window = 0
    /\ count = [k \in Counters |-> 0]
    /\ due = [k \in Counters |-> None]
    /\ stream = <<>>
    /\ dedup = [k \in Zones \X IdempotencyKeys |-> None]

(* SQLRepository.CreateAPIKey: no scopes means all scopes. *)
CreateAPIKey(k, row) ==
    apiKeys' = [apiKeys EXCEPT
                  ![k] = [row EXCEPT !.scopes = IF @ = {} THEN FullAccess ELSE @]]

(* POST /api-keys for a logged-in user, with a fresh random key. *)
GenerateAPIKey(c) ==
    /\ Begins(c, "generate")
    /\ \E k \in APIKeys :
         /\ apiKeys[k] = None
         /\ \/ CreateAPIKey(k, KeyRow(ask[c].type, ask[c].zone, {})) /\ Ok(c)
            \/ /\ Unanswered(CreateAPIKey(k, KeyRow(ask[c].type, ask[c].zone, {})), apiKeys)
               /\ Refuse(c)
    /\ UNCHANGED <<keyCache, window, count, due, stream, dedup>>

(* Nothing in the repository writes revoked_at: an operator does. *)
RevokeKey(k) ==
    /\ apiKeys[k] # None /\ ~apiKeys[k].revoked
    /\ apiKeys' = [apiKeys EXCEPT ![k].revoked = TRUE]
    /\ UNCHANGED <<keyCache, window, count, due, stream, dedup, callVars>>

(* SQLRepository.GetAPIKeyByHash *)
ReadKeyRow(k) == apiKeys[k]

Holding(row) == [row |-> row, window |-> None, counted |-> None, event |-> None]

(* CachedRepository.GetAPIKeyByHash for the key of c: the cache, else the  *)
(* table, and then the cache is filled, unless Redis fails.                *)
GetAPIKeyByHash(c) ==
    \/ /\ at[c] = "cache"
       /\ \/ /\ keyCache[ask[c].key] # None
             /\ Hold(c, Holding(keyCache[ask[c].key])) /\ Goto(c, "judge")
          \/ /\ MayFail \/ keyCache[ask[c].key] = None
             /\ Goto(c, "table") /\ UNCHANGED held
       /\ UNCHANGED keyCache
    \/ /\ at[c] = "table"
       /\ \/ /\ ReadKeyRow(ask[c].key) # None
             /\ Hold(c, Holding(ReadKeyRow(ask[c].key))) /\ Goto(c, "fill")
          \/ (MayFail \/ ReadKeyRow(ask[c].key) = None) /\ Refuse(c)
       /\ UNCHANGED keyCache
    \/ /\ at[c] = "fill"
       /\ \/ keyCache' = [keyCache EXCEPT ![ask[c].key] = held[c].row]
          \/ MayFail /\ UNCHANGED keyCache
       /\ Goto(c, "judge") /\ UNCHANGED held

(* The cached row expires after five minutes. *)
ExpireKey(k) ==
    /\ keyCache[k] # None
    /\ keyCache' = [keyCache EXCEPT ![k] = None]
    /\ UNCHANGED <<apiKeys, window, count, due, stream, dedup, callVars>>

(* POST /validate: what the table or the cache says of a key. *)
ValidateAPIKey(c) ==
    \/ Begins(c, "validatekey") /\ Goto(c, "cache") /\ UNCHANGED <<held, gateVars>>
    \/ /\ ask[c].op = "validatekey" /\ GetAPIKeyByHash(c)
       /\ UNCHANGED <<apiKeys, window, count, due, stream, dedup>>
    \/ /\ Serving(c, "validatekey", "judge")
       /\ IF held[c].row.revoked THEN Refuse(c) ELSE Ok(c)
       /\ UNCHANGED gateVars

-----------------------------------------------------------------------------
(* ServeHTTP, from the path to the lookup of the key. *)
ReceiveRequest(c) ==
    /\ Begins(c, "http")
    /\ IF ask[c].path.area \in {"auth", "health"}
       THEN Answer(c, "public") /\ UNCHANGED held
       ELSE Goto(c, "cache") /\ UNCHANGED held
    /\ UNCHANGED gateVars

(* AuthGRPCServer.ValidateKey: an error, no row and a revoked one are alike. *)
ValidateKey(c) ==
    /\ ask[c].op = "http" /\ GetAPIKeyByHash(c)
    /\ UNCHANGED <<apiKeys, window, count, due, stream, dedup>>

Emits(c) == ask[c].path.area = "events" /\ ask[c].idem # None

(* Publishable keys only emit, behind /v1; then the scope. *)
MayAsk(c) ==
    LET row == held[c].row IN
    /\ ~row.revoked
    /\ row.type = "publishable" => Emits(c) /\ ask[c].path.v1
    /\ HasScope(row.scopes, GetRequiredScope(ask[c].path, ask[c].method))

EnforceKey(c) ==
    /\ Serving(c, "http", "judge")
    /\ IF MayAsk(c) THEN Goto(c, "limit") /\ UNCHANGED held ELSE Refuse(c)
    /\ UNCHANGED gateVars

(* redisKey *)
CounterOf(c) == <<ask[c].key, held[c].window>>
Incr(k) == count' = [count EXCEPT ![k] = @ + 1]

(* Slip: the counter is read and compared in one round trip and counted up *)
(* in another.                                                             *)
CheckRateLimitInTwo(c) ==
    \/ /\ Serving(c, "http", "limit")
       /\ IF count[<<ask[c].key, window>>] < Quota
          THEN Hold(c, [held[c] EXCEPT !.window = window]) /\ Goto(c, "incr")
          ELSE Refuse(c)
       /\ UNCHANGED gateVars
    \/ /\ Serving(c, "http", "incr")
       /\ Incr(CounterOf(c))
       /\ Hold(c, [held[c] EXCEPT !.counted = window])
       /\ Goto(c, "route")
       /\ UNCHANGED <<apiKeys, keyCache, window, due, stream, dedup>>

(* checkRateLimit: the minute is read off the clock, INCR counts up the    *)
(* counter of the key in this minute, and whoever finds it at one sets its *)
(* time to live, of a minute, without a look at the outcome.  An error of  *)
(* INCR turns the request away, counted or not.                            *)
CheckRateLimit(c) ==
    \/ /\ Serving(c, "http", "limit")
       /\ Hold(c, [held[c] EXCEPT !.window = window]) /\ Goto(c, "incr")
       /\ UNCHANGED gateVars
    \/ /\ Serving(c, "http", "incr")
       /\ \/ /\ Incr(CounterOf(c))
             /\ IF count[CounterOf(c)] < Quota
                THEN /\ Hold(c, [held[c] EXCEPT !.counted = window])
                     /\ Goto(c, IF count[CounterOf(c)] = 0 THEN "expire" ELSE "route")
                ELSE Refuse(c)
          \/ Unanswered(Incr(CounterOf(c)), count) /\ Refuse(c)
       /\ UNCHANGED <<apiKeys, keyCache, window, due, stream, dedup>>
    \/ /\ Serving(c, "http", "expire")
       /\ due' = [due EXCEPT ![CounterOf(c)] = window + 1] \/ (MayFail /\ UNCHANGED due)
       /\ Goto(c, "route") /\ UNCHANGED held
       /\ UNCHANGED <<apiKeys, keyCache, window, count, stream, dedup>>

(* Redis drops a counter at the end of its time to live; the next INCR     *)
(* under its name, that of a request held up since it read the clock,      *)
(* starts from nothing.                                                    *)
ExpireCounter(k) ==
    /\ due[k] # None /\ due[k] <= window
    /\ count' = [count EXCEPT ![k] = 0]
    /\ due' = [due EXCEPT ![k] = None]
    /\ UNCHANGED <<apiKeys, keyCache, window, stream, dedup, callVars>>

(* The clock goes on to the next minute. *)
NextWindow ==
    /\ window < MaxWindow
    /\ window' = window + 1
    /\ UNCHANGED <<apiKeys, keyCache, count, due, stream, dedup, callVars>>

(* The switch of ServeHTTP; a proxied request is the service's to answer. *)
RouteRequest(c) ==
    /\ Serving(c, "http", "route")
    /\ IF Emits(c) THEN Goto(c, "emit")
       ELSE IF Route(ask[c].path.area) = "none" THEN Answer(c, "refused")
       ELSE Answer(c, "proxied")
    /\ UNCHANGED <<held, gateVars>>

(* The zone is part of the key under which a result is stored. *)
DedupKey(c) == <<held[c].row.zone, ask[c].idem>>

(* handleEventEmit: look the key up (an error reads as absent), add the    *)
(* event, store the result if Redis lets it.                               *)
HandleEventEmit(c) ==
    \/ /\ Serving(c, "http", "emit")
       /\ \/ /\ dedup[DedupKey(c)] # None
             /\ Hold(c, [held[c] EXCEPT !.event = dedup[DedupKey(c)]])
             /\ Answer(c, "duplicate")
          \/ /\ MayFail \/ dedup[DedupKey(c)] = None
             /\ Goto(c, "add") /\ UNCHANGED held
       /\ UNCHANGED <<stream, dedup>>
    \/ /\ Serving(c, "http", "add")
       /\ \/ /\ stream' = Append(stream, [event |-> c, zone |-> held[c].row.zone,
                                           idem |-> ask[c].idem])
             /\ Goto(c, "store") /\ UNCHANGED held
          \/ /\ Unanswered(stream' = Append(stream, [event |-> c, zone |-> held[c].row.zone,
                                                      idem |-> ask[c].idem]), stream)
             /\ Refuse(c)
       /\ UNCHANGED dedup
    \/ /\ Serving(c, "http", "store")
       /\ dedup' = [dedup EXCEPT ![DedupKey(c)] = c] \/ (MayFail /\ UNCHANGED dedup)
       /\ Answer(c, "ingested")
       /\ UNCHANGED <<held, stream>>

ServeHTTP(c) ==
    \/ ReceiveRequest(c) \/ ValidateKey(c) \/ EnforceKey(c)
    \/ CheckRateLimit(c) \/ RouteRequest(c)
    \/ HandleEventEmit(c) /\ UNCHANGED <<apiKeys, keyCache, window, count, due>>

GateOps == {"generate", "validatekey", "http"}

GateNext ==
    \/ \E c \in Calls :
         \/ ask[c].op \in GateOps /\ Malformed(c) /\ UNCHANGED gateVars
         \/ GenerateAPIKey(c) \/ ValidateAPIKey(c) \/ ServeHTTP(c)
    \/ \E k \in APIKeys : RevokeKey(k) \/ ExpireKey(k)
    \/ \E k \in Counters : ExpireCounter(k)
    \/ NextWindow

-----------------------------------------------------------------------------
(* The call got past the quota of its key: it read minute w off the clock  *)
(* and Redis counted it before that minute was over.                       *)
Admitted(c, k, w) ==
    /\ ask[c].op = "http" /\ ask[c].key = k
    /\ held[c] # None /\ held[c].window = w /\ held[c].counted = w

(* Of the requests of a key that are counted in the minute they came in,   *)
(* no more get through than its quota, whatever requests race, whatever    *)
(* answers are lost and whenever Redis drops a counter: the time to live   *)
(* of checkRateLimit is as long as its window, so that no counter goes     *)
(* while its minute lasts.  A request held up until the next minute is not *)
(* covered: its counter may have gone.                                     *)
QuotaHolds ==
    \A k \in APIKeys, w \in Windows :
        Cardinality({c \in Calls : Admitted(c, k, w)}) <= Quota
=============================================================================
