---------------------------- MODULE RateLimiter ----------------------------
(***************************************************************************)
(* The sliding window limiter over sorted sets in Redis, with the limits   *)
(* of tenants by tier and of endpoints by path.  A request reads its       *)
(* clock, prunes and counts in one pipeline and adds itself in another; a  *)
(* pipeline is not a transaction, so the commands of others come between   *)
(* its own.  An entry is named by the call that adds it.                   *)
(***************************************************************************)
EXTENDS Handlers, Integers

CONSTANTS
    Tenants,        \* tenants
    Paths,          \* the paths of endpoints, as sequences
    TierLimit,      \* the limit of each tier that has one
    DefaultTier,    \* the tier of a tenant that has none
    Span,           \* the length of the window
    MaxMoment       \* bound: the times that are looked at

(* What a request keeps while it is checked: its clock and its limit.  The *)
(* rest is history: the requests whose entries it had to prune, those on   *)
(* which its count rests, and what has become of its own entry.            *)
Checks == [time : Nat, limit : Int, past : SUBSET Calls, found : SUBSET Calls,
           entry : {"none", "added", "safe"}]

ASSUME LimitAssumption ==
    /\ TierLimit \in [DOMAIN TierLimit -> Int] /\ DefaultTier \in DOMAIN TierLimit
    /\ Span \in Nat /\ None \notin Nat \cup Checks

VARIABLES
    tiers,      \* the tier set for each tenant
    entries,    \* the sorted set of each key: calls with their times
    deadlines,  \* when each key expires
    moment      \* the time

limitVars == <<tiers, entries, deadlines, moment>>

(* Tenants are limited at an endpoint or, under "global", altogether. *)
Keys == ({"tenant"} \X (Tenants \cup {"global"}) \X (Tenants \cup {"events"})) \cup Paths

LimitInit ==
    /\ tiers = [t \in Tenants |-> None]
    /\ entries = [k \in Keys |-> {}]
    /\ deadlines = [k \in Keys |-> None]
    /\ moment = 0

(* Patterns end in a star or stand for themselves; the first that matches  *)
(* decides.  A star inside a pattern is a character like any other.        *)
MatchPath(pattern, path) ==
    \/ pattern.path = path
    \/ /\ pattern.star /\ Len(path) >= Len(pattern.path)
       /\ pattern.path = SubSeq(path, 1, Len(pattern.path))

Pattern(path, star) == [path |-> path, star |-> star]

DefaultEndpointConfigs ==
    <<[patterns |-> {Pattern(<<"auth", "/">>, TRUE), Pattern(<<"login">>, FALSE),
                     Pattern(<<"register">>, FALSE)}, limit |-> 10],
      [patterns |-> {Pattern(<<"events">>, FALSE), Pattern(<<"zones", "/", "*", "/", "events">>, FALSE)},
       limit |-> 10000],
      [patterns |-> {Pattern(<<"webhooks", "/">>, TRUE)}, limit |-> 1000],
      [patterns |-> {Pattern(<<"admin", "/">>, TRUE), Pattern(<<"management", "/">>, TRUE)},
       limit |-> 100]>>

FindConfig(path) ==
    LET matching == {n \in 1 .. Len(DefaultEndpointConfigs) :
                       \E p \in DefaultEndpointConfigs[n].patterns : MatchPath(p, path)}
    IN  IF matching = {} THEN 1000
        ELSE DefaultEndpointConfigs[CHOOSE n \in matching : \A m \in matching : n <= m].limit

GetTenantTier(t) == IF tiers[t] = None THEN DefaultTier ELSE tiers[t]

TenantLimit(t) ==
    TierLimit[IF GetTenantTier(t) \in DOMAIN TierLimit THEN GetTenantTier(t) ELSE DefaultTier]

SetTenantTier(c) ==
    /\ Begins(c, "settier")
    /\ tiers' = [tiers EXCEPT ![ask[c].tenant] = ask[c].tier]
    /\ Ok(c) /\ UNCHANGED <<entries, deadlines, moment>>

Check(limit) ==
    [time |-> moment, limit |-> limit, past |-> {}, found |-> {}, entry |-> "none"]

(* TenantLimiter.Allow and AllowGlobal, and the start of AllowN: the limit and the time. *)
TenantAllow(c) ==
    /\ Begins(c, "tenantallow")
    /\ Hold(c, Check(TenantLimit(ask[c].tenant)))
    /\ Goto(c, "check") /\ UNCHANGED limitVars

(* EndpointLimiter.Allow *)
EndpointAllow(c) ==
    /\ Begins(c, "endpoint")
    /\ Hold(c, Check(FindConfig(ask[c].path)))
    /\ Goto(c, "check") /\ UNCHANGED limitVars

KeyOf(c) ==
    IF ask[c].op = "endpoint" THEN ask[c].path
    ELSE IF ask[c].where = "global" THEN <<"tenant", "global", ask[c].tenant>>
    ELSE <<"tenant", ask[c].tenant, ask[c].where>>

Pruned(k, t) == {e \in entries[k] : e.time > t - Span}

Entry(c) == [of |-> c, time |-> held[c].time]

(* History: the requests that have added an entry under a key, *)
Logged(k) ==
    {d \in Calls : /\ ask[d].op \in {"tenantallow", "endpoint"} /\ held[d] # None
                   /\ KeyOf(d) = k /\ held[d].entry # "none"}

(* and those of the last window whose entry got its time to live. *)
Recent(k) == {d \in Logged(k) : held[d].entry = "safe" /\ held[d].time > moment - Span}

(* ZREMRANGEBYSCORE; an empty set is no key any more. *)
Prune(c) ==
    /\ at[c] = "check"
    /\ LET k == KeyOf(c)
           left == Pruned(k, held[c].time)
       IN  /\ entries' = [entries EXCEPT ![k] = left]
           /\ deadlines' = [deadlines EXCEPT ![k] = IF left = {} THEN None ELSE @]
           /\ Hold(c, [held[c] EXCEPT
                !.past = {d \in Logged(k) : held[d].time <= held[c].time - Span}])
    /\ Goto(c, "count")

(* Slip: the last request of a window is turned away. *)
WithinButOne(n, limit) == n + 1 < limit

Within(n, limit) == n + 1 <= limit

(* ZCARD, and the decision, *)
Count(c) ==
    /\ at[c] = "count"
    /\ LET k == KeyOf(c)
           finds(found) == Hold(c, [held[c] EXCEPT !.past = {}, !.found = found])
       IN  \/ /\ Within(Cardinality(entries[k]), held[c].limit)
              /\ Goto(c, "record") /\ finds(Recent(k))
           \/ /\ ~Within(Cardinality(entries[k]), held[c].limit)
              /\ Goto(c, "oldest") /\ finds(Logged(k) \ held[c].past)
    /\ UNCHANGED <<entries, deadlines>>

(* after which a ZRANGE tells when to come back. *)
Oldest(c) ==
    /\ at[c] = "oldest"
    /\ Refuse(c) /\ UNCHANGED <<entries, deadlines>>

(* ZADD *)
AddEntry(c) ==
    /\ at[c] = "record"
    /\ entries' = [entries EXCEPT ![KeyOf(c)] = @ \cup {Entry(c)}]
    /\ Hold(c, [held[c] EXCEPT !.entry = "added"])
    /\ Goto(c, "expire") /\ UNCHANGED deadlines

(* EXPIRE, of a key that exists. *)
SetDeadline(c) ==
    LET k == KeyOf(c) IN
    /\ deadlines' = [deadlines EXCEPT ![k] = IF entries[k] = {} THEN @ ELSE moment + Span + 1]
    /\ Hold(c, [held[c] EXCEPT !.entry = IF Entry(c) \in entries[k] THEN "safe" ELSE @])

(* AllowN.  Middleware lets a request through when any command fails, the  *)
(* one after the limit is found exceeded included.                         *)
AllowN(c) ==
    /\ \/ Prune(c) \/ Count(c) \/ Oldest(c) \/ AddEntry(c)
       \/ at[c] = "expire" /\ SetDeadline(c) /\ Answer(c, "ok") /\ UNCHANGED entries
       \/ /\ at[c] \in {"check", "count", "oldest", "record", "expire"}
          /\ Unanswered(at[c] = "expire" /\ SetDeadline(c), <<deadlines, held>>)
          /\ Answer(c, "unchecked") /\ UNCHANGED entries
    /\ UNCHANGED <<tiers, moment>>

(* Redis drops a key at its time, with all its entries. *)
ExpireKey(k) ==
    /\ deadlines[k] # None /\ deadlines[k] <= moment
    /\ entries' = [entries EXCEPT ![k] = {}]
    /\ deadlines' = [deadlines EXCEPT ![k] = None]
    /\ UNCHANGED <<tiers, moment, callVars>>

PassMoment ==
    /\ moment < MaxMoment
    /\ moment' = moment + 1
    /\ UNCHANGED <<tiers, entries, deadlines, callVars>>

LimitOps == {"settier", "tenantallow", "endpoint"}

LimitNext ==
    \/ \E c \in Calls :
         \/ ask[c].op \in LimitOps /\ Malformed(c) /\ UNCHANGED limitVars
         \/ SetTenantTier(c) \/ TenantAllow(c) \/ EndpointAllow(c)
         \/ ask[c].op \in LimitOps /\ AllowN(c)
    \/ \E k \in Keys : ExpireKey(k)
    \/ PassMoment

-----------------------------------------------------------------------------
(* A request that is let through within its limit was preceded, when it    *)
(* was counted, by fewer than its limit of recorded requests of the last   *)
(* window, although others prune the same set by clocks of their own and   *)
(* the set expires; one that is turned away was preceded by at least its   *)
(* limit of requests that were in its window or came since it pruned.      *)
(* What goes beyond the limit are requests counted at once, and those a    *)
(* failing command lets through (AllowN, Middleware).                      *)
LimitsAreExact ==
    \A c \in Calls : ask[c].op \in LimitOps /\ held[c] # None =>
        /\ reply[c] = "ok" => Cardinality(held[c].found) < held[c].limit
        /\ reply[c] = "refused" => Cardinality(held[c].found) >= held[c].limit
=============================================================================
