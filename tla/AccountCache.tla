---------------------------- MODULE AccountCache ----------------------------
(***************************************************************************)
(* The Redis cache in front of the account table                           *)
(* (internal/ledger/infrastructure/cached_repository.go), shared by all    *)
(* replicas of the ledger.  GetAccount reads through the cache in three    *)
(* calls to two servers; a commit changes the balances first and deletes   *)
(* the cached accounts afterwards, one by one.                             *)
(*                                                                         *)
(* A balance is the sum of an account's entries; what matters here is how  *)
(* recent it is, so it is counted in committed changes.                    *)
(***************************************************************************)
EXTENDS Naturals, FiniteSets, TLAPS

CONSTANTS
    Accounts,
    Readers,        \* the callers of GetAccount
    Writers,        \* the database transactions that change balances
    Nil,            \* no such row, no such key
    MayFail,        \* whether calls to Redis fail and replicas stop
    MaxReads        \* bound: how many lookups each reader makes

ASSUME CacheAssumption ==
    Nil \notin Nat /\ MayFail \in BOOLEAN /\ MaxReads \in Nat

VARIABLES
    balance,    \* the database: changes committed per account, or Nil
    cache,      \* what Redis holds under the account's key, or Nil
    at,         \* where each reader is
    reading,    \* the account each reader asks for
    got,        \* the account each reader was given
    reads,      \* how many lookups each reader has begun
    writer,     \* where each writer is
    dirty,      \* the accounts each writer has changed and not deleted yet
    late        \* history: the keys a Del missed or a slow reader has filled

readerVars == <<at, reading, got, reads>>
writerVars == <<writer, dirty>>
vars == <<balance, cache, readerVars, writerVars, late>>

(* The outcomes of a write to Redis, whose error the code ignores. *)
RedisWrite(new) == (cache' = new) \/ (MayFail /\ UNCHANGED cache)

(* The key of a is left with a balance that has changed, or is right again. *)
Leave(a, stale) == late' = IF stale THEN late \cup {a} ELSE late \ {a}

-----------------------------------------------------------------------------
Init ==
    /\ balance = [a \in Accounts |-> Nil]
    /\ cache = [a \in Accounts |-> Nil]
    /\ at = [r \in Readers |-> "idle"]
    /\ reading \in [Readers -> Accounts]
    /\ got = [r \in Readers |-> Nil]
    /\ reads = [r \in Readers |-> 0]
    /\ writer = [w \in Writers |-> "open"]
    /\ dirty = [w \in Writers |-> {}]
    /\ late = {}

(* CreateAccount: the row, then a Del of a key nobody can have set yet. *)
CreateAccount(a) ==
    /\ balance[a] = Nil
    /\ balance' = [balance EXCEPT ![a] = 0]
    /\ RedisWrite([cache EXCEPT ![a] = Nil])
    /\ UNCHANGED <<readerVars, writerVars, late>>

(* GetAccount, redis.Get: a hit is the answer, an error counts as a miss. *)
LookUp(r, a) ==
    /\ at[r] = "idle"
    /\ reads[r] < MaxReads
    /\ reads' = [reads EXCEPT ![r] = @ + 1]
    /\ reading' = [reading EXCEPT ![r] = a]
    /\ \/ /\ cache[a] # Nil
          /\ got' = [got EXCEPT ![r] = cache[a]]
          /\ UNCHANGED at
       \/ /\ cache[a] = Nil \/ MayFail
          /\ got' = [got EXCEPT ![r] = Nil]
          /\ at' = [at EXCEPT ![r] = "loading"]
    /\ UNCHANGED <<balance, cache, writerVars, late>>

(* The SELECT of the wrapped repository; nil is returned and not cached. *)
Load(r) ==
    LET found == balance[reading[r]]
    IN /\ at[r] = "loading"
       /\ got' = [got EXCEPT ![r] = found]
       /\ at' = [at EXCEPT ![r] = IF found = Nil THEN "idle" ELSE "filling"]
       /\ UNCHANGED <<balance, cache, reading, reads, writerVars, late>>

(* redis.Set of what was read before, and GetAccount returns. *)
Fill(r) ==
    /\ at[r] = "filling"
    /\ \/ /\ cache' = [cache EXCEPT ![reading[r]] = got[r]]
          /\ Leave(reading[r], got[r] # balance[reading[r]])
       \/ MayFail /\ UNCHANGED <<cache, late>>
    /\ at' = [at EXCEPT ![r] = "idle"]
    /\ UNCHANGED <<balance, reading, got, reads, writerVars>>

(* Slip: of the changed accounts only one is remembered. *)
CommitRememberingOne(w, S) ==
    /\ writer[w] = "open"
    /\ \A a \in S : balance[a] # Nil
    /\ balance' = [a \in Accounts |-> IF a \in S THEN balance[a] + 1
                                                 ELSE balance[a]]
    /\ dirty' = [dirty EXCEPT ![w] = {CHOOSE a \in S : TRUE}]
    /\ writer' = [writer EXCEPT ![w] = "committed"]
    /\ UNCHANGED <<cache, readerVars, late>>

(* cachedTransactionContext.Commit: the SQL commit of entries on S. *)
Commit(w, S) ==
    /\ writer[w] = "open"
    /\ \A a \in S : balance[a] # Nil
    /\ balance' = [a \in Accounts |-> IF a \in S THEN balance[a] + 1
                                                 ELSE balance[a]]
    /\ dirty' = [dirty EXCEPT ![w] = S]
    /\ writer' = [writer EXCEPT ![w] = "committed"]
    /\ UNCHANGED <<cache, readerVars, late>>

(* ... and its redis.Del of one of the changed accounts. *)
Invalidate(w, a) ==
    /\ a \in dirty[w]
    /\ \/ cache' = [cache EXCEPT ![a] = Nil] /\ Leave(a, FALSE)
       \/ MayFail /\ UNCHANGED cache /\ Leave(a, TRUE)
    /\ dirty' = [dirty EXCEPT ![w] = @ \ {a}]
    /\ UNCHANGED <<balance, readerVars, writer>>

(* The replica stops after the commit, before the cache is cleared. *)
Crash(w) ==
    /\ MayFail
    /\ dirty[w] # {}
    /\ dirty' = [dirty EXCEPT ![w] = {}]
    /\ late' = late \cup dirty[w]
    /\ UNCHANGED <<balance, cache, readerVars, writer>>

(* The ten minutes' TTL of a key runs out. *)
Expire(a) ==
    /\ cache[a] # Nil
    /\ cache' = [cache EXCEPT ![a] = Nil]
    /\ Leave(a, FALSE)
    /\ UNCHANGED <<balance, readerVars, writerVars>>

Next ==
    \/ \E a \in Accounts : CreateAccount(a) \/ Expire(a)
    \/ \E r \in Readers : \/ \E a \in Accounts : LookUp(r, a)
                          \/ Load(r)
                          \/ Fill(r)
    \/ \E w \in Writers : \/ \E S \in SUBSET Accounts \ {{}} : Commit(w, S)
                          \/ \E a \in Accounts : Invalidate(w, a)
                          \/ Crash(w)

Spec == Init /\ [][Next]_vars

-----------------------------------------------------------------------------
(* The type of every variable. *)
TypeOK ==
    /\ balance \in [Accounts -> Nat \cup {Nil}]
    /\ cache \in [Accounts -> Nat \cup {Nil}]
    /\ at \in [Readers -> {"idle", "loading", "filling"}]
    /\ reading \in [Readers -> Accounts]
    /\ got \in [Readers -> Nat \cup {Nil}]
    /\ reads \in [Readers -> 0 .. MaxReads]
    /\ writer \in [Writers -> {"open", "committed"}]
    /\ dirty \in [Writers -> SUBSET Accounts]
    /\ late \subseteq Accounts

(* Redis never runs ahead of the database, and what it holds of an account *)
(* is behind only while the writer of the change is still to delete the    *)
(* key, or after a Del that failed or did not come, or after a reader that *)
(* was overtaken by the change: no committed account is forgotten          *)
(* (cachedTransactionContext.Commit, GetAccount).                          *)
StaleBalancesAreExplained ==
    \A a \in Accounts : cache[a] \notin {Nil, balance[a]} =>
        /\ balance[a] # Nil /\ cache[a] < balance[a]
        /\ a \in late \/ \E w \in Writers : a \in dirty[w]

-----------------------------------------------------------------------------
(* The proof, for every number of accounts, readers and writers. *)

(* Redis is not ahead of the database, *)
CacheBehind ==
    \A a \in Accounts : cache[a] # Nil => balance[a] # Nil /\ cache[a] <= balance[a]

(* neither is what a reader is about to store, *)
ReadersBehind ==
    \A r \in Readers : at[r] = "filling" =>
        got[r] # Nil /\ balance[reading[r]] # Nil /\ got[r] <= balance[reading[r]]

(* an account that is behind has a reason, *)
Explained ==
    \A a \in Accounts : cache[a] # Nil /\ cache[a] # balance[a] =>
        a \in late \/ \E w \in Writers : a \in dirty[w]

(* and a transaction that is still open has changed nothing others see. *)
OpenIsClean == \A w \in Writers : writer[w] = "open" => dirty[w] = {}

CacheInv == TypeOK /\ CacheBehind /\ ReadersBehind /\ Explained /\ OpenIsClean

-----------------------------------------------------------------------------
(* The invariant says what StaleBalancesAreExplained says. *)
LEMMA InvExplains ==
    CacheInv => StaleBalancesAreExplained
BY DEF CacheInv, TypeOK, CacheBehind, Explained, StaleBalancesAreExplained

(* The invariant holds at the start, when there is nothing anywhere. *)
LEMMA CacheStarts ==
    Init => CacheInv
BY CacheAssumption DEF Init, CacheInv, TypeOK, CacheBehind, ReadersBehind, Explained, OpenIsClean

(* CreateAccount: nothing can be cached of an account that is not there. *)
LEMMA CreateKeeps ==
    ASSUME CacheInv, NEW a \in Accounts, CreateAccount(a)
    PROVE  CacheInv'
<1> USE DEF CacheInv, TypeOK
<1>1. cache[a] = Nil
  BY DEF CreateAccount, CacheBehind
<1>2. cache' = cache
  BY <1>1 DEF CreateAccount, RedisWrite
<1>3. balance' = [balance EXCEPT ![a] = 0] /\ balance[a] = Nil
      /\ UNCHANGED <<readerVars, writerVars, late>>
  BY DEF CreateAccount
<1>4. TypeOK'
  BY <1>2, <1>3 DEF readerVars, writerVars
<1>5. CacheBehind' /\ Explained' /\ OpenIsClean'
  BY <1>1, <1>2, <1>3 DEF readerVars, writerVars, CacheBehind, Explained, OpenIsClean
<1>6. ReadersBehind'
  BY <1>3 DEF readerVars, ReadersBehind
<1> QED BY <1>4, <1>5, <1>6

(* GetAccount: what is read is not ahead, and what is stored late is       *)
(* remembered.                                                             *)
LEMMA ReadsKeep ==
    ASSUME CacheInv, NEW r \in Readers,
           (\E a \in Accounts : LookUp(r, a)) \/ Load(r) \/ Fill(r)
    PROVE  CacheInv'
<1> USE DEF CacheInv, TypeOK
<1>1. ASSUME NEW a \in Accounts, LookUp(r, a) PROVE CacheInv'
  <2>1. TypeOK'
    BY <1>1, CacheAssumption DEF LookUp, writerVars
  <2>2. CacheBehind' /\ Explained' /\ OpenIsClean'
    BY <1>1 DEF LookUp, writerVars, CacheBehind, Explained, OpenIsClean
  <2>3. ReadersBehind'
    BY <1>1 DEF LookUp, ReadersBehind
  <2> QED BY <2>1, <2>2, <2>3
<1>2. CASE Load(r)
  <2>1. TypeOK'
    BY <1>2 DEF Load, writerVars
  <2>2. CacheBehind' /\ Explained' /\ OpenIsClean'
    BY <1>2 DEF Load, writerVars, CacheBehind, Explained, OpenIsClean
  <2>3. ReadersBehind'
    BY <1>2 DEF Load, ReadersBehind
  <2> QED BY <2>1, <2>2, <2>3
<1>3. CASE Fill(r)
  <2>1. TypeOK'
    BY <1>3 DEF Fill, Leave, writerVars
  <2>2. CacheBehind' /\ Explained' /\ OpenIsClean'
    BY <1>3 DEF Fill, Leave, writerVars, CacheBehind, ReadersBehind, Explained, OpenIsClean
  <2>3. ReadersBehind'
    BY <1>3 DEF Fill, ReadersBehind
  <2> QED BY <2>1, <2>2, <2>3
<1> QED BY <1>1, <1>2, <1>3

(* A commit and the deletions after it, complete or not. *)
LEMMA WritesKeep ==
    ASSUME CacheInv, NEW w \in Writers,
           \/ \E S \in SUBSET Accounts \ {{}} : Commit(w, S)
           \/ \E a \in Accounts : Invalidate(w, a)
           \/ Crash(w)
    PROVE  CacheInv'
<1> USE DEF CacheInv, TypeOK
<1>1. ASSUME NEW S \in SUBSET Accounts, Commit(w, S) PROVE CacheInv'
  <2>1. /\ balance' = [a \in Accounts |-> IF a \in S THEN balance[a] + 1 ELSE balance[a]]
        /\ \A a \in S : balance[a] # Nil
        /\ dirty' = [dirty EXCEPT ![w] = S] /\ dirty[w] = {}
        /\ writer' = [writer EXCEPT ![w] = "committed"]
        /\ UNCHANGED <<cache, at, reading, got, reads, late>>
    BY <1>1 DEF Commit, OpenIsClean, readerVars
  <2>2. \A a \in Accounts : balance[a] # Nil =>
           balance'[a] \in Nat /\ balance[a] <= balance'[a] /\ (a \notin S => balance'[a] = balance[a])
    BY <2>1
  <2>3. TypeOK'
    BY <2>1, <2>2
  <2>4. CacheBehind' /\ ReadersBehind'
    BY <2>1, <2>2, CacheAssumption DEF CacheBehind, ReadersBehind
  <2>5. ASSUME NEW a \in Accounts, cache'[a] # Nil, cache'[a] # balance'[a]
        PROVE  a \in late' \/ \E v \in Writers : a \in dirty'[v]
    <3>1. CASE a \in S
      BY <2>1, <3>1
    <3>2. CASE a \notin S
      <4>1. a \in late \/ \E v \in Writers : a \in dirty[v]
        BY <2>1, <2>2, <2>5, <3>2 DEF Explained, CacheBehind
      <4> QED BY <2>1, <4>1
    <3> QED BY <3>1, <3>2
  <2>6. OpenIsClean'
    BY <2>1 DEF OpenIsClean
  <2> QED BY <2>3, <2>4, <2>5, <2>6 DEF Explained
<1>2. ASSUME NEW a \in Accounts, Invalidate(w, a) PROVE CacheInv'
  <2>1. TypeOK'
    BY <1>2 DEF Invalidate, Leave, readerVars
  <2>2. CacheBehind' /\ ReadersBehind' /\ OpenIsClean'
    BY <1>2 DEF Invalidate, readerVars, CacheBehind, ReadersBehind, OpenIsClean
  <2>3. Explained'
    BY <1>2 DEF Invalidate, Leave, Explained
  <2> QED BY <2>1, <2>2, <2>3
<1>3. CASE Crash(w)
  <2>1. TypeOK'
    BY <1>3 DEF Crash, readerVars
  <2>2. CacheBehind' /\ ReadersBehind' /\ OpenIsClean'
    BY <1>3 DEF Crash, readerVars, CacheBehind, ReadersBehind, OpenIsClean
  <2>3. Explained'
    BY <1>3 DEF Crash, Explained
  <2> QED BY <2>1, <2>2, <2>3
<1> QED BY <1>1, <1>2, <1>3

(* The TTL only empties the cache. *)
LEMMA ExpiryKeeps ==
    ASSUME CacheInv, NEW a \in Accounts, Expire(a)
    PROVE  CacheInv'
BY DEF Expire, Leave, readerVars, writerVars, CacheInv, TypeOK, CacheBehind, ReadersBehind,
       Explained, OpenIsClean

(* The account cache is behind the database for the stated reasons only,   *)
(* whatever readers, writers, failures and crashes overlap.                *)
THEOREM StalenessIsExplained == Spec => []StaleBalancesAreExplained
<1>1. CacheInv /\ [Next]_vars => CacheInv'
  <2> SUFFICES ASSUME CacheInv, [Next]_vars PROVE CacheInv'
    OBVIOUS
  <2>1. CASE UNCHANGED vars
    BY <2>1 DEF vars, readerVars, writerVars, CacheInv, TypeOK, CacheBehind, ReadersBehind,
                Explained, OpenIsClean
  <2>2. CASE Next
    BY <2>2, CreateKeeps, ExpiryKeeps, ReadsKeep, WritesKeep DEF Next
  <2> QED BY <2>1, <2>2
<1> QED BY <1>1, CacheStarts, InvExplains, PTL DEF Spec
=============================================================================
