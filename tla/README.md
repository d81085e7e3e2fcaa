# A TLA+ model of fintech-ecosystem

This directory models the services and libraries of the repository, checks them
with TLC on small instances, and proves the central properties with TLAPS for
every value of the constants. Paths below are relative to the repository.

## 1. Inventory

The system is a set of Go services around PostgreSQL, Redis, Kafka and RabbitMQ.
`deploy/k8s` runs two replicas of the gateway, auth, payments and ledger, and
one of the others.

| Component | State it keeps | Operations | What makes it correct |
|---|---|---|---|
| Ledger (`internal/ledger`, `cmd/ledger`) | tables accounts, transactions, entries, outbox | CreateAccount, RecordTransaction, bulks, reads | double entry, all or nothing, one transaction per reference, a bulk is accounted for item by item |
| Outbox publisher (`infrastructure/publisher.go`) | `processed_at` of the outbox rows, Kafka | poll: fetch, publish, mark | every committed event is published at least once |
| Account cache (`infrastructure/cached_repository.go`) | Redis keys with a TTL | read through, invalidate after commit | never ahead of the database, behind for a known reason only |
| Payments (`cmd/payments`, `internal/payment`) | payment_intents, idempotency_keys | create, confirm, refund behind the idempotency middleware | money behind every record, no charge once settled |
| Pipeline (`cmd/ledger/events.go`, `cmd/reconciler`, `pkg/messaging/kafka.go`) | topic offset, the reconciler's pass | consume, reconcile | what is lost is reported |
| Wallet (`internal/wallet`, `cmd/wallet`) | the ledger | balance, top-up, transfer | no credit without its debit, success means both |
| Billing (`internal/billing`, `cmd/billing`) | subscriptions | subscribe, cancel, renew | a period is charged once, a cancellation stands |
| Flow engine (`internal/flow/domain`, `cmd/flow-runner`) | flows, flow_versions, flow_executions, Redis stream | edit, execute, pause, resume | history without forks, nothing passes an approval unapproved |
| Flow service (`cmd/flow-service`), triggers, debugger (`internal/flow`) | past events; schedules and sessions in memory | replay; register, fire; record, follow | replays are accounted for, runs keep their interval, traces are whole |
| Notifications (`internal/notification`, `cmd/notifications`, `pkg/messaging/rabbitmq.go`) | RabbitMQ queues, Redis keys | route, send, retry, reconnect | nothing vanishes whole, repeats have a cause, tasks are settled while somebody consumes |
| Auth (`internal/auth`, `cmd/auth`) | users, tokens, clients, codes, organizations, API keys | login, reset, verify; OAuth grants; members and roles | tokens and codes work once, grants are honoured, a role that is told is true |
| Gateway (`cmd/gateway`) | a counter per key and minute, idempotency keys of events, the key cache | check, count, route, emit | a quota is not exceeded |
| Zones (`internal/zone`) | zones; Redis keys of zones and lists | create from a template, read, update | the cache is behind for a known reason only |
| Policies (`internal/policy`) | none | three engines, one used | they decide alike |
| Fraud (`internal/fraud`), connect (`internal/connect`) | a window of payments in memory; accounts and payout settings | check; create, update | the window is exact; settings are not mixed up |
| Support, integrations (`internal/support`, `internal/integrations`) | tickets, contracts, projects | read-modify-write calls | columns that belong together agree |
| Breaker, retry, rate limiter, webhook dead letters, audit log, secrets (`pkg`) | counters, streams, tables, buffers, a cache | see section 2 | see section 3 |
| Dashboard, events, command line, tenants, SSO adapters, logging, SDKs | – | views, pass-through, formatting | – |

Components meet in the database (all replicas of a service), by gRPC (payments,
wallet and zones call the ledger, the gateway calls auth), by Kafka (payments,
flow-service and auth publish; ledger, fraud, flow-runner and notifications
consume), by RabbitMQ (notifications with itself, fraud's alerts) and by Redis
(caches, keys, streams, pub/sub).

What is hard here is the same everywhere: a handler is a chain of calls to
several servers without a transaction around them; two replicas run it at once;
any call may fail or be the last before the process stops; and consumers commit
offsets before, or acknowledge after, the work. `PROJECT.json` lists the hazards,
each at its line, with the properties that cover it.

## 2. Modules

| Module | Models | Composes |
|---|---|---|
| `AtomicLedger` | what the ledger promises: a request is posted in one step or refused | |
| `Ledger` | `LedgerService.RecordTransaction` and `CreateAccount`, statement by statement | implements `AtomicLedger` |
| `Outbox` | `OutboxPublisher` | extends `Ledger` |
| `AccountCache` | `CachedRepository` of the ledger | |
| `Payments` | the payment handlers and their middleware | calls the ledger by the contract of `AtomicLedger` |
| `PaymentPipeline` | the ledger's consumer and the reconciler | extends `Payments` |
| `FlowStore` | the flow row and its version history | |
| `Flow` | executions, the stream consumer, resume requests | extends `FlowStore` |
| `Notifications` | router, workers and RabbitMQ client | |
| `Handlers` | what request handlers have in common | extended by the modules below |
| `Credentials`, `OAuth`, `Teams`, `Policies`, `Gateway`, `ZoneService` | auth service, gateway, zones | composed in `MCAuth` |
| `Wallet`, `LedgerApi`, `FlowApi`, `Triggers`, `Debugger` | wallets, the ledger's servers, the flow service | composed in `MCPlatform` |
| `Billing`, `Connect`, `Fraud`, `Support`, `Integrations` | services around the payments | composed in `MCCommerce` |
| `Breaker`, `Retry`, `DeadLetters`, `RateLimiter`, `AuditTrail`, `Secrets` | libraries of `pkg` | composed in `MCToolkit` |
| `LedgerProofs`, `PaymentsProofs`, `FlowProofs`, `NotificationsProofs` | | proofs of the core (the account cache has its own in `AccountCache`) |
| `ServiceProofs`, `PlatformProofs`, `ToolkitProofs` | | proofs of the services and libraries |
| `MC…` | instances for TLC, and the compositions above | |

Definitions whose comment begins with "Slip" are plausible mistakes. They take
part in no specification; each stands beside the definition it spoils, to show
which property would notice.

### Ledger

Calls of `RecordTransaction` are processes that meet only in the database. `pc`
is the place in the function; the rows of a call are in `transactions`,
`entries` and `outbox` from its INSERT, and become visible when the call enters
`committed`. That is READ COMMITTED, the default the code uses: `Recorded`, the
idempotency SELECT, sees committed rows only, and `CreateTransaction` waits in
the unique index while another open transaction holds the reference
(`HeldByAnother`), then fails if that one committed. `Fail` is an error at any
statement with the deferred rollback. `Wrap` is the arithmetic of int64, with
`WordBits` bits.

The outbox publisher (`Outbox`) works in three steps per event. Nothing claims
rows, so two replicas publish the same event; the model allows it, and the
properties say what remains true. `Unsendable` events are those Kafka refuses
for good.

### AccountCache

`GetAccount` is three steps (`LookUp`, `Load`, `Fill`), `Commit` and each
`Invalidate` are steps of their own. A balance is counted in committed changes,
as only its age matters. A fill can store what a commit has just outdated.
`late` remembers the accounts of which Redis keeps an old balance although no
writer is about to delete it: after a lost or failed Del, or an overtaken fill.

### Payments and PaymentPipeline

A request is a sequence of external calls, one action each: `LookUp` of the key,
the read of the intent, `Charge`, `Settle` or `Decline`, `Announce`, one
`RecordShare` per ledger call, `Save`. With `MayFail`, each call may fail in the
way its handler treats, a cancelled request context makes all later calls fail,
and `Stop` is the end of the replica. The bank is its interface, which may
decline. The middleware's recorder, the codes of `WriteErrorJSON` (400, so
errors are saved too) and the missing scope of the key to a path are as in the
code. The Redis pub/sub copy of the event keeps nothing and is left out.

`PaymentPipeline` adds `ReadMessage`, which commits the offset before
`HandleEvent`; `HandleEvent` decodes the reference the way `events.go` does,
which finds no id in the payments service's message; and the reconciler, which
reads the recent paid rows (`FetchPayments`) and looks each one up (`CheckRow`,
or `SkipRow` after a database error). `GrowOld` is the end of its one-hour
window.

### FlowStore and Flow

An edit reads the version, updates the row (and holds its lock), inserts the
version and commits; `UNIQUE(flow_id, version)` and the lock decide between two.
`executeNode` recurses over the edges; a job keeps what the recursion has left to
do in `todo`, a list of visits and saves. The default handlers are modelled;
"webhook" stands for all node types that pass on. A pause travels back as an
error and drops `todo`; a resume is check then act, uses the current definition,
and starts from the edges of the stored node. Messages are acknowledged whatever
happens and pending entries are never read again, so a crash leaves its
execution "running".

### Notifications

`ReadEvent` commits the offset, `Route` publishes one task per channel and goes
on after errors. A task is absent, ready, held by a replica, or acked. The
handler's steps are `CheckKey`, `RenderFails` or `Send`/`SendFails`, `Mark`,
`Settle`. A worker remembers whether the channel its task came on is still open
(`bound`); without it the acknowledgement is lost, while RabbitMQ has already
given the task to another. A link is up, down (reconnect is at work), back, or
stuck: the channel has closed and the connection has not, which no code notices.
A link that is back can publish, but nobody consumes on it: `ConsumeWithContext`
would register again once the deliveries of its old channel are closed, but before
the library closes them it sends the error to `notifyChanClose`, which is not
buffered (`rabbitmq.go:153`) and which nobody receives from. That order is
amqp091-go's, outside this repository. Only a new process has consumers (`Crash`).
The key names the event, not the channel; of the templates the router names,
`RenderEmailTemplate` knows one. Webhook tasks have no URL and are acknowledged
unsent. `excuses` counts the faults that may repeat a send. The breaker's zero
configuration in `cmd/notifications` never blocks a call.

### Handlers and the modules on it

The service modules have the same shape. A call is one request: `ask` is what it
wants, `at` the next step of its handler, `held` what the handler has read and
keeps, `reply` the answer. One step is one round trip to PostgreSQL, Redis, Kafka
or another service, so whatever a handler reads before a round trip may be stale
after it. Where `MayFail`, a round trip may fail, with its effect or without: the
statement may have committed and its answer be lost (`Unanswered`). The step does
what the handler does then: refuse, log and go on, or ignore it. An effect without
an answer takes place before the handler goes on; one that the server applies
later still is not modelled. A row is named by the
call that creates it. The requests that occur are given by the MC module.

**Auth.** `Credentials`: a token is validated, acted upon and marked in three
statements; the mark's `used_at IS NULL` decides between two, and a mark whose
answer is lost uses the token up for a call that is refused. `OAuth`: codes with
PKCE (`Challenge`), the client credentials grant, introspection. `Teams`: the
`ON CONFLICT DO NOTHING` of `AddMember`, the read-back, one page of audit entries.
`Policies`: the tables of the three engines, role by role, and the order
in which `NewEngine` tries them. `Gateway`: `ValidateKey` with its cache
(`GetAPIKeyByHash`), scopes, the counter of a minute, whose number is read off the
clock before `Incr` and `Expire` are sent as two more steps, and which Redis drops
when its time is over (`ExpireCounter`), routes, and `HandleEventEmit` with the
deduplication key. `ZoneService`: every write drops two keys with a read in
between, and none if its answer is lost; `late` remembers what a lost Del, a lost
answer or an overtaken reader leaves behind; a template fills a new zone step by step, with the errors
that `Apply` ignores.

**Platform.** `Wallet` calls the ledger, which may commit and lose its answer.
`LedgerApi` is both servers in one process: a bulk records item after item, each
item in a transaction of its own whose commit may be answered with an error, and
the answer of a single call is a step after its record. `GetAccountOverGRPC` dereferences the missing account, which ends the process
with every call in it. `FlowApi`: a replay publishes the payload alone, and
`ConsumeReplay` is what the flow runner makes of it. `Triggers`: a due trigger
starts a goroutine at every tick until its handler returns, with an error or not;
`UpdateAfterRun` follows either way. `Debugger`: hooks
added by `append` without a lock; two at once lose one (`raced`). A hook logs to
its session for good, of later runs too; each event carries, as history, the run
and the position in the trace of the run (`nth`).

**Commerce.** `Billing`: the worker lists, charges and writes back its copy of the
row. `Connect`, `Support`, `Integrations`: read, change the copy, write all
columns. Milestones and consultations cannot be read back while their notes are
NULL, so their updates answer "not found"; the model does the same. `Fraud`: one
consumer, one mutex, a window that a restart forgets.

**Toolkit.** `Breaker`: `beforeRequest` and `afterRequest` are atomic under the
mutex, the request runs between them, `Tick` is the clock. `Retry`: attempts with
backoff and a context that may end at any time; then the dead letter stream, to
which nothing is sent under a context that has ended. A replay publishes whatever
entry it is given, a purge of a missing one succeeds. `DLQEnabled` and a Redis
client are assumed, without which nothing is buried. `DeadLetters`: each operation
of the table, `RecordFailure` as a read and a write. `RateLimiter`: each request
prunes with the clock it read, counts, and adds itself or looks for the oldest
entry; each is a command of its own, as a pipeline is no transaction, and any that
fails lets the request through ("unchecked"). `AuditTrail`: loggers that remember
their last hash without a lock, so that calls overlap and a read may meet the write
of the first hash (`Torn`: a Go string is two words); restarts; a verification that
signs again what PostgreSQL gives back, which has no nanoseconds (`FineClocks` are
the processes whose clock has); and the export buffer, where `append` and `flush`
are reads and writes of a shared slice, each a step. Times of entries differ, by
the nanosecond in the limiter and the microsecond in the log. `Secrets`: managers
of several processes over shared providers.

The parts of one composition share no table, key or memory, and every step of one
leaves the others alone. So an instance needs calls of one part only at a time:
the initial states of `MCAuth` and the others (`MCGroups`) choose a part and give
all calls to it, and the parts are explored side by side in one run.

## 3. Runs

| Run | Instance | States | Shows |
|---|---|---|---|
| `ledger` | 3 calls, 3 accounts in 2 currencies, 7 requests, symmetry | 194k | concurrent and failing postings keep the book; implements `AtomicLedger` |
| `outbox` | 2 calls, 2 publishers, batch of 2, 1 unsendable event, 1 crash | 12k | no event lost; events get published |
| `account_cache` | 2 accounts, 2 readers, 2 writers, failing Redis | 71k | never ahead, behind for a reason only |
| `payments` | 3 calls, 1 split payment, 1 key, 8 kinds of request, symmetry | 505k | money behind records, no charge once settled |
| `payments_double_charge` | 2 calls, 1 key, no failures | violation | one key, two charges |
| `pipeline` | 2 calls, 1 payment, failures | 11k | loss is reported |
| `flow` | 1 event, 2 resumes, 2 edits, 3 definitions, failures, 1 crash | 35k | linear history, approvals hold, jobs return |
| `notifications` | 1 event of 3 types, 2 replicas, 2 faults | 704k | nothing vanishes whole, repeats explained, tasks settle |
| `auth` | 3 calls of one part, 1 or 2 rows of each kind, quota of 1, 2 windows, symmetry | 867k | one-time tokens and codes, roles as told, quotas, zone cache, policy engines |
| `platform` | 3 calls of one part, bulks of up to 3 items, symmetry | 1.25M | transfers, bulks, replays, schedules, debug traces |
| `commerce` | 3 calls of one part, 2 periods, window of 2, symmetry | 701k | renewals against cancels, read-modify-write updates, the velocity window |
| `toolkit` | 4 calls of one part, up to 4 ticks of the clock, symmetry | 608k | breaker, retries, dead letters, limits, audit chain, secrets |

Why the bounds are enough. The races are between two calls over one reference,
key, token, code or row; a third adds a call that comes after or between them,
and the libraries have a fourth, so that a half-open breaker with two places can
be full and a limit of two can be passed. The ledger's requests contain one for
each reason to refuse and two that disagree under one reference. Two accounts let
a commit be half invalidated. In the outbox, a batch of 2 with 1 unsendable event
has the event before or after the good one; requests without entries, which
`BulkRecordTransactions` accepts, keep this run short. The flow definitions have
a condition, an approval on one branch, a sibling after it, two approvals in a
row, and one without any, so edits change what a paused execution finds. A bulk
has items of two zones, a repeated reference and an item that is refused. Clocks
(`MaxTicks`, `MaxNow`, `MaxTime`, `MaxMoment`, `MaxDate`, `MaxClock`, `MaxWindow`,
`MaxTicksOfSchedule`) run past the end of the longest interval of the instance at
least once. Symmetry is over the calls, in runs without liveness properties only.
A fault in `notifications` can be any of a failed call, a crash, a lost link or an
expired key at any place; with two, both replicas can lose their link, or one lose
it and the other hold a task when it crashes. `WordBits = 4` stands for 64: wrapping depends on
the limit only. Requests that cost much and
race with nothing new occur at most once at a time: reads of the dead letters
(`FewReads`, with two failures of one letter at least), replays and reads of the
retry queue (`OfTheQueue`), limits other than a tenant's (`OfATenant`: three
requests of one tenant while its tier is raised), reads that do not touch the
shared secret (`OfTheSecret`), other requests of the gateway than two counted ones
(`OfOneKey`) and bulk replays (`Replays`), which still race with single replays. The
audit log has three entries of one logger and a check, or entries of two
(`OfTheTrail`), and the exporter three entries, one more than a batch
(`OfTheExport`).

CHECK_DEADLOCK is off where the system may stop: all calls are answered, the
topic is consumed. It is on in `ledger` and `outbox`, where the end is a step of
its own (`Quiet`).

### Fairness

- Calls, handlers, workers: weak fairness of their next step. The Go scheduler
  runs a goroutine that can run, and servers answer or fail.
- Publishing and marking an outbox event: strong fairness per event. The poll
  repeats every tick, so a call that may succeed again and again does; not for
  unsendable events.
- `CheckRow`: strong fairness. The reconciler runs on a ticker and its database
  does not fail for ever.
- `UpdateRow` of a flow: strong; PostgreSQL queues the waiters of a row lock.
- Delivery of a task: weak; RabbitMQ gives a waiting task to a waiting consumer.
  `EveryTaskSettles` demands nothing of reconnection, which brings no consumer back.
- Crashes and faults have none and are bounded by `MaxCrashes`, `MaxFaults`.

The runs over the service modules check safety only, and assume no fairness.

## 4. Findings

`payments_double_charge` contradicts the documentation: the idempotency
middleware looks a key up before the handler and saves it after, so two
concurrent requests with one key both charge. `PROJECT.json` quotes the line.

Met while modelling, and built into the models without a run of their own:

- Ledger: the balance check wraps at 64 bits, which is why `DoubleEntry` has a
  premise. `GetAccount` over gRPC dereferences the account that was not found.
- Payments: the ledger calls of a split payment share one reference, so of three
  shares one is posted. The ledger's consumer decodes `data.id` where the
  payments service sends `data.payment_id`, so all its postings share the empty
  reference; it does not record the type "refund.completed".
- Flow: two resumes of one execution both pass; branches pending at a pause are
  not run after it; an interrupted execution stays "running". A replay publishes
  only the payload, so it starts a flow only if the payload names a zone
  (`retriggerer.go:21`). The debug WebSocket sends the same events again at every
  tick, under a comment that says "Send only new events". `UpdateAfterRun` "updates
  the trigger state after a successful run" (`schedule_trigger.go:105`), but the
  scheduler calls it after a failed one, too: a failed run is not repeated before
  its interval has passed, and `RunsKeepTheirDistance` says so of the code.
- Notifications: the email of a password reset has an unknown template and is
  requeued until the SMS of the same event sets the shared key; the retry count
  never grows; the breaker in `rabbitmq.go` has no way from open to half open. After
  a reconnect nobody consumes (`rabbitmq.go:360`), so when every replica has lost
  its channel once, the queues stand still until a process is restarted. The shared
  key also lets the success of one channel silence the others.
- Auth: two resets with one token both set their password before the mark decides
  which of them is told that it worked.
- Gateway: a counter lives as long as its window (`main.go:104`), so a request that
  is counted after its minute may meet a new counter; `QuotaHolds` leaves it out.
- Caches: a fill can outlive an invalidation (accounts, zones, secrets).
- Retry: every dead letter says `MaxAttempts` attempts (`retry.go:106`). That is true
  only because a cancelled call, which made fewer, is not buried: its context ends
  the XADD as well. Nothing tells the caller whether it was buried.
- Webhook dead letters: "MaxRetries is the maximum number of retry attempts
  (default: 5)" (`dlq.go:62`), with five delays, but `Add` counts the first delivery,
  so an entry is exhausted after `MaxRetries` - 1 retries and the last delay is never
  used. With `MaxRetries` of 1 a new entry is retried once all the same.
- Rate limiter: "in one atomic operation" (`limiter.go:95`) is a pipeline, between
  whose commands others come; an error of the ZRANGE after the limit was found
  exceeded lets the request through. Requests counted at once pass the limit.
- Audit log: the time is signed in nanoseconds (`secure.go:100`) and read back in
  microseconds, and a chain is linked across zones but verified within one. So
  `VerifyChain` reports entries that nobody touched, wherever the clock tells
  nanoseconds. The columns the logger writes are not those of
  `migrations/auth/007_audit_logs.up.sql`.
- Integrations: milestones and consultations cannot be updated through the
  service, as a NULL column does not scan into a string.
- The schema files differ from the migrations (`reference_id`, `org_id`, flow
  versions); the models follow `internal/*/schema.sql` and the queries.

## 5. Proofs

Eight modules hold 18,119 proof obligations, all discharged by Z3, Zenon and LS4.
Each theorem holds for every value of the constants. What is assumed of them is
named in the modules that declare them, and TLC evaluates it on every instance:

- types: amounts and clocks are numbers, requests are records of the right shape,
  calls and replicas are finitely many, `None` is no number and no row;
- keys: a row of the start has another key than those the calls create (billing,
  connect, projects, OAuth clients, flows), as the code draws UUIDs;
- `RetryAssumption`: at least one attempt, which `NewRetrier` sees to; nothing is
  assumed of the delays;
- `LettersAssumption`: the delays are not empty and `MaxRetries` is not zero, both of
  which `NewDeadLetterQueue` replaces; any other number will do;
- `ProjAssumption`: the project of the start is before the work.

Two premises appear in theorems themselves: in `DoubleEntry`, that no request's sum
leaves the machine integer; in those about the pipeline, that no intent is named by
the empty string. The debugger's sessions of the start are not named by calls
(`SessionAssumption`), as ids are UUIDs. The wallet's specification (`WalletSpec`) has one more: requests
that repeat a reference repeat the amount (`Repeated`), as the retry of a client
does.

The service modules are proved part by part, each with a specification of its own
(`BillSpec`, `OAuthSpec`, …) whose requests are of any number and of every shape
the handlers distinguish. That is more than the instances of section 3 contain;
the parts of a composition share no state.

### Core (`LedgerProofs`, `PaymentsProofs`, `FlowProofs`, `NotificationsProofs`)

**Ledger.** `Inv` says which rows a call has written at each place of
`RecordTransaction` (`TransactionRows`, `EntryRows`, `EventRows`), that two calls
past the INSERT differ in their reference (`UniqueReference`: the index, not the
SELECT, gives idempotency), that the checks before the transaction have passed
for the entries they covered (`ChecksPassed`) and that an answer "ok" has a
committed call behind it (`AnswersStand`). None of the visible properties is
inductive by itself: each concerns committed calls, and a commit keeps it only
because the uncommitted rows were right. `InvHolds` is proved action by action;
`Idempotent`, `Atomicity`, `Acknowledgement`, `DoubleEntry`, `SingleCurrency`
follow, and `Immutability` from the fact that a rollback touches rows of a call
that has not committed. `Refinement`: under `Inv`, a commit is a posting of the
atomic ledger, an error or a known reference its answer, every other step a
stutter.

**Outbox.** `LedgerUndisturbed` shows that the composition implements the ledger,
so its invariant carries over, and `PublishedRefinement` that it implements the
atomic ledger; `PublisherInv` adds that what a publisher holds was committed, and
that what it is about to mark was published. `NoEventLost` and `NoEventInvented`
follow for any number of replicas, batch size and crashes.

**Payments.** `PayInv` adds to `MoneyBehindEveryRecord` where each handler may be
(`AtOwnPlaces`) and what it has behind it there (`MoneyBehindEveryHandler`): from
the charge on, the bank has the money of the call, and after the check of a refund
that of the intent, so a status, an event or a posting written later has money
behind it. `SettledForGood` is an action property: a confirm that begins when an
intent is settled reads its status and turns away before the charge.
`MoneyFirstInPipeline` and `SettledForGoodInPipeline` carry both to the composition
with the ledger's consumer and the reconciler. There, `OneShareIsPosted` states for
every fee and every number of confirms what section 4 says of split payments: at
most one share of a payment reaches the ledger, because its shares have one
reference, and no refund does; `PostingsStay` that this is for good. So the
reconciler, which looks for a refund under a reference nobody posts, reports every
refunded payment it checks; `NoFalseReports` shows that whatever it reports was at
least charged, as fetched rows had a paid status and charges are not forgotten.

**Flow.** `StoreInv` relates the version an editor has read, the row lock and the
rows of the history; `LinearHistory` follows, and `LinearHistoryUnderEngine`
carries it over to the engine through `StoreUndisturbed`. For the approvals,
`NothingPassesUnapproved` speaks of nodes that ran; `FlowInv` says of everything
a job still has to visit, too, that it may be visited (`Approved`): in the
definition the execution started with it is freely reached from the trigger, or
in the definition of a resume from below the approval it was admitted at. A job
knows the version of its execution, whatever edits and other resumes do
(`RowsAreRooted`, `JobIsRooted`). The edges that leave a node become visits by
their position in the list; that each position exists is shown by a least
counterexample, as induction over sequences is out of reach.

**Notifications.** `RepeatsAreExplained` counts the sends of a task and is proved
by a budget (`Budget`): the sends made, one for each consumer that lost its link
before it sent, and one if the task can still be sent by its holder, are together
at most one more than the excuses. Every step spends or moves a unit, and only a
fault grants one; a reconnect moves none, as it brings no consumer back. `RoutedOnce` and `HoldersAgree` give a task one holder.
`AcksAreTold` needs that whoever is about to set the key or to acknowledge follows
a send (`TellingComesFirst`).

### Caches and services (`AccountCache`, `ServiceProofs`, `PlatformProofs`)

A handler's knowledge is part of each invariant: what it has read is true, or was
true and may have become stale in a stated way only, because the tables grow or
change in one direction.

- *Account cache.* What Redis holds is not ahead of the database (`CacheBehind`);
  to keep that, neither is what a reader is about to store (`ReadersBehind`). An
  old balance has a reason (`Explained`), and a writer that has not committed has
  no account to delete (`OpenIsClean`), so a commit adds its reasons in the same
  step as the change. `StalenessIsExplained` follows.
- *Wallet.* The legs of a reference are posted in order, with one amount.
- *Gateway.* While its minute lasts, a counter covers the calls let in that were
  counted in it (`CountersCover`), because its time to live ends later
  (`CountersOK`) and nobody holds a minute that is still to come (`HeldIsPast`).
- *OAuth.* A code that a call may still exchange was issued for its client and
  checked; the one call that marked it spends it.
- *Users.* The users of tokens exist; a token is marked only when what it is for has
  been done (`MarkedIsDone`: a mark whose answer is lost comes after the act, too),
  and a success has marked it (`SuccessIsMarked`), which no other call can.
- *Organizations.* Every membership was given by some call (`RolesAreGiven`), so that
  what the read-back finds is the role asked for or that of another; and what a call
  has read stays true until a removal is sent, whether that is answered or not.
- *Policies.* The engines decide alike for any set of roles and any action, so the
  order in which they are tried does not matter.
- *Zones.* A key differs from its row only while its writer is about to drop it,
  or for a reason in `late`, a write without an answer among them; the list of an organization also while the first of
  the two drops is pending.
- *Billing* (`BillInv`). An active row is at its first unpaid period; what the
  worker has listed is due until it is charged (`IsDue`), although calls change
  rows meanwhile; a charge that is not stored is in `lost`. `CancelsHold` is an
  action property over it.
- *Connect* (`ConnInv`). Rows and copies have settings that were given together,
  and a change that is alone is the row.
- *Support* (`DeskInv`). A copy may be written back over a row that has risen
  since; so the priority of a copy is bounded by the escalations of *other* calls
  (`ByOthers`), and the rise of a call is paid for by its own record, which is
  inserted first.
- *Projects* (`ProjInv`). Rows and copies have the dates of their stage, and a copy
  the template of its row, which no update changes.
- *Scheduler* (`PlanInv`). A trigger is due no sooner than an interval after each
  of its runs that have ended, in whatever order overlapping runs end.
- *Ledger's servers* (`ApiInv`). References are in the book once, the book only
  grows, and the results a call keeps account for the rows it has written: the
  results of a call are extended by one at a time (`OneMoreAccounted`), in the
  step that may add the row. `ServersImplementLedger` is a second refinement of
  `AtomicLedger`: every item of a call or a bulk is a call of the contract
  (`ItemIds`), the rows are its book (`ItemBook`) and the results its answers
  (`ItemAnswers`). The step that gives an item its result posts, acknowledges or
  refuses it; all others change nothing of the contract. A bulk is thus as many
  calls of the ledger, not one.
- *Debugger* (`DebugInv`). `TracesAreComplete` speaks of runs that are over. The
  invariant says of every moment how far a hook is: `UpTo` derives from what the
  run has left to log the number n of events that the hook has logged, and
  `LogStands` that the log holds the trace up to the n-th event, in order, without
  gaps and, for the hook's own run, from the first. What is left is the end of the
  trace (`LeftFits`), so the next event logged is the (n+1)-st (`OwnLogged`), while
  the events of other hooks and runs change nothing (`ForeignEvent`). A run whose
  hook was not lost in a race is in the list, and in every copy of the list that
  a run is about to append to (`HooksKept`); a session is not made anew once a
  client knows of it (`Settled`).
- *Replays* (`ReplayInv`). The results a call keeps cover the messages it has sent,
  at most one message is added per item, and a run stems from a message that was
  read; the rows of flows never change.
- *Fraud* (`FraudInv`). The history lies within what this process has judged
  (`HistoryIsTrue`) and contains all of it that is in the window (`HistoryIsWhole`).
  So what the rule counts corresponds one to one to the payments that `Recent`
  names, and pruning loses none.

### Libraries (`ToolkitProofs`)

- *Breaker.* `BreakerHolds` speaks of the current generation only and is not
  inductive: a result of an old generation could be counted, or a generation come
  back. `Counts` adds that no call holds a generation later than the breaker's,
  that an open breaker's generation has no call at all, and that in a half-open
  one the counts are the sizes of the sets of calls admitted and answered. It is
  stated of a breaker `b`, as `currentState` first yields an intermediate one that
  `beforeRequest` and `afterRequest` go on from (`CurrentCounts`, then
  `BeforeKeeps` and `AfterKeeps`).
- *Retry.* The attempts made agree with the place in the loop (`AttemptsMade`): who
  is about to be buried has made all of them or has a context that ended, and with
  such a one no letter is written. So a letter tells the truth, and a failure
  without one has its reason.
- *Dead letters.* What `RecordFailure` has read is at most one more than the failures
  reported (`ReadsSound`), its own not being among them until its UPDATE is sent; so
  the attempts of a row never run ahead, whichever answers are lost.
- *Rate limiter.* An entry stands for a request that added it (`EntriesAreLogged`),
  and a recorded request has its entry until a window has passed
  (`RecordedAreEntered`): no clock that prunes is ahead of the present, and a key
  expires later than its youngest entry leaves the window. So a count below the
  limit counts all that is recent. A count at the limit counts entries that its own
  pruning left or that came after it (`PastIsGone`).
- *Audit log.* What a logger remembers is stored, and so is what an entry being
  written is linked to (`LastIsStored`, `DraftsHold`), unless its hash was torn, which
  takes an overlap (`OverlapsAreLoose`). As long as there is no restart, no overlap
  and no lost answer, the entries of a logger are in the order of their times, each
  linked to the one before, and the logger remembers the last (`Orderly`); so a chain
  of one logger and one zone verifies (`WholeChainsVerify`) but for nanoseconds. The
  export buffer keeps an entry from its append on unless it is replaced by a user
  who had read it earlier (`raced`).
- *Secrets.* An entry that differs from the provider's value has its reason.

### Only model-checked

- Liveness, `EveryEventIsPublished`, `EveryJobReturns`, `EveryTaskSettles` and
  `LossIsReported`: the provers do not handle fairness.
- `OneChargePerKey`, which the code does not have (section 4).

## 6. Not modelled

- Generated code (`proto`), SDKs, web front ends, dashboard, command line,
  logging, metrics, tracing, formatting.
- The gateway's reverse proxy, WebSocket tunnel and CORS headers, and the events
  service: they pass bytes on and keep nothing.
- Tenants (`pkg/tenant`, `internal/cloud`) and SSO adapters (`pkg/sso`): thin
  layers over PostgreSQL's policies, a cipher and an identity provider; no
  program uses them.
- Flow: the node types of `internal/flow/nodes`, the enhanced approval handler and
  the approval ledger, which no program wires; flows with cycles, on which the
  code recurses without end.
- Notifications: a service started without Redis, the notifications table.
- `UpdateMemberRole` and `DeleteZone`, which nothing calls.
- Audit log: the page of entries that a verification reads (`limit`), and what
  becomes of metadata between the signature and the JSON read back.
- Rate limiter: requests for several places at once (`AllowN` with n above 1), which
  no caller makes.
- Connection pools: `ListTransactions` asks for a second connection while it
  holds one.
- The wire protocols of Vault, AWS, Redis, Kafka and RabbitMQ: their interface as
  the code uses it.

## 7. Plan

1. Done: the models of all parts of section 2, their runs, the proof of every
   safety property of a run, and two refinements of `AtomicLedger`.
2. Next: the connection pool of `ListTransactions` as a resource of `LedgerApi`,
   the one hazard of `PROJECT.json` without a property.
3. Properties of the reads that no theorem states yet (pages of past events and of
   audit entries).
