# Formal models of Sentra Gateway

TLA+ modules, TLC configurations and TLAPS proofs about Sentra Gateway, a
multi-tenant HTTP gateway with an administration service. They are translated
from the Python source under `src/src/`; file names below are relative to it.

## 1. The system

Two FastAPI processes, each a single asyncio event loop, share PostgreSQL and
Redis. A step of a process runs without interruption up to its next `await`, so
suspension points are where its state may change under it.

| Component | Code | State | Operations |
|---|---|---|---|
| Configuration snapshot | `gateway/infrastructure/persistence/postgres_snapshot.py` | four tables in memory, replaced as a whole | `load()`: four SELECTs and one assignment; lookups by host, path, route |
| Configuration subscriber | `gateway/infrastructure/pubsub/redis_subscriber.py`, `gateway/main.py` | one task with its attempts, `redis_pubsub` and `snapshot_reload` statuses | connect, subscribe, read, reload, back off, give up, restart from `/health` |
| Request forwarding | `gateway/application/use_cases/forward_request.py` | none of its own; audit and log tasks | look up tenant, route, policy; apply policy; forward; audit |
| Policy evaluation | `gateway/domain/services/policy_evaluator.py`, `.../apply_policy_pipeline.py` | none | headers, parameters, bearer token, JWT, rate limit |
| Rate limiter | `gateway/infrastructure/redis/rate_limiter.py` | a sorted set per key in Redis | `is_allowed()` |
| Gateway circuit breakers | the rate limiter, `redis_log_writer.py`, `health_router.py` | statuses in the dependency registry | skip, call, count failures, cool down, turn inactive |
| Dependency registry | `shared/runtime/dependency_status.py` | an entry per dependency | `mark_ok/degraded/error/inactive` |
| Administrative use cases | `admin/application/use_cases/` | rows in PostgreSQL (or JSON files) | create, update, delete tenants, domains, routes, policies, users |
| Change notifier | `admin/infrastructure/pubsub/redis_notifier.py` | breaker, failure counter | PUBLISH `config_updates` |
| Raw log reader | `admin/infrastructure/observability/redis_gateway_log_repository.py` | breaker, failure counter | SCAN, XREVRANGE per stream |
| Health page | `admin/infrastructure/health/system_health.py` | none | probe Redis, re-arm the adapters |
| Accounts | `admin/application/use_cases/authenticate_user.py` | users, reset codes | login, change password, reset |
| JSON store | `admin/infrastructure/persistence/json/` | one file with every collection, one lock per store | read, change, truncate, fill |
| Audit, settings, e-mail, web interface, migrations | see `PROJECT.json` | rows; none; none; browser; schema | I/O, declarations, rendering |

How they interact:

- An admin HTTP request runs in one PostgreSQL transaction that the request
  dependency opens and closes (`admin/interface/http/dependencies.py:27-38`).
  The use case writes, then announces on Redis Pub/Sub, then returns; the
  commit comes last.
- The subscriber task reloads the snapshot for each message. Pub/Sub is at most
  once, and (re)subscribing does not reload.
- `/health` of the gateway probes Redis in a thread, records the answer in the
  registry and restarts the subscriber if its task has ended. It is polled by
  the health page of the admin service and by its web interface.
- The users of Redis on the request path obey the registry's `redis_ping`,
  which the probes and the subscriber write.
- A request is decided by the snapshot that is in place when it looks up its
  tenant: the lookups of `handle()` (lines 65-109) never really suspend.

### What is hard here, and what correct means

| Component | Hard behaviour | Correctness |
|---|---|---|
| Propagation of a change | message before commit; load between commits; lost messages; restart racing a dying task; outages | what a handled message stands for is served; never older rows; one live subscriber; it always comes back |
| Contents of a snapshot | four reads at four instants, cascading deletions | rows of one instant; a protected route is not served unprotected |
| Rate limit | timestamp before the suspension, late and lost answers, pruning and expiry boundaries | at most N admitted per window; no undeserved 429 |
| Breakers of the gateway | concurrent failures, stale probe answers, calls that die late | bounded failures; traffic flows again after an outage |
| Breakers of the admin service | two counters, skips that rewrite the status, partial failure of a read | inactive only when deserved; re-armed by the health check; honest status |
| Administrative store | check-then-insert, saves that select again, deletion against foreign keys | no lost or resurrected rows; errors mapped to answers |
| Access control | decided on a row read in one statement, exercised in a later one | nobody changes another tenant's rows |
| Change-audit log | the change and its audit row are separate statements; a deleted user is anonymized | the log tells the changes that were committed |
| Request forwarding | the policy pipeline suspends while configurations are replaced; events are written by tasks nobody awaits | one configuration decides; events agree with the answer; no request leaves its tenant |
| Accounts | two writes between accepting a reset code and clearing it; an expiry and other writers of the file meanwhile | a password comes from a code of its own address; a spent code is gone |
| JSON store | a file that is truncated and filled, one lock for some requests and a lock for each of others | changes are whole, one at a time |

`PROJECT.json` lists the hazards line by line.

## 2. The modules

```
SnapshotCache  <-- refined by --  ConfigPropagation    table versions
                                  SnapshotRows         the rows of those tables
DependencyStatus  <-- extended by -- GatewayRedis, AdminRedis
RateWindow                        one key of the rate limiter
DocumentStore  <-- refined by --  PasswordReset        reset codes, accounts, the JSON file
RoutePath, PolicyEvaluation  <-- extended by -- Forwarding
AdminStore                        use cases on PostgreSQL rows
```

Each `X_proofs` extends `X` and TLAPS; `MCX` adds what only TLC needs (symmetry
sets, records of an instance, a restricted initial state). Operators marked
"Mutant" restate one mapped definition with a plausible bug; nothing refers to
them except the mutants of `PROJECT.json`, which show that each property would
notice.

The modules meet at their edges: SnapshotRows says which configurations a load
may produce, ConfigPropagation when it does, and Forwarding lets any
configuration replace any other at any suspension; RateWindow decides what
Forwarding's limiter answers, GatewayRedis whether it and the log writer are
used; AdminStore's `TenantsStay`, proved as `TenantsRemain`, says that deleting a
tenant never commits, which is why ConfigPropagation and SnapshotRows have no
such operation.

### SnapshotCache
The promise of the gateway's cache: each table of the snapshot is at a version
that was committed, and never goes back.

### ConfigPropagation
A table is its *version*, the number of committed transactions that changed it;
a message carries, for the properties only, the versions committed when it was
published. The actions follow one change from the use case to the snapshot:

| Action | Code |
|---|---|
| `AdminWrite` | a use case up to its last write; a deletion also writes the tables it cascades to |
| `PublishDelivered`, `PublishFailed`, `PublishSkipped` | `notify_config_updated()`: PUBLISH answered; raised (it may have been delivered); breaker open |
| `AdminCommit`, `AdminRollback` | `session.begin()` closing after the use case returned or raised |
| `Connect`, `Subscribe`, `TakeMessage` | the loop of `listen_for_config_updates()` |
| `ReadTable` | one SELECT of `load()`, with a suspension before the next |
| `ReloadDone`, `ReloadFails` | the assignment at the end of `load()`; the `except` around `on_update()`, which sets `snapshot_reload` |
| `TaskFails`, `TaskEnds` | the outer `except`: back off, or give up; the `finally` |
| `ProbeSucceeds`, `ProbeRestarts`, `ProbeLeaves` | `/health`: the answer, and after an `await` the decision to restart |
| `GatewayBoots`, `StartupDone`, `StartupFails`, `GatewayStops` | the lifespan, and the end of the process |
| `RedisGoesDown`, `RedisComesBack`, `LinkDrops` | the environment |

A lost connection surfaces as an exception in the task. What a failing task
does to the statuses of the request path is in GatewayRedis. Cancellation at
shutdown is part of `GatewayStops`.

### SnapshotRows
The same load with rows. A configuration is the tenant's domains, its routes,
the policies of routes and the fallback policies of domains, with the foreign
keys between them. `Announce` is a use case up to its announcement, `Commit`
and `Rollback` what follows; `LoadStarts`, `ReadNext`, `LoadEnds`, `LoadFails`
are `load()`. `overlap` and `origin` remember which configurations were
committed while a load ran; the program has no such variable. `Outcome` is the
answer of `ForwardRequest.handle()` as far as host, route and policy decide it.
Left out: several tenants, updates of a route, every check of a policy but the
bearer token.

### RateWindow
The calls of `is_allowed()` on one key. `Start` takes the timestamp and
suspends; `Execute` is the MULTI/EXEC on the server (prune, add, count, renew
the expiry) and the decision; `Abandon` is an answer that does not come in
time, whose transaction may still run; `Lose` is a transaction that never will.
A refused call counts too, as in the code (ZADD comes before ZCARD). Assumed:
one clock that never goes back, one gateway process, a Redis that keeps its
data, a constant limit.

### DependencyStatus
An entry of the registry: status, consecutive failures, cooldown; and the four
`mark_*` operations on it.

### GatewayRedis
The rate limiter and the log writer as users of Redis. `StartupPing` is
`_ping_redis()` in the lifespan, `StartCall`, `CallSucceeds`, `CallFails` a
call with its suspension, `CoolingEnds` the passing of `next_retry_at`,
`SubscriberFails` the subscriber's warning to the request path,
`ProbeAnswered` and `ProbeRecorded` a `/health` request. A call that an outage
hit fails later, maybe when Redis is back (`"hit"`), and so may the
subscriber's attempt (`doomed`).

### AdminRedis
The notifier and the raw log reader, each with its breaker, and the health
page. `StartPublish`/`PublishEnds` are a publication, `StartRead` and
`ReadGoesOn` a read stream by stream, `Skip` a short-circuited use,
`ProbeAnswered`/`ProbeRecorded` the health check that re-arms them. The
adapter's own counter and the registry's are always equal in the code and are
one variable. A failure closes the connections of the adapter's other open
operations; those are `doomed` and may fail although Redis answers.

### AdminStore
Every operation of the admin service that changes rows, statement by statement
and for several requests at once. A row is its foreign key, the value of its
unique column, and the other columns the properties tell apart.

| Action | Code |
|---|---|
| `CreateTenant` ... `ChangePassword` (17) | an endpoint's guard (`Reaches`), the use case up to its last read, and the statements that follow from it; `ReadsOnce`, `ReadsFirst` and `ReadsAgain` are the reads, between which other requests commit |
| `UpdateTenantAlias`, `DeleteTenantUnlinked`, `CreateDomainHost`, `UpsertPolicyMerge`, `UpsertDomainPolicyMerge`, `CreateMemberEmail`, `RegisterAlias` | the second read of the use cases that have two |
| `SaveSelects`, `SaveInserts`, `SaveUpdates` | `save()` of a repository: `session.get()`, then INSERT or UPDATE of the columns that differ from what it fetched |
| `Deletes` | `delete()`, with PostgreSQL's cascade |
| `Audits`, `Anonymizes` | `record()`; the two UPDATEs of `anonymize_user_references()`, of `actor_id` and of `resource_id` |
| `Commits`, `Dies` | the request's `session.begin()` block; the end of the process, of its connection or of a transaction that PostgreSQL aborts to break a deadlock |

`Waits` stands for PostgreSQL's row, key-share and unique-index locks, `Legal`
for its constraints (an error rolls the request back: `"error"`). A statement may
also fail by itself, with nobody else at work, and the answer is 500 too
(`Unstorable`, told apart as `"unstorable"`): a policy's key cannot be encrypted
when `SENTRA_POLICY_SECRET_KEY` is unset, which is the default
(`SecretCipherError`, `postgres/policy.py:28-29`, `domain_policy.py:28-29`); a
number or a text that the body's schema lets through does not fit its column; the
audit summary of a route's policy, a path and more, is wider than its 512
characters. Which values these are is left open: any such statement may fail.
`overtaken`
remembers which rows others have committed since a request began; the program
has no such variable. It lets the properties say *when* the code loses an
update, brings back a row or is refused by the tables: only when requests
overlapped.

What the module assumes of its constants is what the code has before the first
request: the seeded rows satisfy the schema (`Fits` is NOT NULL and the CHECK
on a user's role and tenant, `Legal` the unique columns and foreign keys), the
uuids that requests draw are new, and a token tells the tenant and the role of
its user's row, which no operation changes. `OwnTenantOnly` therefore speaks of
the token's tenant and permissions. Permissions may have been changed since
login: the code reads them from the token too. Access and existence are decided
on one read and used in later statements; `OwnTenantOnly` and
`UniqueAndReferenced` say what still holds of the tables when those commit.

### RoutePath, PolicyEvaluation, Forwarding
`RoutePath` has `Route.matches()`, `strip_prefix()` and the upstream path as
operators on sequences; `PolicyEvaluation` the ladder of token checks and the
header and parameter rules. Forwarding is the life of a request:

| Action | Code |
|---|---|
| `Unparsed` | a method outside `HttpMethod`: 500 and no event |
| `Arrives` | `handle()` up to its first suspension: lookups, evaluator, events of a refusal |
| `LimiterAnswers` | the rest of `apply()` after `is_allowed()` has answered, or has raised without fail-open (`GATEWAY_REDIS_FAIL_OPEN`), and the call of the backend |
| `UpstreamAnswers` | `forward()` returns or raises; the events, the router's answer |
| `AuditWrite`, `LogWrite` | the background tasks; the insert meets the tenant's foreign key, a NOT NULL and the widths of `path` and `client_ip` |
| `Reload`, `TenantDeleted`, `PostgresTurns`, `Stops` | what happens around a request |

Three places of the code decide on a status, and so do three operators: the
audit event's builder (`AuditStatus`), the log (`LogStatus`) and the router
(`Answer`). Every input, configuration and upstream status is a parameter;
MCForwarding gives twelve inputs and three configurations. An input says whether
its path and its client's address fit their columns (`fits`).

### DocumentStore, PasswordReset
`DocumentStore` is what a user of `json/store.py` may count on: a document, the
one client that is changing it, and what each client was last shown. `Begin` and
`End` are a change of one entry, `Look` a read while nobody writes; `Dies` is the
death of the process, which loses the document only if there was a writer.
PasswordReset has `RequestPasswordReset` and `ResetPasswordWithCode` in the
program's two modes: accounts in the file with one store and one lock, or in
PostgreSQL with a store, and so a lock, for every request.

| Action | Code |
|---|---|
| `Forgot`, `Mails` | `RequestPasswordReset`: the account's lookup; the e-mail, after the code is stored |
| `Reset` | `ResetPasswordWithCode` up to the comparison of the codes |
| `LooksUpAccount`, `LooksUpRow`, `UpdatesRow`, `InsertsRow` | the account by its e-mail; `UserRepository.save()`: `session.get()`, then UPDATE or INSERT, between which the account may be deleted |
| `MutateReads`, `MutateTruncates`, `MutateFills` | the thread of `mutate_async()`, and what the use case does next |
| `Commits`, `Expires`, `AccountDeleted`, `ProcessDies` | the request's transaction; the time of any stored code; another request; the end of the process between any two steps |

## 3. The runs

| Run | Configuration | Question and answer |
|---|---|---|
| `propagation` | `ConfigPropagation.cfg` | With two admin requests, two tasks and every fault: is what handled messages stand for served (`HandledIsServed`), is one subscriber alive (`SingleSubscriber`), is its status honest (`OkMeansSubscribed`), does the snapshot implement `SnapshotCache` (`CacheSpec`)? Does the subscriber come back once Redis stays up (`SubscriberRecovers`), and is a delivered message served unless its connection dies or the registry reports a failed reload (`DeliveredIsServed`)? Yes. |
| `stale_when_quiet` | `StaleWhenQuiet.cfg` | Is the snapshot up to date when nothing failed and nothing is going on (`FreshWhenQuiet`)? **No.** |
| `snapshot_rows` | `SnapshotRows.cfg` | Is a load atomic while the transactions it overlaps change one table (`AtomicUnlessTorn`)? Does a load torn by one transaction answer correctly for what stayed (`TearHitsOnlyTheDeleted`)? Yes. |
| `torn_load` | `TornLoad.cfg` | Is a request refused if every configuration committed during the load refuses it (`RefusedIfAlwaysRefused`)? **No.** |
| `rate_window` | `RateWindow.cfg` | Does no window hold more than the limit (`WindowBound`), and is a 429 deserved (`DenialJustified`)? Yes, with the delay of a timestamp taken off the window. |
| `gateway_redis` | `GatewayRedis.cfg` | How far is the failure budget overshot (`Budget`)? After an outage, is a user held back by its own inactivity only (`HeldBackOnlyIfInactive`)? By at most the calls in flight; yes. (That an inactive user never returns, `InactiveIsFinal`, is proved and has no run.) |
| `admin_redis` | `AdminRedis.cfg` | Is an adapter inactive only when its budget is spent (`InactiveIsDeserved`)? Do both breakers close after the faults cease, without any use (`BreakersClose`)? Yes. |
| `admin_requests` | `AdminStore.cfg` | Two overlapping requests of any kind by any caller. Does a commit change rows of the caller's tenant and permissions only (`OwnTenantOnly`)? Does only an overlap bring rows back (`OnlyOverlapResurrects`), undo columns (`OnlyOverlapReverts`) or make the tables refuse a statement (`OnlyOverlapFails`)? Do log and tables agree (`AuditTellsTheChange`), and is a deleted user forgotten, as actor and as subject (`DeletedUserIsForgotten`)? Do the checks of several requests ever let a duplicate or a dangling reference through (`UniqueAndReferenced`)? Never; the rest yes. |
| `keyless_policy` | `KeylessPolicy.cfg` | Does every committed policy that demands a signature have its key (`SignedPolicyHasKey`)? **No.** |
| `tenant_deletion` | `TenantDeletion.cfg` | Is a tenant without routes deleted when nobody else is at work (`TenantIsDeleted`)? **No.** |
| `password_reset` | `PasswordReset.cfg` | Without PostgreSQL, does the file implement `DocumentStore` (`FileChangesWhole`)? Is a spent code gone unless two locks met (`SpentIsGone`), does a password come from a code of its own address (`ResetIsWhole`), does every request end (`RequestsEnd`)? Yes. |
| `forwarding` | `Forwarding.cfg` | Does one configuration decide a request (`OneConfigurationDecides`), does it stay in its tenant (`TenantsKeepApart`), is its path cut at a slash (`CutAtSlash`), do its events and its answer tell how far it came (`EventsTellTheCourse`), does the database take the audit event unless the tenant is gone or the client sent more than fits (`RejectedForACause`), and are request and events settled (`RequestsSettle`)? Yes. |

Every passing run also checks its module's `TypeOK`. Deadlock is checked except
where behaviours end by construction: calls and clock run out in RateWindow,
transactions in SnapshotRows, and `stale_when_quiet` has no faults and a
bounded number of commits. AdminStore and PasswordReset stop only in states
where every request has been answered, which an action of their own says.

### Bounds, and why they are enough

- **ConfigPropagation**: 2 admin requests (two commits in either order around
  a load), 2 task identities (a dying task and its successor), 2 retries (one
  that succeeds, one that is the last), 2 commits of a table, and 1 unread
  message when a request starts (so up to 2 queued). `DeleteRoute` writes two
  tables, which gives loads that mix instants; an operation on one table is a
  special case. `MaxVersion` and `MaxInbox` bound the environment (the guards
  of `AdminWrite`), never the gateway. There is no symmetry, since the same run
  checks liveness.
- **SnapshotRows**: 2 routes and 1 domain, all 8 operations, 2 transactions per
  behaviour, from every consistent initial configuration. The tear needs one
  transaction between two SELECTs; two give mixtures of three configurations.
- **RateWindow**: 4 calls, limit 2, window 3, delay 1, clock up to 5: the limit
  is reached, exceeded and freed again, overlapping calls run in both orders,
  and members and key expire on their boundaries.
- **GatewayRedis**: 2 calls per user, 2 probes (an old answer recorded after a
  new one), a budget of 3 instead of 5.
- **AdminRedis**: 2 operations per adapter, a scan and 1 stream per read, a
  budget of 2 and operations that start while fewer than 3 failures in a row
  were counted, so that the budget is reached and overshot.
- **AdminStore**: 2 requests, each any of the 17 operations by any of 4
  callers, on two tenants of which one has a row in every table, with a policy
  open, signed or absent; one unused value for unique columns. Every race that
  the code's single SELECT-then-write distance allows needs two requests.
- **PasswordReset**: 3 requests on 2 addresses: a code asked for, used, and
  another request of either kind in between; a crash at any point. The count of
  crashes needs no bound, as a crash ends every request under way.
- **Forwarding**: 1 request, as requests share nothing but the world, which
  changes under it without a bound; 3 configurations (guarded; a route moved
  and opened; a tenant gone), 12 inputs that reach every outcome but
  `DOMAIN_NOT_FOUND`, one of them too wide for the audit table, upstream statuses 200 and 504.

### Fairness

- *Event loop and thread pool*: a task, load, call, read, request or health
  handler that can go on does (`WF` on each). asyncio's ready queue is FIFO and
  every Redis operation has a timeout (1.0 s to connect, 1.5 s to answer), the
  backend's too, so none waits forever.
- *Delays*: a cooldown or a rest passes.
- *Supervision*: the gateway is started again (`restart: unless-stopped` in
  the compose files).
- *Polling*: somebody asks for `/health` (`ProbeSucceeds`, `ProbeAnswered`). No
  container health check does; the admin service's health page and its web
  interface do while somebody looks at them. This is an assumption.
- No traffic is assumed: neither requests in GatewayRedis nor uses of the
  adapters in AdminRedis have to come.
- Nothing is assumed of faults or administrators; "Redis stays up" and "links
  hold" are premises of the liveness properties, not fairness.

## 4. The proofs

TLAPS proves these for every value of the constants that satisfies the
modules' named assumptions: positive retry and failure budgets, finite sets of
calls, operations among those defined, the start-up loader not a task, seeded
rows that satisfy the schema, tokens that tell the tenant and role of their
users' rows, fresh uuids, routes in the order of the query
(longest prefix first), paths that begin with "/" (the framework's catch-all
route takes no others), and values such as `None` distinct from the things
they are not.

| Module | Theorem | Argument |
|---|---|---|
| `ConfigPropagation_proofs` | `TypeCorrect`, `HandledServed`, `OneSubscriber`, `StatusTrue`, `NeverDeafForGood`, `Refinement` | One inductive invariant. `HandledIsServed` is not inductive: `Tags` says a message stands for committed versions, `Reads` that every load in progress, table by table, is no older than the snapshot, `Answers` that a reload covers the message that asked for it. `Reads` needs a single loader, hence `Alive` (the only living task is `current`). The refinement then maps `ReloadDone` and `StartupDone` to `Refresh`, `AdminCommit` to `Commit`, and all else to stuttering. |
| `SnapshotRows_proofs` | `TypeCorrect`, `AtomicLoads`, `TearIsLocal` | Every table read so far is that of some configuration of `overlap`, and the committed one is among them. If all of `origin` agree pairwise in three tables, one of the four witnesses has all four. For the tear, `Neighbours` adds that two configurations that are all of an overlap are one operation apart. |
| `RateWindow_proofs` | `TypeCorrect`, `WindowIsBounded`, `DenialsAreJustified` | `Remembered`: an admitted call stays in the sorted set until its window has passed, so whoever is admitted next has counted it. `Stamped` relates stamps, clock and expiry. The delay is needed: without it the bound is false. |
| `GatewayRedis_proofs` | `TypeCorrect`, `BudgetHolds`, `FinalOnceInactive` | `Spared`: a user that is not inactive has at most its budget behind it. |
| `AdminRedis_proofs` | `TypeCorrect`, `InactivityDeserved` | The property with the types, and `StreamsLeft`: a read never counts below its last stream. |
| `AdminStore_proofs` | `TypeCorrect`, `TenantsRemain`, `OverlapResurrects`; `ConstraintsHold`, `RowsFit`, `RightsAtCommit`, `OverlapReverts`, `OverlapFails`, `AuditAgrees`, `UserForgotten` | Two invariants, described below: `IInv` for the first three, `Whole` for the others. |
| `PasswordReset_proofs` | `TypeCorrect`, `SpentCodesStayGone`, `ResetsAreWhole`, `FileImplementsStore` | `Locked` and `Alone`: who changes the file is alone with it unless `raced`, and has read what is shown. `Records`: every document anywhere - the file or a thread's copy - has only codes that were stored for their address and passwords whose request set them. `Removed`: a spent code is in none of them and will not be stored again. The refinement maps taking the lock to `Begin`, the filling of the file to `End`, `Reset` to `Look`, the death of the process to `Dies`, and all else to stuttering: between truncating and filling, the document is the one its writer has read. |
| `Forwarding_proofs` | `TypeCorrect`, `OneSnapshot`, `TenantsApart`, `EventsTell`, `RejectionsHaveCauses`, `PathsCutAtSlash` | `Course`: what a request holds is what the snapshot of its arrival says, and what the limiter has said; `ToldOf`: its events and its answer tell the outcome that this leads to. `Trailing`, `Leading` and `Cut` are lemmas on sequences: prefix, slashes and what the backend sees make up the path, for any lengths. |

### AdminStore's invariants

`IInv` follows the plan of each request. `Course`: what it may still save is
`Backed` (its own row, a committed one, or one that others have committed since
it began), which no commit takes away. `Plan`: a transaction that has deleted a
tenant has one thing left to do, the audit row that references it; `View` has
no such tenant, so it rolls back.

The other properties relate a commit to the read, the locks and the constraints
behind each of its statements. `Whole` adds to `IInv`:

- `Lineage`: where rows come from. The `Copies` of a row are the committed one,
  those of open transactions and those about to be saved. All `Fits` the schema
  and are `Kin`: they agree on the owner, and on a user's role. So a check made
  on one copy holds for whichever copy is there at the commit, however long ago
  it was made; `RightsAtCommit` rests on this. `Tokens` is the same for the
  callers' rows.
- `Constraints`: `db` and the `View` of each open transaction are `Legal`, and
  any two transactions are `Apart`: they have changed different rows to
  different unique values, and neither references what the other has deleted.
  Two legal views that are apart can be merged, so whichever commits first
  leaves the other's view legal. This is why the locks are enough
  (`ConstraintsHold`).
- `Conduct`: how far a request is (`Stage`: it begins, has written, has told the
  log, ...) and what each of its remaining statements is sound for (`Sound`),
  what it has written (`Written`), and what its first read promises the second
  (`Saw`). Each fact that another commit can take away is stated under "the row
  is not in `overtaken[r]`": a commit adds its rows to `overtaken` in the very
  step in which it changes them, so what remains is frozen. At the commit
  `Conduct` gives `OverlapReverts`, `OverlapFails`, `AuditAgrees` and
  `UserForgotten` directly.

A step either commits one request or commits nothing (`Moves`). The lemmas treat
the 17 operations once, by the plan each produces, and then the commit once, for
all of them. In `KeylessPolicy.cfg` the refuted `SignedPolicyHasKey` shows what
`Whole` cannot contain: a column whose value depends on a read by someone else.

### Model-checked only

The liveness properties (`SubscriberRecovers`, `DeliveredIsServed`,
`HeldBackOnlyIfInactive`, `BreakersClose`, `RequestsEnd`, `RequestsSettle`) rest
on fairness and so on ENABLED, outside the prover's reach. Every other property
of the passing runs is a theorem.

The refuted properties have counterexamples and nothing to prove. The modules
use no recursion.

## 5. What the models say about the code

1. **A change may stay unseen** (`stale_when_quiet`, `manage_policy.py:99` and
   every other announcing use case). The message goes out before the commit. A
   gateway that reloads in between reads the old rows, and nothing reloads the
   new ones until another change is announced.
2. **A deleted route may stay up without its policy** (`torn_load`,
   `postgres_snapshot.py:87`). The four SELECTs see different instants. A route
   read before its deletion commits loses its policy if that is read after, and
   is served under the domain's fallback or none. Because of 1, the load that
   the deletion itself triggers runs exactly then. `TearIsLocal` bounds the
   damage: requests for other routes are answered correctly.
3. **A policy may demand a signature without a key** (`keyless_policy`,
   `postgres/policy.py:27`). One request opens the policy and clears its key
   while another, which has seen the key, keeps the signature.
4. **A tenant cannot be deleted** (`tenant_deletion`, `manage_tenant.py:99`).
   The audit row references the tenant that the statement before it has
   deleted; the answer is 500, with nobody else at work. The collections of
   requests expect 204 (`tests/postman/sentra_admin_postman.json:1072`, "o
   tenant pode ser deletado", and
   `tests/postman/SENTRA_collection.postman_collection.json:714`, "Tenant
   removido 204"). `TenantsRemain` proves that no overlap helps.

Three more disagreements follow from the models without a run of their own:

- *The rate limit may stop for good* (`rate_limiter.py:122`). After five
  failures in a row the limiter is inactive, and nothing re-arms it before the
  process restarts: `FinalOnceInactive` proves it. `gateway/main.py:52` says of
  a component without Redis that it "será atualizado quando for usado".
- *A crash may empty the JSON file* (`json/store.py:50`). `write_text()`
  truncates before it writes, and an empty file reads as a new document: all
  accounts and codes are lost. Line 20 calls the store "transacional".
  `FileChangesWhole` says exactly how far that is true: without PostgreSQL,
  changes are whole and one at a time, and only the death of the process while
  somebody writes loses anything - then it may lose everything.
- *A clock skew of 0 is 30* (`postgres_snapshot.py:54`, `int(jskew or 30)`;
  `ClockSkew`). `admin/domain/entities/policy.py:191` allows 0 to 300, and the
  admin service stores and shows the 0.

Effects the models show and no document contradicts:

- *Deleted rows come back, changes are undone* when requests overlap
  (`OnlyOverlapResurrects`, `OnlyOverlapReverts`): `save()` selects again and
  inserts what it does not find, and entities are written back whole.
- *A policy with a key is answered 500 where no cipher secret is set*
  (`Unstorable`), which is the default of `SENTRA_POLICY_SECRET_KEY`.
- *A deleted user may stay in the audit log as an actor*: a change of the user's
  own that commits between the first UPDATE of the anonymization and the
  deletion is not seen by it (the exception in `DeletedUserIsForgotten`).
- *With PostgreSQL, reset codes are written under a lock that excludes nobody*
  (`raced`): two requests at once can bring a spent code back or lose one.
- *A backend's timeout is a 504 for the client and a 502 in the log*
  (`EventsTellTheCourse` says so).
- *An audit row wider than its columns is refused*: `path` holds 2048 characters
  and `client_ip` 64, and nothing shortens what the request brought
  (`RejectedForACause`; `models.py:35,39`). The client's answer does not change.
- *A skipped publication turns `inactive` into `degraded`*
  (`redis_notifier.py:92`), and *the reader's last mark is always ok*, even
  after a failed query (`redis_gateway_log_repository.py:66`).

## 6. What is not modelled

- *AdminStore*: bodies that the entities refuse, which values a column or the
  cipher refuses (that they do is a choice), the announcements
  (ConfigPropagation has them), and the JSON repositories of the same tables, of
  which PasswordReset has codes and accounts. A cascade takes its locks at once. No run has three overlapping requests.
- *SnapshotRows* (partly): several tenants and updates of a route. Forwarding's
  configurations are given, not built by loads.
- *Forwarding*: contents of headers and bodies; JWT cryptography (a token is
  what the checks see of it); `DOMAIN_NOT_FOUND` has a branch but no run
  reaches it, as a load always builds a route together with its backend.
- *PasswordReset*: a document is filled in one piece (one buffer of Python's
  `write_text()`); a longer one is written in several, and a process that dies
  in between leaves a file that cannot be parsed. Errors of the file system
  without a crash, in `clear()` among others, are left out. A code belongs to
  one request: no two requests draw the same six digits. That one code resets a
  password only once is not claimed: two requests that give the same code at the
  same time may both succeed, as each compares before the other clears.
- *Accounts*: login only reads and signs a token; the sending of e-mail is one
  step that may fail.
- *Audit queries and metrics, settings and schemas, cryptographic helpers, the
  web interface, migrations*: reading, declarations, rendering.
- *Time* is abstract except in RateWindow: delays end, codes expire at any
  moment.

## 7. Plan

Done: the propagation of a change with its abstract cache, snapshot rows, the
rate window, the breakers of both services, the administrative store, request
forwarding with policies and paths, password resets on the JSON store; the
proofs of every invariant and action property of these, and of both
refinements.

Left, in this order:

1. SnapshotRows with several tenants and updates of routes, and its refinement
   of ConfigPropagation's loads.
2. The other JSON repositories, as clients of DocumentStore.
3. The queries of the audit log, against the rows Forwarding and AdminStore
   write.
