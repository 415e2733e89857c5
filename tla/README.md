# HookRelay: a TLA+ verification project

HookRelay accepts events over an HTTP API and delivers them as signed webhooks,
at least once, with retries. This directory holds TLA+ models of its delivery
path, its API, its console's flows and its demo receiver, TLC configurations that
check them on small instances, and TLAPS proofs that hold for every instance. Source paths below are relative to
`src/backend/src/` unless they start with `src/`.

## 1. The system

| Component | State | Operations | Hard part |
|---|---|---|---|
| Event publishing (`events/`) | `events`, `deliveries`, `outbox` in PostgreSQL | `publish`: event, fan-out and outbox row in one transaction | idempotency key conflicts |
| Endpoint management (`endpoints/`) | `endpoints`, `subscriptions` | create, update, setSubscriptions, ping | look-up then insert, DELETE and INSERT of subscriptions under a publish, status changes racing deliveries |
| Deliveries (`deliveries/`) | `deliveries` | redeliver, list, attempts | redelivery beside a running attempt; pages and histories read while rows change |
| Outbox relay (`relay/`) | its batch | `tick`: read PENDING rows, load jobs, mark rows | dies or fails between load and mark; two relays at once |
| Queue (BullMQ in Redis) | jobs, locks, delays, attempt counters | add, fetch, complete, fail, delay, stall | jobs handed out twice; data loss |
| Worker (`worker/worker.service.ts`, `delivery.processor.ts`) | job slots | claim, POST, record, write back, schedule retry | many awaits between read and write; crashes |
| Endpoint cache (`worker/endpoint-cache.ts`) | status, URL, secret per process, 30 s | get, invalidate | stale status |
| Circuit breaker (`worker/circuit.ts`, `circuit.store.ts`) | snapshot and probe key in Redis, counter in PostgreSQL | allow, success, failure | GET and SET that are not atomic, probes, fail-open |
| Tenant limiter (`worker/tenant-limiter.ts`) | counter with TTL in Redis | acquire, release | DECR and DEL that are not atomic, leaks |
| Publish rate limiter (`events/publish-rate-limiter.ts`) | window counter in Redis | consume | fail-open, TTL |
| API keys, tenants (`api-keys/`, `auth/`, `tenants/`) | `api_keys`, `tenants` | create, rotate, authenticate | concurrent rotation, lazy revocation |
| SSRF protection (`security/ssrf.service.ts`, lookup hook of `worker/delivery-http.client.ts`) | none | classify an address; check a URL; check each connection | ends of ranges; DNS that changes its answer |
| Signatures (`worker/signature.ts`) | none | sign, build headers | the receiver must know the secret in time |
| Purge job (`jobs/purge-attempts.ts`) | - | delete old `delivery_attempts` | frees claimed numbers |
| Demo receiver (`src/demo-receiver/server.js`) | secrets, timers, `processed_delivery_ids` | verify, consume, three routes, `/config` | repeated and late requests, restarts |
| Console (`src/frontend/src/`) | what a page shows | register an endpoint, expand a row, redeliver | several requests in a row; answers out of order |
| Backoff, cipher, configuration, metrics, benches | - | - | - |

How they interact: the API writes PostgreSQL only. The relay copies outbox rows
into the queue. Workers take jobs from the queue, ask the tenant limiter, read
the delivery, ask the cache, claim an attempt by an INSERT under
`UNIQUE(delivery_id, attempt_no)`, ask the breaker, POST, and write the attempt,
the breaker, the endpoint and the delivery in that order. PostgreSQL is the
truth; everything in Redis is meant to be derived from it. The console creates an
endpoint, hands its secret to the receiver and then subscribes it; the receiver
suppresses duplicates by `X-Delivery-Id`.

What makes the parts correct:

- delivery: no open delivery is forgotten; attempts are exclusive, numbered
  without gaps and counted once; a final status is true and stays; every
  delivery ends; a redelivery is honoured;
- breaker: it opens and disables when it should and not before, sends one probe
  at a time, and closes again when the receiver is back;
- limiter: never more deliveries than the limit, never a refusal without need,
  and no slot lost for ever;
- API: one event per idempotency key and every reply names it; a tenant always
  has an ACTIVE key, and an old key works until its grace is over; endpoint
  URLs are unique and pass the address rules; a publish sees whole sets of
  subscriptions, and a PUT of them replaces the earlier ones; a walk through the listing misses and repeats nothing;
- exchange: at least once outside is once inside: a delivery has one effect, and
  what counts as delivered was processed; no socket to an internal address; no
  signature is refused because of the order in which things were set up.

`PROJECT.json` lists the hazards, each at the line where it bites.

## 2. Modules

| Module | Models |
|---|---|
| `DeliveryPipeline` | API transactions, relay, queue, workers, endpoint cache; faults; safety, action and liveness properties |
| `DeliveryLedger` | what the service promises about one delivery, without any machinery |
| `DeliveryRefinement` | the mapping under which the pipeline implements the ledger |
| `DeliveryPipelineProofs` | TLAPS proofs: types, claim protocol, refinement, budgets, abandoned claims |
| `DeliveryScheduleProofs` | TLAPS proofs: attempt budgets, retry times, nothing is lost, stale caches; extends `DeliveryHistory` too |
| `CircuitBreaker` | `circuit.ts` as operators, `CircuitStore` and the endpoint updates as steps, one endpoint |
| `CircuitBreakerProofs` | its TLAPS proofs |
| `TenantLimiter` | `ACQUIRE_LUA` and `release`, one tenant |
| `TenantLimiterProofs` | its TLAPS proofs |
| `TenantApi` | requests of one tenant: authentication, rate limit, publish under an idempotency key, key rotation |
| `TenantApiProofs` | its TLAPS proofs |
| `DeliveryHistory` | the pipeline with one history variable: deliveries whose endpoint stayed active |
| `SsrfService` | the address rules as operators, with a reference definition of the ranges |
| `EndpointApi` | create, update and setSubscriptions of endpoints and the fan-out of publish, one SQL statement per step; extends `SsrfService` |
| `EndpointApiProofs` | its TLAPS proofs |
| `DeliveryReads` | the paged listing and the console's delivery table beside them; extends `EndpointApi` |
| `DeliveryReadsProofs` | its TLAPS proofs |
| `Receiver` | the demo receiver |
| `WebhookExchange` | console flow, HTTP client, receiver, history reader and purge; composes `DeliveryLedger`, `SsrfService` and `Receiver` |
| `WebhookExchangeProofs` | its TLAPS proofs, and those of `SsrfService` |
| `MC...` | instances for TLC |

`WebhookExchange` stands on the ledger instead of the pipeline: the pipeline is
proved to implement the ledger, so what holds for whatever order of attempts the
ledger allows holds for the order the pipeline makes (apart from a purged claim,
which `WebhookExchange` adds).

### DeliveryPipeline

One action is one database or Redis round trip, that is, one `await`; code
between two awaits of a Node process is atomic, so this is exactly the grain at
which the processes interleave. API requests are one action because each is one
transaction. The variables are the tables (`status`, `attemptCount`,
`nextRetryAt`, `claimed`, `okAt`, `errAt`, `endpointStatus`, `outbox`), the queue
(`jobs`), the relay's local state (`rpc`, `batch`, `published`) and the worker
slots (`wpc`, `wjob`, `seen`, `outcome`, `cache`). `wpc` names the await a slot
is at. A delivery is the pair of its event and its endpoint.

`Env` selects which faults and operator actions may happen:

| Env | Actions | In the code |
|---|---|---|
| ping, redeliver, patch | `Ping`, `Redeliver`, `PatchEndpoint` | API requests |
| autoDisable, cacheExpire | part of `UpdateEndpoint`; `CacheExpire` | breaker verdict, cache TTL |
| tickAbort, addBulkError | `TickAbort`, `TickLoadError` | relay restart or database error; queue error with or without effect |
| workerCrash, lockLost | `WorkerCrash`, `Stall` | process death; lock expiry under a slot that goes on |
| storeError | `HandlerError`, `ClaimReplyLost`, `FinishReplyLost` | a database call rejects, with or without effect |
| redisWipe | `RedisWipe` | Redis returns empty |

The safety theorems and the run `duplicates` hold whatever `Env` contains.
`NoLostDelivery` does not: section 5 says under which faults it is proved, and
section 4 how each of the others breaks it.

BullMQ is external and modelled from its use: `addBulk` ignores an id that is in
the queue; a job has one owner; a job that throws is delayed while
`made + 1 < attempts` and otherwise removed; a job whose lock is gone is put
back at most `MaxStalled` times; an owner that lost its lock cannot complete or
fail the job. The tenant limiter and the breaker answer nondeterministically
here, so every theorem holds for whatever they answer.

### CircuitBreaker

The snapshot, the probe key, the endpoint row, and slots between the Redis calls
of `allow`, `success` and `failure`. Time is two events, `CooldownEnds` and
`ProbeExpires`. `observed` counts failed POSTs since the endpoint was last
enabled and exists for `DisableEarned` only. Counters stop at `Cap`, which no
comparison of the code can tell from a larger value.

### TenantLimiter

The counter may go below zero, as Redis' does. `armed` says that the key has a
TTL; `old` keeps the deliveries under way when it was armed, because a delivery
(10 s) is shorter than the TTL (60 s), so that the key can only expire after
those are over.

### TenantApi

`DeliveryPipeline` takes a publish as one step because it is one transaction.
Here the transaction is taken apart into its statements under READ COMMITTED
(Prisma sets no other level): the INSERT of an event waits for an open
transaction with the same idempotency key and then meets its row or not;
`updateMany` of a rotation takes a snapshot, waits for locked rows and
re-evaluates its condition. `pc` names the await a request is at. `graceOver`
stands for the clock passing `expires_at`, `WindowEnds` for the TTL of the rate
limiter's key. Errors are in `Env`: `redisError` (the limiter lets the request
through) and `storeError` (a query rejects, a transaction is rolled back, or the
COMMIT takes effect and its reply is lost). A rotation whose reply is lost leaves the
tenant with an ACTIVE key that it never received and its old keys in their grace
period, so `KeyAlwaysWorks` is about the rows and not about what the tenant holds.

### DeliveryHistory

`process()` writes nothing when it skips an inactive endpoint, so the tables do
not show whether the skip was right. `served` holds the deliveries whose endpoint
has been ACTIVE ever since they were published or redelivered.

### SsrfService, EndpointApi and DeliveryReads

An address is a record, and an IPv6 address is represented by its first group,
as one of `::` and `::1`, or as an IPv4-mapped address in one of its two spellings:
"mapped" is the dotted one that a resolver answers, "hex" the one in groups that
`URL.hostname` gives (`hostname`). `Blocked` follows the code in sending only the
first to the IPv4 rules. Other spellings are not modelled. `NamedV4` and `NamedV6` are the ranges as the messages of
`blockedIpReason` name them, as intervals: the reference for the masks.

In `EndpointApi` requests stand between two statements (`pc`), under READ
COMMITTED. A subscription row carries the request that wrote it: PostgreSQL's
DELETE, after waiting for another transaction, deletes what is left of the rows
it had found, and not the rows the other one inserted. So two concurrent PUTs
with disjoint bodies may leave the union of both, although
`endpoints/endpoints.service.ts:87` speaks of replacing the whole; with a common
type the second fails with an unhandled unique violation. What is guaranteed is
`WholePutsSeen` (a publish sees whole bodies of PUTs that committed) and
`PutsReplace` (nothing that was there when a PUT was sent survives it; `before` is
history for this). With `storeError` a statement is rejected and its transaction
rolled back, or the last one takes effect and the client gets a 500 all the same
(`ReplyWritten`). `createdAt` is Prisma's time at the start of a request in
milliseconds, hence equal for all rows of a publish and not in commit order.

`DeliveryReads` adds a client that walks the pages, all deliveries or the DEAD
ones, deliveries that are given up or redelivered meanwhile, and
`DeliveriesPage.expand` with answers in any order.

### Receiver and WebhookExchange

Of each endpoint at most one delivery is followed (`Followed`), of an event or of a
ping, so `d` names both, and the endpoint's secret. A ping needs no subscription.
`page` is how far `EndpointsPage.create` is; `sender` the worker's attempt;
`wire` the requests sent and not handled, `timers` those in `/hooks/slow`. A
worker that gives up forgets its request, the network does not. A handler of the
receiver runs without interruption, but its process may end between two handlers
or inside one, after the INSERT and before the processing (`HooksKilled`,
`SlowTimerKilled`); it starts again with a `WEBHOOK_SECRET` out of `EnvSecrets` and
keeps its table if `DB_PATH` is a file (`onFile`, out of `DbPaths`). `told`, `early`,
`effects`, `dropped`, `cut` and `restarts` are history. The class of a failure is
recorded by the code and decides nothing, so it is left out.

| Env | In the code |
|---|---|
| configLost | the console's `/config` fails or is answered by a proxy (`receiver()` ignores the status) |
| skew | the clocks differ by more than `TOLERANCE_SEC` |
| purge | the purge job runs; it never meets a running attempt, since its retention is days |

## 3. Runs

| Run | Shows | Instance |
|---|---|---|
| `duplicates` | claim protocol and refinement under crashes, lost locks, store errors, Redis loss | 1 delivery, 2 slots, 2 outbox rows, 2 attempts |
| `operators` | only a completed job drops an open delivery, and leaves no claim in the way of a redelivery; the inductive invariant; with pings, operators, stale caches and addBulk errors | 1 endpoint, 2 relays, 2 slots, batch of 2 |
| `liveness` | nothing is lost by relay restarts and queue outages; attempt budgets agree; every delivery ends, outbox drains, redelivery is honoured | 1 delivery, 2 slots, `FairSpec` |
| `crash` | **violated**: a claim whose worker died strands the delivery | 1 slot |
| `staleSkip` | **violated**: a stale cache entry strands a delivery of an active endpoint | 1 slot |
| `breaker` | opening and disabling despite races, errors, stale caches; a recovered receiver gets its circuit closed | 2 slots, open after 2, disable after 3, `FairSpec` |
| `reactivate` | **violated**: reactivation does not reset the breaker's count | 1 slot |
| `limiter` | no refusal without need, leaks are reclaimed, no starvation | 4 slots, limit 2, 2 faults, `FairSpec` |
| `limitRace` | **violated**: more deliveries than the limit | 3 slots, limit 2 |
| `api` | idempotent publishing, keys and grace periods, reopening window, no request waits for ever | 3 requests, 2 idempotency keys, 4 API keys, limit 2, `FairSpec` |
| `console` | unique and safe URLs, whole PUTs that replace earlier ones, exact paging, attempts under their row; with failing statements and lost replies | 2 requests, 2 endpoints before them, 2 types, 3 deliveries, pages of 1 |
| `exchange` | one effect per delivery, acknowledged is processed, no internal address, secret in time, complete history | 2 endpoints, 1 event or ping, 2 attempts and 1 redelivery, 1 crash or restart, table in memory or on file |

Bounds. Races in the claim protocol are between two holders of one delivery:
two slots and two jobs (first job and redelivery) make all of them, and two
attempts reach each of retry, last attempt and attempt after DEAD. `MaxOutbox`
bounds the outbox rows ever written, hence redeliveries. Two relays make every
double load and double mark. Three slots are the fewest with which a limit of
two can be exceeded. `Cap` and `MaxFaults` bound counters and faults. Three requests are two that race and one that
repeats, or two rotations and a guard that meets an expired key; with a limit of
two the third publish is refused. In `console` two requests make every pair of
create, update, PUT and publish; two endpoints before them give a publish of two
rows with the same time, which pages of one split, and a second publish overtakes
a walk that has begun. In `exchange` the event goes to one endpoint: by address to `/hooks/slow`, by
name to `/hooks`, and by a mapped literal to `/hooks/fail`; the second endpoint only
registers, or has its URL refused, which is how it can disturb the first (deliveries
share nothing else at the receiver). One fault is enough, since a
timeout (not counted) already separates the effect from the answer. Symmetry is used in runs without temporal
properties of the liveness kind only; slots share one process there, so they are
interchangeable.

Deadlock checking is off where the system comes to rest: all deliveries final,
the outbox bound used up, an endpoint disabled, or all requests answered.

Fairness. `setInterval` calls `tick` again and again, Node runs a continuation
whose I/O is done, and BullMQ polls: weak fairness of the relay's read, of every
slot's steps. Strong fairness is assumed of loading and marking (outages and
restarts end), of being granted a tenant slot (run `limiter`, property
`TenantNotStarved`, is why), and of a job being fetched (the queue is first in
first out). In `CircuitBreaker`, deliveries keep coming and the clock runs. In
`TenantApi`, a handler goes on unless it waits for a row, and nothing is assumed
to fail: an error must not be what ends a wait. No
fairness is assumed of faults, operators or API requests. `console` and
`exchange` check safety only.

Each property of a passing run has a mutant in `PROJECT.json`: a variant of one
definition, marked "Wrong on purpose" in the module, that a plausible bug would
produce and that violates the property.

## 4. What the violated properties say

1. `crash` (also with `Env = {"storeError"}`, `MaxAttempts = 5`): `process()`
   treats every unique violation of `claim()` as "somebody else is at it". If
   that somebody died, or its update was rejected, the retried job is completed
   as a duplicate and the delivery stays open without job. A manual redelivery
   does not help: `attemptCount` has not moved, so it meets the same claim.
   `src/docs/기획서.md` promises reassignment (line 325) and a retry (line 327).
   `ClaimsAreNotTakenOver` proves that nothing in the pipeline repairs it.
2. `reactivate`: the comment in `endpoints/endpoints.service.ts:80` says that
   reactivation resets the circuit counter; the counter that decides is in Redis
   and is not reset, so one failed probe disables the endpoint again.
3. `staleSkip`: a worker's cache may hold DISABLED for up to 30 s after the
   endpoint was set ACTIVE. A job taken in that time is completed as
   SKIPPED_ENDPOINT_INACTIVE, and the delivery, published or redelivered after the
   reactivation, has neither outbox row nor job. The runbook
   (`src/docs/operations.md:65`) says to reactivate and redeliver. `operators`
   shows that, without crashes and store errors, nothing else drops a delivery and
   that a redelivery after a skip meets no claim; `OnlyStaleCachesDrop` proves
   that, apart from such skips, deliveries of active endpoints stay scheduled.
4. `limitRace`: `release` deletes the counter in a second round trip.
   `LimitHoldsUnlessForgotten` lists the ways to pass the limit.

Seen while modelling, without a run of their own: `success` and `failure` of
`CircuitStore` delete the probe key whoever holds it, so two probes may run at
once (`worker/circuit.store.ts:54` says one over all workers); the receiver
answers 200 "duplicate" for every error of its INSERT, so a delivery may count as
succeeded that was never processed (`dropped` in `AckedIsProcessed`); with
`DB_PATH` on file it stores the id before it processes the delivery, so a process
that ends between the two leaves a delivery whose retry is acknowledged as a
duplicate and never processed (`cut`); a receiver
restart with the default `:memory:` table repeats effects (`EffectOnce` counts
them); the ceilings of the seven retries add up to 63.5 minutes, not to the 13
hours of `worker/backoff.ts:11`; a stranded delivery of finding 1 can be
redelivered once the purge has deleted its claim; a ping of an endpoint whose
secret the console has not handed over yet is refused with 401 (`early` in
`SecretFirst`).

The exception in `NoBlockedConnect` and `RulesAreExact` is a difference between a
comment and the code. `security/ssrf.service.ts:117` says that IPv4-mapped
addresses are delegated to the IPv4 rules. The pattern in line 118 recognises the
dotted spelling only, which is what a resolver answers, and there the delegation
works. A literal host goes through `URL.hostname` (line 52), which spells it in
groups; then the first group is empty and none of the rules applies, at
registration and at delivery alike. Without the exception TLC refutes
`NoBlockedConnect` in the setup with the mapped literal.

Concurrent PUTs of subscriptions may leave the union of their bodies, where
`endpoints/endpoints.service.ts:87` speaks of full replacement; `PutsReplace` states
what remains true of PUTs one after the other. And a client that gets a 500 for a
PUT or a rotation cannot tell whether it took effect.

`NoLostDelivery` fails in two more ways, for which no run is kept. With
`"redisWipe"` in `Env` instead of `"workerCrash"`, a Redis that comes back empty
after rows were marked PUBLISHED never gets their jobs again, because only
PENDING rows are loaded (`src/docs/기획서.md:143` says Redis can be restored from
the outbox). With `"lockLost"`, a job whose lock expired is handed to a second
slot, which meets the claim and completes it; when the attempt of the first then
fails, its job is not there any more to be delayed.

## 5. Proofs

Constants are assumed to be what the ASSUMEs of the modules say, no more: sets of
the right kind, positive bounds, finite sets of slots and rows where numbers of
them are compared, None (SQL NULL) different from every value, and initial
endpoints that registered lawfully. TLC evaluates them in every run.

### Claim protocol and refinement

`DeliveryPipelineProofs` proves, for all sets of events, endpoints, relays,
slots and processes, all bounds and every `Env`, from `ConstantAssumption` alone:

| Theorem | Statement |
|---|---|
| `TypeCorrect` | `Spec => []TypeOK` |
| `ProtocolInvariant` | `Spec => [](TypeOK /\ ClaimProtocolInv)` |
| `ClaimIsExclusive` | `Spec => []AtMostOneInFlight` |
| `NoAttemptOnDone` | `Spec => []InFlightIsOpen` |
| `HistoryHasNoGap` | `Spec => []HistoryContiguous` |
| `StatusIsTruthful` | `Spec => [](StatusHasEvidence /\ OutcomeUnique)` |
| `DoneStaysDone` | `Spec => DoneIsFinal` |
| `CountIsClaimed` | `Spec => CountFollowsClaims` |
| `PipelineImplementsLedger` | `Spec => ImplementsLedger` |
| `AttemptsAreBudgeted` | `Spec => BudgetedAttempts` |
| `BudgetIsKept` | `"redeliver" \notin Env` gives `Spec => []` every claimed number is at most `MaxAttempts` |
| `ClaimsAreNotTakenOver` | `Spec => StrandedForGood` |

The argument. None of the safety properties is inductive: two slots may read the
same open delivery, and what keeps the second one out is the number it will
claim. `PreClaimInv` says what a slot that has read but not claimed may rely on:
its `seen` is not ahead of `attemptCount`, and if its number is still free the
delivery is still open. It is preserved because a delivery becomes final only
together with `attemptCount`, by the owner of the newest claim
(`InFlightInv`), after which the late slot's number is taken
(`HistoryContiguous`). `InFlightInv` then gives exclusivity, since two slots in
flight on one delivery would own the same number. `RecordedInv` carries the outcome
from the attempt row to the status. The conjunction `ClaimProtocolInv` is
inductive together with `TypeOK`; TLC checks it first in the run `operators`. The
action properties and the refinement follow step by step from it.

`AttemptStep` reads off the invariant what one step may do to a delivery's
attempts: claim the number after `attemptCount`, for an open delivery, or count a
claimed one and set the status that goes with it. `BudgetedAttempts` follows: an
open delivery with `MaxAttempts` counted can only be PENDING again, so a
redelivery buys one attempt and not a new budget. Without redeliveries
`WithinBudget` (a PENDING delivery has counted nothing) is inductive and
`HR_MAX_ATTEMPTS` bounds the POSTs of a delivery, whatever fails.
`StrandedForGood` is the general form of finding 1: a number that is claimed, not
counted and in no slot's hands is never counted, no other is claimed, and the
status changes to PENDING at most. It speaks of the pipeline; the purge, which is
in `WebhookExchange`, deletes such a row after days. In the same way
`HistoryContiguous` and `CountFollowsClaims` are about rows that no purge has
deleted.

### Tenant API

`TenantApiProofs` proves, from `ApiAssumption` alone, for any number of requests,
idempotency keys and API keys and every `Env`:

| Theorem | Statement |
|---|---|
| `ApiTypeOK` | `Spec => []TypeOK` |
| `PublishIsIdempotent` | `Spec => []RepliesAgree` |
| `TenantHasKey` | `Spec => []KeyAlwaysWorks` |
| `GraceIsGranted` | `Spec => GraceRespected` |

The argument. `InsertInv`: a transaction about to commit owns the idempotency
key and no event of it is committed, so that a commit never replaces the event an
earlier reply named. `LockInv`: a locked row is still ACTIVE, so that a rotation
demotes ACTIVE keys only, and demotes them in the step that adds their successor.
`RevokeInv`: a key that a guard found expired is still expired when the guard
writes. With `TypeOK` and `ReplyInv` these are inductive.

### The schedule of deliveries

`DeliveryScheduleProofs` extends these proofs. Each theorem excludes the faults
under which TLC refutes its property, and no others: everything else in `Env` may
happen, for any number of relays, slots, deliveries, redeliveries and any bounds.

| Theorem | Statement | Excluded from `Env` |
|---|---|---|
| `QueueNeverGivesUp` | `Spec => []RetryBudget` | storeError |
| `RetryTimeIsShown` | `Spec => []RetryTimeShown` | storeError, workerCrash |
| `DeliveriesDropCleanly` | `Spec => DropsCleanly` | workerCrash, lockLost, storeError, redisWipe (`Faults`) |
| `NothingIsLost` | `Spec => []NoLostDelivery` | `Faults` and patch |
| `OnlyStaleCachesDrop` | `SpecH /\ [][no slot SkipsActive]_vars => []ServedWhileActive` | `Faults` |

The argument. `BudgetInv`: a slot that is about to fail its job has counted the
delivery before, so its job was one behind and stays in the queue. `RetryInv`: a
retry time that is missing has a slot that is about to write it. `HoldInv`: busy
slots and active jobs are in bijection, hence nothing stalls. `ClaimHeld`: a
claim that is not counted has its slot in flight. `RowInv`: jobs and relays only
name rows that exist, so the job id of a new redelivery row is free. From these,
`DropsCleanly` follows action by action: a relay loads a row before it counts as
published, requests only add rows, and of the slots' steps only `JobComplete`
removes a job; if a claim were open then, `ClaimHeld` gives another slot whose
job still exists.

`NoLostDelivery` alone is far from inductive, since a row or job may exist that
will do nothing. `ServedInv` says that one of them is of use: a pending row that
is not loaded and whose job id is free, a job that waits, or a slot that is not
about to complete its job without an attempt (`Useful`). The delicate steps are
the read of the delivery (a slot that reads under a running attempt becomes
useless, but then `ClaimHeld` names the useful one) and the claim (which makes
the other slots useless). `ActiveInv`: as long as nobody enables endpoints, no
cache takes an active one for inactive; the run `staleSkip` is what happens
otherwise.

`OnlyStaleCachesDrop` shows that `staleSkip` has found the only way. Operators may
enable, disable, ping and redeliver at any moment; the one step assumed away is
`SkipsActive`: a slot reads an endpoint that is ACTIVE and finds another status in
its cache. `ServedKept` says that no other step loses what is served, as long as
the endpoint is ACTIVE; `NothingIsLost` uses it with `ActiveInv`, which excludes
`SkipsActive`, and `OnlyStaleCachesDrop` with `HistoryServed`, which starts with
the row a request writes (`ServedOpened`).

TLC checked these invariants and hypotheses before they were proved.

### Breaker and limiter

From `BreakerAssumption`, and `LimiterAssumption`, for any finite set of slots,
any thresholds and limit and any number of faults:

| Theorem | Statement |
|---|---|
| `BreakerTypeOK` | `Spec => []TypeOK` |
| `CircuitMatchesCount` | `Spec => []OpenIffThreshold` |
| `DisablingIsEarned` | `"enable" \notin Env` gives `Spec => []DisableEarned` |
| `CountNeverTooHigh` | `Spec => []NeverOverCounts` |
| `LeaksExpire` | `Spec => []LeakHasTtl` |
| `LimitHoldsUnlessForgotten` | `Spec /\ [][~Forgets]_vars => []WithinLimit` |

The argument. `ReadOpen`: a slot that runs for the probe key has read a count
that had reached `OpenAfter`, so its HALF_OPEN is consistent with the count it
writes back. `CountInv`: each count, in Redis or in a slot's hands, *plus the
failures that are not added yet* is at most what was observed. The sum is needed:
two slots that add their failures one after the other to what each has read must
not pass it. Reactivation breaks it (run `reactivate`), hence the hypothesis. The
limiter's invariants are inductive with `TypeOK`; the work is in how the number
of holders changes. `Forgets` names the three steps after which Redis counts fewer
deliveries than are under way: the DEL of another worker's `release` or the end of
the TTL while there are some, and an `acquire` that fails open. Without them
`CountedInv` is inductive (holders are at most the count, the count at most the
limit), crashes and failed releases included, since these only leave it too high.

### Endpoint API and readers

From `EndpointApiAssumption` and `DeliveryReadsAssumption`, for any number of
requests, endpoints, URLs, event types, rows and any page size:

| Theorem | Statement |
|---|---|
| `UrlsAreUnique`, `StoredUrlsPassed` | `Spec => []UrlUnique`, `Spec => []StoredUrlSafe` |
| `BodiesAreWhole`, `EarlierPutsReplaced` | `Spec => []WholePutsSeen`, `Spec => []PutsReplace` |
| `ApiUnderReads` | the same four of `SpecR` |
| `WalksAreExact` | `SpecR => []WalkExact` |
| `AttemptsAreOfOpenRow` | `SpecR => []AttemptsOfOpenRow` |

The argument. `PutInv`: the committed rows, *and the rows a transaction has found
for its DELETE*, consist of whole bodies of PUTs that took effect; sets of whole bodies
are closed under union, intersection and difference, and that is all that a
DELETE of rows found earlier, an INSERT and a commit do. `PutOK`, its part for one
PUT, adds that the rows which were there when the PUT was sent and are still there
are among those its DELETE has found, and that they are gone once it took effect;
a row whose deletion by another transaction is rolled back is deleted after the wait.
`EmptyInv`: an endpoint
without rows was given an empty body. `RequestOK` carries the verdict of the URL
check from the check to the write. `WalkInv`: what was shown is not after the
cursor, and a row that stays in the listing was shown or is after it. It rests on
`AfterIsOrder` (the WHERE of the query agrees with its ORDER BY, also for rows
with equal times) and on the finiteness of the table, without which a page need
not have a last row.

### Exchange and address rules

From `ExchangeAssumption`, for any deliveries, endpoint setups, resolver answers,
attempts and faults:

| Theorem | Statement |
|---|---|
| `RulesAreExact` | `\A ip \in Address : Blocked(ip) <=> Internal(ip) /\ ip.kind # "hex"` |
| `ProcessedOnce` | `Spec => []EffectOnce` |
| `DeliveredMeansProcessed` | `Spec => []AckedIsProcessed` |
| `SecretsInTime` | `Spec => []SecretFirst` |
| `ConnectionsAreSafe` | `Spec => []NoBlockedConnect` |
| `HistoryIsComplete` | `Spec => []AttemptsCover` |

`RulesAreExact` is what a run cannot check: all 2^32 IPv4 addresses, plain and
mapped, and all first groups of IPv6. Its last conjunct is the spelling of section
4. The masks are divisions by powers of two, and the proof splits the ranges
by the octet in which they end. `ExchangeInv` is inductive. `EffectInv` ties
`effects` to the receiver's table, to the handlers that were killed before the
processing and to the restarts that lost the table; `RequestInv`
gives the requests on the wire and in timers their signature; `PageInv` is the
order of the console's three requests, with the pings that are early; `ViewInv` and `RowInv` carry the count the
reader saw to the rows it finds later.

### Not proved

Every invariant and action property of the passing runs is the subject of a
theorem. Only model-checked are the liveness properties (`EveryDeliveryEnds`,
`OutboxDrains`, `RedeliveryHonoured`, `CircuitRecovers`, `TenantNotStarved`,
`WindowReopens`, `RequestsEnd`): fairness and ENABLED are outside TLAPS' reach.
`ServedWhileActive` and `WithinLimit` are violated by the code;
`OnlyStaleCachesDrop` and `LimitHoldsUnlessForgotten` prove them of the behaviours
without the steps that violate them. The two other violated properties are
complemented by `NothingIsLost` and `ClaimsAreNotTakenOver` (run `crash`) and by
`DisablingIsEarned` (run `reactivate`).

## 6. Not modelled

- TLS, payloads, HMAC and AES-GCM themselves, the text of addresses and URLs (other
  than the two spellings of an IPv4-mapped address), the digest of the headers.
- Backoff durations: a delayed job is due at any time, which covers every delay.
- Configuration, error formatting, metrics: values nothing in the system decides
  by, other than the parameters that appear as CONSTANTS.
- Tenants of the same name, hashing of API keys, the admin token.
- `GET /endpoints`, `/events/:id/deliveries`, `/received` and `/stream`: single
  reads.
- Console pages that are a form over one request; benches, dashboards and compose
  files.

## 7. Plan

Done: the pipeline, its refinement and proofs; breaker and limiter; `TenantApi`;
operators and skipped jobs; endpoint API, SSRF rules, paging; receiver, HTTP
exchange, purge and console flows; proofs of all invariants and action properties
of the passing runs, and of what the violated ones depend on.

Possible extensions: deriving the guarantees of `DeliveryLedger` from the
refinement instead of from the pipeline's own invariants, and a model of each fix
for the four findings, to see the violated properties hold.
