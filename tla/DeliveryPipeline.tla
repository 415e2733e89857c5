-------------------------- MODULE DeliveryPipeline --------------------------
(***************************************************************************)
(* The delivery pipeline of HookRelay: the API writes an event, its        *)
(* deliveries and an outbox row in one PostgreSQL transaction; relays poll *)
(* the outbox and load jobs into the BullMQ queue in Redis; workers fetch  *)
(* jobs, claim an attempt number by a UNIQUE insert, POST to the endpoint  *)
(* and write the outcome back.                                             *)
(*                                                                         *)
(* One action is one database or Redis round trip (one `await`) of the     *)
(* code, so every interleaving of relays, workers and API requests between *)
(* two awaits is explored.                                                 *)
(*                                                                         *)
(* Abstractions:                                                           *)
(*  - a delivery is the pair <<event, endpoint>>, which is what             *)
(*    UNIQUE(event_id, endpoint_id) makes of it; bodies, headers, digests  *)
(*    and times are left out;                                              *)
(*  - the tenant limiter and the circuit breaker answer nondeterministically*)
(*    here; modules TenantLimiter and CircuitBreaker model what they do;    *)
(*  - BullMQ, an external library, is modelled from how the code uses it.   *)
(***************************************************************************)
EXTENDS Naturals, Sequences, FiniteSets

CONSTANTS
    Events,        \* idempotency keys, hence events, that may be published
    Endpoints,     \* endpoints of the tenant
    Subscribers,   \* the endpoints subscribed to the published event type
    Relays,        \* relay processes (two of them when deployments overlap)
    Workers,       \* job slots: HR_WORKER_CONCURRENCY slots per process
    Processes,     \* worker processes
    ProcessOf,     \* the process a slot belongs to
    MaxAttempts,   \* HR_MAX_ATTEMPTS
    BatchSize,     \* rows one relay tick takes
    MaxStalled,    \* BullMQ maxStalledCount
    MaxOutbox,     \* bound: outbox rows ever written
    Env,           \* the faults and operator actions that may happen
    None           \* SQL NULL, and "no worker"

\* What Env may contain: see the actions of the same names.
EnvEvents == {"ping", "redeliver", "patch", "autoDisable", "cacheExpire", "tickAbort",
              "addBulkError", "workerCrash", "lockLost", "storeError", "redisWipe"}

ASSUME ConstantAssumption ==
    /\ Subscribers \subseteq Endpoints
    /\ ProcessOf \in [Workers -> Processes]
    /\ MaxAttempts \in Nat \ {0}
    /\ BatchSize \in Nat \ {0}
    /\ MaxStalled \in Nat
    /\ MaxOutbox \in Nat
    /\ Env \subseteq EnvEvents
    /\ None \notin Workers
    /\ None \notin Events \X Endpoints
    /\ None \notin (Events \X Endpoints) \X Nat

Deliveries == Events \X Endpoints

\* <<d, 0>> is deliveryJobId(d); <<d, i>> is deliveryJobId(d, "obx-i").
JobIds == Deliveries \X (0 .. MaxOutbox)

VARIABLES
    \* PostgreSQL
    events,          \* events committed
    status,          \* deliveries.status, "ABSENT" while there is no row
    attemptCount,    \* deliveries.attempt_count
    nextRetryAt,     \* deliveries.next_retry_at is not null
    claimed,         \* delivery_attempts: attempt numbers with a row
    okAt,            \* ... whose row records a 2xx
    errAt,           \* ... whose row records an error class
    endpointStatus,  \* endpoints.status
    outbox,          \* outbox, in the order of its primary key
    \* Redis
    jobs,            \* the delivery queue
    \* relay processes
    rpc,             \* "idle", "load" or "mark"
    batch,           \* rows of the batch still to load
    published,       \* publishedIds
    \* worker slots
    wpc,             \* the await the slot is at
    wjob,            \* its job
    seen,            \* attemptCount as read by process()
    outcome,         \* outcome of the attempt
    cache            \* EndpointCache of each worker process

dbVars     == <<events, status, attemptCount, nextRetryAt, claimed, okAt, errAt,
                endpointStatus, outbox>>
relayVars  == <<rpc, batch, published>>
workerVars == <<wpc, wjob, seen, outcome, cache>>
vars       == <<dbVars, jobs, relayVars, workerVars>>

-----------------------------------------------------------------------------
(* Values *)

DeliveryStatus == {"PENDING", "SUCCEEDED", "FAILED_RETRYING", "DEAD"}
Done           == {"SUCCEEDED", "DEAD"}
Open           == {"PENDING", "FAILED_RETRYING"}
EndpointStatus == {"ACTIVE", "DISABLED_AUTO", "DISABLED_MANUAL"}

\* Where a slot is: between two awaits of WorkerService's job handler and of
\* DeliveryProcessor.process.
WorkerPC == {"idle", "acquire", "read", "endpoint", "claim", "circuit", "record",
             "endpointUpdate", "finish", "setRetry", "complete", "fail"}

\* A slot that owns a claim whose delivery row it has not written back yet.
InFlightPC == {"circuit", "record", "endpointUpdate", "finish"}
InFlight(w) == wpc[w] \in InFlightPC

\* The delivery a slot works on and the number of its attempt (attemptNo).
DeliveryOf(w) == wjob[w][1]
AttemptNo(w)  == seen[w] + 1

Job   == [state : {"none", "wait", "active", "delayed"}, made : Nat,
          stalled : Nat, owner : Workers \cup {None}]
NoJob  == [state |-> "none", made |-> 0, stalled |-> 0, owner |-> None]
NewJob == [state |-> "wait", made |-> 0, stalled |-> 0, owner |-> None]

Exists(j) == jobs[j].state # "none"

OutboxRow == [event : Events, delivery : Deliveries \cup {None},
              status : {"PENDING", "PUBLISHED"}]

PendingIds == {i \in DOMAIN outbox : outbox[i].status = "PENDING"}

-----------------------------------------------------------------------------
Init ==
    /\ events = {}
    /\ status = [d \in Deliveries |-> "ABSENT"]
    /\ attemptCount = [d \in Deliveries |-> 0]
    /\ nextRetryAt = [d \in Deliveries |-> FALSE]
    /\ claimed = [d \in Deliveries |-> {}]
    /\ okAt = [d \in Deliveries |-> {}]
    /\ errAt = [d \in Deliveries |-> {}]
    /\ endpointStatus = [p \in Endpoints |-> "ACTIVE"]
    /\ outbox = <<>>
    /\ jobs = [j \in JobIds |-> NoJob]
    /\ rpc = [r \in Relays |-> "idle"]
    /\ batch = [r \in Relays |-> {}]
    /\ published = [r \in Relays |-> {}]
    /\ wpc = [w \in Workers |-> "idle"]
    /\ wjob = [w \in Workers |-> None]
    /\ seen = [w \in Workers |-> 0]
    /\ outcome = [w \in Workers |-> "none"]
    /\ cache = [c \in Processes |-> [p \in Endpoints |-> "EMPTY"]]

-----------------------------------------------------------------------------
(* The API: every request is one PostgreSQL transaction. *)

AddOutbox(e, d) ==
    outbox' = Append(outbox, [event |-> e, delivery |-> d, status |-> "PENDING"])

\* EventsService.publish.  A second publish under the same idempotency key hits
\* UNIQUE(tenant_id, idempotency_key), rolls back and changes nothing.
Publish(e) ==
    LET targets == {d \in Deliveries : /\ d[1] = e
                                       /\ d[2] \in Subscribers
                                       /\ endpointStatus[d[2]] = "ACTIVE"}
    IN  /\ e \notin events
        /\ Len(outbox) < MaxOutbox
        /\ events' = events \cup {e}
        /\ status' = [d \in Deliveries |-> IF d \in targets THEN "PENDING" ELSE status[d]]
        /\ IF targets # {} THEN AddOutbox(e, None) ELSE UNCHANGED outbox
        /\ UNCHANGED <<attemptCount, nextRetryAt, claimed, okAt, errAt, endpointStatus>>
        /\ UNCHANGED <<jobs, relayVars, workerVars>>

\* EndpointsService.ping: an event of its own with one delivery, whatever the
\* subscriptions and the status of the endpoint are.
Ping(e, p) ==
    /\ "ping" \in Env
    /\ e \notin events
    /\ Len(outbox) < MaxOutbox
    /\ events' = events \cup {e}
    /\ status' = [status EXCEPT ![<<e, p>>] = "PENDING"]
    /\ AddOutbox(e, <<e, p>>)
    /\ UNCHANGED <<attemptCount, nextRetryAt, claimed, okAt, errAt, endpointStatus>>
    /\ UNCHANGED <<jobs, relayVars, workerVars>>

\* Wrong on purpose: reopens the delivery and relies on its old job.
RedeliverWithoutOutbox(d) ==
    /\ "redeliver" \in Env
    /\ status[d] # "ABSENT"
    /\ status' = [status EXCEPT ![d] = "PENDING"]
    /\ UNCHANGED <<events, attemptCount, nextRetryAt, claimed, okAt, errAt, endpointStatus,
                   outbox, jobs, relayVars, workerVars>>

\* Wrong on purpose: starts the delivery's attempts afresh.
RedeliverResetsCount(d) ==
    /\ "redeliver" \in Env
    /\ status[d] # "ABSENT"
    /\ Len(outbox) < MaxOutbox
    /\ status' = [status EXCEPT ![d] = "PENDING"]
    /\ attemptCount' = [attemptCount EXCEPT ![d] = 0]
    /\ AddOutbox(d[1], d)
    /\ UNCHANGED <<events, nextRetryAt, claimed, okAt, errAt, endpointStatus, jobs, relayVars,
                   workerVars>>

\* DeliveriesService.redeliver: allowed in every status; attemptCount stays.
Redeliver(d) ==
    /\ "redeliver" \in Env
    /\ status[d] # "ABSENT"
    /\ Len(outbox) < MaxOutbox
    /\ status' = [status EXCEPT ![d] = "PENDING"]
    /\ nextRetryAt' = [nextRetryAt EXCEPT ![d] = FALSE]
    /\ AddOutbox(d[1], d)
    /\ UNCHANGED <<events, attemptCount, claimed, okAt, errAt, endpointStatus>>
    /\ UNCHANGED <<jobs, relayVars, workerVars>>

\* EndpointsService.update: the two statuses UpdateEndpointDto lets a tenant set.
PatchEndpoint(p, s) ==
    /\ "patch" \in Env
    /\ s \in {"ACTIVE", "DISABLED_MANUAL"}
    /\ endpointStatus' = [endpointStatus EXCEPT ![p] = s]
    /\ UNCHANGED <<events, status, attemptCount, nextRetryAt, claimed, okAt, errAt, outbox>>
    /\ UNCHANGED <<jobs, relayVars, workerVars>>

-----------------------------------------------------------------------------
(* The relay: RelayService.tick, one step per await. *)

\* RelayService.targetsOf.  The deliveries of an event are created with it, so it
\* does not matter that the code read them with the batch.
TargetsOf(i) ==
    IF outbox[i].delivery # None
    THEN {outbox[i].delivery}
    ELSE {d \in Deliveries : d[1] = outbox[i].event /\ status[d] # "ABSENT"}

\* Wrong on purpose: a redelivery shares the job id of the first delivery.
JobIdWithoutSuffix(i, d) == <<d, 0>>

\* deliveryJobId: redeliveries and pings get the outbox id as a suffix.
JobIdOf(i, d) == <<d, IF outbox[i].delivery # None THEN i ELSE 0>>

\* Queue.addBulk: BullMQ ignores a job whose id is already in the queue.
AddBulk(i) ==
    LET ids == {JobIdOf(i, d) : d \in TargetsOf(i)}
    IN  [j \in JobIds |-> IF j \in ids /\ ~Exists(j) THEN NewJob ELSE jobs[j]]

\* Wrong on purpose: marks the rows before it loads them.
TickReadMarksFirst(r) ==
    /\ rpc[r] = "idle"
    /\ PendingIds # {}
    /\ batch' = [batch EXCEPT ![r] = PendingIds]
    /\ outbox' = [i \in DOMAIN outbox |-> [outbox[i] EXCEPT !.status = "PUBLISHED"]]
    /\ rpc' = [rpc EXCEPT ![r] = "load"]
    /\ UNCHANGED <<events, status, attemptCount, nextRetryAt, claimed, okAt, errAt,
                   endpointStatus, jobs, published, workerVars>>

\* findMany: the first BatchSize PENDING rows.
TickRead(r) ==
    /\ rpc[r] = "idle"
    /\ PendingIds # {}
    /\ batch' = [batch EXCEPT ![r] =
           {i \in PendingIds : Cardinality({k \in PendingIds : k < i}) < BatchSize}]
    /\ published' = [published EXCEPT ![r] = {}]
    /\ rpc' = [rpc EXCEPT ![r] = "load"]
    /\ UNCHANGED <<dbVars, jobs, workerVars>>

\* The row the loop is at: rows are taken in the order of their ids.
NextRow(r, i) == i \in batch[r] /\ \A k \in batch[r] : i <= k

\* One iteration of the loop; after the last row the tick goes on to mark.
TickLoad(r) ==
    /\ rpc[r] = "load"
    /\ \E i \in batch[r] :
           /\ NextRow(r, i)
           /\ jobs' = AddBulk(i)
           /\ batch' = [batch EXCEPT ![r] = @ \ {i}]
           /\ published' = [published EXCEPT ![r] = @ \cup {i}]
           /\ rpc' = [rpc EXCEPT ![r] = IF batch[r] = {i} THEN "mark" ELSE "load"]
    /\ UNCHANGED <<dbVars, workerVars>>

\* addBulk rejects, with its jobs stored or not: the loop breaks.  Rows loaded
\* before are still marked; with none the tick returns.
TickLoadError(r) ==
    /\ "addBulkError" \in Env
    /\ rpc[r] = "load"
    /\ \E i \in batch[r] : NextRow(r, i) /\ jobs' \in {jobs, AddBulk(i)}
    /\ batch' = [batch EXCEPT ![r] = {}]
    /\ rpc' = [rpc EXCEPT ![r] = IF published[r] = {} THEN "idle" ELSE "mark"]
    /\ UNCHANGED <<dbVars, published, workerVars>>

\* Wrong on purpose: a condition that no row of the batch meets.
TickMarkNoRows(r) ==
    /\ rpc[r] = "mark"
    /\ rpc' = [rpc EXCEPT ![r] = "idle"]
    /\ published' = [published EXCEPT ![r] = {}]
    /\ UNCHANGED <<dbVars, jobs, batch, workerVars>>

\* updateMany ... WHERE id IN publishedIds AND status = 'PENDING'.
TickMark(r) ==
    /\ rpc[r] = "mark"
    /\ outbox' = [i \in DOMAIN outbox |->
           IF i \in published[r] THEN [outbox[i] EXCEPT !.status = "PUBLISHED"]
                                 ELSE outbox[i]]
    /\ rpc' = [rpc EXCEPT ![r] = "idle"]
    /\ published' = [published EXCEPT ![r] = {}]
    /\ UNCHANGED <<events, status, attemptCount, nextRetryAt, claimed, okAt, errAt,
                   endpointStatus, jobs, batch, workerVars>>

\* The relay is killed and restarted, or a database call of the tick rejects.
TickAbort(r) ==
    /\ "tickAbort" \in Env
    /\ rpc[r] # "idle"
    /\ rpc' = [rpc EXCEPT ![r] = "idle"]
    /\ batch' = [batch EXCEPT ![r] = {}]
    /\ published' = [published EXCEPT ![r] = {}]
    /\ UNCHANGED <<dbVars, jobs, workerVars>>

-----------------------------------------------------------------------------
(* The worker: the job handler of WorkerService and DeliveryProcessor.process. *)

Goto(w, pc) == wpc' = [wpc EXCEPT ![w] = pc]

\* BullMQ hands a waiting job, or a delayed one that is due, to a free slot and
\* locks it under the slot's token.
Fetch(w, j) ==
    /\ wpc[w] = "idle"
    /\ jobs[j].state \in {"wait", "delayed"}
    /\ jobs' = [jobs EXCEPT ![j] = [@ EXCEPT !.state = "active", !.owner = w]]
    /\ wjob' = [wjob EXCEPT ![w] = j]
    /\ Goto(w, "acquire")
    /\ UNCHANGED <<dbVars, relayVars, seen, outcome, cache>>

\* limiter.acquire grants a slot.
AcquireSlot(w) ==
    /\ wpc[w] = "acquire"
    /\ Goto(w, "read")
    /\ UNCHANGED <<dbVars, jobs, relayVars, wjob, seen, outcome, cache>>

\* Wrong on purpose: throws an ordinary error, which uses up an attempt.
DeferUsesAttempt(w) ==
    /\ wpc[w] = "acquire"
    /\ jobs' = [jobs EXCEPT ![wjob[w]].state = "delayed", ![wjob[w]].made = @ + 1,
                            ![wjob[w]].owner = None]
    /\ wjob' = [wjob EXCEPT ![w] = None]
    /\ Goto(w, "idle")
    /\ UNCHANGED <<dbVars, relayVars, seen, outcome, cache>>

\* limiter.acquire refuses: moveToDelayed and DelayedError; no attempt is used.
DeferForTenant(w) ==
    /\ wpc[w] = "acquire"
    /\ IF jobs[wjob[w]].owner = w
       THEN jobs' = [jobs EXCEPT ![wjob[w]] = [@ EXCEPT !.state = "delayed", !.owner = None]]
       ELSE UNCHANGED jobs
    /\ wjob' = [wjob EXCEPT ![w] = None]
    /\ Goto(w, "idle")
    /\ UNCHANGED <<dbVars, relayVars, seen, outcome, cache>>

\* Wrong on purpose: no status guard.
ReadWithoutGuard(w) ==
    /\ wpc[w] = "read"
    /\ seen' = [seen EXCEPT ![w] = attemptCount[DeliveryOf(w)]]
    /\ Goto(w, "endpoint")
    /\ UNCHANGED <<dbVars, jobs, relayVars, wjob, outcome, cache>>

\* delivery.findUnique; SKIPPED_ALREADY_DONE (or SKIPPED_MISSING) when not open.
ReadDelivery(w) ==
    /\ wpc[w] = "read"
    /\ seen' = [seen EXCEPT ![w] = attemptCount[DeliveryOf(w)]]
    /\ Goto(w, IF status[DeliveryOf(w)] \in Open THEN "endpoint" ELSE "complete")
    /\ UNCHANGED <<dbVars, jobs, relayVars, wjob, outcome, cache>>

\* endpointCache.get: a cached entry is used as it is, otherwise the row is read
\* and cached; SKIPPED_ENDPOINT_INACTIVE when the status is not ACTIVE.
ReadEndpoint(w) ==
    LET c == ProcessOf[w]
        p == DeliveryOf(w)[2]
        s == IF cache[c][p] # "EMPTY" THEN cache[c][p] ELSE endpointStatus[p]
    IN  /\ wpc[w] = "endpoint"
        /\ cache' = [cache EXCEPT ![c][p] = s]
        /\ Goto(w, IF s = "ACTIVE" THEN "claim" ELSE "complete")
        /\ UNCHANGED <<dbVars, jobs, relayVars, wjob, seen, outcome>>

\* The 30 second TTL of a cache entry runs out.
CacheExpire(c, p) ==
    /\ "cacheExpire" \in Env
    /\ cache[c][p] # "EMPTY"
    /\ cache' = [cache EXCEPT ![c][p] = "EMPTY"]
    /\ UNCHANGED <<dbVars, jobs, relayVars, wpc, wjob, seen, outcome>>

\* Wrong on purpose: the number of the last attempt instead of the next.
ClaimLastNumber(w) ==
    LET d == DeliveryOf(w)
    IN  /\ wpc[w] = "claim"
        /\ seen[w] \notin claimed[d]
        /\ Goto(w, "circuit")
        /\ claimed' = [claimed EXCEPT ![d] = @ \cup {seen[w]}]
        /\ UNCHANGED <<events, status, attemptCount, nextRetryAt, okAt, errAt,
                       endpointStatus, outbox, jobs, relayVars, wjob, seen, outcome, cache>>

\* Wrong on purpose: an upsert, so that a taken number is no conflict.
ClaimByUpsert(w) ==
    LET d == DeliveryOf(w)
    IN  /\ wpc[w] = "claim"
        /\ Goto(w, "circuit")
        /\ claimed' = [claimed EXCEPT ![d] = @ \cup {AttemptNo(w)}]
        /\ UNCHANGED <<events, status, attemptCount, nextRetryAt, okAt, errAt,
                       endpointStatus, outbox, jobs, relayVars, wjob, seen, outcome, cache>>

\* claim(): INSERT under UNIQUE(delivery_id, attempt_no); SKIPPED_DUPLICATE_CLAIM
\* when the number is taken.
Claim(w) ==
    LET d == DeliveryOf(w)
    IN  /\ wpc[w] = "claim"
        /\ IF AttemptNo(w) \in claimed[d]
           THEN /\ Goto(w, "complete")
                /\ UNCHANGED claimed
           ELSE /\ Goto(w, "circuit")
                /\ claimed' = [claimed EXCEPT ![d] = @ \cup {AttemptNo(w)}]
        /\ UNCHANGED <<events, status, attemptCount, nextRetryAt, okAt, errAt,
                       endpointStatus, outbox>>
        /\ UNCHANGED <<jobs, relayVars, wjob, seen, outcome, cache>>

\* circuit.allow says yes and httpClient.send returns an outcome: a 2xx, or any
\* of the classified failures (which never throw).
Send(w) ==
    /\ wpc[w] = "circuit"
    /\ \E o \in {"ok", "error"} : outcome' = [outcome EXCEPT ![w] = o]
    /\ Goto(w, "record")
    /\ UNCHANGED <<dbVars, jobs, relayVars, wjob, seen, cache>>

\* Wrong on purpose: returns without finishing the attempt.
SkipOpenCircuitEarly(w) ==
    /\ wpc[w] = "circuit"
    /\ outcome' = [outcome EXCEPT ![w] = "open"]
    /\ Goto(w, "complete")
    /\ UNCHANGED <<dbVars, jobs, relayVars, wjob, seen, cache>>

\* circuit.allow says no: the attempt fails as CIRCUIT_OPEN without HTTP.
SkipOpenCircuit(w) ==
    /\ wpc[w] = "circuit"
    /\ outcome' = [outcome EXCEPT ![w] = "open"]
    /\ Goto(w, "record")
    /\ UNCHANGED <<dbVars, jobs, relayVars, wjob, seen, cache>>

\* deliveryAttempt.update; finishFailure skips the endpoint update.
RecordAttempt(w) ==
    LET d == DeliveryOf(w)
    IN  /\ wpc[w] = "record"
        /\ IF outcome[w] = "ok"
           THEN /\ okAt' = [okAt EXCEPT ![d] = @ \cup {AttemptNo(w)}]
                /\ UNCHANGED errAt
           ELSE /\ errAt' = [errAt EXCEPT ![d] = @ \cup {AttemptNo(w)}]
                /\ UNCHANGED okAt
        /\ Goto(w, IF outcome[w] = "open" THEN "finish" ELSE "endpointUpdate")
        /\ UNCHANGED <<events, status, attemptCount, nextRetryAt, claimed,
                       endpointStatus, outbox>>
        /\ UNCHANGED <<jobs, relayVars, wjob, seen, outcome, cache>>

\* endpoint.update after circuit.success or circuit.failure; when the breaker
\* asks for it the endpoint becomes DISABLED_AUTO and the process forgets its
\* cache entry.
UpdateEndpoint(w) ==
    LET p == DeliveryOf(w)[2]
    IN  /\ wpc[w] = "endpointUpdate"
        /\ \/ UNCHANGED <<endpointStatus, cache>>
           \/ /\ "autoDisable" \in Env
              /\ outcome[w] = "error"
              /\ endpointStatus' = [endpointStatus EXCEPT ![p] = "DISABLED_AUTO"]
              /\ cache' = [cache EXCEPT ![ProcessOf[w]][p] = "EMPTY"]
        /\ Goto(w, "finish")
        /\ UNCHANGED <<events, status, attemptCount, nextRetryAt, claimed, okAt, errAt, outbox>>
        /\ UNCHANGED <<jobs, relayVars, wjob, seen, outcome>>

\* Wrong on purpose: one attempt more than the budget.
StatusOffByOne(o, n) ==
    IF o = "ok" THEN "SUCCEEDED"
    ELSE IF n > MaxAttempts THEN "DEAD" ELSE "FAILED_RETRYING"

\* The status an attempt leaves its delivery in.
StatusAfter(o, n) ==
    IF o = "ok" THEN "SUCCEEDED"
    ELSE IF n >= MaxAttempts THEN "DEAD" ELSE "FAILED_RETRYING"

\* delivery.update: blind write of status and attemptCount.
WriteDelivery(w) ==
    LET d == DeliveryOf(w)
        s == StatusAfter(outcome[w], AttemptNo(w))
    IN  /\ wpc[w] = "finish"
        /\ status' = [status EXCEPT ![d] = s]
        /\ attemptCount' = [attemptCount EXCEPT ![d] = AttemptNo(w)]
        /\ nextRetryAt' = [nextRetryAt EXCEPT ![d] = IF s = "SUCCEEDED" THEN FALSE ELSE @]
        /\ UNCHANGED <<events, claimed, okAt, errAt, endpointStatus, outbox>>
        /\ UNCHANGED <<jobs, relayVars, wjob, seen, outcome, cache>>

\* process() returns FAILED only for a delivery that may be retried.
FinishDelivery(w) ==
    /\ WriteDelivery(w)
    /\ Goto(w, IF StatusAfter(outcome[w], AttemptNo(w)) = "FAILED_RETRYING"
               THEN "setRetry" ELSE "complete")

\* Wrong on purpose: throws without storing the time.
SetRetryForgotten(w) ==
    /\ wpc[w] = "setRetry"
    /\ Goto(w, "fail")
    /\ UNCHANGED <<dbVars, jobs, relayVars, wjob, seen, outcome, cache>>

\* The handler stores nextRetryAt and throws RetrySignal.
SetRetry(w) ==
    /\ wpc[w] = "setRetry"
    /\ nextRetryAt' = [nextRetryAt EXCEPT ![DeliveryOf(w)] = TRUE]
    /\ Goto(w, "fail")
    /\ UNCHANGED <<events, status, attemptCount, claimed, okAt, errAt, endpointStatus, outbox>>
    /\ UNCHANGED <<jobs, relayVars, wjob, seen, outcome, cache>>

\* The awaits that may reject: the database calls, and moveToDelayed.  TenantLimiter
\* and CircuitStore swallow Redis errors, and send() turns every error into an
\* outcome.
RejectingPC == {"acquire", "read", "endpoint", "claim", "record", "endpointUpdate",
                "finish", "setRetry"}

\* Such a call rejects without effect and the exception reaches BullMQ.  (That a
\* call took effect and rejects is the call followed by this, but for the next two.)
HandlerError(w) ==
    /\ "storeError" \in Env
    /\ wpc[w] \in RejectingPC
    /\ Goto(w, "fail")
    /\ UNCHANGED <<dbVars, jobs, relayVars, wjob, seen, outcome, cache>>

\* The claim is inserted but the reply is lost: nobody owns the attempt.
ClaimReplyLost(w) ==
    LET d == DeliveryOf(w)
    IN  /\ "storeError" \in Env
        /\ wpc[w] = "claim"
        /\ AttemptNo(w) \notin claimed[d]
        /\ claimed' = [claimed EXCEPT ![d] = @ \cup {AttemptNo(w)}]
        /\ Goto(w, "fail")
        /\ UNCHANGED <<events, status, attemptCount, nextRetryAt, okAt, errAt,
                       endpointStatus, outbox>>
        /\ UNCHANGED <<jobs, relayVars, wjob, seen, outcome, cache>>

\* The delivery row is written but the reply is lost.
FinishReplyLost(w) ==
    /\ "storeError" \in Env
    /\ WriteDelivery(w)
    /\ Goto(w, "fail")

\* The slot is free again.
Leave(w) ==
    /\ wpc' = [wpc EXCEPT ![w] = "idle"]
    /\ wjob' = [wjob EXCEPT ![w] = None]
    /\ seen' = [seen EXCEPT ![w] = 0]
    /\ outcome' = [outcome EXCEPT ![w] = "none"]

\* The handler returned: BullMQ completes the job (removeOnComplete).  A slot
\* whose lock is gone changes nothing.
JobComplete(w) ==
    /\ wpc[w] = "complete"
    /\ jobs' = IF jobs[wjob[w]].owner = w
               THEN [jobs EXCEPT ![wjob[w]] = NoJob] ELSE jobs
    /\ Leave(w)
    /\ UNCHANGED <<dbVars, relayVars, cache>>

\* Wrong on purpose: attempts is one too small.
AfterFailureOneShort(b) ==
    IF b.made + 2 < MaxAttempts
    THEN [b EXCEPT !.state = "delayed", !.made = @ + 1, !.owner = None]
    ELSE NoJob

\* The handler threw: BullMQ delays the job while attempts are left, otherwise
\* fails it (removeOnFail).
AfterFailure(b) ==
    IF b.made + 1 < MaxAttempts
    THEN [b EXCEPT !.state = "delayed", !.made = @ + 1, !.owner = None]
    ELSE NoJob

JobFail(w) ==
    /\ wpc[w] = "fail"
    /\ jobs' = IF jobs[wjob[w]].owner = w
               THEN [jobs EXCEPT ![wjob[w]] = AfterFailure(@)] ELSE jobs
    /\ Leave(w)
    /\ UNCHANGED <<dbVars, relayVars, cache>>

-----------------------------------------------------------------------------
(* Faults of workers and of Redis. *)

\* A worker process dies: its slots and its cache are forgotten, its jobs stay
\* active and nobody renews their locks.
WorkerCrash(c) ==
    LET dead == {w \in Workers : ProcessOf[w] = c}
    IN  /\ "workerCrash" \in Env
        /\ \E w \in dead : wpc[w] # "idle"
        /\ jobs' = [j \in JobIds |-> IF jobs[j].owner \in dead
                                     THEN [jobs[j] EXCEPT !.owner = None] ELSE jobs[j]]
        /\ wpc' = [w \in Workers |-> IF w \in dead THEN "idle" ELSE wpc[w]]
        /\ wjob' = [w \in Workers |-> IF w \in dead THEN None ELSE wjob[w]]
        /\ seen' = [w \in Workers |-> IF w \in dead THEN 0 ELSE seen[w]]
        /\ outcome' = [w \in Workers |-> IF w \in dead THEN "none" ELSE outcome[w]]
        /\ cache' = [cache EXCEPT ![c] = [p \in Endpoints |-> "EMPTY"]]
        /\ UNCHANGED <<dbVars, relayVars>>

\* BullMQ's stalled check puts an unlocked active job back, at most MaxStalled
\* times; after that the job fails and is removed.
AfterStall(b) ==
    IF b.stalled < MaxStalled
    THEN [b EXCEPT !.state = "wait", !.stalled = @ + 1, !.owner = None]
    ELSE NoJob

Stall(j) ==
    /\ jobs[j].state = "active"
    /\ jobs[j].owner = None \/ "lockLost" \in Env
    /\ jobs' = [jobs EXCEPT ![j] = AfterStall(@)]
    /\ UNCHANGED <<dbVars, relayVars, workerVars>>

\* Redis comes back empty.
RedisWipe ==
    /\ "redisWipe" \in Env
    /\ \E j \in JobIds : Exists(j)
    /\ jobs' = [j \in JobIds |-> NoJob]
    /\ UNCHANGED <<dbVars, relayVars, workerVars>>

-----------------------------------------------------------------------------
Api ==
    \/ \E e \in Events : Publish(e)
    \/ \E e \in Events, p \in Endpoints : Ping(e, p)
    \/ \E d \in Deliveries : Redeliver(d)
    \/ \E p \in Endpoints, s \in EndpointStatus : PatchEndpoint(p, s)

Relay(r) == TickRead(r) \/ TickLoad(r) \/ TickLoadError(r) \/ TickMark(r) \/ TickAbort(r)

\* The steps of process() and of the handler around it.
Process(w) ==
    \/ ReadDelivery(w) \/ ReadEndpoint(w) \/ Claim(w) \/ Send(w) \/ SkipOpenCircuit(w)
    \/ RecordAttempt(w) \/ UpdateEndpoint(w) \/ FinishDelivery(w) \/ SetRetry(w)
    \/ JobComplete(w) \/ JobFail(w)

Worker(w) ==
    \/ \E j \in JobIds : Fetch(w, j)
    \/ AcquireSlot(w) \/ DeferForTenant(w)
    \/ Process(w)
    \/ HandlerError(w) \/ ClaimReplyLost(w) \/ FinishReplyLost(w)

Redis == RedisWipe \/ \E j \in JobIds : Stall(j)

Next ==
    \/ Api
    \/ \E r \in Relays : Relay(r)
    \/ \E w \in Workers : Worker(w)
    \/ \E c \in Processes, p \in Endpoints : CacheExpire(c, p)
    \/ \E c \in Processes : WorkerCrash(c)
    \/ Redis

Spec == Init /\ [][Next]_vars

\* What the platform guarantees.  setInterval keeps calling tick and BullMQ keeps
\* handing out jobs, so a relay or a slot that can go on does (WF).  A tick that
\* is aborted again and again, a refused tenant slot and a job that competes with
\* others for slots need SF: the outage ends, the slot comes free, the queue is
\* first come first served.
Fairness ==
    /\ \A r \in Relays : WF_vars(TickRead(r)) /\ SF_vars(TickLoad(r)) /\ SF_vars(TickMark(r))
    /\ \A w \in Workers : WF_vars(Process(w)) /\ SF_vars(AcquireSlot(w))
    /\ \A j \in JobIds : SF_vars(\E w \in Workers : Fetch(w, j))

FairSpec == Spec /\ Fairness

-----------------------------------------------------------------------------
(* Safety *)

\* Every variable has its type: rows, jobs, relay and slot states are the ones
\* the code can write.
TypeOK ==
    /\ events \subseteq Events
    /\ status \in [Deliveries -> DeliveryStatus \cup {"ABSENT"}]
    /\ attemptCount \in [Deliveries -> Nat]
    /\ nextRetryAt \in [Deliveries -> BOOLEAN]
    /\ claimed \in [Deliveries -> SUBSET (Nat \ {0})]
    /\ okAt \in [Deliveries -> SUBSET (Nat \ {0})]
    /\ errAt \in [Deliveries -> SUBSET (Nat \ {0})]
    /\ endpointStatus \in [Endpoints -> EndpointStatus]
    /\ outbox \in Seq(OutboxRow)
    /\ jobs \in [JobIds -> Job]
    /\ rpc \in [Relays -> {"idle", "load", "mark"}]
    /\ batch \in [Relays -> SUBSET Nat]
    /\ published \in [Relays -> SUBSET Nat]
    /\ wpc \in [Workers -> WorkerPC]
    /\ wjob \in [Workers -> JobIds \cup {None}]
    /\ seen \in [Workers -> Nat]
    /\ outcome \in [Workers -> {"none", "ok", "error", "open"}]
    /\ cache \in [Processes -> [Endpoints -> EndpointStatus \cup {"EMPTY"}]]

\* The promise of claim(): however often a delivery's jobs are duplicated by the
\* relay, by redelivery or by stalled locks, two slots are never between the
\* claim and the delivery write of the same delivery.
AtMostOneInFlight ==
    \A v, w \in Workers :
        InFlight(v) /\ InFlight(w) /\ DeliveryOf(v) = DeliveryOf(w) => v = w

\* No POST goes out for a delivery that is already SUCCEEDED or DEAD, although
\* process() checks the status two awaits before it claims.
InFlightIsOpen == \A w \in Workers : InFlight(w) => status[DeliveryOf(w)] \in Open

\* delivery_attempts is a gapless history of the delivery: every attempt counted
\* has a row, and at most one row is ahead of attemptCount, until the purge job (which
\* is in WebhookExchange) deletes rows by age.
HistoryContiguous ==
    \A d \in Deliveries :
        /\ 1 .. attemptCount[d] \subseteq claimed[d]
        /\ claimed[d] \subseteq 1 .. attemptCount[d] + 1

\* The status written blindly by FinishDelivery agrees with the recorded outcome
\* of the last counted attempt, and DEAD with the attempt budget.
StatusHasEvidence ==
    \A d \in Deliveries :
        LET n == attemptCount[d]
        IN  /\ status[d] = "SUCCEEDED" => n \in okAt[d]
            /\ status[d] = "DEAD" => n >= MaxAttempts /\ n \in errAt[d]
            /\ status[d] = "FAILED_RETRYING" => n < MaxAttempts /\ n \in errAt[d]

\* No attempt is recorded both as acknowledged and as failed.
OutcomeUnique == \A d \in Deliveries : okAt[d] \cap errAt[d] = {}

\* BullMQ's attempt counter of a job never runs ahead of the delivery's own
\* counter, so the queue never gives a job up before the delivery is DEAD.
RetryBudget == \A j \in JobIds : jobs[j].made <= attemptCount[j[1]]

\* Something will bring d to a worker again: a pending outbox row or a job.
Scheduled(d) ==
    \/ \E i \in PendingIds : d \in TargetsOf(i)
    \/ \E k \in 0 .. MaxOutbox : Exists(<<d, k>>)

\* "Duplicates are possible, loss is not": an open delivery has a pending outbox
\* row that will reload it or a job in the queue, unless its endpoint is disabled
\* (process() then drops the job as SKIPPED_ENDPOINT_INACTIVE).
NoLostDelivery ==
    \A d \in Deliveries :
        status[d] \in Open /\ endpointStatus[d[2]] = "ACTIVE" => Scheduled(d)

\* A delivery waiting for its backoff shows when it will be retried.
RetryTimeShown ==
    \A d \in Deliveries :
        (/\ status[d] = "FAILED_RETRYING"
         /\ \A w \in Workers : wjob[w] = None \/ DeliveryOf(w) # d) => nextRetryAt[d]

-----------------------------------------------------------------------------
(* Why the safety properties hold: an invariant that is inductive *)

\* The attempt rows of a delivery: recorded outcomes belong to claimed attempts.
HistoryInv ==
    /\ HistoryContiguous
    /\ OutcomeUnique
    /\ \A d \in Deliveries : okAt[d] \cup errAt[d] \subseteq claimed[d]

\* A slot between its status check and its claim may be late: then its attempt
\* number is taken.  If the number is free the delivery is still open.
PreClaimInv ==
    \A w \in Workers :
        wpc[w] \in {"endpoint", "claim"} =>
            LET d == DeliveryOf(w)
            IN  /\ seen[w] <= attemptCount[d]
                /\ AttemptNo(w) \notin claimed[d] => status[d] \in Open

\* A slot in flight owns the newest attempt of an open delivery.
InFlightInv ==
    \A w \in Workers :
        InFlight(w) =>
            LET d == DeliveryOf(w)
            IN  /\ seen[w] = attemptCount[d]
                /\ AttemptNo(w) \in claimed[d]
                /\ status[d] \in Open

\* What the slot remembers of the outcome is what it recorded.
RecordedInv ==
    \A w \in Workers :
        LET d == DeliveryOf(w)
            n == AttemptNo(w)
        IN  /\ wpc[w] \in {"circuit", "record"} => n \notin okAt[d] \cup errAt[d]
            /\ wpc[w] \in {"endpointUpdate", "finish"} =>
                  IF outcome[w] = "ok" THEN n \in okAt[d] ELSE n \in errAt[d]

\* A busy slot has a job, and a delivery belongs to an event.
OwnershipInv ==
    /\ \A w \in Workers : wpc[w] # "idle" => wjob[w] \in JobIds
    /\ \A d \in Deliveries : status[d] # "ABSENT" => d[1] \in events

\* The conjunction is preserved by every step and implies AtMostOneInFlight,
\* InFlightIsOpen, HistoryContiguous, StatusHasEvidence and OutcomeUnique.
ClaimProtocolInv ==
    /\ OwnershipInv
    /\ HistoryInv
    /\ AtMostOneInFlight
    /\ PreClaimInv
    /\ InFlightInv
    /\ RecordedInv
    /\ StatusHasEvidence

-----------------------------------------------------------------------------
(* What a step may never do *)

\* A SUCCEEDED or DEAD delivery is reopened only by a redelivery that leaves an
\* outbox row for it; no late worker write ever changes a final status.
DoneIsFinal ==
    [][\A d \in Deliveries :
          status[d] \in Done /\ status'[d] # status[d] =>
              /\ status'[d] = "PENDING"
              /\ Len(outbox') = Len(outbox) + 1
              /\ outbox'[Len(outbox')].delivery = d]_vars

\* attemptCount only moves to the next number, and only onto an attempt that was
\* claimed before; no request, relay or worker takes a claim back.
CountFollowsClaims ==
    [][\A d \in Deliveries :
          /\ attemptCount'[d] # attemptCount[d] =>
                attemptCount'[d] = attemptCount[d] + 1 /\ attemptCount'[d] \in claimed[d]
          /\ claimed[d] \subseteq claimed'[d]]_vars

\* d has a job, or an outbox row that no relay has loaded yet.
Coming(d) ==
    \/ \E i \in PendingIds : d \in TargetsOf(i) /\ \A r \in Relays : i \notin published[r]
    \/ \E k \in 0 .. MaxOutbox : Exists(<<d, k>>)

\* An open delivery is dropped, left without job and row to load, only in the step
\* that completes one of its jobs (the endpoint seemed inactive), never by the relays
\* or by BullMQ giving up; and it has no unfinished claim then, on which the job of a
\* later redelivery would end as SKIPPED_DUPLICATE_CLAIM.  Operators, caches, the
\* breaker, relay faults and other jobs of the delivery notwithstanding.
DropsCleanly ==
    [][\A d \in Deliveries :
          status'[d] \in Open /\ Coming(d) /\ ~Coming(d)' =>
              /\ \E w \in Workers : wpc[w] = "complete" /\ wpc'[w] = "idle" /\ DeliveryOf(w) = d
              /\ attemptCount'[d] + 1 \notin claimed'[d]]_vars

-----------------------------------------------------------------------------
(* Liveness *)

\* Every delivery that exists is finally SUCCEEDED or DEAD, relay restarts, queue
\* outages and redeliveries notwithstanding.
EveryDeliveryEnds == \A d \in Deliveries : status[d] # "ABSENT" ~> status[d] \in Done

\* Every outbox row is finally PUBLISHED.
OutboxDrains == [](PendingIds # {} => <>(PendingIds = {}))

\* A redelivery of a delivery that was SUCCEEDED or DEAD leads to a new attempt.
Reopened(d, n) ==
    status[d] = "PENDING" /\ attemptCount[d] = n /\ (n \in okAt[d] \/ n >= MaxAttempts)

RedeliveryHonoured ==
    \A d \in Deliveries, n \in 1 .. MaxAttempts + MaxOutbox :
        Reopened(d, n) ~> attemptCount[d] > n
=============================================================================
