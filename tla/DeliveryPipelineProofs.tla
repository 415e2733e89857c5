---------------------- MODULE DeliveryPipelineProofs ----------------------
(***************************************************************************)
(* Safety of the delivery pipeline for every number of events, endpoints,  *)
(* relays, worker slots and processes, every attempt budget and every      *)
(* combination of the faults in Env.                                       *)
(***************************************************************************)
EXTENDS DeliveryRefinement, TLAPS

-----------------------------------------------------------------------------
(* Types *)

\* What the queue operations make of a job is a job again.
LEMMA JobTypes ==
    ASSUME TypeOK
    PROVE  /\ NoJob \in Job
           /\ NewJob \in Job
           /\ \A b \in Job : AfterFailure(b) \in Job /\ AfterStall(b) \in Job
           /\ \A b \in Job : /\ [b EXCEPT !.owner = None] \in Job
                           /\ [b EXCEPT !.state = "delayed", !.owner = None] \in Job
           /\ \A b \in Job, w \in Workers : [b EXCEPT !.state = "active", !.owner = w] \in Job
           /\ \A i \in Nat : AddBulk(i) \in [JobIds -> Job]
<1>1. NoJob \in Job /\ NewJob \in Job
  BY DEF NoJob, NewJob, Job
<1>2. \A b \in Job : AfterFailure(b) \in Job /\ AfterStall(b) \in Job
  <2> TAKE b \in Job
  <2>1. b.made + 1 \in Nat /\ b.stalled + 1 \in Nat
    BY DEF Job
  <2>2. [b EXCEPT !.state = "delayed", !.made = @ + 1, !.owner = None] \in Job
    BY <2>1 DEF Job
  <2>3. [b EXCEPT !.state = "wait", !.stalled = @ + 1, !.owner = None] \in Job
    BY <2>1 DEF Job
  <2> QED BY <1>1, <2>2, <2>3 DEF AfterFailure, AfterStall
<1>3. \A i \in Nat : AddBulk(i) \in [JobIds -> Job]
  BY <1>1 DEF AddBulk, TypeOK
<1>4. \A b \in Job : /\ [b EXCEPT !.owner = None] \in Job
                   /\ [b EXCEPT !.state = "delayed", !.owner = None] \in Job
  BY DEF Job
<1>5. \A b \in Job, w \in Workers : [b EXCEPT !.state = "active", !.owner = w] \in Job
  BY DEF Job
<1> QED BY <1>1, <1>2, <1>3, <1>4, <1>5

\* Appending a row keeps the outbox a sequence of rows.
LEMMA AddOutboxType ==
    ASSUME TypeOK, NEW e \in Events, NEW d \in Deliveries \cup {None}, AddOutbox(e, d)
    PROVE  outbox' \in Seq(OutboxRow)
BY DEF TypeOK, AddOutbox, OutboxRow

LEMMA TypeInit == Init => TypeOK
<1> SUFFICES ASSUME Init PROVE TypeOK
  OBVIOUS
<1>1. NoJob \in Job
  BY DEF NoJob, Job
<1> QED
  BY <1>1 DEF Init, TypeOK, EndpointStatus, WorkerPC

\* Requests of the API.
LEMMA TypeApi == TypeOK /\ Api => TypeOK'
<1> SUFFICES ASSUME TypeOK, Api PROVE TypeOK'
  OBVIOUS
<1> USE DEF relayVars, workerVars, Deliveries
<1>1. ASSUME NEW e \in Events, Publish(e) PROVE TypeOK'
  <2>1. outbox' \in Seq(OutboxRow)
    BY <1>1, AddOutboxType DEF Publish, TypeOK
  <2>2. status' \in [Deliveries -> DeliveryStatus \cup {"ABSENT"}]
    BY <1>1 DEF Publish, TypeOK, DeliveryStatus
  <2> QED BY <1>1, <2>1, <2>2 DEF Publish, TypeOK
<1>2. ASSUME NEW e \in Events, NEW p \in Endpoints, Ping(e, p) PROVE TypeOK'
  <2>1. outbox' \in Seq(OutboxRow)
    BY <1>2, AddOutboxType DEF Ping
  <2> QED BY <1>2, <2>1 DEF Ping, TypeOK, DeliveryStatus
<1>3. ASSUME NEW d \in Deliveries, Redeliver(d) PROVE TypeOK'
  <2>1. outbox' \in Seq(OutboxRow)
    BY <1>3, AddOutboxType DEF Redeliver
  <2> QED BY <1>3, <2>1 DEF Redeliver, TypeOK, DeliveryStatus
<1>4. ASSUME NEW p \in Endpoints, NEW s \in EndpointStatus, PatchEndpoint(p, s) PROVE TypeOK'
  BY <1>4 DEF PatchEndpoint, TypeOK
<1> QED BY <1>1, <1>2, <1>3, <1>4 DEF Api

\* Steps of a relay tick.
LEMMA TypeRelay == ASSUME TypeOK, NEW r \in Relays, Relay(r) PROVE TypeOK'
<1> USE DEF dbVars, workerVars
<1>1. CASE TickRead(r)
  <2>1. PendingIds \subseteq Nat
    BY DEF PendingIds, TypeOK
  <2> QED BY <1>1, <2>1 DEF TickRead, TypeOK
<1>2. CASE TickLoad(r)
  <2>1. PICK i \in batch[r] : jobs' = AddBulk(i) /\ batch' = [batch EXCEPT ![r] = @ \ {i}]
                              /\ published' = [published EXCEPT ![r] = @ \cup {i}]
                              /\ rpc' = [rpc EXCEPT ![r] = IF batch[r] = {i} THEN "mark" ELSE "load"]
    BY <1>2 DEF TickLoad
  <2>2. i \in Nat
    BY DEF TypeOK
  <2> QED BY <1>2, <2>1, <2>2, JobTypes, ZenonT(60) DEF TickLoad, TypeOK
<1>3. CASE TickLoadError(r)
  <2>1. PICK i \in batch[r] : jobs' \in {jobs, AddBulk(i)}
    BY <1>3 DEF TickLoadError
  <2>2. i \in Nat
    BY DEF TypeOK
  <2> QED BY <1>3, <2>1, <2>2, JobTypes DEF TickLoadError, TypeOK
<1>4. CASE TickMark(r)
  <2>1. outbox' \in Seq(OutboxRow)
    <3> DEFINE row(i) == IF i \in published[r]
                         THEN [outbox[i] EXCEPT !.status = "PUBLISHED"] ELSE outbox[i]
    <3>1. Len(outbox) \in Nat /\ DOMAIN outbox = 1 .. Len(outbox)
      BY DEF TypeOK
    <3>2. \A i \in 1 .. Len(outbox) : row(i) \in OutboxRow
      <4> TAKE i \in 1 .. Len(outbox)
      <4>1. outbox[i] \in OutboxRow
        BY DEF TypeOK
      <4> QED BY <4>1 DEF OutboxRow
    <3>3. outbox' = [i \in 1 .. Len(outbox) |-> row(i)]
      BY <1>4, <3>1 DEF TickMark
    <3> HIDE DEF row
    <3> QED BY <3>1, <3>2, <3>3
  <2> QED BY <1>4, <2>1 DEF TickMark, TypeOK
<1>5. CASE TickAbort(r)
  BY <1>5 DEF TickAbort, TypeOK
<1> QED BY <1>1, <1>2, <1>3, <1>4, <1>5 DEF Relay

\* The queue operations a slot ends with; w holds the job it gives back.
LEMMA TypeQueue ==
    ASSUME TypeOK, NEW w \in Workers, wpc[w] # "idle" => wjob[w] \in JobIds,
           JobComplete(w) \/ JobFail(w)
    PROVE  TypeOK'
<1> USE DEF dbVars, relayVars, Leave, WorkerPC
<1>1. jobs' \in [JobIds -> Job]
  <2>1. wjob[w] \in JobIds
    BY DEF JobComplete, JobFail, TypeOK
  <2>2. jobs[wjob[w]] \in Job
    BY <2>1 DEF TypeOK
  <2>3. NoJob \in Job /\ AfterFailure(jobs[wjob[w]]) \in Job
    BY <2>2, JobTypes
  <2>4. CASE JobComplete(w)
    BY <2>1, <2>3, <2>4 DEF JobComplete, TypeOK
  <2>5. CASE JobFail(w)
    BY <2>1, <2>3, <2>5 DEF JobFail, TypeOK
  <2> QED BY <2>4, <2>5
<1>2. /\ wpc' \in [Workers -> WorkerPC]
      /\ wjob' \in [Workers -> JobIds \cup {None}]
      /\ seen' \in [Workers -> Nat]
      /\ outcome' \in [Workers -> {"none", "ok", "error", "open"}]
  <2>1. Leave(w)
    BY DEF JobComplete, JobFail
  <2> QED BY <2>1 DEF TypeOK
<1> QED BY <1>1, <1>2 DEF JobComplete, JobFail, TypeOK

\* The steps of process() that only move the slot and write the database.
LEMMA TypeProcess ==
    ASSUME TypeOK, OwnershipInv, NEW w \in Workers, Process(w)
    PROVE  TypeOK'
<1> USE DEF dbVars, relayVars, Goto, WorkerPC
<1>a. wpc[w] # "idle"
  BY DEF Process, ReadDelivery, ReadEndpoint, Claim, Send, SkipOpenCircuit, RecordAttempt,
         UpdateEndpoint, FinishDelivery, WriteDelivery, SetRetry, JobComplete, JobFail
<1>0. /\ wjob[w] \in JobIds
      /\ DeliveryOf(w) \in Deliveries
      /\ DeliveryOf(w)[2] \in Endpoints
      /\ ProcessOf[w] \in Processes
      /\ AttemptNo(w) \in Nat \ {0}
  BY <1>a, ConstantAssumption
     DEF OwnershipInv, DeliveryOf, AttemptNo, JobIds, Deliveries, TypeOK
<1>1. CASE ReadDelivery(w)
  BY <1>0, <1>1 DEF ReadDelivery, TypeOK
<1>2. CASE ReadEndpoint(w)
  <2>1. cache' \in [Processes -> [Endpoints -> EndpointStatus \cup {"EMPTY"}]]
    BY <1>0, <1>2 DEF ReadEndpoint, TypeOK
  <2> QED BY <1>2, <2>1 DEF ReadEndpoint, TypeOK
<1>3. CASE Claim(w)
  <2>1. claimed[DeliveryOf(w)] \cup {AttemptNo(w)} \in SUBSET (Nat \ {0})
    BY <1>0 DEF TypeOK
  <2>2. CASE AttemptNo(w) \in claimed[DeliveryOf(w)]
    BY <1>3, <2>2 DEF Claim, TypeOK
  <2>3. CASE AttemptNo(w) \notin claimed[DeliveryOf(w)]
    <3>1. /\ wpc' = [wpc EXCEPT ![w] = "circuit"]
          /\ claimed' = [claimed EXCEPT ![DeliveryOf(w)] = @ \cup {AttemptNo(w)}]
      BY <1>3, <2>3 DEF Claim
    <3>2. wpc' \in [Workers -> WorkerPC]
      BY <3>1 DEF TypeOK
    <3>3. claimed' \in [Deliveries -> SUBSET (Nat \ {0})]
      BY <1>0, <2>1, <3>1 DEF TypeOK
    <3> QED BY <1>3, <3>2, <3>3 DEF Claim, TypeOK
  <2> QED BY <2>2, <2>3
<1>4. CASE Send(w)
  BY <1>0, <1>4 DEF Send, TypeOK
<1>5. CASE SkipOpenCircuit(w)
  BY <1>0, <1>5 DEF SkipOpenCircuit, TypeOK
<1>6. CASE RecordAttempt(w)
  <2>1. /\ okAt' \in [Deliveries -> SUBSET (Nat \ {0})]
        /\ errAt' \in [Deliveries -> SUBSET (Nat \ {0})]
    <3>1. /\ okAt[DeliveryOf(w)] \cup {AttemptNo(w)} \in SUBSET (Nat \ {0})
          /\ errAt[DeliveryOf(w)] \cup {AttemptNo(w)} \in SUBSET (Nat \ {0})
      BY <1>0 DEF TypeOK
    <3> QED BY <1>0, <1>6, <3>1, ZenonT(60) DEF RecordAttempt, TypeOK
  <2> QED BY <1>6, <2>1 DEF RecordAttempt, TypeOK
<1>7. CASE UpdateEndpoint(w)
  <2>1. /\ endpointStatus' \in [Endpoints -> EndpointStatus]
        /\ cache' \in [Processes -> [Endpoints -> EndpointStatus \cup {"EMPTY"}]]
    <3> DEFINE p == DeliveryOf(w)[2]
               c == ProcessOf[w]
    <3>1. [endpointStatus EXCEPT ![p] = "DISABLED_AUTO"] \in [Endpoints -> EndpointStatus]
      BY <1>0 DEF TypeOK, EndpointStatus
    <3>2. [cache[c] EXCEPT ![p] = "EMPTY"] \in [Endpoints -> EndpointStatus \cup {"EMPTY"}]
      BY <1>0 DEF TypeOK
    <3>3. [cache EXCEPT ![c][p] = "EMPTY"]
              \in [Processes -> [Endpoints -> EndpointStatus \cup {"EMPTY"}]]
      BY <1>0, <3>2 DEF TypeOK
    <3> QED BY <1>7, <3>1, <3>3 DEF UpdateEndpoint, TypeOK
  <2> QED BY <1>7, <2>1 DEF UpdateEndpoint, TypeOK
<1>8. CASE FinishDelivery(w)
  BY <1>0, <1>8 DEF FinishDelivery, WriteDelivery, TypeOK, DeliveryStatus, StatusAfter
<1>9. CASE SetRetry(w)
  BY <1>0, <1>9 DEF SetRetry, TypeOK
<1>10. CASE JobComplete(w) \/ JobFail(w)
  BY <1>10, TypeQueue DEF OwnershipInv
<1> QED
  BY <1>1, <1>2, <1>3, <1>4, <1>5, <1>6, <1>7, <1>8, <1>9, <1>10 DEF Process

\* The steps of a slot around process().
LEMMA TypeWorker ==
    ASSUME TypeOK, OwnershipInv, NEW w \in Workers, Worker(w)
    PROVE  TypeOK'
<1> USE DEF dbVars, relayVars, Goto, WorkerPC
<1>1. ASSUME NEW j \in JobIds, Fetch(w, j) PROVE TypeOK'
  <2>1. jobs' \in [JobIds -> Job]
    BY <1>1, JobTypes DEF Fetch, TypeOK
  <2> QED BY <1>1, <2>1 DEF Fetch, TypeOK
<1>2. CASE AcquireSlot(w)
  BY <1>2 DEF AcquireSlot, TypeOK
<1>3. CASE DeferForTenant(w)
  <2>1. wjob[w] \in JobIds
    BY <1>3 DEF DeferForTenant, OwnershipInv
  <2>2. jobs' \in [JobIds -> Job]
    <3>1. jobs[wjob[w]] \in Job
      BY <2>1 DEF TypeOK
    <3>2. [jobs[wjob[w]] EXCEPT !.state = "delayed", !.owner = None] \in Job
      BY <3>1, JobTypes
    <3> QED BY <1>3, <2>1, <3>2 DEF DeferForTenant, TypeOK
  <2> QED BY <1>3, <2>2 DEF DeferForTenant, TypeOK
<1>4. CASE Process(w)
  BY <1>4, TypeProcess
<1>5. CASE HandlerError(w)
  BY <1>5 DEF HandlerError, TypeOK
<1>6. CASE ClaimReplyLost(w)
  <2>1. DeliveryOf(w) \in Deliveries /\ AttemptNo(w) \in Nat \ {0}
    BY <1>6 DEF ClaimReplyLost, OwnershipInv, DeliveryOf, AttemptNo, JobIds, TypeOK
  <2>2. claimed[DeliveryOf(w)] \cup {AttemptNo(w)} \in SUBSET (Nat \ {0})
    BY <2>1 DEF TypeOK
  <2> QED BY <1>6, <2>1, <2>2 DEF ClaimReplyLost, TypeOK
<1>7. CASE FinishReplyLost(w)
  <2>1. DeliveryOf(w) \in Deliveries /\ AttemptNo(w) \in Nat
    BY <1>7 DEF FinishReplyLost, WriteDelivery, OwnershipInv, DeliveryOf, AttemptNo, JobIds, TypeOK
  <2> QED BY <1>7, <2>1 DEF FinishReplyLost, WriteDelivery, TypeOK, DeliveryStatus, StatusAfter
<1> QED BY <1>1, <1>2, <1>3, <1>4, <1>5, <1>6, <1>7 DEF Worker

\* Faults of processes and of Redis, and the cache's clock.
LEMMA TypeFaults ==
    ASSUME TypeOK,
           \/ \E c \in Processes, p \in Endpoints : CacheExpire(c, p)
           \/ \E c \in Processes : WorkerCrash(c)
           \/ Redis
    PROVE  TypeOK'
<1> USE DEF dbVars, relayVars, workerVars, WorkerPC
<1>1. ASSUME NEW c \in Processes, NEW p \in Endpoints, CacheExpire(c, p) PROVE TypeOK'
  BY <1>1 DEF CacheExpire, TypeOK
<1>2. ASSUME NEW c \in Processes, WorkerCrash(c) PROVE TypeOK'
  <2>1. jobs' \in [JobIds -> Job]
    BY <1>2, JobTypes DEF WorkerCrash, TypeOK
  <2> QED BY <1>2, <2>1 DEF WorkerCrash, TypeOK
<1>3. CASE RedisWipe
  BY <1>3, JobTypes DEF RedisWipe, TypeOK
<1>4. ASSUME NEW j \in JobIds, Stall(j) PROVE TypeOK'
  BY <1>4, JobTypes DEF Stall, TypeOK
<1> QED BY <1>1, <1>2, <1>3, <1>4 DEF Redis

\* OwnershipInv gives the slots' jobs their type, so the two are preserved together.
LEMMA TypeStep == TypeOK /\ OwnershipInv /\ [Next]_vars => TypeOK'
<1> SUFFICES ASSUME TypeOK, OwnershipInv, [Next]_vars PROVE TypeOK'
  OBVIOUS
<1>1. CASE UNCHANGED vars
  BY <1>1 DEF TypeOK, vars, dbVars, relayVars, workerVars
<1> QED BY <1>1, TypeApi, TypeRelay, TypeWorker, TypeFaults DEF Next

-----------------------------------------------------------------------------
(* The claim protocol *)

\* What the protocol invariant is about.
attemptVars == <<attemptCount, claimed, okAt, errAt>>
slotVars    == <<wpc, wjob, seen, outcome>>

LEMMA ProtocolInit == Init => ClaimProtocolInv
<1> SUFFICES ASSUME Init PROVE ClaimProtocolInv
  OBVIOUS
<1>1. OwnershipInv /\ AtMostOneInFlight /\ PreClaimInv /\ InFlightInv /\ RecordedInv
  BY DEF Init, OwnershipInv, AtMostOneInFlight, PreClaimInv, InFlightInv, RecordedInv,
         InFlight, InFlightPC
<1>2. HistoryInv
  BY DEF Init, HistoryInv, HistoryContiguous, OutcomeUnique
<1>3. StatusHasEvidence
  BY DEF Init, StatusHasEvidence
<1> QED BY <1>1, <1>2, <1>3 DEF ClaimProtocolInv

\* Steps of relays, of the queue and of the cache's clock touch none of it.
LEMMA ProtocolUnchanged ==
    ASSUME ClaimProtocolInv, UNCHANGED <<events, status, attemptVars, slotVars>>
    PROVE  ClaimProtocolInv'
BY DEF ClaimProtocolInv, OwnershipInv, HistoryInv, HistoryContiguous, OutcomeUnique,
       AtMostOneInFlight, PreClaimInv, InFlightInv, RecordedInv, StatusHasEvidence,
       attemptVars, slotVars, InFlight, DeliveryOf, AttemptNo, JobIds, Deliveries

\* A request that creates or reopens deliveries only turns statuses to PENDING.
LEMMA ProtocolOpen ==
    ASSUME TypeOK, ClaimProtocolInv, UNCHANGED <<attemptVars, slotVars>>,
           events \subseteq events',
           \A d \in Deliveries : \/ status'[d] = status[d]
                                 \/ status'[d] = "PENDING" /\ d[1] \in events'
    PROVE  ClaimProtocolInv'
<1> USE DEF attemptVars, slotVars, InFlight, DeliveryOf, AttemptNo
<1>0. \A w \in Workers : wpc[w] # "idle" => DeliveryOf(w) \in Deliveries
  BY DEF ClaimProtocolInv, OwnershipInv, JobIds
<1>1. OwnershipInv'
  BY DEF ClaimProtocolInv, OwnershipInv, JobIds, Deliveries
<1>2. HistoryInv' /\ AtMostOneInFlight' /\ RecordedInv'
  BY DEF ClaimProtocolInv, HistoryInv, HistoryContiguous, OutcomeUnique,
         AtMostOneInFlight, RecordedInv
<1>3. PreClaimInv'
  BY <1>0 DEF ClaimProtocolInv, PreClaimInv, Open
<1>4. InFlightInv'
  BY <1>0 DEF ClaimProtocolInv, InFlightInv, Open, InFlightPC
<1>5. StatusHasEvidence'
  BY DEF ClaimProtocolInv, StatusHasEvidence
<1> QED BY <1>1, <1>2, <1>3, <1>4, <1>5 DEF ClaimProtocolInv

\* Where a slot neither is about to claim nor owns a claim.
Uninvolved(w) == wpc[w] \notin {"endpoint", "claim"} \cup InFlightPC

\* Slots that fetch a job, give it up, fail or die leave the protocol; the rest
\* of the slots and the tables are as before.
LEMMA ProtocolLeave ==
    ASSUME ClaimProtocolInv, UNCHANGED <<events, status, attemptVars>>,
           \A w \in Workers :
               \/ /\ wpc'[w] = wpc[w] /\ wjob'[w] = wjob[w]
                  /\ seen'[w] = seen[w] /\ outcome'[w] = outcome[w]
               \/ Uninvolved(w)' /\ (wpc'[w] # "idle" => wjob'[w] \in JobIds)
    PROVE  ClaimProtocolInv'
<1> USE DEF attemptVars, InFlight, DeliveryOf, AttemptNo, Uninvolved, InFlightPC
<1>1. OwnershipInv'
  BY DEF ClaimProtocolInv, OwnershipInv, JobIds, Deliveries
<1>2. HistoryInv' /\ StatusHasEvidence'
  BY DEF ClaimProtocolInv, HistoryInv, HistoryContiguous, OutcomeUnique, StatusHasEvidence
<1>3. AtMostOneInFlight'
  BY DEF ClaimProtocolInv, AtMostOneInFlight
<1>4. PreClaimInv'
  BY DEF ClaimProtocolInv, PreClaimInv
<1>5. InFlightInv'
  BY DEF ClaimProtocolInv, InFlightInv
<1>6. RecordedInv'
  BY DEF ClaimProtocolInv, RecordedInv
<1> QED BY <1>1, <1>2, <1>3, <1>4, <1>5, <1>6 DEF ClaimProtocolInv

\* The delivery, the attempt number and the rows of a busy slot have their types.
LEMMA BusySlot ==
    ASSUME TypeOK, ClaimProtocolInv, NEW w \in Workers, wpc[w] # "idle"
    PROVE  /\ wjob[w] \in JobIds
           /\ DeliveryOf(w) \in Deliveries
           /\ seen[w] \in Nat
           /\ AttemptNo(w) \in Nat
           /\ attemptCount[DeliveryOf(w)] \in Nat
           /\ claimed[DeliveryOf(w)] \subseteq Nat
BY DEF TypeOK, ClaimProtocolInv, OwnershipInv, DeliveryOf, AttemptNo, JobIds

\* process() up to the claim: the slot reads, the tables stay.
LEMMA ProtocolRead ==
    ASSUME TypeOK, ClaimProtocolInv, NEW w \in Workers, ReadDelivery(w) \/ ReadEndpoint(w)
    PROVE  ClaimProtocolInv'
<1> USE DEF dbVars, Goto, InFlight, DeliveryOf, AttemptNo, InFlightPC
<1>0. wpc[w] # "idle"
  BY DEF ReadDelivery, ReadEndpoint
<1>a. /\ UNCHANGED <<events, status, attemptVars, wjob, outcome>>
      /\ wpc'[w] \in {"endpoint", "claim", "complete"}
      /\ \A v \in Workers \ {w} : wpc'[v] = wpc[v] /\ seen'[v] = seen[v]
  BY DEF ReadDelivery, ReadEndpoint, attemptVars, TypeOK
<1>b. wpc'[w] \in {"endpoint", "claim"} =>
          /\ seen'[w] <= attemptCount[DeliveryOf(w)]
          /\ seen'[w] + 1 \notin claimed[DeliveryOf(w)] => status[DeliveryOf(w)] \in Open
  <2>1. CASE ReadDelivery(w)
    BY <1>0, <2>1, BusySlot DEF ReadDelivery, TypeOK
  <2>2. CASE ReadEndpoint(w)
    BY <1>0, <2>2, BusySlot DEF ReadEndpoint, TypeOK, ClaimProtocolInv, PreClaimInv
  <2> QED BY <2>1, <2>2
<1> USE DEF attemptVars
<1>1. OwnershipInv'
  BY <1>0, <1>a DEF ClaimProtocolInv, OwnershipInv, JobIds, Deliveries
<1>2. HistoryInv' /\ StatusHasEvidence'
  BY <1>a DEF ClaimProtocolInv, HistoryInv, HistoryContiguous, OutcomeUnique, StatusHasEvidence
<1>3. AtMostOneInFlight'
  BY <1>a DEF ClaimProtocolInv, AtMostOneInFlight
<1>4. PreClaimInv'
  BY <1>a, <1>b DEF ClaimProtocolInv, PreClaimInv
<1>5. InFlightInv'
  BY <1>a DEF ClaimProtocolInv, InFlightInv
<1>6. RecordedInv'
  BY <1>a DEF ClaimProtocolInv, RecordedInv
<1> QED BY <1>1, <1>2, <1>3, <1>4, <1>5, <1>6 DEF ClaimProtocolInv

\* The claim: a free number is the next one of an open delivery without a slot
\* in flight.
LEMMA FreeNumber ==
    ASSUME TypeOK, ClaimProtocolInv, NEW w \in Workers, wpc[w] = "claim",
           AttemptNo(w) \notin claimed[DeliveryOf(w)]
    PROVE  /\ seen[w] = attemptCount[DeliveryOf(w)]
           /\ status[DeliveryOf(w)] \in Open
           /\ \A v \in Workers : InFlight(v) => DeliveryOf(v) # DeliveryOf(w)
<1> DEFINE d == DeliveryOf(w)
<1>1. d \in Deliveries /\ seen[w] \in Nat /\ attemptCount[d] \in Nat
  BY BusySlot
<1>2. seen[w] <= attemptCount[d] /\ status[d] \in Open
  BY DEF ClaimProtocolInv, PreClaimInv
<1>3. 1 .. attemptCount[d] \subseteq claimed[d]
  BY <1>1 DEF ClaimProtocolInv, HistoryInv, HistoryContiguous
<1>4. seen[w] = attemptCount[d]
  BY <1>1, <1>2, <1>3 DEF AttemptNo
<1>5. ASSUME NEW v \in Workers, InFlight(v), DeliveryOf(v) = d PROVE FALSE
  BY <1>4, <1>5 DEF ClaimProtocolInv, InFlightInv, AttemptNo
<1> QED BY <1>2, <1>4, <1>5

LEMMA ProtocolClaim ==
    ASSUME TypeOK, ClaimProtocolInv, NEW w \in Workers, Claim(w) \/ ClaimReplyLost(w)
    PROVE  ClaimProtocolInv'
<1> DEFINE d == DeliveryOf(w)
           n == AttemptNo(w)
<1> USE DEF Goto, InFlight, AttemptNo, InFlightPC
<1>0. /\ wpc[w] # "idle" /\ wpc[w] = "claim"
      /\ d \in Deliveries /\ wjob[w] \in JobIds /\ seen[w] \in Nat
  BY BusySlot DEF Claim, ClaimReplyLost
<1>1. CASE n \in claimed[d]
  BY <1>0, <1>1, ProtocolLeave DEF Claim, ClaimReplyLost, attemptVars, Uninvolved, TypeOK
<1>2. CASE n \notin claimed[d]
  <2>1. /\ seen[w] = attemptCount[d]
        /\ status[d] \in Open
        /\ \A v \in Workers : InFlight(v) => DeliveryOf(v) # d
    BY <1>0, <1>2, FreeNumber
  <2>2. /\ UNCHANGED <<events, status, attemptCount, okAt, errAt, wjob, seen, outcome>>
        /\ claimed'[d] = claimed[d] \cup {n}
        /\ \A c \in Deliveries \ {d} : claimed'[c] = claimed[c]
        /\ wpc'[w] \in {"circuit", "fail"}
        /\ \A v \in Workers \ {w} : wpc'[v] = wpc[v]
    BY <1>0, <1>2 DEF Claim, ClaimReplyLost, TypeOK
  <2>3. \A c \in Deliveries : claimed[c] \subseteq claimed'[c]
    BY <2>2
  <2>4. \A v \in Workers : wpc[v] # "idle" => DeliveryOf(v) \in Deliveries
    BY BusySlot
  <2> USE DEF DeliveryOf
  <2>5. OwnershipInv'
    BY <1>0, <2>2 DEF ClaimProtocolInv, OwnershipInv, JobIds, Deliveries
  <2>6. HistoryInv'
    <3>1. n \in 1 .. attemptCount[d] + 1
      BY <1>0, <2>1 DEF TypeOK
    <3>2. HistoryContiguous'
      BY <2>2, <3>1 DEF ClaimProtocolInv, HistoryInv, HistoryContiguous
    <3> QED BY <2>2, <2>3, <3>2 DEF ClaimProtocolInv, HistoryInv, OutcomeUnique
  <2>7. AtMostOneInFlight'
    BY <2>1, <2>2 DEF ClaimProtocolInv, AtMostOneInFlight
  <2>8. PreClaimInv'
    BY <2>2, <2>3, <2>4 DEF ClaimProtocolInv, PreClaimInv
  <2>9. InFlightInv'
    BY <2>1, <2>2, <2>3, <2>4 DEF ClaimProtocolInv, InFlightInv
  <2>10. RecordedInv'
    <3>1. n \notin okAt[d] \cup errAt[d]
      BY <1>0, <1>2 DEF ClaimProtocolInv, HistoryInv
    <3> QED BY <2>2, <3>1 DEF ClaimProtocolInv, RecordedInv
  <2>11. StatusHasEvidence'
    BY <2>2 DEF ClaimProtocolInv, StatusHasEvidence
  <2> QED BY <2>5, <2>6, <2>7, <2>8, <2>9, <2>10, <2>11 DEF ClaimProtocolInv
<1> QED BY <1>1, <1>2

\* The POST, the skipped POST and the endpoint update: the slot stays in flight.
LEMMA ProtocolSend ==
    ASSUME TypeOK, ClaimProtocolInv, NEW w \in Workers,
           Send(w) \/ SkipOpenCircuit(w) \/ UpdateEndpoint(w)
    PROVE  ClaimProtocolInv'
<1> USE DEF dbVars, attemptVars, Goto, InFlight, DeliveryOf, AttemptNo, InFlightPC
<1>1. /\ UNCHANGED <<events, status, attemptVars, wjob, seen>>
      /\ wpc[w] # "idle" /\ InFlight(w)
      /\ \/ wpc[w] = "circuit" /\ wpc'[w] = "record"
         \/ wpc[w] = "endpointUpdate" /\ wpc'[w] = "finish" /\ outcome' = outcome
      /\ \A v \in Workers \ {w} : wpc'[v] = wpc[v] /\ outcome'[v] = outcome[v]
  BY DEF Send, SkipOpenCircuit, UpdateEndpoint, TypeOK
<1>2. OwnershipInv'
  BY <1>1 DEF ClaimProtocolInv, OwnershipInv, JobIds, Deliveries
<1>3. HistoryInv' /\ StatusHasEvidence'
  BY <1>1 DEF ClaimProtocolInv, HistoryInv, HistoryContiguous, OutcomeUnique, StatusHasEvidence
<1>4. AtMostOneInFlight'
  BY <1>1 DEF ClaimProtocolInv, AtMostOneInFlight
<1>5. PreClaimInv'
  BY <1>1 DEF ClaimProtocolInv, PreClaimInv
<1>6. InFlightInv'
  BY <1>1 DEF ClaimProtocolInv, InFlightInv
<1>7. RecordedInv'
  BY <1>1 DEF ClaimProtocolInv, RecordedInv
<1> QED BY <1>2, <1>3, <1>4, <1>5, <1>6, <1>7 DEF ClaimProtocolInv

\* The outcome goes into the row of the slot's own attempt, which nobody else
\* in flight owns.
LEMMA ProtocolRecord ==
    ASSUME TypeOK, ClaimProtocolInv, NEW w \in Workers, RecordAttempt(w)
    PROVE  ClaimProtocolInv'
<1> DEFINE d == DeliveryOf(w)
           n == AttemptNo(w)
<1> USE DEF Goto, InFlight, InFlightPC
<1>0. /\ wpc[w] = "record"
      /\ wpc[w] # "idle" /\ InFlight(w)
      /\ d \in Deliveries /\ wjob[w] \in JobIds /\ n \in Nat
  BY BusySlot DEF RecordAttempt
<1>1. n \in claimed[d] /\ n \notin okAt[d] \cup errAt[d]
  BY <1>0 DEF ClaimProtocolInv, InFlightInv, RecordedInv
<1>2. /\ UNCHANGED <<events, status, attemptCount, claimed, wjob, seen, outcome>>
      /\ wpc'[w] \in {"endpointUpdate", "finish"}
      /\ \A v \in Workers \ {w} : wpc'[v] = wpc[v]
      /\ \A c \in Deliveries \ {d} : okAt'[c] = okAt[c] /\ errAt'[c] = errAt[c]
      /\ IF outcome[w] = "ok"
         THEN okAt'[d] = okAt[d] \cup {n} /\ errAt'[d] = errAt[d]
         ELSE errAt'[d] = errAt[d] \cup {n} /\ okAt'[d] = okAt[d]
  BY <1>0 DEF RecordAttempt, TypeOK
<1>3. \A v \in Workers \ {w} : InFlight(v) => DeliveryOf(v) # d /\ DeliveryOf(v) \in Deliveries
  BY <1>0, BusySlot DEF ClaimProtocolInv, AtMostOneInFlight
<1> USE DEF DeliveryOf, AttemptNo
<1>4. OwnershipInv'
  BY <1>0, <1>2 DEF ClaimProtocolInv, OwnershipInv, JobIds, Deliveries
<1>5. HistoryInv'
  <2>1. HistoryContiguous'
    BY <1>2 DEF ClaimProtocolInv, HistoryInv, HistoryContiguous
  <2>2. OutcomeUnique'
    BY <1>1, <1>2 DEF ClaimProtocolInv, HistoryInv, OutcomeUnique
  <2>3. \A c \in Deliveries : okAt'[c] \cup errAt'[c] \subseteq claimed'[c]
    BY <1>1, <1>2 DEF ClaimProtocolInv, HistoryInv
  <2> QED BY <2>1, <2>2, <2>3 DEF HistoryInv
<1>6. AtMostOneInFlight'
  BY <1>0, <1>2 DEF ClaimProtocolInv, AtMostOneInFlight
<1>7. PreClaimInv' /\ InFlightInv'
  BY <1>0, <1>2 DEF ClaimProtocolInv, PreClaimInv, InFlightInv
<1>8. RecordedInv'
  BY <1>0, <1>2, <1>3 DEF ClaimProtocolInv, RecordedInv
<1>9. StatusHasEvidence'
  BY <1>1, <1>2 DEF ClaimProtocolInv, StatusHasEvidence
<1> QED BY <1>4, <1>5, <1>6, <1>7, <1>8, <1>9 DEF ClaimProtocolInv

\* The blind write of the delivery row: it moves attemptCount to the slot's own
\* number, so every slot that read the row before is late from now on.
LEMMA ProtocolFinish ==
    ASSUME TypeOK, ClaimProtocolInv, NEW w \in Workers, FinishDelivery(w) \/ FinishReplyLost(w)
    PROVE  ClaimProtocolInv'
<1> DEFINE d == DeliveryOf(w)
           n == AttemptNo(w)
<1> USE DEF Goto, InFlight, InFlightPC
<1>a. WriteDelivery(w)
  BY DEF FinishDelivery, FinishReplyLost
<1>0. /\ wpc[w] = "finish"
      /\ wpc[w] # "idle" /\ InFlight(w)
      /\ d \in Deliveries /\ wjob[w] \in JobIds /\ n \in Nat /\ seen[w] \in Nat
  BY <1>a, BusySlot DEF WriteDelivery
<1>1. /\ n = attemptCount[d] + 1 /\ n \in claimed[d]
      /\ IF outcome[w] = "ok" THEN n \in okAt[d] ELSE n \in errAt[d]
  BY <1>0 DEF ClaimProtocolInv, InFlightInv, RecordedInv, AttemptNo
<1>2. /\ UNCHANGED <<events, claimed, okAt, errAt, wjob, seen, outcome>>
      /\ wpc'[w] \in {"setRetry", "complete", "fail"}
      /\ \A v \in Workers \ {w} : wpc'[v] = wpc[v]
      /\ \A c \in Deliveries \ {d} : status'[c] = status[c] /\ attemptCount'[c] = attemptCount[c]
      /\ attemptCount'[d] = n
      /\ status'[d] = StatusAfter(outcome[w], n)
  BY <1>0, <1>a DEF FinishDelivery, FinishReplyLost, WriteDelivery, TypeOK
<1>3. \A v \in Workers \ {w} : InFlight(v) => DeliveryOf(v) # d /\ DeliveryOf(v) \in Deliveries
  BY <1>0, BusySlot DEF ClaimProtocolInv, AtMostOneInFlight
<1>4. \A v \in Workers : wpc[v] # "idle" => DeliveryOf(v) \in Deliveries /\ seen[v] \in Nat
  BY BusySlot
<1>5. attemptCount[d] \in Nat /\ MaxAttempts \in Nat
  BY <1>0, ConstantAssumption DEF TypeOK
<1> USE DEF DeliveryOf, AttemptNo
<1>6. OwnershipInv'
  <2>1. d[1] \in events
    BY <1>0 DEF ClaimProtocolInv, OwnershipInv, InFlightInv, Open
  <2> QED BY <1>0, <1>2, <2>1 DEF ClaimProtocolInv, OwnershipInv, JobIds, Deliveries
<1>7. HistoryInv'
  <2>1. 1 .. attemptCount[d] \subseteq claimed[d] /\ claimed[d] \subseteq 1 .. attemptCount[d] + 1
    BY <1>0 DEF ClaimProtocolInv, HistoryInv, HistoryContiguous
  <2>2. 1 .. n \subseteq claimed[d] /\ claimed[d] \subseteq 1 .. n + 1
    BY <1>1, <1>5, <2>1
  <2>3. HistoryContiguous'
    BY <1>2, <2>2 DEF ClaimProtocolInv, HistoryInv, HistoryContiguous
  <2> QED BY <1>2, <2>3 DEF ClaimProtocolInv, HistoryInv, OutcomeUnique
<1>8. AtMostOneInFlight'
  BY <1>2 DEF ClaimProtocolInv, AtMostOneInFlight
<1>9. PreClaimInv'
  <2> SUFFICES ASSUME NEW v \in Workers, (wpc[v] \in {"endpoint", "claim"})'
               PROVE  /\ seen[v] <= attemptCount'[DeliveryOf(v)]
                      /\ AttemptNo(v) \notin claimed[DeliveryOf(v)]
                             => status'[DeliveryOf(v)] \in Open
    BY <1>2 DEF PreClaimInv
  <2>1. /\ v # w /\ wpc[v] \in {"endpoint", "claim"}
        /\ DeliveryOf(v) \in Deliveries /\ seen[v] \in Nat
        /\ seen[v] <= attemptCount[DeliveryOf(v)]
        /\ AttemptNo(v) \notin claimed[DeliveryOf(v)] => status[DeliveryOf(v)] \in Open
    BY <1>2, <1>4 DEF ClaimProtocolInv, PreClaimInv
  <2>2. CASE DeliveryOf(v) # d
    BY <1>2, <2>1, <2>2
  <2>3. CASE DeliveryOf(v) = d
    <3>1. AttemptNo(v) \in 1 .. n
      BY <1>1, <1>5, <2>1, <2>3
    <3>2. AttemptNo(v) \in claimed[d]
      BY <1>2, <1>0, <1>7, <3>1 DEF HistoryInv, HistoryContiguous
    <3> QED BY <1>1, <1>2, <1>5, <2>1, <2>3, <3>2
  <2> QED BY <2>2, <2>3
<1>10. InFlightInv' /\ RecordedInv'
  BY <1>2, <1>3 DEF ClaimProtocolInv, InFlightInv, RecordedInv
<1>11. StatusHasEvidence'
  BY <1>0, <1>1, <1>2, <1>5 DEF ClaimProtocolInv, StatusHasEvidence, StatusAfter
<1> QED BY <1>6, <1>7, <1>8, <1>9, <1>10, <1>11 DEF ClaimProtocolInv

LEMMA ProtocolApi ==
    ASSUME TypeOK, ClaimProtocolInv, Api
    PROVE  ClaimProtocolInv'
<1> USE DEF workerVars, attemptVars, slotVars
<1>1. ASSUME NEW e \in Events, Publish(e) PROVE ClaimProtocolInv'
  <2>1. \A d \in Deliveries : \/ status'[d] = status[d]
                              \/ status'[d] = "PENDING" /\ d[1] \in events'
    BY <1>1 DEF Publish
  <2> QED BY <1>1, <2>1, ProtocolOpen DEF Publish
<1>2. ASSUME NEW e \in Events, NEW p \in Endpoints, Ping(e, p) PROVE ClaimProtocolInv'
  <2>1. \A d \in Deliveries : \/ status'[d] = status[d]
                              \/ status'[d] = "PENDING" /\ d[1] \in events'
    BY <1>2 DEF Ping, TypeOK
  <2> QED BY <1>2, <2>1, ProtocolOpen DEF Ping
<1>3. ASSUME NEW d \in Deliveries, Redeliver(d) PROVE ClaimProtocolInv'
  <2>1. d[1] \in events
    BY <1>3 DEF Redeliver, ClaimProtocolInv, OwnershipInv
  <2>2. \A c \in Deliveries : \/ status'[c] = status[c]
                              \/ status'[c] = "PENDING" /\ c[1] \in events'
    BY <1>3, <2>1 DEF Redeliver, TypeOK
  <2> QED BY <1>3, <2>2, ProtocolOpen DEF Redeliver
<1>4. ASSUME NEW p \in Endpoints, NEW s \in EndpointStatus, PatchEndpoint(p, s)
      PROVE  ClaimProtocolInv'
  BY <1>4, ProtocolUnchanged DEF PatchEndpoint
<1> QED BY <1>1, <1>2, <1>3, <1>4 DEF Api

LEMMA ProtocolWorker ==
    ASSUME TypeOK, ClaimProtocolInv, NEW w \in Workers, Worker(w)
    PROVE  ClaimProtocolInv'
<1> USE DEF dbVars, attemptVars, Goto, Leave, Uninvolved, InFlightPC
<1>0. wpc[w] # "idle" => wjob[w] \in JobIds
  BY BusySlot
<1>1. ASSUME NEW j \in JobIds, Fetch(w, j) PROVE ClaimProtocolInv'
  BY <1>1, ProtocolLeave DEF Fetch, TypeOK
<1>2. CASE AcquireSlot(w)
  BY <1>0, <1>2, ProtocolLeave DEF AcquireSlot, TypeOK
<1>3. CASE DeferForTenant(w)
  BY <1>3, ProtocolLeave DEF DeferForTenant, TypeOK
<1>4. CASE ReadDelivery(w) \/ ReadEndpoint(w)
  BY <1>4, ProtocolRead
<1>5. CASE Claim(w) \/ ClaimReplyLost(w)
  BY <1>5, ProtocolClaim
<1>6. CASE Send(w) \/ SkipOpenCircuit(w) \/ UpdateEndpoint(w)
  BY <1>6, ProtocolSend
<1>7. CASE RecordAttempt(w)
  BY <1>7, ProtocolRecord
<1>8. CASE FinishDelivery(w) \/ FinishReplyLost(w)
  BY <1>8, ProtocolFinish
<1>9. CASE SetRetry(w)
  BY <1>0, <1>9, ProtocolLeave DEF SetRetry, TypeOK
<1>10. CASE JobComplete(w) \/ JobFail(w)
  <2>1. Leave(w) /\ UNCHANGED dbVars
    BY <1>10 DEF JobComplete, JobFail
  <2> QED BY <2>1, ProtocolLeave DEF TypeOK
<1>11. CASE HandlerError(w)
  BY <1>0, <1>11, ProtocolLeave DEF HandlerError, RejectingPC, TypeOK
<1> QED
  BY <1>1, <1>2, <1>3, <1>4, <1>5, <1>6, <1>7, <1>8, <1>9, <1>10, <1>11 DEF Worker, Process

LEMMA ProtocolStep == TypeOK /\ ClaimProtocolInv /\ [Next]_vars => ClaimProtocolInv'
<1> SUFFICES ASSUME TypeOK, ClaimProtocolInv, [Next]_vars PROVE ClaimProtocolInv'
  OBVIOUS
<1> USE DEF dbVars, relayVars, workerVars, attemptVars, slotVars
<1>1. CASE UNCHANGED vars
  BY <1>1, ProtocolUnchanged DEF vars
<1>2. ASSUME NEW r \in Relays, Relay(r) PROVE ClaimProtocolInv'
  BY <1>2, ProtocolUnchanged
     DEF Relay, TickRead, TickLoad, TickLoadError, TickMark, TickAbort
<1>3. ASSUME NEW c \in Processes, NEW p \in Endpoints, CacheExpire(c, p)
      PROVE  ClaimProtocolInv'
  BY <1>3, ProtocolUnchanged DEF CacheExpire
<1>4. ASSUME NEW c \in Processes, WorkerCrash(c) PROVE ClaimProtocolInv'
  BY <1>4, ProtocolLeave DEF WorkerCrash, Uninvolved, InFlightPC
<1>5. CASE Redis
  BY <1>5, ProtocolUnchanged DEF Redis, RedisWipe, Stall
<1> QED
  BY <1>1, <1>2, <1>3, <1>4, <1>5, ProtocolApi, ProtocolWorker DEF Next

-----------------------------------------------------------------------------
(* Theorems *)

\* Every reachable state is well typed, and the claim protocol's invariant holds
\* in it, whatever crashes, lost locks, failing calls or Redis losses occur.
THEOREM ProtocolInvariant == Spec => [](TypeOK /\ ClaimProtocolInv)
<1>1. Init => TypeOK /\ ClaimProtocolInv
  BY TypeInit, ProtocolInit
<1>2. TypeOK /\ ClaimProtocolInv /\ [Next]_vars => TypeOK' /\ ClaimProtocolInv'
  BY TypeStep, ProtocolStep DEF ClaimProtocolInv
<1> QED BY <1>1, <1>2, PTL DEF Spec

\* The type invariant, for every instance of the pipeline.
THEOREM TypeCorrect == Spec => []TypeOK
BY ProtocolInvariant, PTL

\* claim() excludes a second slot between claim and delivery write of the same
\* delivery, for any number of slots, relays and duplicated jobs.
THEOREM ClaimIsExclusive == Spec => []AtMostOneInFlight
<1>1. ClaimProtocolInv => AtMostOneInFlight
  BY DEF ClaimProtocolInv
<1> QED BY <1>1, ProtocolInvariant, PTL

\* No attempt is under way for a delivery that is SUCCEEDED or DEAD.
THEOREM NoAttemptOnDone == Spec => []InFlightIsOpen
<1>1. ClaimProtocolInv => InFlightIsOpen
  BY DEF ClaimProtocolInv, InFlightInv, InFlightIsOpen
<1> QED BY <1>1, ProtocolInvariant, PTL

\* The attempt rows of a delivery have no gap and at most one is uncounted.
THEOREM HistoryHasNoGap == Spec => []HistoryContiguous
<1>1. ClaimProtocolInv => HistoryContiguous
  BY DEF ClaimProtocolInv, HistoryInv
<1> QED BY <1>1, ProtocolInvariant, PTL

\* A status never contradicts the recorded outcome of the last counted attempt.
THEOREM StatusIsTruthful == Spec => [](StatusHasEvidence /\ OutcomeUnique)
<1>1. ClaimProtocolInv => StatusHasEvidence /\ OutcomeUnique
  BY DEF ClaimProtocolInv, HistoryInv
<1> QED BY <1>1, ProtocolInvariant, PTL

-----------------------------------------------------------------------------
(* The pipeline implements the ledger *)

\* What each step does to the ledger's variables; the rest of the steps stutter.
LEMMA StepEffect ==
    ASSUME TypeOK, ClaimProtocolInv, [Next]_vars
    PROVE  \/ UNCHANGED <<status, attemptVars>>
           \/ \E e \in Events : Publish(e)
           \/ \E e \in Events, p \in Endpoints : Ping(e, p)
           \/ \E d \in Deliveries : Redeliver(d)
           \/ \E w \in Workers : Claim(w) \/ ClaimReplyLost(w) \/ RecordAttempt(w)
                                  \/ WriteDelivery(w)
<1> USE DEF dbVars, relayVars, workerVars, attemptVars
<1>1. CASE UNCHANGED vars
  BY <1>1 DEF vars
<1>2. CASE Api
  BY <1>2, SMTT(60) DEF Api, PatchEndpoint
<1>3. ASSUME NEW r \in Relays, Relay(r) PROVE UNCHANGED <<status, attemptVars>>
  BY <1>3, SMTT(60) DEF Relay, TickRead, TickLoad, TickLoadError, TickMark, TickAbort
<1>4. ASSUME NEW w \in Workers, Worker(w)
      PROVE  \/ UNCHANGED <<status, attemptVars>>
             \/ Claim(w) \/ ClaimReplyLost(w) \/ RecordAttempt(w) \/ WriteDelivery(w)
  BY <1>4 DEF Worker, Process, Fetch, AcquireSlot, DeferForTenant, ReadDelivery, ReadEndpoint,
              Send, SkipOpenCircuit, UpdateEndpoint, SetRetry, JobComplete, JobFail, HandlerError,
              FinishDelivery, FinishReplyLost
<1>5. ASSUME NEW c \in Processes, WorkerCrash(c) \/ \E p \in Endpoints : CacheExpire(c, p)
      PROVE  UNCHANGED <<status, attemptVars>>
  BY <1>5 DEF WorkerCrash, CacheExpire
<1>6. CASE Redis
  BY <1>6 DEF Redis, RedisWipe, Stall
<1> QED BY <1>1, <1>2, <1>3, <1>4, <1>5, <1>6 DEF Next

\* Final statuses are left only by a redelivery with an outbox row of its own.
THEOREM DoneStaysDone == Spec => DoneIsFinal
<1> DEFINE Step == \A d \in Deliveries :
                      status[d] \in Done /\ status'[d] # status[d] =>
                          /\ status'[d] = "PENDING"
                          /\ Len(outbox') = Len(outbox) + 1
                          /\ outbox'[Len(outbox')].delivery = d
<1>1. TypeOK /\ ClaimProtocolInv /\ [Next]_vars => Step
  <2> SUFFICES ASSUME TypeOK, ClaimProtocolInv, [Next]_vars,
                      NEW d \in Deliveries, status[d] \in Done, status'[d] # status[d]
               PROVE  /\ status'[d] = "PENDING"
                      /\ Len(outbox') = Len(outbox) + 1
                      /\ outbox'[Len(outbox')].delivery = d
    OBVIOUS
  <2> USE DEF Done, Open
  <2>0. d[1] \in events
    BY DEF ClaimProtocolInv, OwnershipInv
  <2>1. ASSUME NEW e \in Events, Publish(e) PROVE FALSE
    BY <2>0, <2>1 DEF Publish
  <2>2. ASSUME NEW e \in Events, NEW p \in Endpoints, Ping(e, p) PROVE FALSE
    BY <2>0, <2>2 DEF Ping, TypeOK, Deliveries
  <2>3. ASSUME NEW w \in Workers, Claim(w) \/ ClaimReplyLost(w) \/ RecordAttempt(w)
        PROVE  FALSE
    BY <2>3 DEF Claim, ClaimReplyLost, RecordAttempt
  <2>4. ASSUME NEW w \in Workers, WriteDelivery(w) PROVE FALSE
    BY <2>4 DEF WriteDelivery, TypeOK, ClaimProtocolInv, InFlightInv, InFlight, InFlightPC
  <2>5. ASSUME NEW c \in Deliveries, Redeliver(c)
        PROVE  /\ status'[d] = "PENDING"
               /\ Len(outbox') = Len(outbox) + 1
               /\ outbox'[Len(outbox')].delivery = d
    <3>1. c = d /\ status'[d] = "PENDING"
      BY <2>5 DEF Redeliver, TypeOK
    <3>2. outbox' = Append(outbox, [event |-> d[1], delivery |-> d, status |-> "PENDING"])
      BY <2>5, <3>1 DEF Redeliver, AddOutbox
    <3> QED BY <3>1, <3>2 DEF TypeOK
  <2> QED BY <2>1, <2>2, <2>3, <2>4, <2>5, StepEffect
<1>2. TypeOK /\ ClaimProtocolInv /\ [Next]_vars => [Step]_vars
  BY <1>1
<1>3. [][Step]_vars => DoneIsFinal
  BY PTL DEF DoneIsFinal
<1> QED BY <1>2, <1>3, ProtocolInvariant, PTL DEF Spec

\* attemptCount moves one claimed attempt at a time and claims are never undone.
THEOREM CountIsClaimed == Spec => CountFollowsClaims
<1> DEFINE Step == \A d \in Deliveries :
                      /\ attemptCount'[d] # attemptCount[d] =>
                            attemptCount'[d] = attemptCount[d] + 1
                            /\ attemptCount'[d] \in claimed[d]
                      /\ claimed[d] \subseteq claimed'[d]
<1>1. TypeOK /\ ClaimProtocolInv /\ [Next]_vars => Step
  <2> SUFFICES ASSUME TypeOK, ClaimProtocolInv, [Next]_vars
               PROVE  Step
    OBVIOUS
  <2>1. ASSUME NEW w \in Workers, Claim(w) \/ ClaimReplyLost(w) PROVE Step
    <3>1. CASE AttemptNo(w) \in claimed[DeliveryOf(w)]
      BY <2>1, <3>1 DEF Claim, ClaimReplyLost
    <3>2. CASE AttemptNo(w) \notin claimed[DeliveryOf(w)]
      <4>1. /\ attemptCount' = attemptCount
            /\ claimed' = [claimed EXCEPT ![DeliveryOf(w)] = @ \cup {AttemptNo(w)}]
        BY <2>1, <3>2 DEF Claim, ClaimReplyLost
      <4>2. \A d \in Deliveries : claimed[d] \subseteq claimed'[d]
        BY <4>1 DEF TypeOK
      <4> QED BY <4>1, <4>2
    <3> QED BY <3>1, <3>2
  <2>2. ASSUME NEW w \in Workers, RecordAttempt(w) PROVE Step
    BY <2>2 DEF RecordAttempt
  <2>3. ASSUME NEW w \in Workers, WriteDelivery(w) PROVE Step
    BY <2>3 DEF WriteDelivery, TypeOK, ClaimProtocolInv, InFlightInv, InFlight, InFlightPC,
                AttemptNo
  <2>4. CASE UNCHANGED attemptVars
    BY <2>4 DEF attemptVars
  <2> QED BY <2>1, <2>2, <2>3, <2>4, StepEffect DEF Publish, Ping, Redeliver, attemptVars
<1>2. [][Step]_vars => CountFollowsClaims
  BY PTL DEF CountFollowsClaims
<1> QED BY <1>1, <1>2, ProtocolInvariant, PTL DEF Spec

\* The statuses as the ledger sees them.
LEMMA Phases ==
    /\ PhaseOf("ABSENT") = "none"
    /\ \A s \in Open : PhaseOf(s) = "owed"
    /\ PhaseOf("SUCCEEDED") = "succeeded"
    /\ PhaseOf("DEAD") = "dead"
BY DEF PhaseOf, Open

LEMMA LedgerInitially == Init => Ledger!LedgerInit
BY Phases DEF Init, Ledger!LedgerInit

\* Every step of the pipeline is a step of the ledger or leaves it alone.
LEMMA LedgerStep ==
    ASSUME TypeOK, ClaimProtocolInv, [Next]_vars
    PROVE  [Ledger!LedgerNext]_(Ledger!ledgerVars)
<1> DEFINE phase == [d \in Deliveries |-> PhaseOf(status[d])]
<1> USE DEF Ledger!LedgerNext, Ledger!ledgerVars
<1>0. UNCHANGED status => UNCHANGED phase
  OBVIOUS
<1>1. CASE UNCHANGED <<status, attemptVars>>
  BY <1>0, <1>1 DEF attemptVars
<1>2. ASSUME NEW e \in Events, Publish(e) PROVE Ledger!LedgerNext
  <2> DEFINE S == {d \in Deliveries : /\ d[1] = e
                                      /\ d[2] \in Subscribers
                                      /\ endpointStatus[d[2]] = "ACTIVE"}
  <2>1. \A d \in S : status[d] = "ABSENT"
    BY <1>2 DEF Publish, ClaimProtocolInv, OwnershipInv
  <2>2. phase' = [d \in Deliveries |-> IF d \in S THEN "owed" ELSE phase[d]]
    BY <1>2, Phases DEF Publish, Open
  <2>3. Ledger!Create(S)
    BY <1>2, <2>1, <2>2, Phases DEF Ledger!Create, Publish
  <2> QED BY <2>3
<1>3. ASSUME NEW e \in Events, NEW p \in Endpoints, Ping(e, p) PROVE Ledger!LedgerNext
  <2>1. <<e, p>> \in Deliveries /\ status[<<e, p>>] = "ABSENT"
    BY <1>3 DEF Ping, ClaimProtocolInv, OwnershipInv, Deliveries
  <2>2. phase' = [d \in Deliveries |-> IF d \in {<<e, p>>} THEN "owed" ELSE phase[d]]
    BY <1>3, <2>1, Phases DEF Ping, Open, TypeOK
  <2>3. Ledger!Create({<<e, p>>})
    BY <1>3, <2>1, <2>2, Phases DEF Ledger!Create, Ping
  <2> QED BY <2>1, <2>3
<1>4. ASSUME NEW d \in Deliveries, Redeliver(d) PROVE Ledger!LedgerNext
  <2>1. phase[d] # "none"
    BY <1>4, Phases DEF Redeliver, TypeOK, DeliveryStatus, Open
  <2>2. phase' = [phase EXCEPT ![d] = "owed"]
    BY <1>4, Phases DEF Redeliver, TypeOK, Open
  <2>3. Ledger!Reopen(d)
    BY <1>4, <2>1, <2>2 DEF Ledger!Reopen, Redeliver
  <2> QED BY <2>3
<1>5. ASSUME NEW w \in Workers, Claim(w) \/ ClaimReplyLost(w)
      PROVE  [Ledger!LedgerNext]_(Ledger!ledgerVars)
  <2> DEFINE d == DeliveryOf(w)
  <2>1. wpc[w] # "idle" /\ wpc[w] = "claim" /\ d \in Deliveries
    BY <1>5, BusySlot DEF Claim, ClaimReplyLost
  <2>2. CASE AttemptNo(w) \in claimed[d]
    BY <1>0, <1>5, <2>2 DEF Claim, ClaimReplyLost
  <2>3. CASE AttemptNo(w) \notin claimed[d]
    <3>1. seen[w] = attemptCount[d] /\ phase[d] = "owed"
      BY <2>1, <2>3, FreeNumber, Phases
    <3>2. Ledger!Start(d)
      BY <1>0, <1>5, <2>3, <3>1 DEF Ledger!Start, Claim, ClaimReplyLost, AttemptNo
    <3> QED BY <2>1, <3>2
  <2> QED BY <2>2, <2>3
<1>6. ASSUME NEW w \in Workers, RecordAttempt(w) PROVE [Ledger!LedgerNext]_(Ledger!ledgerVars)
  <2> DEFINE d == DeliveryOf(w)
  <2>1. /\ wpc[w] # "idle" /\ InFlight(w) /\ d \in Deliveries
    BY <1>6, BusySlot DEF RecordAttempt, InFlight, InFlightPC
  <2>2. /\ seen[w] = attemptCount[d] /\ AttemptNo(w) \in claimed[d]
        /\ phase[d] = "owed"
    BY <2>1, Phases DEF ClaimProtocolInv, InFlightInv
  <2>3. CASE outcome[w] = "ok"
    <3>1. Ledger!Acknowledge(d)
      BY <1>0, <1>6, <2>2, <2>3 DEF Ledger!Acknowledge, RecordAttempt, AttemptNo
    <3> QED BY <2>1, <3>1
  <2>4. CASE outcome[w] # "ok"
    BY <1>0, <1>6, <2>4 DEF RecordAttempt
  <2> QED BY <2>3, <2>4
<1>7. ASSUME NEW w \in Workers, WriteDelivery(w) PROVE Ledger!LedgerNext
  <2> DEFINE d == DeliveryOf(w)
             n == AttemptNo(w)
  <2>1. wpc[w] # "idle" /\ wpc[w] = "finish" /\ InFlight(w) /\ d \in Deliveries
    BY <1>7, BusySlot DEF WriteDelivery, InFlight, InFlightPC
  <2>2. /\ n = attemptCount[d] + 1 /\ n \in claimed[d] /\ phase[d] = "owed"
        /\ n \in okAt[d] <=> outcome[w] = "ok"
    BY <2>1, Phases
       DEF ClaimProtocolInv, InFlightInv, RecordedInv, HistoryInv, OutcomeUnique, AttemptNo
  <2>3. phase' = [phase EXCEPT ![d] = PhaseOf(StatusAfter(outcome[w], n))]
    BY <1>7, <2>1 DEF WriteDelivery, TypeOK
  <2>4. PhaseOf(StatusAfter(outcome[w], n)) =
            IF n \in okAt[d] THEN "succeeded" ELSE IF n >= MaxAttempts THEN "dead" ELSE "owed"
    BY <2>2, Phases DEF StatusAfter, Open
  <2>5. Ledger!Settle(d)
    BY <1>7, <2>2, <2>3, <2>4 DEF Ledger!Settle, WriteDelivery
  <2> QED BY <2>1, <2>5
<1> QED BY <1>1, <1>2, <1>3, <1>4, <1>5, <1>6, <1>7, StepEffect

\* The pipeline, with any faults, implements the ledger of its deliveries.
THEOREM PipelineImplementsLedger == Spec => ImplementsLedger
<1>1. TypeOK /\ ClaimProtocolInv /\ [Next]_vars => [Ledger!LedgerNext]_(Ledger!ledgerVars)
  BY LedgerStep
<1> QED
  BY <1>1, LedgerInitially, ProtocolInvariant, PTL DEF Spec, ImplementsLedger, Ledger!LedgerSpec

-----------------------------------------------------------------------------
(* The attempt budget *)

\* What changes the attempts of a delivery: a claim of a free number, which is the
\* next one of an open delivery, and the write that counts it.
LEMMA AttemptStep ==
    ASSUME TypeOK, ClaimProtocolInv, [Next]_vars, NEW d \in Deliveries
    PROVE  /\ \/ claimed'[d] = claimed[d]
              \/ /\ claimed'[d] = claimed[d] \cup {attemptCount[d] + 1}
                 /\ status[d] \in Open
                 /\ attemptCount[d] + 1 \notin claimed[d]
           /\ \/ attemptCount'[d] = attemptCount[d]
              \/ /\ attemptCount'[d] = attemptCount[d] + 1
                 /\ \E o \in {"ok", "error", "open", "none"} :
                        status'[d] = StatusAfter(o, attemptCount[d] + 1)
                 /\ \E w \in Workers : InFlight(w) /\ DeliveryOf(w) = d
<1>1. ASSUME NEW w \in Workers, Claim(w) \/ ClaimReplyLost(w)
      PROVE  /\ attemptCount' = attemptCount
             /\ \/ claimed'[d] = claimed[d]
                \/ /\ claimed'[d] = claimed[d] \cup {attemptCount[d] + 1}
                   /\ status[d] \in Open
                   /\ attemptCount[d] + 1 \notin claimed[d]
  <2>1. wpc[w] = "claim" /\ attemptCount' = attemptCount
    BY <1>1 DEF Claim, ClaimReplyLost
  <2>2. CASE AttemptNo(w) \in claimed[DeliveryOf(w)]
    <3>1. claimed' = claimed
      BY <1>1, <2>2 DEF Claim, ClaimReplyLost
    <3> QED BY <2>1, <3>1
  <2>3. CASE AttemptNo(w) \notin claimed[DeliveryOf(w)]
    <3>1. claimed' = [claimed EXCEPT ![DeliveryOf(w)] = @ \cup {AttemptNo(w)}]
      BY <1>1, <2>3 DEF Claim, ClaimReplyLost
    <3>2. seen[w] = attemptCount[DeliveryOf(w)] /\ status[DeliveryOf(w)] \in Open
      BY <2>1, <2>3, FreeNumber
    <3>3. CASE d = DeliveryOf(w)
      BY <2>1, <2>3, <3>1, <3>2, <3>3 DEF AttemptNo, TypeOK
    <3>4. CASE d # DeliveryOf(w)
      BY <2>1, <3>1, <3>4 DEF TypeOK
    <3> QED BY <3>3, <3>4
  <2> QED BY <2>2, <2>3
<1>2. ASSUME NEW w \in Workers, WriteDelivery(w)
      PROVE  /\ claimed' = claimed
             /\ \/ attemptCount'[d] = attemptCount[d]
                \/ /\ attemptCount'[d] = attemptCount[d] + 1
                   /\ status'[d] = StatusAfter(outcome[w], attemptCount[d] + 1)
                   /\ InFlight(w) /\ DeliveryOf(w) = d
  <2>1. /\ InFlight(w) /\ claimed' = claimed
        /\ attemptCount' = [attemptCount EXCEPT ![DeliveryOf(w)] = AttemptNo(w)]
        /\ status' = [status EXCEPT ![DeliveryOf(w)] = StatusAfter(outcome[w], AttemptNo(w))]
    BY <1>2 DEF WriteDelivery, InFlight, InFlightPC
  <2>2. seen[w] = attemptCount[DeliveryOf(w)]
    BY <2>1 DEF ClaimProtocolInv, InFlightInv
  <2>3. CASE d = DeliveryOf(w)
    BY <2>1, <2>2, <2>3 DEF AttemptNo, TypeOK
  <2>4. CASE d # DeliveryOf(w)
    BY <2>1, <2>4 DEF TypeOK
  <2> QED BY <2>1, <2>3, <2>4
<1>3. ASSUME NEW w \in Workers PROVE outcome[w] \in {"ok", "error", "open", "none"}
  BY DEF TypeOK
<1>4. CASE UNCHANGED <<attemptCount, claimed>>
  BY <1>4
<1>5. ASSUME NEW w \in Workers, RecordAttempt(w) PROVE UNCHANGED <<attemptCount, claimed>>
  BY <1>5 DEF RecordAttempt
<1>6. ASSUME \/ \E e \in Events : Publish(e)
             \/ \E e \in Events, p \in Endpoints : Ping(e, p)
             \/ \E c \in Deliveries : Redeliver(c)
      PROVE  UNCHANGED <<attemptCount, claimed>>
  BY <1>6 DEF Publish, Ping, Redeliver
<1> QED BY <1>1, <1>2, <1>3, <1>4, <1>5, <1>6, StepEffect DEF attemptVars

\* An attempt beyond MaxAttempts is claimed only for a delivery that somebody put
\* back to PENDING, and counting an attempt from MaxAttempts on ends the delivery:
\* a redelivery buys one attempt, not a new budget, whatever duplicates the queue
\* delivers.
BudgetedAttempts ==
    [][\A d \in Deliveries :
          /\ \A n \in claimed'[d] \ claimed[d] : n > MaxAttempts => status[d] = "PENDING"
          /\ attemptCount'[d] # attemptCount[d] /\ attemptCount'[d] >= MaxAttempts =>
                status'[d] \in Done]_vars

\* BudgetedAttempts holds of process() with claims, faults and redeliveries of any
\* kind and number.
THEOREM AttemptsAreBudgeted == Spec => BudgetedAttempts
<1> DEFINE Step == \A d \in Deliveries :
                      /\ \A n \in claimed'[d] \ claimed[d] :
                            n > MaxAttempts => status[d] = "PENDING"
                      /\ attemptCount'[d] # attemptCount[d] /\ attemptCount'[d] >= MaxAttempts =>
                            status'[d] \in Done
<1>1. TypeOK /\ ClaimProtocolInv /\ [Next]_vars => Step
  <2> SUFFICES ASSUME TypeOK, ClaimProtocolInv, [Next]_vars, NEW d \in Deliveries
               PROVE  /\ \A n \in claimed'[d] \ claimed[d] :
                            n > MaxAttempts => status[d] = "PENDING"
                      /\ attemptCount'[d] # attemptCount[d] /\ attemptCount'[d] >= MaxAttempts =>
                            status'[d] \in Done
    OBVIOUS
  <2>1. attemptCount[d] \in Nat /\ MaxAttempts \in Nat
    BY ConstantAssumption DEF TypeOK
  <2>2. status[d] = "FAILED_RETRYING" => attemptCount[d] < MaxAttempts
    BY DEF ClaimProtocolInv, StatusHasEvidence
  <2>3. ASSUME NEW n \in claimed'[d] \ claimed[d], n > MaxAttempts PROVE status[d] = "PENDING"
    <3>1. n = attemptCount[d] + 1 /\ status[d] \in Open
      BY <2>3, AttemptStep
    <3> QED BY <2>1, <2>2, <2>3, <3>1 DEF Open
  <2>4. ASSUME attemptCount'[d] # attemptCount[d], attemptCount'[d] >= MaxAttempts
        PROVE  status'[d] \in Done
    <3>1. /\ attemptCount'[d] = attemptCount[d] + 1
          /\ \E o \in {"ok", "error", "open", "none"} :
                 status'[d] = StatusAfter(o, attemptCount[d] + 1)
      BY <2>4, AttemptStep
    <3> QED BY <2>1, <2>4, <3>1 DEF StatusAfter, Done
  <2> QED BY <2>3, <2>4
<1>2. [][Step]_vars => BudgetedAttempts
  BY PTL DEF BudgetedAttempts
<1> QED BY <1>1, <1>2, ProtocolInvariant, PTL DEF Spec

\* A delivery that was never attempted has all its attempts left, and no number
\* beyond the budget is ever claimed.
WithinBudget ==
    \A d \in Deliveries : /\ status[d] \in {"ABSENT", "PENDING"} => attemptCount[d] = 0
                          /\ claimed[d] \subseteq 1 .. MaxAttempts

LEMMA BudgetStepUnasked ==
    ASSUME TypeOK, ClaimProtocolInv, WithinBudget, [Next]_vars, "redeliver" \notin Env
    PROVE  WithinBudget'
<1> SUFFICES ASSUME NEW d \in Deliveries
             PROVE  /\ status'[d] \in {"ABSENT", "PENDING"} => attemptCount'[d] = 0
                    /\ claimed'[d] \subseteq 1 .. MaxAttempts
  BY DEF WithinBudget
<1>1. /\ attemptCount[d] \in Nat /\ MaxAttempts \in Nat \ {0}
      /\ status[d] \in {"ABSENT", "PENDING"} => attemptCount[d] = 0
      /\ claimed[d] \subseteq 1 .. MaxAttempts
  BY ConstantAssumption DEF TypeOK, WithinBudget
<1>2. claimed'[d] \subseteq 1 .. MaxAttempts
  <2>1. status[d] = "FAILED_RETRYING" => attemptCount[d] < MaxAttempts
    BY DEF ClaimProtocolInv, StatusHasEvidence
  <2>2. status[d] \in Open => attemptCount[d] + 1 \in 1 .. MaxAttempts
    BY <1>1, <2>1 DEF Open
  <2> QED BY <1>1, <2>2, AttemptStep
<1>3. ASSUME attemptCount'[d] # attemptCount[d] PROVE status'[d] \notin {"ABSENT", "PENDING"}
  <2>1. \E o \in {"ok", "error", "open", "none"} : status'[d] = StatusAfter(o, attemptCount[d] + 1)
    BY <1>3, AttemptStep
  <2> QED BY <2>1 DEF StatusAfter
<1>4. ASSUME attemptCount'[d] = attemptCount[d], status'[d] \in {"ABSENT", "PENDING"}
      PROVE  status[d] \in {"ABSENT", "PENDING"}
  <2>1. CASE UNCHANGED status
    BY <1>4, <2>1
  <2>2. ASSUME NEW e \in Events, Publish(e) PROVE status[d] \in {"ABSENT", "PENDING"}
    <3>1. d[1] = e => status[d] = "ABSENT"
      BY <2>2 DEF Publish, ClaimProtocolInv, OwnershipInv
    <3>2. d[1] # e => status'[d] = status[d]
      BY <2>2 DEF Publish
    <3> QED BY <1>4, <3>1, <3>2
  <2>3. ASSUME NEW e \in Events, NEW p \in Endpoints, Ping(e, p)
        PROVE  status[d] \in {"ABSENT", "PENDING"}
    <3>1. status' = [status EXCEPT ![<<e, p>>] = "PENDING"] /\ e \notin events
      BY <2>3 DEF Ping
    <3>2. d = <<e, p>> => status[d] = "ABSENT"
      BY <3>1 DEF ClaimProtocolInv, OwnershipInv
    <3>3. d # <<e, p>> => status'[d] = status[d]
      BY <3>1 DEF TypeOK
    <3> QED BY <1>4, <3>2, <3>3
  <2>4. ASSUME NEW w \in Workers, Claim(w) \/ ClaimReplyLost(w) \/ RecordAttempt(w)
        PROVE  UNCHANGED status
    BY <2>4 DEF Claim, ClaimReplyLost, RecordAttempt
  <2>5. ASSUME NEW w \in Workers, WriteDelivery(w) PROVE status[d] \in {"ABSENT", "PENDING"}
    <3>1. /\ InFlight(w)
          /\ status' = [status EXCEPT ![DeliveryOf(w)] = StatusAfter(outcome[w], AttemptNo(w))]
      BY <2>5 DEF WriteDelivery, InFlight, InFlightPC
    <3>2. d = DeliveryOf(w) => status'[d] = StatusAfter(outcome[w], AttemptNo(w))
      BY <3>1 DEF TypeOK
    <3>3. d # DeliveryOf(w)
      BY <1>4, <3>2 DEF StatusAfter
    <3> QED BY <1>4, <3>1, <3>3 DEF TypeOK
  <2>6. ASSUME NEW c \in Deliveries, Redeliver(c) PROVE FALSE
    BY <2>6 DEF Redeliver
  <2> QED BY <2>1, <2>2, <2>3, <2>4, <2>5, <2>6, StepEffect
<1> QED BY <1>1, <1>2, <1>3, <1>4

\* HR_MAX_ATTEMPTS is what it says: as long as nobody asks for a redelivery, an
\* endpoint is sent a delivery at most MaxAttempts times, however often its job is
\* duplicated, stalled, retried after store errors or loaded again by the relay.
THEOREM BudgetIsKept ==
    ASSUME "redeliver" \notin Env
    PROVE  Spec => [](\A d \in Deliveries : claimed[d] \subseteq 1 .. MaxAttempts)
<1>1. Init => WithinBudget
  BY DEF Init, WithinBudget
<1>2. TypeOK /\ ClaimProtocolInv /\ WithinBudget /\ [Next]_vars => WithinBudget'
  BY BudgetStepUnasked
<1>3. WithinBudget => \A d \in Deliveries : claimed[d] \subseteq 1 .. MaxAttempts
  BY DEF WithinBudget
<1> QED BY <1>1, <1>2, <1>3, ProtocolInvariant, PTL DEF Spec

-----------------------------------------------------------------------------
(* Abandoned claims *)

\* The next attempt of d is claimed and no slot is at it: its worker died, lost the
\* reply of claim(), or a store call after the claim was rejected.
Stranded(d) ==
    /\ attemptCount[d] + 1 \in claimed[d]
    /\ \A w \in Workers : InFlight(w) => DeliveryOf(w) # d

\* A slot comes to be in flight by a claim of a free number only, and works on the
\* same delivery until it is done.
LEMMA InFlightStep ==
    ASSUME TypeOK, ClaimProtocolInv, [Next]_vars, NEW w \in Workers, InFlight(w)'
    PROVE  /\ wjob'[w] = wjob[w]
           /\ \/ InFlight(w)
              \/ wpc[w] = "claim" /\ AttemptNo(w) \notin claimed[DeliveryOf(w)]
<1> USE DEF InFlight, InFlightPC, dbVars, relayVars, workerVars
<1>1. CASE UNCHANGED <<wpc, wjob>>
  BY <1>1
<1>2. CASE UNCHANGED vars
  BY <1>1, <1>2 DEF vars
<1>3. CASE Api
  <2>1. UNCHANGED <<wpc, wjob>>
    BY <1>3 DEF Api, Publish, Ping, Redeliver, PatchEndpoint
  <2> QED BY <1>1, <2>1
<1>4. ASSUME NEW r \in Relays, Relay(r) PROVE UNCHANGED <<wpc, wjob>>
  BY <1>4 DEF Relay, TickRead, TickLoad, TickLoadError, TickMark, TickAbort
<1>5. CASE Redis \/ \E c \in Processes, p \in Endpoints : CacheExpire(c, p)
  <2>1. UNCHANGED <<wpc, wjob>>
    BY <1>5 DEF Redis, RedisWipe, Stall, CacheExpire
  <2> QED BY <1>1, <2>1
<1>6. ASSUME NEW c \in Processes, WorkerCrash(c)
      PROVE  wpc'[w] = wpc[w] /\ wjob'[w] = wjob[w]
  BY <1>6 DEF WorkerCrash
<1>7. ASSUME NEW v \in Workers, Worker(v)
      PROVE  /\ wjob'[w] = wjob[w]
             /\ \/ InFlight(w)
                \/ wpc[w] = "claim" /\ AttemptNo(w) \notin claimed[DeliveryOf(w)]
  <2> DOMAIN wpc = Workers /\ DOMAIN wjob = Workers
    BY DEF TypeOK
  <2> USE DEF Goto
  <2>1. ASSUME NEW j \in JobIds, Fetch(v, j) PROVE v # w /\ wpc'[w] = wpc[w] /\ wjob'[w] = wjob[w]
    BY <2>1 DEF Fetch
  <2>2. CASE AcquireSlot(v) \/ ReadDelivery(v) \/ ReadEndpoint(v) \/ SetRetry(v) \/ HandlerError(v)
             \/ ClaimReplyLost(v) \/ FinishReplyLost(v) \/ FinishDelivery(v)
    <3>1. /\ wjob' = wjob
          /\ \E l \in WorkerPC \ InFlightPC : wpc' = [wpc EXCEPT ![v] = l]
      BY <2>2 DEF AcquireSlot, ReadDelivery, ReadEndpoint, SetRetry, HandlerError, ClaimReplyLost,
                  FinishReplyLost, FinishDelivery, WriteDelivery, WorkerPC
    <3> QED BY <3>1
  <2>3. CASE DeferForTenant(v) \/ JobComplete(v) \/ JobFail(v)
    <3>1. wpc' = [wpc EXCEPT ![v] = "idle"] /\ wjob' = [wjob EXCEPT ![v] = None]
      BY <2>3 DEF DeferForTenant, JobComplete, JobFail, Leave
    <3> QED BY <3>1
  <2>4. CASE Send(v) \/ SkipOpenCircuit(v) \/ RecordAttempt(v) \/ UpdateEndpoint(v)
    <3>1. /\ wjob' = wjob /\ wpc[v] \in InFlightPC
          /\ \E l \in WorkerPC : wpc' = [wpc EXCEPT ![v] = l]
      BY <2>4 DEF Send, SkipOpenCircuit, RecordAttempt, UpdateEndpoint, WorkerPC
    <3> QED BY <3>1
  <2>5. CASE Claim(v)
    <3>1. wpc[v] = "claim" /\ wjob' = wjob
      BY <2>5 DEF Claim
    <3>2. CASE AttemptNo(v) \in claimed[DeliveryOf(v)]
      <4>1. wpc' = [wpc EXCEPT ![v] = "complete"]
        BY <2>5, <3>2 DEF Claim
      <4> QED BY <3>1, <4>1
    <3>3. CASE AttemptNo(v) \notin claimed[DeliveryOf(v)]
      <4>1. wpc' = [wpc EXCEPT ![v] = "circuit"]
        BY <2>5, <3>3 DEF Claim
      <4> QED BY <3>1, <3>3, <4>1
    <3> QED BY <3>2, <3>3
  <2> QED BY <1>7, <2>1, <2>2, <2>3, <2>4, <2>5 DEF Worker, Process
<1> QED BY <1>1, <1>2, <1>3, <1>4, <1>5, <1>6, <1>7 DEF Next

\* An abandoned claim is for good: while the row of the claim is there, no
\* redelivery, retry, stalled job or reload of the outbox leads to another attempt
\* of its delivery or to an end of it.
StrandedForGood ==
    [][\A d \in Deliveries :
          Stranded(d) => /\ Stranded(d)'
                         /\ claimed'[d] = claimed[d]
                         /\ attemptCount'[d] = attemptCount[d]
                         /\ status'[d] \in {status[d], "PENDING"}]_vars

\* StrandedForGood holds of process(), which takes every taken number for the work
\* of somebody else (SKIPPED_DUPLICATE_CLAIM): what the run crash exhibits is not
\* repaired by any later step of the pipeline.  Only the purge of old attempts,
\* which is not part of this module, deletes such a row.
THEOREM ClaimsAreNotTakenOver == Spec => StrandedForGood
<1> DEFINE Step == \A d \in Deliveries :
                      Stranded(d) => /\ Stranded(d)'
                                     /\ claimed'[d] = claimed[d]
                                     /\ attemptCount'[d] = attemptCount[d]
                                     /\ status'[d] \in {status[d], "PENDING"}
<1>1. TypeOK /\ ClaimProtocolInv /\ [Next]_vars => Step
  <2> SUFFICES ASSUME TypeOK, ClaimProtocolInv, [Next]_vars, NEW d \in Deliveries, Stranded(d)
               PROVE  /\ Stranded(d)'
                      /\ claimed'[d] = claimed[d]
                      /\ attemptCount'[d] = attemptCount[d]
                      /\ status'[d] \in {status[d], "PENDING"}
    OBVIOUS
  <2>1. claimed'[d] = claimed[d] /\ attemptCount'[d] = attemptCount[d]
    BY AttemptStep DEF Stranded
  <2>2. ASSUME NEW w \in Workers, InFlight(w)', DeliveryOf(w)' = d PROVE FALSE
    <3>1. DeliveryOf(w) = d
      BY <2>2, InFlightStep DEF DeliveryOf
    <3>2. wpc[w] = "claim" /\ AttemptNo(w) \notin claimed[d]
      BY <2>2, <3>1, InFlightStep DEF Stranded
    <3>3. AttemptNo(w) = attemptCount[d] + 1
      BY <3>1, <3>2, FreeNumber DEF AttemptNo
    <3> QED BY <3>2, <3>3 DEF Stranded
  <2>3. Stranded(d)'
    BY <2>1, <2>2 DEF Stranded
  <2>4. status'[d] \in {status[d], "PENDING"}
    <3>1. ASSUME NEW e \in Events, Publish(e) PROVE status'[d] \in {status[d], "PENDING"}
      BY <3>1 DEF Publish
    <3>2. ASSUME NEW e \in Events, NEW p \in Endpoints, Ping(e, p)
          PROVE  status'[d] \in {status[d], "PENDING"}
      BY <3>2 DEF Ping, TypeOK
    <3>3. ASSUME NEW c \in Deliveries, Redeliver(c) PROVE status'[d] \in {status[d], "PENDING"}
      BY <3>3 DEF Redeliver, TypeOK
    <3>4. ASSUME NEW w \in Workers, Claim(w) \/ ClaimReplyLost(w) \/ RecordAttempt(w)
          PROVE  status' = status
      BY <3>4 DEF Claim, ClaimReplyLost, RecordAttempt
    <3>5. ASSUME NEW w \in Workers, WriteDelivery(w) PROVE status'[d] = status[d]
      <4>1. DeliveryOf(w) # d
        BY <3>5 DEF WriteDelivery, Stranded, InFlight, InFlightPC
      <4> QED BY <3>5, <4>1 DEF WriteDelivery, TypeOK
    <3> QED BY <3>1, <3>2, <3>3, <3>4, <3>5, StepEffect
  <2> QED BY <2>1, <2>3, <2>4
<1>2. [][Step]_vars => StrandedForGood
  BY PTL DEF StrandedForGood
<1> QED BY <1>1, <1>2, ProtocolInvariant, PTL DEF Spec
=============================================================================
