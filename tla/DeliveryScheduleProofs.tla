---------------------- MODULE DeliveryScheduleProofs ----------------------
(***************************************************************************)
(* "Duplicates are possible, loss is not": what the outbox, the queue and  *)
(* the claims guarantee together, for any number of deliveries, relays and *)
(* slots.  Each theorem names the faults of Env that it excludes; for the  *)
(* faults that do lose a delivery see the run crash.                       *)
(***************************************************************************)
EXTENDS DeliveryPipelineProofs, DeliveryHistory

\* The job of a slot that is about to fail has attempts left, since its delivery
\* was counted first.
BudgetInv ==
    /\ RetryBudget
    /\ \A w \in Workers :
           wpc[w] \in {"setRetry", "fail"} /\ jobs[wjob[w]].owner = w =>
               /\ jobs[wjob[w]].made < attemptCount[DeliveryOf(w)]
               /\ jobs[wjob[w]].made + 1 < MaxAttempts

\* A delivery whose retry time is missing has a slot that is about to store it.
RetryInv ==
    \A d \in Deliveries :
        status[d] = "FAILED_RETRYING" /\ ~nextRetryAt[d] =>
            \E w \in Workers : wpc[w] = "setRetry" /\ DeliveryOf(w) = d

\* Busy slots and active jobs belong to each other.
HoldInv ==
    /\ \A w \in Workers : wpc[w] # "idle" => /\ jobs[wjob[w]].state = "active"
                                             /\ jobs[wjob[w]].owner = w
    /\ \A j \in JobIds : jobs[j].state = "active" =>
           \E w \in Workers : wpc[w] # "idle" /\ wjob[w] = j

\* An attempt that is claimed and not counted is under way.
ClaimHeld ==
    \A d \in Deliveries : attemptCount[d] + 1 \in claimed[d] =>
        \E w \in Workers : InFlight(w) /\ DeliveryOf(w) = d

\* Job suffixes and relays' row numbers are those of outbox rows, and jobs are of
\* deliveries that exist.
RowInv ==
    /\ Len(outbox) <= MaxOutbox
    /\ \A r \in Relays : batch[r] \cup published[r] \subseteq DOMAIN outbox
    /\ \A j \in JobIds : Exists(j) => j[2] <= Len(outbox) /\ status[j[1]] # "ABSENT"
    /\ \A i \in DOMAIN outbox :
           outbox[i].delivery # None => status[outbox[i].delivery] # "ABSENT"

\* While nobody enables endpoints, no cache holds an active one for inactive.
ActiveInv ==
    \A c \in Processes, p \in Endpoints :
        cache[c][p] \notin {"EMPTY", "ACTIVE"} => endpointStatus[p] # "ACTIVE"

\* A slot that will not complete its job as it is now without an attempt.
Useful(w) ==
    \/ wpc[w] \in {"acquire", "read", "setRetry", "fail"} \cup InFlightPC
    \/ wpc[w] \in {"endpoint", "claim"} /\ AttemptNo(w) \notin claimed[DeliveryOf(w)]

\* d will be attempted: its row is going to be loaded as a new job, or a job of it
\* waits or is in useful hands.
ToLoad(d, i) ==
    /\ i \in PendingIds /\ d \in TargetsOf(i)
    /\ ~Exists(JobIdOf(i, d))
    /\ \A r \in Relays : i \notin published[r]

ToWork(d, j) ==
    /\ j[1] = d
    /\ \/ jobs[j].state \in {"wait", "delayed"}
       \/ \E w \in Workers : wpc[w] # "idle" /\ wjob[w] = j /\ Useful(w)

Served(d) == (\E i \in DOMAIN outbox : ToLoad(d, i)) \/ (\E j \in JobIds : ToWork(d, j))

ServedInv ==
    \A d \in Deliveries : status[d] \in Open /\ endpointStatus[d[2]] = "ACTIVE" => Served(d)
-----------------------------------------------------------------------------
(* The retry budget of a job *)

\* Only the write of a delivery counts, and it counts upwards.
LEMMA CountGrows ==
    ASSUME TypeOK, ClaimProtocolInv, [Next]_vars
    PROVE  \A d \in Deliveries : attemptCount[d] <= attemptCount'[d]
<1>1. \A d \in Deliveries : attemptCount[d] \in Nat
  BY DEF TypeOK
<1>2. ASSUME NEW w \in Workers, WriteDelivery(w)
      PROVE  \A d \in Deliveries : attemptCount[d] <= attemptCount'[d]
  <2>1. wpc[w] # "idle" /\ InFlight(w)
    BY <1>2 DEF WriteDelivery, InFlight, InFlightPC
  <2>2. DeliveryOf(w) \in Deliveries /\ AttemptNo(w) = attemptCount[DeliveryOf(w)] + 1
    BY <2>1, BusySlot DEF ClaimProtocolInv, InFlightInv, AttemptNo
  <2>3. attemptCount' = [attemptCount EXCEPT ![DeliveryOf(w)] = AttemptNo(w)]
    BY <1>2 DEF WriteDelivery
  <2> QED BY <1>1, <2>2, <2>3 DEF TypeOK
<1>3. CASE UNCHANGED attemptCount
  BY <1>1, <1>3
<1> QED
  BY <1>2, <1>3, StepEffect
     DEF attemptVars, Publish, Ping, Redeliver, Claim, ClaimReplyLost, RecordAttempt

\* Steps that take no job further and bring no slot to its failure.
LEMMA BudgetCalm ==
    ASSUME TypeOK, TypeOK', BudgetInv,
           \A d \in Deliveries : attemptCount[d] <= attemptCount'[d],
           \A j \in JobIds : /\ jobs'[j].made <= jobs[j].made
                             /\ jobs'[j].owner \in {jobs[j].owner, None},
           \A w \in Workers : wpc'[w] \in {"setRetry", "fail"} =>
               wpc[w] \in {"setRetry", "fail"} /\ wjob'[w] = wjob[w] /\ wjob[w] \in JobIds
    PROVE  BudgetInv'
<1>1. \A j \in JobIds : jobs[j].made \in Nat /\ jobs'[j].made \in Nat /\ j[1] \in Deliveries
  BY DEF TypeOK, Job, JobIds
<1>2. \A d \in Deliveries : attemptCount[d] \in Nat /\ attemptCount'[d] \in Nat
  BY DEF TypeOK
<1>3. MaxAttempts \in Nat /\ None \notin Workers
  BY ConstantAssumption
<1>4. RetryBudget'
  <2> SUFFICES ASSUME NEW j \in JobIds PROVE jobs'[j].made <= attemptCount'[j[1]]
    BY DEF RetryBudget
  <2>1. jobs[j].made <= attemptCount[j[1]]
    BY DEF BudgetInv, RetryBudget
  <2> QED BY <1>1, <1>2, <2>1
<1>5. ASSUME NEW w \in Workers, wpc'[w] \in {"setRetry", "fail"}, jobs'[wjob'[w]].owner = w
      PROVE  /\ jobs'[wjob'[w]].made < attemptCount'[wjob'[w][1]]
             /\ jobs'[wjob'[w]].made + 1 < MaxAttempts
  <2> DEFINE j == wjob[w]
  <2>1. wjob'[w] = j /\ j \in JobIds /\ wpc[w] \in {"setRetry", "fail"}
    BY <1>5
  <2>2. jobs[j].owner = w
    BY <1>3, <1>5, <2>1
  <2>3. jobs[j].made < attemptCount[j[1]] /\ jobs[j].made + 1 < MaxAttempts
    BY <2>1, <2>2 DEF BudgetInv, DeliveryOf
  <2> HIDE DEF j
  <2> QED BY <1>1, <1>2, <1>3, <2>1, <2>3
<1> QED BY <1>4, <1>5 DEF BudgetInv, DeliveryOf

\* A slot fetches a job: it is new to it, and others lose it.
LEMMA BudgetFetch ==
    ASSUME TypeOK, BudgetInv, NEW w \in Workers, NEW j \in JobIds, Fetch(w, j)
    PROVE  BudgetInv'
<1>1. /\ jobs' = [jobs EXCEPT ![j] = [@ EXCEPT !.state = "active", !.owner = w]]
      /\ attemptCount' = attemptCount
      /\ wpc'[w] = "acquire" /\ \A v \in Workers \ {w} : wpc'[v] = wpc[v] /\ wjob'[v] = wjob[v]
  BY DEF Fetch, Goto, dbVars, TypeOK
<1>2. /\ \A k \in JobIds : jobs'[k].made = jobs[k].made
      /\ jobs'[j].owner = w
      /\ \A k \in JobIds \ {j} : jobs'[k] = jobs[k]
  BY <1>1 DEF TypeOK, Job
<1>3. RetryBudget'
  BY <1>1, <1>2 DEF BudgetInv, RetryBudget
<1>4. ASSUME NEW v \in Workers, wpc'[v] \in {"setRetry", "fail"}, jobs'[wjob'[v]].owner = v
      PROVE  /\ jobs'[wjob'[v]].made < attemptCount'[wjob'[v][1]]
             /\ jobs'[wjob'[v]].made + 1 < MaxAttempts
  <2>1. v # w /\ wpc[v] \in {"setRetry", "fail"} /\ wjob'[v] = wjob[v]
    BY <1>1, <1>4
  <2>2. wjob[v] # j
    BY <1>2, <1>4, <2>1
  <2>3. jobs'[wjob[v]] = jobs[wjob[v]]
    BY <1>1, <2>2 DEF TypeOK
  <2> QED BY <1>1, <1>4, <2>1, <2>3 DEF BudgetInv, DeliveryOf
<1> QED BY <1>3, <1>4 DEF BudgetInv, DeliveryOf

\* The delivery is counted before its job is.
LEMMA BudgetFinish ==
    ASSUME TypeOK, TypeOK', ClaimProtocolInv, BudgetInv, NEW w \in Workers, FinishDelivery(w)
    PROVE  BudgetInv'
<1> DEFINE d == DeliveryOf(w)
<1>1. wpc[w] # "idle" /\ InFlight(w)
  BY DEF FinishDelivery, WriteDelivery, InFlight, InFlightPC
<1>2. /\ wjob[w] \in JobIds /\ wjob[w][1] = d /\ d \in Deliveries
      /\ AttemptNo(w) = attemptCount[d] + 1
  BY <1>1, BusySlot DEF ClaimProtocolInv, InFlightInv, AttemptNo, DeliveryOf
<1>3. /\ jobs' = jobs /\ wjob' = wjob
      /\ attemptCount' = [attemptCount EXCEPT ![d] = AttemptNo(w)]
      /\ wpc' = [wpc EXCEPT ![w] = IF StatusAfter(outcome[w], AttemptNo(w)) = "FAILED_RETRYING"
                                   THEN "setRetry" ELSE "complete"]
  BY DEF FinishDelivery, WriteDelivery, Goto
<1>4. \A j \in JobIds : jobs[j].made \in Nat /\ j[1] \in Deliveries
  BY DEF TypeOK, Job, JobIds
<1>5. \A c \in Deliveries : attemptCount[c] \in Nat /\ attemptCount'[c] \in Nat
                            /\ attemptCount[c] <= attemptCount'[c]
  BY <1>2, <1>3 DEF TypeOK
<1>6. attemptCount'[d] = attemptCount[d] + 1 /\ MaxAttempts \in Nat
  BY <1>2, <1>3, ConstantAssumption DEF TypeOK
<1>7. RetryBudget'
  <2> SUFFICES ASSUME NEW j \in JobIds PROVE jobs[j].made <= attemptCount'[j[1]]
    BY <1>3 DEF RetryBudget
  <2>1. jobs[j].made <= attemptCount[j[1]]
    BY DEF BudgetInv, RetryBudget
  <2> QED BY <1>4, <1>5, <2>1
<1>8. ASSUME NEW v \in Workers, wpc'[v] \in {"setRetry", "fail"}, jobs'[wjob'[v]].owner = v
      PROVE  /\ jobs'[wjob'[v]].made < attemptCount'[wjob'[v][1]]
             /\ jobs'[wjob'[v]].made + 1 < MaxAttempts
  <2>1. CASE v = w
    <3>1. StatusAfter(outcome[w], AttemptNo(w)) = "FAILED_RETRYING"
      BY <1>3, <1>8, <2>1 DEF TypeOK
    <3>2. attemptCount[d] + 1 < MaxAttempts
      BY <1>2, <1>5, <1>6, <3>1 DEF StatusAfter
    <3>3. jobs[wjob[w]].made <= attemptCount[d]
      BY <1>2 DEF BudgetInv, RetryBudget
    <3> QED BY <1>2, <1>3, <1>4, <1>5, <1>6, <2>1, <3>2, <3>3
  <2>2. CASE v # w
    <3>1. wpc[v] \in {"setRetry", "fail"} /\ wpc[v] # "idle"
      BY <1>3, <1>8, <2>2 DEF TypeOK
    <3>2. wjob[v] \in JobIds
      BY <3>1, BusySlot
    <3>3. jobs[wjob[v]].made < attemptCount[wjob[v][1]] /\ jobs[wjob[v]].made + 1 < MaxAttempts
      BY <1>3, <1>8, <3>1 DEF BudgetInv, DeliveryOf
    <3> QED BY <1>3, <1>4, <1>5, <3>2, <3>3
  <2> QED BY <2>1, <2>2
<1> QED BY <1>7, <1>8 DEF BudgetInv, DeliveryOf

\* A job that fails has been counted, and it stays in the queue.
LEMMA BudgetFail ==
    ASSUME TypeOK, ClaimProtocolInv, BudgetInv, NEW w \in Workers, JobFail(w)
    PROVE  BudgetInv' /\ \A j \in JobIds : Exists(j) => Exists(j)'
<1> DEFINE j == wjob[w]
<1>1. wpc[w] = "fail" /\ wpc[w] # "idle"
  BY DEF JobFail
<1>2. j \in JobIds /\ j[1] \in Deliveries
  BY <1>1, BusySlot DEF DeliveryOf
<1>3. /\ attemptCount' = attemptCount
      /\ wpc'[w] = "idle" /\ \A v \in Workers \ {w} : wpc'[v] = wpc[v] /\ wjob'[v] = wjob[v]
  BY DEF JobFail, Leave, dbVars, TypeOK
<1>4. CASE jobs[j].owner # w
  <2>1. jobs' = jobs
    BY <1>4 DEF JobFail
  <2>2. RetryBudget'
    BY <1>3, <2>1 DEF BudgetInv, RetryBudget
  <2>3. ASSUME NEW v \in Workers, wpc'[v] \in {"setRetry", "fail"}, jobs'[wjob'[v]].owner = v
        PROVE  /\ jobs'[wjob'[v]].made < attemptCount'[wjob'[v][1]]
               /\ jobs'[wjob'[v]].made + 1 < MaxAttempts
    BY <1>3, <2>1, <2>3 DEF BudgetInv, DeliveryOf
  <2> QED BY <2>1, <2>2, <2>3 DEF BudgetInv, DeliveryOf, Exists
<1>5. CASE jobs[j].owner = w
  <2>1. jobs[j].made < attemptCount[j[1]] /\ jobs[j].made + 1 < MaxAttempts
    BY <1>1, <1>5 DEF BudgetInv, DeliveryOf
  <2>2. jobs' = [jobs EXCEPT ![j] = [jobs[j] EXCEPT !.state = "delayed", !.made = @ + 1,
                                                   !.owner = None]]
    BY <1>5, <2>1 DEF JobFail, AfterFailure
  <2>3. jobs[j] \in Job
    BY <1>2 DEF TypeOK
  <2>4. /\ jobs'[j].made = jobs[j].made + 1 /\ jobs'[j].owner = None /\ jobs'[j].state = "delayed"
        /\ \A k \in JobIds \ {j} : jobs'[k] = jobs[k]
    BY <1>2, <2>2, <2>3 DEF TypeOK, Job
  <2>5. jobs[j].made \in Nat /\ attemptCount[j[1]] \in Nat
    BY <1>2, <2>3 DEF TypeOK, Job
  <2>6. RetryBudget'
    <3>1. jobs'[j].made <= attemptCount'[j[1]]
      BY <1>3, <2>1, <2>4, <2>5
    <3> QED BY <1>3, <2>4, <3>1 DEF BudgetInv, RetryBudget
  <2>7. ASSUME NEW v \in Workers, wpc'[v] \in {"setRetry", "fail"}, jobs'[wjob'[v]].owner = v
        PROVE  /\ jobs'[wjob'[v]].made < attemptCount'[wjob'[v][1]]
               /\ jobs'[wjob'[v]].made + 1 < MaxAttempts
    <3>1. v # w /\ wpc[v] \in {"setRetry", "fail"} /\ wpc[v] # "idle" /\ wjob'[v] = wjob[v]
      BY <1>3, <2>7
    <3>2. wjob[v] \in JobIds
      BY <3>1, BusySlot
    <3>3. wjob[v] # j
      BY <2>4, <2>7, <3>1, ConstantAssumption
    <3> QED BY <1>3, <2>4, <2>7, <3>1, <3>2, <3>3 DEF BudgetInv, DeliveryOf
  <2> QED BY <2>4, <2>6, <2>7 DEF BudgetInv, DeliveryOf, Exists
<1> QED BY <1>4, <1>5

\* addBulk adds waiting jobs under free ids and leaves the others alone.
LEMMA LoadAdds ==
    ASSUME TypeOK, NEW i, jobs' = AddBulk(i)
    PROVE  \A j \in JobIds : \/ jobs'[j] = jobs[j]
                             \/ jobs[j].state = "none" /\ jobs'[j] = NewJob
  BY DEF AddBulk, Exists

\* What happens to jobs, but for fetches and failures: nothing is counted.
LEMMA QuietJobs ==
    ASSUME TypeOK, NEW j \in JobIds, NEW b,
           \/ b = jobs[j] \/ b = NoJob \/ b = NewJob \/ b = AfterStall(jobs[j])
           \/ b = [jobs[j] EXCEPT !.owner = None]
           \/ b = [jobs[j] EXCEPT !.state = "delayed", !.owner = None]
    PROVE  b.made <= jobs[j].made /\ b.owner \in {jobs[j].owner, None}
<1>1. jobs[j] \in Job /\ jobs[j].made \in Nat
  BY DEF TypeOK, Job
<1>2. CASE b = NoJob \/ b = NewJob
  BY <1>1, <1>2 DEF NoJob, NewJob
<1>3. CASE b = AfterStall(jobs[j])
  <2>1. CASE jobs[j].stalled < MaxStalled
    <3>1. b = [jobs[j] EXCEPT !.state = "wait", !.stalled = @ + 1, !.owner = None]
      BY <1>3, <2>1 DEF AfterStall
    <3> QED BY <1>1, <3>1 DEF Job
  <2>2. CASE ~(jobs[j].stalled < MaxStalled)
    <3>1. b = NoJob
      BY <1>3, <2>2 DEF AfterStall
    <3> QED BY <1>2, <3>1
  <2> QED BY <2>1, <2>2
<1>4. CASE b = [jobs[j] EXCEPT !.owner = None]
  BY <1>1, <1>4 DEF Job
<1>5. CASE b = [jobs[j] EXCEPT !.state = "delayed", !.owner = None]
  BY <1>1, <1>5 DEF Job
<1>6. CASE b = jobs[j]
  BY <1>1, <1>6
<1> QED BY <1>2, <1>3, <1>4, <1>5, <1>6

\* Steps that leave the slots alone.
LEMMA BudgetRest ==
    ASSUME TypeOK, TypeOK', ClaimProtocolInv, BudgetInv, UNCHANGED <<wpc, wjob>>,
           \A d \in Deliveries : attemptCount[d] <= attemptCount'[d],
           \A j \in JobIds : jobs'[j] \in {jobs[j], NoJob, NewJob, AfterStall(jobs[j])}
    PROVE  BudgetInv'
<1>1. \A j \in JobIds : jobs'[j].made <= jobs[j].made /\ jobs'[j].owner \in {jobs[j].owner, None}
  BY QuietJobs
<1>2. \A w \in Workers : wpc[w] \in {"setRetry", "fail"} => wjob[w] \in JobIds
  BY BusySlot
<1> QED BY <1>1, <1>2, BudgetCalm

\* The steps of a slot, but for a failing store.
LEMMA BudgetWorker ==
    ASSUME TypeOK, TypeOK', ClaimProtocolInv, BudgetInv, "storeError" \notin Env,
           NEW w \in Workers, Worker(w),
           \A d \in Deliveries : attemptCount[d] <= attemptCount'[d]
    PROVE  BudgetInv'
<1>0. \A v \in Workers : wpc[v] # "idle" => wjob[v] \in JobIds
  BY BusySlot
<1>1. ASSUME NEW j \in JobIds, Fetch(w, j) PROVE BudgetInv'
  BY <1>1, BudgetFetch
<1>2. CASE AcquireSlot(w) \/ ReadDelivery(w) \/ ReadEndpoint(w) \/ Claim(w) \/ Send(w)
           \/ SkipOpenCircuit(w) \/ RecordAttempt(w) \/ UpdateEndpoint(w) \/ SetRetry(w)
  <2>1. /\ jobs' = jobs /\ wjob' = wjob
        /\ \A v \in Workers \ {w} : wpc'[v] = wpc[v]
        /\ wpc'[w] \in {"setRetry", "fail"} => wpc[w] = "setRetry"
    BY <1>2 DEF AcquireSlot, ReadDelivery, ReadEndpoint, Claim, Send, SkipOpenCircuit,
                RecordAttempt, UpdateEndpoint, SetRetry, Goto, TypeOK
  <2>2. \A j \in JobIds : jobs'[j].made <= jobs[j].made /\ jobs'[j].owner \in {jobs[j].owner, None}
    BY <2>1, QuietJobs
  <2>3. \A v \in Workers : wpc'[v] \in {"setRetry", "fail"} =>
            wpc[v] \in {"setRetry", "fail"} /\ wjob'[v] = wjob[v] /\ wjob[v] \in JobIds
    BY <1>0, <2>1
  <2> QED BY <2>2, <2>3, BudgetCalm
<1>3. CASE DeferForTenant(w) \/ JobComplete(w)
  <2>1. wpc[w] # "idle" /\ wjob[w] \in JobIds
    BY <1>0, <1>3 DEF DeferForTenant, JobComplete
  <2>2. /\ wpc'[w] = "idle"
        /\ \A v \in Workers \ {w} : wpc'[v] = wpc[v] /\ wjob'[v] = wjob[v]
    BY <1>3 DEF DeferForTenant, JobComplete, Leave, Goto, TypeOK
  <2>3. \A j \in JobIds : \/ jobs'[j] = jobs[j] \/ jobs'[j] = NoJob
                          \/ jobs'[j] = [jobs[j] EXCEPT !.state = "delayed", !.owner = None]
    <3>1. CASE jobs' = jobs
      BY <3>1
    <3>2. CASE JobComplete(w)
      BY <2>1, <3>2 DEF JobComplete, TypeOK
    <3>3. CASE jobs' = [jobs EXCEPT ![wjob[w]] =
                            [jobs[wjob[w]] EXCEPT !.state = "delayed", !.owner = None]]
      BY <2>1, <3>3 DEF TypeOK
    <3> QED BY <1>3, <3>1, <3>2, <3>3 DEF DeferForTenant
  <2>4. \A j \in JobIds : jobs'[j].made <= jobs[j].made /\ jobs'[j].owner \in {jobs[j].owner, None}
    BY <2>3, QuietJobs
  <2>5. \A v \in Workers : wpc'[v] \in {"setRetry", "fail"} =>
            wpc[v] \in {"setRetry", "fail"} /\ wjob'[v] = wjob[v] /\ wjob[v] \in JobIds
    BY <1>0, <2>2
  <2> QED BY <2>4, <2>5, BudgetCalm
<1>4. CASE FinishDelivery(w)
  BY <1>4, BudgetFinish
<1>5. CASE JobFail(w)
  BY <1>5, BudgetFail
<1> QED
  BY <1>1, <1>2, <1>3, <1>4, <1>5 DEF Worker, Process, HandlerError, ClaimReplyLost, FinishReplyLost

LEMMA BudgetStep ==
    ASSUME TypeOK, ClaimProtocolInv, BudgetInv, "storeError" \notin Env, [Next]_vars
    PROVE  BudgetInv'
<1> USE DEF dbVars, relayVars, workerVars
<1>1. TypeOK' /\ \A d \in Deliveries : attemptCount[d] <= attemptCount'[d]
  BY TypeStep, CountGrows DEF ClaimProtocolInv
<1>2. CASE UNCHANGED vars
  BY <1>1, <1>2, BudgetRest DEF vars
<1>3. CASE Api
  BY <1>1, <1>3, BudgetRest DEF Api, Publish, Ping, Redeliver, PatchEndpoint
<1>4. ASSUME NEW r \in Relays, Relay(r) PROVE BudgetInv'
  <2>1. UNCHANGED <<wpc, wjob>>
    BY <1>4 DEF Relay, TickRead, TickLoad, TickLoadError, TickMark, TickAbort
  <2>2. jobs' = jobs \/ \E i \in batch[r] : jobs' = AddBulk(i)
    BY <1>4 DEF Relay, TickRead, TickLoad, TickLoadError, TickMark, TickAbort
  <2>3. \A j \in JobIds : jobs'[j] \in {jobs[j], NoJob, NewJob, AfterStall(jobs[j])}
    BY <2>2, LoadAdds
  <2> QED BY <1>1, <2>1, <2>3, BudgetRest
<1>5. ASSUME NEW w \in Workers, Worker(w) PROVE BudgetInv'
  BY <1>1, <1>5, BudgetWorker
<1>6. ASSUME NEW c \in Processes, NEW p \in Endpoints, CacheExpire(c, p) PROVE BudgetInv'
  BY <1>1, <1>6, BudgetRest DEF CacheExpire
<1>7. ASSUME NEW c \in Processes, WorkerCrash(c) PROVE BudgetInv'
  <2>1. \A j \in JobIds : \/ jobs'[j] = jobs[j]
                          \/ jobs'[j] = [jobs[j] EXCEPT !.owner = None]
    BY <1>7 DEF WorkerCrash
  <2>2. \A j \in JobIds : jobs'[j].made <= jobs[j].made /\ jobs'[j].owner \in {jobs[j].owner, None}
    BY <2>1, QuietJobs
  <2>3. \A v \in Workers : wpc'[v] \in {"setRetry", "fail"} =>
            wpc[v] \in {"setRetry", "fail"} /\ wjob'[v] = wjob[v] /\ wjob[v] \in JobIds
    BY <1>7, BusySlot DEF WorkerCrash
  <2> QED BY <1>1, <2>2, <2>3, BudgetCalm
<1>8. CASE RedisWipe
  BY <1>1, <1>8, BudgetRest DEF RedisWipe
<1>9. ASSUME NEW j \in JobIds, Stall(j) PROVE BudgetInv'
  <2>1. \A k \in JobIds : jobs'[k] \in {jobs[k], NoJob, NewJob, AfterStall(jobs[k])}
    BY <1>9 DEF Stall, TypeOK
  <2> QED BY <1>1, <1>9, <2>1, BudgetRest DEF Stall
<1> QED
  BY <1>2, <1>3, <1>4, <1>5, <1>6, <1>7, <1>8, <1>9 DEF Next, Redis

\* Unless calls of the store fail in between, BullMQ never counts a job's attempts
\* beyond those of its delivery, so it does not give up before the delivery is
\* DEAD: crashes, lost locks and a wiped Redis included.
THEOREM QueueNeverGivesUp ==
    ASSUME "storeError" \notin Env
    PROVE  Spec => []RetryBudget
<1>1. Init => BudgetInv
  <2> SUFFICES ASSUME Init PROVE BudgetInv
    OBVIOUS
  <2>1. RetryBudget
    BY DEF Init, RetryBudget, NoJob, JobIds
  <2> QED BY <2>1 DEF Init, BudgetInv
<1>2. TypeOK /\ ClaimProtocolInv /\ BudgetInv /\ [Next]_vars => BudgetInv'
  BY BudgetStep
<1>3. BudgetInv => RetryBudget
  BY DEF BudgetInv
<1> QED BY <1>1, <1>2, <1>3, ProtocolInvariant, PTL DEF Spec

-----------------------------------------------------------------------------
(* The time of the next retry *)

LEMMA NoneIsNoJob == None \notin JobIds
BY ConstantAssumption DEF JobIds, Deliveries

LEMMA RetryStep ==
    ASSUME TypeOK, ClaimProtocolInv, RetryInv, {"storeError", "workerCrash"} \cap Env = {},
           [Next]_vars
    PROVE  RetryInv'
<1> USE DEF dbVars, relayVars, workerVars
<1>1. ASSUME UNCHANGED <<status, nextRetryAt>>,
             \A w \in Workers : wpc[w] = "setRetry" => wpc'[w] = "setRetry" /\ wjob'[w] = wjob[w]
      PROVE  RetryInv'
  BY <1>1 DEF RetryInv, DeliveryOf
<1>2. CASE UNCHANGED vars
  BY <1>1, <1>2 DEF vars
<1>3. CASE Api
  <2>1. UNCHANGED <<wpc, wjob>>
    BY <1>3 DEF Api, Publish, Ping, Redeliver, PatchEndpoint
  <2>2. \A d \in Deliveries : \/ status'[d] = "PENDING"
                              \/ status'[d] = status[d] /\ nextRetryAt'[d] = nextRetryAt[d]
    <3> SUFFICES ASSUME NEW d \in Deliveries, status'[d] # "PENDING"
                 PROVE  status'[d] = status[d] /\ nextRetryAt'[d] = nextRetryAt[d]
      OBVIOUS
    <3> DOMAIN status = Deliveries /\ DOMAIN nextRetryAt = Deliveries
      BY DEF TypeOK
    <3>1. ASSUME NEW e \in Events, Publish(e)
          PROVE  status'[d] = status[d] /\ nextRetryAt' = nextRetryAt
      BY <3>1 DEF Publish
    <3>2. ASSUME NEW e \in Events, NEW p \in Endpoints, Ping(e, p)
          PROVE  status'[d] = status[d] /\ nextRetryAt' = nextRetryAt
      BY <3>2 DEF Ping
    <3>3. ASSUME NEW c \in Deliveries, Redeliver(c)
          PROVE  status'[d] = status[d] /\ nextRetryAt'[d] = nextRetryAt[d]
      <4>1. /\ status' = [status EXCEPT ![c] = "PENDING"]
            /\ nextRetryAt' = [nextRetryAt EXCEPT ![c] = FALSE]
        BY <3>3 DEF Redeliver
      <4> QED BY <4>1
    <3>4. ASSUME NEW p \in Endpoints, NEW s \in EndpointStatus, PatchEndpoint(p, s)
          PROVE  status' = status /\ nextRetryAt' = nextRetryAt
      BY <3>4 DEF PatchEndpoint
    <3> QED BY <1>3, <3>1, <3>2, <3>3, <3>4 DEF Api
  <2> QED BY <2>1, <2>2 DEF RetryInv, DeliveryOf
<1>4. ASSUME NEW r \in Relays, Relay(r) PROVE RetryInv'
  BY <1>1, <1>4 DEF Relay, TickRead, TickLoad, TickLoadError, TickMark, TickAbort
<1>5. ASSUME NEW w \in Workers, Worker(w) PROVE RetryInv'
  <2>1. ASSUME wpc[w] # "setRetry", UNCHANGED <<status, nextRetryAt>>,
               \A v \in Workers \ {w} : wpc'[v] = wpc[v] /\ wjob'[v] = wjob[v]
        PROVE  RetryInv'
    BY <1>1, <2>1
  <2>2. ASSUME NEW j \in JobIds, Fetch(w, j) PROVE RetryInv'
    BY <2>1, <2>2 DEF Fetch, Goto, TypeOK
  <2>3. CASE AcquireSlot(w) \/ ReadDelivery(w) \/ ReadEndpoint(w) \/ Claim(w) \/ Send(w)
             \/ SkipOpenCircuit(w) \/ RecordAttempt(w) \/ UpdateEndpoint(w)
    BY <2>1, <2>3 DEF AcquireSlot, ReadDelivery, ReadEndpoint, Claim, Send, SkipOpenCircuit,
                      RecordAttempt, UpdateEndpoint, Goto, TypeOK
  <2>4. CASE DeferForTenant(w) \/ JobComplete(w) \/ JobFail(w)
    BY <2>1, <2>4 DEF DeferForTenant, JobComplete, JobFail, Leave, Goto, TypeOK
  <2>5. CASE FinishDelivery(w)
    <3> DEFINE d == DeliveryOf(w)
               s == StatusAfter(outcome[w], AttemptNo(w))
    <3>1. /\ wpc[w] = "finish" /\ wjob' = wjob
          /\ wpc' = [wpc EXCEPT ![w] = IF s = "FAILED_RETRYING" THEN "setRetry" ELSE "complete"]
          /\ status' = [status EXCEPT ![d] = s]
          /\ nextRetryAt' = [nextRetryAt EXCEPT ![d] = IF s = "SUCCEEDED" THEN FALSE ELSE @]
      BY <2>5 DEF FinishDelivery, WriteDelivery, Goto
    <3> SUFFICES ASSUME NEW c \in Deliveries, status'[c] = "FAILED_RETRYING", ~nextRetryAt'[c]
                 PROVE  \E v \in Workers : wpc'[v] = "setRetry" /\ wjob'[v][1] = c
      BY DEF RetryInv, DeliveryOf
    <3>2. CASE c = d
      <4>1. s = "FAILED_RETRYING"
        BY <3>1, <3>2 DEF TypeOK
      <4>2. wpc'[w] = "setRetry" /\ wjob'[w][1] = c
        BY <3>1, <3>2, <4>1 DEF TypeOK, DeliveryOf
      <4> QED BY <4>2
    <3>3. CASE c # d
      <4>1. status[c] = "FAILED_RETRYING" /\ ~nextRetryAt[c]
        BY <3>1, <3>3 DEF TypeOK
      <4>2. PICK v \in Workers : wpc[v] = "setRetry" /\ DeliveryOf(v) = c
        BY <4>1 DEF RetryInv
      <4> QED BY <3>1, <4>2 DEF DeliveryOf, TypeOK
    <3> QED BY <3>2, <3>3
  <2>6. CASE SetRetry(w)
    <3>1. /\ status' = status /\ wjob' = wjob
          /\ nextRetryAt' = [nextRetryAt EXCEPT ![DeliveryOf(w)] = TRUE]
          /\ \A v \in Workers \ {w} : wpc'[v] = wpc[v]
      BY <2>6 DEF SetRetry, Goto, TypeOK
    <3>2. \A c \in Deliveries : ~nextRetryAt'[c] => c # DeliveryOf(w) /\ ~nextRetryAt[c]
      BY <3>1 DEF TypeOK
    <3> QED BY <3>1, <3>2 DEF RetryInv, DeliveryOf
  <2> QED
    BY <1>5, <2>2, <2>3, <2>4, <2>5, <2>6
       DEF Worker, Process, HandlerError, ClaimReplyLost, FinishReplyLost
<1>6. ASSUME NEW c \in Processes, NEW p \in Endpoints, CacheExpire(c, p) PROVE RetryInv'
  BY <1>1, <1>6 DEF CacheExpire
<1>7. ASSUME NEW c \in Processes, WorkerCrash(c) PROVE RetryInv'
  BY <1>7 DEF WorkerCrash
<1>8. CASE Redis
  BY <1>1, <1>8 DEF Redis, RedisWipe, Stall
<1> QED
  BY <1>2, <1>3, <1>4, <1>5, <1>6, <1>7, <1>8 DEF Next

\* Unless a process dies or a call of the store fails between the two writes, a
\* delivery that waits for its retry, with no slot at work on it, shows the time.
THEOREM RetryTimeIsShown ==
    ASSUME {"storeError", "workerCrash"} \cap Env = {}
    PROVE  Spec => []RetryTimeShown
<1>1. Init => RetryInv
  BY DEF Init, RetryInv
<1>2. TypeOK /\ ClaimProtocolInv /\ RetryInv /\ [Next]_vars => RetryInv'
  BY RetryStep
<1>3. TypeOK /\ ClaimProtocolInv /\ RetryInv => RetryTimeShown
  <2> SUFFICES ASSUME TypeOK, ClaimProtocolInv, RetryInv, NEW d \in Deliveries,
                      status[d] = "FAILED_RETRYING",
                      \A w \in Workers : wjob[w] = None \/ DeliveryOf(w) # d,
                      ~nextRetryAt[d]
               PROVE  FALSE
    BY DEF RetryTimeShown
  <2>1. PICK w \in Workers : wpc[w] = "setRetry" /\ DeliveryOf(w) = d
    BY DEF RetryInv
  <2>2. wjob[w] \in JobIds /\ wjob[w] = None
    BY <2>1, BusySlot
  <2>3. None \notin JobIds
    BY NoneIsNoJob
  <2> QED BY <2>2, <2>3
<1> QED BY <1>1, <1>2, <1>3, ProtocolInvariant, PTL DEF Spec

-----------------------------------------------------------------------------
(* Slots and the jobs they hold, while no process dies and no lock is lost *)

Faults == {"workerCrash", "lockLost", "storeError", "redisWipe"}

\* A step of slot w that keeps its job, one that takes a job, one that gives it back.
Stays(w) == wpc[w] # "idle" /\ wpc'[w] # "idle" /\ UNCHANGED <<jobs, wjob>>

Takes(w) == \E j \in JobIds : Fetch(w, j)

Releases(w) ==
    /\ wpc[w] # "idle" /\ wpc'[w] = "idle"
    /\ \A j \in JobIds \ {wjob[w]} : jobs'[j] = jobs[j]
    /\ jobs'[wjob[w]].state \in {"none", "delayed"}
    /\ jobs'[wjob[w]].state = "none" => wpc[w] = "complete"

\* What the steps of a slot leave alone, and the three ways they treat its job.
LEMMA SlotStep ==
    ASSUME TypeOK, ClaimProtocolInv, BudgetInv, HoldInv, "storeError" \notin Env,
           NEW w \in Workers, Worker(w)
    PROVE  /\ UNCHANGED <<events, outbox, relayVars>>
           /\ \A v \in Workers \ {w} : wpc'[v] = wpc[v] /\ wjob'[v] = wjob[v] /\ seen'[v] = seen[v]
           /\ \A d \in Deliveries : status'[d] = status[d] \/ status'[d] # "ABSENT"
           /\ Stays(w) \/ Takes(w) \/ Releases(w)
<1> USE DEF dbVars, Goto, Leave
<1>1. ASSUME NEW j \in JobIds, Fetch(w, j)
      PROVE  /\ UNCHANGED <<status, events, outbox, relayVars>>
             /\ \A v \in Workers \ {w} : wpc'[v] = wpc[v] /\ wjob'[v] = wjob[v] /\ seen'[v] = seen[v]
             /\ Takes(w)
  BY <1>1 DEF Fetch, Takes, TypeOK
<1>2. CASE AcquireSlot(w) \/ ReadDelivery(w) \/ ReadEndpoint(w) \/ Claim(w) \/ Send(w)
           \/ SkipOpenCircuit(w) \/ RecordAttempt(w) \/ UpdateEndpoint(w) \/ SetRetry(w)
  <2>1. UNCHANGED <<status, events, outbox, relayVars, jobs, wjob>>
    BY <1>2 DEF AcquireSlot, ReadDelivery, ReadEndpoint, Claim, Send, SkipOpenCircuit,
                RecordAttempt, UpdateEndpoint, SetRetry
  <2>2. /\ \A v \in Workers \ {w} : wpc'[v] = wpc[v] /\ seen'[v] = seen[v]
        /\ wpc[w] # "idle" /\ wpc'[w] # "idle"
    BY <1>2 DEF AcquireSlot, ReadDelivery, ReadEndpoint, Claim, Send, SkipOpenCircuit,
                RecordAttempt, UpdateEndpoint, SetRetry, TypeOK
  <2> QED BY <2>1, <2>2 DEF Stays
<1>3. CASE FinishDelivery(w)
  <2>1. /\ UNCHANGED <<events, outbox, relayVars, jobs, wjob, seen>>
        /\ wpc' = [wpc EXCEPT ![w] = IF StatusAfter(outcome[w], AttemptNo(w)) = "FAILED_RETRYING"
                                     THEN "setRetry" ELSE "complete"]
        /\ status' = [status EXCEPT ![DeliveryOf(w)] = StatusAfter(outcome[w], AttemptNo(w))]
        /\ wpc[w] = "finish"
    BY <1>3 DEF FinishDelivery, WriteDelivery
  <2>2. StatusAfter(outcome[w], AttemptNo(w)) # "ABSENT"
    BY DEF StatusAfter
  <2>3. \A d \in Deliveries : status'[d] = status[d] \/ status'[d] # "ABSENT"
    BY <2>1, <2>2 DEF TypeOK
  <2> QED BY <2>1, <2>3 DEF Stays, TypeOK
<1>4. CASE DeferForTenant(w) \/ JobComplete(w) \/ JobFail(w)
  <2>1. /\ UNCHANGED <<status, events, outbox, relayVars>>
        /\ \A v \in Workers \ {w} : wpc'[v] = wpc[v] /\ wjob'[v] = wjob[v] /\ seen'[v] = seen[v]
        /\ wpc[w] # "idle" /\ wpc'[w] = "idle"
    BY <1>4 DEF DeferForTenant, JobComplete, JobFail, TypeOK
  <2>2. wjob[w] \in JobIds /\ jobs[wjob[w]].owner = w /\ jobs[wjob[w]].state = "active"
    BY <2>1, BusySlot DEF HoldInv
  <2>3. jobs[wjob[w]] \in Job
    BY <2>2 DEF TypeOK
  <2>4. CASE DeferForTenant(w)
    <3>1. jobs' = [jobs EXCEPT ![wjob[w]] = [jobs[wjob[w]] EXCEPT !.state = "delayed", !.owner = None]]
      BY <2>2, <2>4 DEF DeferForTenant
    <3>2. [jobs[wjob[w]] EXCEPT !.state = "delayed", !.owner = None].state = "delayed"
      BY <2>3 DEF Job
    <3> QED BY <2>1, <2>2, <3>1, <3>2 DEF Releases, TypeOK
  <2>5. CASE JobComplete(w)
    <3>1. jobs' = [jobs EXCEPT ![wjob[w]] = NoJob] /\ wpc[w] = "complete"
      BY <2>2, <2>5 DEF JobComplete
    <3> QED BY <2>1, <2>2, <3>1 DEF Releases, NoJob, TypeOK
  <2>6. CASE JobFail(w)
    <3>1. jobs' = [jobs EXCEPT ![wjob[w]] = AfterFailure(jobs[wjob[w]])] /\ wpc[w] = "fail"
      BY <2>2, <2>6 DEF JobFail
    <3>2. jobs[wjob[w]].made + 1 < MaxAttempts
      BY <2>2, <3>1 DEF BudgetInv
    <3>3. AfterFailure(jobs[wjob[w]]).state = "delayed"
      BY <2>3, <3>2 DEF AfterFailure, Job
    <3> QED BY <2>1, <2>2, <3>1, <3>3 DEF Releases, TypeOK
  <2> QED BY <1>4, <2>1, <2>4, <2>5, <2>6
<1> QED
  BY <1>1, <1>2, <1>3, <1>4 DEF Worker, Process, HandlerError, ClaimReplyLost, FinishReplyLost

\* The steps of the others leave the slots alone and only add jobs.
Adds == \A j \in JobIds : \/ jobs'[j] = jobs[j]
                          \/ jobs[j].state = "none" /\ jobs'[j] = NewJob

LEMMA OtherStep ==
    ASSUME TypeOK, HoldInv, Faults \cap Env = {}, [Next]_vars
    PROVE  \/ \E w \in Workers : Worker(w)
           \/ /\ UNCHANGED <<attemptCount, claimed, wpc, wjob, seen>>
              /\ Adds
              /\ \/ UNCHANGED <<status, outbox, jobs, relayVars>>
                 \/ Api
                 \/ \E r \in Relays : Relay(r)
<1> USE DEF dbVars, relayVars, workerVars
<1>1. CASE UNCHANGED vars
  BY <1>1 DEF vars, Adds
<1>2. CASE Api
  BY <1>2 DEF Api, Publish, Ping, Redeliver, PatchEndpoint, Adds
<1>3. ASSUME NEW r \in Relays, Relay(r)
      PROVE  UNCHANGED <<attemptCount, claimed, wpc, wjob, seen>> /\ Adds
  <2>1. UNCHANGED <<attemptCount, claimed, wpc, wjob, seen>>
    BY <1>3 DEF Relay, TickRead, TickLoad, TickLoadError, TickMark, TickAbort
  <2>2. jobs' = jobs \/ \E i \in batch[r] : jobs' = AddBulk(i)
    BY <1>3 DEF Relay, TickRead, TickLoad, TickLoadError, TickMark, TickAbort
  <2> QED BY <2>1, <2>2, LoadAdds DEF Adds
<1>4. ASSUME NEW c \in Processes, NEW p \in Endpoints, CacheExpire(c, p)
      PROVE  UNCHANGED <<status, attemptCount, claimed, outbox, jobs, relayVars, wpc, wjob, seen>>
  BY <1>4 DEF CacheExpire
<1>5. ASSUME NEW c \in Processes, WorkerCrash(c) PROVE FALSE
  BY <1>5 DEF WorkerCrash, Faults
<1>6. CASE RedisWipe
  BY <1>6 DEF RedisWipe, Faults
<1>7. ASSUME NEW j \in JobIds, Stall(j) PROVE FALSE
  <2>1. jobs[j].state = "active" /\ jobs[j].owner = None
    BY <1>7 DEF Stall, Faults
  <2>2. \E w \in Workers : jobs[j].owner = w
    BY <2>1 DEF HoldInv
  <2> QED BY <2>1, <2>2, ConstantAssumption
<1> QED
  BY <1>1, <1>2, <1>3, <1>4, <1>5, <1>6, <1>7 DEF Next, Redis, Adds

LEMMA HoldStep ==
    ASSUME TypeOK, ClaimProtocolInv, BudgetInv, HoldInv, Faults \cap Env = {}, [Next]_vars
    PROVE  HoldInv'
<1>1. \A w \in Workers : wpc[w] # "idle" => wjob[w] \in JobIds
  BY BusySlot
<1>2. CASE UNCHANGED <<wpc, wjob>> /\ Adds
  BY <1>1, <1>2 DEF HoldInv, Adds, NewJob
<1>3. ASSUME NEW w \in Workers, Worker(w) PROVE HoldInv'
  <2>1. /\ \A v \in Workers \ {w} : wpc'[v] = wpc[v] /\ wjob'[v] = wjob[v]
        /\ Stays(w) \/ Takes(w) \/ Releases(w)
    BY <1>3, SlotStep DEF Faults
  <2>2. CASE Stays(w)
    BY <2>1, <2>2 DEF HoldInv, Stays
  <2>3. CASE Takes(w)
    <3>1. PICK j \in JobIds : Fetch(w, j)
      BY <2>3 DEF Takes
    <3>2. /\ wpc[w] = "idle" /\ wpc'[w] = "acquire" /\ wjob'[w] = j
          /\ jobs[j].state # "active"
          /\ jobs' = [jobs EXCEPT ![j] = [jobs[j] EXCEPT !.state = "active", !.owner = w]]
      BY <3>1 DEF Fetch, Goto, TypeOK
    <3>3. /\ jobs'[j].state = "active" /\ jobs'[j].owner = w
          /\ \A k \in JobIds \ {j} : jobs'[k] = jobs[k]
      BY <3>2 DEF TypeOK, Job
    <3>4. \A v \in Workers \ {w} : wpc[v] # "idle" => wjob[v] \in JobIds \ {j}
      BY <1>1, <3>2 DEF HoldInv
    <3>5. \A v \in Workers : wpc'[v] # "idle" =>
              jobs'[wjob'[v]].state = "active" /\ jobs'[wjob'[v]].owner = v
      BY <2>1, <3>2, <3>3, <3>4 DEF HoldInv
    <3>6. \A k \in JobIds : jobs'[k].state = "active" =>
              \E v \in Workers : wpc'[v] # "idle" /\ wjob'[v] = k
      BY <2>1, <3>2, <3>3 DEF HoldInv
    <3> QED BY <3>5, <3>6 DEF HoldInv
  <2>4. CASE Releases(w)
    <3>1. \A v \in Workers \ {w} : wpc[v] # "idle" => wjob[v] \in JobIds \ {wjob[w]}
      BY <1>1, <2>4 DEF HoldInv, Releases
    <3> QED BY <2>1, <2>4, <3>1 DEF HoldInv, Releases
  <2> QED BY <2>1, <2>2, <2>3, <2>4
<1> QED BY <1>2, <1>3, OtherStep

\* Only a claim takes a number, its slot is in flight until it counts it.
LEMMA ClaimHeldStep ==
    ASSUME TypeOK, ClaimProtocolInv, BudgetInv, HoldInv, ClaimHeld, Faults \cap Env = {},
           [Next]_vars
    PROVE  ClaimHeld'
<1> USE DEF InFlight, DeliveryOf
<1>1. CASE UNCHANGED <<attemptCount, claimed, wpc, wjob>>
  BY <1>1 DEF ClaimHeld
<1>2. ASSUME NEW w \in Workers, Worker(w) PROVE ClaimHeld'
  <2>1. \A v \in Workers \ {w} : wpc'[v] = wpc[v] /\ wjob'[v] = wjob[v]
    BY <1>2, SlotStep DEF Faults
  <2>2. CASE /\ UNCHANGED <<attemptCount, claimed>>
             /\ wpc[w] \in InFlightPC => wpc'[w] \in InFlightPC /\ wjob'[w] = wjob[w]
    BY <2>1, <2>2 DEF ClaimHeld
  <2>3. CASE Claim(w)
    <3>1. wpc[w] = "claim" /\ wjob' = wjob /\ attemptCount' = attemptCount
      BY <2>3 DEF Claim
    <3>2. CASE claimed' = claimed
      BY <2>2, <3>1, <3>2 DEF InFlightPC
    <3>3. CASE /\ wpc' = [wpc EXCEPT ![w] = "circuit"]
               /\ claimed' = [claimed EXCEPT ![DeliveryOf(w)] = @ \cup {AttemptNo(w)}]
      <4>1. wpc'[w] \in InFlightPC
        BY <3>3 DEF InFlightPC, TypeOK
      <4>2. \A d \in Deliveries : d # wjob[w][1] => claimed'[d] = claimed[d]
        BY <3>3 DEF TypeOK
      <4>3. \A v \in Workers : wpc[v] \in InFlightPC => wpc'[v] \in InFlightPC
        BY <2>1, <4>1
      <4> QED BY <3>1, <4>1, <4>2, <4>3 DEF ClaimHeld
    <3> QED BY <2>3, <3>2, <3>3 DEF Claim, Goto
  <2>4. CASE FinishDelivery(w)
    <3> DEFINE d == DeliveryOf(w)
    <3>1. /\ wjob' = wjob /\ claimed' = claimed
          /\ attemptCount' = [attemptCount EXCEPT ![d] = AttemptNo(w)]
      BY <2>4 DEF FinishDelivery, WriteDelivery
    <3>2. wpc[w] # "idle" /\ InFlight(w)
      BY <2>4 DEF FinishDelivery, WriteDelivery, InFlightPC
    <3>3. d \in Deliveries /\ AttemptNo(w) = attemptCount[d] + 1 /\ attemptCount[d] \in Nat
      BY <3>2, BusySlot DEF ClaimProtocolInv, InFlightInv, AttemptNo
    <3>4. claimed[d] \subseteq 1 .. attemptCount[d] + 1
      BY <3>3 DEF ClaimProtocolInv, HistoryInv, HistoryContiguous
    <3>5. attemptCount'[d] + 1 \notin claimed'[d]
      <4>1. attemptCount'[d] = attemptCount[d] + 1
        BY <3>1, <3>3 DEF TypeOK
      <4> HIDE DEF d
      <4> QED BY <3>1, <3>3, <3>4, <4>1
    <3>6. ASSUME NEW c \in Deliveries, attemptCount'[c] + 1 \in claimed'[c]
          PROVE  \E v \in Workers : wpc'[v] \in InFlightPC /\ wjob'[v][1] = c
      <4>1. c # d /\ attemptCount'[c] = attemptCount[c]
        BY <3>1, <3>5, <3>6 DEF TypeOK
      <4>2. PICK v \in Workers : wpc[v] \in InFlightPC /\ wjob[v][1] = c
        BY <3>1, <3>6, <4>1 DEF ClaimHeld
      <4>3. v # w
        BY <4>1, <4>2
      <4> QED BY <2>1, <3>1, <4>2, <4>3
    <3> QED BY <3>6 DEF ClaimHeld
  <2>5. CASE \/ \E j \in JobIds : Fetch(w, j)
             \/ AcquireSlot(w) \/ DeferForTenant(w) \/ ReadDelivery(w) \/ ReadEndpoint(w)
             \/ SetRetry(w) \/ JobComplete(w) \/ JobFail(w)
    <3>1. UNCHANGED <<attemptCount, claimed>> /\ wpc[w] \notin InFlightPC
      BY <2>5 DEF Fetch, AcquireSlot, DeferForTenant, ReadDelivery, ReadEndpoint, SetRetry,
                  JobComplete, JobFail, dbVars, InFlightPC
    <3> QED BY <2>2, <3>1, SMTT(60)
  <2>6. CASE Send(w) \/ SkipOpenCircuit(w) \/ RecordAttempt(w) \/ UpdateEndpoint(w)
    <3>1. UNCHANGED <<attemptCount, claimed, wjob>> /\ wpc'[w] \in InFlightPC
      BY <2>6 DEF Send, SkipOpenCircuit, RecordAttempt, UpdateEndpoint, Goto, dbVars, InFlightPC,
                  TypeOK
    <3> QED BY <2>2, <3>1
  <2> QED
    BY <1>2, <2>3, <2>4, <2>5, <2>6
       DEF Worker, Process, HandlerError, ClaimReplyLost, FinishReplyLost, Faults
<1> QED BY <1>1, <1>2, OtherStep

\* Rows are appended and keep their targets; jobs come from rows.
LEMMA RowStep ==
    ASSUME TypeOK, ClaimProtocolInv, BudgetInv, HoldInv, RowInv, Faults \cap Env = {}, [Next]_vars
    PROVE  RowInv'
<1>0. /\ Len(outbox) \in Nat /\ DOMAIN outbox = 1 .. Len(outbox)
      /\ \A i \in DOMAIN outbox : outbox[i] \in OutboxRow
      /\ \A j \in JobIds : j \in Deliveries \X (0 .. MaxOutbox)
  BY DEF TypeOK, JobIds
<1>1. ASSUME UNCHANGED <<outbox, batch, published>>,
             \A j \in JobIds : Exists(j)' => Exists(j),
             \A d \in Deliveries : status'[d] = status[d] \/ status'[d] # "ABSENT"
      PROVE  RowInv'
  <2>1. \A j \in JobIds : Exists(j)' => j[2] <= Len(outbox) /\ status'[j[1]] # "ABSENT"
    BY <1>0, <1>1 DEF RowInv
  <2>2. \A i \in DOMAIN outbox :
            outbox[i].delivery # None => status'[outbox[i].delivery] # "ABSENT"
    BY <1>0, <1>1 DEF RowInv, OutboxRow
  <2> QED BY <1>1, <2>1, <2>2 DEF RowInv
<1>2. ASSUME NEW w \in Workers, Worker(w) PROVE RowInv'
  <2>1. /\ UNCHANGED <<outbox, batch, published>>
        /\ \A d \in Deliveries : status'[d] = status[d] \/ status'[d] # "ABSENT"
        /\ Stays(w) \/ Takes(w) \/ Releases(w)
    BY <1>2, SlotStep DEF Faults, relayVars
  <2>2. \A j \in JobIds : Exists(j)' => Exists(j)
    <3>1. CASE Stays(w)
      BY <3>1 DEF Stays, Exists
    <3>2. CASE Takes(w)
      BY <3>2 DEF Takes, Fetch, Exists, TypeOK
    <3>3. CASE Releases(w)
      BY <3>3 DEF Releases, HoldInv, Exists
    <3> QED BY <2>1, <3>1, <3>2, <3>3
  <2> QED BY <1>1, <2>1, <2>2
<1>3. ASSUME NEW e \in Events, NEW d \in Deliveries \cup {None},
             outbox' = Append(outbox, [event |-> e, delivery |-> d, status |-> "PENDING"]),
             Len(outbox) < MaxOutbox, UNCHANGED <<jobs, batch, published>>,
             \A c \in Deliveries : status'[c] = status[c] \/ status'[c] # "ABSENT",
             d # None => status'[d] # "ABSENT"
      PROVE  RowInv'
  <2> DEFINE n == Len(outbox)
  <2>1. /\ Len(outbox') = n + 1 /\ DOMAIN outbox' = 1 .. n + 1
        /\ \A i \in 1 .. n : outbox'[i] = outbox[i]
        /\ outbox'[n + 1] = [event |-> e, delivery |-> d, status |-> "PENDING"]
    BY <1>0, <1>3 DEF TypeOK
  <2>2. n \in Nat /\ n < MaxOutbox /\ MaxOutbox \in Nat /\ DOMAIN outbox = 1 .. n
    BY <1>0, <1>3, ConstantAssumption
  <2>3. \A j \in JobIds : Exists(j) => j[2] <= n /\ status[j[1]] # "ABSENT"
    BY DEF RowInv
  <2>4. \A r \in Relays : batch[r] \cup published[r] \subseteq 1 .. n
    BY <2>2 DEF RowInv
  <2> HIDE DEF n
  <2>5. \A j \in JobIds : Exists(j)' => j[2] <= n + 1 /\ status'[j[1]] # "ABSENT"
    <3> SUFFICES ASSUME NEW j \in JobIds, Exists(j) PROVE j[2] <= n + 1 /\ status'[j[1]] # "ABSENT"
      BY <1>3 DEF Exists
    <3>1. j[1] \in Deliveries /\ j[2] \in Nat
      BY <1>0
    <3> QED BY <1>3, <2>2, <2>3, <3>1
  <2>6. \A i \in 1 .. n + 1 : outbox'[i].delivery # None => status'[outbox'[i].delivery] # "ABSENT"
    <3> SUFFICES ASSUME NEW i \in 1 .. n + 1, outbox'[i].delivery # None
                 PROVE  status'[outbox'[i].delivery] # "ABSENT"
      OBVIOUS
    <3>1. CASE i = n + 1
      BY <1>3, <2>1, <3>1
    <3>2. CASE i \in 1 .. n
      BY <1>0, <1>3, <2>1, <2>2, <3>2 DEF RowInv, OutboxRow
    <3> QED BY <2>2, <3>1, <3>2
  <2>7. \A r \in Relays : batch'[r] \cup published'[r] \subseteq 1 .. n + 1
    BY <1>3, <2>2, <2>4
  <2> QED BY <2>1, <2>2, <2>5, <2>6, <2>7 DEF RowInv
<1>4. CASE Api
  <2> USE DEF relayVars, workerVars
  <2>1. ASSUME NEW e \in Events, Publish(e) PROVE RowInv'
    <3>1. \A c \in Deliveries : status'[c] = status[c] \/ status'[c] # "ABSENT"
      BY <2>1 DEF Publish
    <3> QED BY <1>1, <1>3, <2>1, <3>1 DEF Publish, AddOutbox, Exists
  <2>2. ASSUME NEW e \in Events, NEW p \in Endpoints, Ping(e, p) PROVE RowInv'
    <3>1. <<e, p>> \in Deliveries
      BY DEF Deliveries
    <3>2. /\ \A c \in Deliveries : status'[c] = status[c] \/ status'[c] # "ABSENT"
          /\ status'[<<e, p>>] # "ABSENT"
      BY <2>2, <3>1 DEF Ping, TypeOK
    <3> QED BY <1>3, <2>2, <3>1, <3>2 DEF Ping, AddOutbox
  <2>3. ASSUME NEW d \in Deliveries, Redeliver(d) PROVE RowInv'
    <3>1. d[1] \in Events
      BY DEF Deliveries
    <3>2. /\ \A c \in Deliveries : status'[c] = status[c] \/ status'[c] # "ABSENT"
          /\ status'[d] # "ABSENT"
      BY <2>3 DEF Redeliver, TypeOK
    <3> QED BY <1>3, <2>3, <3>1, <3>2 DEF Redeliver, AddOutbox
  <2>4. ASSUME NEW p \in Endpoints, NEW s \in EndpointStatus, PatchEndpoint(p, s) PROVE RowInv'
    BY <1>1, <2>4 DEF PatchEndpoint, Exists
  <2> QED BY <1>4, <2>1, <2>2, <2>3, <2>4 DEF Api
<1>5. ASSUME NEW r \in Relays, Relay(r) PROVE RowInv'
  <2>1. /\ status' = status
        /\ Len(outbox') = Len(outbox) /\ DOMAIN outbox' = DOMAIN outbox
        /\ \A i \in DOMAIN outbox : outbox'[i].delivery = outbox[i].delivery
    <3>1. CASE TickMark(r)
      <4>1. /\ DOMAIN outbox' = DOMAIN outbox /\ status' = status
            /\ \A i \in DOMAIN outbox : \/ outbox'[i] = outbox[i]
                                        \/ outbox'[i] = [outbox[i] EXCEPT !.status = "PUBLISHED"]
        BY <3>1 DEF TickMark
      <4>2. outbox' \in Seq(OutboxRow)
        BY <1>5, TypeRelay DEF TypeOK
      <4>3. Len(outbox') = Len(outbox)
        BY <1>0, <4>1, <4>2
      <4> QED BY <1>0, <4>1, <4>3 DEF OutboxRow
    <3> QED BY <1>5, <3>1 DEF Relay, TickRead, TickLoad, TickLoadError, TickAbort, dbVars
  <2>2. \A q \in Relays : batch'[q] \cup published'[q] \subseteq DOMAIN outbox
    <3>1. \A q \in Relays : batch[q] \subseteq DOMAIN outbox /\ published[q] \subseteq DOMAIN outbox
      BY DEF RowInv
    <3>2. CASE TickRead(r)
      BY <3>1, <3>2 DEF TickRead, PendingIds, TypeOK
    <3>3. CASE TickLoad(r)
      BY <3>1, <3>3 DEF TickLoad, TypeOK
    <3>4. CASE TickLoadError(r) \/ TickMark(r) \/ TickAbort(r)
      BY <3>1, <3>4, ZenonT(60) DEF TickLoadError, TickMark, TickAbort, TypeOK
    <3> QED BY <1>5, <3>2, <3>3, <3>4 DEF Relay
  <2>3. jobs' = jobs \/ \E i \in batch[r] : jobs' = AddBulk(i)
    BY <1>5 DEF Relay, TickRead, TickLoad, TickLoadError, TickMark, TickAbort
  <2>4. \A j \in JobIds : Exists(j)' => j[2] <= Len(outbox) /\ status[j[1]] # "ABSENT"
    <3> SUFFICES ASSUME NEW j \in JobIds, Exists(j)', ~Exists(j)
                 PROVE  j[2] <= Len(outbox) /\ status[j[1]] # "ABSENT"
      BY DEF RowInv
    <3>1. PICK i \in batch[r] : jobs' = AddBulk(i)
      BY <2>3 DEF Exists
    <3>2. PICK d \in TargetsOf(i) : j = JobIdOf(i, d)
      BY <3>1 DEF AddBulk, Exists
    <3>3. i \in DOMAIN outbox /\ i \in Nat /\ i <= Len(outbox)
      BY <1>0 DEF RowInv
    <3>4. j[1] = d /\ j[2] \in {0, i}
      BY <3>2 DEF JobIdOf
    <3>5. status[d] # "ABSENT"
      BY <3>2, <3>3 DEF TargetsOf, RowInv
    <3> QED BY <1>0, <3>3, <3>4, <3>5
  <2> QED BY <2>1, <2>2, <2>4 DEF RowInv
<1>6. CASE UNCHANGED <<status, outbox, jobs, relayVars>>
  BY <1>1, <1>6 DEF relayVars, Exists
<1> QED BY <1>2, <1>4, <1>5, <1>6, OtherStep

ScheduleInv == BudgetInv /\ HoldInv /\ ClaimHeld /\ RowInv

LEMMA ScheduleInvariant ==
    ASSUME Faults \cap Env = {}
    PROVE  Spec => []ScheduleInv
<1>1. Init => ScheduleInv
  <2> SUFFICES ASSUME Init PROVE ScheduleInv
    OBVIOUS
  <2>1. BudgetInv
    <3>1. RetryBudget
      BY DEF Init, RetryBudget, NoJob, JobIds
    <3> QED BY <3>1 DEF Init, BudgetInv
  <2>2. HoldInv /\ ClaimHeld
    BY DEF Init, HoldInv, ClaimHeld, NoJob
  <2>3. RowInv
    <3>1. outbox = <<>> /\ \A j \in JobIds : ~Exists(j)
      BY DEF Init, Exists, NoJob
    <3>2. \A r \in Relays : batch[r] \cup published[r] = {}
      BY DEF Init
    <3> QED BY <3>1, <3>2, ConstantAssumption DEF RowInv
  <2> QED BY <2>1, <2>2, <2>3 DEF ScheduleInv
<1>2. TypeOK /\ ClaimProtocolInv /\ ScheduleInv /\ [Next]_vars => ScheduleInv'
  <2> SUFFICES ASSUME TypeOK, ClaimProtocolInv, ScheduleInv, [Next]_vars PROVE ScheduleInv'
    OBVIOUS
  <2>1. BudgetInv /\ HoldInv /\ ClaimHeld /\ RowInv /\ "storeError" \notin Env
    BY DEF ScheduleInv, Faults
  <2> QED BY <2>1, BudgetStep, HoldStep, ClaimHeldStep, RowStep DEF ScheduleInv
<1> QED BY <1>1, <1>2, ProtocolInvariant, PTL DEF Spec

-----------------------------------------------------------------------------
(* A delivery is dropped only by a job that completes *)

\* What keeps a delivery coming.
LEMMA ComingKept ==
    ASSUME NEW d \in Deliveries, Coming(d),
           \A j \in JobIds : Exists(j) => Exists(j)',
           \A i \in PendingIds :
               (d \in TargetsOf(i) /\ \A r \in Relays : i \notin published[r]) =>
                   \/ /\ i \in PendingIds' /\ d \in TargetsOf(i)'
                      /\ \A r \in Relays : i \notin published'[r]
                   \/ \E k \in 0 .. MaxOutbox : Exists(<<d, k>>)'
    PROVE  Coming(d)'
<1>1. \A k \in 0 .. MaxOutbox : <<d, k>> \in JobIds
  BY DEF JobIds
<1>2. CASE \E k \in 0 .. MaxOutbox : Exists(<<d, k>>)
  BY <1>1, <1>2 DEF Coming
<1>3. CASE \E i \in PendingIds : d \in TargetsOf(i) /\ \A r \in Relays : i \notin published[r]
  BY <1>3 DEF Coming
<1> QED BY <1>2, <1>3 DEF Coming

\* The job a row is loaded as.
LEMMA RowJob ==
    ASSUME TypeOK, RowInv, NEW i \in DOMAIN outbox, NEW d \in TargetsOf(i)
    PROVE  /\ d \in Deliveries
           /\ JobIdOf(i, d) \in JobIds
           /\ JobIdOf(i, d)[1] = d
           /\ \E k \in 0 .. MaxOutbox : JobIdOf(i, d) = <<d, k>>
           /\ jobs' = AddBulk(i) => jobs'[JobIdOf(i, d)].state # "none"
<1>1. outbox[i] \in OutboxRow /\ i \in Nat /\ i <= MaxOutbox /\ MaxOutbox \in Nat
  <2>1. Len(outbox) \in Nat /\ DOMAIN outbox = 1 .. Len(outbox) /\ outbox[i] \in OutboxRow
    BY DEF TypeOK
  <2>2. Len(outbox) <= MaxOutbox /\ MaxOutbox \in Nat
    BY ConstantAssumption DEF RowInv
  <2> QED BY <2>1, <2>2
<1>2. d \in Deliveries
  BY <1>1 DEF TargetsOf, OutboxRow
<1>3. PICK k \in 0 .. MaxOutbox : JobIdOf(i, d) = <<d, k>>
  BY <1>1 DEF JobIdOf
<1>4. JobIdOf(i, d) \in JobIds
  BY <1>2, <1>3 DEF JobIds
<1>5. jobs' = AddBulk(i) => jobs'[JobIdOf(i, d)].state # "none"
  BY <1>4 DEF AddBulk, Exists, NewJob
<1> QED BY <1>2, <1>3, <1>4, <1>5

\* A delivery that exists stays a target of its rows.
LEMMA TargetKept ==
    ASSUME NEW i, NEW d \in Deliveries, d \in TargetsOf(i),
           outbox'[i].delivery = outbox[i].delivery, outbox'[i].event = outbox[i].event,
           status'[d] = status[d] \/ status'[d] # "ABSENT"
    PROVE  d \in TargetsOf(i)'
BY DEF TargetsOf

\* Requests append rows.
LEMMA ApiKeepsRows ==
    ASSUME TypeOK, Api
    PROVE  \A i \in DOMAIN outbox : i \in DOMAIN outbox' /\ outbox'[i] = outbox[i]
<1>1. outbox' = outbox \/ \E x \in OutboxRow : outbox' = Append(outbox, x)
  <2>1. \A e \in Events, c \in Deliveries \cup {None} :
            [event |-> e, delivery |-> c, status |-> "PENDING"] \in OutboxRow
    BY DEF OutboxRow
  <2> QED BY <2>1 DEF Api, Publish, Ping, Redeliver, PatchEndpoint, AddOutbox, Deliveries
<1>2. Len(outbox) \in Nat /\ DOMAIN outbox = 1 .. Len(outbox)
  BY DEF TypeOK
<1>3. ASSUME NEW x \in OutboxRow, outbox' = Append(outbox, x), NEW i \in 1 .. Len(outbox)
      PROVE  i \in DOMAIN outbox' /\ outbox'[i] = outbox[i]
  BY <1>2, <1>3 DEF TypeOK
<1> QED BY <1>1, <1>2, <1>3

\* Neither the API nor the relays drop a delivery.
LEMMA ComingApi ==
    ASSUME TypeOK, Api, NEW d \in Deliveries, Coming(d)
    PROVE  Coming(d)'
<1> USE DEF relayVars, workerVars
<1>1. /\ UNCHANGED <<jobs, published>>
      /\ status'[d] = status[d] \/ status'[d] # "ABSENT"
  <2>1. DOMAIN status = Deliveries
    BY DEF TypeOK
  <2>2. ASSUME NEW e \in Events, Publish(e)
        PROVE  UNCHANGED <<jobs, published>> /\ status'[d] \in {status[d], "PENDING"}
    BY <2>2 DEF Publish
  <2>3. ASSUME NEW e \in Events, NEW p \in Endpoints, Ping(e, p)
        PROVE  UNCHANGED <<jobs, published>> /\ status'[d] \in {status[d], "PENDING"}
    BY <2>1, <2>3 DEF Ping
  <2>4. ASSUME NEW c \in Deliveries, Redeliver(c)
        PROVE  UNCHANGED <<jobs, published>> /\ status'[d] \in {status[d], "PENDING"}
    BY <2>1, <2>4 DEF Redeliver
  <2>5. ASSUME NEW p \in Endpoints, NEW s \in EndpointStatus, PatchEndpoint(p, s)
        PROVE  UNCHANGED <<jobs, published>> /\ status' = status
    BY <2>5 DEF PatchEndpoint
  <2> QED BY <2>2, <2>3, <2>4, <2>5 DEF Api
<1>2. \A i \in DOMAIN outbox : i \in DOMAIN outbox' /\ outbox'[i] = outbox[i]
  BY ApiKeepsRows
<1>3. \A i \in PendingIds : i \in PendingIds'
  BY <1>2 DEF PendingIds
<1>4. \A i \in PendingIds : d \in TargetsOf(i) => d \in TargetsOf(i)'
  BY <1>1, <1>2, TargetKept DEF PendingIds
<1> QED BY <1>1, <1>3, <1>4, ComingKept DEF Exists

LEMMA ComingRelay ==
    ASSUME TypeOK, RowInv, NEW r \in Relays, Relay(r), NEW d \in Deliveries, Coming(d)
    PROVE  Coming(d)'
<1> USE DEF dbVars, workerVars
<1>1. \A j \in JobIds : Exists(j) => Exists(j)'
  <2>1. jobs' = jobs \/ \E i \in batch[r] : jobs' = AddBulk(i)
    BY DEF Relay, TickRead, TickLoad, TickLoadError, TickMark, TickAbort
  <2> QED BY <2>1, LoadAdds DEF Exists, NewJob
<1> SUFFICES ASSUME NEW i \in PendingIds, d \in TargetsOf(i),
                    \A q \in Relays : i \notin published[q]
             PROVE  \/ /\ i \in PendingIds' /\ d \in TargetsOf(i)'
                       /\ \A q \in Relays : i \notin published'[q]
                    \/ \E k \in 0 .. MaxOutbox : Exists(<<d, k>>)'
  BY <1>1, ComingKept
<1>2. i \in DOMAIN outbox
  BY DEF PendingIds
<1>3. i \in PendingIds' /\ d \in TargetsOf(i)'
  <2>1. status' = status /\ i \in DOMAIN outbox' /\ outbox'[i] = outbox[i]
    BY <1>2 DEF Relay, TickRead, TickLoad, TickLoadError, TickMark, TickAbort
  <2> QED BY <2>1, TargetKept DEF PendingIds
<1>4. CASE \A q \in Relays : i \notin published'[q]
  BY <1>3, <1>4
<1>5. CASE TickLoad(r)
  <2>1. PICK k \in batch[r] : /\ jobs' = AddBulk(k)
                              /\ published' = [published EXCEPT ![r] = @ \cup {k}]
    BY <1>5 DEF TickLoad
  <2>2. CASE k = i
    <3>1. PICK n \in 0 .. MaxOutbox : JobIdOf(i, d) = <<d, n>>
      BY <1>2, RowJob
    <3>2. jobs'[JobIdOf(i, d)].state # "none"
      BY <1>2, <2>1, <2>2, RowJob
    <3> QED BY <3>1, <3>2 DEF Exists
  <2>3. CASE k # i
    BY <1>4, <2>1, <2>3 DEF TypeOK
  <2> QED BY <2>2, <2>3
<1>6. CASE ~TickLoad(r)
  BY <1>4, <1>6 DEF Relay, TickRead, TickLoadError, TickMark, TickAbort, TypeOK
<1> QED BY <1>5, <1>6

\* A slot may drop one by completing its job, and then no slot is in flight with it.
LEMMA ComingSlot ==
    ASSUME TypeOK, ClaimProtocolInv, ScheduleInv, "storeError" \notin Env,
           NEW w \in Workers, Worker(w), NEW d \in Deliveries, Coming(d), ~Coming(d)'
    PROVE  /\ wpc[w] = "complete" /\ wpc'[w] = "idle" /\ DeliveryOf(w) = d
           /\ attemptCount'[d] + 1 \notin claimed'[d]
<1>0. BudgetInv /\ HoldInv /\ ClaimHeld
  BY DEF ScheduleInv
<1>1. /\ UNCHANGED <<outbox, published>>
      /\ status'[d] = status[d] \/ status'[d] # "ABSENT"
      /\ Stays(w) \/ Takes(w) \/ Releases(w)
  BY <1>0, SlotStep DEF relayVars
<1>2. \A i \in PendingIds : i \in PendingIds' /\ (d \in TargetsOf(i) => d \in TargetsOf(i)')
  BY <1>1, TargetKept DEF PendingIds
<1>3. PICK j \in JobIds : Exists(j) /\ ~Exists(j)'
  BY <1>1, <1>2, ComingKept
<1>4. Releases(w) /\ wjob[w] = j
  <2>1. CASE Stays(w)
    BY <1>3, <2>1 DEF Stays, Exists
  <2>2. CASE Takes(w)
    <3>1. PICK k \in JobIds :
              jobs' = [jobs EXCEPT ![k] = [jobs[k] EXCEPT !.state = "active", !.owner = w]]
      BY <2>2 DEF Takes, Fetch
    <3>2. [jobs[k] EXCEPT !.state = "active", !.owner = w].state = "active"
      BY DEF TypeOK, Job
    <3> QED BY <1>3, <3>1, <3>2 DEF Exists, TypeOK
  <2>3. CASE Releases(w)
    BY <1>3, <2>3 DEF Releases, Exists
  <2> QED BY <1>1, <2>1, <2>2, <2>3
<1>5. wpc[w] = "complete"
  BY <1>3, <1>4 DEF Releases, Exists
<1>6. \A k \in JobIds : k # j /\ Exists(k) => Exists(k)'
  BY <1>4 DEF Releases, Exists
<1>7. j[1] = d
  <2> SUFFICES ASSUME j[1] # d PROVE FALSE
    OBVIOUS
  <2>1. \A k \in 0 .. MaxOutbox : <<d, k>> \in JobIds /\ <<d, k>> # j
    BY DEF JobIds
  <2>2. CASE \E k \in 0 .. MaxOutbox : Exists(<<d, k>>)
    BY <1>6, <2>1, <2>2 DEF Coming
  <2>3. CASE \E i \in PendingIds : d \in TargetsOf(i) /\ \A r \in Relays : i \notin published[r]
    BY <1>1, <1>2, <2>3 DEF Coming
  <2> QED BY <2>2, <2>3 DEF Coming
<1>8. attemptCount' = attemptCount /\ claimed' = claimed
  BY <1>5 DEF Worker, Process, Fetch, AcquireSlot, DeferForTenant, ReadDelivery, ReadEndpoint,
              Claim, Send, SkipOpenCircuit, RecordAttempt, UpdateEndpoint, FinishDelivery,
              WriteDelivery, SetRetry, JobComplete, JobFail, HandlerError, ClaimReplyLost,
              FinishReplyLost, RejectingPC, dbVars
<1>9. attemptCount[d] + 1 \notin claimed[d]
  <2> SUFFICES ASSUME attemptCount[d] + 1 \in claimed[d] PROVE FALSE
    OBVIOUS
  <2>1. PICK v \in Workers : InFlight(v) /\ DeliveryOf(v) = d
    BY <1>0 DEF ClaimHeld
  <2>2. wpc[v] # "idle" /\ v # w
    BY <1>5, <2>1 DEF InFlight, InFlightPC
  <2>3. wjob[v] \in JobIds /\ wjob[v] # j /\ Exists(wjob[v])
    BY <1>0, <1>4, <1>5, <2>2, BusySlot DEF HoldInv, Exists
  <2>4. PICK k \in 0 .. MaxOutbox : wjob[v] = <<d, k>>
    BY <2>1, <2>3 DEF JobIds, DeliveryOf
  <2> QED BY <1>6, <2>3, <2>4 DEF Coming
<1> QED BY <1>4, <1>5, <1>7, <1>8, <1>9 DEF Releases, DeliveryOf

\* While no process dies and no lock, call or Redis is lost, an open delivery is
\* left without job and row only by a job that process() completes, and not with a
\* claim that would block its redelivery: operators, caches, the breaker, relay
\* faults, failing addBulk calls and duplicate jobs notwithstanding.
THEOREM DeliveriesDropCleanly ==
    ASSUME Faults \cap Env = {}
    PROVE  Spec => DropsCleanly
<1>1. ASSUME TypeOK, ClaimProtocolInv, ScheduleInv, [Next]_vars, NEW d \in Deliveries,
             Coming(d), ~Coming(d)'
      PROVE  /\ \E w \in Workers : wpc[w] = "complete" /\ wpc'[w] = "idle" /\ DeliveryOf(w) = d
             /\ attemptCount'[d] + 1 \notin claimed'[d]
  <2>1. CASE \E w \in Workers : Worker(w)
    BY <1>1, <2>1, ComingSlot DEF Faults
  <2>2. CASE Api
    BY <1>1, <2>2, ComingApi
  <2>3. CASE \E r \in Relays : Relay(r)
    BY <1>1, <2>3, ComingRelay DEF ScheduleInv
  <2>4. CASE UNCHANGED <<status, outbox, jobs, relayVars>>
    BY <1>1, <2>4 DEF Coming, PendingIds, TargetsOf, Exists, relayVars
  <2> QED BY <1>1, <2>1, <2>2, <2>3, <2>4, OtherStep DEF ScheduleInv
<1>2. TypeOK /\ ClaimProtocolInv /\ ScheduleInv /\ [Next]_vars =>
          [\A d \in Deliveries :
              status'[d] \in Open /\ Coming(d) /\ ~Coming(d)' =>
                  /\ \E w \in Workers : wpc[w] = "complete" /\ wpc'[w] = "idle" /\ DeliveryOf(w) = d
                  /\ attemptCount'[d] + 1 \notin claimed'[d]]_vars
  BY <1>1
<1> QED BY <1>2, ProtocolInvariant, ScheduleInvariant, PTL DEF Spec, DropsCleanly

-----------------------------------------------------------------------------
(* Loss is not possible *)

\* Endpoints are at most disabled, by the breaker.
LEMMA ActiveStep ==
    ASSUME TypeOK, ClaimProtocolInv, ActiveInv, "patch" \notin Env, [Next]_vars
    PROVE  /\ ActiveInv'
           /\ \A p \in Endpoints : endpointStatus'[p] = "ACTIVE" => endpointStatus[p] = "ACTIVE"
<1> DEFINE Goal == /\ ActiveInv'
                   /\ \A p \in Endpoints :
                          endpointStatus'[p] = "ACTIVE" => endpointStatus[p] = "ACTIVE"
<1> SUFFICES Goal
  OBVIOUS
<1> USE DEF dbVars, relayVars, workerVars
<1>1. CASE UNCHANGED <<endpointStatus, cache>>
  BY <1>1 DEF ActiveInv
<1>2. ASSUME endpointStatus' = endpointStatus, NEW c \in Processes, NEW p \in Endpoints, NEW s,
             s \in {"EMPTY", "ACTIVE"} \/ endpointStatus[p] # "ACTIVE",
             cache' = [cache EXCEPT ![c][p] = s]
      PROVE  Goal
  BY <1>2 DEF ActiveInv, TypeOK
<1>3. ASSUME NEW w \in Workers, ReadEndpoint(w) PROVE Goal
  <2> DEFINE c == ProcessOf[w]
             p == DeliveryOf(w)[2]
             s == IF cache[c][p] # "EMPTY" THEN cache[c][p] ELSE endpointStatus[p]
  <2>1. c \in Processes /\ p \in Endpoints
    BY <1>3, BusySlot, ConstantAssumption DEF ReadEndpoint, Deliveries
  <2>2. s \in {"EMPTY", "ACTIVE"} \/ endpointStatus[p] # "ACTIVE"
    BY <2>1 DEF ActiveInv
  <2>3. endpointStatus' = endpointStatus /\ cache' = [cache EXCEPT ![c][p] = s]
    BY <1>3 DEF ReadEndpoint
  <2> HIDE DEF c, p, s, Goal
  <2> QED BY <1>2, <2>1, <2>2, <2>3
<1>4. ASSUME NEW w \in Workers, UpdateEndpoint(w) PROVE Goal
  <2> DEFINE c == ProcessOf[w]
             p == DeliveryOf(w)[2]
  <2>1. c \in Processes /\ p \in Endpoints
    BY <1>4, BusySlot, ConstantAssumption DEF UpdateEndpoint, Deliveries
  <2>2. \/ UNCHANGED <<endpointStatus, cache>>
        \/ /\ endpointStatus' = [endpointStatus EXCEPT ![p] = "DISABLED_AUTO"]
           /\ cache' = [cache EXCEPT ![c][p] = "EMPTY"]
    BY <1>4 DEF UpdateEndpoint
  <2>3. CASE /\ endpointStatus' = [endpointStatus EXCEPT ![p] = "DISABLED_AUTO"]
             /\ cache' = [cache EXCEPT ![c][p] = "EMPTY"]
    <3> HIDE DEF c, p
    <3>1. \A e \in Endpoints : endpointStatus'[e] = "ACTIVE" => endpointStatus[e] = "ACTIVE"
      BY <2>1, <2>3 DEF TypeOK
    <3>2. \A k \in Processes, e \in Endpoints : cache'[k][e] \in {cache[k][e], "EMPTY"}
      BY <2>1, <2>3 DEF TypeOK
    <3> QED BY <3>1, <3>2 DEF ActiveInv
  <2> QED BY <1>1, <2>2, <2>3
<1>5. ASSUME NEW c \in Processes, NEW p \in Endpoints, CacheExpire(c, p) PROVE Goal
  BY <1>2, <1>5 DEF CacheExpire
<1>6. ASSUME NEW c \in Processes, WorkerCrash(c) PROVE Goal
  BY <1>6 DEF WorkerCrash, ActiveInv, TypeOK
<1>7. CASE UNCHANGED vars \/ Api \/ Redis \/ \E r \in Relays : Relay(r)
  <2>1. UNCHANGED <<endpointStatus, cache>>
    BY <1>7 DEF vars, Api, Publish, Ping, Redeliver, PatchEndpoint, Redis, RedisWipe, Stall, Relay,
                TickRead, TickLoad, TickLoadError, TickMark, TickAbort
  <2> QED BY <1>1, <2>1
<1>8. ASSUME NEW w \in Workers, Worker(w), ~ReadEndpoint(w), ~UpdateEndpoint(w) PROVE Goal
  <2>1. UNCHANGED <<endpointStatus, cache>>
    BY <1>8 DEF Worker, Process, Fetch, AcquireSlot, DeferForTenant, ReadDelivery, Claim, Send,
                SkipOpenCircuit, RecordAttempt, FinishDelivery, WriteDelivery, SetRetry,
                JobComplete, JobFail, HandlerError, ClaimReplyLost, FinishReplyLost
  <2> QED BY <1>1, <2>1
<1> HIDE DEF Goal
<1> QED BY <1>3, <1>4, <1>5, <1>6, <1>7, <1>8 DEF Next

\* What keeps a row that is going to be loaded, and a job that is going to be worked.
LEMMA LoadKept ==
    ASSUME NEW d \in Deliveries, NEW i \in DOMAIN outbox, ToLoad(d, i),
           i \in DOMAIN outbox', outbox'[i] = outbox[i],
           status'[d] = status[d] \/ status'[d] # "ABSENT",
           jobs'[JobIdOf(i, d)].state = "none",
           \A r \in Relays : i \notin published'[r]
    PROVE  ToLoad(d, i)'
<1>1. i \in PendingIds' /\ d \in TargetsOf(i)'
  BY TargetKept DEF ToLoad, PendingIds
<1>2. JobIdOf(i, d)' = JobIdOf(i, d)
  BY DEF JobIdOf
<1> QED BY <1>1, <1>2 DEF ToLoad, Exists

LEMMA WorkKept ==
    ASSUME NEW d \in Deliveries, NEW j \in JobIds, ToWork(d, j),
           jobs[j].state \in {"wait", "delayed"} => jobs'[j] = jobs[j],
           \A w \in Workers : wpc[w] # "idle" /\ wjob[w] = j /\ Useful(w) =>
               wpc'[w] = wpc[w] /\ wjob'[w] = wjob[w] /\ seen'[w] = seen[w],
           UNCHANGED claimed
    PROVE  ToWork(d, j)'
<1>1. CASE jobs[j].state \in {"wait", "delayed"}
  BY <1>1 DEF ToWork
<1>2. ASSUME NEW w \in Workers, wpc[w] # "idle", wjob[w] = j, Useful(w) PROVE ToWork(d, j)'
  BY <1>2 DEF ToWork, Useful, DeliveryOf, AttemptNo
<1> QED BY <1>1, <1>2 DEF ToWork

\* A request leaves a row for what it opens.
LEMMA ServedNewRow ==
    ASSUME TypeOK, RowInv, NEW e \in Events, NEW d \in Deliveries \cup {None},
           Len(outbox) < MaxOutbox, AddOutbox(e, d), UNCHANGED <<jobs, published>>,
           NEW c \in Deliveries, status'[c] # "ABSENT",
           d = c \/ (d = None /\ c[1] = e /\ status[c] = "ABSENT")
    PROVE  Served(c)'
<1>0. Len(outbox) \in Nat /\ DOMAIN outbox = 1 .. Len(outbox) /\ MaxOutbox \in Nat
  BY ConstantAssumption DEF TypeOK
<1>n. PICK n \in Nat : n = Len(outbox) + 1
  BY <1>0
<1>1. n \in DOMAIN outbox' /\ outbox'[n] = [event |-> e, delivery |-> d, status |-> "PENDING"]
  BY <1>0, <1>n DEF AddOutbox, TypeOK
<1>2. n \in 0 .. MaxOutbox /\ n \in Nat /\ ~(n <= Len(outbox)) /\ n \notin DOMAIN outbox
  BY <1>0, <1>n
<1>3. None \notin Deliveries
  BY ConstantAssumption DEF Deliveries
<1>4. n \in PendingIds' /\ c \in TargetsOf(n)'
  BY <1>1, <1>3 DEF PendingIds, TargetsOf
<1>5. JobIdOf(n, c)' = IF d # None THEN <<c, n>> ELSE <<c, 0>>
  BY <1>1 DEF JobIdOf
<1>6. ~Exists(JobIdOf(n, c)')
  <2>1. <<c, n>> \in JobIds /\ <<c, 0>> \in JobIds
    BY <1>0, <1>2 DEF JobIds
  <2>2. ~Exists(<<c, n>>)
    BY <1>2, <2>1 DEF RowInv
  <2>3. d = None => ~Exists(<<c, 0>>)
    BY <1>3, <2>1 DEF RowInv
  <2> QED BY <1>5, <2>2, <2>3
<1>7. \A r \in Relays : n \notin published'[r]
  BY <1>2 DEF RowInv
<1> QED BY <1>1, <1>4, <1>6, <1>7 DEF Served, ToLoad, Exists

LEMMA ServedApi ==
    ASSUME TypeOK, ClaimProtocolInv, RowInv, Api,
           UNCHANGED <<attemptCount, claimed, wpc, wjob, seen>>,
           NEW d \in Deliveries, status[d] \in Open => Served(d), status'[d] \in Open
    PROVE  Served(d)'
<1> USE DEF relayVars, workerVars
<1>0. UNCHANGED <<jobs, published>>
  BY DEF Api, Publish, Ping, Redeliver, PatchEndpoint
<1>1. \A i \in DOMAIN outbox : i \in DOMAIN outbox' /\ outbox'[i] = outbox[i]
  BY ApiKeepsRows
<1>2. CASE status'[d] = status[d]
  <2>1. CASE \E i \in DOMAIN outbox : ToLoad(d, i)
    <3>1. PICK i \in DOMAIN outbox : ToLoad(d, i)
      BY <2>1
    <3>2. jobs'[JobIdOf(i, d)].state = "none" /\ \A r \in Relays : i \notin published'[r]
      BY <1>0, <3>1 DEF ToLoad, Exists
    <3> QED BY <1>1, <1>2, <3>1, <3>2, LoadKept DEF Served
  <2>2. CASE \E j \in JobIds : ToWork(d, j)
    BY <1>0, <2>2, WorkKept DEF Served
  <2> QED BY <1>2, <2>1, <2>2 DEF Served
<1> SUFFICES ASSUME status'[d] # status[d], status'[d] # "ABSENT"
             PROVE  Served(d)'
  BY <1>2 DEF Open
<1>3. ASSUME NEW e \in Events, Publish(e) PROVE Served(d)'
  <2>1. /\ d[1] = e /\ e \notin events
        /\ AddOutbox(e, None) /\ Len(outbox) < MaxOutbox
    BY <1>3 DEF Publish
  <2>2. status[d] = "ABSENT"
    BY <2>1 DEF ClaimProtocolInv, OwnershipInv
  <2> QED BY <1>0, <2>1, <2>2, ServedNewRow
<1>4. ASSUME NEW e \in Events, NEW p \in Endpoints, Ping(e, p) PROVE Served(d)'
  <2>1. d = <<e, p>> /\ AddOutbox(e, d) /\ Len(outbox) < MaxOutbox
    BY <1>4 DEF Ping, TypeOK
  <2> QED BY <1>0, <2>1, ServedNewRow
<1>5. ASSUME NEW c \in Deliveries, Redeliver(c) PROVE Served(d)'
  <2>1. d = c /\ AddOutbox(d[1], d) /\ Len(outbox) < MaxOutbox /\ d[1] \in Events
    BY <1>5 DEF Redeliver, TypeOK, Deliveries
  <2> QED BY <1>0, <2>1, ServedNewRow
<1>6. ASSUME NEW p \in Endpoints, NEW s \in EndpointStatus, PatchEndpoint(p, s) PROVE FALSE
  BY <1>6 DEF PatchEndpoint
<1> QED BY <1>3, <1>4, <1>5, <1>6 DEF Api

\* A request that opens a delivery, again or for the first time, has it served.
LEMMA ServedOpened ==
    ASSUME TypeOK, ClaimProtocolInv, RowInv, Api, NEW d \in Deliveries, Opens(d)
    PROVE  Served(d)'
<1> USE DEF relayVars, workerVars
<1>0. UNCHANGED <<jobs, published>> /\ status'[d] # "ABSENT"
  BY DEF Api, Publish, Ping, Redeliver, PatchEndpoint, Opens
<1>n. None \notin Deliveries
  BY ConstantAssumption DEF Deliveries
<1>1. ASSUME NEW e \in Events, NEW c \in Deliveries \cup {None}, AddOutbox(e, c)
      PROVE  d[1] = e /\ c \in {None, d}
  <2>1. Len(outbox') = Len(outbox) + 1
    BY <1>1 DEF AddOutbox, TypeOK
  <2>2. outbox'[Len(outbox) + 1] = [event |-> e, delivery |-> c, status |-> "PENDING"]
    BY <1>1 DEF AddOutbox, TypeOK
  <2> QED BY <2>1, <2>2 DEF Opens
<1>2. ASSUME NEW e \in Events, Publish(e) PROVE Served(d)'
  <2>1. e \notin events /\ Len(outbox) < MaxOutbox
    BY <1>2 DEF Publish
  <2>2. AddOutbox(e, None)
    BY <1>2 DEF Publish, Opens, TypeOK
  <2>3. d[1] = e
    BY <1>1, <2>2
  <2>4. status[d] = "ABSENT"
    BY <2>1, <2>3 DEF ClaimProtocolInv, OwnershipInv
  <2> QED BY <1>0, <2>1, <2>2, <2>3, <2>4, ServedNewRow
<1>3. ASSUME NEW e \in Events, NEW p \in Endpoints, Ping(e, p) PROVE Served(d)'
  <2>1. <<e, p>> \in Deliveries /\ AddOutbox(e, <<e, p>>) /\ Len(outbox) < MaxOutbox
    BY <1>3 DEF Ping, Deliveries
  <2>2. d = <<e, p>>
    BY <1>1, <1>n, <2>1
  <2> QED BY <1>0, <2>1, <2>2, ServedNewRow
<1>4. ASSUME NEW c \in Deliveries, Redeliver(c) PROVE Served(d)'
  <2>1. c[1] \in Events /\ AddOutbox(c[1], c) /\ Len(outbox) < MaxOutbox
    BY <1>4 DEF Redeliver, Deliveries
  <2>2. d = c
    BY <1>1, <1>n, <2>1
  <2> QED BY <1>0, <2>1, <2>2, ServedNewRow
<1>5. ASSUME NEW p \in Endpoints, NEW s \in EndpointStatus, PatchEndpoint(p, s) PROVE FALSE
  <2>1. outbox' = outbox /\ Len(outbox) \in Nat
    BY <1>5 DEF PatchEndpoint, TypeOK
  <2> QED BY <2>1 DEF Opens
<1> QED BY <1>2, <1>3, <1>4, <1>5 DEF Api

\* Relays load rows before they mark them, and a loaded row is a waiting job.
LEMMA ServedRelay ==
    ASSUME TypeOK, HoldInv, RowInv, NEW r \in Relays, Relay(r), Adds,
           UNCHANGED <<attemptCount, claimed, wpc, wjob, seen>>,
           NEW d \in Deliveries, Served(d)
    PROVE  Served(d)'
<1> USE DEF dbVars, workerVars
<1>0. status' = status
  BY DEF Relay, TickRead, TickLoad, TickLoadError, TickMark, TickAbort
<1>1. ASSUME NEW j \in JobIds, ToWork(d, j) PROVE Served(d)'
  <2>1. jobs[j].state \in {"wait", "delayed"} => jobs'[j] = jobs[j]
    BY DEF Adds
  <2> QED BY <1>1, <2>1, WorkKept DEF Served
<1>2. ASSUME NEW i \in DOMAIN outbox, ToLoad(d, i) PROVE Served(d)'
  <2> DEFINE j == JobIdOf(i, d)
  <2>1. i \in PendingIds /\ d \in TargetsOf(i) /\ ~Exists(j) /\ \A q \in Relays : i \notin published[q]
    BY <1>2 DEF ToLoad
  <2>2. j \in JobIds /\ j[1] = d /\ (jobs' = AddBulk(i) => jobs'[j].state # "none")
    BY <2>1, RowJob
  <2>3. CASE jobs'[j].state # "none"
    <3>1. PICK k \in JobIds : k = j
      BY <2>2
    <3>2. k[1] = d /\ jobs'[k].state = "wait"
      BY <2>1, <2>2, <2>3, <3>1 DEF Adds, Exists, NewJob
    <3>3. ToWork(d, k)'
      BY <3>2 DEF ToWork
    <3> QED BY <3>3 DEF Served
  <2>4. CASE jobs'[j].state = "none"
    <3>1. i \in DOMAIN outbox' /\ outbox'[i] = outbox[i]
      BY <2>1 DEF Relay, TickRead, TickLoad, TickLoadError, TickMark, TickAbort
    <3>2. \A q \in Relays : i \notin published'[q]
      <4>1. CASE TickLoad(r)
        <5>1. PICK k \in batch[r] : /\ jobs' = AddBulk(k)
                                    /\ published' = [published EXCEPT ![r] = @ \cup {k}]
          BY <4>1 DEF TickLoad
        <5>2. k # i
          BY <2>2, <2>4, <5>1
        <5> QED BY <2>1, <5>1, <5>2 DEF TypeOK
      <4>2. CASE ~TickLoad(r)
        BY <2>1, <4>2 DEF Relay, TickRead, TickLoadError, TickMark, TickAbort, TypeOK
      <4> QED BY <4>1, <4>2
    <3> QED BY <1>0, <1>2, <2>4, <3>1, <3>2, LoadKept DEF Served
  <2> QED BY <2>3, <2>4
<1> QED BY <1>1, <1>2 DEF Served

\* A slot that works on d usefully keeps it served.
LEMMA ServedBy ==
    ASSUME NEW d, NEW w \in Workers, wjob'[w] \in JobIds, wjob'[w][1] = d,
           wpc'[w] # "idle", Useful(w)'
    PROVE  Served(d)'
<1>1. PICK j \in JobIds : j = wjob'[w]
  OBVIOUS
<1>2. ToWork(d, j)'
  BY <1>1 DEF ToWork
<1> QED BY <1>2 DEF Served

\* A cache entry makes process() skip a delivery of an endpoint that is ACTIVE.
SkipsActive(w) ==
    LET p == DeliveryOf(w)[2]
    IN  /\ ReadEndpoint(w)
        /\ endpointStatus[p] = "ACTIVE"
        /\ cache[ProcessOf[w]][p] \notin {"EMPTY", "ACTIVE"}

\* What a slot does with the delivery it works on usefully.
LEMMA ServedOwn ==
    ASSUME TypeOK, ClaimProtocolInv, BudgetInv, HoldInv, ClaimHeld, Faults \cap Env = {},
           NEW w \in Workers, Worker(w), ~SkipsActive(w), wpc[w] # "idle", Useful(w),
           NEW d, d = DeliveryOf(w), endpointStatus[d[2]] = "ACTIVE", status[d] \in Open, status'[d] \in Open
    PROVE  Served(d)'
<1> USE DEF Goto
<1>0. /\ wjob[w] \in JobIds /\ wjob[w][1] = d /\ d \in Deliveries
      /\ jobs[wjob[w]].owner = w
      /\ ProcessOf[w] \in Processes /\ d[2] \in Endpoints
  BY BusySlot, ConstantAssumption DEF HoldInv, DeliveryOf, Deliveries
<1>a. \A v \in Workers \ {w} : wpc'[v] = wpc[v] /\ wjob'[v] = wjob[v]
  BY SlotStep DEF Faults
<1>1. CASE wpc'[w] \in {"read", "setRetry", "fail"} \cup InFlightPC /\ wjob' = wjob
  <2>1. Useful(w)' /\ wpc'[w] # "idle"
    BY <1>1 DEF Useful, InFlightPC
  <2> QED BY <1>0, <1>1, <2>1, ServedBy
<1>2. CASE AcquireSlot(w) \/ Send(w) \/ SkipOpenCircuit(w) \/ RecordAttempt(w)
           \/ UpdateEndpoint(w) \/ SetRetry(w)
  BY <1>1, <1>2 DEF AcquireSlot, Send, SkipOpenCircuit, RecordAttempt, UpdateEndpoint, SetRetry,
                    InFlightPC, TypeOK
<1>3. CASE DeferForTenant(w) \/ JobFail(w)
  <2>1. PICK j \in JobIds : j = wjob[w]
    BY <1>0
  <2>2. jobs'[j].state = "delayed"
    <3>1. Releases(w) \/ Stays(w) \/ Takes(w)
      BY SlotStep DEF Faults
    <3>2. wpc[w] # "complete" /\ wpc'[w] = "idle"
      BY <1>3 DEF DeferForTenant, JobFail, Leave, TypeOK
    <3> QED BY <2>1, <3>1, <3>2 DEF Releases, Stays, Takes, Fetch
  <2>3. ToWork(d, j)'
    BY <1>0, <2>1, <2>2 DEF ToWork
  <2> QED BY <2>3 DEF Served
<1>4. CASE ReadDelivery(w)
  <2>1. /\ wpc'[w] = "endpoint" /\ wjob' = wjob /\ claimed' = claimed
        /\ seen'[w] = attemptCount[d]
    BY <1>4 DEF ReadDelivery, dbVars, TypeOK
  <2>2. CASE attemptCount[d] + 1 \notin claimed[d]
    <3>1. Useful(w)'
      BY <1>0, <2>1, <2>2 DEF Useful, AttemptNo, DeliveryOf
    <3> QED BY <1>0, <2>1, <3>1, ServedBy
  <2>3. CASE attemptCount[d] + 1 \in claimed[d]
    <3>1. PICK v \in Workers : InFlight(v) /\ DeliveryOf(v) = d
      BY <1>0, <2>3 DEF ClaimHeld
    <3>2. v # w /\ wpc[v] # "idle"
      BY <1>4, <3>1 DEF ReadDelivery, InFlight, InFlightPC
    <3>3. wjob'[v] \in JobIds /\ wjob'[v][1] = d /\ wpc'[v] # "idle" /\ wpc'[v] \in InFlightPC
      BY <1>a, <3>1, <3>2, BusySlot DEF InFlight, DeliveryOf
    <3>4. Useful(v)'
      BY <3>3 DEF Useful
    <3> QED BY <3>3, <3>4, ServedBy
  <2> QED BY <2>2, <2>3
<1>5. CASE ReadEndpoint(w)
  <2>1. AttemptNo(w) \notin claimed[d]
    BY <1>5 DEF Useful, ReadEndpoint, InFlightPC
  <2>2. wpc' = [wpc EXCEPT ![w] = "claim"] /\ UNCHANGED <<wjob, seen, claimed>>
    <3>1. cache[ProcessOf[w]][d[2]] \in {"EMPTY", "ACTIVE"}
      BY <1>5 DEF SkipsActive
    <3> QED BY <1>0, <1>5, <3>1 DEF ReadEndpoint, dbVars
  <2>3. Useful(w)' /\ wpc'[w] # "idle"
    BY <2>1, <2>2 DEF Useful, AttemptNo, DeliveryOf, TypeOK
  <2> QED BY <1>0, <2>2, <2>3, ServedBy
<1>6. CASE Claim(w)
  <2>1. AttemptNo(w) \notin claimed[d]
    BY <1>6 DEF Useful, Claim, InFlightPC
  <2>2. wpc' = [wpc EXCEPT ![w] = "circuit"] /\ wjob' = wjob
    BY <1>6, <2>1 DEF Claim
  <2> QED BY <1>1, <2>2 DEF InFlightPC, TypeOK
<1>7. CASE FinishDelivery(w)
  <2>1. /\ wjob' = wjob
        /\ status' = [status EXCEPT ![d] = StatusAfter(outcome[w], AttemptNo(w))]
        /\ wpc' = [wpc EXCEPT ![w] = IF StatusAfter(outcome[w], AttemptNo(w)) = "FAILED_RETRYING"
                                     THEN "setRetry" ELSE "complete"]
    BY <1>7 DEF FinishDelivery, WriteDelivery
  <2>2. StatusAfter(outcome[w], AttemptNo(w)) \in Open
    BY <1>0, <2>1 DEF TypeOK
  <2>3. StatusAfter(outcome[w], AttemptNo(w)) = "FAILED_RETRYING"
    BY <2>2 DEF StatusAfter, Open
  <2>4. wpc'[w] = "setRetry"
    BY <2>1, <2>3 DEF TypeOK
  <2> QED BY <1>1, <2>1, <2>4
<1>8. CASE JobComplete(w)
  BY <1>8 DEF JobComplete, Useful, InFlightPC
<1>9. ASSUME NEW j \in JobIds, Fetch(w, j) PROVE FALSE
  BY <1>9 DEF Fetch
<1> QED
  BY <1>2, <1>3, <1>4, <1>5, <1>6, <1>7, <1>8, <1>9
     DEF Worker, Process, HandlerError, ClaimReplyLost, FinishReplyLost, Faults

LEMMA ServedWorker ==
    ASSUME TypeOK, ClaimProtocolInv, BudgetInv, HoldInv, ClaimHeld, RowInv,
           Faults \cap Env = {}, NEW w \in Workers, Worker(w), ~SkipsActive(w),
           NEW d \in Deliveries, status[d] \in Open => Served(d), status'[d] \in Open,
           endpointStatus[d[2]] = "ACTIVE"
    PROVE  Served(d)'
<1>0. /\ UNCHANGED <<outbox, published>>
      /\ \A v \in Workers \ {w} : wpc'[v] = wpc[v] /\ wjob'[v] = wjob[v] /\ seen'[v] = seen[v]
      /\ \A c \in Deliveries : status'[c] = status[c] \/ status'[c] # "ABSENT"
      /\ Stays(w) \/ Takes(w) \/ Releases(w)
  BY SlotStep, SMTT(60) DEF Faults, relayVars
<1>1. status[d] \in Open
  <2>1. CASE status' = status
    BY <2>1
  <2>2. CASE FinishDelivery(w)
    <3>1. InFlight(w) /\ wpc[w] # "idle"
      BY <2>2 DEF FinishDelivery, WriteDelivery, InFlight, InFlightPC
    <3>2. status[DeliveryOf(w)] \in Open
      BY <3>1 DEF ClaimProtocolInv, InFlightInv
    <3>3. d # DeliveryOf(w) => status'[d] = status[d]
      BY <2>2 DEF FinishDelivery, WriteDelivery, TypeOK
    <3> QED BY <3>2, <3>3
  <2> QED
    BY <2>1, <2>2 DEF Worker, Process, Fetch, AcquireSlot, DeferForTenant, ReadDelivery,
       ReadEndpoint, Claim, Send, SkipOpenCircuit, RecordAttempt, UpdateEndpoint, SetRetry,
       JobComplete, JobFail, HandlerError, ClaimReplyLost, FinishReplyLost, dbVars, Faults
<1>2. ASSUME NEW i \in DOMAIN outbox, ToLoad(d, i) PROVE Served(d)'
  <2>1. JobIdOf(i, d) \in JobIds /\ ~Exists(JobIdOf(i, d))
    BY <1>2, RowJob DEF ToLoad
  <2>2. jobs'[JobIdOf(i, d)].state = "none"
    <3>1. PICK j \in JobIds : j = JobIdOf(i, d) /\ jobs[j].state = "none"
      BY <2>1 DEF Exists
    <3>2. CASE Stays(w)
      BY <3>1, <3>2 DEF Stays
    <3>3. CASE Takes(w)
      BY <3>1, <3>3 DEF Takes, Fetch, TypeOK
    <3>4. CASE Releases(w)
      BY <3>1, <3>4 DEF Releases, HoldInv
    <3> QED BY <1>0, <3>2, <3>3, <3>4
  <2>3. \A r \in Relays : i \notin published'[r]
    BY <1>0, <1>2 DEF ToLoad
  <2> QED BY <1>0, <1>2, <2>2, <2>3, LoadKept DEF Served
<1>3. ASSUME NEW j \in JobIds, j[1] = d, jobs[j].state \in {"wait", "delayed"} PROVE Served(d)'
  <2>1. CASE jobs'[j] = jobs[j]
    <3>1. ToWork(d, j)'
      BY <1>3, <2>1 DEF ToWork
    <3> QED BY <3>1 DEF Served
  <2>2. CASE Fetch(w, j)
    <3>1. wjob'[w] = j /\ wpc'[w] = "acquire"
      BY <2>2 DEF Fetch, Goto, TypeOK
    <3>2. Useful(w)'
      BY <3>1 DEF Useful
    <3> QED BY <1>3, <3>1, <3>2, ServedBy
  <2>3. CASE Releases(w)
    BY <1>3, <2>1, <2>3 DEF Releases, HoldInv
  <2> QED BY <1>0, <2>1, <2>2, <2>3, ZenonT(60) DEF Stays, Takes, Fetch, TypeOK
<1>4. ASSUME NEW v \in Workers, wpc[v] # "idle", wjob[v][1] = d, Useful(v) PROVE Served(d)'
  <2>0. wjob[v] \in JobIds
    BY <1>4, BusySlot
  <2>1. CASE v = w
    BY <1>1, <1>4, <2>1, ServedOwn DEF DeliveryOf
  <2>2. CASE v # w
    <3>1. wpc'[v] = wpc[v] /\ wjob'[v] = wjob[v] /\ seen'[v] = seen[v]
      BY <1>0, <2>2
    <3>2. CASE claimed'[d] = claimed[d]
      <4>1. Useful(v)'
        BY <1>4, <3>1, <3>2 DEF Useful, AttemptNo, DeliveryOf
      <4> QED BY <1>4, <2>0, <3>1, <4>1, ServedBy
    <3>3. CASE claimed'[d] # claimed[d]
      <4>1. Claim(w)
        BY <3>3 DEF Worker, Process, Fetch, AcquireSlot, DeferForTenant, ReadDelivery,
           ReadEndpoint, Send, SkipOpenCircuit, RecordAttempt, UpdateEndpoint, FinishDelivery,
           WriteDelivery, SetRetry, JobComplete, JobFail, HandlerError, ClaimReplyLost,
           FinishReplyLost, dbVars, Faults
      <4>2. /\ wpc[w] = "claim" /\ wjob' = wjob /\ wpc' = [wpc EXCEPT ![w] = "circuit"]
            /\ claimed' = [claimed EXCEPT ![DeliveryOf(w)] = @ \cup {AttemptNo(w)}]
        BY <3>3, <4>1 DEF Claim, Goto
      <4>3. DeliveryOf(w) = d /\ wpc'[w] = "circuit"
        BY <3>3, <4>2 DEF TypeOK
      <4>4. Useful(w)' /\ wpc'[w] # "idle"
        BY <4>3 DEF Useful, InFlightPC
      <4>5. wjob'[w] \in JobIds
        BY <4>2, BusySlot
      <4> QED BY <4>2, <4>3, <4>4, <4>5, ServedBy DEF DeliveryOf
    <3> QED BY <3>2, <3>3
  <2> QED BY <2>1, <2>2
<1>5. ASSUME NEW j \in JobIds, ToWork(d, j) PROVE Served(d)'
  BY <1>3, <1>4, <1>5 DEF ToWork
<1> QED BY <1>1, <1>2, <1>5 DEF Served

\* No step but a skip loses what is served, as long as its endpoint is ACTIVE.
LEMMA ServedKept ==
    ASSUME TypeOK, ClaimProtocolInv, ScheduleInv, [Next]_vars, Faults \cap Env = {},
           \A w \in Workers : ~SkipsActive(w),
           NEW d \in Deliveries, status[d] \in Open => Served(d), status'[d] \in Open,
           endpointStatus[d[2]] = "ACTIVE"
    PROVE  Served(d)'
<1>1. BudgetInv /\ HoldInv /\ ClaimHeld /\ RowInv
  BY DEF ScheduleInv
<1>2. CASE \E w \in Workers : Worker(w)
  BY <1>1, <1>2, ServedWorker
<1>3. CASE UNCHANGED <<attemptCount, claimed, wpc, wjob, seen>> /\ Api
  BY <1>1, <1>3, ServedApi
<1>4. CASE /\ UNCHANGED <<attemptCount, claimed, wpc, wjob, seen>> /\ Adds
           /\ \E r \in Relays : Relay(r)
  <2>1. status' = status
    BY <1>4 DEF Relay, TickRead, TickLoad, TickLoadError, TickMark, TickAbort, dbVars
  <2> QED BY <1>1, <1>4, <2>1, ServedRelay
<1>5. CASE UNCHANGED <<attemptCount, claimed, wpc, wjob, seen, status, outbox, jobs, relayVars>>
  <2>1. Served(d)
    BY <1>5
  <2> QED BY <1>5, <2>1 DEF Served, ToLoad, ToWork, Useful, PendingIds, TargetsOf, JobIdOf,
                            Exists, AttemptNo, DeliveryOf, relayVars
<1> QED BY <1>1, <1>2, <1>3, <1>4, <1>5, OtherStep

\* What is served has a row or a job.
LEMMA ServedIsScheduled ==
    ASSUME HoldInv, NEW d \in Deliveries, Served(d)
    PROVE  Scheduled(d)
<1>1. CASE \E i \in DOMAIN outbox : ToLoad(d, i)
  BY <1>1 DEF ToLoad, Scheduled
<1>2. ASSUME NEW j \in JobIds, ToWork(d, j) PROVE Scheduled(d)
  <2>1. Exists(j)
    BY <1>2 DEF ToWork, HoldInv, Exists
  <2>2. PICK k \in 0 .. MaxOutbox : j = <<d, k>>
    BY <1>2 DEF ToWork, JobIds
  <2> QED BY <2>1, <2>2 DEF Scheduled
<1> QED BY <1>1, <1>2 DEF Served

\* While no process dies, no lock, call or Redis is lost and nobody enables
\* endpoints, an open delivery of an active endpoint always has a pending row or a
\* job: relays that restart or run twice, failing addBulk calls, expiring caches,
\* automatic disabling and redeliveries at any moment notwithstanding.
THEOREM NothingIsLost ==
    ASSUME Faults \cap Env = {}, "patch" \notin Env
    PROVE  Spec => []NoLostDelivery
<1>1. Init => ActiveInv /\ ServedInv
  BY DEF Init, ActiveInv, ServedInv, Open
<1>2. TypeOK /\ ClaimProtocolInv /\ ScheduleInv /\ ActiveInv /\ ServedInv /\ [Next]_vars =>
          ActiveInv' /\ ServedInv'
  <2> SUFFICES ASSUME TypeOK, ClaimProtocolInv, ScheduleInv, ActiveInv, ServedInv, [Next]_vars
               PROVE  ActiveInv' /\ ServedInv'
    OBVIOUS
  <2>1. /\ ActiveInv'
        /\ \A p \in Endpoints : endpointStatus'[p] = "ACTIVE" => endpointStatus[p] = "ACTIVE"
    BY ActiveStep
  <2>2. ASSUME NEW w \in Workers, SkipsActive(w) PROVE FALSE
    <3>1. ProcessOf[w] \in Processes /\ DeliveryOf(w)[2] \in Endpoints
      BY <2>2, BusySlot, ConstantAssumption DEF SkipsActive, ReadEndpoint, Deliveries
    <3> QED BY <2>2, <3>1 DEF SkipsActive, ActiveInv
  <2>3. ASSUME NEW d \in Deliveries, status'[d] \in Open, endpointStatus'[d[2]] = "ACTIVE"
        PROVE  Served(d)'
    <3>1. d[2] \in Endpoints
      BY DEF Deliveries
    <3>2. endpointStatus[d[2]] = "ACTIVE"
      BY <2>1, <2>3, <3>1
    <3>3. status[d] \in Open => Served(d)
      BY <3>2 DEF ServedInv
    <3> QED BY <2>2, <2>3, <3>2, <3>3, ServedKept
  <2> QED BY <2>1, <2>3 DEF ServedInv
<1>3. TypeOK /\ ClaimProtocolInv /\ ScheduleInv /\ ServedInv => NoLostDelivery
  <2> SUFFICES ASSUME TypeOK, ClaimProtocolInv, ScheduleInv, ServedInv,
                      NEW d \in Deliveries, status[d] \in Open, endpointStatus[d[2]] = "ACTIVE"
               PROVE  Scheduled(d)
    BY DEF NoLostDelivery
  <2> QED BY ServedIsScheduled DEF ScheduleInv, ServedInv
<1> QED BY <1>1, <1>2, <1>3, ProtocolInvariant, ScheduleInvariant, PTL DEF Spec

-----------------------------------------------------------------------------
(* Operators who enable endpoints *)

\* The deliveries of the history have active endpoints and are served.
HistoryServed ==
    \A d \in served : /\ d \in Deliveries /\ endpointStatus[d[2]] = "ACTIVE"
                      /\ status[d] \in Open => Served(d)

LEMMA LenIsDomain ==
    ASSUME NEW S, NEW s \in Seq(S), NEW t \in Seq(S), DOMAIN s = DOMAIN t
    PROVE  Len(s) = Len(t)
<1>1. DOMAIN s = 1 .. Len(s) /\ DOMAIN t = 1 .. Len(t) /\ Len(s) \in Nat /\ Len(t) \in Nat
  OBVIOUS
<1>2. ASSUME NEW m \in Nat, NEW n \in Nat, 1 .. m = 1 .. n, m < n PROVE FALSE
  <2>1. n \in 1 .. n
    BY <1>2, SMTT(60)
  <2>2. n \notin 1 .. m
    BY <1>2, SMTT(60)
  <2> QED BY <1>2, <2>1, <2>2
<1> DEFINE m == Len(s)
           n == Len(t)
<1>3. m \in Nat /\ n \in Nat /\ 1 .. m = 1 .. n
  BY <1>1
<1>4. ~(m < n) /\ ~(n < m)
  <2> HIDE DEF m, n
  <2> QED BY <1>2, <1>3
<1>5. m = n
  <2> HIDE DEF m, n
  <2> QED BY <1>3, <1>4
<1> QED BY <1>5

\* Only requests write outbox rows; relays change the rows there are.
LEMMA OutboxStep ==
    ASSUME TypeOK, ClaimProtocolInv, ScheduleInv, Faults \cap Env = {}, [Next]_vars,
           Len(outbox') # Len(outbox)
    PROVE  Api
<1>1. BudgetInv /\ HoldInv
  BY DEF ScheduleInv
<1>2. ASSUME NEW w \in Workers, Worker(w) PROVE FALSE
  <2>1. outbox' = outbox
    BY <1>1, <1>2, SlotStep DEF Faults
  <2> QED BY <2>1
<1>3. ASSUME NEW r \in Relays, Relay(r) PROVE FALSE
  <2>1. outbox' # outbox
    OBVIOUS
  <2>2. TickMark(r)
    BY <1>3, <2>1 DEF Relay, TickRead, TickLoad, TickLoadError, TickAbort, dbVars
  <2>3. DOMAIN outbox' = DOMAIN outbox
    BY <2>2 DEF TickMark
  <2>4. outbox \in Seq(OutboxRow) /\ outbox' \in Seq(OutboxRow)
    BY <1>3, TypeRelay DEF TypeOK
  <2>5. Len(outbox') = Len(outbox)
    BY <2>3, <2>4, LenIsDomain
  <2> QED BY <2>5
<1> QED BY <1>1, <1>2, <1>3, OtherStep

LEMMA HistoryStep ==
    ASSUME TypeOK, ClaimProtocolInv, ScheduleInv, HistoryServed, Faults \cap Env = {},
           [Next /\ History]_<<vars, served>>, [\A w \in Workers : ~SkipsActive(w)]_vars
    PROVE  HistoryServed'
<1>1. CASE UNCHANGED <<vars, served>>
  <2>1. UNCHANGED <<served, endpointStatus, status>>
    BY <1>1 DEF vars, dbVars
  <2>2. \A d : Served(d)' <=> Served(d)
    BY <1>1 DEF vars, dbVars, relayVars, workerVars, Served, ToLoad, ToWork, Useful, PendingIds,
                TargetsOf, JobIdOf, Exists, AttemptNo, DeliveryOf
  <2> QED BY <2>1, <2>2 DEF HistoryServed
<1>2. CASE Next /\ History
  <2> SUFFICES ASSUME NEW d \in served'
               PROVE  /\ d \in Deliveries /\ endpointStatus'[d[2]] = "ACTIVE"
                      /\ status'[d] \in Open => Served(d)'
    BY DEF HistoryServed
  <2>1. d \in Deliveries /\ endpointStatus'[d[2]] = "ACTIVE" /\ (d \in served \/ Opens(d))
    BY <1>2 DEF History
  <2>2. ASSUME NEW w \in Workers, SkipsActive(w) PROVE FALSE
    <3>1. wpc[w] = "endpoint" /\ \E l \in {"claim", "complete"} : wpc' = [wpc EXCEPT ![w] = l]
      BY <2>2 DEF SkipsActive, ReadEndpoint, Goto
    <3>2. wpc' # wpc
      BY <3>1 DEF TypeOK
    <3> QED BY <2>2, <3>2 DEF vars, workerVars
  <2>3. CASE d \in served
    <3>1. endpointStatus[d[2]] = "ACTIVE" /\ (status[d] \in Open => Served(d))
      BY <2>3 DEF HistoryServed
    <3> QED BY <1>2, <2>1, <2>2, <3>1, ServedKept
  <2>4. CASE Opens(d)
    <3>1. Api
      <4>1. Len(outbox) \in Nat
        BY DEF TypeOK
      <4>2. Len(outbox') # Len(outbox)
        BY <2>4, <4>1 DEF Opens
      <4> QED BY <1>2, <4>1, <4>2, OutboxStep
    <3> QED BY <2>1, <2>4, <3>1, ServedOpened DEF ScheduleInv
  <2> QED BY <2>1, <2>3, <2>4
<1> QED BY <1>1, <1>2

\* The run staleSkip has found the only way: while no process dies and no lock,
\* call or Redis is lost, a delivery whose endpoint has been ACTIVE since it was
\* published or redelivered stays scheduled unless a worker takes the endpoint from
\* a cache entry that is older than its activation.  Endpoints are disabled,
\* enabled, pinged and redelivered to at any moment, for any number of slots,
\* relays and caches.
THEOREM OnlyStaleCachesDrop ==
    ASSUME Faults \cap Env = {}
    PROVE  SpecH /\ [][\A w \in Workers : ~SkipsActive(w)]_vars => []ServedWhileActive
<1>1. Init /\ served = {} => HistoryServed
  BY DEF HistoryServed
<1>2. TypeOK /\ ClaimProtocolInv /\ ScheduleInv /\ HistoryServed
          /\ [Next /\ History]_<<vars, served>> /\ [\A w \in Workers : ~SkipsActive(w)]_vars
          => HistoryServed'
  BY HistoryStep
<1>3. ScheduleInv /\ HistoryServed => ServedWhileActive
  BY ServedIsScheduled DEF ScheduleInv, HistoryServed, ServedWhileActive
<1>4. [Next /\ History]_<<vars, served>> => [Next]_vars
  OBVIOUS
<1>5. SpecH => Spec
  BY <1>4, PTL DEF SpecH, Spec
<1> QED BY <1>1, <1>2, <1>3, <1>5, ProtocolInvariant, ScheduleInvariant, PTL DEF SpecH
=============================================================================
