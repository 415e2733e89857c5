-------------------------- MODULE DeliveryHistory --------------------------
(***************************************************************************)
(* The pipeline beside operators who disable and re-enable endpoints.      *)
(* process() completes the job of an inactive endpoint as                  *)
(* SKIPPED_ENDPOINT_INACTIVE and writes nothing, so the tables do not show *)
(* whether that was right: a history variable remembers it.                *)
(***************************************************************************)
EXTENDS DeliveryPipeline

VARIABLE served  \* deliveries whose endpoint was ACTIVE since they were opened

\* The step opens d: the new outbox row is about it.
Opens(d) ==
    /\ Len(outbox') > Len(outbox)
    /\ d[1] = outbox'[Len(outbox')].event
    /\ outbox'[Len(outbox')].delivery \in {None, d}
    /\ status'[d] = "PENDING"

History ==
    served' = {d \in Deliveries : /\ d \in served \/ Opens(d)
                                  /\ endpointStatus'[d[2]] = "ACTIVE"}

SpecH == Init /\ served = {} /\ [][Next /\ History]_<<vars, served>>

\* The runbook ("set it ACTIVE again and redeliver") and endpoint-cache.ts ("a
\* status change is applied up to 30 s late"): an open delivery whose endpoint has
\* been ACTIVE ever since it was published or redelivered is still scheduled.
ServedWhileActive == \A d \in served : status[d] \in Open => Scheduled(d)
=============================================================================
