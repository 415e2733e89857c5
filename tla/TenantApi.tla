----------------------------- MODULE TenantApi -----------------------------
(***************************************************************************)
(* Requests of one tenant to the API: ApiKeyGuard authenticates, the       *)
(* publish rate limiter counts, EventsService.publish inserts under        *)
(* UNIQUE(tenant_id, idempotency_key), ApiKeysService.rotate replaces the  *)
(* key.  One action is one Redis call or one SQL statement of a            *)
(* transaction under READ COMMITTED, PostgreSQL's default: an INSERT waits *)
(* for an uncommitted row with the same unique value, an UPDATE for the    *)
(* locks on the rows of its snapshot, whose condition it then re-evaluates.*)
(*                                                                         *)
(* A request makes one call; its name stands for the UUID of the event it  *)
(* creates.  The fan-out of an event is modelled in DeliveryPipeline.  The *)
(* tenant is never suspended: no code of the repository does that.         *)
(***************************************************************************)
EXTENDS Naturals, FiniteSets

CONSTANTS
    Requests,   \* requests of the tenant's clients
    IdemKeys,   \* idempotency keys they publish under
    Keys,       \* API keys ever generated
    FirstKey,   \* the one issued with the tenant
    Limit,      \* HR_RATE_LIMIT_..._PER_MIN of the tenant's plan; 0 turns the limiter off
    Env,        \* the faults that may happen
    None

ASSUME ApiAssumption ==
    /\ FirstKey \in Keys
    /\ Limit \in Nat \ {0}
    /\ Env \subseteq {"redisError", "storeError"}
    /\ None \notin Requests \cup IdemKeys

VARIABLES
    keys,       \* api_keys.status, "ABSENT" before the key exists
    graceOver,  \* GRACE keys whose expires_at has passed
    locked,     \* the transaction that holds the lock on a key's row
    events,     \* the committed event of an idempotency key
    inserting,  \* the open transaction that has inserted an event for it
    count,      \* hr:rl:<tenant>, 0 when absent
    armed,      \* ... has a TTL
    pc,         \* the await a request is at
    cred,       \* the API key it came with
    ikey,       \* its idempotency key; None for a rotation
    snap,       \* rows the snapshot of its UPDATE found
    reply       \* the response

keyVars   == <<keys, graceOver, locked>>
eventVars == <<events, inserting>>
rateVars  == <<count, armed>>
reqVars   == <<cred, ikey, snap>>
vars      == <<keyVars, eventVars, rateVars, pc, reqVars, reply>>

KeyStatus == {"ABSENT", "ACTIVE", "GRACE", "REVOKED"}

PCs == {"new", "guard", "revoke", "consume", "insert", "commit", "lookup",
        "rotScan", "rotLock", "rotCommit", "done"}

Codes == {"none", "201", "202", "400", "401", "409", "413", "429", "500"}

-----------------------------------------------------------------------------
\* TenantsService.create has issued the first key.
Init ==
    /\ keys = [k \in Keys |-> IF k = FirstKey THEN "ACTIVE" ELSE "ABSENT"]
    /\ graceOver = {}
    /\ locked = [k \in Keys |-> None]
    /\ events = [i \in IdemKeys |-> None]
    /\ inserting = [i \in IdemKeys |-> None]
    /\ count = 0
    /\ armed = FALSE
    /\ pc = [r \in Requests |-> "new"]
    /\ cred = [r \in Requests |-> FirstKey]
    /\ ikey = [r \in Requests |-> None]
    /\ snap = [r \in Requests |-> {}]
    /\ reply = [r \in Requests |-> [code |-> "none", event |-> None]]

Goto(r, l) == pc' = [pc EXCEPT ![r] = l]

\* The request ends; only 202 and 409 name an event.
Respond(r, c, e) ==
    /\ Goto(r, "done")
    /\ reply' = [reply EXCEPT ![r] = [code |-> c, event |-> e]]

\* A client sends a publish, or a rotation, with a key it was once given.
Arrive(r, k, i) ==
    /\ pc[r] = "new"
    /\ keys[k] # "ABSENT"
    /\ cred' = [cred EXCEPT ![r] = k]
    /\ ikey' = [ikey EXCEPT ![r] = i]
    /\ Goto(r, "guard")
    /\ UNCHANGED <<keyVars, eventVars, rateVars, snap, reply>>

-----------------------------------------------------------------------------
(* ApiKeyGuard *)

GuardRead(r) ==
    LET k == cred[r]
    IN  /\ pc[r] = "guard"
        /\ \/ /\ keys[k] = "REVOKED"
              /\ Respond(r, "401", None)
           \/ /\ keys[k] = "GRACE" /\ k \in graceOver
              /\ Goto(r, "revoke")
              /\ UNCHANGED reply
           \/ /\ keys[k] = "ACTIVE" \/ (keys[k] = "GRACE" /\ k \notin graceOver)
              /\ Goto(r, IF ikey[r] = None THEN "rotScan" ELSE "consume")
              /\ UNCHANGED reply
        /\ UNCHANGED <<keyVars, eventVars, rateVars, reqVars>>

\* Wrong on purpose: a status the column does not have.
GuardExpires(r) ==
    /\ pc[r] = "revoke"
    /\ keys' = [keys EXCEPT ![cred[r]] = "EXPIRED"]
    /\ Respond(r, "401", None)
    /\ UNCHANGED <<graceOver, locked, eventVars, rateVars, reqVars>>

\* The key's grace is over: it is revoked now, whatever happened since it was
\* read.  The reply of the UPDATE may be lost with the connection.
GuardRevoke(r) ==
    /\ pc[r] = "revoke"
    /\ keys' = [keys EXCEPT ![cred[r]] = "REVOKED"]
    /\ \/ Respond(r, "401", None)
       \/ "storeError" \in Env /\ Respond(r, "500", None)
    /\ UNCHANGED <<graceOver, locked, eventVars, rateVars, reqVars>>

\* A query of the request outside its transactions rejects: 500.
QueryError(r) ==
    /\ "storeError" \in Env
    /\ pc[r] \in {"guard", "revoke", "insert", "lookup"}
    /\ Respond(r, "500", None)
    /\ UNCHANGED <<keyVars, eventVars, rateVars, reqVars>>

-----------------------------------------------------------------------------
(* EventsController.publish and PublishRateLimiter.consume *)

\* The idempotency key is missing or too long, or the payload too large.
RejectInput(r) ==
    /\ \/ pc[r] = "consume" /\ Respond(r, "400", None)
       \/ pc[r] = "insert" /\ Respond(r, "413", None)
    /\ UNCHANGED <<keyVars, eventVars, rateVars, reqVars>>

\* Wrong on purpose: the window is never given a TTL.
ConsumeNeverArms(r) ==
    /\ pc[r] = "consume"
    /\ count' = count + 1
    /\ IF count + 1 > Limit
       THEN Respond(r, "429", None)
       ELSE Goto(r, "insert") /\ UNCHANGED reply
    /\ UNCHANGED <<keyVars, eventVars, armed, reqVars>>

\* CONSUME_LUA: INCR, EXPIRE by the first of the window; refused requests count.
Consume(r) ==
    /\ pc[r] = "consume"
    /\ count' = count + 1
    /\ armed' = (armed \/ count = 0)
    /\ IF count + 1 > Limit
       THEN Respond(r, "429", None)
       ELSE Goto(r, "insert") /\ UNCHANGED reply
    /\ UNCHANGED <<keyVars, eventVars, reqVars>>

\* The call rejects, the script having run or not: the request is let through.
ConsumeError(r) ==
    /\ "redisError" \in Env
    /\ pc[r] = "consume"
    /\ \/ UNCHANGED rateVars
       \/ count' = count + 1 /\ armed' = (armed \/ count = 0)
    /\ Goto(r, "insert")
    /\ UNCHANGED <<keyVars, eventVars, reqVars, reply>>

\* The 60 second window ends.
WindowEnds ==
    /\ armed
    /\ count' = 0
    /\ armed' = FALSE
    /\ UNCHANGED <<keyVars, eventVars, pc, reqVars, reply>>

-----------------------------------------------------------------------------
(* EventsService.publish *)

\* Wrong on purpose: looks for a committed event and inserts without a constraint.
InsertUnchecked(r) ==
    LET i == ikey[r]
    IN  /\ pc[r] = "insert"
        /\ inserting' = [inserting EXCEPT ![i] = IF events[i] # None THEN @ ELSE r]
        /\ Goto(r, IF events[i] # None THEN "lookup" ELSE "commit")
        /\ UNCHANGED <<keyVars, events, rateVars, reqVars, reply>>

\* INSERT INTO events: waits for an open transaction with the same key; P2002
\* rolls the transaction back.
InsertEvent(r) ==
    LET i == ikey[r]
    IN  /\ pc[r] = "insert"
        /\ inserting[i] = None
        /\ IF events[i] # None
           THEN Goto(r, "lookup") /\ UNCHANGED inserting
           ELSE Goto(r, "commit") /\ inserting' = [inserting EXCEPT ![i] = r]
        /\ UNCHANGED <<keyVars, events, rateVars, reqVars, reply>>

\* Fan-out, outbox row and COMMIT; the reply may be lost with the connection.
CommitEvent(r) ==
    LET i == ikey[r]
    IN  /\ pc[r] = "commit"
        /\ events' = [events EXCEPT ![i] = r]
        /\ inserting' = [inserting EXCEPT ![i] = None]
        /\ \/ Respond(r, "202", r)
           \/ "storeError" \in Env /\ Respond(r, "500", None)
        /\ UNCHANGED <<keyVars, rateVars, reqVars>>

\* Wrong on purpose: the connection goes back to the pool inside the transaction.
AbortKeepsRow(r) ==
    /\ "storeError" \in Env
    /\ pc[r] = "commit"
    /\ Respond(r, "500", None)
    /\ UNCHANGED <<keyVars, eventVars, rateVars, reqVars>>

\* A statement fails or the API dies: ROLLBACK.
AbortEvent(r) ==
    /\ "storeError" \in Env
    /\ pc[r] = "commit"
    /\ inserting' = [inserting EXCEPT ![ikey[r]] = None]
    /\ Respond(r, "500", None)
    /\ UNCHANGED <<keyVars, events, rateVars, reqVars>>

\* The conflict path: DUPLICATE_EVENT with the id of the existing event.
LookupEvent(r) ==
    LET e == events[ikey[r]]
    IN  /\ pc[r] = "lookup"
        /\ IF e # None THEN Respond(r, "409", e) ELSE Respond(r, "500", None)
        /\ UNCHANGED <<keyVars, eventVars, rateVars, reqVars>>

-----------------------------------------------------------------------------
(* ApiKeysService.rotate *)

\* updateMany takes its snapshot ...
RotateScan(r) ==
    /\ pc[r] = "rotScan"
    /\ snap' = [snap EXCEPT ![r] = {k \in Keys : keys[k] = "ACTIVE"}]
    /\ Goto(r, "rotLock")
    /\ UNCHANGED <<keyVars, eventVars, rateVars, cred, ikey, reply>>

\* ... waits for the rows in it and locks those that are still ACTIVE.
RotateLock(r) ==
    /\ pc[r] = "rotLock"
    /\ \A k \in snap[r] : locked[k] = None
    /\ locked' = [k \in Keys |-> IF k \in snap[r] /\ keys[k] = "ACTIVE" THEN r ELSE locked[k]]
    /\ Goto(r, "rotCommit")
    /\ UNCHANGED <<keys, graceOver, eventVars, rateVars, reqVars, reply>>

\* The rows the transaction has updated, and all locks without them.
Demoted(r)  == {k \in Keys : locked[k] = r}
Released(r) == [k \in Keys |-> IF locked[k] = r THEN None ELSE locked[k]]

\* Wrong on purpose: the old keys are revoked at once.
RotateRevokes(r) ==
    /\ pc[r] = "rotCommit"
    /\ \E n \in Keys :
           /\ keys[n] = "ABSENT"
           /\ keys' = [k \in Keys |-> IF k = n THEN "ACTIVE"
                                      ELSE IF k \in Demoted(r) THEN "REVOKED" ELSE keys[k]]
    /\ locked' = Released(r)
    /\ Respond(r, "201", None)
    /\ UNCHANGED <<graceOver, eventVars, rateVars, reqVars>>

\* Wrong on purpose: the new key is created in a transaction of its own, which
\* may not happen.
RotateNotAtomic(r) ==
    /\ pc[r] = "rotCommit"
    /\ keys' = [k \in Keys |-> IF k \in Demoted(r) THEN "GRACE" ELSE keys[k]]
    /\ locked' = Released(r)
    /\ Respond(r, "500", None)
    /\ UNCHANGED <<graceOver, eventVars, rateVars, reqVars>>

\* The new key is inserted; COMMIT, whose reply may be lost: then the rotation took
\* effect and the tenant does not get the new key.
RotateCommit(r) ==
    /\ pc[r] = "rotCommit"
    /\ \E n \in Keys :
           /\ keys[n] = "ABSENT"
           /\ keys' = [k \in Keys |-> IF k = n THEN "ACTIVE"
                                      ELSE IF k \in Demoted(r) THEN "GRACE" ELSE keys[k]]
    /\ locked' = Released(r)
    /\ \/ Respond(r, "201", None)
       \/ "storeError" \in Env /\ Respond(r, "500", None)
    /\ UNCHANGED <<graceOver, eventVars, rateVars, reqVars>>

\* A statement of the rotation fails or the API dies: ROLLBACK.
RotateAbort(r) ==
    /\ "storeError" \in Env
    /\ pc[r] \in {"rotScan", "rotLock", "rotCommit"}
    /\ locked' = Released(r)
    /\ Respond(r, "500", None)
    /\ UNCHANGED <<keys, graceOver, eventVars, rateVars, reqVars>>

\* GRACE_PERIOD_MS have passed since the rotation.
GraceEnds(k) ==
    /\ keys[k] = "GRACE"
    /\ k \notin graceOver
    /\ graceOver' = graceOver \cup {k}
    /\ UNCHANGED <<keys, locked, eventVars, rateVars, pc, reqVars, reply>>

-----------------------------------------------------------------------------
\* The request goes on ...
Handle(r) ==
    \/ GuardRead(r) \/ GuardRevoke(r)
    \/ Consume(r)
    \/ InsertEvent(r) \/ CommitEvent(r) \/ LookupEvent(r)
    \/ RotateScan(r) \/ RotateLock(r) \/ RotateCommit(r)

\* ... or is refused for its content or by an error.
Fail(r) ==
    \/ RejectInput(r) \/ QueryError(r) \/ ConsumeError(r)
    \/ AbortEvent(r) \/ RotateAbort(r)

Next ==
    \/ \E r \in Requests, k \in Keys, i \in IdemKeys \cup {None} : Arrive(r, k, i)
    \/ \E r \in Requests : Handle(r) \/ Fail(r)
    \/ \E k \in Keys : GraceEnds(k)
    \/ WindowEnds

Spec == Init /\ [][Next]_vars

\* A handler goes on unless it waits for a lock, and the clock runs.  Nothing
\* has to fail: an error is not what ends a wait.
FairSpec == Spec /\ WF_vars(WindowEnds) /\ \A r \in Requests : WF_vars(Handle(r))

-----------------------------------------------------------------------------
(* Properties *)

TypeOK ==
    /\ keys \in [Keys -> KeyStatus]
    /\ graceOver \subseteq Keys
    /\ locked \in [Keys -> Requests \cup {None}]
    /\ events \in [IdemKeys -> Requests \cup {None}]
    /\ inserting \in [IdemKeys -> Requests \cup {None}]
    /\ count \in Nat
    /\ armed \in BOOLEAN
    /\ pc \in [Requests -> PCs]
    /\ cred \in [Requests -> Keys]
    /\ ikey \in [Requests -> IdemKeys \cup {None}]
    /\ snap \in [Requests -> SUBSET Keys]
    /\ reply \in [Requests -> [code : Codes, event : Requests \cup {None}]]

\* Publishing is idempotent: however requests under one key race, are rolled back
\* or lose their reply, every 202 and every 409 names the one event that exists.
RepliesAgree ==
    \A r \in Requests :
        reply[r].code \in {"202", "409"} =>
            reply[r].event # None /\ reply[r].event = events[ikey[r]]

\* Rotations that race, are rolled back or lose their reply never leave a tenant
\* without an ACTIVE key.  (When the reply of rotate was lost the tenant does not hold
\* it: what it holds is in GRACE, good for another rotation until that ends.)
KeyAlwaysWorks == \E k \in Keys : keys[k] = "ACTIVE"

\* The grace period is granted: a key goes from ACTIVE to GRACE only, and only a key
\* whose grace is over is revoked, although the guard revokes by a late write.
GraceRespected ==
    [][\A k \in Keys :
          keys'[k] # keys[k] =>
              \/ keys[k] = "ABSENT" /\ keys'[k] = "ACTIVE"
              \/ keys[k] = "ACTIVE" /\ keys'[k] = "GRACE"
              \/ keys[k] = "GRACE" /\ keys'[k] = "REVOKED" /\ k \in graceOver]_vars

\* The rate limit lets the tenant publish again, however many refused requests
\* have been counted.
WindowReopens == []<>(count < Limit)

\* Every request is answered: no transaction waits for ever for another's row.
RequestsEnd == \A r \in Requests : pc[r] # "new" ~> pc[r] = "done"
=============================================================================
