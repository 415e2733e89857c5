------------------------------ MODULE Receiver ------------------------------
(***************************************************************************)
(* The receiver of demo-receiver/server.js: it verifies the signature of a *)
(* webhook, drops a delivery id that it has seen, and processes the rest   *)
(* (the broadcast to the live view stands for the processing).  Handlers   *)
(* do not interleave, except that /hooks/slow waits for a timer between    *)
(* the verification and the rest; the process may end inside a handler.    *)
(*                                                                         *)
(* A request is [id, no, path, signature]: X-Delivery-Id, the number of    *)
(* the attempt (which tells apart requests, and which the receiver does    *)
(* not see), the route and the signature.  The body is determined by the   *)
(* delivery; HookRelay always sends all three headers.                     *)
(***************************************************************************)
EXTENDS Naturals

CONSTANTS
    Ids,         \* delivery ids
    DbPaths,     \* choices of DB_PATH: is it a file? (the default is :memory:)
    EnvSecrets,  \* choices of WEBHOOK_SECRET at a restart
    InsertFails  \* may the INSERT fail for another reason than the key?

ASSUME ReceiverAssumption == DbPaths \subseteq BOOLEAN /\ InsertFails \in BOOLEAN

VARIABLES
    secrets,   \* secrets
    onFile,    \* DB_PATH names a file
    processed, \* processed_delivery_ids
    timers,    \* requests that wait for SLOW_MS
    effects,   \* history: how often each delivery was processed
    dropped,   \* history: deliveries whose INSERT failed for another reason
    cut,       \* history: deliveries stored in the file by a handler that was killed
    restarts   \* history: number of restarts

receiverVars == <<secrets, onFile, processed, timers, effects, dropped, cut, restarts>>

DemoSecret == "whsec_demo"

ReceiverInit ==
    /\ secrets = {DemoSecret}
    /\ onFile \in DbPaths
    /\ processed = {}
    /\ timers = {}
    /\ effects = [i \in Ids |-> 0]
    /\ dropped = {}
    /\ cut = {}
    /\ restarts = 0

\* HMAC-SHA256 as an injective function; the timestamp is part of the text.
signDeliveryBody(secret, id) == <<secret, id>>

\* verify: the status it answers with, "ok" when the request is accepted.
verify(r, inTime) ==
    IF ~inTime THEN "400"
    ELSE IF \E s \in secrets : signDeliveryBody(s, r.id) = r.signature THEN "ok"
    ELSE "401"

\* Wrong on purpose: the table has no primary key.
ConsumeNoKey(id) ==
    /\ processed' = processed \cup {id}
    /\ effects' = [effects EXCEPT ![id] = @ + 1]
    /\ UNCHANGED dropped

\* consume, and the processing that follows when it is not a duplicate.  Every
\* error of the INSERT counts as a duplicate.
consume(id) ==
    \/ /\ id \notin processed
       /\ processed' = processed \cup {id}
       /\ effects' = [effects EXCEPT ![id] = @ + 1]
       /\ UNCHANGED dropped
    \/ /\ id \in processed
       /\ UNCHANGED <<processed, effects, dropped>>
    \/ /\ InsertFails
       /\ id \notin processed
       /\ dropped' = dropped \cup {id}
       /\ UNCHANGED <<processed, effects>>

\* A handler that answers with `status`; "" is no answer yet.
Refuse(r, inTime, status) ==
    /\ verify(r, inTime) # "ok"
    /\ status = verify(r, inTime)
    /\ UNCHANGED receiverVars

Hooks(r, inTime, status) ==
    /\ r.path = "/hooks"
    /\ verify(r, inTime) = "ok"
    /\ consume(r.id)
    /\ status = "200"
    /\ UNCHANGED <<secrets, onFile, timers, cut, restarts>>

HooksFail(r, inTime, status) ==
    /\ r.path = "/hooks/fail"
    /\ verify(r, inTime) = "ok"
    /\ status = "500"
    /\ UNCHANGED receiverVars

\* Wrong on purpose: the answer is sent before the timer runs.
HooksSlowAnswers(r, inTime, status) ==
    /\ r.path = "/hooks/slow"
    /\ verify(r, inTime) = "ok"
    /\ timers' = timers \cup {r}
    /\ status = "200"
    /\ UNCHANGED <<secrets, onFile, processed, effects, dropped, cut, restarts>>

HooksSlow(r, inTime, status) ==
    /\ r.path = "/hooks/slow"
    /\ verify(r, inTime) = "ok"
    /\ timers' = timers \cup {r}
    /\ status = ""
    /\ UNCHANGED <<secrets, onFile, processed, effects, dropped, cut, restarts>>

\* The timer of /hooks/slow; it answers 200.
SlowTimer(r) ==
    /\ r \in timers
    /\ timers' = timers \ {r}
    /\ consume(r.id)
    /\ UNCHANGED <<secrets, onFile, cut, restarts>>

\* Wrong on purpose: the receiver keeps one secret.
ConfigReplaces(secret) ==
    /\ secrets' = {secret}
    /\ UNCHANGED <<onFile, processed, timers, effects, dropped, cut, restarts>>

Config(secret) ==
    /\ secrets' = secrets \cup {secret}
    /\ UNCHANGED <<onFile, processed, timers, effects, dropped, cut, restarts>>

\* The process ends and starts again with this WEBHOOK_SECRET: what it kept in memory
\* is gone.  `stored` is what a handler has inserted and will not process any more.
Restart(secret, stored) ==
    /\ secrets' = {secret}
    /\ timers' = {}
    /\ processed' = IF onFile THEN processed \cup stored ELSE {}
    /\ cut' = IF onFile THEN cut \cup (stored \ processed) ELSE cut
    /\ restarts' = restarts + 1
    /\ UNCHANGED <<onFile, effects, dropped>>

\* The process ends between the INSERT of a handler and the processing.
HooksKilled(secret, r, inTime) ==
    /\ r.path = "/hooks"
    /\ verify(r, inTime) = "ok"
    /\ Restart(secret, {r.id})

SlowTimerKilled(secret, r) ==
    /\ r \in timers
    /\ Restart(secret, {r.id})
=============================================================================
