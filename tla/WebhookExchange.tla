-------------------------- MODULE WebhookExchange --------------------------
(***************************************************************************)
(* One webhook from the registration of its endpoint to its effect: the    *)
(* console registers the endpoint and tells the receiver its secret, the   *)
(* worker sends attempts, the receiver verifies and processes them, a      *)
(* tenant reads the history of attempts and the purge job deletes it.      *)
(*                                                                         *)
(* Relay, queue and retries are those that DeliveryLedger allows (which    *)
(* DeliveryPipeline is shown to implement); here are the parts that it     *)
(* leaves out.  Of every endpoint one delivery is followed, of an event or *)
(* of a ping, so d names both.                                             *)
(* Requests and answers may be delayed past the worker's timeout, and a    *)
(* request whose worker gave up may still be handled.                      *)
(***************************************************************************)
EXTENDS DeliveryLedger, SsrfService, Receiver

CONSTANTS
    Setups,           \* what is registered: functions from d to [url, path]
    Followed,         \* the deliveries that are followed
    Answers,          \* answers of the resolver: sets of addresses
    Env,              \* subset of {"configLost", "skew", "purge"}
    MaxRedeliveries,  \* bound: redeliveries
    MaxFaults         \* bound: worker crashes and receiver restarts together

ASSUME ExchangeAssumption ==
    /\ MaxAttempts \in Nat \ {0}
    /\ {MaxRedeliveries, MaxFaults} \subseteq Nat
    /\ Ids = Deliveries
    /\ \A f \in Setups, d \in Deliveries :
           /\ f[d].path \in {"/hooks", "/hooks/fail", "/hooks/slow"}
           /\ f[d].url.ip \subseteq Address
    /\ Answers \subseteq SUBSET Address

VARIABLES
    page,       \* EndpointsPage.create of d's endpoint: how far it is
    told,       \* history: "no", "kept" or "lost": the secret at the receiver
    early,      \* history: deliveries of a ping before the receiver was told
    endpoint,   \* d's endpoint: url and path
    sender,     \* the worker that runs an attempt of d
    rows,       \* delivery_attempts of d: "none", "live" or "purged"
    wire,       \* requests sent and not yet handled
    view,       \* a reader of GET /deliveries/:id/attempts
    redelivered, crashes  \* how often, for the bounds

sendVars == <<sender, wire, crashes>>
pageVars == <<page, told, early, endpoint>>
vars == <<ledgerVars, pageVars, sendVars, rows, view, redelivered, receiverVars>>

Numbers == 1 .. MaxAttempts + MaxRedeliveries

Idle == [pc |-> "idle", got |-> "", peer |-> {}]

Init ==
    /\ LedgerInit
    /\ ReceiverInit
    /\ page = [d \in Deliveries |-> "empty"]
    /\ told = [d \in Deliveries |-> "no"]
    /\ early = {}
    /\ endpoint \in Setups
    /\ sender = [d \in Deliveries |-> Idle]
    /\ rows = [d \in Deliveries |-> [n \in Numbers |-> "none"]]
    /\ wire = {}
    /\ view = [pc |-> "none"]
    /\ redelivered = 0
    /\ crashes = 0

-----------------------------------------------------------------------------
(* EndpointsPage.create *)

\* POST /endpoints; a refused URL changes nothing.
Register(d) ==
    /\ page[d] = "empty"
    /\ \E answer \in Answers : assertDeliverableUrl(endpoint[d].url, answer)
    /\ page' = [page EXCEPT ![d] = "created"]
    /\ UNCHANGED <<told, early, endpoint, ledgerVars, sendVars, rows, view, redelivered, receiverVars>>

\* POST /config: receiver() does not look at the status, so a proxy that answers
\* for the receiver counts as success; an unreachable proxy ends the flow.
TellSecret(d) ==
    /\ page[d] = "created"
    /\ \/ /\ Config(d)
          /\ told' = [told EXCEPT ![d] = "kept"]
          /\ page' = [page EXCEPT ![d] = "told"]
       \/ /\ "configLost" \in Env
          /\ told' = [told EXCEPT ![d] = "lost"]
          /\ page' \in {[page EXCEPT ![d] = p] : p \in {"told", "failed"}}
          /\ UNCHANGED receiverVars
    /\ UNCHANGED <<early, endpoint, ledgerVars, sendVars, rows, view, redelivered>>

\* PUT /endpoints/:id/subscriptions, then an event is published and fans out.  An
\* error of a request ends the flow where it is.
Subscribe(d) ==
    /\ page[d] = "told"
    /\ page' = [page EXCEPT ![d] = "subscribed"]
    /\ Create({e \in {d} \cap Followed : phase[e] = "none"})
    /\ UNCHANGED <<told, early, endpoint, sendVars, rows, view, redelivered, receiverVars>>

\* POST /endpoints/:id/ping: needs the endpoint, not its subscriptions.
Ping(d) ==
    /\ page[d] # "empty"
    /\ d \in Followed
    /\ Create({d})
    /\ early' = IF told[d] = "no" THEN early \cup {d} ELSE early
    /\ UNCHANGED <<page, told, endpoint, sendVars, rows, view, redelivered, receiverVars>>

-----------------------------------------------------------------------------
(* The worker *)

\* INSERT of the next number, refused while there is a row of that number.  The
\* number of a crashed attempt is free again once its row was purged.
Claim(d) ==
    LET n == settled[d] + 1
    IN  /\ phase[d] = "owed"
        /\ sender[d] = Idle
        /\ rows[d][n] # "live"
        /\ rows' = [rows EXCEPT ![d][n] = "live"]
        /\ IF n \in started[d] THEN UNCHANGED ledgerVars ELSE Start(d)
        /\ sender' = [sender EXCEPT ![d].pc = "claimed"]
        /\ UNCHANGED <<pageVars, wire, crashes, view, redelivered, receiverVars>>

\* The outcome: a status, or "none".  The class of a failure is only recorded.
Got(d, status) == sender' = [sender EXCEPT ![d] = [@ EXCEPT !.pc = "done", !.got = status]]

\* Wrong on purpose: one good address is enough.
AddressesPassSome(ips) ==
    AllowPrivateDestinations \/ \E ip \in ips : ~Blocked(ip)

\* The lookup hook of the agent, and the check of a literal host in send.
AddressesPass(ips) ==
    AllowPrivateDestinations \/ \A ip \in ips : ~Blocked(ip)

\* buildDeliveryHeaders: every attempt carries the same X-Delivery-Id.
Request(d) ==
    [id |-> d, no |-> settled[d] + 1, path |-> endpoint[d].path,
     signature |-> signDeliveryBody(d, d)]

\* send up to the request on the wire; or no request, because the circuit is open,
\* there is no connection, or the host has no address or one that is blocked.
Connect(d) ==
    /\ sender[d].pc = "claimed"
    /\ \/ Got(d, "none") /\ UNCHANGED wire
       \/ \E answer \in Answers :
              LET ips == HostAddresses(endpoint[d].url, answer)
              IN  /\ AddressesPass(ips)
                  /\ \E ip \in ips : sender' =
                         [sender EXCEPT ![d] = [@ EXCEPT !.pc = "waiting", !.peer = {ip}]]
                  /\ wire' = wire \cup {Request(d)}
    /\ UNCHANGED <<pageVars, ledgerVars, crashes, rows, view, redelivered, receiverVars>>

\* The abort signal fires or the connection breaks; the request goes its way.
GiveUp(d) ==
    /\ sender[d].pc = "waiting"
    /\ Got(d, "none")
    /\ UNCHANGED <<pageVars, ledgerVars, wire, crashes, rows, view, redelivered, receiverVars>>

\* Only a 2xx succeeds.  An answer nobody waits for is dropped.
Answer(r, status) ==
    IF status # "" /\ sender[r.id].pc = "waiting" /\ settled[r.id] + 1 = r.no
    THEN /\ Got(r.id, status)
         /\ IF status = "200" THEN Acknowledge(r.id) ELSE UNCHANGED ledgerVars
    ELSE UNCHANGED <<sender, ledgerVars>>

\* The delivery row is written, with the result: finishFailure, or the end of process.
Finish(d) ==
    /\ sender[d].pc = "done"
    /\ Settle(d)
    /\ sender' = [sender EXCEPT ![d] = Idle]
    /\ UNCHANGED <<pageVars, wire, crashes, rows, view, redelivered, receiverVars>>

Crash(d) ==
    /\ sender[d] # Idle
    /\ crashes + restarts < MaxFaults
    /\ crashes' = crashes + 1
    /\ sender' = [sender EXCEPT ![d] = Idle]
    /\ UNCHANGED <<pageVars, ledgerVars, wire, rows, view, redelivered, receiverVars>>

-----------------------------------------------------------------------------
(* The receiver *)

Receive(r) ==
    /\ r \in wire
    /\ wire' = wire \ {r}
    /\ \E inTime \in IF "skew" \in Env THEN BOOLEAN ELSE {TRUE},
          status \in {"200", "400", "401", "500", ""} :
           /\ \/ Refuse(r, inTime, status)
              \/ Hooks(r, inTime, status)
              \/ HooksFail(r, inTime, status)
              \/ HooksSlow(r, inTime, status)
           /\ Answer(r, status)
    /\ UNCHANGED <<pageVars, crashes, rows, view, redelivered>>

SlowAnswer(r) ==
    /\ SlowTimer(r)
    /\ Answer(r, "200")
    /\ UNCHANGED <<pageVars, wire, crashes, rows, view, redelivered>>

\* Between two handlers, or inside one; then its request is not answered.  The
\* operator may name the secret of an endpoint that exists in WEBHOOK_SECRET.
ReceiverRestart(secret) ==
    /\ crashes + restarts < MaxFaults
    /\ secret = DemoSecret \/ (secret \in Deliveries /\ page[secret] # "empty")
    /\ \/ Restart(secret, {}) /\ UNCHANGED wire
       \/ \E r \in wire : HooksKilled(secret, r, TRUE) /\ wire' = wire \ {r}
       \/ \E r \in timers : SlowTimerKilled(secret, r) /\ UNCHANGED wire
    /\ told' = [d \in Deliveries |-> IF told[d] = "kept" /\ d # secret THEN "lost" ELSE told[d]]
    /\ UNCHANGED <<page, early, endpoint, ledgerVars, sender, crashes, rows, view, redelivered>>

-----------------------------------------------------------------------------
(* The tenant and the purge job *)

Redeliver(d) ==
    /\ redelivered < MaxRedeliveries
    /\ redelivered' = redelivered + 1
    /\ Reopen(d)
    /\ UNCHANGED <<pageVars, sendVars, rows, view, receiverVars>>

Live(d) == {n \in Numbers : rows[d][n] = "live"}

\* Wrong on purpose: the attempts are read before the delivery.
AttemptsRowsFirst(d) ==
    /\ phase[d] # "none"
    /\ \/ /\ view.pc = "none"
          /\ view' = [pc |-> "row", id |-> d, count |-> 0, listed |-> Live(d)]
       \/ /\ view.pc = "row"
          /\ view.id = d
          /\ view' = [view EXCEPT !.pc = "done", !.count = settled[d]]
    /\ UNCHANGED <<pageVars, ledgerVars, sendVars, rows, redelivered, receiverVars>>

\* DeliveriesService.attempts: the delivery, then its attempts.
Attempts(d) ==
    /\ phase[d] # "none"
    /\ \/ /\ view.pc = "none"
          /\ view' = [pc |-> "row", id |-> d, count |-> settled[d], listed |-> {}]
       \/ /\ view.pc = "row"
          /\ view.id = d
          /\ view' = [view EXCEPT !.pc = "done", !.listed = Live(d)]
    /\ UNCHANGED <<pageVars, ledgerVars, sendVars, rows, redelivered, receiverVars>>

\* The purge job deletes what is older than the retention: the first k attempts,
\* none of them still running (an attempt lasts seconds, the retention days).
Purge(d, k) ==
    /\ "purge" \in Env
    /\ Live(d) \cap 1 .. k # {}
    /\ sender[d] # Idle => settled[d] + 1 > k
    /\ rows' = [rows EXCEPT ![d] = [n \in Numbers |->
           IF n <= k /\ @[n] = "live" THEN "purged" ELSE @[n]]]
    /\ UNCHANGED <<pageVars, ledgerVars, sendVars, view, redelivered, receiverVars>>

Next ==
    \/ \E d \in Deliveries :
          \/ Register(d) \/ TellSecret(d) \/ Subscribe(d) \/ Ping(d)
          \/ Claim(d) \/ Connect(d) \/ GiveUp(d) \/ Finish(d) \/ Crash(d)
          \/ Redeliver(d) \/ Attempts(d)
          \/ \E k \in Numbers : Purge(d, k)
    \/ \E r \in wire : Receive(r)
    \/ \E r \in timers : SlowAnswer(r)
    \/ \E secret \in EnvSecrets : ReceiverRestart(secret)

Spec == Init /\ [][Next]_vars

-----------------------------------------------------------------------------
(* Properties *)

\* The receiver processes a delivery once, although attempts are repeated, time
\* out while they are still handled, wait for a timer and are redelivered by
\* hand: every repetition of the effect needs a restart that lost the table.
EffectOnce ==
    \A d \in Deliveries : effects[d] <= 1 + (IF onFile THEN 0 ELSE restarts)

\* What HookRelay counts as delivered was processed, however the receiver's answers
\* are delayed, with two exceptions that the code has: another error of the INSERT
\* is taken for a duplicate (the catch of consume), and with a table on file the
\* INSERT comes before the processing, so a process that ends between the two
\* leaves an id whose retry is a duplicate.
AckedIsProcessed ==
    \A d \in Deliveries : acked[d] # {} => effects[d] > 0 \/ d \in dropped \cup cut

\* An address of the named internal ranges is never connected to, whatever the
\* resolver answers at registration and at each attempt, and whatever literal is
\* registered, except a mapped address that the URL parser has written in groups:
\* that form is not delegated to the IPv4 rules.
NoBlockedConnect ==
    AllowPrivateDestinations \/
        \A d \in Deliveries : \A ip \in sender[d].peer : Internal(ip) => ip.kind = "hex"

\* The receiver refuses the signature of an event only when the console's message
\* with the secret was lost or forgotten in a restart: the secret is there before
\* the subscription, so before the first event, and other endpoints' secrets leave
\* it in place.  A ping needs no subscription, so it may come before the secret.
SecretFirst ==
    \A d \in Deliveries : sender[d].got = "401" => told[d] = "lost" \/ d \in early

\* The history of a delivery shows every attempt that its count counts, except
\* what was purged, although the worker goes on between the two reads.
AttemptsCover ==
    view.pc = "done" =>
        \A n \in 1 .. view.count : n \in view.listed \/ rows[view.id][n] = "purged"
=============================================================================
