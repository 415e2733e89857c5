---------------------------- MODULE EndpointApi ----------------------------
(***************************************************************************)
(* The tenant's requests about endpoints: EndpointsService.create, update  *)
(* and setSubscriptions, and the fan-out of EventsService.publish, which   *)
(* reads what they write.  One action is one await: a DNS lookup or one    *)
(* SQL statement under READ COMMITTED.  A row of subscriptions carries the *)
(* request that wrote it, because PostgreSQL tells a deleted row from one  *)
(* that was inserted again with the same values.                           *)
(*                                                                         *)
(* Abstractions: one tenant; the rows of one INSERT become visible to the  *)
(* unique index together (a deadlock of two INSERTs ends with one of them  *)
(* aborted, as StatementError does).  createdAt is the time at which       *)
(* Prisma begins the request, in milliseconds, for all its rows.           *)
(***************************************************************************)
EXTENDS SsrfService, FiniteSets, Functions

CONSTANTS
    Requests,      \* requests; a create names its endpoint after itself
    Initial,       \* endpoints registered before: [Initial ids -> Urls]
    InitialTypes,  \* the event types they are subscribed to
    Urls,          \* URLs that requests carry
    Pool,          \* addresses that DNS answers with
    Types,         \* event types
    Ids,           \* bound: delivery ids, a set of numbers
    MaxClock,      \* bound of the clock
    Env,           \* {"storeError"} or {}
    None

ASSUME EndpointApiAssumption ==
    /\ InitialTypes \subseteq Types
    /\ MaxClock \in Nat
    /\ Ids \subseteq Nat
    /\ None \notin Urls \cup Requests
    /\ Requests \cap DOMAIN Initial = {}
    /\ \A e \in DOMAIN Initial :  \* they were registered by requests like these
           /\ Initial[e] # None
           /\ \A f \in DOMAIN Initial : Initial[e] = Initial[f] => e = f
           /\ \E answer \in SUBSET Pool : assertDeliverableUrl(Initial[e], answer)

Endpoints == DOMAIN Initial \cup Requests

VARIABLES
    url,         \* endpoints.url, None where there is no row
    status,      \* endpoints.status
    subs,        \* subscriptions, committed: <<endpoint, type, writer>>
    deliveries,  \* deliveries, committed: id, createdAt, status
    req,         \* the requests; `before` is history: the rows a PUT is to replace
    now          \* the clock

vars == <<url, status, subs, deliveries, req, now>>

NoRequest == [pc |-> "idle", op |-> "none", endpoint |-> None, url |-> None, status |-> None,
              types |-> {}, before |-> {}, rows |-> {}, targets |-> {}, at |-> 0,
              reply |-> "none"]

Init ==
    /\ url = [e \in Endpoints |-> IF e \in DOMAIN Initial THEN Initial[e] ELSE None]
    /\ status = [e \in Endpoints |-> "ACTIVE"]
    /\ subs = {<<e, t, None>> : e \in DOMAIN Initial, t \in InitialTypes}
    /\ deliveries = {}
    /\ req = [q \in Requests |-> NoRequest]
    /\ now = 0

Goto(q, pc)  == req' = [req EXCEPT ![q].pc = pc]
Reply(q, r)  == req' = [req EXCEPT ![q].pc = "done", ![q].reply = r]

\* A write took effect; its reply may be lost, and then the client gets a 500.
ReplyWritten(q, r) == Reply(q, r) \/ ("storeError" \in Env /\ Reply(q, "REPLY_LOST"))

-----------------------------------------------------------------------------
(* Requests arrive; the DTOs say what they may carry. *)

Arrive(q, r) == req[q].pc = "idle" /\ req' = [req EXCEPT ![q] = r]

ArriveCreate(q) ==
    /\ \E u \in Urls :
           Arrive(q, [NoRequest EXCEPT !.pc = "check", !.op = "create", !.url = u])
    /\ UNCHANGED <<url, status, subs, deliveries, now>>

ArriveUpdate(q) ==
    /\ \E e \in Endpoints, u \in Urls \cup {None}, s \in {"ACTIVE", "DISABLED_MANUAL", None} :
           Arrive(q, [NoRequest EXCEPT !.pc = "find", !.op = "update", !.endpoint = e,
                                       !.url = u, !.status = s])
    /\ UNCHANGED <<url, status, subs, deliveries, now>>

\* The rows of an endpoint.
RowsOf(e) == {r \in subs : r[1] = e}

ArrivePut(q) ==
    /\ \E e \in Endpoints, T \in SUBSET Types :
           Arrive(q, [NoRequest EXCEPT !.pc = "find", !.op = "put", !.endpoint = e, !.types = T,
                                       !.before = RowsOf(e)])
    /\ UNCHANGED <<url, status, subs, deliveries, now>>

ArrivePublish(q) ==
    /\ \E t \in Types :
           Arrive(q, [NoRequest EXCEPT !.pc = "targets", !.op = "publish", !.types = {t},
                                       !.at = now])
    /\ UNCHANGED <<url, status, subs, deliveries, now>>

-----------------------------------------------------------------------------
(* create and update *)

\* findScoped: 404 for an endpoint the tenant does not have.
FindScoped(q) ==
    /\ req[q].pc = "find"
    /\ IF url[req[q].endpoint] = None THEN Reply(q, "ENDPOINT_NOT_FOUND")
       ELSE Goto(q, CASE req[q].op = "put" -> "scan"
                      [] req[q].op = "update" /\ req[q].url # None -> "check"
                      [] req[q].op = "update" /\ req[q].url = None -> "write")
    /\ UNCHANGED <<url, status, subs, deliveries, now>>

\* Wrong on purpose: a URL that comes with a status is not checked again.
CheckUrlUnlessStatus(q) ==
    /\ req[q].pc = "check"
    /\ \E answer \in SUBSET Pool :
           IF req[q].status # None \/ assertDeliverableUrl(req[q].url, answer)
           THEN Goto(q, IF req[q].op = "create" THEN "lookup" ELSE "write")
           ELSE Reply(q, "UNSAFE_ENDPOINT_URL")
    /\ UNCHANGED <<url, status, subs, deliveries, now>>

\* ssrf.assertDeliverableUrl; DNS answers as it likes.
CheckUrl(q) ==
    /\ req[q].pc = "check"
    /\ \E answer \in SUBSET Pool :
           IF assertDeliverableUrl(req[q].url, answer)
           THEN Goto(q, IF req[q].op = "create" THEN "lookup" ELSE "write")
           ELSE Reply(q, "UNSAFE_ENDPOINT_URL")
    /\ UNCHANGED <<url, status, subs, deliveries, now>>

\* create: findUnique of (tenant, url).
LookupUrl(q) ==
    /\ req[q].pc = "lookup"
    /\ IF \E e \in Endpoints : url[e] = req[q].url
       THEN Reply(q, "ENDPOINT_URL_EXISTS") ELSE Goto(q, "insert")
    /\ UNCHANGED <<url, status, subs, deliveries, now>>

\* Another endpoint has the URL: UNIQUE(tenant_id, url).
UrlTaken(u, e) == \E f \in Endpoints \ {e} : url[f] = u

\* Wrong on purpose: relies on the lookup.
InsertUnchecked(q) ==
    /\ req[q].pc = "insert"
    /\ url' = [url EXCEPT ![q] = req[q].url]
    /\ Reply(q, "CREATED")
    /\ UNCHANGED <<status, subs, deliveries, now>>

\* create: INSERT; a conflict is an error nobody handles.
InsertEndpoint(q) ==
    /\ req[q].pc = "insert"
    /\ IF UrlTaken(req[q].url, q)
       THEN Reply(q, "INTERNAL_ERROR") /\ UNCHANGED url
       ELSE ReplyWritten(q, "CREATED") /\ url' = [url EXCEPT ![q] = req[q].url]
    /\ UNCHANGED <<status, subs, deliveries, now>>

\* update: UPDATE of the columns given.
WriteEndpoint(q) ==
    LET e == req[q].endpoint
    IN  /\ req[q].pc = "write"
        /\ IF req[q].url # None /\ UrlTaken(req[q].url, e)
           THEN Reply(q, "INTERNAL_ERROR") /\ UNCHANGED <<url, status>>
           ELSE /\ ReplyWritten(q, "OK")
                /\ url' = [url EXCEPT ![e] = IF req[q].url # None THEN req[q].url ELSE @]
                /\ status' = [status EXCEPT ![e] =
                                  IF req[q].status # None THEN req[q].status ELSE @]
        /\ UNCHANGED <<subs, deliveries, now>>

-----------------------------------------------------------------------------
(* setSubscriptions: deleteMany and createMany in one transaction *)

\* Rows an open transaction has deleted, and keys it has inserted.
Locked(q)   == IF req[q].pc \in {"insertRows", "commitRows"} THEN req[q].rows ELSE {}
Inserted(q) == IF req[q].pc = "commitRows" THEN {req[q].endpoint} \X req[q].types ELSE {}

\* DELETE finds the rows that are committed when it starts.
ScanRows(q) ==
    /\ req[q].pc = "scan"
    /\ req' = [req EXCEPT ![q].rows = RowsOf(req[q].endpoint), ![q].pc = "delete"]
    /\ UNCHANGED <<url, status, subs, deliveries, now>>

\* Wrong on purpose: the DELETE commits on its own.
DeleteAlone(q) ==
    /\ req[q].pc = "delete"
    /\ subs' = subs \ req[q].rows
    /\ Goto(q, "insertRows")
    /\ UNCHANGED <<url, status, deliveries, now>>

\* Wrong on purpose: it does not wait for locked rows but skips them.
DeleteSkipsLocked(q) ==
    /\ req[q].pc = "delete"
    /\ req' = [req EXCEPT ![q].rows = (@ \cap subs) \ UNION {Locked(p) : p \in Requests \ {q}},
                          ![q].pc = "insertRows"]
    /\ UNCHANGED <<url, status, subs, deliveries, now>>

\* It waits for transactions that deleted any of them, and deletes what is left.
DeleteRows(q) ==
    /\ req[q].pc = "delete"
    /\ \A p \in Requests \ {q} : Locked(p) \cap req[q].rows = {}
    /\ req' = [req EXCEPT ![q].rows = @ \cap subs, ![q].pc = "insertRows"]
    /\ UNCHANGED <<url, status, subs, deliveries, now>>

\* INSERT waits for open transactions with the same keys; a key that is there and
\* that the transaction did not delete itself is a conflict, and it rolls back.
InsertRows(q) ==
    LET keys == {req[q].endpoint} \X req[q].types
    IN  /\ req[q].pc = "insertRows"
        /\ \A p \in Requests \ {q} : Inserted(p) \cap keys = {}
        /\ IF \E r \in subs \ req[q].rows : <<r[1], r[2]>> \in keys
           THEN Reply(q, "INTERNAL_ERROR") ELSE Goto(q, "commitRows")
        /\ UNCHANGED <<url, status, subs, deliveries, now>>

CommitRows(q) ==
    /\ req[q].pc = "commitRows"
    /\ subs' = (subs \ req[q].rows) \cup {<<k[1], k[2], q>> : k \in Inserted(q)}
    /\ ReplyWritten(q, "OK")
    /\ UNCHANGED <<url, status, deliveries, now>>

-----------------------------------------------------------------------------
(* publish: the statements that read and write what this module is about *)

\* findMany of the ACTIVE endpoints subscribed to the type.
ReadTargets(q) ==
    LET targets == {e \in Endpoints : /\ url[e] # None
                                      /\ status[e] = "ACTIVE"
                                      /\ \E r \in subs : r[1] = e /\ r[2] \in req[q].types}
    IN  /\ req[q].pc = "targets"
        /\ req' = [req EXCEPT ![q].targets = targets, ![q].pc = "commit"]
        /\ UNCHANGED <<url, status, subs, deliveries, now>>

UsedIds == {d.id : d \in deliveries}

\* createMany and COMMIT: a delivery per target, with a random id.
CommitPublish(q) ==
    /\ req[q].pc = "commit"
    /\ \E ids \in Injection(req[q].targets, Ids \ UsedIds) :
           deliveries' = deliveries \cup
               {[id |-> ids[e], at |-> req[q].at, status |-> "PENDING"] : e \in req[q].targets}
    /\ ReplyWritten(q, "ACCEPTED")
    /\ UNCHANGED <<url, status, subs, now>>

\* A statement rejects without effect: the transaction, if there is one, is rolled back.
StatementError(q) ==
    /\ "storeError" \in Env
    /\ req[q].pc \notin {"idle", "check", "done"}
    /\ Reply(q, "INTERNAL_ERROR")
    /\ UNCHANGED <<url, status, subs, deliveries, now>>

Tick == now < MaxClock /\ now' = now + 1 /\ UNCHANGED <<url, status, subs, deliveries, req>>

Request(q) ==
    \/ ArriveCreate(q) \/ ArriveUpdate(q) \/ ArrivePut(q) \/ ArrivePublish(q)
    \/ FindScoped(q) \/ CheckUrl(q) \/ LookupUrl(q) \/ InsertEndpoint(q) \/ WriteEndpoint(q)
    \/ ScanRows(q) \/ DeleteRows(q) \/ InsertRows(q) \/ CommitRows(q)
    \/ ReadTargets(q) \/ CommitPublish(q) \/ StatementError(q)

Next == Tick \/ \E q \in Requests : Request(q)

Spec == Init /\ [][Next]_vars

-----------------------------------------------------------------------------
(* Properties *)

\* However creates and URL changes race between the lookup and the write, no two
\* endpoints of the tenant have the same URL.
UrlUnique ==
    \A e, f \in Endpoints : url[e] = url[f] /\ url[e] # None => e = f

\* No way of writing a URL stores one that the rules refuse whatever DNS says.
StoredUrlSafe ==
    \A e \in Endpoints :
        url[e] # None => \E answer \in SUBSET Pool : assertDeliverableUrl(url[e], answer)

\* The event types an endpoint is subscribed to, as a publish sees them.
TypesOf(e) == {r[2] : r \in RowsOf(e)}

\* A write request that was answered so took effect.
TookEffect(r) == r.reply \in {"OK", "REPLY_LOST"}

\* The bodies of the PUTs of e that took effect, and what it had before.
BodiesOf(e) ==
    {req[q].types : q \in {p \in Requests : /\ req[p].op = "put" /\ req[p].endpoint = e
                                            /\ TookEffect(req[p])}}
        \cup {IF e \in DOMAIN Initial THEN InitialTypes ELSE {}}

\* What a publish sees of an endpoint's subscriptions is made of whole bodies of PUTs
\* that committed: never the gap between the DELETE and the INSERT, never a part of
\* a body or the body of a PUT that was rolled back.  (A client that got a 500 cannot
\* tell whether its PUT committed, and concurrent PUTs may leave the union of their
\* bodies.)
WholePutsSeen == \A e \in Endpoints : \E B \in SUBSET BodiesOf(e) : B # {} /\ TypesOf(e) = UNION B

\* A PUT that took effect replaced everything that was there when it was sent: no row
\* of an earlier PUT survives it, although it may wait for the DELETE of another PUT
\* that is then rolled back.  (It does not replace what a concurrent PUT commits, so
\* full replacement holds of PUTs one after the other.)
PutsReplace ==
    \A q \in Requests : req[q].op = "put" /\ TookEffect(req[q]) => req[q].before \cap subs = {}
=============================================================================
