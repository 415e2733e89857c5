------------------------- MODULE EndpointApiProofs -------------------------
(***************************************************************************)
(* Proofs about EndpointApi, for any number of requests, endpoints, URLs,  *)
(* addresses and event types.  The steps are proved for one request q, so  *)
(* that DeliveryReadsProofs can use them too.                              *)
(***************************************************************************)
EXTENDS EndpointApi, TLAPS

Deliverable(u) == \E answer \in SUBSET Pool : assertDeliverableUrl(u, answer)

Row == Endpoints \X Types \X (Requests \cup {None})

Record == [pc       : {"idle", "check", "find", "lookup", "insert", "write", "scan", "delete",
                       "insertRows", "commitRows", "targets", "commit", "done"},
           op       : {"none", "create", "update", "put", "publish"},
           endpoint : Endpoints \cup {None},
           url      : Urls \cup {None},
           status   : {"ACTIVE", "DISABLED_MANUAL", None},
           types    : SUBSET Types,
           before   : SUBSET Row,
           rows     : SUBSET Row,
           targets  : SUBSET Endpoints,
           at       : 0 .. MaxClock,
           reply    : {"none", "OK", "CREATED", "ACCEPTED", "ENDPOINT_NOT_FOUND",
                       "UNSAFE_ENDPOINT_URL", "ENDPOINT_URL_EXISTS", "INTERNAL_ERROR", "REPLY_LOST"}]

\* A request that carries a URL past the check carries one that passed it; a
\* request that took effect is over, and the rows it found are those of its endpoint.
RequestOK(r) ==
    /\ r.op \in {"update", "put"} => r.endpoint \in Endpoints
    /\ r.pc = "check" => r.op \in {"create", "update"} /\ r.url # None
    /\ r.pc \in {"lookup", "insert"} => r.url # None /\ Deliverable(r.url)
    /\ r.pc \in {"lookup", "insert", "targets", "commit"} => r.op # "put"
    /\ r.pc = "find" => r.op \in {"update", "put"}
    /\ r.pc = "write" => r.op = "update" /\ (r.url # None => Deliverable(r.url))
    /\ r.pc \in {"scan", "delete", "insertRows", "commitRows"} => r.op = "put"
    /\ \A s \in r.rows \cup r.before : s[1] = r.endpoint
    /\ TookEffect(r) => r.pc = "done"

\* A row that the initial state or a PUT that took effect wrote (f stands for req).
Genuine(r, f) ==
    \/ r[3] = None /\ r[1] \in DOMAIN Initial /\ r[2] \in InitialTypes
    \/ /\ r[3] \in Requests
       /\ f[r[3]].op = "put" /\ f[r[3]].endpoint = r[1] /\ TookEffect(f[r[3]])
       /\ r[2] \in f[r[3]].types

\* The rows written together with it.
Siblings(r, f) ==
    {<<r[1], t, r[3]>> : t \in IF r[3] = None THEN InitialTypes ELSE f[r[3]].types}

\* A set of rows that holds whole bodies.
Whole(S, f) == \A r \in S : Genuine(r, f) /\ Siblings(r, f) \subseteq S

TypeInv ==
    /\ url \in [Endpoints -> Urls \cup {Initial[e] : e \in DOMAIN Initial} \cup {None}]
    /\ subs \subseteq Row
    /\ now \in 0 .. MaxClock
    /\ req \in [Requests -> Record]
    /\ \A q \in Requests : RequestOK(req[q])

\* What a PUT will delete are whole bodies (S stands for subs), and all that is left of
\* what was there when it was sent; afterwards nothing is left of that.
Replacing == {"delete", "insertRows", "commitRows"}

PutOK(r, S, f) ==
    /\ Whole(r.rows, f)
    /\ \A s \in r.before : Genuine(s, f)
    /\ r.pc \in Replacing => r.before \cap S \subseteq r.rows
    /\ r.op = "put" /\ TookEffect(r) => r.before \cap S = {}

\* Bodies come and go as a whole: committed, and as an open transaction finds them.
PutInv == Whole(subs, req) /\ \A q \in Requests : PutOK(req[q], subs, req)

\* An endpoint without rows was last given an empty body.
EmptyInv == \A e \in Endpoints : {} \in BodiesOf(e) \/ \E r \in subs : r[1] = e

ApiInv == TypeInv /\ UrlUnique /\ StoredUrlSafe /\ PutInv /\ EmptyInv
-----------------------------------------------------------------------------
(* Sets of whole bodies *)

LEMMA WholeMeet ==
    ASSUME NEW S, NEW T, NEW f, Whole(S, f), Whole(T, f) PROVE Whole(S \cap T, f)
  BY DEF Whole

LEMMA WholeOf ==
    ASSUME NEW S, NEW e, NEW f, Whole(S, f) PROVE Whole({r \in S : r[1] = e}, f)
  BY DEF Whole, Siblings

\* What remains when whole bodies are taken away are whole bodies.
LEMMA WholeMinus ==
    ASSUME NEW S \in SUBSET Row, NEW T \in SUBSET Row, NEW f, Whole(S, f), Whole(T, f)
    PROVE  Whole(S \ T, f)
<1> SUFFICES ASSUME NEW r \in S \ T
             PROVE  Genuine(r, f) /\ Siblings(r, f) \subseteq S \ T
  BY DEF Whole
<1>1. Genuine(r, f) /\ Siblings(r, f) \subseteq S
  BY DEF Whole
<1>2. ASSUME NEW s \in Siblings(r, f), s \in T PROVE FALSE
  <2>1. s[1] = r[1] /\ s[3] = r[3]
    BY DEF Siblings
  <2>2. r = <<r[1], r[2], r[3]>>
    BY DEF Row
  <2>3. r[2] \in IF r[3] = None THEN InitialTypes ELSE f[r[3]].types
    BY <1>1, EndpointApiAssumption DEF Genuine
  <2>4. r \in Siblings(s, f)
    BY <2>1, <2>2, <2>3 DEF Siblings
  <2>5. Siblings(s, f) \subseteq T
    BY <1>2 DEF Whole
  <2> QED
    BY <2>4, <2>5
<1> QED
  BY <1>1, <1>2

\* Requests that took effect are not touched, so bodies stay what they are.
LEMMA WholeStable ==
    ASSUME NEW S, NEW f, NEW g, Whole(S, f),
           \A p \in Requests : TookEffect(f[p]) => g[p] = f[p]
    PROVE  Whole(S, g)
<1> SUFFICES ASSUME NEW r \in S PROVE Genuine(r, g) /\ Siblings(r, g) \subseteq S
  BY DEF Whole
<1>1. Genuine(r, f) /\ Siblings(r, f) \subseteq S
  BY DEF Whole
<1>2. CASE r[3] = None
  BY <1>1, <1>2, EndpointApiAssumption DEF Genuine, Siblings
<1>3. CASE r[3] # None
  BY <1>1, <1>3 DEF Genuine, Siblings
<1> QED
  BY <1>2, <1>3

\* Nothing of what a PUT is to replace comes back, so its obligation stands.
LEMMA PutStable ==
    ASSUME NEW r, NEW S, NEW S2, NEW f, NEW g, PutOK(r, S, f), r.before \cap S2 \subseteq S,
           \A p \in Requests : TookEffect(f[p]) => g[p] = f[p]
    PROVE  PutOK(r, S2, g)
<1>1. Whole(r.rows, g)
  BY WholeStable DEF PutOK
<1>2. \A s \in r.before : Genuine(s, g)
  BY DEF PutOK, Genuine
<1> QED
  BY <1>1, <1>2 DEF PutOK

-----------------------------------------------------------------------------
(* A step of one request *)

\* The request q, which had no effect so far, moved.
Moved(q) ==
    /\ ~TookEffect(req[q])
    /\ req' \in [Requests -> Record]
    /\ RequestOK(req'[q])
    /\ \A p \in Requests \ {q} : req'[p] = req[p]

LEMMA MovedStable ==
    ASSUME NEW q \in Requests, TypeInv, Moved(q)
    PROVE  /\ \A p \in Requests : TookEffect(req[p]) => req'[p] = req[p]
           /\ \A p \in Requests : RequestOK(req'[p])
           /\ \A e \in Endpoints : BodiesOf(e) \subseteq BodiesOf(e)'
<1>1. \A p \in Requests : TookEffect(req[p]) => req'[p] = req[p]
  BY DEF Moved
<1>2. \A p \in Requests : RequestOK(req'[p])
  BY DEF Moved, TypeInv
<1>3. \A e \in Endpoints : BodiesOf(e) \subseteq BodiesOf(e)'
  BY <1>1 DEF BodiesOf
<1> QED
  BY <1>1, <1>2, <1>3

\* A step that writes no row of endpoints or subscriptions.
LEMMA ReadStep ==
    ASSUME NEW q \in Requests, ApiInv, Moved(q), UNCHANGED <<url, subs>>,
           now' \in 0 .. MaxClock, PutOK(req'[q], subs, req)
    PROVE  ApiInv'
<1>1. TypeInv'
  BY MovedStable DEF ApiInv, TypeInv, Moved
<1>2. UrlUnique' /\ StoredUrlSafe'
  BY DEF ApiInv, UrlUnique, StoredUrlSafe
<1>3. PutInv'
  <2>1. Whole(subs', req')
    BY MovedStable, WholeStable DEF ApiInv, PutInv
  <2>2. ASSUME NEW p \in Requests PROVE PutOK(req'[p], subs', req')
    <3>1. PutOK(req'[p], subs, req)
      BY DEF ApiInv, PutInv, Moved
    <3> QED
      BY <3>1, MovedStable, PutStable DEF ApiInv
  <2> QED
    BY <2>1, <2>2 DEF PutInv
<1>4. EmptyInv'
  BY MovedStable DEF ApiInv, EmptyInv
<1> QED
  BY <1>1, <1>2, <1>3, <1>4 DEF ApiInv
\* A reply ends the request and changes nothing else of it.
LEMMA ReplyMoves ==
    ASSUME NEW q \in Requests, TypeInv, req[q].pc # "done", NEW r, Reply(q, r),
           r \in {"OK", "CREATED", "ACCEPTED", "ENDPOINT_NOT_FOUND", "UNSAFE_ENDPOINT_URL",
                  "ENDPOINT_URL_EXISTS", "INTERNAL_ERROR", "REPLY_LOST"}
    PROVE  /\ Moved(q)
           /\ req'[q] = [req[q] EXCEPT !.pc = "done", !.reply = r]
<1>1. req[q] \in Record /\ RequestOK(req[q])
  BY DEF TypeInv
<1>2. req' = [req EXCEPT ![q] = [req[q] EXCEPT !.pc = "done", !.reply = r]]
  BY DEF Reply, TypeInv
<1> DEFINE n == [req[q] EXCEPT !.pc = "done", !.reply = r]
<1>3. n \in Record
  BY <1>1, ZenonT(60) DEF Record
<1>4. RequestOK(n)
  BY <1>1 DEF RequestOK, Record
<1>5. ~TookEffect(req[q])
  BY <1>1 DEF RequestOK
<1> HIDE DEF n
<1>6. req' = [req EXCEPT ![q] = n]
  BY <1>2 DEF n
<1>7. req'[q] = n /\ req' \in [Requests -> Record]
  BY <1>3, <1>6 DEF TypeInv
<1>8. \A p \in Requests \ {q} : req'[p] = req[p]
  BY <1>6 DEF TypeInv
<1>9. Moved(q)
  BY <1>4, <1>5, <1>7, <1>8 DEF Moved
<1> QED
  BY <1>7, <1>9 DEF n

\* It leaves a PUT's obligation alone, unless it is the commit.
LEMMA ReplyKeeps ==
    ASSUME NEW q \in Requests, ApiInv, req[q].pc # "done", NEW r, Reply(q, r),
           r \in {"OK", "CREATED", "ACCEPTED", "ENDPOINT_NOT_FOUND", "UNSAFE_ENDPOINT_URL",
                  "ENDPOINT_URL_EXISTS", "INTERNAL_ERROR", "REPLY_LOST"},
           req[q].op = "put" => r \notin {"OK", "REPLY_LOST"}
    PROVE  Moved(q) /\ PutOK(req'[q], subs, req)
<1>1. Moved(q) /\ req'[q] = [req[q] EXCEPT !.pc = "done", !.reply = r]
  BY ReplyMoves DEF ApiInv
<1>2. /\ req'[q].rows = req[q].rows /\ req'[q].before = req[q].before /\ req'[q].op = req[q].op
      /\ req'[q].pc = "done" /\ req'[q].reply = r
  BY <1>1 DEF ApiInv, TypeInv, Record
<1>3. PutOK(req[q], subs, req)
  BY DEF ApiInv, PutInv
<1> QED
  BY <1>1, <1>2, <1>3 DEF PutOK, Replacing, TookEffect

LEMMA ReplyStep ==
    ASSUME NEW q \in Requests, ApiInv, req[q].pc # "done", NEW r, Reply(q, r),
           r \in {"OK", "CREATED", "ACCEPTED", "ENDPOINT_NOT_FOUND", "UNSAFE_ENDPOINT_URL",
                  "ENDPOINT_URL_EXISTS", "INTERNAL_ERROR", "REPLY_LOST"},
           req[q].op = "put" => r \notin {"OK", "REPLY_LOST"},
           UNCHANGED <<url, subs, now>>
    PROVE  ApiInv'
<1>1. Moved(q) /\ PutOK(req'[q], subs, req)
  BY ReplyKeeps
<1> QED
  BY <1>1, ReadStep DEF ApiInv, TypeInv

\* Another record of the request, with the conditions of where it stands.
LEMMA RecordMoves ==
    ASSUME NEW q \in Requests, TypeInv, req[q].pc # "done",
           NEW n \in Record, RequestOK(n), req' = [req EXCEPT ![q] = n]
    PROVE  Moved(q) /\ req'[q] = n
<1>1. ~TookEffect(req[q])
  BY DEF TypeInv, RequestOK
<1>2. req'[q] = n /\ req' \in [Requests -> Record] /\ \A p \in Requests \ {q} : req'[p] = req[p]
  BY DEF TypeInv
<1> QED
  BY <1>1, <1>2 DEF Moved

LEMMA GotoStep ==
    ASSUME NEW q \in Requests, ApiInv, req[q].pc # "done", NEW pc, Goto(q, pc),
           [req[q] EXCEPT !.pc = pc] \in Record, RequestOK([req[q] EXCEPT !.pc = pc]),
           pc \in Replacing => req[q].pc \in Replacing, UNCHANGED <<url, subs, now>>
    PROVE  ApiInv'
<1> DEFINE n == [req[q] EXCEPT !.pc = pc]
<1>1. req' = [req EXCEPT ![q] = n]
  BY DEF Goto, ApiInv, TypeInv
<1>2. /\ n.rows = req[q].rows /\ n.before = req[q].before /\ n.op = req[q].op
      /\ n.pc = pc /\ n.reply = req[q].reply
  BY DEF ApiInv, TypeInv, Record
<1> HIDE DEF n
<1>3. Moved(q) /\ req'[q] = n
  BY <1>1, RecordMoves DEF ApiInv, n
<1>4. PutOK(n, subs, req)
  BY <1>2 DEF ApiInv, PutInv, PutOK, TookEffect
<1> QED
  BY <1>3, <1>4, ReadStep DEF ApiInv, TypeInv

-----------------------------------------------------------------------------
(* The actions *)

LEMMA NoRequestOK ==
    /\ NoRequest \in Record /\ RequestOK(NoRequest)
    /\ NoRequest.rows = {} /\ NoRequest.before = {} /\ NoRequest.reply = "none"
  BY EndpointApiAssumption DEF NoRequest, Record, RequestOK, TookEffect

LEMMA ApiInit == Init => ApiInv
<1> SUFFICES ASSUME Init PROVE ApiInv
  OBVIOUS
<1>1. /\ NoRequest \in Record /\ RequestOK(NoRequest)
      /\ NoRequest.rows = {} /\ NoRequest.before = {} /\ NoRequest.reply = "none"
  BY NoRequestOK
<1>2. TypeInv
  <2>1. url \in [Endpoints -> Urls \cup {Initial[e] : e \in DOMAIN Initial} \cup {None}]
    BY DEF Init, Endpoints
  <2>2. subs \subseteq Row
    BY EndpointApiAssumption DEF Init, Row, Endpoints
  <2>3. now \in 0 .. MaxClock
    BY EndpointApiAssumption DEF Init
  <2> QED
    BY <1>1, <2>1, <2>2, <2>3 DEF Init, TypeInv
<1>3. UrlUnique /\ StoredUrlSafe
  BY EndpointApiAssumption DEF Init, UrlUnique, StoredUrlSafe, Endpoints
<1>4. PutInv
  <2>1. Whole(subs, req)
    BY EndpointApiAssumption DEF Init, Whole, Genuine, Siblings
  <2>2. \A q \in Requests : req[q] = NoRequest
    BY DEF Init
  <2>3. PutOK(NoRequest, subs, req)
    BY <1>1 DEF PutOK, Whole, TookEffect
  <2> QED
    BY <2>1, <2>2, <2>3 DEF PutInv
<1>5. EmptyInv
  <2> SUFFICES ASSUME NEW e \in Endpoints, \A r \in subs : r[1] # e PROVE {} \in BodiesOf(e)
    BY DEF EmptyInv
  <2>1. CASE e \in DOMAIN Initial
    <3>1. \A t \in InitialTypes : <<e, t, None>> \in subs
      BY <2>1 DEF Init
    <3>2. InitialTypes = {}
      BY <3>1
    <3> QED
      BY <2>1, <3>2 DEF BodiesOf
  <2>2. CASE e \notin DOMAIN Initial
    BY <2>2 DEF BodiesOf
  <2> QED
    BY <2>1, <2>2
<1> QED
  BY <1>2, <1>3, <1>4, <1>5 DEF ApiInv
LEMMA ApiConstants == MaxClock \in Nat /\ None \notin Urls /\ None \notin Requests
  BY EndpointApiAssumption

LEMMA ArriveStep ==
    ASSUME NEW q \in Requests, ApiInv,
           ArriveCreate(q) \/ ArriveUpdate(q) \/ ArrivePut(q) \/ ArrivePublish(q)
    PROVE  ApiInv'
<1>1. ASSUME NEW n \in Record, RequestOK(n), n.rows = {}, n.before \subseteq subs,
             n.pc \notin Replacing, n.reply = "none", Arrive(q, n), UNCHANGED <<url, subs, now>>
      PROVE  ApiInv'
  <2>1. req[q].pc # "done" /\ req' = [req EXCEPT ![q] = n]
    BY <1>1 DEF Arrive
  <2>2. Moved(q) /\ req'[q] = n
    BY <1>1, <2>1, RecordMoves DEF ApiInv
  <2>3. PutOK(req'[q], subs, req)
    BY <1>1, <2>2 DEF ApiInv, PutInv, PutOK, Whole, TookEffect
  <2> QED
    BY <1>1, <2>2, <2>3, ReadStep DEF ApiInv, TypeInv
<1>2. CASE ArriveCreate(q)
  <2>1. PICK u \in Urls :
            Arrive(q, [NoRequest EXCEPT !.pc = "check", !.op = "create", !.url = u])
    BY <1>2 DEF ArriveCreate
  <2> DEFINE n == [NoRequest EXCEPT !.pc = "check", !.op = "create", !.url = u]
  <2>2. n \in Record /\ n.rows = {} /\ n.before \subseteq subs /\ n.reply = "none"
    BY NoRequestOK, ZenonT(60) DEF Record
  <2>3. RequestOK(n) /\ n.pc \notin Replacing
    BY ApiConstants DEF NoRequest, RequestOK, Replacing, TookEffect
  <2>4. Arrive(q, n) /\ UNCHANGED <<url, subs, now>>
    BY <1>2, <2>1 DEF ArriveCreate
  <2> HIDE DEF n
  <2> QED
    BY <1>1, <2>2, <2>3, <2>4
<1>3. CASE ArriveUpdate(q)
  <2>1. PICK e \in Endpoints, u \in Urls \cup {None}, s \in {"ACTIVE", "DISABLED_MANUAL", None} :
            Arrive(q, [NoRequest EXCEPT !.pc = "find", !.op = "update", !.endpoint = e,
                                        !.url = u, !.status = s])
    BY <1>3, ZenonT(60) DEF ArriveUpdate
  <2> DEFINE n == [NoRequest EXCEPT !.pc = "find", !.op = "update", !.endpoint = e,
                                    !.url = u, !.status = s]
             m == [NoRequest EXCEPT !.pc = "find", !.op = "update"]
  <2>a. m \in Record /\ m.rows = {} /\ m.before = {} /\ m.reply = "none"
    BY NoRequestOK, ZenonT(60) DEF Record
  <2>b. n = [m EXCEPT !.endpoint = e, !.url = u, !.status = s]
    OBVIOUS
  <2> HIDE DEF m
  <2>2. n \in Record /\ n.rows = {} /\ n.before \subseteq subs /\ n.reply = "none"
    BY <2>a, <2>b, ZenonT(60) DEF Record
  <2>3. RequestOK(n) /\ n.pc \notin Replacing
    BY ApiConstants DEF NoRequest, RequestOK, Replacing, TookEffect
  <2>4. Arrive(q, n) /\ UNCHANGED <<url, subs, now>>
    BY <1>3, <2>1 DEF ArriveUpdate
  <2> HIDE DEF n
  <2> QED
    BY <1>1, <2>2, <2>3, <2>4
<1>4. CASE ArrivePut(q)
  <2>1. PICK e \in Endpoints, T \in SUBSET Types :
            Arrive(q, [NoRequest EXCEPT !.pc = "find", !.op = "put", !.endpoint = e, !.types = T,
                                        !.before = RowsOf(e)])
    BY <1>4 DEF ArrivePut
  <2> DEFINE R == RowsOf(e)
             n == [NoRequest EXCEPT !.pc = "find", !.op = "put", !.endpoint = e, !.types = T,
                                    !.before = R]
             m == [NoRequest EXCEPT !.pc = "find", !.op = "put"]
  <2>a. m \in Record /\ m.rows = {} /\ m.reply = "none"
    BY NoRequestOK, ZenonT(60) DEF Record
  <2>b. n = [m EXCEPT !.endpoint = e, !.types = T, !.before = R]
    OBVIOUS
  <2>c. R \subseteq subs /\ R \in SUBSET Row /\ \A s \in R : s[1] = e
    BY DEF RowsOf, ApiInv, TypeInv
  <2> HIDE DEF m, R
  <2>2. n \in Record /\ n.rows = {} /\ n.before \subseteq subs /\ n.reply = "none"
    BY <2>a, <2>b, <2>c, ZenonT(60) DEF Record
  <2>3. RequestOK(n) /\ n.pc \notin Replacing
    BY ApiConstants, <2>c DEF NoRequest, RequestOK, Replacing, TookEffect
  <2>4. Arrive(q, n) /\ UNCHANGED <<url, subs, now>>
    BY <1>4, <2>1 DEF ArrivePut, R
  <2> HIDE DEF n
  <2> QED
    BY <1>1, <2>2, <2>3, <2>4
<1>5. CASE ArrivePublish(q)
  <2>1. PICK t \in Types :
            Arrive(q, [NoRequest EXCEPT !.pc = "targets", !.op = "publish", !.types = {t},
                                        !.at = now])
    BY <1>5 DEF ArrivePublish
  <2> DEFINE n == [NoRequest EXCEPT !.pc = "targets", !.op = "publish", !.types = {t}, !.at = now]
  <2>2. n \in Record /\ n.rows = {} /\ n.before \subseteq subs /\ n.reply = "none"
    BY NoRequestOK, ZenonT(60) DEF Record, ApiInv, TypeInv
  <2>3. RequestOK(n) /\ n.pc \notin Replacing
    BY ApiConstants DEF NoRequest, RequestOK, Replacing, TookEffect
  <2>4. Arrive(q, n) /\ UNCHANGED <<url, subs, now>>
    BY <1>5, <2>1 DEF ArrivePublish
  <2> HIDE DEF n
  <2> QED
    BY <1>1, <2>2, <2>3, <2>4
<1> QED
  BY <1>2, <1>3, <1>4, <1>5

\* findScoped, the check of the URL and the lookup: a URL that goes on has passed.
LEMMA CheckStep ==
    ASSUME NEW q \in Requests, ApiInv, FindScoped(q) \/ CheckUrl(q) \/ LookupUrl(q)
    PROVE  ApiInv'
<1>1. req[q] \in Record /\ RequestOK(req[q])
  BY DEF ApiInv, TypeInv
<1>2. CASE FindScoped(q)
  <2>1. req[q].pc = "find" /\ req[q].op \in {"update", "put"} /\ UNCHANGED <<url, subs, now>>
    BY <1>1, <1>2 DEF FindScoped, RequestOK
  <2>2. CASE Reply(q, "ENDPOINT_NOT_FOUND")
    BY <2>1, <2>2, ReplyStep
  <2>3. CASE Goto(q, "scan") /\ req[q].op = "put"
    <3>1. [req[q] EXCEPT !.pc = "scan"] \in Record /\ RequestOK([req[q] EXCEPT !.pc = "scan"])
      BY <1>1, <2>1, <2>3 DEF Record, RequestOK, TookEffect
    <3> QED
      BY <2>1, <2>3, <3>1, GotoStep DEF Replacing
  <2>4. CASE Goto(q, "check") /\ req[q].op = "update" /\ req[q].url # None
    <3>1. [req[q] EXCEPT !.pc = "check"] \in Record /\ RequestOK([req[q] EXCEPT !.pc = "check"])
      BY <1>1, <2>1, <2>4 DEF Record, RequestOK, TookEffect
    <3> QED
      BY <2>1, <2>4, <3>1, GotoStep DEF Replacing
  <2>5. CASE Goto(q, "write") /\ req[q].op = "update" /\ req[q].url = None
    <3>1. [req[q] EXCEPT !.pc = "write"] \in Record /\ RequestOK([req[q] EXCEPT !.pc = "write"])
      BY <1>1, <2>1, <2>5 DEF Record, RequestOK, TookEffect
    <3> QED
      BY <2>1, <2>5, <3>1, GotoStep DEF Replacing
  <2> QED
    BY <1>2, <2>1, <2>2, <2>3, <2>4, <2>5 DEF FindScoped
<1>3. CASE CheckUrl(q)
  <2>1. /\ req[q].pc = "check" /\ req[q].op \in {"create", "update"} /\ req[q].url # None
        /\ UNCHANGED <<url, subs, now>>
    BY <1>1, <1>3 DEF CheckUrl, RequestOK
  <2>2. CASE Reply(q, "UNSAFE_ENDPOINT_URL")
    BY <2>1, <2>2, ReplyStep
  <2>3. CASE Deliverable(req[q].url) /\ Goto(q, "lookup") /\ req[q].op = "create"
    <3>1. [req[q] EXCEPT !.pc = "lookup"] \in Record /\ RequestOK([req[q] EXCEPT !.pc = "lookup"])
      BY <1>1, <2>1, <2>3 DEF Record, RequestOK, TookEffect
    <3> QED
      BY <2>1, <2>3, <3>1, GotoStep DEF Replacing
  <2>4. CASE Deliverable(req[q].url) /\ Goto(q, "write") /\ req[q].op = "update"
    <3>1. [req[q] EXCEPT !.pc = "write"] \in Record /\ RequestOK([req[q] EXCEPT !.pc = "write"])
      BY <1>1, <2>1, <2>4 DEF Record, RequestOK, TookEffect
    <3> QED
      BY <2>1, <2>4, <3>1, GotoStep DEF Replacing
  <2> QED
    BY <1>3, <2>1, <2>2, <2>3, <2>4 DEF CheckUrl, Deliverable
<1>4. CASE LookupUrl(q)
  <2>1. req[q].pc = "lookup" /\ UNCHANGED <<url, subs, now>>
    BY <1>4 DEF LookupUrl
  <2>2. CASE Reply(q, "ENDPOINT_URL_EXISTS")
    BY <2>1, <2>2, ReplyStep
  <2>3. CASE Goto(q, "insert")
    <3>1. [req[q] EXCEPT !.pc = "insert"] \in Record /\ RequestOK([req[q] EXCEPT !.pc = "insert"])
      BY <1>1, <2>1 DEF Record, RequestOK, TookEffect
    <3> QED
      BY <2>1, <2>3, <3>1, GotoStep DEF Replacing
  <2> QED
    BY <1>4, <2>2, <2>3 DEF LookupUrl
<1> QED
  BY <1>2, <1>3, <1>4
\* Storing a URL that passed the check and that no other endpoint has.
LEMMA StoreUrl ==
    ASSUME NEW q \in Requests, NEW e \in Endpoints, NEW u \in Urls, ApiInv, Moved(q),
           PutOK(req'[q], subs, req), UNCHANGED <<subs, now>>,
           url' = [url EXCEPT ![e] = u], ~UrlTaken(u, e), Deliverable(u)
    PROVE  ApiInv'
<1>1. url' \in [Endpoints -> Urls \cup {Initial[f] : f \in DOMAIN Initial} \cup {None}]
  BY DEF ApiInv, TypeInv
<1>2. url'[e] = u /\ \A f \in Endpoints \ {e} : url'[f] = url[f]
  BY DEF ApiInv, TypeInv
<1>3. TypeInv'
  BY <1>1, MovedStable DEF ApiInv, TypeInv, Moved
<1>4. UrlUnique'
  BY <1>2 DEF ApiInv, UrlUnique, UrlTaken
<1>5. StoredUrlSafe'
  BY <1>2 DEF ApiInv, StoredUrlSafe, Deliverable
<1>6. PutInv'
  <2>1. Whole(subs', req')
    BY MovedStable, WholeStable DEF ApiInv, PutInv
  <2>2. ASSUME NEW p \in Requests PROVE PutOK(req'[p], subs', req')
    <3>1. PutOK(req'[p], subs, req)
      BY DEF ApiInv, PutInv, Moved
    <3> QED
      BY <3>1, MovedStable, PutStable DEF ApiInv
  <2> QED
    BY <2>1, <2>2 DEF PutInv
<1>7. EmptyInv'
  BY MovedStable DEF ApiInv, EmptyInv
<1> QED
  BY <1>3, <1>4, <1>5, <1>6, <1>7 DEF ApiInv

\* create and update: what the unique index lets through is unique, and what
\* reaches it passed the check.
LEMMA WriteStep ==
    ASSUME NEW q \in Requests, ApiInv, InsertEndpoint(q) \/ WriteEndpoint(q)
    PROVE  ApiInv'
<1>1. req[q] \in Record /\ RequestOK(req[q]) /\ TypeInv
  BY DEF ApiInv, TypeInv
<1>2. q \in Endpoints
  BY DEF Endpoints
<1>3. CASE InsertEndpoint(q)
  <2>1. /\ req[q].pc = "insert" /\ req[q].url \in Urls /\ Deliverable(req[q].url)
        /\ req[q].op # "put" /\ UNCHANGED <<subs, now>>
    BY <1>1, <1>3 DEF InsertEndpoint, RequestOK, Record
  <2>2. CASE Reply(q, "INTERNAL_ERROR") /\ UNCHANGED url
    BY <2>1, <2>2, ReplyStep
  <2>3. ASSUME NEW r \in {"CREATED", "REPLY_LOST"}, Reply(q, r), ~UrlTaken(req[q].url, q),
               url' = [url EXCEPT ![q] = req[q].url]
        PROVE  ApiInv'
    <3>1. Moved(q) /\ PutOK(req'[q], subs, req)
      BY <2>1, <2>3, ReplyKeeps
    <3> QED
      BY <1>2, <2>1, <2>3, <3>1, StoreUrl
  <2> QED
    BY <1>3, <2>2, <2>3 DEF InsertEndpoint, ReplyWritten
<1>4. CASE WriteEndpoint(q)
  <2> DEFINE e == req[q].endpoint
             u == req[q].url
  <2>1. /\ req[q].pc = "write" /\ e \in Endpoints /\ u \in Urls \cup {None}
        /\ u # None => Deliverable(u)
        /\ req[q].op # "put" /\ UNCHANGED <<subs, now>>
    BY <1>1, <1>4 DEF WriteEndpoint, RequestOK, Record
  <2>2. CASE Reply(q, "INTERNAL_ERROR") /\ UNCHANGED url
    BY <2>1, <2>2, ReplyStep
  <2>3. ASSUME NEW r \in {"OK", "REPLY_LOST"}, Reply(q, r), u = None,
               url' = [url EXCEPT ![e] = url[e]]
        PROVE  ApiInv'
    <3>1. url' = url
      BY <1>1, <2>1, <2>3 DEF TypeInv
    <3> QED
      BY <2>1, <2>3, <3>1, ReplyStep
  <2>4. ASSUME NEW r \in {"OK", "REPLY_LOST"}, Reply(q, r), u # None, ~UrlTaken(u, e),
               url' = [url EXCEPT ![e] = u]
        PROVE  ApiInv'
    <3>1. Moved(q) /\ PutOK(req'[q], subs, req)
      BY <2>1, <2>4, ReplyKeeps
    <3> QED
      BY <2>1, <2>4, <3>1, StoreUrl
  <2> QED
    BY <1>4, <2>2, <2>3, <2>4 DEF WriteEndpoint, ReplyWritten
<1> QED
  BY <1>3, <1>4

\* setSubscriptions up to its commit: the rows that it takes are whole bodies of its
\* endpoint.
LEMMA PutStep ==
    ASSUME NEW q \in Requests, ApiInv, ScanRows(q) \/ DeleteRows(q) \/ InsertRows(q)
    PROVE  ApiInv'
<1>1. req[q] \in Record /\ RequestOK(req[q]) /\ TypeInv /\ PutInv
  BY DEF ApiInv, TypeInv
<1>2. CASE ScanRows(q)
  <2> DEFINE R == RowsOf(req[q].endpoint)
             n == [req[q] EXCEPT !.rows = R, !.pc = "delete"]
  <2>1. /\ req[q].pc = "scan" /\ req' = [req EXCEPT ![q] = n] /\ UNCHANGED <<url, subs, now>>
    BY <1>1, <1>2 DEF ScanRows, TypeInv
  <2>2. R \in SUBSET Row /\ \A r \in R : r[1] = req[q].endpoint
    BY <1>1 DEF TypeInv, RowsOf
  <2>3. Whole(R, req)
    BY <1>1, WholeOf DEF PutInv, RowsOf
  <2>a. req[q].before \cap subs \subseteq R
    BY <1>1 DEF RequestOK, RowsOf
  <2> HIDE DEF R
  <2>4. /\ n \in Record /\ n.rows = R /\ n.before = req[q].before /\ n.reply = req[q].reply
    BY <1>1, <2>2 DEF Record
  <2>5. RequestOK(n)
    BY <1>1, <2>1, <2>2 DEF RequestOK, Record, TookEffect
  <2> HIDE DEF n
  <2>6. Moved(q) /\ req'[q] = n
    BY <1>1, <2>1, <2>4, <2>5, RecordMoves
  <2>7. PutOK(n, subs, req)
    BY <1>1, <2>1, <2>3, <2>a, <2>4 DEF PutInv, PutOK, RequestOK, TookEffect
  <2> QED
    BY <1>1, <2>1, <2>6, <2>7, ReadStep DEF TypeInv
<1>3. CASE DeleteRows(q)
  <2> DEFINE R == req[q].rows \cap subs
             n == [req[q] EXCEPT !.rows = R, !.pc = "insertRows"]
  <2>1. /\ req[q].pc = "delete" /\ req' = [req EXCEPT ![q] = n] /\ UNCHANGED <<url, subs, now>>
    BY <1>1, <1>3 DEF DeleteRows, TypeInv
  <2>2. R \in SUBSET Row /\ \A r \in R : r[1] = req[q].endpoint
    BY <1>1 DEF TypeInv, RequestOK
  <2>3. Whole(R, req)
    BY <1>1, WholeMeet DEF PutInv, PutOK
  <2>a. req[q].before \cap subs \subseteq R
    BY <1>1, <2>1 DEF PutInv, PutOK, Replacing
  <2> HIDE DEF R
  <2>4. n \in Record /\ n.rows = R /\ n.before = req[q].before /\ n.reply = req[q].reply
    BY <1>1, <2>2 DEF Record
  <2>5. RequestOK(n)
    BY <1>1, <2>1, <2>2 DEF RequestOK, Record, TookEffect
  <2> HIDE DEF n
  <2>6. Moved(q) /\ req'[q] = n
    BY <1>1, <2>1, <2>4, <2>5, RecordMoves
  <2>7. PutOK(n, subs, req)
    BY <1>1, <2>1, <2>3, <2>a, <2>4 DEF PutInv, PutOK, RequestOK, TookEffect
  <2> QED
    BY <1>1, <2>1, <2>6, <2>7, ReadStep DEF TypeInv
<1>4. CASE InsertRows(q)
  <2>1. req[q].pc = "insertRows" /\ UNCHANGED <<url, subs, now>>
    BY <1>4 DEF InsertRows
  <2>2. CASE Reply(q, "INTERNAL_ERROR")
    BY <2>1, <2>2, ReplyStep
  <2>3. CASE Goto(q, "commitRows")
    <3>1. /\ [req[q] EXCEPT !.pc = "commitRows"] \in Record
          /\ RequestOK([req[q] EXCEPT !.pc = "commitRows"])
      BY <1>1, <2>1 DEF Record, RequestOK, TookEffect
    <3> QED
      BY <2>1, <2>3, <3>1, GotoStep DEF Replacing
  <2> QED
    BY <1>4, <2>2, <2>3 DEF InsertRows
<1> QED
  BY <1>2, <1>3, <1>4
\* The commit takes whole bodies away and adds one, of a request that has then taken
\* effect.
LEMMA CommitStep ==
    ASSUME NEW q \in Requests, ApiInv, CommitRows(q)
    PROVE  ApiInv'
<1> DEFINE e == req[q].endpoint
           T == req[q].types
           new == {<<e, t, q>> : t \in T}
<1>1. req[q] \in Record /\ RequestOK(req[q]) /\ TypeInv /\ PutInv
  BY DEF ApiInv, TypeInv
<1>2. /\ req[q].pc = "commitRows" /\ req[q].op = "put" /\ e \in Endpoints
      /\ T \in SUBSET Types /\ req[q].rows \in SUBSET Row
      /\ \A r \in req[q].rows : r[1] = e
  BY <1>1 DEF CommitRows, RequestOK, Record
<1>a. PICK reply \in {"OK", "REPLY_LOST"} : Reply(q, reply)
  BY DEF CommitRows, ReplyWritten
<1>3. subs' = (subs \ req[q].rows) \cup new /\ UNCHANGED <<url, now>>
  <2>1. Inserted(q) = {e} \X T
    BY <1>2 DEF Inserted
  <2>2. {<<k[1], k[2], q>> : k \in {e} \X T} = new
    <3>1. \A k \in {e} \X T : k[1] = e /\ k[2] \in T
      OBVIOUS
    <3>2. \A t \in T : <<e, t>> \in {e} \X T /\ <<e, t>>[1] = e /\ <<e, t>>[2] = t
      OBVIOUS
    <3>3. ASSUME NEW x \in new PROVE x \in {<<k[1], k[2], q>> : k \in {e} \X T}
      <4>1. PICK t \in T : x = <<e, t, q>>
        OBVIOUS
      <4>2. <<e, t>> \in {e} \X T /\ x = <<<<e, t>>[1], <<e, t>>[2], q>>
        BY <3>2, <4>1
      <4>3. \E k \in {e} \X T : x = <<k[1], k[2], q>>
        BY <4>2
      <4> QED
        BY <4>3, Zenon
    <3>4. ASSUME NEW x \in {<<k[1], k[2], q>> : k \in {e} \X T} PROVE x \in new
      BY <3>1
    <3> QED
      BY <3>3, <3>4
  <2> QED
    BY <2>1, <2>2 DEF CommitRows
<1>4. Moved(q) /\ req'[q] = [req[q] EXCEPT !.pc = "done", !.reply = reply]
  BY <1>1, <1>2, <1>a, ReplyMoves
<1>5. /\ req'[q].op = "put" /\ req'[q].endpoint = e /\ req'[q].types = T
      /\ TookEffect(req'[q]) /\ req'[q].pc = "done"
      /\ req'[q].rows = req[q].rows /\ req'[q].before = req[q].before
  BY <1>1, <1>2, <1>4 DEF Record, TookEffect
<1>6. new \subseteq Row
  BY <1>2 DEF Row
<1>7. TypeInv'
  BY <1>1, <1>3, <1>4, <1>6, MovedStable DEF TypeInv, Moved
<1>8. UrlUnique' /\ StoredUrlSafe'
  BY <1>3 DEF ApiInv, UrlUnique, StoredUrlSafe
<1>9. PutInv'
  <2>1. Whole(subs \ req[q].rows, req)
    BY <1>1, <1>2, WholeMinus DEF PutInv, PutOK, TypeInv
  <2>2. Whole(subs \ req[q].rows, req')
    BY <2>1, <1>1, <1>4, MovedStable, WholeStable
  <2>3. Whole(new, req')
    <3> SUFFICES ASSUME NEW t \in T
                 PROVE  Genuine(<<e, t, q>>, req') /\ Siblings(<<e, t, q>>, req') \subseteq new
      BY DEF Whole
    <3>1. q # None
      BY ApiConstants
    <3> QED
      BY <1>5, <3>1 DEF Genuine, Siblings
  <2>4. Whole(subs', req')
    BY <1>3, <2>2, <2>3 DEF Whole
  <2>5. ASSUME NEW p \in Requests PROVE req[p].before \cap new = {}
    <3>1. \A s \in req[p].before : Genuine(s, req)
      BY <1>1 DEF PutInv, PutOK
    <3>2. \A s \in new : s[3] = q /\ q # None /\ ~TookEffect(req[q])
      BY <1>4, ApiConstants DEF Moved
    <3> QED
      BY <3>1, <3>2 DEF Genuine
  <2>6. ASSUME NEW p \in Requests \ {q} PROVE PutOK(req'[p], subs', req')
    <3>1. PutOK(req[p], subs, req) /\ req'[p] = req[p]
      BY <1>1, <1>4 DEF PutInv, Moved
    <3>2. req[p].before \cap subs' \subseteq subs
      BY <1>3, <2>5
    <3> QED
      BY <1>1, <1>4, <3>1, <3>2, MovedStable, PutStable
  <2>7. PutOK(req'[q], subs', req')
    <3>1. PutOK(req[q], subs, req)
      BY <1>1 DEF PutInv
    <3>2. req[q].before \cap subs' = {}
      BY <1>2, <1>3, <2>5, <3>1 DEF PutOK, Replacing
    <3>3. Whole(req[q].rows, req')
      BY <1>1, <1>4, <3>1, MovedStable, WholeStable DEF PutOK
    <3>4. \A s \in req[q].before : Genuine(s, req')
      BY <1>1, <1>4, <3>1, MovedStable DEF PutOK, Genuine
    <3> QED
      BY <1>5, <3>2, <3>3, <3>4 DEF PutOK, Replacing
  <2> QED
    BY <2>4, <2>6, <2>7 DEF PutInv
<1>10. EmptyInv'
  <2> SUFFICES ASSUME NEW f \in Endpoints PROVE {} \in BodiesOf(f)' \/ \E r \in subs' : r[1] = f
    BY DEF EmptyInv
  <2>1. CASE f = e /\ T = {}
    BY <1>5, <2>1 DEF BodiesOf
  <2>2. CASE f = e /\ T # {}
    <3>1. PICK t \in T : TRUE
      BY <2>2
    <3>2. <<e, t, q>> \in subs'
      BY <1>3
    <3> QED
      BY <2>2, <3>2
  <2>3. CASE f # e
    <3>1. BodiesOf(f) \subseteq BodiesOf(f)'
      BY <1>1, <1>4, MovedStable
    <3>2. \A r \in subs : r[1] = f => r \in subs'
      BY <1>2, <1>3, <2>3
    <3> QED
      BY <3>1, <3>2 DEF ApiInv, EmptyInv
  <2> QED
    BY <2>1, <2>2, <2>3
<1> QED
  BY <1>7, <1>8, <1>9, <1>10 DEF ApiInv

\* publish, an error of a statement: nothing that is stored here changes.
LEMMA PublishStep ==
    ASSUME NEW q \in Requests, ApiInv, ReadTargets(q) \/ CommitPublish(q) \/ StatementError(q)
    PROVE  ApiInv'
<1>1. req[q] \in Record /\ RequestOK(req[q]) /\ TypeInv /\ PutInv
  BY DEF ApiInv, TypeInv
<1>2. CASE ReadTargets(q)
  <2> DEFINE targets == {e \in Endpoints : /\ url[e] # None
                                           /\ status[e] = "ACTIVE"
                                           /\ \E r \in subs : r[1] = e /\ r[2] \in req[q].types}
             n == [req[q] EXCEPT !.targets = targets, !.pc = "commit"]
  <2>1. req[q].pc = "targets" /\ req' = [req EXCEPT ![q] = n] /\ UNCHANGED <<url, subs, now>>
    BY <1>1, <1>2 DEF ReadTargets, TypeInv
  <2>2. targets \in SUBSET Endpoints
    OBVIOUS
  <2> HIDE DEF targets
  <2>3. /\ n \in Record /\ n.rows = req[q].rows /\ n.before = req[q].before
        /\ n.op = req[q].op /\ n.reply = req[q].reply /\ n.pc = "commit"
    BY <1>1, <2>2 DEF Record
  <2>4. RequestOK(n)
    BY <1>1, <2>1 DEF RequestOK, Record, TookEffect
  <2> HIDE DEF n
  <2>5. Moved(q) /\ req'[q] = n
    BY <1>1, <2>1, <2>3, <2>4, RecordMoves
  <2>6. PutOK(n, subs, req)
    BY <1>1, <2>3 DEF PutInv, PutOK, Replacing, TookEffect
  <2> QED
    BY <1>1, <2>1, <2>5, <2>6, ReadStep DEF TypeInv
<1>3. CASE CommitPublish(q)
  <2>1. /\ req[q].pc = "commit" /\ req[q].op # "put" /\ UNCHANGED <<url, subs, now>>
        /\ \E r \in {"ACCEPTED", "REPLY_LOST"} : Reply(q, r)
    BY <1>1, <1>3 DEF CommitPublish, ReplyWritten, RequestOK
  <2> QED
    BY <2>1, ReplyStep
<1>4. CASE StatementError(q)
  <2>1. req[q].pc # "done" /\ Reply(q, "INTERNAL_ERROR") /\ UNCHANGED <<url, subs, now>>
    BY <1>4 DEF StatementError
  <2> QED
    BY <2>1, ReplyStep
<1> QED
  BY <1>2, <1>3, <1>4

\* What the invariant says does not depend on the deliveries.
LEMMA ApiFrame ==
    ASSUME ApiInv, UNCHANGED <<url, subs, req>>, now' \in 0 .. MaxClock
    PROVE  ApiInv'
<1>1. TypeInv'
  BY DEF ApiInv, TypeInv
<1>2. UrlUnique' /\ StoredUrlSafe' /\ PutInv'
  BY DEF ApiInv, UrlUnique, StoredUrlSafe, PutInv
<1>3. EmptyInv'
  BY DEF ApiInv, EmptyInv, BodiesOf
<1> QED
  BY <1>1, <1>2, <1>3 DEF ApiInv

LEMMA ApiStep == ASSUME ApiInv, Next PROVE ApiInv'
<1>1. CASE Tick
  <2>1. now' \in 0 .. MaxClock
    BY <1>1, ApiConstants DEF Tick, ApiInv, TypeInv
  <2> QED
    BY <1>1, <2>1, ApiFrame DEF Tick
<1>2. ASSUME NEW q \in Requests, Request(q) PROVE ApiInv'
  BY <1>2, ArriveStep, CheckStep, WriteStep, PutStep, CommitStep, PublishStep DEF Request
<1> QED
  BY <1>1, <1>2 DEF Next

\* What is subscribed is a union of bodies, since the rows are whole bodies.
LEMMA WholeIsSeen == ApiInv => WholePutsSeen
<1> SUFFICES ASSUME ApiInv, NEW e \in Endpoints
             PROVE  \E B \in SUBSET BodiesOf(e) : B # {} /\ TypesOf(e) = UNION B
  BY DEF WholePutsSeen
<1> DEFINE R == {r \in subs : r[1] = e}
           Body(r) == IF r[3] = None THEN InitialTypes ELSE req[r[3]].types
<1>1. \A r \in R : Genuine(r, req) /\ Siblings(r, req) \subseteq R
  BY WholeOf DEF ApiInv, PutInv, Whole
<1>2. TypesOf(e) = {r[2] : r \in R}
  BY DEF TypesOf, RowsOf
<1>3. \A r \in R : r[1] = e
  OBVIOUS
<1>4. CASE R = {}
  <2>1. {} \in BodiesOf(e)
    BY <1>4 DEF ApiInv, EmptyInv
  <2>2. TypesOf(e) = UNION {{}}
    BY <1>2, <1>4
  <2> QED
    BY <2>1, <2>2
<1>5. CASE R # {}
  <2> DEFINE B == {Body(r) : r \in R}
  <2>1. B # {}
    BY <1>5
  <2>2. ASSUME NEW r \in R PROVE Body(r) \in BodiesOf(e) /\ r[2] \in Body(r)
    BY <1>1, <1>3, EndpointApiAssumption DEF Genuine, BodiesOf
  <2>3. ASSUME NEW r \in R, NEW t \in Body(r) PROVE t \in TypesOf(e)
    <3>1. <<r[1], t, r[3]>> \in R
      BY <1>1 DEF Siblings
    <3> QED
      BY <1>2, <3>1
  <2> HIDE DEF R, Body
  <2>4. TypesOf(e) = UNION B
    BY <1>2, <2>2, <2>3
  <2> QED
    BY <2>1, <2>2, <2>4
<1> QED
  BY <1>4, <1>5

LEMMA ReplacedIsGone == ApiInv => PutsReplace
  BY DEF ApiInv, PutInv, PutOK, PutsReplace

LEMMA ApiInvariant == Spec => []ApiInv
<1>1. ApiInv /\ [Next]_vars => ApiInv'
  <2> SUFFICES ASSUME ApiInv, [Next]_vars PROVE ApiInv'
    OBVIOUS
  <2>1. CASE UNCHANGED vars
    BY <2>1, ApiFrame DEF vars, ApiInv, TypeInv
  <2> QED
    BY <2>1, ApiStep
<1> QED
  BY <1>1, ApiInit, PTL DEF Spec

-----------------------------------------------------------------------------
(* Results *)

\* No two endpoints of the tenant have the same URL, however creates and updates
\* race: the index decides, not the lookup of create.
THEOREM UrlsAreUnique == Spec => []UrlUnique
<1>1. ApiInv => UrlUnique
  BY DEF ApiInv
<1> QED
  BY <1>1, ApiInvariant, PTL

\* Every stored URL passed assertDeliverableUrl.
THEOREM StoredUrlsPassed == Spec => []StoredUrlSafe
<1>1. ApiInv => StoredUrlSafe
  BY DEF ApiInv
<1> QED
  BY <1>1, ApiInvariant, PTL

\* A publish sees the subscriptions of an endpoint as a union of whole bodies of PUTs
\* that took effect, those whose reply was lost included.
THEOREM BodiesAreWhole == Spec => []WholePutsSeen
  BY ApiInvariant, WholeIsSeen, PTL

\* A PUT that took effect leaves no row that was there when it was sent, however it
\* waits for other PUTs and whether those commit or are rolled back.
THEOREM EarlierPutsReplaced == Spec => []PutsReplace
  BY ApiInvariant, ReplacedIsGone, PTL
=============================================================================
