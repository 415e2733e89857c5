-------------------------- MODULE TenantApiProofs --------------------------
(***************************************************************************)
(* Proofs about TenantApi, for any number of requests, idempotency keys    *)
(* and API keys and every Env.                                             *)
(***************************************************************************)
EXTENDS TenantApi, TLAPS

\* The transaction that is about to commit an event owns the unique value, and
\* nobody has committed one before.
InsertInv ==
    \A r \in Requests :
        pc[r] \in {"consume", "insert", "commit", "lookup"} =>
            /\ ikey[r] \in IdemKeys
            /\ pc[r] = "commit" => inserting[ikey[r]] = r /\ events[ikey[r]] = None

\* Locked rows are ACTIVE: nobody else changes a row under its lock.
LockInv == \A k \in Keys : locked[k] # None => keys[k] = "ACTIVE"

\* What a guard found expired stays expired.
RevokeInv ==
    \A r \in Requests :
        pc[r] = "revoke" => keys[cred[r]] \in {"GRACE", "REVOKED"} /\ cred[r] \in graceOver

\* A request has no response before it is done.
ReplyInv == \A r \in Requests : pc[r] # "done" => reply[r].code = "none"

ApiInv ==
    /\ TypeOK
    /\ InsertInv
    /\ LockInv
    /\ RevokeInv
    /\ ReplyInv
    /\ RepliesAgree
    /\ KeyAlwaysWorks

USE DEF keyVars, eventVars, rateVars, reqVars

\* The initial state: one ACTIVE key, no request.
LEMMA ApiInit == Init => ApiInv
<1> USE ApiAssumption
<1> SUFFICES ASSUME Init PROVE ApiInv
  OBVIOUS
<1>1. TypeOK
  BY DEF Init, TypeOK, KeyStatus, PCs, Codes
<1>2. InsertInv /\ LockInv /\ RevokeInv /\ ReplyInv
  BY DEF Init, InsertInv, LockInv, RevokeInv, ReplyInv
<1>3. RepliesAgree
  BY DEF Init, RepliesAgree
<1>4. KeyAlwaysWorks
  BY DEF Init, KeyAlwaysWorks
<1> QED
  BY <1>1, <1>2, <1>3, <1>4 DEF ApiInv

\* A request that is refused changes nothing but its reply and, perhaps, the window.
LEMMA Refused ==
    ASSUME ApiInv, NEW r \in Requests, NEW c \in Codes \ {"202", "409"},
           Respond(r, c, None),
           UNCHANGED <<keyVars, eventVars, reqVars>>, count' \in Nat, armed' \in BOOLEAN
    PROVE  ApiInv'
<1> USE ApiAssumption DEF ApiInv, Respond, Goto
<1>1. TypeOK'
  BY DEF TypeOK, PCs
<1>2. InsertInv' /\ LockInv' /\ KeyAlwaysWorks'
  BY DEF TypeOK, InsertInv, LockInv, KeyAlwaysWorks
<1>3. RevokeInv' /\ ReplyInv'
  BY DEF TypeOK, RevokeInv, ReplyInv
<1>4. RepliesAgree'
  BY DEF TypeOK, RepliesAgree
<1> QED
  BY <1>1, <1>2, <1>3, <1>4

\* A request that goes on to an await before its transaction changes nothing else,
\* except, perhaps, the window and its snapshot.
LEMMA GoesOn ==
    ASSUME ApiInv, NEW r \in Requests, pc[r] # "done",
           NEW l \in {"consume", "insert", "lookup", "rotScan", "rotLock"},
           l \in {"consume", "insert", "lookup"} => ikey[r] \in IdemKeys,
           Goto(r, l),
           UNCHANGED <<keyVars, eventVars, cred, ikey, reply>>,
           snap' \in [Requests -> SUBSET Keys], count' \in Nat, armed' \in BOOLEAN
    PROVE  ApiInv'
<1> USE ApiAssumption DEF ApiInv, Goto
<1>1. TypeOK'
  BY DEF TypeOK, PCs
<1>2. InsertInv' /\ LockInv' /\ KeyAlwaysWorks'
  BY DEF TypeOK, InsertInv, LockInv, KeyAlwaysWorks
<1>3. RevokeInv' /\ ReplyInv' /\ RepliesAgree'
  BY DEF TypeOK, RevokeInv, ReplyInv, RepliesAgree
<1> QED
  BY <1>1, <1>2, <1>3

\* Every step of the API, of a client or of the clock preserves the invariant.
LEMMA ApiStep == ApiInv /\ [Next]_vars => ApiInv'
<1> USE ApiAssumption
<1> SUFFICES ASSUME ApiInv, [Next]_vars PROVE ApiInv'
  OBVIOUS
<1> USE DEF ApiInv
<1>1. ASSUME NEW r \in Requests, NEW k \in Keys, NEW i \in IdemKeys \cup {None},
             Arrive(r, k, i)
      PROVE ApiInv'
  BY <1>1 DEF Arrive, Goto, TypeOK, PCs, InsertInv, LockInv, RevokeInv, ReplyInv,
              RepliesAgree, KeyAlwaysWorks
<1>2. ASSUME NEW r \in Requests, GuardRead(r) PROVE ApiInv'
  <2>1. CASE Respond(r, "401", None)
    BY <1>2, <2>1, Refused DEF GuardRead, TypeOK, Codes
  <2>2. CASE /\ keys[cred[r]] = "GRACE" /\ cred[r] \in graceOver
             /\ Goto(r, "revoke") /\ UNCHANGED reply
    BY <1>2, <2>2 DEF GuardRead, Goto, TypeOK, PCs, InsertInv, LockInv, RevokeInv, ReplyInv,
                      RepliesAgree, KeyAlwaysWorks
  <2>3. CASE Goto(r, IF ikey[r] = None THEN "rotScan" ELSE "consume") /\ UNCHANGED reply
    <3>1. ikey[r] # None => ikey[r] \in IdemKeys
      BY DEF TypeOK
    <3>2. PICK l \in {"rotScan", "consume"} :
              Goto(r, l) /\ (l = "consume" => ikey[r] \in IdemKeys)
      BY <2>3, <3>1
    <3> QED
      BY <1>2, <2>3, <3>2, GoesOn DEF GuardRead, TypeOK
  <2> QED
    BY <1>2, <2>1, <2>2, <2>3 DEF GuardRead
<1>3. ASSUME NEW r \in Requests, GuardRevoke(r) PROVE ApiInv'
  <2>1. PICK c \in {"401", "500"} : Respond(r, c, None)
    BY <1>3 DEF GuardRevoke
  <2> USE <1>3, <2>1 DEF GuardRevoke, Respond, Goto
  <2>2. TypeOK'
    BY DEF TypeOK, KeyStatus, PCs, Codes
  <2>3. InsertInv' /\ ReplyInv' /\ RepliesAgree'
    BY DEF TypeOK, InsertInv, ReplyInv, RepliesAgree
  <2>4. LockInv' /\ RevokeInv' /\ KeyAlwaysWorks'
    BY DEF TypeOK, LockInv, RevokeInv, KeyAlwaysWorks
  <2> QED
    BY <2>2, <2>3, <2>4
<1>4. ASSUME NEW r \in Requests, RejectInput(r) \/ QueryError(r) PROVE ApiInv'
  <2>1. PICK c \in {"400", "413", "500"} : Respond(r, c, None)
    BY <1>4 DEF RejectInput, QueryError
  <2> QED
    BY <1>4, <2>1, Refused DEF RejectInput, QueryError, TypeOK, Codes
<1>5. ASSUME NEW r \in Requests, Consume(r) PROVE ApiInv'
  <2>1. count' \in Nat /\ armed' \in BOOLEAN /\ snap' \in [Requests -> SUBSET Keys]
    BY <1>5 DEF Consume, TypeOK
  <2>2. CASE Respond(r, "429", None)
    BY <1>5, <2>1, <2>2, Refused DEF Consume, Codes
  <2>3. CASE Goto(r, "insert") /\ UNCHANGED reply
    BY <1>5, <2>1, <2>3, GoesOn DEF Consume, InsertInv
  <2> QED
    BY <1>5, <2>2, <2>3 DEF Consume
<1>6. ASSUME NEW r \in Requests, ConsumeError(r) PROVE ApiInv'
  <2>1. count' \in Nat /\ snap' \in [Requests -> SUBSET Keys]
    BY <1>6 DEF ConsumeError, TypeOK
  <2>2. armed' \in BOOLEAN
    BY <1>6, Zenon DEF ConsumeError, TypeOK
  <2> QED
    BY <1>6, <2>1, <2>2, GoesOn DEF ConsumeError, InsertInv
<1>7. ASSUME NEW r \in Requests, InsertEvent(r) PROVE ApiInv'
  BY <1>7 DEF InsertEvent, Goto, TypeOK, PCs, InsertInv, LockInv, RevokeInv, ReplyInv,
              RepliesAgree, KeyAlwaysWorks
<1>8. ASSUME NEW r \in Requests, CommitEvent(r) PROVE ApiInv'
  <2>1. PICK c \in {"202", "500"}, e \in {r, None} :
            Respond(r, c, e) /\ (c = "202" => e = r)
    BY <1>8 DEF CommitEvent
  <2> USE <1>8, <2>1 DEF CommitEvent, Respond, Goto
  <2>2. TypeOK'
    BY ZenonT(60) DEF TypeOK, PCs, Codes
  <2>3. ikey[r] \in IdemKeys /\ inserting[ikey[r]] = r /\ events[ikey[r]] = None
    BY DEF InsertInv
  <2>4. InsertInv'
    BY <2>3 DEF TypeOK, InsertInv
  <2>5. LockInv' /\ RevokeInv' /\ KeyAlwaysWorks'
    BY DEF TypeOK, LockInv, RevokeInv, KeyAlwaysWorks
  <2>6. ReplyInv' /\ RepliesAgree'
    BY <2>3 DEF TypeOK, ReplyInv, RepliesAgree
  <2> QED
    BY <2>2, <2>4, <2>5, <2>6
<1>9. ASSUME NEW r \in Requests, AbortEvent(r) PROVE ApiInv'
  BY <1>9 DEF AbortEvent, Respond, Goto, TypeOK, PCs, Codes, InsertInv, LockInv, RevokeInv,
              ReplyInv, RepliesAgree, KeyAlwaysWorks
<1>10. ASSUME NEW r \in Requests, LookupEvent(r) PROVE ApiInv'
  <2>1. CASE events[ikey[r]] = None
    BY <1>10, <2>1, Refused DEF LookupEvent, Codes, rateVars, TypeOK
  <2>2. CASE events[ikey[r]] # None
    <3> USE <1>10, <2>2 DEF LookupEvent, Respond, Goto
    <3>1. ikey[r] \in IdemKeys
      BY DEF InsertInv
    <3>2. TypeOK'
      <4>1. pc' \in [Requests -> PCs]
        BY DEF TypeOK, PCs
      <4>2. reply' = [reply EXCEPT ![r] = [code |-> "409", event |-> events[ikey[r]]]]
        OBVIOUS
      <4>3. [code |-> "409", event |-> events[ikey[r]]] \in [code : Codes, event : Requests \cup {None}]
        BY <3>1 DEF TypeOK, Codes
      <4>4. reply' \in [Requests -> [code : Codes, event : Requests \cup {None}]]
        BY <4>2, <4>3 DEF TypeOK
      <4> QED BY <4>1, <4>4 DEF TypeOK
    <3>3. InsertInv' /\ LockInv' /\ KeyAlwaysWorks'
      BY DEF TypeOK, InsertInv, LockInv, KeyAlwaysWorks
    <3>4. RevokeInv' /\ ReplyInv'
      BY DEF TypeOK, RevokeInv, ReplyInv
    <3>5. RepliesAgree'
      BY <3>1 DEF TypeOK, RepliesAgree
    <3> QED BY <3>2, <3>3, <3>4, <3>5
  <2> QED BY <2>1, <2>2
<1>11. ASSUME NEW r \in Requests, RotateScan(r) PROVE ApiInv'
  BY <1>11 DEF RotateScan, Goto, TypeOK, PCs, InsertInv, LockInv, RevokeInv, ReplyInv,
               RepliesAgree, KeyAlwaysWorks
<1>12. ASSUME NEW r \in Requests, RotateLock(r) PROVE ApiInv'
  BY <1>12 DEF RotateLock, Goto, TypeOK, PCs, InsertInv, LockInv, RevokeInv, ReplyInv,
               RepliesAgree, KeyAlwaysWorks
<1>13. ASSUME NEW r \in Requests, RotateCommit(r) PROVE ApiInv'
  <2>1. PICK c \in {"201", "500"} : Respond(r, c, None)
    BY <1>13 DEF RotateCommit
  <2> QED
    BY <1>13, <2>1 DEF RotateCommit, Demoted, Released, Respond, Goto, TypeOK, KeyStatus, PCs, Codes,
                       InsertInv, LockInv, RevokeInv, ReplyInv, RepliesAgree, KeyAlwaysWorks
<1>14. ASSUME NEW r \in Requests, RotateAbort(r) PROVE ApiInv'
  BY <1>14 DEF RotateAbort, Released, Respond, Goto, TypeOK, PCs, Codes, InsertInv, LockInv,
               RevokeInv, ReplyInv, RepliesAgree, KeyAlwaysWorks
<1>15. ASSUME NEW k \in Keys, GraceEnds(k) PROVE ApiInv'
  BY <1>15 DEF GraceEnds, TypeOK, InsertInv, LockInv, RevokeInv, ReplyInv, RepliesAgree,
               KeyAlwaysWorks
<1>16. CASE WindowEnds
  BY <1>16 DEF WindowEnds, TypeOK, InsertInv, LockInv, RevokeInv, ReplyInv, RepliesAgree,
               KeyAlwaysWorks
<1>17. CASE UNCHANGED vars
  BY <1>17 DEF vars, TypeOK, InsertInv, LockInv, RevokeInv, ReplyInv, RepliesAgree,
               KeyAlwaysWorks
<1> QED
  BY <1>1, <1>2, <1>3, <1>4, <1>5, <1>6, <1>7, <1>8, <1>9, <1>10, <1>11, <1>12, <1>13,
     <1>14, <1>15, <1>16, <1>17 DEF Next, Handle, Fail

\* The inductive invariant holds in every reachable state.
LEMMA ApiInvariant == Spec => []ApiInv
  BY ApiInit, ApiStep, PTL DEF Spec

\* Requests, keys, locks and the window keep their types under every interleaving.
THEOREM ApiTypeOK == Spec => []TypeOK
<1>1. ApiInv => TypeOK
  BY DEF ApiInv
<1> QED
  BY ApiInvariant, <1>1, PTL

\* Publishing is idempotent: every 202 and 409 names the one event of its key.
THEOREM PublishIsIdempotent == Spec => []RepliesAgree
<1>1. ApiInv => RepliesAgree
  BY DEF ApiInv
<1> QED
  BY ApiInvariant, <1>1, PTL

\* Concurrent rotations never leave the tenant without an ACTIVE key.
THEOREM TenantHasKey == Spec => []KeyAlwaysWorks
<1>1. ApiInv => KeyAlwaysWorks
  BY DEF ApiInv
<1> QED
  BY ApiInvariant, <1>1, PTL

\* No rotation and no late write of the guard cuts a grace period short.
THEOREM GraceIsGranted == Spec => GraceRespected
<1>1. ASSUME ApiInv, [Next]_vars
      PROVE [\A k \in Keys :
                keys'[k] # keys[k] =>
                    \/ keys[k] = "ABSENT" /\ keys'[k] = "ACTIVE"
                    \/ keys[k] = "ACTIVE" /\ keys'[k] = "GRACE"
                    \/ keys[k] = "GRACE" /\ keys'[k] = "REVOKED" /\ k \in graceOver]_vars
  <2> SUFFICES ASSUME NEW k \in Keys, keys'[k] # keys[k]
               PROVE \/ keys[k] = "ABSENT" /\ keys'[k] = "ACTIVE"
                     \/ keys[k] = "ACTIVE" /\ keys'[k] = "GRACE"
                     \/ keys[k] = "GRACE" /\ keys'[k] = "REVOKED" /\ k \in graceOver
    OBVIOUS
  <2>1. ASSUME NEW r \in Requests, GuardRevoke(r)
        PROVE keys[k] = "GRACE" /\ keys'[k] = "REVOKED" /\ k \in graceOver
    BY <1>1, <2>1 DEF ApiInv, TypeOK, GuardRevoke, RevokeInv
  <2>2. ASSUME NEW r \in Requests, RotateCommit(r)
        PROVE \/ keys[k] = "ABSENT" /\ keys'[k] = "ACTIVE"
              \/ keys[k] = "ACTIVE" /\ keys'[k] = "GRACE"
    BY <1>1, <2>2, ApiAssumption DEF ApiInv, TypeOK, RotateCommit, Demoted, LockInv
  <2> QED
    BY <1>1, <2>1, <2>2
       DEF Next, Handle, Fail, vars, Arrive, GuardRead, QueryError, RejectInput, Consume, ConsumeError,
           InsertEvent, CommitEvent, AbortEvent, LookupEvent, RotateScan, RotateLock,
           RotateAbort, GraceEnds, WindowEnds
<1> QED
  BY ApiInvariant, <1>1, PTL DEF Spec, GraceRespected
=============================================================================
