------------------------ MODULE CircuitBreakerProofs ------------------------
(***************************************************************************)
(* Proofs about CircuitBreaker, for any number of slots, any thresholds    *)
(* and every Env (DisableEarned: without reactivation).                    *)
(***************************************************************************)
EXTENDS CircuitBreaker, FiniteSetTheorems, TLAPS

\* A slot that won or runs for the probe key has read a count that had reached
\* OpenAfter, so what it writes back as HALF_OPEN is not a closed circuit.
ReadOpen ==
    \A w \in Slots : pc[w] \in {"probe", "halfOpen"} => current[w].failures >= OpenAfter

BreakerInv == TypeOK /\ ReadOpen /\ OpenIffThreshold

USE DEF storeVars, endpointVars, slotVars

\* A counter stays within its bound, and one more failure raises it unless it is there.
LEMMA Plus1Type ==
    ASSUME NEW n \in 0 .. Cap
    PROVE  Plus1(n) \in 0 .. Cap /\ n <= Plus1(n) /\ (Plus1(n) = n + 1 \/ Plus1(n) = Cap)
  BY BreakerAssumption DEF Plus1

\* What failure() stores is a snapshot whose state agrees with its count.
LEMMA onFailureType ==
    ASSUME NEW s \in Snapshot
    PROVE  /\ onFailure(s) \in Snapshot
           /\ onFailure(s).state = "CLOSED" <=> onFailure(s).failures < OpenAfter
           /\ onFailure(s).failures = Plus1(s.failures)
<1>1. Plus1(s.failures) \in 0 .. Cap
  BY Plus1Type DEF Snapshot
<1> QED
  BY <1>1, BreakerAssumption DEF onFailure, Snapshot

LEMMA EmptyCircuit ==
    /\ EMPTY_CIRCUIT \in Snapshot
    /\ EMPTY_CIRCUIT.state = "CLOSED" /\ EMPTY_CIRCUIT.failures = 0
    /\ EMPTY_CIRCUIT.failures < OpenAfter
  BY BreakerAssumption DEF EMPTY_CIRCUIT, Snapshot

\* The initial state: closed, nobody at it.
LEMMA BreakerInit == Init => BreakerInv
<1> SUFFICES ASSUME Init PROVE BreakerInv
  OBVIOUS
<1>1. TypeOK
  <2>1. probe \in BOOLEAN /\ healthy \in BOOLEAN
    BY DEF Init
  <2>2. pc \in [Slots -> PCs] /\ snapshot \in Snapshot
    BY EmptyCircuit DEF Init, PCs
  <2>3. current \in [Slots -> Snapshot]
    BY EmptyCircuit DEF Init
  <2>4. consecutiveFailures \in 0 .. Cap /\ observed \in 0 .. Cap /\ faults \in 0 .. MaxFaults
    BY BreakerAssumption DEF Init
  <2> QED
    BY <2>1, <2>2, <2>3, <2>4 DEF Init, TypeOK
<1>2. ReadOpen
  BY DEF Init, ReadOpen
<1>3. OpenIffThreshold
  BY EmptyCircuit DEF Init, OpenIffThreshold
<1> QED
  BY <1>1, <1>2, <1>3 DEF BreakerInv

\* Every step of a slot, of the clock or of an operator preserves the invariant.
LEMMA BreakerStep == BreakerInv /\ [Next]_vars => BreakerInv'
<1> USE BreakerAssumption
<1> SUFFICES ASSUME BreakerInv, [Next]_vars PROVE BreakerInv'
  OBVIOUS
<1> USE DEF BreakerInv, Goto
<1>1. ASSUME NEW w \in Slots, Begin(w) PROVE BreakerInv'
  BY <1>1 DEF Begin, TypeOK, PCs, ReadOpen, OpenIffThreshold
<1>2. ASSUME NEW w \in Slots, AllowRead(w) PROVE BreakerInv'
  <2>1. snapshot.state \in {"CLOSED", "OPEN", "HALF_OPEN"} /\ snapshot.cooled \in BOOLEAN
    BY DEF TypeOK, Snapshot
  <2>2. \/ pc' = [pc EXCEPT ![w] = "idle"]
        \/ pc' = [pc EXCEPT ![w] = "send"]
        \/ pc' = [pc EXCEPT ![w] = "probe"] /\ snapshot.state # "CLOSED"
    BY <1>2, <2>1 DEF AllowRead, decideAttempt
  <2>3. TypeOK' /\ OpenIffThreshold'
    BY <1>2, <2>2 DEF AllowRead, TypeOK, PCs, OpenIffThreshold
  <2>4. snapshot.state # "CLOSED" => snapshot.failures >= OpenAfter
    BY DEF TypeOK, Snapshot, OpenIffThreshold
  <2>5. ASSUME NEW v \in Slots, pc'[v] \in {"probe", "halfOpen"}
        PROVE current'[v].failures >= OpenAfter
    <3>1. CASE v = w
      <4>1. current'[v] = snapshot
        BY <1>2, <3>1 DEF AllowRead, TypeOK
      <4>2. snapshot.state # "CLOSED"
        BY <2>2, <2>5, <3>1 DEF TypeOK
      <4> QED
        BY <2>4, <4>1, <4>2
    <3>2. CASE v # w
      BY <1>2, <2>2, <2>5, <3>2 DEF AllowRead, TypeOK, ReadOpen
    <3> QED
      BY <3>1, <3>2
  <2> QED
    BY <2>3, <2>5 DEF ReadOpen
<1>3. ASSUME NEW w \in Slots, AllowProbe(w) PROVE BreakerInv'
  BY <1>3 DEF AllowProbe, TypeOK, PCs, ReadOpen, OpenIffThreshold
<1>4. ASSUME NEW w \in Slots, AllowWrite(w) PROVE BreakerInv'
  <2>1. snapshot' \in Snapshot /\ snapshot'.state = "HALF_OPEN" /\ snapshot'.failures >= OpenAfter
    BY <1>4 DEF AllowWrite, TypeOK, Snapshot, ReadOpen
  <2>2. TypeOK' /\ ReadOpen'
    BY <1>4, <2>1 DEF AllowWrite, TypeOK, PCs, ReadOpen
  <2>3. OpenIffThreshold'
    BY <2>1 DEF OpenIffThreshold, Snapshot
  <2> QED
    BY <2>2, <2>3
<1>5. ASSUME NEW w \in Slots, SendOk(w) PROVE BreakerInv'
  BY <1>5 DEF SendOk, TypeOK, PCs, ReadOpen, OpenIffThreshold
<1>6. ASSUME NEW w \in Slots, SendFails(w) PROVE BreakerInv'
  BY <1>6, Plus1Type DEF SendFails, TypeOK, PCs, ReadOpen, OpenIffThreshold
<1>7. ASSUME NEW w \in Slots, SuccessWrite(w) \/ SuccessDel(w) PROVE BreakerInv'
  BY <1>7, EmptyCircuit
     DEF SuccessWrite, SuccessDel, onSuccess, TypeOK, PCs, ReadOpen, OpenIffThreshold
<1>8. ASSUME NEW w \in Slots, FailureRead(w) PROVE BreakerInv'
  BY <1>8 DEF FailureRead, TypeOK, PCs, ReadOpen, OpenIffThreshold
<1>9. ASSUME NEW w \in Slots, FailureWrite(w) PROVE BreakerInv'
  <2>1. current[w] \in Snapshot
    BY DEF TypeOK
  <2>2. TypeOK' /\ ReadOpen'
    BY <1>9, <2>1, onFailureType DEF FailureWrite, TypeOK, PCs, ReadOpen
  <2>3. OpenIffThreshold'
    BY <1>9, <2>1, onFailureType DEF FailureWrite, OpenIffThreshold
  <2> QED
    BY <2>2, <2>3
<1>10. ASSUME NEW w \in Slots, FailureDel(w) PROVE BreakerInv'
  BY <1>10 DEF FailureDel, TypeOK, PCs, ReadOpen, OpenIffThreshold
<1>11. ASSUME NEW w \in Slots, EndpointSuccess(w) \/ EndpointFailure(w) \/ Crash(w)
       PROVE BreakerInv'
  <2>1. Finish(w) /\ snapshot' = snapshot /\ probe' = probe
    BY <1>11 DEF EndpointSuccess, EndpointFailure, Crash
  <2>2. ReadOpen' /\ OpenIffThreshold'
    BY <2>1 DEF Finish, TypeOK, ReadOpen, OpenIffThreshold
  <2>3. TypeOK'
    BY <1>11, <2>1, EmptyCircuit, Plus1Type
       DEF Finish, EndpointSuccess, EndpointFailure, Crash, TypeOK, PCs
  <2> QED
    BY <2>2, <2>3
<1>12. ASSUME NEW w \in Slots, RedisError(w) PROVE BreakerInv'
  BY <1>12 DEF RedisError, TypeOK, PCs, ReadOpen, OpenIffThreshold
<1>13. CASE CooldownEnds
  BY <1>13 DEF CooldownEnds, TypeOK, Snapshot, ReadOpen, OpenIffThreshold
<1>14. CASE ProbeExpires \/ Recover
  BY <1>14 DEF ProbeExpires, Recover, TypeOK, ReadOpen, OpenIffThreshold
<1>15. CASE RedisWipe
  BY <1>15, EmptyCircuit DEF RedisWipe, TypeOK, ReadOpen, OpenIffThreshold
<1>16. ASSUME NEW s \in {"ACTIVE", "DISABLED_MANUAL"}, PatchEndpoint(s) PROVE BreakerInv'
  BY <1>16 DEF PatchEndpoint, TypeOK, ReadOpen, OpenIffThreshold
<1>17. CASE UNCHANGED vars
  BY <1>17 DEF vars, TypeOK, ReadOpen, OpenIffThreshold
<1> QED
  BY <1>1, <1>2, <1>3, <1>4, <1>5, <1>6, <1>7, <1>8, <1>9, <1>10, <1>11, <1>12, <1>13,
     <1>14, <1>15, <1>16, <1>17 DEF Next, Attempt

\* The invariant holds in every reachable state.
LEMMA BreakerInvariant == Spec => []BreakerInv
  BY BreakerInit, BreakerStep, PTL DEF Spec

\* Types: whatever the slots write back, the snapshot in Redis is one that circuit.ts
\* knows, and counters stay within their bounds.
THEOREM BreakerTypeOK == Spec => []TypeOK
<1>1. BreakerInv => TypeOK
  BY DEF BreakerInv
<1> QED
  BY BreakerInvariant, <1>1, PTL

\* The stored circuit is open exactly when its count says so, whatever overtaken
\* snapshots the slots write back.
THEOREM CircuitMatchesCount == Spec => []OpenIffThreshold
<1>1. BreakerInv => OpenIffThreshold
  BY DEF BreakerInv
<1> QED
  BY BreakerInvariant, <1>1, PTL

-----------------------------------------------------------------------------
(* Automatic disabling, as long as nobody enables the endpoint *)

\* Slots whose failed POST is not counted in the stored snapshot yet.
Uncounted == {"failRead", "failWrite"}
Pending   == {w \in Slots : pc[w] \in Uncounted}

\* Every count in Redis or in a slot's hands, together with the failures still to
\* be added to it, stays below the failures observed (or those have reached Cap).
CountInv ==
    \/ observed = Cap
    \/ /\ snapshot.failures + Cardinality(Pending) <= observed
       /\ \A w \in Slots : current[w].failures + Cardinality(Pending) <= observed

DisableInv == disable # {} => observed >= DisableAfter

EarnedInv == BreakerInv /\ CountInv /\ DisableInv /\ DisableEarned

\* There are finitely many slots.
LEMMA PendingFinite == IsFiniteSet(Pending) /\ Cardinality(Pending) \in Nat
<1>1. Pending \in SUBSET Slots
  BY DEF Pending
<1> QED
  BY <1>1, BreakerAssumption, FS_Subset, FS_CardinalityType

\* How a slot that goes on changes the number of failures not yet counted.
LEMMA PendingGoto ==
    ASSUME TypeOK, NEW w \in Slots, NEW l, Goto(w, l)
    PROVE  Cardinality(Pending') = CASE l \in Uncounted /\ w \notin Pending -> Cardinality(Pending) + 1
                                     [] l \notin Uncounted /\ w \in Pending -> Cardinality(Pending) - 1
                                     [] OTHER -> Cardinality(Pending)
<1>1. CASE l \in Uncounted
  <2>1. Pending' = Pending \cup {w}
    BY <1>1 DEF Pending, Goto, TypeOK
  <2> QED
    BY <1>1, <2>1, PendingFinite, FS_AddElement
<1>2. CASE l \notin Uncounted
  <2>1. Pending' = Pending \ {w}
    BY <1>2 DEF Pending, Goto, TypeOK
  <2> QED
    BY <1>2, <2>1, PendingFinite, FS_RemoveElement
<1> QED
  BY <1>1, <1>2

\* A slot that goes on without a new failure adds none.
LEMMA PendingFewer ==
    ASSUME TypeOK, NEW w \in Slots, NEW l, Goto(w, l), l \in Uncounted => w \in Pending
    PROVE  Cardinality(Pending') <= Cardinality(Pending)
<1>1. Cardinality(Pending) \in Nat
  BY PendingFinite
<1>2. Cardinality(Pending') \in {Cardinality(Pending), Cardinality(Pending) - 1}
  BY PendingGoto, Zenon
<1> QED
  BY <1>1, <1>2

\* Counts that are copied or reset, while no failure is observed, keep the invariant.
LEMMA CountKept ==
    ASSUME TypeOK, TypeOK', CountInv, observed' = observed,
           Cardinality(Pending') <= Cardinality(Pending),
           \/ snapshot'.failures \in {snapshot.failures, 0}
           \/ \E w \in Slots : snapshot'.failures = current[w].failures,
           \A w \in Slots :
               current'[w].failures \in {current[w].failures, snapshot.failures, 0}
    PROVE  CountInv'
<1> DEFINE old == Cardinality(Pending)
           new == Cardinality(Pending')
<1>1. CASE observed = Cap
  BY <1>1 DEF CountInv
<1>2. CASE observed # Cap
  <2>1. old \in Nat /\ new \in Nat
    <3>1. Pending' \in SUBSET Slots
      BY DEF Pending
    <3> QED
      BY <3>1, PendingFinite, BreakerAssumption, FS_Subset, FS_CardinalityType
  <2>2. snapshot.failures \in Nat /\ snapshot'.failures \in Nat /\ observed \in Nat
    BY DEF TypeOK, Snapshot
  <2>3. \A w \in Slots : current[w].failures \in Nat /\ current'[w].failures \in Nat
    BY DEF TypeOK, Snapshot
  <2>4. snapshot.failures + old <= observed /\ \A w \in Slots : current[w].failures + old <= observed
    BY <1>2 DEF CountInv
  <2> HIDE DEF old, new
  <2>5. new <= old
    BY DEF old, new
  <2>6. snapshot'.failures + new <= observed
    BY <2>1, <2>2, <2>3, <2>4, <2>5
  <2>7. \A w \in Slots : current'[w].failures + new <= observed
    BY <2>1, <2>2, <2>3, <2>4, <2>5
  <2> QED
    BY <2>6, <2>7 DEF CountInv, new
<1> QED
  BY <1>1, <1>2

\* The initial state: nothing counted, nothing pending.
LEMMA EarnedInit == Init => EarnedInv
<1> SUFFICES ASSUME Init PROVE EarnedInv
  OBVIOUS
<1>1. Pending = {}
  BY DEF Init, Pending, Uncounted
<1>2. CountInv
  BY <1>1, FS_EmptySet, EmptyCircuit DEF Init, CountInv
<1>3. DisableInv /\ DisableEarned
  BY DEF Init, DisableInv, DisableEarned
<1> QED
  BY <1>2, <1>3, BreakerInit DEF EarnedInv

\* Without reactivation the failures observed never become fewer, and every count
\* that is written stays below them.
LEMMA EarnedStep ==
    ASSUME "enable" \notin Env, EarnedInv, [Next]_vars
    PROVE  EarnedInv'
<1> USE DEF EarnedInv
<1>1. BreakerInv' /\ TypeOK /\ TypeOK'
  BY BreakerStep DEF BreakerInv
<1>2. Cardinality(Pending) \in Nat
  BY PendingFinite
<1>3. ASSUME NEW w \in Slots, Begin(w) \/ AllowProbe(w) \/ SendOk(w) \/ SuccessDel(w) \/ FailureDel(w)
      PROVE EarnedInv'
  <2>1. /\ snapshot' = snapshot /\ current' = current /\ observed' = observed
        /\ endpointStatus' = endpointStatus /\ disable' = disable
    BY <1>3 DEF Begin, AllowProbe, SendOk, SuccessDel, FailureDel
  <2>2. PICK l : Goto(w, l) /\ l \notin Uncounted
    BY <1>3 DEF Begin, AllowProbe, SendOk, SuccessDel, FailureDel, Uncounted
  <2>3. Cardinality(Pending') <= Cardinality(Pending)
    BY <1>1, <2>2, PendingFewer
  <2> QED
    BY <1>1, <2>1, <2>3, CountKept DEF DisableInv, DisableEarned
<1>4. ASSUME NEW w \in Slots, AllowRead(w) \/ FailureRead(w) PROVE EarnedInv'
  <2>1. /\ snapshot' = snapshot /\ current' = [current EXCEPT ![w] = snapshot]
        /\ observed' = observed /\ endpointStatus' = endpointStatus /\ disable' = disable
    BY <1>4 DEF AllowRead, FailureRead
  <2>2. PICK l : Goto(w, l) /\ (l \in Uncounted => w \in Pending)
    <3>1. CASE FailureRead(w)
      BY <3>1 DEF FailureRead, Pending, Uncounted
    <3>2. CASE AllowRead(w)
      <4>1. snapshot.state \in {"CLOSED", "OPEN", "HALF_OPEN"} /\ snapshot.cooled \in BOOLEAN
        BY <1>1 DEF TypeOK, Snapshot
      <4>2. \E l \in {"idle", "send", "probe"} : Goto(w, l)
        BY <3>2, <4>1 DEF AllowRead, decideAttempt
      <4> QED
        BY <4>2 DEF Uncounted
    <3> QED
      BY <1>4, <3>1, <3>2
  <2>3. Cardinality(Pending') <= Cardinality(Pending)
    BY <1>1, <2>2, PendingFewer
  <2>4. \A v \in Slots : current'[v].failures \in {current[v].failures, snapshot.failures, 0}
    BY <1>1, <2>1 DEF TypeOK
  <2> QED
    BY <1>1, <2>1, <2>3, <2>4, CountKept DEF DisableInv, DisableEarned
<1>5. ASSUME NEW w \in Slots, AllowWrite(w) PROVE EarnedInv'
  <2>1. snapshot'.failures = current[w].failures
    BY <1>1, <1>5 DEF AllowWrite, TypeOK, Snapshot
  <2>2. Cardinality(Pending') <= Cardinality(Pending)
    BY <1>1, <1>5, PendingFewer DEF AllowWrite, Uncounted
  <2> QED
    BY <1>1, <1>5, <2>1, <2>2, CountKept DEF AllowWrite, DisableInv, DisableEarned
<1>6. ASSUME NEW w \in Slots, SendFails(w) PROVE EarnedInv'
  <2>1. Cardinality(Pending') = Cardinality(Pending) + 1
    BY <1>1, <1>6, PendingGoto DEF SendFails, Uncounted, Pending
  <2>2. observed \in 0 .. Cap /\ observed <= observed' /\ (observed' = observed + 1 \/ observed' = Cap)
    BY <1>1, <1>6, Plus1Type DEF SendFails, TypeOK
  <2>3. CountInv'
    <3>1. CASE observed' = Cap
      BY <3>1 DEF CountInv
    <3>2. CASE observed' # Cap
      <4>1. observed' = observed + 1 /\ observed # Cap
        BY <1>1, <2>2, <3>2, BreakerAssumption DEF TypeOK
      <4>2. snapshot.failures \in Nat /\ \A v \in Slots : current[v].failures \in Nat
        BY <1>1 DEF TypeOK, Snapshot
      <4> QED
        BY <1>2, <1>6, <2>1, <2>2, <4>1, <4>2 DEF SendFails, CountInv
    <3> QED
      BY <3>1, <3>2
  <2> QED
    BY <1>1, <1>6, <2>2, <2>3, BreakerAssumption DEF SendFails, DisableInv, DisableEarned, TypeOK
<1>7. ASSUME NEW w \in Slots, SuccessWrite(w) PROVE EarnedInv'
  <2>1. Cardinality(Pending') <= Cardinality(Pending)
    BY <1>1, <1>7, PendingFewer DEF SuccessWrite, Uncounted
  <2> QED
    BY <1>1, <1>7, <2>1, CountKept, EmptyCircuit DEF SuccessWrite, onSuccess, DisableInv, DisableEarned
<1>8. ASSUME NEW w \in Slots, FailureWrite(w) PROVE EarnedInv'
  <2>1. Cardinality(Pending') = Cardinality(Pending) - 1
    BY <1>1, <1>8, PendingGoto DEF FailureWrite, Uncounted, Pending
  <2>2. /\ snapshot'.failures = Plus1(current[w].failures)
        /\ current[w].failures \in 0 .. Cap /\ snapshot'.failures \in 0 .. Cap
    BY <1>1, <1>8, onFailureType DEF FailureWrite, TypeOK, Snapshot
  <2>3. snapshot'.failures <= current[w].failures + 1
    BY <2>2, BreakerAssumption DEF Plus1
  <2>4. CountInv' /\ snapshot'.failures <= observed
    <3>1. CASE observed = Cap
      BY <1>8, <2>2, <3>1 DEF FailureWrite, CountInv
    <3>2. CASE observed # Cap
      <4>1. w \in Pending
        BY <1>8 DEF FailureWrite, Pending, Uncounted
      <4>2. Cardinality(Pending) >= 1
        BY <1>2, <4>1, PendingFinite, FS_EmptySet
      <4>3. \A v \in Slots : current[v].failures \in Nat /\ current'[v] = current[v]
        BY <1>1, <1>8 DEF FailureWrite, TypeOK, Snapshot
      <4>4. observed \in Nat /\ observed' = observed
        BY <1>1, <1>8 DEF FailureWrite, TypeOK
      <4>5. \A v \in Slots : current[v].failures + Cardinality(Pending) <= observed
        BY <3>2 DEF CountInv
      <4>6. snapshot'.failures + Cardinality(Pending') <= observed /\ snapshot'.failures <= observed
        BY <1>2, <2>1, <2>2, <2>3, <4>2, <4>4, <4>5
      <4>7. \A v \in Slots : current'[v].failures + Cardinality(Pending') <= observed
        BY <1>2, <2>1, <4>3, <4>4, <4>5
      <4> QED
        BY <4>4, <4>6, <4>7 DEF CountInv
    <3> QED
      BY <3>1, <3>2
  <2>5. disable' # {} => observed' >= DisableAfter
    BY <1>1, <1>8, <2>2, <2>4, onFailureType, BreakerAssumption DEF FailureWrite, DisableInv, TypeOK
  <2> QED
    BY <1>1, <1>8, <2>4, <2>5 DEF FailureWrite, DisableInv, DisableEarned
<1>9. ASSUME NEW w \in Slots, EndpointSuccess(w) \/ EndpointFailure(w) \/ Crash(w)
      PROVE EarnedInv'
  <2>1. /\ Finish(w) /\ snapshot' = snapshot /\ observed' = observed
        /\ endpointStatus' = endpointStatus \/ (disable # {} /\ endpointStatus' = "DISABLED_AUTO")
    BY <1>9 DEF EndpointSuccess, EndpointFailure, Crash
  <2>2. Cardinality(Pending') <= Cardinality(Pending)
    BY <1>1, <2>1, PendingFewer DEF Finish, Uncounted
  <2>3. \A v \in Slots : current'[v].failures \in {current[v].failures, snapshot.failures, 0}
    BY <1>1, <2>1, EmptyCircuit DEF Finish, TypeOK
  <2>4. CountInv'
    BY <1>1, <2>1, <2>2, <2>3, CountKept
  <2> QED
    BY <1>1, <2>1, <2>4 DEF Finish, DisableInv, DisableEarned
<1>10. ASSUME NEW w \in Slots, RedisError(w) PROVE EarnedInv'
  <2>1. PICK l : Goto(w, l) /\ l \notin Uncounted
    BY <1>10 DEF RedisError, Uncounted
  <2>2. Cardinality(Pending') <= Cardinality(Pending)
    BY <1>1, <2>1, PendingFewer
  <2> QED
    BY <1>1, <1>10, <2>2, CountKept DEF RedisError, DisableInv, DisableEarned
<1>11. CASE CooldownEnds \/ ProbeExpires \/ Recover \/ RedisWipe \/ UNCHANGED vars
  <2>1. /\ pc' = pc /\ current' = current /\ observed' = observed /\ disable' = disable
        /\ endpointStatus' = endpointStatus
        /\ snapshot'.failures \in {snapshot.failures, 0}
    BY <1>1, <1>11, EmptyCircuit
       DEF CooldownEnds, ProbeExpires, Recover, RedisWipe, vars, TypeOK, Snapshot
  <2>2. Cardinality(Pending') <= Cardinality(Pending)
    BY <1>2, <2>1 DEF Pending
  <2> QED
    BY <1>1, <2>1, <2>2, CountKept DEF DisableInv, DisableEarned
<1>12. ASSUME NEW s \in {"ACTIVE", "DISABLED_MANUAL"}, PatchEndpoint(s) PROVE EarnedInv'
  <2>1. s = "DISABLED_MANUAL" /\ endpointStatus' = s /\ observed' = observed
    BY <1>12 DEF PatchEndpoint
  <2>2. pc' = pc /\ current' = current /\ disable' = disable /\ snapshot' = snapshot
    BY <1>12 DEF PatchEndpoint
  <2>3. Cardinality(Pending') <= Cardinality(Pending)
    BY <1>2, <2>2 DEF Pending
  <2> QED
    BY <1>1, <2>1, <2>2, <2>3, CountKept DEF DisableInv, DisableEarned
<1> QED
  BY <1>3, <1>4, <1>5, <1>6, <1>7, <1>8, <1>9, <1>10, <1>11, <1>12 DEF Next, Attempt

\* As long as nobody enables the endpoint, it is disabled automatically only after
\* DisableAfter failed POSTs: the racing GET and SET of the slots, overtaken
\* snapshots, stale caches and Redis errors lose counts but never invent one.
THEOREM DisablingIsEarned ==
    ASSUME "enable" \notin Env PROVE Spec => []DisableEarned
<1>1. ASSUME EarnedInv, [Next]_vars PROVE EarnedInv'
  BY <1>1, EarnedStep
<1>2. EarnedInv => DisableEarned
  BY DEF EarnedInv
<1> QED
  BY EarnedInit, <1>1, <1>2, PTL DEF Spec
=============================================================================
