------------------------ MODULE TenantLimiterProofs ------------------------
(***************************************************************************)
(* Proofs about TenantLimiter, for any number of slots, any limit, any     *)
(* number of faults and every Env.                                         *)
(***************************************************************************)
EXTENDS TenantLimiter, FiniteSetTheorems, TLAPS

LimiterInv == TypeOK /\ NeverOverCounts /\ LeakHasTtl

\* There are finitely many slots, so finitely many holders.
LEMMA HoldersFinite == IsFiniteSet(Holders) /\ Cardinality(Holders) \in Nat
<1>1. Holders \in SUBSET Slots
  BY DEF Holders
<1> QED
  BY <1>1, LimiterAssumption, FS_Subset, FS_CardinalityType

\* A slot that starts to deliver is one holder more.
LEMMA HolderComes ==
    ASSUME TypeOK, NEW w \in Slots, pc[w] # "deliver", Goto(w, "deliver")
    PROVE  Cardinality(Holders') = Cardinality(Holders) + 1
<1>1. Holders' = Holders \cup {w} /\ w \notin Holders
  BY DEF Holders, Goto, TypeOK
<1> QED
  BY <1>1, HoldersFinite, FS_AddElement

\* A slot that goes elsewhere is no holder any more.
LEMMA HolderGoes ==
    ASSUME TypeOK, NEW w \in Slots, NEW l, l # "deliver", Goto(w, l)
    PROVE  Cardinality(Holders') =
               IF pc[w] = "deliver" THEN Cardinality(Holders) - 1 ELSE Cardinality(Holders)
<1>1. Holders' = Holders \ {w}
  BY DEF Holders, Goto, TypeOK
<1>2. w \in Holders <=> pc[w] = "deliver"
  BY DEF Holders
<1> QED
  BY <1>1, <1>2, HoldersFinite, FS_RemoveElement

\* The initial state: no key, no deliveries.
LEMMA LimiterInit == Init => LimiterInv
<1> SUFFICES ASSUME Init PROVE LimiterInv
  OBVIOUS
<1>1. TypeOK
  <2>1. armed \in BOOLEAN
    BY DEF Init
  <2> QED
    BY <2>1, LimiterAssumption DEF Init, TypeOK
<1>2. NeverOverCounts
  BY HoldersFinite DEF Init, NeverOverCounts
<1>3. LeakHasTtl
  BY DEF Init, LeakHasTtl
<1> QED
  BY <1>1, <1>2, <1>3 DEF LimiterInv

\* Every Redis call, fault or expiry preserves the invariant.
LEMMA LimiterStep == LimiterInv /\ [Next]_vars => LimiterInv'
<1> SUFFICES ASSUME LimiterInv, [Next]_vars PROVE LimiterInv'
  OBVIOUS
<1> USE DEF LimiterInv
<1>0. Cardinality(Holders) \in Nat /\ Cardinality(Holders') \in Nat
  <2>1. Holders' \in SUBSET Slots
    BY DEF Holders
  <2> QED
    BY <2>1, HoldersFinite, LimiterAssumption, FS_Subset, FS_CardinalityType
<1>00. count \in Int /\ faults \in Nat /\ MaxCrashes \in Nat /\ Max \in Nat
  BY LimiterAssumption DEF TypeOK
<1>1. ASSUME NEW w \in Slots, Acquire(w) PROVE LimiterInv'
  <2>1. Cardinality(Holders') = Cardinality(Holders) + 1
    BY <1>1, HolderComes DEF Acquire
  <2>2. NeverOverCounts'
    BY <1>0, <1>00, <1>1, <2>1 DEF Acquire, NeverOverCounts
  <2>3. LeakHasTtl'
    BY <1>00, <1>1 DEF Acquire, LeakHasTtl
  <2>4. TypeOK'
    <3>1. armed' \in BOOLEAN
      BY <1>1, Zenon DEF Acquire, TypeOK
    <3> QED
      BY <1>1, <3>1 DEF Acquire, Goto, Holders, TypeOK
  <2> QED
    BY <2>2, <2>3, <2>4
<1>2. ASSUME NEW w \in Slots, Refuse(w) PROVE LimiterInv'
  BY <1>2, <1>00 DEF Refuse, TypeOK, Holders, NeverOverCounts, LeakHasTtl
<1>3. ASSUME NEW w \in Slots, ReleaseDecr(w) PROVE LimiterInv'
  <2>1. PICK l \in {"del", "idle"} : Goto(w, l)
    BY <1>3 DEF ReleaseDecr
  <2>2. Cardinality(Holders') = Cardinality(Holders) - 1
    BY <1>3, <2>1, HolderGoes DEF ReleaseDecr
  <2>3. NeverOverCounts'
    BY <1>0, <1>00, <1>3, <2>2 DEF ReleaseDecr, NeverOverCounts
  <2>4. LeakHasTtl'
    BY <1>00, <1>3 DEF ReleaseDecr, LeakHasTtl
  <2>5. TypeOK'
    BY <1>3 DEF ReleaseDecr, Goto, TypeOK
  <2> QED
    BY <2>3, <2>4, <2>5
<1>4. ASSUME NEW w \in Slots, ReleaseDel(w) PROVE LimiterInv'
  <2>1. NeverOverCounts' /\ LeakHasTtl'
    BY <1>0, <1>00, <1>4 DEF ReleaseDel, NeverOverCounts, LeakHasTtl
  <2>2. TypeOK'
    <3>1. armed' \in BOOLEAN
      BY <1>4 DEF ReleaseDel
    <3> QED
      BY <1>4, <3>1 DEF ReleaseDel, Goto, TypeOK
  <2> QED
    BY <2>1, <2>2
<1>5. CASE Expire
  <2>1. NeverOverCounts' /\ LeakHasTtl'
    BY <1>0, <1>00, <1>5 DEF Expire, NeverOverCounts, LeakHasTtl
  <2>2. TypeOK'
    <3>1. armed' \in BOOLEAN
      BY <1>5 DEF Expire
    <3> QED
      BY <1>5, <3>1 DEF Expire, TypeOK
  <2> QED
    BY <2>1, <2>2
<1>6. ASSUME NEW w \in Slots, Crash(w) \/ ReleaseError(w) PROVE LimiterInv'
  <2>1. Goto(w, "idle") /\ count' = count /\ armed' = armed /\ faults' = faults + 1
    BY <1>6 DEF Crash, ReleaseError
  <2>2. Cardinality(Holders') >= Cardinality(Holders) - 1
    BY <1>0, <2>1, HolderGoes
  <2>3. NeverOverCounts' /\ LeakHasTtl'
    BY <1>0, <1>00, <2>1, <2>2 DEF NeverOverCounts, LeakHasTtl
  <2>4. TypeOK'
    BY <1>00, <1>6, <2>1 DEF Crash, ReleaseError, Goto, TypeOK
  <2> QED
    BY <2>3, <2>4
<1>7. ASSUME NEW w \in Slots, AcquireError(w) PROVE LimiterInv'
  <2>1. Cardinality(Holders') = Cardinality(Holders) + 1
    BY <1>7, HolderComes DEF AcquireError
  <2>2. NeverOverCounts' /\ LeakHasTtl'
    BY <1>0, <1>00, <1>7, <2>1 DEF AcquireError, NeverOverCounts, LeakHasTtl
  <2>3. TypeOK'
    BY <1>00, <1>7 DEF AcquireError, Goto, TypeOK
  <2> QED
    BY <2>2, <2>3
<1>8. CASE UNCHANGED vars
  BY <1>8 DEF vars, TypeOK, Holders, NeverOverCounts, LeakHasTtl
<1> QED
  BY <1>1, <1>2, <1>3, <1>4, <1>5, <1>6, <1>7, <1>8 DEF Next

LEMMA LimiterInvariant == Spec => []LimiterInv
  BY LimiterInit, LimiterStep, PTL DEF Spec

\* A job is put off only when Max deliveries, or faults that nobody has cleaned up
\* after, are there: DECR, DEL and the TTL never make the counter too high.
THEOREM CountNeverTooHigh == Spec => []NeverOverCounts
<1>1. LimiterInv => NeverOverCounts
  BY DEF LimiterInv
<1> QED
  BY LimiterInvariant, <1>1, PTL

\* Whatever a dead worker left in a counter that refuses somebody, a TTL will end it.
THEOREM LeaksExpire == Spec => []LeakHasTtl
<1>1. LimiterInv => LeakHasTtl
  BY DEF LimiterInv
<1> QED
  BY LimiterInvariant, <1>1, PTL

-----------------------------------------------------------------------------
(* What the limit depends on *)

\* Redis loses sight of a delivery: the key goes, by the DEL of another worker's
\* release() or by its TTL, while deliveries are under way, or acquire() grants
\* one although Redis did not answer.
Forgets ==
    \/ Holders # {} /\ (Expire \/ \E w \in Slots : ReleaseDel(w))
    \/ \E w \in Slots : AcquireError(w)

\* Without that, every delivery under way is counted.
CountedInv == TypeOK /\ Cardinality(Holders) <= count /\ count <= Max

\* A DEL or a TTL that ends while nobody delivers resets a count that has no use.
LEMMA ResetIdle ==
    ASSUME CountedInv, Holders = {}, Holders' = {}, count' = 0, TypeOK'
    PROVE  CountedInv'
<1>1. Cardinality(Holders') = 0
  BY FS_EmptySet
<1> QED
  BY <1>1, LimiterAssumption DEF CountedInv

LEMMA CountedStep == CountedInv /\ LimiterInv' /\ [Next]_vars /\ [~Forgets]_vars => CountedInv'
<1> SUFFICES ASSUME CountedInv, LimiterInv', [Next]_vars, [~Forgets]_vars PROVE CountedInv'
  OBVIOUS
<1>0. TypeOK /\ TypeOK' /\ Cardinality(Holders) \in Nat
  BY HoldersFinite DEF CountedInv, LimiterInv
<1>00. count \in Int /\ Max \in Nat /\ Cardinality(Holders) <= count /\ count <= Max
  BY <1>0, LimiterAssumption DEF CountedInv, TypeOK
<1>1. ASSUME NEW w \in Slots, Acquire(w) PROVE CountedInv'
  <2>1. Cardinality(Holders') = Cardinality(Holders) + 1
    BY <1>0, <1>1, HolderComes DEF Acquire
  <2>2. count' = count + 1 /\ count + 1 <= Max
    BY <1>1 DEF Acquire
  <2> QED
    BY <1>0, <1>00, <2>1, <2>2 DEF CountedInv
<1>2. ASSUME count' = count, pc' = pc PROVE CountedInv'
  BY <1>0, <1>00, <1>2 DEF CountedInv, Holders
<1>3. ASSUME NEW w \in Slots, ReleaseDecr(w) PROVE CountedInv'
  <2>1. PICK l \in {"del", "idle"} : Goto(w, l)
    BY <1>3 DEF ReleaseDecr
  <2>2. Cardinality(Holders') = Cardinality(Holders) - 1
    BY <1>0, <1>3, <2>1, HolderGoes DEF ReleaseDecr
  <2>3. count' = count - 1
    BY <1>3 DEF ReleaseDecr
  <2> QED
    BY <1>0, <1>00, <2>2, <2>3 DEF CountedInv
<1>4. ASSUME NEW w \in Slots, ReleaseDel(w) PROVE CountedInv'
  <2>1. pc[w] = "del" /\ pc' = [pc EXCEPT ![w] = "idle"] /\ count' = 0
    BY <1>4 DEF ReleaseDel, Goto
  <2>2. Holders' = Holders
    BY <1>0, <2>1 DEF Holders, TypeOK
  <2>3. pc' # pc
    BY <1>0, <2>1 DEF TypeOK
  <2>4. Holders = {}
    BY <1>4, <2>3 DEF Forgets, vars
  <2> QED
    BY <1>0, <2>1, <2>2, <2>4, ResetIdle
<1>5. CASE Expire
  <2>1. count' = 0 /\ Holders' = Holders /\ armed' # armed
    BY <1>5 DEF Expire, Holders
  <2>2. Holders = {}
    BY <1>5, <2>1 DEF Forgets, vars
  <2> QED
    BY <1>0, <2>1, <2>2, ResetIdle
<1>6. ASSUME NEW w \in Slots, Crash(w) \/ ReleaseError(w) PROVE CountedInv'
  <2>1. Goto(w, "idle") /\ count' = count
    BY <1>6 DEF Crash, ReleaseError
  <2>2. Cardinality(Holders') <= Cardinality(Holders)
    BY <1>0, <2>1, HolderGoes
  <2>3. Cardinality(Holders') \in Int
    BY <1>0, <2>1, HolderGoes
  <2> QED
    BY <1>0, <1>00, <2>1, <2>2, <2>3 DEF CountedInv
<1>7. ASSUME NEW w \in Slots, AcquireError(w) PROVE FALSE
  <2>1. faults' # faults
    BY <1>0, <1>7 DEF AcquireError, TypeOK
  <2> QED
    BY <1>7, <2>1 DEF Forgets, vars
<1>8. ASSUME NEW w \in Slots, Refuse(w) PROVE CountedInv'
  BY <1>00, <1>2, <1>8 DEF Refuse
<1>9. CASE UNCHANGED vars
  BY <1>2, <1>9 DEF vars
<1> QED
  BY <1>1, <1>3, <1>4, <1>5, <1>6, <1>7, <1>8, <1>9 DEF Next

\* The limit is exceeded in no other way than by release() deleting the key, or its
\* TTL ending, under deliveries that acquire() counted in it since, or by acquire()
\* granting what it could not count: refusals, DECRs, deaths and lost releases are
\* harmless, for any number of slots and any limit.
THEOREM LimitHoldsUnlessForgotten == Spec /\ [][~Forgets]_vars => []WithinLimit
<1>1. Init => CountedInv
  <2> SUFFICES ASSUME Init PROVE CountedInv
    OBVIOUS
  <2>1. Holders = {}
    BY DEF Init, Holders
  <2>2. TypeOK
    BY LimiterInit DEF LimiterInv
  <2> QED
    BY <2>1, <2>2, FS_EmptySet, LimiterAssumption DEF Init, CountedInv
<1>2. CountedInv => WithinLimit
  <2> SUFFICES ASSUME CountedInv PROVE WithinLimit
    OBVIOUS
  <2> QED
    BY HoldersFinite, LimiterAssumption DEF CountedInv, TypeOK, WithinLimit
<1> QED
  BY <1>1, <1>2, CountedStep, LimiterInvariant, PTL DEF Spec
=============================================================================
