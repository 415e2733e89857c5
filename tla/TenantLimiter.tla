--------------------------- MODULE TenantLimiter ---------------------------
(***************************************************************************)
(* The per-tenant limit on concurrent deliveries: a counter in Redis that  *)
(* acquire() increments in a Lua script, atomically, and release()         *)
(* decrements and, at zero or below, deletes in a second round trip.       *)
(* The key's TTL is armed only by the INCR that finds it at zero; it is    *)
(* there to reclaim the counts of workers that died before release().      *)
(*                                                                         *)
(* One tenant, Max > 0 (with HR_TENANT_CONCURRENCY = 0 the limiter is off).*)
(* A live delivery is shorter than the TTL (10 s against 60 s by default), *)
(* so the key can only expire when the deliveries under way at the time it *)
(* was armed are over.                                                     *)
(***************************************************************************)
EXTENDS Integers, FiniteSets

CONSTANTS
    Slots,       \* worker slots, over all processes
    Max,         \* HR_TENANT_CONCURRENCY
    MaxCrashes,  \* bound: slots that may die, and Redis calls that may fail
    Env          \* the faults that may happen

LimiterEnv == {"expire", "crash", "redisError"}

ASSUME LimiterAssumption ==
    /\ IsFiniteSet(Slots)
    /\ Max \in Nat \ {0}
    /\ MaxCrashes \in Nat
    /\ Env \subseteq LimiterEnv

VARIABLES
    count,    \* hr:tenant:<id>:inflight, 0 when the key is absent
    armed,    \* the key has a TTL
    pc,       \* "idle", "deliver" (slot held) or "del" (between DECR and DEL)
    old,      \* deliveries that were under way when the TTL was armed
    faults    \* faults so far

vars == <<count, armed, pc, old, faults>>

Holders == {w \in Slots : pc[w] = "deliver"}

Init ==
    /\ count = 0
    /\ armed = FALSE
    /\ pc = [w \in Slots |-> "idle"]
    /\ old = {}
    /\ faults = 0

Goto(w, l) == pc' = [pc EXCEPT ![w] = l]

\* Wrong on purpose: INCR without EXPIRE.
AcquireNeverArms(w) ==
    /\ pc[w] = "idle"
    /\ count + 1 <= Max
    /\ count' = count + 1
    /\ Goto(w, "deliver")
    /\ UNCHANGED <<armed, old, faults>>

\* ACQUIRE_LUA grants: INCR, and EXPIRE when the result is 1.
Acquire(w) ==
    /\ pc[w] = "idle"
    /\ count + 1 <= Max
    /\ count' = count + 1
    /\ IF count + 1 = 1
       THEN armed' = TRUE /\ old' = Holders \cup {w}
       ELSE UNCHANGED <<armed, old>>
    /\ Goto(w, "deliver")
    /\ UNCHANGED faults

\* Wrong on purpose: a refused acquire keeps its INCR.
RefuseKeepsCount(w) ==
    /\ pc[w] = "idle"
    /\ count + 1 > Max
    /\ count' = count + 1
    /\ UNCHANGED <<armed, pc, old, faults>>

\* ACQUIRE_LUA refuses: the INCR is undone by a DECR and the job is delayed.
Refuse(w) ==
    /\ pc[w] = "idle"
    /\ count + 1 > Max
    /\ count' = (count + 1) - 1
    /\ UNCHANGED <<armed, pc, old, faults>>

\* release(): DECR, which creates a missing key without a TTL.
ReleaseDecr(w) ==
    /\ pc[w] = "deliver"
    /\ count' = count - 1
    /\ old' = old \ {w}
    /\ Goto(w, IF count - 1 <= 0 THEN "del" ELSE "idle")
    /\ UNCHANGED <<armed, faults>>

\* release(): DEL, whatever the counter is by now.
ReleaseDel(w) ==
    /\ pc[w] = "del"
    /\ count' = 0
    /\ armed' = FALSE
    /\ Goto(w, "idle")
    /\ UNCHANGED <<old, faults>>

\* The TTL ends.
Expire ==
    /\ "expire" \in Env
    /\ armed
    /\ old \cap Holders = {}
    /\ count' = 0
    /\ armed' = FALSE
    /\ UNCHANGED <<pc, old, faults>>

\* A worker dies while it holds a slot or before the DEL.
Crash(w) ==
    /\ "crash" \in Env
    /\ faults < MaxCrashes
    /\ pc[w] # "idle"
    /\ faults' = faults + 1
    /\ Goto(w, "idle")
    /\ UNCHANGED <<count, armed, old>>

\* Redis calls that reject: acquire() then grants without counting, and release()
\* leaves the count to the TTL.
AcquireError(w) ==
    /\ "redisError" \in Env
    /\ faults < MaxCrashes
    /\ pc[w] = "idle"
    /\ faults' = faults + 1
    /\ Goto(w, "deliver")
    /\ UNCHANGED <<count, armed, old>>

ReleaseError(w) ==
    /\ "redisError" \in Env
    /\ faults < MaxCrashes
    /\ pc[w] \in {"deliver", "del"}
    /\ faults' = faults + 1
    /\ old' = old \ {w}
    /\ Goto(w, "idle")
    /\ UNCHANGED <<count, armed>>

Next ==
    \/ \E w \in Slots : \/ Acquire(w) \/ Refuse(w) \/ ReleaseDecr(w) \/ ReleaseDel(w)
                        \/ Crash(w) \/ AcquireError(w) \/ ReleaseError(w)
    \/ Expire

Spec == Init /\ [][Next]_vars

\* Deliveries end (they have a timeout), release() goes on, and the clock runs.
Fairness ==
    /\ \A w \in Slots : WF_vars(ReleaseDecr(w)) /\ WF_vars(ReleaseDel(w))
    /\ WF_vars(Expire)

FairSpec == Spec /\ Fairness

-----------------------------------------------------------------------------
(* Properties *)

TypeOK ==
    /\ count \in Int
    /\ armed \in BOOLEAN
    /\ pc \in [Slots -> {"idle", "deliver", "del"}]
    /\ old \subseteq Slots
    /\ faults \in 0 .. MaxCrashes

\* "The concurrent delivery limit of a tenant": at most Max deliveries at once.
WithinLimit == Cardinality(Holders) <= Max

\* A job is never put off without need: whatever DECR, DEL and TTL do to each
\* other, the counter is above the deliveries really under way by at most one for
\* each worker that died or Redis call that failed.
NeverOverCounts == count <= Cardinality(Holders) + faults

\* A count that can refuse anybody has a TTL, so that what a dead worker or a
\* failed release left in it is reclaimed.
LeakHasTtl == count >= 1 => armed

\* The tenant gets a slot again and again, dead workers notwithstanding.
TenantNotStarved == []<>(count < Max)
=============================================================================
