--------------------------- MODULE CircuitBreaker ---------------------------
(***************************************************************************)
(* The circuit breaker of one endpoint: the pure transitions of circuit.ts *)
(* and CircuitStore, which shares the snapshot among all worker slots      *)
(* through Redis with a GET and a SET that are not atomic, and a probe key *)
(* taken with SET NX EX.  One action is one Redis or database round trip.  *)
(*                                                                         *)
(* Time is abstracted to two events: the cooldown of the stored snapshot   *)
(* ends, and the TTL of the probe key ends.  A probe is assumed to finish  *)
(* within PROBE_TTL_SEC (30 s against a 10 s delivery timeout), so the TTL *)
(* only ends for a key whose winner is gone.                               *)
(*                                                                         *)
(* Failure counters stop at Cap.  The code compares them with OpenAfter    *)
(* and DisableAfter only, and Cap is at least both.                        *)
(***************************************************************************)
EXTENDS Naturals, FiniteSets

CONSTANTS
    Slots,         \* worker slots that deliver to the endpoint
    OpenAfter,     \* HR_CIRCUIT_OPEN_AFTER
    DisableAfter,  \* HR_CIRCUIT_DISABLE_AFTER
    Cap,           \* bound of the counters
    MaxFaults,     \* bound: slots that die and Redis calls that reject
    Env            \* the faults and operator actions that may happen

\* See the actions.  staleCache: a slot may still hold ACTIVE from its cache;
\* slowAttempts: an attempt may take longer than the cooldown (10 s against 5 min
\* by default, but both are configurable and a process can be suspended).
BreakerEnv == {"enable", "disable", "staleCache", "slowAttempts", "crash", "redisError", "redisWipe"}

ASSUME BreakerAssumption ==
    /\ IsFiniteSet(Slots)
    /\ OpenAfter \in Nat \ {0}
    /\ DisableAfter \in Nat \ {0}
    /\ Cap \in Nat /\ Cap >= OpenAfter /\ Cap >= DisableAfter
    /\ MaxFaults \in Nat
    /\ Env \subseteq BreakerEnv

VARIABLES
    snapshot,             \* hr:cb:<endpoint>, EMPTY_CIRCUIT when the key is absent
    probe,                \* hr:cb:<endpoint>:probe is set
    endpointStatus,       \* endpoints.status
    consecutiveFailures,  \* endpoints.consecutive_failures
    pc,                   \* the await each slot is at
    current,              \* the snapshot a slot has read
    prober,               \* slots whose attempt won the probe key
    disable,              \* slots that were told to disable the endpoint
    healthy,              \* the receiver has recovered for good
    faults,              \* slots that died and Redis calls that rejected so far
    observed              \* history: failed POSTs since the last reactivation

storeVars    == <<snapshot, probe>>
endpointVars == <<endpointStatus, consecutiveFailures>>
slotVars     == <<pc, current, prober, disable>>
vars         == <<storeVars, endpointVars, slotVars, healthy, faults, observed>>

Snapshot == [state : {"CLOSED", "OPEN", "HALF_OPEN"}, failures : 0 .. Cap, cooled : BOOLEAN]

EMPTY_CIRCUIT == [state |-> "CLOSED", failures |-> 0, cooled |-> FALSE]

PCs == {"idle", "read", "probe", "halfOpen", "send", "okWrite", "okDel",
        "failRead", "failWrite", "failDel", "okUpdate", "failUpdate"}

Plus1(n) == IF n < Cap THEN n + 1 ELSE Cap

-----------------------------------------------------------------------------
(* circuit.ts *)

\* decideAttempt: the state an allowed attempt goes on with, or "refuse".
decideAttempt(s) ==
    CASE s.state = "CLOSED"                 -> "CLOSED"
      [] s.state = "OPEN" /\ ~s.cooled      -> "refuse"
      [] s.state = "OPEN" /\ s.cooled       -> "HALF_OPEN"
      [] s.state = "HALF_OPEN"              -> "HALF_OPEN"

onSuccess == EMPTY_CIRCUIT

\* Wrong on purpose: opens one failure late.
OpensLate(s) ==
    [state    |-> IF Plus1(s.failures) > OpenAfter THEN "OPEN" ELSE "CLOSED",
     failures |-> Plus1(s.failures),
     cooled   |-> FALSE]

onFailure(s) ==
    [state    |-> IF Plus1(s.failures) >= OpenAfter THEN "OPEN" ELSE "CLOSED",
     failures |-> Plus1(s.failures),
     cooled   |-> FALSE]

-----------------------------------------------------------------------------
Init ==
    /\ snapshot = EMPTY_CIRCUIT
    /\ probe = FALSE
    /\ endpointStatus = "ACTIVE"
    /\ consecutiveFailures = 0
    /\ pc = [w \in Slots |-> "idle"]
    /\ current = [w \in Slots |-> EMPTY_CIRCUIT]
    /\ prober = {}
    /\ disable = {}
    /\ healthy = FALSE
    /\ faults = 0
    /\ observed = 0

Goto(w, l) == pc' = [pc EXCEPT ![w] = l]

\* process() found the endpoint ACTIVE, claimed, and calls circuit.allow.
Begin(w) ==
    /\ pc[w] = "idle"
    /\ endpointStatus = "ACTIVE" \/ "staleCache" \in Env
    /\ Goto(w, "read")
    /\ UNCHANGED <<storeVars, endpointVars, current, prober, disable, healthy, faults, observed>>

\* allow(): GET and decideAttempt.
AllowRead(w) ==
    LET verdict == decideAttempt(snapshot)
    IN  /\ pc[w] = "read"
        /\ current' = [current EXCEPT ![w] = snapshot]
        /\ Goto(w, CASE verdict = "refuse"    -> "idle"
                     [] verdict = "CLOSED"    -> "send"
                     [] verdict = "HALF_OPEN" -> "probe")
        /\ UNCHANGED <<storeVars, endpointVars, prober, disable, healthy, faults, observed>>

\* allow(): SET NX EX; the loser skips the POST.
AllowProbe(w) ==
    /\ pc[w] = "probe"
    /\ Goto(w, IF probe THEN "idle" ELSE "halfOpen")
    /\ prober' = IF probe THEN prober ELSE prober \cup {w}
    /\ probe' = TRUE
    /\ UNCHANGED <<snapshot, endpointVars, current, disable, healthy, faults, observed>>

\* Wrong on purpose: stores a state that CircuitState does not have.
AllowWriteProbing(w) ==
    /\ pc[w] = "halfOpen"
    /\ snapshot' = [current[w] EXCEPT !.state = "PROBING"]
    /\ Goto(w, "send")
    /\ UNCHANGED <<probe, endpointVars, current, prober, disable, healthy, faults, observed>>

\* allow(): the winner stores HALF_OPEN over whatever is there by now.
AllowWrite(w) ==
    /\ pc[w] = "halfOpen"
    /\ snapshot' = [current[w] EXCEPT !.state = "HALF_OPEN"]
    /\ Goto(w, "send")
    /\ UNCHANGED <<probe, endpointVars, current, prober, disable, healthy, faults, observed>>

\* The POST returns.
SendOk(w) ==
    /\ pc[w] = "send"
    /\ Goto(w, "okWrite")
    /\ UNCHANGED <<storeVars, endpointVars, current, prober, disable, healthy, faults, observed>>

SendFails(w) ==
    /\ pc[w] = "send"
    /\ ~healthy
    /\ Goto(w, "failRead")
    /\ observed' = Plus1(observed)
    /\ UNCHANGED <<storeVars, endpointVars, current, prober, disable, healthy, faults>>

\* success(): SET, then DEL of the probe key, whoever holds it.
SuccessWrite(w) ==
    /\ pc[w] = "okWrite"
    /\ snapshot' = onSuccess
    /\ Goto(w, "okDel")
    /\ UNCHANGED <<probe, endpointVars, current, prober, disable, healthy, faults, observed>>

SuccessDel(w) ==
    /\ pc[w] = "okDel"
    /\ probe' = FALSE
    /\ Goto(w, "okUpdate")
    /\ UNCHANGED <<snapshot, endpointVars, current, prober, disable, healthy, faults, observed>>

\* failure(): GET, SET, DEL; the count is of the snapshot read.
FailureRead(w) ==
    /\ pc[w] = "failRead"
    /\ current' = [current EXCEPT ![w] = snapshot]
    /\ Goto(w, "failWrite")
    /\ UNCHANGED <<storeVars, endpointVars, prober, disable, healthy, faults, observed>>

\* Wrong on purpose: compares with one less.
FailureDisablesEarly(w) ==
    /\ pc[w] = "failWrite"
    /\ snapshot' = onFailure(current[w])
    /\ disable' = IF Plus1(current[w].failures) + 1 >= DisableAfter
                  THEN disable \cup {w} ELSE disable
    /\ Goto(w, "failDel")
    /\ UNCHANGED <<probe, endpointVars, current, prober, healthy, faults, observed>>

FailureWrite(w) ==
    LET next == onFailure(current[w])
    IN  /\ pc[w] = "failWrite"
        /\ snapshot' = next
        /\ disable' = IF next.failures >= DisableAfter THEN disable \cup {w} ELSE disable
        /\ Goto(w, "failDel")
        /\ UNCHANGED <<probe, endpointVars, current, prober, healthy, faults, observed>>

FailureDel(w) ==
    /\ pc[w] = "failDel"
    /\ probe' = FALSE
    /\ Goto(w, "failUpdate")
    /\ UNCHANGED <<snapshot, endpointVars, current, prober, disable, healthy, faults, observed>>

\* The slot's attempt is over.
Finish(w) ==
    /\ Goto(w, "idle")
    /\ prober' = prober \ {w}
    /\ disable' = disable \ {w}
    /\ current' = [current EXCEPT ![w] = EMPTY_CIRCUIT]

\* process(): endpoint.update after the breaker was told.
EndpointSuccess(w) ==
    /\ pc[w] = "okUpdate"
    /\ consecutiveFailures' = 0
    /\ Finish(w)
    /\ UNCHANGED <<storeVars, endpointStatus, healthy, faults, observed>>

EndpointFailure(w) ==
    /\ pc[w] = "failUpdate"
    /\ consecutiveFailures' = Plus1(consecutiveFailures)
    /\ endpointStatus' = IF w \in disable THEN "DISABLED_AUTO" ELSE endpointStatus
    /\ Finish(w)
    /\ UNCHANGED <<storeVars, healthy, faults, observed>>

-----------------------------------------------------------------------------
(* Time, operators and faults *)

\* cooldownMs have passed since the stored openedAt.
CooldownEnds ==
    /\ snapshot.state = "OPEN" /\ ~snapshot.cooled
    /\ "slowAttempts" \in Env \/ \A w \in Slots : pc[w] \in {"idle", "read"}
    /\ snapshot' = [snapshot EXCEPT !.cooled = TRUE]
    /\ UNCHANGED <<probe, endpointVars, slotVars, healthy, faults, observed>>

\* Wrong on purpose: SET NX without EX never expires.
ProbeNeverExpires == FALSE /\ UNCHANGED vars

\* PROBE_TTL_SEC have passed since a winner that is gone took the key.
ProbeExpires ==
    /\ probe
    /\ prober = {}
    /\ probe' = FALSE
    /\ UNCHANGED <<snapshot, endpointVars, slotVars, healthy, faults, observed>>

\* The receiver is repaired and answers 2xx from now on.
Recover ==
    /\ ~healthy
    /\ healthy' = TRUE
    /\ UNCHANGED <<storeVars, endpointVars, slotVars, faults, observed>>

\* EndpointsService.update: re-enabling resets the counter in the database.
PatchEndpoint(s) ==
    /\ (IF s = "ACTIVE" THEN "enable" ELSE "disable") \in Env
    /\ endpointStatus' = s
    /\ consecutiveFailures' = IF s = "ACTIVE" THEN 0 ELSE consecutiveFailures
    /\ observed' = IF s = "ACTIVE" /\ endpointStatus # "ACTIVE" THEN 0 ELSE observed
    /\ UNCHANGED <<storeVars, slotVars, healthy, faults>>

\* A worker dies during the attempt, or a database call of process() rejects.
Crash(w) ==
    /\ "crash" \in Env
    /\ pc[w] # "idle"
    /\ faults < MaxFaults
    /\ faults' = faults + 1
    /\ Finish(w)
    /\ UNCHANGED <<storeVars, endpointVars, healthy, observed>>

\* A Redis call rejects: allow() says yes, success() and failure() give up, the
\* latter without disabling.
RedisError(w) ==
    /\ "redisError" \in Env
    /\ faults < MaxFaults
    /\ faults' = faults + 1
    /\ \/ pc[w] \in {"read", "probe", "halfOpen"} /\ Goto(w, "send")
       \/ pc[w] \in {"okWrite", "okDel"} /\ Goto(w, "okUpdate")
       \/ pc[w] \in {"failRead", "failWrite", "failDel"} /\ Goto(w, "failUpdate")
    /\ disable' = disable \ {w}
    /\ UNCHANGED <<storeVars, endpointVars, current, prober, healthy, observed>>

\* Redis comes back empty: the circuit is closed again.
RedisWipe ==
    /\ "redisWipe" \in Env
    /\ snapshot' = EMPTY_CIRCUIT
    /\ probe' = FALSE
    /\ UNCHANGED <<endpointVars, slotVars, healthy, faults, observed>>

-----------------------------------------------------------------------------
Attempt(w) ==
    \/ AllowRead(w) \/ AllowProbe(w) \/ AllowWrite(w)
    \/ SendOk(w) \/ SendFails(w)
    \/ SuccessWrite(w) \/ SuccessDel(w)
    \/ FailureRead(w) \/ FailureWrite(w) \/ FailureDel(w)
    \/ EndpointSuccess(w) \/ EndpointFailure(w)

Next ==
    \/ \E w \in Slots : Begin(w) \/ Attempt(w) \/ Crash(w) \/ RedisError(w)
    \/ CooldownEnds \/ ProbeExpires \/ Recover \/ RedisWipe
    \/ \E s \in {"ACTIVE", "DISABLED_MANUAL"} : PatchEndpoint(s)

Spec == Init /\ [][Next]_vars

\* Deliveries keep coming while the endpoint is enabled, an attempt that has
\* begun goes on, and the clock runs.
Fairness ==
    /\ \A w \in Slots : WF_vars(Begin(w)) /\ WF_vars(Attempt(w))
    /\ WF_vars(CooldownEnds)
    /\ WF_vars(ProbeExpires)

FairSpec == Spec /\ Fairness

-----------------------------------------------------------------------------
(* Properties *)

TypeOK ==
    /\ snapshot \in Snapshot
    /\ probe \in BOOLEAN
    /\ endpointStatus \in {"ACTIVE", "DISABLED_AUTO", "DISABLED_MANUAL"}
    /\ consecutiveFailures \in 0 .. Cap
    /\ pc \in [Slots -> PCs]
    /\ current \in [Slots -> Snapshot]
    /\ prober \subseteq Slots
    /\ disable \subseteq Slots
    /\ healthy \in BOOLEAN
    /\ faults \in 0 .. MaxFaults
    /\ observed \in 0 .. Cap

\* The circuit is OPEN or HALF_OPEN exactly when the stored count has reached
\* OpenAfter, although slots store snapshots that others have overtaken.
OpenIffThreshold == snapshot.state = "CLOSED" <=> snapshot.failures < OpenAfter

\* An endpoint is disabled automatically only after DisableAfter failed POSTs
\* since it was last enabled: racing slots lose counts but never invent one.
DisableEarned == endpointStatus = "DISABLED_AUTO" => observed >= DisableAfter

\* Once the receiver has recovered for good, the circuit is found closed with both
\* counters at zero again and again, unless the endpoint was disabled on the way:
\* no dead prober and no late write keeps it open for ever.
CircuitRecovers ==
    healthy ~> \/ endpointStatus # "ACTIVE"
               \/ snapshot = EMPTY_CIRCUIT /\ consecutiveFailures = 0
=============================================================================
