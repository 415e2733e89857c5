--------------------------- MODULE DeliveryLedger ---------------------------
(***************************************************************************)
(* What HookRelay promises about one delivery, without relays, queue,      *)
(* workers or faults: a delivery is owed until an attempt of it was        *)
(* acknowledged or the attempt budget is used up; attempts are numbered    *)
(* without gaps, one starts only when the one before is settled, no number *)
(* is ever sent twice; and a settled delivery is owed again only after an  *)
(* explicit redelivery.  An attempt that was started may never be settled  *)
(* (its worker may die).                                                   *)
(***************************************************************************)
EXTENDS Naturals

CONSTANTS Deliveries, MaxAttempts

VARIABLES
    phase,    \* "none", "owed", "succeeded" or "dead"
    settled,  \* number of attempts settled
    started,  \* attempt numbers that may have reached the endpoint
    acked     \* attempt numbers known to be acknowledged with a 2xx

ledgerVars == <<phase, settled, started, acked>>

LedgerInit ==
    /\ phase = [d \in Deliveries |-> "none"]
    /\ settled = [d \in Deliveries |-> 0]
    /\ started = [d \in Deliveries |-> {}]
    /\ acked = [d \in Deliveries |-> {}]

\* Deliveries come to exist: the fan-out of an event, or a ping.
Create(S) ==
    /\ \A d \in S : phase[d] = "none"
    /\ phase' = [d \in Deliveries |-> IF d \in S THEN "owed" ELSE phase[d]]
    /\ UNCHANGED <<settled, started, acked>>

Start(d) ==
    /\ phase[d] = "owed"
    /\ settled[d] + 1 \notin started[d]
    /\ started' = [started EXCEPT ![d] = @ \cup {settled[d] + 1}]
    /\ UNCHANGED <<phase, settled, acked>>

Acknowledge(d) ==
    /\ phase[d] = "owed"
    /\ settled[d] + 1 \in started[d]
    /\ acked' = [acked EXCEPT ![d] = @ \cup {settled[d] + 1}]
    /\ UNCHANGED <<phase, settled, started>>

\* The attempt counts: the delivery succeeds exactly when it was acknowledged.
Settle(d) ==
    LET n == settled[d] + 1
    IN  /\ phase[d] = "owed"
        /\ n \in started[d]
        /\ settled' = [settled EXCEPT ![d] = n]
        /\ phase' = [phase EXCEPT ![d] =
               IF n \in acked[d] THEN "succeeded"
               ELSE IF n >= MaxAttempts THEN "dead" ELSE "owed"]
        /\ UNCHANGED <<started, acked>>

Reopen(d) ==
    /\ phase[d] # "none"
    /\ phase' = [phase EXCEPT ![d] = "owed"]
    /\ UNCHANGED <<settled, started, acked>>

LedgerNext ==
    \/ \E S \in SUBSET Deliveries : Create(S)
    \/ \E d \in Deliveries : Start(d) \/ Acknowledge(d) \/ Settle(d) \/ Reopen(d)

LedgerSpec == LedgerInit /\ [][LedgerNext]_ledgerVars
=============================================================================
