------------------------- MODULE DeliveryRefinement -------------------------
(***************************************************************************)
(* The pipeline implements the ledger: the ledger is read off the tables   *)
(* deliveries and delivery_attempts.                                       *)
(***************************************************************************)
EXTENDS DeliveryPipeline

PhaseOf(s) ==
    CASE s = "ABSENT"    -> "none"
      [] s \in Open      -> "owed"
      [] s = "SUCCEEDED" -> "succeeded"
      [] s = "DEAD"      -> "dead"

Ledger == INSTANCE DeliveryLedger WITH
              phase   <- [d \in Deliveries |-> PhaseOf(status[d])],
              settled <- attemptCount,
              started <- claimed,
              acked   <- okAt

\* Whatever relays, workers, redeliveries and faults do, each delivery goes
\* through the states of the ledger: every write of process(), redeliver and
\* publish is one of its steps or changes nothing it can see.
ImplementsLedger == Ledger!LedgerSpec
=============================================================================
