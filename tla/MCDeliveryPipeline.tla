------------------------ MODULE MCDeliveryPipeline ------------------------
(* Instances of DeliveryPipeline for TLC. *)
EXTENDS DeliveryRefinement, TLC

\* Worker slots: one per process, or all in one process.
CONSTANTS w1, w2, r1, r2

MCOnePerProcess == [w \in Workers |-> IF w = w1 THEN "p1" ELSE "p2"]
MCOneProcess    == [w \in Workers |-> "p1"]

\* The slots of one process, and relays, are interchangeable.
MCSymmetry == Permutations(Workers) \cup Permutations(Relays)
=============================================================================
