-------------------------- MODULE MCCircuitBreaker --------------------------
(* Instances of CircuitBreaker for TLC: the slots are model values.  The runs *)
(* check liveness, so there is no symmetry.                                   *)
EXTENDS CircuitBreaker
=============================================================================
