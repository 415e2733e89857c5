-------------------------- MODULE MCTenantLimiter --------------------------
(* Instances of TenantLimiter for TLC. *)
EXTENDS TenantLimiter, TLC

\* Slots are interchangeable; used by runs without liveness only.
MCSymmetry == Permutations(Slots)
=============================================================================
