---------------------------- MODULE MCTenantApi ----------------------------
(* Instances of TenantApi for TLC. *)
EXTENDS TenantApi
=============================================================================
