------------------------- MODULE MCDeliveryHistory -------------------------
(* Instances of DeliveryHistory for TLC. *)
EXTENDS DeliveryHistory, MCDeliveryPipeline
=============================================================================
