---------------------------- MODULE MCRiskConsumer ----------------------------
(* RiskConsumer needs only its bounds to be finite. *)
EXTENDS RiskConsumer
================================================================================
