------------------------------ MODULE MCMetrics ------------------------------
(* Instances of Metrics. *)
EXTENDS Metrics
=============================================================================
