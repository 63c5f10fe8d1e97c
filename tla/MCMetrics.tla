----------------------------- MODULE MCMetrics -----------------------------
(* Metrics on a small instance: see metrics.cfg.                           *)
EXTENDS Metrics
=============================================================================
