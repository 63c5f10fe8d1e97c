----------------------------- MODULE MCWebTerm -----------------------------
(* WebTerm on a small instance: see webterm.cfg.                           *)
EXTENDS WebTerm
=============================================================================
