----------------------------- MODULE MCSessions -----------------------------
(* ConfigStore with sign-in, with a few requests of each kind: config.cfg. *)
EXTENDS Sessions
=============================================================================
