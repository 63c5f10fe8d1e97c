-------------------------- MODULE MCContainerPool ---------------------------
(* ContainerPool on small sets of names and handlers. *)
EXTENDS ContainerPool
=============================================================================
