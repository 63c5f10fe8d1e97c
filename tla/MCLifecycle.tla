---------------------------- MODULE MCLifecycle -----------------------------
(* Lifecycle on a few names and pairing codes. *)
EXTENDS Lifecycle, TLC

Symmetry == Permutations(Names) \cup Permutations(Codes) \cup Permutations(Installers)
            \cup Permutations(Removers)
=============================================================================
