------------------------- MODULE MCCallOrchestratorRefines -------------------------
(* The refinement mapping treats every device alike. *)
EXTENDS CallOrchestratorRefines, TLC

Symmetry == Permutations(Devices)
=============================================================================
