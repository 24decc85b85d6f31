------------------------------- MODULE MCCallRecords -------------------------------
(* markAnswered picks the device that was told with CHOOSE; there is one at most, so
   devices stay interchangeable. *)
EXTENDS CallRecords, TLC

Symmetry == Permutations(Devices)
=============================================================================
