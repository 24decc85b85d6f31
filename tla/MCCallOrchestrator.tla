---------------------------- MODULE MCCallOrchestrator ----------------------------
(* Calls, devices and provider calls are interchangeable. *)
EXTENDS CallOrchestrator, TLC

Symmetry == Permutations(Calls) \cup Permutations(Devices) \cup Permutations(ProviderCalls)
=============================================================================
