------------------------------ MODULE MCProviders -----------------------------
(* Providers with interchangeable numbers, colors, instances and slots.      *)
EXTENDS Providers, TLC

Symmetry == UNION {Permutations(S) : S \in {Ids, Numbers, Colors, Insts, Ops}}
===============================================================================
