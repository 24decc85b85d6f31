---------------------------- MODULE MCInboundSms ----------------------------
(* InboundSms for TLC: slots and handler ids are interchangeable.          *)
EXTENDS InboundSms, TLC

Symmetry == Permutations(Slots) \cup Permutations(Handlers)
=============================================================================
