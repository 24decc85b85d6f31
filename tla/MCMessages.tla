------------------------------ MODULE MCMessages ------------------------------
(* Deliveries of one message are interchangeable.                          *)
EXTENDS Messages, TLC
Symmetry == Permutations(Deliveries)
===============================================================================
