---------------------------- MODULE MCCallHistory -----------------------------
(***************************************************************************)
(* Provider numbers and request slots are interchangeable.  Once raced,    *)
(* which stays so, the types that list and answers show are looked at by   *)
(* no property and by no action, nor is the filter of an answered request: *)
(* states that differ in nothing else are one state.                       *)
(***************************************************************************)
EXTENDS CallHistory, TLC

Symmetry == Permutations(Lines) \cup Permutations(Slots)

ShownIds(list) == [k \in DOMAIN list |-> list[k].id]
Answered(r) == IF r # Idle /\ r.rows # None
               THEN [r EXCEPT !.rows = ShownIds(@), !.filter = None] ELSE r

View ==
    IF ~raced THEN vars
    ELSE <<row, call, recorded, saving, telling, sock, [view EXCEPT !.list = ShownIds(@)],
           [s \in Slots |-> Answered(req[s])], crowded, lapsed, events>>
===============================================================================
