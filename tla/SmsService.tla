----------------------------- MODULE SmsService -----------------------------
(***************************************************************************)
(* What the inbound SMS path promises: a message is stored only when all   *)
(* of it was received, and it is announced to the devices at most once,    *)
(* after it was stored.  Several messages may be received at a time.       *)
(***************************************************************************)
EXTENDS Naturals

CONSTANT Messages

VARIABLES received, stored, announced

service == <<received, stored, announced>>

Init == received = {} /\ stored = {} /\ announced = [m \in Messages |-> 0]

Receive ==
    /\ received' \in {R \in SUBSET Messages : received \subseteq R}
    /\ UNCHANGED <<stored, announced>>

Store(m) ==
    /\ m \in received \ stored
    /\ stored' = stored \cup {m}
    /\ UNCHANGED <<received, announced>>

Announce(m) ==
    /\ m \in stored /\ announced[m] = 0
    /\ announced' = [announced EXCEPT ![m] = 1]
    /\ UNCHANGED <<received, stored>>

Next == Receive \/ \E m \in Messages : Store(m) \/ Announce(m)

Spec == Init /\ [][Next]_service
=============================================================================
