---------------------------- MODULE CallLifecycle ----------------------------
(***************************************************************************)
(* What the call orchestrator promises about one call, seen from the       *)
(* devices: a call opens once and closes once; while it is open at most    *)
(* one device holds it; a holder may lose the call only by giving it up    *)
(* before it was told that it won; a device that was told it won is the    *)
(* only one that ever is.  Whether a call may be granted after it closed   *)
(* is left open: an answer that was pending when the call ended still gets *)
(* its reply.                                                              *)
(***************************************************************************)
CONSTANTS Calls, Devices, NoDevice

VARIABLES
    phase,     \* "unknown", "open" or "over"
    holder,    \* the device that has claimed the call
    winners    \* <<call, device>>: devices that were told they have the call

lifecycle == <<phase, holder, winners>>

Init ==
    /\ phase = [c \in Calls |-> "unknown"]
    /\ holder = [c \in Calls |-> NoDevice]
    /\ winners = {}

Open(c) ==
    /\ phase[c] = "unknown"
    /\ phase' = [phase EXCEPT ![c] = "open"]
    /\ UNCHANGED <<holder, winners>>

Take(c, d) ==
    /\ phase[c] = "open"
    /\ holder[c] = NoDevice
    /\ holder' = [holder EXCEPT ![c] = d]

Claim(c, d) == Take(c, d) /\ UNCHANGED <<phase, winners>>

\* Claimed and confirmed at once: no provider leg has to be answered.
ClaimAndGrant(c, d) ==
    /\ Take(c, d)
    /\ winners' = winners \cup {<<c, d>>}
    /\ UNCHANGED phase

Grant(c, d) ==
    /\ holder[c] = d
    /\ winners' = winners \cup {<<c, d>>}
    /\ UNCHANGED <<phase, holder>>

GiveUp(c) ==
    /\ <<c, holder[c]>> \notin winners
    /\ holder' = [holder EXCEPT ![c] = NoDevice]
    /\ UNCHANGED <<phase, winners>>

Close(c) ==
    /\ phase[c] = "open"
    /\ phase' = [phase EXCEPT ![c] = "over"]
    /\ UNCHANGED <<holder, winners>>

Next ==
    \E c \in Calls :
        \/ Open(c) \/ Close(c) \/ GiveUp(c)
        \/ \E d \in Devices : Claim(c, d) \/ Grant(c, d) \/ ClaimAndGrant(c, d)

Spec == Init /\ [][Next]_lifecycle
=============================================================================
