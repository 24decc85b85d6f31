----------------------------- MODULE SmsIntake -----------------------------
(***************************************************************************)
(* How the modem gateway takes inbound SMS from the modem's storage into   *)
(* its buffer: sms.Manager, its Reassembler, the part store and the        *)
(* persistent buffer of SMSDelivery.                                       *)
(*                                                                         *)
(* Every +CMTI runs handleCMTI in a goroutine of its own, and a drain may  *)
(* run beside them; all share the modem's storage, one command at a time,  *)
(* and the memory the drain has selected.  An action is the code between   *)
(* two commands or two locks.  A crash loses the goroutines and whatever   *)
(* is in memory; the files stay.                                           *)
(*                                                                         *)
(* A part is <<message, number>>.  Messages arrive in the memory "SM".     *)
(***************************************************************************)
EXTENDS PersistentBuffer, FiniteSets

CONSTANTS
    Messages,       \* inbound SMS
    Multipart,      \* those sent in two parts
    Slots,          \* slots of the SM memory
    Drain,          \* the reader DrainStoredMessages
    None,
    Faults,         \* what may go wrong
    MaxOutages      \* bound on crashes, lost connections and other failures

ASSUME IntakeAssumption ==
    /\ Multipart \subseteq Messages
    /\ Faults \subseteq {"reuse", "stale", "at", "disk"}
    /\ MaxOutages \in Nat

Parts == (Messages \X {1}) \cup (Multipart \X {2})
PartsOf(m) == {p \in Parts : p[1] = m}
Readers == Parts \cup {Drain}

ASSUME PartsAssumption == None \notin Parts /\ Drain \notin Parts

VARIABLES
    arrived,        \* parts the network has put into the storage
    storage,        \* the SM memory
    selected,       \* the memory that commands go to (AT+CPMS)
    reader,         \* handleCMTI of each part, and the drain
    listed,         \* indices the drain has still to process
    pending,        \* Reassembler.pending: parts held of each message
    overdue,        \* messages whose first part is older than the stale timeout
    expired,        \* messages dropped for that reason
    parts,          \* the part store
    inbox,          \* the buffer of SMSDelivery
    up,             \* the gateway is running
    outages

modem == <<arrived, storage, selected>>
assembly == <<pending, overdue, expired, parts>>
intake == <<modem, reader, listed, assembly, inbox, up, outages>>

Idle == [pc |-> "idle", slot |-> None, part |-> None]

IntakeInit ==
    /\ arrived = {}
    /\ storage = [s \in Slots |-> None]
    /\ selected = "SM"
    /\ reader = [r \in Readers |-> Idle]
    /\ listed = {}
    /\ pending = [m \in Messages |-> {}]
    /\ overdue = {} /\ expired = {}
    /\ parts = EmptyBuffer /\ inbox = EmptyBuffer
    /\ up = FALSE
    /\ outages = 0

Message(r) == reader[r].part[1]

DiskMayFail == "disk" \in Faults /\ outages < MaxOutages

\* A write that failed counts as an outage.
Wrote(ok) == outages' = IF ok THEN outages ELSE outages + 1

-----------------------------------------------------------------------------
(* The modem and the network                                               *)

AtHand(s) == s \in listed \/ \E r \in Readers : reader[r].slot = s

\* The network stores a part; +CMTI reaches a running gateway.
Arrive(p, s) ==
    /\ p \notin arrived /\ storage[s] = None
    /\ "reuse" \in Faults \/ ~AtHand(s)
    /\ arrived' = arrived \cup {p}
    /\ storage' = [storage EXCEPT ![s] = p]
    /\ reader' = IF up THEN [reader EXCEPT ![p] = [pc |-> "read", slot |-> s, part |-> None]]
                 ELSE reader
    /\ UNCHANGED <<selected, listed, assembly, inbox, up, outages>>

\* +SMS FULL, a message (maybe one not modelled) was turned away: handleSMSFull
\* starts a drain unless one is running.
SmsFull ==
    /\ up /\ reader[Drain] = Idle
    /\ \A s \in Slots : storage[s] # None
    /\ reader' = [reader EXCEPT ![Drain] = [Idle EXCEPT !.pc = "list"]]
    /\ UNCHANGED <<modem, listed, assembly, inbox, up, outages>>

\* Five minutes pass since the first part of m was received (bound: once).
GoesStale(m) ==
    /\ "stale" \in Faults
    /\ m \notin overdue \cup expired
    /\ pending[m] \cup (PartsOf(m) \cap ToSet(parts.file)) # {}
    /\ overdue' = overdue \cup {m}
    /\ UNCHANGED <<modem, reader, listed, pending, expired, parts, inbox, up, outages>>

\* AT+CMGD, which may fail and then leaves the part where it is.
DeleteStored(s) ==
    \/ storage' = IF selected = "SM" THEN [storage EXCEPT ![s] = None] ELSE storage
    \/ "at" \in Faults /\ UNCHANGED storage

-----------------------------------------------------------------------------
(* handleCMTI and processStoredIndex                                       *)

Done(r) ==
    reader' = [reader EXCEPT ![r] = IF r = Drain THEN [Idle EXCEPT !.pc = "next"] ELSE Idle]

Goto(r, pc) == reader' = [reader EXCEPT ![r].pc = pc]

Readable(r) == selected = "SM" /\ storage[reader[r].slot] # None

ReadMessage(r) ==
    LET p == storage[reader[r].slot] IN
    /\ reader[r].pc = "read" /\ Readable(r)
    /\ reader' = [reader EXCEPT ![r].part = p,
                                ![r].pc = IF p[1] \in Multipart THEN "add" ELSE "deliver"]
    /\ UNCHANGED <<modem, listed, assembly, inbox, up, outages>>

\* handleCMTI leaves what it cannot read; the drain deletes it.
ReadFails(r) ==
    /\ reader[r].pc = "read" /\ (~Readable(r) \/ "at" \in Faults)
    /\ IF r = Drain THEN Goto(r, "free") ELSE Done(r)
    /\ UNCHANGED <<modem, listed, assembly, inbox, up, outages>>

\* Reassembler.AddPart, under its lock: stale messages go, the part is
\* stored (an error is only logged), and the message may be complete.
AddPart(r) ==
    LET m == Message(r)
        stale == {n \in overdue : pending[n] # {}}
        kept == [n \in Messages |-> IF n \in stale THEN {} ELSE pending[n]]
        held == kept[m] \cup {reader[r].part}
    IN  /\ reader[r].pc = "add"
        /\ \E cleaned \in RemoveAll(parts, UNION {pending[n] : n \in stale}, DiskMayFail) :
             \E pushed \in Push(cleaned.buf, reader[r].part, DiskMayFail) :
                /\ parts' = pushed.buf
                /\ Wrote(cleaned.ok /\ pushed.ok)
        /\ pending' = [kept EXCEPT ![m] = held]
        /\ overdue' = overdue \ stale
        /\ expired' = expired \cup stale
        /\ Goto(r, IF held = PartsOf(m) THEN "deliver" ELSE "free")
        /\ UNCHANGED <<modem, listed, inbox, up>>

\* The delete that ends the processing of an index without delivery.
FreeSlot(r) ==
    /\ reader[r].pc = "free"
    /\ DeleteStored(reader[r].slot)
    /\ Done(r)
    /\ UNCHANGED <<arrived, selected, listed, assembly, inbox, up, outages>>

\* deliverIncoming: SMSDelivery.Persist pushes the message into the buffer.
Deliver(r) ==
    /\ reader[r].pc = "deliver"
    /\ \E pushed \in Push(inbox, Message(r), DiskMayFail) :
         /\ inbox' = pushed.buf
         /\ Wrote(pushed.ok)
         /\ IF pushed.ok THEN Goto(r, "delete") ELSE Done(r)
    /\ UNCHANGED <<modem, listed, assembly, up>>

DeleteDelivered(r) ==
    /\ reader[r].pc = "delete"
    /\ DeleteStored(reader[r].slot)
    /\ IF Message(r) \in Multipart THEN Goto(r, "commit") ELSE Done(r)
    /\ UNCHANGED <<arrived, selected, listed, assembly, inbox, up, outages>>

\* Reassembler.Commit
Commit(r) ==
    LET m == Message(r) IN
    /\ reader[r].pc = "commit"
    /\ \E left \in RemoveAll(parts, pending[m], DiskMayFail) :
         parts' = left.buf /\ Wrote(left.ok)
    /\ pending' = [pending EXCEPT ![m] = {}]
    /\ overdue' = overdue \ {m}
    /\ Done(r)
    /\ UNCHANGED <<modem, listed, expired, inbox, up>>

-----------------------------------------------------------------------------
(* DrainStoredMessages: the SM memory, the others, then back to SM         *)

DrainLists ==
    /\ reader[Drain].pc = "list"
    /\ selected' = "SM"
    /\ listed' = {s \in Slots : storage[s] # None}
    /\ Goto(Drain, "next")
    /\ UNCHANGED <<arrived, storage, assembly, inbox, up, outages>>

DrainNext(s) ==
    /\ reader[Drain].pc = "next" /\ s \in listed
    /\ listed' = listed \ {s}
    /\ reader' = [reader EXCEPT ![Drain] = [pc |-> "read", slot |-> s, part |-> None]]
    /\ UNCHANGED <<modem, assembly, inbox, up, outages>>

DrainOthers ==
    /\ reader[Drain].pc = "next" /\ listed = {}
    /\ selected' = "other"
    /\ Goto(Drain, "others")
    /\ UNCHANGED <<arrived, storage, listed, assembly, inbox, up, outages>>

DrainRestores ==
    /\ reader[Drain].pc = "others"
    /\ \/ selected' = "SM"
       \/ "at" \in Faults /\ UNCHANGED selected
    /\ reader' = [reader EXCEPT ![Drain] = Idle]
    /\ UNCHANGED <<arrived, storage, listed, assembly, inbox, up, outages>>

-----------------------------------------------------------------------------
(* The process                                                             *)

StopProcess ==
    /\ reader' = [r \in Readers |-> Idle]
    /\ listed' = {}
    /\ pending' = [m \in Messages |-> {}]
    /\ parts' = [parts EXCEPT !.mem = <<>>]
    /\ inbox' = [inbox EXCEPT !.mem = <<>>]
    /\ up' = FALSE
    /\ UNCHANGED <<modem, overdue, expired>>

\* The buffers are loaded, parts not yet stale go back into pending, and the
\* boot drain starts beside the +CMTI handlers.
Boot ==
    LET loaded == Load(parts)
        stale == {p \in ToSet(loaded.mem) : p[1] \in overdue}
    IN  /\ ~up
        /\ up' = TRUE
        /\ \E left \in RemoveAll(loaded, stale, DiskMayFail) :
             parts' = left.buf /\ Wrote(left.ok)
        /\ pending' = [m \in Messages |-> (PartsOf(m) \cap ToSet(loaded.mem)) \ stale]
        /\ overdue' = {}
        /\ expired' = expired \cup overdue
        /\ inbox' = Load(inbox)
        /\ reader' = [reader EXCEPT ![Drain] = [Idle EXCEPT !.pc = "list"]]
        /\ UNCHANGED <<modem, listed>>

Reading(r) ==
    \/ ReadMessage(r) \/ ReadFails(r)
    \/ AddPart(r) \/ FreeSlot(r)
    \/ Deliver(r) \/ DeleteDelivered(r) \/ Commit(r)

Draining ==
    \/ DrainLists \/ DrainOthers \/ DrainRestores
    \/ \E s \in Slots : DrainNext(s)

IntakeNext ==
    \/ \E p \in Parts, s \in Slots : Arrive(p, s)
    \/ \E m \in Multipart : GoesStale(m)
    \/ SmsFull
    \/ \E r \in Readers : Reading(r)
    \/ Draining
    \/ Boot
=============================================================================
