----------------------------- MODULE InboundSms -----------------------------
(***************************************************************************)
(* An inbound SMS from the modem's storage to the server's table: the      *)
(* gateway's intake, the delivery pump of SMSDelivery, the WebSocket       *)
(* between gateway and server, and on the server receiveMessage with the   *)
(* acknowledgement and the notification that follow it.                    *)
(*                                                                         *)
(* The pump sends every buffered message again until the server has        *)
(* acknowledged it, so the server may work on one message several times at *)
(* once; it drops what it finds in its table, and the table accepts a      *)
(* provider_message_id once.                                               *)
(***************************************************************************)
EXTENDS SmsIntake

CONSTANTS Handlers          \* deliveries of one message under way at a time

VARIABLES
    link,           \* the gateway is connected
    batch,          \* snapshot the pump is sending
    wire,           \* incoming_sms messages under way
    acks,           \* sms_ack messages under way
    handling,       \* receiveMessage and its continuation, at their awaits
    rows,           \* messages: provider_message_id
    notified        \* notifications created for each message

delivery == <<link, batch, wire, acks>>
server == <<handling, rows, notified>>
vars == <<intake, delivery, server>>

Init ==
    /\ IntakeInit
    /\ link = FALSE /\ batch = <<>> /\ wire = {} /\ acks = {}
    /\ handling = {} /\ rows = {}
    /\ notified = [m \in Messages |-> 0]

-----------------------------------------------------------------------------
(* Outages: each loses the connection with what is under way on it         *)

Disconnect ==
    /\ outages < MaxOutages
    /\ outages' = outages + 1
    /\ link' = FALSE /\ wire' = {} /\ acks' = {}

GatewayCrashes ==
    /\ up
    /\ Disconnect
    /\ StopProcess
    /\ batch' = <<>>
    /\ UNCHANGED server

ConnectionLost ==
    /\ link
    /\ Disconnect
    /\ UNCHANGED <<modem, reader, listed, assembly, inbox, up, batch, server>>

ServerRestarts ==
    /\ Disconnect
    /\ handling' = {}
    /\ UNCHANGED <<modem, reader, listed, assembly, inbox, up, batch, rows, notified>>

Connect ==
    /\ up /\ ~link
    /\ link' = TRUE
    /\ UNCHANGED <<intake, batch, wire, acks, server>>

-----------------------------------------------------------------------------
(* The pump of SMSDelivery                                                 *)

\* A kick or the ticker: flush takes a snapshot of the buffer.
Flush ==
    /\ up /\ link /\ batch = <<>> /\ inbox.mem # <<>>
    /\ batch' = inbox.mem
    /\ UNCHANGED <<intake, link, wire, acks, server>>

SendOne ==
    /\ batch # <<>> /\ link
    /\ wire' = wire \cup {Head(batch)}
    /\ batch' = Tail(batch)
    /\ UNCHANGED <<intake, link, acks, server>>

\* Not connected: flush returns and leaves the rest to a later one.
GiveUp ==
    /\ batch # <<>> /\ ~link
    /\ batch' = <<>>
    /\ UNCHANGED <<intake, link, wire, acks, server>>

\* HandleAck removes the message from the buffer.
HandleAck(m) ==
    /\ m \in acks
    /\ acks' = acks \ {m}
    /\ \E left \in RemoveAll(inbox, {m}, DiskMayFail) : inbox' = left.buf /\ Wrote(left.ok)
    /\ UNCHANGED <<modem, reader, listed, assembly, up, link, batch, wire, server>>

-----------------------------------------------------------------------------
(* The server                                                              *)

\* receiveMessage of m, at one of its awaits.
At(m, id, at) == [sms |-> m, id |-> id, at |-> at]

Acknowledge(m) == acks' = IF link THEN acks \cup {m} ELSE acks

\* Fault: the message is acknowledged before it is stored.
ReceiveMessageAckFirst(m, id) ==
    /\ m \in wire /\ \A h \in handling : ~(h.sms = m /\ h.id = id)
    /\ wire' = wire \ {m}
    /\ Acknowledge(m)
    /\ handling' = handling \cup {At(m, id, "checked") : n \in {m} \ rows}
    /\ UNCHANGED <<intake, link, batch, rows, notified>>

\* Fault: a duplicate is dropped without an acknowledgement.
ReceiveMessageSilent(m, id) ==
    /\ m \in wire /\ \A h \in handling : ~(h.sms = m /\ h.id = id)
    /\ wire' = wire \ {m}
    /\ handling' = handling \cup {At(m, id, "checked") : n \in {m} \ rows}
    /\ UNCHANGED <<intake, link, batch, acks, rows, notified>>

\* receiveMessage looks for the message; a duplicate is acknowledged at once.
ReceiveMessage(m, id) ==
    /\ m \in wire
    /\ \A h \in handling : ~(h.sms = m /\ h.id = id)
    /\ wire' = wire \ {m}
    /\ IF m \in rows
       THEN Acknowledge(m) /\ UNCHANGED handling
       ELSE handling' = handling \cup {At(m, id, "checked")} /\ UNCHANGED acks
    /\ UNCHANGED <<intake, link, batch, rows, notified>>

\* Fault: the table accepts a provider_message_id again.
InsertMessageAgain(m, id) ==
    /\ At(m, id, "checked") \in handling
    /\ rows' = rows \cup {m}
    /\ handling' = (handling \ {At(m, id, "checked")}) \cup {At(m, id, "inserted")}
    /\ UNCHANGED <<intake, delivery, notified>>

\* The insert, refused when the id is in the table by now.
InsertMessage(m, id) ==
    /\ At(m, id, "checked") \in handling
    /\ rows' = rows \cup {m}
    /\ handling' = (handling \ {At(m, id, "checked")})
                   \cup IF m \in rows THEN {} ELSE {At(m, id, "inserted")}
    /\ UNCHANGED <<intake, delivery, notified>>

\* updateConversationMetadata resolves: broadcast, then the acknowledgement.
MetadataUpdated(m, id) ==
    /\ At(m, id, "inserted") \in handling
    /\ Acknowledge(m)
    /\ handling' = (handling \ {At(m, id, "inserted")}) \cup {At(m, id, "acked")}
    /\ UNCHANGED <<intake, link, batch, wire, rows, notified>>

CreateNotification(m, id) ==
    /\ At(m, id, "acked") \in handling
    /\ notified' = [notified EXCEPT ![m] = @ + 1]
    /\ handling' = handling \ {At(m, id, "acked")}
    /\ UNCHANGED <<intake, delivery, rows>>

\* A query rejects: the error is logged and nothing acknowledged.
QueryFails(h) ==
    /\ h \in handling /\ outages < MaxOutages
    /\ outages' = outages + 1
    /\ handling' = handling \ {h}
    /\ UNCHANGED <<modem, reader, listed, assembly, inbox, up, delivery, rows, notified>>

-----------------------------------------------------------------------------
Pump == Flush \/ SendOne \/ GiveUp \/ \E m \in Messages : HandleAck(m)

Serve(m, id) ==
    \/ ReceiveMessage(m, id) \/ InsertMessage(m, id)
    \/ MetadataUpdated(m, id) \/ CreateNotification(m, id)

Outage ==
    \/ GatewayCrashes \/ ConnectionLost \/ ServerRestarts
    \/ \E h \in handling : QueryFails(h)

Next ==
    \/ IntakeNext /\ UNCHANGED <<delivery, server>>
    \/ Connect \/ Pump
    \/ \E m \in Messages, id \in Handlers : Serve(m, id)
    \/ Outage

Spec == Init /\ [][Next]_vars

\* Goroutines and awaits go on, the gateway is started again and reconnects,
\* the ticker of the pump fires.  Nothing is assumed of the network.
FairSpec ==
    /\ Spec
    /\ \A r \in Readers : WF_vars(Reading(r) /\ UNCHANGED <<delivery, server>>)
    /\ WF_vars((Draining \/ Boot) /\ UNCHANGED <<delivery, server>>)
    /\ WF_vars(Connect) /\ WF_vars(Flush) /\ WF_vars(SendOne) /\ WF_vars(GiveUp)
    /\ \A m \in Messages :
         /\ WF_vars(HandleAck(m))
         /\ \A id \in Handlers : WF_vars(Serve(m, id))

-----------------------------------------------------------------------------
(* Properties                                                              *)

\* Every part the network has delivered is in the modem, in the part store, in
\* the buffer (as its message) or in the server's table, on a medium that
\* survives a crash; only a message whose parts were held for longer than the
\* stale timeout may be gone.  (smsdelivery.go: "never dropped from the buffer
\* before the server has durably accepted it, and never deleted from the modem
\* before it is in the buffer")
NothingLost ==
    \A p \in arrived :
        \/ \E s \in Slots : storage[s] = p
        \/ Contains(parts.file, p)
        \/ Contains(inbox.file, p[1])
        \/ p[1] \in rows \cup expired

\* The gateway deletes from the modem only what it has stored: the part in the
\* part store, or its message in the buffer.  (sms.go, processStoredIndex: "A
\* readable message is never deleted before it is durably persisted")
Persisted(p) ==
    Contains(parts.file, p) \/ Contains(inbox.file, p[1]) \/ p[1] \in rows \cup expired

PersistedBeforeDelete ==
    [][\A s \in Slots : storage[s] # None /\ storage'[s] = None => Persisted(storage[s])]_vars

\* A message that has reached the file of the buffer is stored by the server
\* and leaves the memory of the pump, whatever fails in between.
InboxDrains ==
    \A m \in Messages :
        Contains(inbox.file, m) ~> (m \in rows /\ ~Contains(inbox.mem, m))

-----------------------------------------------------------------------------
(* What the sender and the user may rely on                                *)

Service == INSTANCE SmsService
    WITH received <- {m \in Messages : PartsOf(m) \subseteq arrived},
         stored <- rows,
         announced <- notified

\* Only messages that have arrived in full are stored, each once, and each is
\* announced at most once, after it has been stored.
ImplementsService == Service!Spec
=============================================================================
