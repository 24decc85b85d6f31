----------------------------- MODULE CallRecords -----------------------------
(***************************************************************************)
(* The orchestrator with the two tables its fire-and-forget writes end up  *)
(* in: the call_history rows kept by CallHistoryService and the            *)
(* notifications rows kept by NotificationService.  The writes of one call *)
(* are separate statements on a connection pool, so those issued and not   *)
(* yet run may run in any order, also against the insert they refer to.    *)
(* A server restart loses the maps and the writes not yet run, and runs    *)
(* StartupCleanupService before the server listens again.                  *)
(***************************************************************************)
EXTENDS CallOrchestrator

CONSTANTS Absent            \* no row yet

VARIABLES
    row,        \* the call_history row of each call
    note,       \* the notifications row of each call
    ran,        \* issued writes that have run
    past        \* calls of earlier runs of the server

records == <<row, note, ran, past>>
allVars == <<vars, records>>

Row == [type : {"INCOMING", "OUTGOING", "MISSED", "DECLINED", "UNANSWERED"},
        answeredBy : Devices \cup {NoDevice}, timed : BOOLEAN]

Note == [type : {"incoming_call", "missed_call"}, status : {"pending", "read"}]

ASSUME AbsentAssumption == Absent \notin Row /\ Absent \notin Note

\* Types of the tables, beside those of the orchestrator.
RecordsTypeOK ==
    /\ TypeOK
    /\ row \in [Calls -> Row \cup {Absent}]
    /\ note \in [Calls -> Note \cup {Absent}]
    /\ past \subseteq Calls

RecordsInit ==
    /\ Init
    /\ row = [c \in Calls |-> Absent]
    /\ note = [c \in Calls |-> Absent]
    /\ ran = {}
    /\ past = {}

-----------------------------------------------------------------------------
(* call_history: every update finds its rows by provider call id           *)

RowsOf(c) == {b \in Calls : row[b] # Absent /\ providerCallId[b] = providerCallId[c]}

Unresolved(r) == r.type = "INCOMING" /\ r.answeredBy = NoDevice

RecordCall(c) ==
    [row EXCEPT ![c] =
        [type |-> IF direction[c] = "inbound" THEN "INCOMING" ELSE "OUTGOING",
         answeredBy |-> NoDevice, timed |-> FALSE]]

\* updateCallTypeByProviderCallId: unanswered INCOMING rows only.
UpdateCallType(c, type) ==
    [b \in Calls |-> IF b \in RowsOf(c) /\ Unresolved(row[b])
                     THEN [row[b] EXCEPT !.type = type] ELSE row[b]]

\* markAnswered: whatever the row says.
MarkAnswered(c) ==
    LET winner == CHOOSE d \in Devices : <<c, d>> \in told IN
    [b \in Calls |-> IF b \in RowsOf(c) THEN [row[b] EXCEPT !.answeredBy = winner]
                     ELSE row[b]]

UpdateDuration(c) ==
    [b \in Calls |-> IF b \in RowsOf(c) THEN [row[b] EXCEPT !.timed = TRUE] ELSE row[b]]

MarkOutboundUnanswered(c) ==
    [b \in Calls |-> IF b \in RowsOf(c) /\ row[b].type = "OUTGOING"
                     THEN [row[b] EXCEPT !.type = "UNANSWERED"] ELSE row[b]]

\* The listener's fallback: MISSED if a row matches, else the duration the provider
\* reports, else UNANSWERED.
LegacyEnd(c) ==
    LET missed == UpdateCallType(c, "MISSED") IN
    IF missed # row THEN {missed} ELSE {UpdateDuration(c), MarkOutboundUnanswered(c)}

RowsAfter(j) ==
    CASE j.op = "insertRow"     -> {RecordCall(j.call)}
      [] j.op = "markAnswered"  -> {MarkAnswered(j.call)}
      [] j.op = "declineRow"    -> {UpdateCallType(j.call, "DECLINED")}
      [] j.op = "missRow"       -> {UpdateCallType(j.call, "MISSED")}
      [] j.op = "duration"      -> {UpdateDuration(j.call)}
      [] j.op = "unansweredRow" -> {MarkOutboundUnanswered(j.call)}
      [] j.op = "legacyEnd"     -> LegacyEnd(j.call)
      [] OTHER                  -> {row}

-----------------------------------------------------------------------------
(* notifications: at most one row per call, found by source_entity_id      *)

MarkCallResolved(c) ==
    IF note[c] = Absent THEN note ELSE [note EXCEPT ![c].status = "read"]

\* Fault: the missed call is announced anew.
TransitionToMissedUnread(c) ==
    IF note[c] = Absent THEN note
    ELSE [note EXCEPT ![c] = [type |-> "missed_call", status |-> "pending"]]

TransitionToMissed(c) ==
    IF note[c] = Absent THEN note ELSE [note EXCEPT ![c].type = "missed_call"]

NotesAfter(j) ==
    CASE j.op = "markResolved"    -> MarkCallResolved(j.call)
      [] j.op = "missNotification" -> TransitionToMissed(j.call)
      [] OTHER                     -> note

-----------------------------------------------------------------------------
\* A write that was issued runs.
RunWrite(j) ==
    /\ j \in issued \ ran
    /\ ran' = ran \cup {j}
    /\ row' \in RowsAfter(j)
    /\ note' = NotesAfter(j)
    /\ UNCHANGED <<vars, past>>

\* createNotification inserts the row in the step in which devices learn its id.
CreateNotification(c) ==
    /\ NotificationSent(c)
    /\ note' = [note EXCEPT ![c] = [type |-> "incoming_call", status |-> "pending"]]
    /\ UNCHANGED <<row, ran, past>>

\* A client marks the notification read, alone or with all others.
MarkRead(c) ==
    /\ note[c] # Absent
    /\ note[c].status = "pending"
    /\ note' = [note EXCEPT ![c].status = "read"]
    /\ UNCHANGED <<vars, row, ran, past>>

CleanRow(r) ==
    IF r = Absent THEN r
    ELSE IF Unresolved(r) THEN [r EXCEPT !.type = "MISSED"]
    ELSE IF r.type = "OUTGOING" /\ ~r.timed THEN [r EXCEPT !.type = "UNANSWERED"]
    ELSE r

\* Fault: pending calls are left for the device to dismiss.
CleanNoteMissedOnly(n) == n

CleanNote(n) ==
    IF n # Absent /\ n.type = "incoming_call" /\ n.status = "pending"
    THEN [n EXCEPT !.type = "missed_call"] ELSE n

\* The process dies, the tables are cleaned up, and the server starts empty.  The
\* MediaBridge keeps its sessions.
ServerRestart ==
    /\ "crash" \in Faults
    /\ \E c \in Calls : setup[c] # "new" /\ c \notin past
    /\ row' = [c \in Calls |-> CleanRow(row[c])]
    /\ note' = [c \in Calls |-> CleanNote(note[c])]
    /\ past' = {c \in Calls : setup[c] # "new"}
    /\ ran' = issued
    /\ setup' = [c \in Calls |-> IF setup[c] = "new" THEN "new" ELSE "failed"]
    /\ watchdog' = [c \in Calls |-> "off"]
    /\ activeCalls' = {}
    /\ sessionToCall' = {}
    /\ providerCallToInternal' = [p \in ProviderCalls |-> NoCall]
    /\ notificationToCall' = {}
    /\ answering' = {}
    /\ notification' = [c \in Calls |-> IF notification[c] = "creating" THEN "none"
                                        ELSE IF notification[c] = "sent" THEN "settled"
                                        ELSE notification[c]]
    /\ destroying' = {}
    /\ listenerUp' = TRUE
    /\ toCheck' = {}
    /\ asked' = {}
    /\ sweep' = {}
    /\ UNCHANGED <<ident, claim, ended, attempts, told, wire, issued, mediaSessions,
                   providerLeg, hangups>>

CallStep(c) ==
    \/ Outbound(c) \/ Inbound(c) \/ MediaEvent(c)
    \/ NotificationFails(c) \/ NotificationRegistered(c)

RecordsNext ==
    \/ /\ (\E c \in Calls : CallStep(c)) \/ Answering \/ Ending \/ Bridge \/ Passes
       /\ UNCHANGED records
    \/ \E c \in Calls : CreateNotification(c) \/ MarkRead(c)
    \/ \E j \in issued : RunWrite(j)
    \/ ServerRestart

RecordsSpec == RecordsInit /\ [][RecordsNext]_allVars

-----------------------------------------------------------------------------
Over(c) == ended[c] /\ c \notin past
Drained(c) == {j \in issued \ ran : j.call = c} = {} /\ notification[c] # "creating"

\* A row cannot say both that a device answered the call and that the call was
\* missed or declined: endCall decides on the claim as it stands, while answers,
\* their failures and the writes of both race (answerCall, endCall).  Only the
\* listener's fallback for a provider id that is not mapped can bring it about, so
\* a row it has edited is outside.
AnsweredNotMissed ==
    ~RetriedWebhooks => \A c \in Calls :
        /\ row[c] # Absent
        /\ row[c].answeredBy # NoDevice
        /\ Job("legacyEnd", c) \notin ran
        => row[c].type \notin {"MISSED", "DECLINED"}

\* What the tables leave open concerns calls of this run of the server: after a
\* restart no row and no pending notification of an earlier run waits for a call
\* that can never be resolved (StartupCleanupService).
OpenOnlyThisRun ==
    \A c \in past :
        /\ row[c] # Absent => ~Unresolved(row[c])
        /\ note[c] # Absent => note[c] # [type |-> "incoming_call", status |-> "pending"]

\* A notification only moves forward: read stays read and missed stays missed,
\* whichever of markCallResolved, transitionToMissed, markRead and the start-up
\* clean-up run late.
NoteMovesForward ==
    [][\A c \in Calls : note[c] # Absent =>
          /\ note'[c] # Absent
          /\ note[c].status = "read" => note'[c].status = "read"
          /\ note[c].type = "missed_call" => note'[c].type = "missed_call"]_allVars
=============================================================================
