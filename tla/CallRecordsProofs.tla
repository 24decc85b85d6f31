-------------------------- MODULE CallRecordsProofs --------------------------
(***************************************************************************)
(* Machine-checked proofs about CallRecords, with server restarts and the  *)
(* database writes in any order: the types of the two tables, that nothing *)
(* waits for a call of an earlier run of the server (OpenOnlyThisRun),     *)
(* that notifications only move forward (NoteMovesForward), and that no    *)
(* row calls an answered call missed unless the listener's fallback edited *)
(* it (AnsweredNotMissed).                                                 *)
(***************************************************************************)
EXTENDS CallRecords, CallOrchestratorProofs

\* The tuples that only group variables for UNCHANGED.
USE DEF call, ident, claim, table, client, media, passes, Close, Destroy, Untrack, MayAnswer

-----------------------------------------------------------------------------
(* What a handler of the orchestrator may do to the calls whose setup is   *)
(* over: it tracks them no more, creates no notification and no row.       *)

BeforeNote == {"none", "creating"}

Settled ==
    /\ \A c \in Calls : setup[c] = "failed" =>
          /\ setup'[c] = "failed"
          /\ c \in activeCalls' => c \in activeCalls
          /\ notification'[c] = "creating" => notification[c] = "creating"
          /\ Job("insertRow", c) \in issued' => Job("insertRow", c) \in issued
    /\ \A c \in Calls : notification'[c] \in BeforeNote => notification[c] \in BeforeNote
    /\ told \subseteq told'
    /\ \A c \in Calls : Job("markAnswered", c) \in issued' =>
          Job("markAnswered", c) \in issued \/ \E d \in Devices : <<c, d>> \in told'

settledVars == <<setup, activeCalls, notification, issued, told>>

\* A step that leaves setups, notifications, writes and confirmations alone.
LEMMA SettledQuiet == ASSUME UNCHANGED settledVars PROVE Settled
    BY DEF settledVars, Settled

\* A setup that has not failed moves on, and its call may begin to be tracked.
LEMMA SettledAdvance ==
    ASSUME TypeOK, NEW c \in Calls, NEW phase \in Phases, setup[c] # "failed",
           Advance(c, phase),
           activeCalls' \in {activeCalls, activeCalls \cup {c}},
           issued' \in {issued, issued \cup {Job("insertRow", c)}},
           UNCHANGED <<notification, told>>
    PROVE  Settled
    BY DEF TypeOK, Advance, Settled, Job

\* endCall issues writes about a row that is there.
LEMMA SettledEnd ==
    ASSUME NEW c, NEW trigger, EndCall(c, trigger) PROVE Settled
<1>1. PICK jobs \in EndJobs(c, trigger) : issued' = issued \cup jobs
    BY DEF EndCall
<1>2. \A b : Job("insertRow", b) \notin jobs /\ Job("markAnswered", b) \notin jobs
    BY <1>1 DEF EndJobs, Job
<1>3. activeCalls' \subseteq activeCalls /\ UNCHANGED <<setup, notification, told>>
    BY DEF EndCall
<1> QED BY <1>1, <1>2, <1>3 DEF Settled

\* Every step of an outbound setup.
LEMMA SettledOutbound == ASSUME TypeOK, NEW c \in Calls, Outbound(c) PROVE Settled
<1>1. CASE \/ \E d \in Devices, k \in Kinds : InitiateOutbound(c, d, k)
           \/ OutboundSessionCreated(c)
           \/ \E created \in BOOLEAN : OutboundSessionFails(c, created)
           \/ MakeCallFails(c)
    BY <1>1, SettledAdvance DEF InitiateOutbound, OutboundSessionCreated, OutboundSessionFails,
        MakeCallFails, Phases
<1>2. CASE \E p \in ProviderCalls : MakeCallReturns(c, p)
    BY <1>2, SettledAdvance DEF MakeCallReturns, TrackOutbound, Track, Phases
<1>3. CASE PatchSettles(c)
    BY <1>3, SettledAdvance DEF PatchSettles, TrackOutbound, Track, Phases
<1> QED BY <1>1, <1>2, <1>3 DEF Outbound

\* Every step of handleInbound.
LEMMA SettledInbound == ASSUME TypeOK, NoteInv, NEW c \in Calls, Inbound(c) PROVE Settled
<1>1. CASE \/ \E p \in ProviderCalls, k \in Kinds : HandleInbound(c, p, k)
           \/ InboundSessionCreated(c)
           \/ \E created \in BOOLEAN : InboundSessionFails(c, created)
           \/ NumbersFail(c)
    BY <1>1, SettledAdvance DEF HandleInbound, InboundSessionCreated, InboundSessionFails,
        NumbersFail, Track, Phases
<1>2. CASE NumbersReturned(c)
    BY <1>2 DEF NumbersReturned, TypeOK, Advance, Settled, NoteInv, NotYetNotified, BeforeNote
<1> QED BY <1>1, <1>2 DEF Inbound

\* A confirmed answer names its device.
LEMMA SettledConfirm ==
    ASSUME NEW c \in Calls, NEW d \in Devices, ConfirmAnswer(c, d), UNCHANGED <<setup, activeCalls>>
    PROVE  Settled
    BY DEF ConfirmAnswer, Settled, Job

\* Every step of answerCall: only a confirmed answer issues the mark of the winner.
LEMMA SettledAnswering == ASSUME TypeOK, Answering PROVE Settled
<1>1. CASE \E id \in Ids, d \in Devices : AnswerCall(id, d)
    <2>1. PICK id \in Ids, d \in Devices : AnswerCall(id, d)
        BY <1>1
    <2> DEFINE c == ResolveToCallId(id)
    <2>2. /\ c \in Calls
          /\ IF direction[c] = "inbound" THEN UNCHANGED <<client, issued>>
                                         ELSE ConfirmAnswer(c, d)
          /\ UNCHANGED <<setup, activeCalls>>
        BY <2>1 DEF AnswerCall, TypeOK
    <2> HIDE DEF c
    <2> QED BY <2>2, SettledConfirm, SettledQuiet DEF settledVars
<1>2. CASE \E r \in answering : AnswerPatched(r) \/ AnswerFails(r)
    BY <1>2, SettledQuiet DEF AnswerPatched, AnswerFails, settledVars
<1>3. CASE \E r \in answering : AnswerSucceeds(r)
    <2>1. PICK r \in answering : AnswerSucceeds(r)
        BY <1>3
    <2>2. r.call \in Calls /\ r.device \in Devices
        BY DEF TypeOK, AnswerRequest
    <2> QED BY <2>1, <2>2, SettledConfirm DEF AnswerSucceeds
<1> QED BY <1>1, <1>2, <1>3 DEF Answering

\* Hang-ups, timers and provider signals.
LEMMA SettledEnding == ASSUME Ending PROVE Settled
<1>1. CASE \E id \in Ids : Decline(id)
    <2>1. PICK id \in Ids : Decline(id)
        BY <1>1
    <2> DEFINE c == ResolveToCallId(id)
    <2>2. EndCall(c, "declined")
        BY <2>1 DEF Decline
    <2> HIDE DEF c
    <2> QED BY <2>2, SettledEnd
<1>2. CASE \E c \in Calls : WatchdogFires(c)
    BY <1>2, SettledEnd DEF WatchdogFires
<1>3. CASE \E p \in ProviderCalls : ProviderTerminal(p)
    <2>1. PICK p \in ProviderCalls : ProviderTerminal(p)
        BY <1>3
    <2> DEFINE c == providerCallToInternal[p]
    <2>2. CASE c \in activeCalls
        <3>1. EndCall(c, "provider_call_state_changed")
            BY <2>1, <2>2 DEF ProviderTerminal
        <3> HIDE DEF c
        <3> QED BY <3>1, SettledEnd
    <2>3. CASE c \notin activeCalls
        <3>1. UNCHANGED <<setup, activeCalls, notification, told>>
            BY <2>1, <2>3 DEF ProviderTerminal
        <3>2. PICK late \in SUBSET {Job("legacyEnd", b) : b \in Calls} :
                  issued' = issued \cup late
            <4>1. PICK late \in IF c = NoCall THEN LegacyJobs(p) ELSE {{}} :
                      issued' = issued \cup late
                BY <2>1, <2>3 DEF ProviderTerminal
            <4>2. late \subseteq {Job("legacyEnd", b) : b \in Calls}
                BY <4>1 DEF LegacyJobs
            <4> QED BY <4>1, <4>2
        <3>3. \A b : Job("insertRow", b) \notin late /\ Job("markAnswered", b) \notin late
            BY <3>2 DEF Job
        <3> QED BY <3>1, <3>2, <3>3 DEF Settled
    <2> QED BY <2>2, <2>3
<1>4. CASE \E p \in ProviderCalls : ProviderAnswered(p)
    BY <1>4, SettledQuiet DEF ProviderAnswered, settledVars
<1> QED BY <1>1, <1>2, <1>3, <1>4 DEF Ending

\* The events of the MediaBridge; a far end that answers confirms the outbound call.
LEMMA SettledMediaEvent == ASSUME NEW c \in Calls, MediaEvent(c) PROVE Settled
<1>1. CASE ProviderConnected(c)
    BY <1>1, SettledQuiet DEF ProviderConnected, HandleProviderConnected, settledVars
<1>2. CASE ProviderDisconnected(c)
    BY <1>2, SettledEnd, SettledQuiet DEF ProviderDisconnected, settledVars
<1>3. CASE ClientDisconnected(c)
    BY <1>3, SettledEnd DEF ClientDisconnected
<1> QED BY <1>1, <1>2, <1>3 DEF MediaEvent

\* The event socket, the reconcile pass, the sweep and endAllCalls.
LEMMA SettledBridgeAndPasses == ASSUME Bridge \/ Passes PROVE Settled
    BY SettledQuiet, SettledEnd DEF Bridge, DestroySettles, ListenerDrops, MediaBridgeRestarts,
        ListenerReconnects, Passes, EndAllCalls, ReconcileVisits, ReconcileKeeps, ReconcileEnds,
        SweepNext, settledVars

\* The await on the wake signals and the registration of the notification id.
LEMMA SettledNotifying == ASSUME TypeOK, NEW c \in Calls, Notifying(c) PROVE Settled
    BY DEF Notifying, NotificationSent, NotificationFails, NotificationRegistered, TypeOK,
        Settled, BeforeNote

\* Whatever the orchestrator does, it is done with the calls whose setup is over.
LEMMA SettledNext == ASSUME TypeOK, NoteInv, [Next]_vars PROVE Settled
<1>1. CASE UNCHANGED vars
    BY <1>1, SettledQuiet DEF vars, settledVars
<1>2. CASE Next
    BY <1>2, SettledOutbound, SettledInbound, SettledAnswering, SettledEnding,
        SettledMediaEvent, SettledBridgeAndPasses, SettledNotifying DEF Next
<1> QED BY <1>1, <1>2

-----------------------------------------------------------------------------
(* The inductive invariant.  A call of an earlier run is over for the      *)
(* orchestrator and its row will not be inserted any more; a call has no   *)
(* notifications row before createNotification ran; an answer that is to   *)
(* be recorded has a winner.                                               *)

Closed(c) ==
    /\ row[c] # Absent => ~Unresolved(row[c])
    /\ note[c] # Absent => note[c] # [type |-> "incoming_call", status |-> "pending"]

PastIsOver ==
    \A c \in past : /\ setup[c] = "failed"
                    /\ c \notin activeCalls
                    /\ notification[c] # "creating"
                    /\ Job("insertRow", c) \in issued => Job("insertRow", c) \in ran
                    /\ Closed(c)

NoNoteYet == \A c \in Calls : notification[c] \in BeforeNote => note[c] = Absent

AnswerHasWinner ==
    \A c \in Calls : Job("markAnswered", c) \in issued => \E d \in Devices : <<c, d>> \in told

RecordsInv == NoteInv /\ PastIsOver /\ NoNoteYet /\ AnswerHasWinner

\* Initially the tables are empty.
LEMMA RecordsInitInv == RecordsInit => RecordsTypeOK /\ RecordsInv
<1> SUFFICES ASSUME RecordsInit PROVE RecordsTypeOK /\ RecordsInv
    OBVIOUS
<1>1. TypeOK
    BY InitTypes DEF RecordsInit
<1>2. NoteInv
    BY DEF RecordsInit, Init, NoteInv, NotYetNotified, RegisteredIdResolves
<1>3. PastIsOver /\ NoNoteYet /\ AnswerHasWinner
    BY DEF RecordsInit, Init, PastIsOver, NoNoteYet, AnswerHasWinner
<1> QED BY <1>1, <1>2, <1>3 DEF RecordsInit, RecordsTypeOK, RecordsInv

\* A step of the orchestrator leaves the tables alone.
LEMMA RecordsOrchestrate ==
    ASSUME RecordsTypeOK, RecordsInv, [Next]_vars, UNCHANGED records
    PROVE  RecordsTypeOK' /\ RecordsInv'
<1>1. TypeOK' /\ NoteInv' /\ Settled
    BY NextTypes, NotesNext, SettledNext DEF RecordsTypeOK, RecordsInv
<1>2. PastIsOver'
    BY <1>1 DEF RecordsTypeOK, RecordsInv, PastIsOver, Closed, Unresolved, Settled, records
<1>3. NoNoteYet'
    BY <1>1 DEF RecordsInv, NoNoteYet, Settled, records
<1>4. AnswerHasWinner'
    BY <1>1 DEF RecordsInv, AnswerHasWinner, Settled
<1> QED BY <1>1, <1>2, <1>3, <1>4 DEF RecordsTypeOK, RecordsInv, records

\* createNotification inserts the first and only row of its call.
LEMMA RecordsCreate ==
    ASSUME RecordsTypeOK, RecordsInv, NEW c \in Calls, CreateNotification(c)
    PROVE  /\ RecordsTypeOK' /\ RecordsInv'
           /\ note[c] = Absent
<1>1. [Next]_vars
    BY DEF CreateNotification, Next, Notifying
<1>2. TypeOK' /\ NoteInv' /\ Settled
    BY <1>1, NextTypes, NotesNext, SettledNext DEF RecordsTypeOK, RecordsInv
<1>3. /\ notification[c] = "creating" /\ notification' = [notification EXCEPT ![c] = "sent"]
      /\ note' = [note EXCEPT ![c] = [type |-> "incoming_call", status |-> "pending"]]
      /\ UNCHANGED <<row, ran, past, issued, told>>
    BY DEF CreateNotification, NotificationSent
<1>4. c \notin past
    BY <1>3 DEF RecordsInv, PastIsOver
<1>5. PastIsOver'
    <2> SUFFICES ASSUME NEW b \in past' PROVE PastIsOver!(b)'
        BY DEF PastIsOver
    <2>1. b # c /\ b \in past /\ b \in Calls
        BY <1>3, <1>4 DEF RecordsTypeOK
    <2>2. note'[b] = note[b]
        BY <1>3, <2>1 DEF RecordsTypeOK
    <2> QED BY <1>2, <1>3, <2>1, <2>2 DEF RecordsInv, PastIsOver, Closed, Unresolved, Settled
<1>6. NoNoteYet' /\ note[c] = Absent
    BY <1>3 DEF RecordsTypeOK, TypeOK, RecordsInv, NoNoteYet, BeforeNote
<1>7. AnswerHasWinner'
    BY <1>3 DEF RecordsInv, AnswerHasWinner
<1>8. RecordsTypeOK'
    BY <1>2, <1>3 DEF RecordsTypeOK, Note
<1> QED BY <1>2, <1>5, <1>6, <1>7, <1>8 DEF RecordsInv

-----------------------------------------------------------------------------
(* The writes                                                              *)

Rows == [Calls -> Row \cup {Absent}]

\* What an update of call_history may do: rows keep their types, and none that is
\* resolved becomes unresolved.
Resolves(r) ==
    /\ r \in Rows
    /\ \A b \in Calls : (row[b] # Absent => ~Unresolved(row[b]))
                            => (r[b] # Absent => ~Unresolved(r[b]))

\* The statement that resolves notifications only moves a row forward.
LEMMA UpdatesResolve ==
    ASSUME row \in Rows, NEW c \in Calls
    PROVE  /\ \A type \in {"MISSED", "DECLINED"} : Resolves(UpdateCallType(c, type))
           /\ Resolves(UpdateDuration(c))
           /\ Resolves(MarkOutboundUnanswered(c))
<1> USE AbsentAssumption
<1>1. ASSUME NEW type \in {"MISSED", "DECLINED"} PROVE Resolves(UpdateCallType(c, type))
    BY DEF UpdateCallType, Resolves, Rows, Row, RowsOf, Unresolved
<1>2. Resolves(UpdateDuration(c))
    BY DEF UpdateDuration, Resolves, Rows, Row, RowsOf, Unresolved
<1>3. Resolves(MarkOutboundUnanswered(c))
    BY DEF MarkOutboundUnanswered, Resolves, Rows, Row, RowsOf, Unresolved
<1> QED BY <1>1, <1>2, <1>3

\* A confirmed answer resolves the row it finds.
LEMMA AnswerResolves ==
    ASSUME row \in Rows, NEW c \in Calls, \E d \in Devices : <<c, d>> \in told
    PROVE  Resolves(MarkAnswered(c))
<1> DEFINE winner == CHOOSE d \in Devices : <<c, d>> \in told
<1>1. winner \in Devices
    OBVIOUS
<1>2. MarkAnswered(c) = [b \in Calls |-> IF b \in RowsOf(c)
                                         THEN [row[b] EXCEPT !.answeredBy = winner] ELSE row[b]]
    BY DEF MarkAnswered
<1> HIDE DEF winner
<1> QED BY <1>1, <1>2, NullsAssumption, AbsentAssumption DEF Resolves, Rows, Row, RowsOf, Unresolved

\* Whatever is written, only the insert of a call adds an unresolved row, its own.
LEMMA WritesResolve ==
    ASSUME RecordsTypeOK, RecordsInv, NEW j \in issued, NEW r \in RowsAfter(j)
    PROVE  \/ Resolves(r)
           \/ j.op = "insertRow" /\ r = RecordCall(j.call)
<1>1. j.call \in Calls /\ j.op \in JobNames /\ j = Job(j.op, j.call) /\ row \in Rows
    BY DEF RecordsTypeOK, TypeOK, Jobs, Job, Rows
<1>2. Resolves(row)
    BY <1>1 DEF Resolves
<1>3. CASE j.op = "markAnswered"
    BY <1>1, <1>3, AnswerResolves DEF RowsAfter, RecordsInv, AnswerHasWinner
<1>4. CASE j.op = "legacyEnd"
    BY <1>1, <1>4, UpdatesResolve DEF RowsAfter, LegacyEnd
<1>5. CASE j.op \in {"declineRow", "missRow", "duration", "unansweredRow"}
    BY <1>1, <1>5, UpdatesResolve DEF RowsAfter
<1>6. CASE j.op \in {"markResolved", "missNotification"}
    BY <1>1, <1>2, <1>6 DEF RowsAfter
<1>7. CASE j.op = "insertRow"
    BY <1>7 DEF RowsAfter
<1> QED BY <1>1, <1>3, <1>4, <1>5, <1>6, <1>7 DEF JobNames

\* A write of the notifications opens none and creates none.
LEMMA WritesKeepNotes ==
    ASSUME RecordsTypeOK, NEW j \in issued
    PROVE  /\ NotesAfter(j) \in [Calls -> Note \cup {Absent}]
           /\ \A c \in Calls :
                 /\ note[c] = Absent => NotesAfter(j)[c] = Absent
                 /\ note[c] # Absent =>
                       /\ NotesAfter(j)[c] # Absent
                       /\ note[c].status = "read" => NotesAfter(j)[c].status = "read"
                       /\ note[c].type = "missed_call" => NotesAfter(j)[c].type = "missed_call"
<1>1. j.call \in Calls /\ note \in [Calls -> Note \cup {Absent}]
    BY DEF RecordsTypeOK, TypeOK, Jobs
<1>2. CASE j.op = "markResolved"
    BY <1>1, <1>2, AbsentAssumption DEF NotesAfter, MarkCallResolved, Note
<1>3. CASE j.op = "missNotification"
    BY <1>1, <1>3, AbsentAssumption DEF NotesAfter, TransitionToMissed, Note
<1>4. CASE j.op \notin {"markResolved", "missNotification"}
    BY <1>1, <1>4 DEF NotesAfter
<1> QED BY <1>2, <1>3, <1>4

\* A write that runs keeps the invariant, whichever of the issued ones it is.
LEMMA RecordsWrite ==
    ASSUME RecordsTypeOK, RecordsInv, NEW j \in issued, RunWrite(j)
    PROVE  RecordsTypeOK' /\ RecordsInv'
<1>1. /\ j \in issued \ ran /\ ran' = ran \cup {j} /\ row' \in RowsAfter(j)
      /\ note' = NotesAfter(j) /\ UNCHANGED <<vars, past>>
    BY DEF RunWrite
<1>2. j.call \in Calls /\ j = Job(j.op, j.call) /\ row \in Rows
    BY DEF RecordsTypeOK, TypeOK, Jobs, Job, Rows
<1>3. UNCHANGED <<setup, activeCalls, notification, notificationToCall, issued, told>> /\ TypeOK'
    BY <1>1, NextTypes DEF vars, RecordsTypeOK
<1>4. row' \in Rows
    <2>1. RecordCall(j.call) \in Rows
        BY <1>2 DEF RecordCall, Rows, Row
    <2>2. Resolves(row') => row' \in Rows
        BY DEF Resolves
    <2> QED BY <1>1, <2>1, <2>2, WritesResolve
<1>5. RecordsTypeOK'
    BY <1>1, <1>3, <1>4, WritesKeepNotes DEF RecordsTypeOK, Rows
<1>6. PastIsOver'
    <2> SUFFICES ASSUME NEW c \in past' PROVE PastIsOver!(c)'
        BY DEF PastIsOver
    <2>1. c \in past /\ c \in Calls
        BY <1>1 DEF RecordsTypeOK
    <2>2. ~(j.op = "insertRow" /\ j.call = c)
        BY <1>1, <1>2, <2>1 DEF RecordsInv, PastIsOver
    <2>3. row'[c] # Absent => ~Unresolved(row'[c])
        <3>1. CASE Resolves(row')
            BY <2>1, <3>1 DEF Resolves, RecordsInv, PastIsOver, Closed
        <3>2. CASE j.op = "insertRow" /\ row' = RecordCall(j.call)
            BY <1>2, <2>1, <2>2, <3>2 DEF RecordCall, Rows, RecordsInv, PastIsOver, Closed
        <3> QED BY <1>1, <3>1, <3>2, WritesResolve
    <2>4. note'[c] # Absent => note'[c] # [type |-> "incoming_call", status |-> "pending"]
        BY <1>1, <2>1, WritesKeepNotes DEF RecordsTypeOK, Note, RecordsInv, PastIsOver, Closed
    <2> QED BY <1>1, <1>3, <2>1, <2>3, <2>4 DEF RecordsInv, PastIsOver, Closed, Unresolved
<1>7. NoNoteYet' /\ AnswerHasWinner' /\ NoteInv'
    BY <1>1, <1>3, WritesKeepNotes, NotesQuiet
       DEF RecordsInv, NoNoteYet, AnswerHasWinner, noteVars
<1> QED BY <1>5, <1>6, <1>7 DEF RecordsInv

\* markRead.
LEMMA RecordsMarkRead ==
    ASSUME RecordsTypeOK, RecordsInv, NEW c \in Calls, MarkRead(c)
    PROVE  RecordsTypeOK' /\ RecordsInv'
<1>1. /\ note[c] \in Note /\ note' = [note EXCEPT ![c].status = "read"]
      /\ UNCHANGED <<vars, row, ran, past>>
    BY DEF MarkRead, RecordsTypeOK
<1>2. UNCHANGED <<setup, activeCalls, notification, notificationToCall, issued, told>> /\ TypeOK'
    BY <1>1, NextTypes DEF vars, RecordsTypeOK
<1>3. RecordsTypeOK'
    BY <1>1, <1>2 DEF RecordsTypeOK, Note
<1>4. PastIsOver'
    BY <1>1, <1>2 DEF RecordsTypeOK, Note, RecordsInv, PastIsOver, Closed, Unresolved
<1>5. NoNoteYet'
    BY <1>1, <1>2, AbsentAssumption DEF RecordsTypeOK, RecordsInv, NoNoteYet
<1>6. AnswerHasWinner' /\ NoteInv'
    BY <1>2, NotesQuiet DEF RecordsInv, AnswerHasWinner, noteVars
<1> QED BY <1>3, <1>4, <1>5, <1>6 DEF RecordsInv

-----------------------------------------------------------------------------
(* Restart                                                                 *)

\* StartupCleanupService leaves no row unresolved and no notification open.
LEMMA CleanUp ==
    ASSUME RecordsTypeOK, ServerRestart
    PROVE  /\ row' \in Rows /\ note' \in [Calls -> Note \cup {Absent}]
           /\ \A c \in Calls : Closed(c)'
           /\ \A c \in Calls :
                 /\ note[c] = Absent => note'[c] = Absent
                 /\ note[c] # Absent =>
                       /\ note'[c] # Absent
                       /\ note[c].status = "read" => note'[c].status = "read"
                       /\ note[c].type = "missed_call" => note'[c].type = "missed_call"
<1> USE AbsentAssumption
<1>1. ASSUME NEW c \in Calls
      PROVE  /\ row'[c] \in Row \cup {Absent}
             /\ row'[c] # Absent => ~Unresolved(row'[c])
    <2>1. row'[c] = CleanRow(row[c]) /\ row[c] \in Row \cup {Absent}
        BY DEF ServerRestart, RecordsTypeOK
    <2> QED BY <2>1 DEF CleanRow, Unresolved, Row
<1>2. ASSUME NEW c \in Calls
      PROVE  /\ note'[c] \in Note \cup {Absent}
             /\ note'[c] # Absent =>
                    note'[c] # [type |-> "incoming_call", status |-> "pending"]
             /\ note[c] = Absent => note'[c] = Absent
             /\ note[c] # Absent =>
                   /\ note'[c] # Absent
                   /\ note[c].status = "read" => note'[c].status = "read"
                   /\ note[c].type = "missed_call" => note'[c].type = "missed_call"
    <2>1. note'[c] = CleanNote(note[c]) /\ note[c] \in Note \cup {Absent}
        BY DEF ServerRestart, RecordsTypeOK
    <2> QED BY <2>1 DEF CleanNote, Note
<1>3. DOMAIN row' = Calls /\ DOMAIN note' = Calls
    BY DEF ServerRestart
<1>4. row' = [c \in Calls |-> row'[c]] /\ note' = [c \in Calls |-> note'[c]]
    BY DEF ServerRestart
<1> QED BY <1>1, <1>2, <1>4 DEF Rows, Closed

\* A restart of the server keeps it: the clean-up resolves what the dead calls left.
LEMMA RecordsRestart ==
    ASSUME RecordsTypeOK, RecordsInv, ServerRestart
    PROVE  RecordsTypeOK' /\ RecordsInv'
<1>1. /\ setup' = [c \in Calls |-> IF setup[c] = "new" THEN "new" ELSE "failed"]
      /\ notification' = [c \in Calls |-> IF notification[c] = "creating" THEN "none"
                                          ELSE IF notification[c] = "sent" THEN "settled"
                                          ELSE notification[c]]
      /\ past' = {c \in Calls : setup[c] # "new"} /\ ran' = issued /\ activeCalls' = {}
      /\ UNCHANGED <<issued, told>>
    BY DEF ServerRestart
<1>2. TypeOK'
    BY NullsAssumption DEF ServerRestart, RecordsTypeOK, TypeOK, Phases
<1>3. RecordsTypeOK'
    BY <1>1, <1>2, CleanUp DEF RecordsTypeOK, Rows
<1>4. NoteInv'
    BY <1>1 DEF RecordsTypeOK, TypeOK, RecordsInv, NoteInv, NotYetNotified,
        RegisteredIdResolves, Early
<1>5. PastIsOver'
    BY <1>1, CleanUp DEF RecordsTypeOK, TypeOK, PastIsOver, Closed
<1>6. NoNoteYet'
    BY <1>1, CleanUp DEF RecordsTypeOK, TypeOK, RecordsInv, NoNoteYet, BeforeNote
<1>7. AnswerHasWinner'
    BY <1>1 DEF RecordsInv, AnswerHasWinner
<1> QED BY <1>3, <1>4, <1>5, <1>6, <1>7 DEF RecordsInv

-----------------------------------------------------------------------------
(* Answered and missed.  endCall decides on the claim as it stands, so a   *)
(* call whose row is to say missed or declined is gone: nothing will       *)
(* confirm an answer to it, and none was confirmed.  Writes of one call    *)
(* never reach the row of another, as no two calls share a provider call.  *)

OwnProviderCall ==
    ~RetriedWebhooks => \A b, c \in Calls :
        providerCallId[b] = providerCallId[c] /\ providerCallId[c] # NoProviderCall => b = c

Started(c) == setup[c] # "new" /\ providerCallId[c] # NoProviderCall

WritesHaveCall ==
    \A c \in Calls :
        /\ row[c] # Absent \/ Job("insertRow", c) \in issued => Started(c)
        /\ Job("legacyEnd", c) \in issued => setup[c] # "new"

Gone(c) ==
    c \notin activeCalls /\ setup[c] \notin Early /\ \A r \in answering : r.call # c

MissIssued(c) == Job("missRow", c) \in issued \/ Job("declineRow", c) \in issued

MissIsFinal ==
    \A c \in Calls : MissIssued(c) => Gone(c) /\ Job("markAnswered", c) \notin issued

MissedRow(c) == row[c] # Absent /\ row[c].type \in {"MISSED", "DECLINED"}

MissedUnanswered ==
    ~RetriedWebhooks => \A c \in Calls : MissedRow(c) /\ Job("legacyEnd", c) \notin ran =>
        Gone(c) /\ row[c].answeredBy = NoDevice /\ Job("markAnswered", c) \notin issued \ ran

RanWereIssued == ran \subseteq issued

DecidedInv ==
    /\ RanWereIssued
    /\ MapInv
    /\ ClaimInv
    /\ OwnProviderCall
    /\ WritesHaveCall
    /\ MissIsFinal
    /\ MissedUnanswered

\* What a handler of the orchestrator may do to the calls that are decided.
Decides ==
    /\ issued \subseteq issued'
    /\ \A c \in Calls :
           /\ MissIssued(c)' => \/ MissIssued(c)
                                \/ Gone(c)' /\ Job("markAnswered", c) \notin issued'
           /\ Gone(c) => /\ Gone(c)'
                         /\ Job("markAnswered", c) \in issued' => Job("markAnswered", c) \in issued
           /\ Job("insertRow", c) \in issued' => Job("insertRow", c) \in issued \/ Started(c)'
           /\ Job("legacyEnd", c) \in issued' => Job("legacyEnd", c) \in issued \/ setup'[c] # "new"
           /\ setup[c] # "new" => setup'[c] # "new"
           /\ Started(c) => providerCallId'[c] = providerCallId[c]

decidedVars == <<setup, kind, providerCallId, activeCalls, answering, issued>>

\* A step that leaves setups, ids, requests and writes alone.
LEMMA DecidesQuiet == ASSUME UNCHANGED decidedVars PROVE Decides
    BY DEF decidedVars, Decides, MissIssued, Gone, Started

\* A setup that moves on; its call gets its provider id and its row once.
LEMMA DecidesSetup ==
    ASSUME TypeOK, NEW c \in Calls, NEW phase \in Phases \ {"new"}, Advance(c, phase),
           setup[c] \in Early \/ (phase \notin Early /\ UNCHANGED activeCalls),
           activeCalls' \in {activeCalls, activeCalls \cup {c}},
           \A b \in Calls \ {c} : kind'[b] = kind[b] /\ providerCallId'[b] = providerCallId[b],
           setup[c] # "new" => kind'[c] = kind[c],
           Started(c) => providerCallId'[c] = providerCallId[c],
           \/ UNCHANGED issued
           \/ /\ issued' = issued \cup {Job("insertRow", c)}
              /\ providerCallId'[c] # NoProviderCall,
           UNCHANGED answering
    PROVE  Decides
<1>1. setup' = [setup EXCEPT ![c] = phase] /\ setup'[c] = phase
    BY DEF Advance, TypeOK
<1>2. \A b \in Calls \ {c} : setup'[b] = setup[b] /\ (b \in activeCalls' <=> b \in activeCalls)
    BY <1>1
<1>3. \A b \in Calls : Gone(b) => Gone(b)'
    BY <1>1, <1>2 DEF Gone
<1>4. \A b \in Calls : Started(b) => Started(b)' /\ providerCallId'[b] = providerCallId[b]
    BY <1>1, <1>2 DEF Started
<1>5. \A b \in Calls, name \in JobNames \ {"insertRow"} :
          Job(name, b) \in issued' => Job(name, b) \in issued
    BY DEF Job
<1>6. \A b \in Calls : Job("insertRow", b) \in issued' =>
          Job("insertRow", b) \in issued \/ Started(b)'
    BY <1>1 DEF Job, Started
<1> QED BY <1>1, <1>2, <1>3, <1>4, <1>5, <1>6 DEF Decides, MissIssued, JobNames

\* endCall lets a call go, and writes it off only if no answer was confirmed and
\* none is pending.
LEMMA DecidesEnd ==
    ASSUME TypeOK, MapInv, ClaimInv, AnswerHasWinner, NEW c \in Calls, NEW trigger,
           EndCall(c, trigger)
    PROVE  Decides
<1>1. PICK jobs \in EndJobs(c, trigger) : issued' = issued \cup jobs
    BY DEF EndCall
<1>2. /\ c \in activeCalls /\ activeCalls' = activeCalls \ {c}
      /\ UNCHANGED <<setup, kind, providerCallId, answering>>
    BY DEF EndCall
<1>3. \A b \in Calls, name \in {"insertRow", "legacyEnd", "markAnswered"} :
          Job(name, b) \in issued' => Job(name, b) \in issued
    BY <1>1 DEF EndJobs, Job
<1>4. \A b \in Calls : Gone(b) => Gone(b)'
    BY <1>2 DEF Gone
<1>5. ASSUME NEW b \in Calls, MissIssued(b)', ~MissIssued(b)
      PROVE  Gone(b)' /\ Job("markAnswered", b) \notin issued'
    <2>1. b = c /\ ~answered[c]
        BY <1>1, <1>5 DEF EndJobs, MissIssued, Job
    <2>2. setup[c] \notin Early /\ \A r \in answering : r.call # c
        BY <1>2, <2>1 DEF MapInv, NotYetTracked, ClaimInv, PendingHolds
    <2>3. Job("markAnswered", c) \notin issued
        BY <2>1 DEF AnswerHasWinner, ClaimInv, ToldHolds
    <2> QED BY <1>2, <1>3, <2>1, <2>2, <2>3 DEF Gone
<1>6. issued \subseteq issued'
    BY <1>1
<1> QED BY <1>2, <1>3, <1>4, <1>5, <1>6 DEF Decides, Started

\* Every step of an outbound setup.
LEMMA DecidesOutbound == ASSUME TypeOK, MapInv, NEW c \in Calls, Outbound(c) PROVE Decides
<1>1. CASE \E d \in Devices, k \in Kinds : InitiateOutbound(c, d, k)
    BY <1>1, DecidesSetup DEF InitiateOutbound, Phases, Early, Started, TypeOK
<1>2. CASE OutboundSessionCreated(c)
    BY <1>2, DecidesSetup DEF OutboundSessionCreated, Phases, Early
<1>3. CASE \E created \in BOOLEAN : OutboundSessionFails(c, created)
    BY <1>3, DecidesSetup DEF OutboundSessionFails, Phases, Early
<1>4. CASE \E p \in ProviderCalls : MakeCallReturns(c, p)
    <2>1. PICK p \in ProviderCalls : MakeCallReturns(c, p)
        BY <1>4
    <2>2. /\ setup[c] = "dialing" /\ ~Started(c)
          /\ providerCallId' = [providerCallId EXCEPT ![c] = p]
          /\ UNCHANGED <<kind, answering>>
        BY <2>1 DEF MakeCallReturns, TrackOutbound, Track, MapInv, NoIdYet, Started
    <2>3. /\ \A b \in Calls \ {c} : kind'[b] = kind[b] /\ providerCallId'[b] = providerCallId[b]
          /\ providerCallId'[c] # NoProviderCall
        BY <2>2, NullsAssumption DEF TypeOK
    <2>4. CASE kind[c] = "echo"
        BY <2>1, <2>2, <2>3, <2>4, DecidesSetup
           DEF MakeCallReturns, TrackOutbound, Track, Phases, Early
    <2>5. CASE kind[c] # "echo"
        BY <2>1, <2>2, <2>3, <2>5, DecidesSetup DEF MakeCallReturns, Phases, Early
    <2> QED BY <2>4, <2>5
<1>5. CASE MakeCallFails(c)
    BY <1>5, DecidesSetup DEF MakeCallFails, Phases, Early
<1>6. CASE PatchSettles(c)
    <2>1. /\ setup[c] = "patching" /\ Advance(c, "returned")
          /\ providerCallId' = providerCallId /\ providerCallId[c] # NoProviderCall
          /\ activeCalls' = activeCalls \cup {c}
          /\ issued' = issued \cup {Job("insertRow", c)}
          /\ UNCHANGED <<kind, answering>>
        BY <1>6, NullsAssumption
           DEF PatchSettles, TrackOutbound, Track, TypeOK, MapInv, HasProviderCall
    <2> QED BY <2>1, DecidesSetup DEF Phases, Early
<1> QED BY <1>1, <1>2, <1>3, <1>4, <1>5, <1>6 DEF Outbound

\* Every step of handleInbound.
LEMMA DecidesInbound == ASSUME TypeOK, MapInv, NEW c \in Calls, Inbound(c) PROVE Decides
<1>1. CASE \E p \in ProviderCalls, k \in Kinds : HandleInbound(c, p, k)
    BY <1>1, DecidesSetup DEF HandleInbound, Phases, Early, Started, TypeOK
<1>2. CASE InboundSessionCreated(c)
    <2>1. providerCallId[c] # NoProviderCall
        BY <1>2, NullsAssumption DEF InboundSessionCreated, MapInv, HasProviderCall, Reserved
    <2> QED BY <1>2, <2>1, DecidesSetup DEF InboundSessionCreated, Track, Phases, Early
<1>3. CASE \E created \in BOOLEAN : InboundSessionFails(c, created)
    BY <1>3, DecidesSetup DEF InboundSessionFails, Phases, Early
<1>4. CASE NumbersReturned(c)
    BY <1>4, DecidesSetup DEF NumbersReturned, Phases, Early
<1>5. CASE NumbersFail(c)
    BY <1>5, DecidesSetup DEF NumbersFail, Phases, Early
<1> QED BY <1>1, <1>2, <1>3, <1>4, <1>5 DEF Inbound

\* Only a call that is tracked or has a pending request is claimed or confirmed.
LEMMA DecidesAnswering == ASSUME TypeOK, Answering PROVE Decides
<1>1. ASSUME NEW c \in Calls, ~Gone(c),
             \A r \in answering' : r \in answering \/ r.call = c,
             issued' \in {issued, issued \cup {Job("markAnswered", c), Job("markResolved", c)}},
             UNCHANGED <<setup, kind, providerCallId, activeCalls>>
      PROVE  Decides
    <2>1. \A b \in Calls : Gone(b) => Gone(b)'
        BY <1>1 DEF Gone
    <2>2. \A b \in Calls, name \in JobNames \ {"markAnswered", "markResolved"} :
              Job(name, b) \in issued' => Job(name, b) \in issued
        BY <1>1 DEF Job
    <2>3. \A b \in Calls : Gone(b) =>
              (Job("markAnswered", b) \in issued' => Job("markAnswered", b) \in issued)
        BY <1>1 DEF Job
    <2> QED BY <1>1, <2>1, <2>2, <2>3 DEF Decides, MissIssued, Started, JobNames
<1>2. CASE \E id \in Ids, d \in Devices : AnswerCall(id, d)
    <2>1. PICK id \in Ids, d \in Devices : AnswerCall(id, d)
        BY <1>2
    <2> DEFINE c == ResolveToCallId(id)
    <2>2. /\ c \in Calls /\ c \in activeCalls
          /\ \/ /\ \E step \in {"patch", "provider"} : answering' = answering \cup
                      {[call |-> c, device |-> d, step |-> step]}
                /\ UNCHANGED issued
             \/ /\ issued' = issued \cup {Job("markAnswered", c), Job("markResolved", c)}
                /\ UNCHANGED answering
          /\ UNCHANGED <<setup, kind, providerCallId, activeCalls>>
        BY <2>1 DEF AnswerCall, ConfirmAnswer, Claim, TypeOK
    <2> HIDE DEF c
    <2>3. ~Gone(c) /\ \A r \in answering' : r \in answering \/ r.call = c
        BY <2>2 DEF Gone
    <2> QED BY <1>1, <2>2, <2>3
<1>3. ASSUME NEW r \in answering, AnswerPatched(r) \/ AnswerSucceeds(r) \/ AnswerFails(r)
      PROVE  Decides
    <2>1. r.call \in Calls /\ ~Gone(r.call) /\ r \in AnswerRequest
        BY DEF TypeOK, AnswerRequest, Gone
    <2>2. \A q \in answering' : q \in answering \/ q.call = r.call
        BY <1>3, <2>1 DEF AnswerPatched, AnswerSucceeds, AnswerFails, AnswerRequest
    <2>3. /\ issued' \in {issued, issued \cup {Job("markAnswered", r.call),
                                               Job("markResolved", r.call)}}
          /\ UNCHANGED <<setup, kind, providerCallId, activeCalls>>
        BY <1>3 DEF AnswerPatched, AnswerSucceeds, AnswerFails, ConfirmAnswer
    <2> QED BY <1>1, <2>1, <2>2, <2>3
<1> QED BY <1>2, <1>3 DEF Answering

\* Hang-ups, timers and provider signals; the listener's fallback is for calls that have an id.
LEMMA DecidesEnding ==
    ASSUME TypeOK, MapInv, ClaimInv, AnswerHasWinner, Ending PROVE Decides
<1>1. CASE \E id \in Ids : Decline(id)
    <2>1. PICK id \in Ids : Decline(id)
        BY <1>1
    <2> DEFINE c == ResolveToCallId(id)
    <2>2. c \in Calls /\ EndCall(c, "declined")
        BY <2>1 DEF Decline, EndCall, TypeOK
    <2> HIDE DEF c
    <2> QED BY <2>2, DecidesEnd
<1>2. CASE \E c \in Calls : WatchdogFires(c)
    BY <1>2, DecidesEnd DEF WatchdogFires
<1>3. CASE \E p \in ProviderCalls : ProviderTerminal(p)
    <2>1. PICK p \in ProviderCalls : ProviderTerminal(p)
        BY <1>3
    <2> DEFINE c == providerCallToInternal[p]
    <2>2. CASE c \in activeCalls
        <3>1. c \in Calls /\ EndCall(c, "provider_call_state_changed")
            BY <2>1, <2>2 DEF ProviderTerminal, TypeOK
        <3> HIDE DEF c
        <3> QED BY <3>1, DecidesEnd
    <2>3. CASE c \notin activeCalls
        <3>1. UNCHANGED <<setup, kind, providerCallId, activeCalls, answering>>
            BY <2>1, <2>3 DEF ProviderTerminal
        <3>2. issued \subseteq issued'
            BY <2>1, <2>3 DEF ProviderTerminal
        <3>3. \A j \in issued' : \/ j \in issued
                                 \/ \E b \in Calls : /\ j = Job("legacyEnd", b)
                                                     /\ providerCallId[b] = p
            <4>1. PICK late \in IF c = NoCall THEN LegacyJobs(p) ELSE {{}} :
                      issued' = issued \cup late
                BY <2>1, <2>3 DEF ProviderTerminal
            <4> QED BY <4>1 DEF LegacyJobs
        <3>4. \A b \in Calls : providerCallId[b] = p => setup[b] # "new"
            BY NullsAssumption DEF MapInv, NoIdYet
        <3>5. \A b \in Calls, name \in JobNames \ {"legacyEnd"} :
                  Job(name, b) \in issued' => Job(name, b) \in issued
            BY <3>3 DEF Job
        <3>6. \A b \in Calls : Job("legacyEnd", b) \in issued' =>
                  Job("legacyEnd", b) \in issued \/ setup[b] # "new"
            BY <3>3, <3>4 DEF Job
        <3> QED BY <3>1, <3>2, <3>5, <3>6 DEF Decides, MissIssued, Gone, Started, JobNames
    <2> QED BY <2>2, <2>3
<1>4. CASE \E p \in ProviderCalls : ProviderAnswered(p)
    BY <1>4, DecidesQuiet DEF ProviderAnswered, decidedVars
<1> QED BY <1>1, <1>2, <1>3, <1>4 DEF Ending

\* The events of the MediaBridge.
LEMMA DecidesMediaEvent ==
    ASSUME TypeOK, MapInv, ClaimInv, AnswerHasWinner, NEW c \in Calls, MediaEvent(c)
    PROVE  Decides
<1>1. CASE ProviderConnected(c)
    BY <1>1, DecidesQuiet DEF ProviderConnected, HandleProviderConnected, Claim, decidedVars
<1>2. CASE ProviderDisconnected(c)
    BY <1>2, DecidesEnd, DecidesQuiet DEF ProviderDisconnected, decidedVars
<1>3. CASE ClientDisconnected(c)
    BY <1>3, DecidesEnd DEF ClientDisconnected
<1> QED BY <1>1, <1>2, <1>3 DEF MediaEvent

\* The event socket, the reconcile pass, the sweep and endAllCalls.
LEMMA DecidesBridgeAndPasses ==
    ASSUME TypeOK, MapInv, ClaimInv, AnswerHasWinner, Bridge \/ Passes PROVE Decides
    BY DecidesQuiet, DecidesEnd DEF Bridge, DestroySettles, ListenerDrops, MediaBridgeRestarts,
        ListenerReconnects, Passes, EndAllCalls, ReconcileVisits, ReconcileKeeps, ReconcileEnds,
        SweepNext, decidedVars

\* Whatever the orchestrator does, what it decided about a call stands.
LEMMA DecidesNext ==
    ASSUME TypeOK, MapInv, ClaimInv, AnswerHasWinner, [Next]_vars PROVE Decides
<1>1. CASE UNCHANGED vars
    BY <1>1, DecidesQuiet DEF vars, decidedVars
<1>2. CASE \E c \in Calls : Notifying(c)
    BY <1>2, DecidesQuiet DEF Notifying, NotificationSent, NotificationFails,
        NotificationRegistered, decidedVars
<1>3. CASE Next
    BY <1>2, <1>3, DecidesOutbound, DecidesInbound, DecidesAnswering, DecidesEnding,
        DecidesMediaEvent, DecidesBridgeAndPasses DEF Next
<1> QED BY <1>1, <1>3

\* A provider call id goes to one call only, unless webhooks are retried.
LEMMA OwnCallNext ==
    ASSUME TypeOK, MapInv, OwnProviderCall, [Next]_vars PROVE OwnProviderCall'
<1>1. CASE UNCHANGED providerCallId
    BY <1>1 DEF OwnProviderCall
<1>2. ASSUME NEW c \in Calls, NEW p \in ProviderCalls, Fresh(p) \/ RetriedWebhooks,
             providerCallId' = [providerCallId EXCEPT ![c] = p]
      PROVE  OwnProviderCall'
    BY <1>2 DEF OwnProviderCall, Fresh, TypeOK
<1>3. CASE \E c \in Calls, p \in ProviderCalls : MakeCallReturns(c, p)
    BY <1>2, <1>3 DEF MakeCallReturns, TrackOutbound
<1>4. CASE \E c \in Calls : PatchSettles(c)
    BY <1>1, <1>4 DEF PatchSettles, TrackOutbound, TypeOK
<1>5. CASE \E c \in Calls, p \in ProviderCalls, k \in Kinds : HandleInbound(c, p, k)
    BY <1>2, <1>5 DEF HandleInbound
<1>6. CASE \E c \in Calls :
               \/ \E d \in Devices, k \in Kinds : InitiateOutbound(c, d, k)
               \/ OutboundSessionCreated(c)
               \/ \E created \in BOOLEAN : OutboundSessionFails(c, created)
               \/ MakeCallFails(c)
               \/ InboundSessionCreated(c)
               \/ \E created \in BOOLEAN : InboundSessionFails(c, created)
               \/ NumbersReturned(c)
               \/ NumbersFail(c)
    BY <1>1, <1>6 DEF InitiateOutbound, OutboundSessionCreated, OutboundSessionFails, MakeCallFails,
        InboundSessionCreated, InboundSessionFails, NumbersReturned, NumbersFail
<1>7. CASE Answering
    BY <1>1, <1>7 DEF Answering, AnswerCall, AnswerPatched, AnswerSucceeds, AnswerFails, Claim
<1>8. CASE Ending
    BY <1>1, <1>8 DEF Ending, Decline, WatchdogFires, ProviderTerminal, ProviderAnswered, EndCall
<1>9. CASE \/ \E c \in Calls : MediaEvent(c) \/ Notifying(c)
           \/ Bridge \/ Passes
    BY <1>1, <1>9 DEF MediaEvent, ProviderConnected, HandleProviderConnected, Claim,
        ProviderDisconnected, ClientDisconnected, Notifying, NotificationSent, NotificationFails,
        NotificationRegistered, Bridge, DestroySettles, ListenerDrops, MediaBridgeRestarts,
        ListenerReconnects, Passes, EndAllCalls, ReconcileVisits, ReconcileKeeps, ReconcileEnds,
        SweepNext, EndCall
<1>10. CASE UNCHANGED vars
    BY <1>1, <1>10 DEF vars
<1> QED BY <1>3, <1>4, <1>5, <1>6, <1>7, <1>8, <1>9, <1>10 DEF Next, Outbound, Inbound

\* Initially nothing is decided.
LEMMA DecidedInit == RecordsInit => DecidedInv
<1> SUFFICES ASSUME RecordsInit PROVE DecidedInv
    OBVIOUS
<1>1. MapInv /\ ClaimInv
    BY MapsInit, AnswersInit DEF RecordsInit, AnswerInv
<1>2. RanWereIssued /\ OwnProviderCall /\ WritesHaveCall /\ MissIsFinal /\ MissedUnanswered
    BY DEF RecordsInit, Init, RanWereIssued, OwnProviderCall, WritesHaveCall, MissIsFinal, MissIssued,
        MissedUnanswered, MissedRow
<1> QED BY <1>1, <1>2 DEF DecidedInv

\* A step that leaves the rows alone keeps what is decided.
LEMMA DecidedOrchestrate ==
    ASSUME RecordsTypeOK, RecordsInv, DecidedInv, [Next]_vars, UNCHANGED <<row, ran>>
    PROVE  DecidedInv'
<1>1. TypeOK /\ AnswerHasWinner /\ MapInv /\ ClaimInv
    BY DEF RecordsTypeOK, RecordsInv, DecidedInv
<1>2. MapInv' /\ ClaimInv' /\ Decides
    BY <1>1, MapsNext, AnswersNext, DecidesNext DEF ClaimsKept
<1>3. OwnProviderCall'
    BY <1>1, OwnCallNext DEF DecidedInv
<1>4. WritesHaveCall'
    BY <1>2 DEF DecidedInv, WritesHaveCall, Decides, Started
<1>5. MissIsFinal'
    BY <1>2 DEF DecidedInv, MissIsFinal, Decides
<1>6. MissedUnanswered'
    <2> SUFFICES ASSUME ~RetriedWebhooks, NEW c \in Calls, MissedRow(c)',
                        Job("legacyEnd", c) \notin ran'
                 PROVE  /\ Gone(c)' /\ row'[c].answeredBy = NoDevice
                        /\ Job("markAnswered", c) \notin issued' \ ran'
        BY DEF MissedUnanswered
    <2>1. MissedRow(c) /\ Job("legacyEnd", c) \notin ran
        BY DEF MissedRow
    <2> QED BY <1>2, <2>1 DEF DecidedInv, MissedUnanswered, Decides
<1>7. RanWereIssued'
    BY <1>2 DEF DecidedInv, RanWereIssued, Decides
<1> QED BY <1>2, <1>3, <1>4, <1>5, <1>6, <1>7 DEF DecidedInv

\* No write finds the row of another call.
LEMMA OnlyItsRow ==
    ASSUME DecidedInv, ~RetriedWebhooks, NEW c \in Calls PROVE RowsOf(c) \subseteq {c}
    BY DEF DecidedInv, OwnProviderCall, WritesHaveCall, Started, RowsOf

\* What a write does to the row of its call, the insert aside, and the listener's
\* fallback aside: it calls it missed or declined only where no device answered.
LEMMA DecidedRow ==
    ASSUME RecordsTypeOK, DecidedInv, ~RetriedWebhooks,
           NEW j \in issued, j.op \notin {"insertRow", "legacyEnd"}, NEW r \in RowsAfter(j),
           NEW c \in Calls, r[c] # Absent, r[c].type \in {"MISSED", "DECLINED"}
    PROVE  \/ MissedRow(c) /\ r[c] = row[c]
           \/ MissedRow(c) /\ j = Job("markAnswered", c)
           \/ MissedRow(c) /\ r[c].answeredBy = row[c].answeredBy
           \/ j \in {Job("missRow", c), Job("declineRow", c)} /\ r[c].answeredBy = NoDevice
<1>1. /\ j.call \in Calls /\ j.op \in JobNames /\ j = Job(j.op, j.call)
      /\ row[c] \in Row \cup {Absent}
    BY DEF RecordsTypeOK, TypeOK, Jobs, Job
<1>2. RowsOf(j.call) \subseteq {j.call} /\ \A b \in RowsOf(j.call) : row[b] # Absent
    BY <1>1, OnlyItsRow DEF RowsOf
<1>3. CASE j.op \in {"missRow", "declineRow"}
    <2>1. PICK type \in {"MISSED", "DECLINED"} : r = UpdateCallType(j.call, type)
        BY <1>3 DEF RowsAfter
    <2> QED BY <1>1, <1>2, <1>3, <2>1 DEF UpdateCallType, Unresolved, MissedRow, Row
<1>4. CASE j.op = "markAnswered"
    <2> DEFINE winner == CHOOSE d \in Devices : <<j.call, d>> \in told
    <2>1. r = [b \in Calls |-> IF b \in RowsOf(j.call)
                               THEN [row[b] EXCEPT !.answeredBy = winner] ELSE row[b]]
        BY <1>4 DEF RowsAfter, MarkAnswered
    <2> HIDE DEF winner
    <2> QED BY <1>1, <1>2, <1>4, <2>1 DEF MissedRow, Row
<1>5. CASE j.op = "duration"
    <2>1. r = UpdateDuration(j.call)
        BY <1>5 DEF RowsAfter
    <2> QED BY <1>1, <1>2, <2>1 DEF UpdateDuration, MissedRow, Row
<1>6. CASE j.op = "unansweredRow"
    <2>1. r = MarkOutboundUnanswered(j.call)
        BY <1>6 DEF RowsAfter
    <2> QED BY <1>1, <1>2, <2>1 DEF MarkOutboundUnanswered, MissedRow, Row
<1>7. CASE j.op \in {"markResolved", "missNotification"}
    BY <1>7 DEF RowsAfter, MissedRow
<1> QED BY <1>1, <1>3, <1>4, <1>5, <1>6, <1>7 DEF JobNames

\* A write that runs keeps what is decided, whichever of the issued ones it is.
LEMMA DecidedWrite ==
    ASSUME RecordsTypeOK, DecidedInv, NEW j \in issued, RunWrite(j)
    PROVE  DecidedInv'
<1>1. /\ j \in issued \ ran /\ ran' = ran \cup {j} /\ row' \in RowsAfter(j)
      /\ UNCHANGED vars
    BY DEF RunWrite
<1>2. UNCHANGED <<mapVars, answerVars, decidedVars>>
    BY <1>1 DEF vars, mapVars, answerVars, decidedVars
<1>3. RanWereIssued' /\ MapInv' /\ ClaimInv'
    BY <1>1, <1>2, MapsQuiet, AnswersQuiet DEF DecidedInv, RanWereIssued, ClaimsKept, decidedVars
<1>4. OwnProviderCall' /\ MissIsFinal'
    BY <1>2 DEF DecidedInv, OwnProviderCall, MissIsFinal, MissIssued, Gone, decidedVars
<1>5. j.call \in Calls /\ j = Job(j.op, j.call) /\ j.op \in JobNames
    BY DEF RecordsTypeOK, TypeOK, Jobs, Job
<1>6. WritesHaveCall'
    <2> SUFFICES ASSUME NEW c \in Calls, row'[c] # Absent PROVE Started(c)
        BY <1>2 DEF DecidedInv, WritesHaveCall, Started, decidedVars
    <2>1. row[c] # Absent \/ j = Job("insertRow", c)
        BY <1>1, <1>5 DEF RowsAfter, RecordCall, UpdateCallType, MarkAnswered, UpdateDuration,
            MarkOutboundUnanswered, LegacyEnd, RowsOf, RecordsTypeOK, JobNames
    <2> QED BY <2>1 DEF DecidedInv, WritesHaveCall
<1>7. MissedUnanswered'
    <2> SUFFICES ASSUME ~RetriedWebhooks, NEW c \in Calls, MissedRow(c)',
                        Job("legacyEnd", c) \notin ran'
                 PROVE  /\ Gone(c) /\ row'[c].answeredBy = NoDevice
                        /\ Job("markAnswered", c) \notin issued \ ran'
        BY <1>2 DEF MissedUnanswered, Gone, decidedVars
    <2>1. row'[c] # Absent /\ row'[c].type \in {"MISSED", "DECLINED"}
        BY DEF MissedRow
    <2>2. MissedRow(c) =>
              /\ Gone(c) /\ row[c].answeredBy = NoDevice
              /\ Job("markAnswered", c) \notin issued \ ran
        BY <1>1 DEF DecidedInv, MissedUnanswered
    <2>3. CASE j.op = "insertRow"
        <3>1. row' = RecordCall(j.call)
            BY <1>1, <2>3 DEF RowsAfter
        <3>2. c # j.call
            BY <2>1, <3>1 DEF RecordCall, RecordsTypeOK
        <3> QED BY <1>1, <2>1, <2>2, <3>1, <3>2 DEF RecordCall, RecordsTypeOK, MissedRow
    <2>4. CASE j.op = "legacyEnd"
        <3>1. c # j.call
            BY <1>1, <1>5, <2>4
        <3>2. c \notin RowsOf(j.call)
            BY <1>5, <3>1, OnlyItsRow
        <3>3. row'[c] = row[c]
            BY <1>1, <2>4, <3>2 DEF RowsAfter, LegacyEnd, UpdateCallType, UpdateDuration,
                MarkOutboundUnanswered
        <3> QED BY <1>1, <2>1, <2>2, <3>3 DEF MissedRow
    <2>5. CASE j.op \notin {"insertRow", "legacyEnd"}
        <3>1. \/ MissedRow(c) /\ row'[c] = row[c]
              \/ MissedRow(c) /\ j = Job("markAnswered", c)
              \/ MissedRow(c) /\ row'[c].answeredBy = row[c].answeredBy
              \/ j \in {Job("missRow", c), Job("declineRow", c)} /\ row'[c].answeredBy = NoDevice
            BY <1>1, <2>1, <2>5, DecidedRow
        <3>2. j \in {Job("missRow", c), Job("declineRow", c)} =>
                  Gone(c) /\ Job("markAnswered", c) \notin issued
            BY DEF DecidedInv, MissIsFinal, MissIssued
        <3> QED BY <1>1, <2>2, <3>1, <3>2
    <2> QED BY <2>3, <2>4, <2>5
<1> QED BY <1>3, <1>4, <1>6, <1>7 DEF DecidedInv

\* A restart lets every call go, and calls missed only what no device answered.
LEMMA DecidedRestart ==
    ASSUME RecordsTypeOK, DecidedInv, ServerRestart
    PROVE  DecidedInv'
<1>1. /\ setup' = [c \in Calls |-> IF setup[c] = "new" THEN "new" ELSE "failed"]
      /\ watchdog' = [c \in Calls |-> "off"]
      /\ activeCalls' = {} /\ sessionToCall' = {} /\ notificationToCall' = {}
      /\ providerCallToInternal' = [p \in ProviderCalls |-> NoCall]
      /\ answering' = {} /\ ran' = issued
      /\ UNCHANGED <<direction, kind, providerCallId, answered, answeredByDevice, ended, told,
                     issued>>
    BY DEF ServerRestart
<1>2. MapInv'
    BY <1>1 DEF DecidedInv, MapInv, NotYetTracked, HasProviderCall, NoIdYet, Reserved, Early,
        NoDanglingId, WatchdogArmed, MappedIfAlone, Tracked
<1>3. ClaimInv'
    BY <1>1 DEF DecidedInv, ClaimInv, UnclaimedEarly, PendingHolds, ToldHolds, Early
<1>4. RanWereIssued' /\ OwnProviderCall'
    BY <1>1 DEF DecidedInv, RanWereIssued, OwnProviderCall
<1>5. \A c \in Calls : /\ row[c] \in Row \cup {Absent}
                       /\ row'[c] = CleanRow(row[c])
    BY DEF ServerRestart, RecordsTypeOK
<1>6. WritesHaveCall'
    BY <1>1, <1>5 DEF DecidedInv, WritesHaveCall, Started, CleanRow
<1>7. MissIsFinal'
    BY <1>1 DEF DecidedInv, MissIsFinal, MissIssued, Gone, Early
<1>8. MissedUnanswered'
    <2> SUFFICES ASSUME ~RetriedWebhooks, NEW c \in Calls, MissedRow(c)',
                        Job("legacyEnd", c) \notin ran'
                 PROVE  Gone(c)' /\ row'[c].answeredBy = NoDevice
        BY <1>1 DEF MissedUnanswered
    <2>1. row[c] # Absent /\ row[c] \in Row
        <3>1. row'[c] # Absent /\ row'[c] = CleanRow(row[c])
            BY <1>5 DEF MissedRow
        <3>2. row[c] # Absent
            BY <3>1 DEF CleanRow
        <3> QED BY <1>5, <3>2
    <2>2. setup[c] # "new"
        BY <2>1 DEF DecidedInv, WritesHaveCall, Started
    <2>3. Gone(c)'
        BY <1>1, <2>2 DEF Gone, Early
    <2>4. MissedRow(c) => row[c].answeredBy = NoDevice
        <3>1. ran \subseteq ran'
            BY <1>1 DEF DecidedInv, RanWereIssued
        <3> QED BY <3>1 DEF DecidedInv, MissedUnanswered
    <2>5. row'[c].answeredBy = NoDevice
        BY <1>5, <2>1, <2>4 DEF MissedRow, CleanRow, Unresolved, Row
    <2> QED BY <2>3, <2>5
<1> QED BY <1>2, <1>3, <1>4, <1>6, <1>7, <1>8 DEF DecidedInv

-----------------------------------------------------------------------------
(* The theorems                                                            *)

\* A step of the orchestrator without restart is a step of its specification.
LEMMA RecordsSteps ==
    ASSUME [RecordsNext]_allVars
    PROVE  \/ [Next]_vars /\ UNCHANGED records
           \/ \E c \in Calls : CreateNotification(c) \/ MarkRead(c)
           \/ \E j \in issued : RunWrite(j)
           \/ ServerRestart
    BY DEF RecordsNext, CallStep, Next, Notifying, allVars

\* Every step keeps it.
LEMMA RecordsNextInv ==
    RecordsTypeOK /\ RecordsInv /\ [RecordsNext]_allVars => RecordsTypeOK' /\ RecordsInv'
<1> SUFFICES ASSUME RecordsTypeOK, RecordsInv, [RecordsNext]_allVars
             PROVE  RecordsTypeOK' /\ RecordsInv'
    OBVIOUS
<1> QED BY RecordsSteps, RecordsOrchestrate, RecordsCreate, RecordsMarkRead, RecordsWrite,
           RecordsRestart

\* The tables stay well-typed, whatever writes run late and whenever the server
\* restarts.
THEOREM RecordsTypeCorrect == RecordsSpec => []RecordsTypeOK
    BY RecordsInitInv, RecordsNextInv, PTL DEF RecordsSpec

\* The invariant of the two tables holds in every reachable state.
LEMMA RecordsInvariant == RecordsSpec => [](RecordsTypeOK /\ RecordsInv)
    BY RecordsInitInv, RecordsNextInv, PTL DEF RecordsSpec

\* After a restart no row and no pending notification of an earlier run is left
\* open, and no write that was under way opens one again.
THEOREM RestartsLeaveNothingOpen == RecordsSpec => []OpenOnlyThisRun
<1>1. RecordsInv => OpenOnlyThisRun
    BY DEF RecordsInv, PastIsOver, Closed, OpenOnlyThisRun
<1> QED BY <1>1, RecordsInvariant, PTL

\* No write, no clean-up and no client takes a notification back, for any number
\* of calls and in any order of the writes.
THEOREM NotificationsMoveForward == RecordsSpec => NoteMovesForward
<1> DEFINE Forward ==
        \A c \in Calls : note[c] # Absent =>
            /\ note'[c] # Absent
            /\ note[c].status = "read" => note'[c].status = "read"
            /\ note[c].type = "missed_call" => note'[c].type = "missed_call"
<1>1. RecordsTypeOK /\ RecordsInv /\ [RecordsNext]_allVars => [Forward]_allVars
    <2> SUFFICES ASSUME RecordsTypeOK, RecordsInv, [RecordsNext]_allVars PROVE Forward
        OBVIOUS
    <2>1. CASE UNCHANGED records
        BY <2>1 DEF records
    <2>2. CASE \E c \in Calls : CreateNotification(c)
        BY <2>2, RecordsCreate DEF CreateNotification, RecordsTypeOK
    <2>3. CASE \E c \in Calls : MarkRead(c)
        BY <2>3, AbsentAssumption DEF MarkRead, RecordsTypeOK, Note
    <2>4. CASE \E j \in issued : RunWrite(j)
        BY <2>4, WritesKeepNotes DEF RunWrite
    <2>5. CASE ServerRestart
        BY <2>5, CleanUp
    <2> QED BY <2>1, <2>2, <2>3, <2>4, <2>5, RecordsSteps
<1> QED BY <1>1, RecordsInvariant, PTL DEF RecordsSpec, NoteMovesForward

\* Every step keeps what is decided.
LEMMA DecidedNext ==
    RecordsTypeOK /\ RecordsInv /\ DecidedInv /\ [RecordsNext]_allVars => DecidedInv'
<1> SUFFICES ASSUME RecordsTypeOK, RecordsInv, DecidedInv, [RecordsNext]_allVars
             PROVE  DecidedInv'
    OBVIOUS
<1>1. CASE [Next]_vars /\ UNCHANGED records
    BY <1>1, DecidedOrchestrate DEF records
<1>2. CASE \E c \in Calls : CreateNotification(c) \/ MarkRead(c)
    <2>1. [Next]_vars /\ UNCHANGED <<row, ran>>
        BY <1>2 DEF CreateNotification, MarkRead, Next, Notifying
    <2> QED BY <2>1, DecidedOrchestrate
<1>3. CASE \E j \in issued : RunWrite(j)
    BY <1>3, DecidedWrite
<1>4. CASE ServerRestart
    BY <1>4, DecidedRestart
<1> QED BY <1>1, <1>2, <1>3, <1>4, RecordsSteps

\* What the server decided about a call stands in every reachable state.
LEMMA DecidedInvariant == RecordsSpec => [](RecordsTypeOK /\ RecordsInv /\ DecidedInv)
    BY RecordsInitInv, DecidedInit, RecordsNextInv, DecidedNext, PTL DEF RecordsSpec

\* Unless webhooks are retried or the listener's fallback for unmapped provider ids
\* has edited it, no row says both that a device answered its call and that the call
\* was missed or declined, in whatever order the writes run,
\* whichever answers fail or come late, and whenever the server restarts.
THEOREM AnsweredIsNeverMissed == RecordsSpec => []AnsweredNotMissed
<1>1. DecidedInv => AnsweredNotMissed
    BY DEF DecidedInv, MissedUnanswered, MissedRow, AnsweredNotMissed
<1> QED BY <1>1, DecidedInvariant, PTL
=============================================================================
