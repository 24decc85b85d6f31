------------------------------- MODULE Messages -------------------------------
(***************************************************************************)
(* Text messages between the server and one browser tab: ConversationService *)
(* and ReadStateService with their tables, the SMS and read-state routes,  *)
(* the inbound webhook, and the tab's conversations view                   *)
(* (web/src/components/conversations.tsx).                                 *)
(*                                                                         *)
(* A flow is one run of receiveMessage (a delivery of the webhook, which   *)
(* the provider repeats until it is answered 200) or of sendMessage; its   *)
(* control location names the statement it is about to run.  Statements    *)
(* run on a connection pool, so flows interleave between any two of them.  *)
(* A request of the tab is answered from the tables at one moment and the  *)
(* answer arrives at a later one, in any order with other answers.         *)
(***************************************************************************)
EXTENDS Naturals, Sequences, FiniteSets

CONSTANTS
    Peers,      \* numbers at the other end
    Owns,       \* the user's own numbers
    Inbound,    \* provider message ids of messages received
    Outbound,   \* messages the tab sends
    Deliveries, \* how often the provider may deliver one message at a time
    MaxActs,    \* bound on what the user does in the tab, sending apart
    MaxFaults,  \* bound on restarts, lost sockets and requests lost together
    MaxReqs,    \* bound on requests under way, other than a send, when it makes another
    MaxInbox,   \* bound on events under way on the socket
    None        \* no own number, no thread, no delivery

Threads == [peer : Peers, own : Owns]
Views   == [peer : Peers, own : Owns \cup {None}]
Msgs    == Inbound \cup Outbound

\* A message is received or sent, and there is a number to send from.
ASSUME MessagesAssumption ==
    /\ Inbound \cap Outbound = {}
    /\ Owns # {}
    /\ MaxActs \in Nat /\ MaxFaults \in Nat

Flows   == (Inbound \X Deliveries) \cup {<<o, None>> : o \in Outbound}

VARIABLES
    conv,    \* conversations: no row, shown, or marked removed
    thread,  \* the thread of each message
    stored,  \* rows of messages per provider id or sent message
    status,  \* status of the row
    hidden,  \* messages marked removed
    read,    \* messages whose timestamp read_state.read_at has reached
    flow,    \* control location of each flow
    fresh,   \* flows whose conversation no one removed since their upsert
    reqs,    \* requests of the tab under way, and the answers
    inbox,   \* events under way to the tab
    ws,      \* "up" or "down"
    tab,     \* ConversationsState
    acts, faults

tables == <<conv, stored, status, hidden, read>>
vars == <<conv, thread, stored, status, hidden, read, flow, fresh, reqs, inbox, ws, tab, acts, faults>>

\* sendMessage between the insert of its row and the row's final status: at sendSms, at the
\* update to SENT, at its repetition, or at the update to FAILED.
Sending == {"send", "sent", "again", "failed"}
Locations == {"idle", "upsert", "none", "removed", "insert", "announce", "done", "left"} \cup Sending

Request ==
    [kind : {"list"}, own : Owns \cup {None}]
        \cup [kind : {"open", "refresh", "mark", "read", "delete"}, view : Views]
        \cup [kind : {"send"}, msg : Outbound]
Answer == [to : Request, ok : BOOLEAN, rows : SUBSET Msgs, threads : SUBSET Threads]
Marking == [cut : SUBSET Inbound, to : [kind : {"mark", "read"}, view : Views]]

Tab == [view : Views \cup {None}, shown : SUBSET Msgs, loading : BOOLEAN,
        sending : BOOLEAN, listed : SUBSET Threads, listing : BOOLEAN,
        filter : Owns \cup {None}, source : Owns]

\* Type invariant: the rows, flows, requests and the view's state stay within
\* the values their columns and declarations allow.
MessagesTypeOK ==
    /\ conv \in [Threads -> {"none", "shown", "removed"}]
    /\ thread \in [Msgs -> Threads]
    /\ stored \in [Msgs -> 0..2]
    /\ status \in [Msgs -> {"none", "PENDING", "SENT", "FAILED", "DELIVERED"}]
    /\ hidden \subseteq Msgs
    /\ read \in [Threads -> SUBSET Inbound]
    /\ flow \in [Flows -> Locations]
    /\ fresh \subseteq Flows
    /\ reqs \subseteq Request \cup Answer \cup Marking
    /\ inbox \in Seq(Msgs)
    /\ ws \in {"up", "down"}
    /\ tab \in Tab
    /\ acts \in 0..MaxActs /\ faults \in 0..MaxFaults

First == CHOOSE o \in Owns : TRUE

-----------------------------------------------------------------------------
(* The flows of ConversationService                                        *)

M(f) == f[1]
T(f) == thread[M(f)]
IsSend(f) == M(f) \in Outbound

SendRequest(o) == [kind |-> "send", msg |-> o]
Answered(r, ok, rows, threads) == [to |-> r, ok |-> ok, rows |-> rows, threads |-> threads]
Reply(r, ok, rows, threads) == (reqs \ {r}) \cup {Answered(r, ok, rows, threads)}

\* The flow throws: the provider is told 500 and will deliver again, the tab
\* gets the 500.  A status that could not be updated is left as it is.
Throws(f) ==
    /\ flow' = [flow EXCEPT ![f] = IF ~IsSend(f) THEN "idle"
                                   ELSE IF @ \in {"again", "failed"} THEN "left" ELSE "done"]
    /\ reqs' = IF IsSend(f) THEN Reply(SendRequest(M(f)), FALSE, {}, {}) ELSE reqs

\* receiveMessage: the duplicate check.  A message of which a row exists is
\* answered 200.
Deliver(f) ==
    /\ ~IsSend(f) /\ flow[f] = "idle"
    /\ flow' = [flow EXCEPT ![f] = IF stored[M(f)] > 0 THEN "done" ELSE "upsert"]
    /\ UNCHANGED <<conv, thread, stored, status, hidden, read, fresh, reqs, inbox, ws, tab, acts, faults>>

\* Fault: the upsert looks only for a missing row.
UpsertReadPresent(f) ==
    /\ flow[f] = "upsert"
    /\ flow' = [flow EXCEPT ![f] = IF conv[T(f)] = "none" THEN "none" ELSE "insert"]
    /\ fresh' = fresh \cup {f}
    /\ UNCHANGED <<conv, thread, stored, status, hidden, read, reqs, inbox, ws, tab, acts, faults>>

\* upsertConversation: the select.
UpsertRead(f) ==
    /\ flow[f] = "upsert"
    /\ flow' = [flow EXCEPT ![f] = IF conv[T(f)] = "shown" THEN "insert" ELSE conv[T(f)]]
    /\ fresh' = fresh \cup {f}
    /\ UNCHANGED <<conv, thread, stored, status, hidden, read, reqs, inbox, ws, tab, acts, faults>>

\* upsertConversation: the insert, which throws when another flow made the row
\* in between, or the update of removed.
UpsertWrite(f) ==
    /\ flow[f] \in {"none", "removed"}
    /\ IF flow[f] = "none" /\ conv[T(f)] # "none"
       THEN Throws(f) /\ UNCHANGED <<conv, fresh>>
       ELSE /\ conv' = [conv EXCEPT ![T(f)] = "shown"]
            /\ fresh' = fresh \cup {f}
            /\ flow' = [flow EXCEPT ![f] = "insert"]
            /\ UNCHANGED reqs
    /\ UNCHANGED <<thread, stored, status, hidden, read, inbox, ws, tab, acts, faults>>

\* Fault: the provider's message id is not unique in messages.
InsertTwice(f) ==
    /\ flow[f] = "insert"
    /\ stored' = [stored EXCEPT ![M(f)] = IF @ < 2 THEN @ + 1 ELSE @]
    /\ status' = [status EXCEPT ![M(f)] = IF IsSend(f) THEN "PENDING" ELSE "DELIVERED"]
    /\ flow' = [flow EXCEPT ![f] = IF IsSend(f) THEN "send" ELSE "announce"]
    /\ UNCHANGED <<conv, thread, hidden, read, fresh, reqs, inbox, ws, tab, acts, faults>>

\* The insert into messages; the column of provider ids is unique.
Insert(f) ==
    /\ flow[f] = "insert"
    /\ IF stored[M(f)] > 0
       THEN Throws(f) /\ UNCHANGED <<stored, status>>
       ELSE /\ stored' = [stored EXCEPT ![M(f)] = 1]
            /\ status' = [status EXCEPT ![M(f)] = IF IsSend(f) THEN "PENDING" ELSE "DELIVERED"]
            /\ flow' = [flow EXCEPT ![f] = IF IsSend(f) THEN "send" ELSE "announce"]
            /\ UNCHANGED reqs
    /\ UNCHANGED <<conv, thread, hidden, read, fresh, inbox, ws, tab, acts, faults>>

\* Fault: a rejection of the provider goes to the route.
ProviderAnswersOrThrows(f) ==
    /\ flow[f] = "send"
    /\ \/ flow' = [flow EXCEPT ![f] = "sent"] /\ UNCHANGED reqs
       \/ Throws(f)
    /\ UNCHANGED <<conv, thread, stored, status, hidden, read, fresh, inbox, ws, tab, acts, faults>>

\* sendSms answers with success, or answers with an error or rejects.
ProviderAnswers(f) ==
    /\ flow[f] = "send"
    /\ \E l \in {"sent", "failed"} : flow' = [flow EXCEPT ![f] = l]
    /\ UNCHANGED <<conv, thread, stored, status, hidden, read, fresh, reqs, inbox, ws, tab, acts, faults>>

\* The update with the provider's message id rejects, because another row has the id or for
\* any other reason; it is repeated without the id.
UpdateCollides(f) ==
    /\ flow[f] = "sent"
    /\ flow' = [flow EXCEPT ![f] = "again"]
    /\ UNCHANGED <<conv, thread, stored, status, hidden, read, fresh, reqs, inbox, ws, tab, acts, faults>>

\* The update of the status.
UpdateStatus(f) ==
    /\ flow[f] \in {"sent", "again", "failed"}
    /\ status' = [status EXCEPT ![M(f)] = IF flow[f] = "failed" THEN "FAILED" ELSE "SENT"]
    /\ flow' = [flow EXCEPT ![f] = "announce"]
    /\ UNCHANGED <<conv, thread, stored, hidden, read, fresh, reqs, inbox, ws, tab, acts, faults>>

Fault == faults < MaxFaults /\ faults' = faults + 1

\* A query that nobody catches rejects.  Without its upsert the flow has not shown anything.
QueryRejects(f) ==
    /\ Fault
    /\ flow[f] \in {"upsert", "none", "removed", "insert", "again", "failed", "announce"}
    /\ Throws(f)
    /\ fresh' = IF flow[f] \in {"upsert", "none", "removed"} THEN fresh \ {f} ELSE fresh
    /\ UNCHANGED <<conv, thread, stored, status, hidden, read, inbox, ws, tab, acts>>

\* The conversation's preview, then the event to every socket and the answer.
Announce(f) ==
    /\ flow[f] = "announce"
    /\ ws = "up" => Len(inbox) < MaxInbox
    /\ flow' = [flow EXCEPT ![f] = "done"]
    /\ inbox' = IF ws = "up" THEN Append(inbox, M(f)) ELSE inbox
    /\ reqs' = IF IsSend(f) THEN Reply(SendRequest(M(f)), TRUE, {M(f)}, {}) ELSE reqs
    /\ UNCHANGED <<conv, thread, stored, status, hidden, read, fresh, ws, tab, acts, faults>>

-----------------------------------------------------------------------------
(* The routes that answer the tab                                          *)

Rows(view) ==
    {m \in Msgs \ hidden : /\ stored[m] > 0
                           /\ thread[m].peer = view.peer
                           /\ view.own \in {None, thread[m].own}}

\* GET /api/conversations: the rows not removed, of one own number or of all.
AnswerList(r) ==
    /\ r.kind = "list"
    /\ reqs' = Reply(r, TRUE, {}, {t \in Threads : conv[t] = "shown" /\ r.own \in {None, t.own}})
    /\ UNCHANGED <<conv, read, fresh>>

\* GET /api/conversations/:number
AnswerThread(r) ==
    /\ r.kind \in {"open", "refresh"}
    /\ reqs' = Reply(r, TRUE, Rows(r.view), {})
    /\ UNCHANGED <<conv, read, fresh>>

\* POST /api/read-state/messages/:number: the time is taken before the table is
\* looked at, and covers what has been delivered by then, stored or not yet.
BeginMark(r) ==
    /\ r.kind \in {"mark", "read"}
    /\ reqs' = (reqs \ {r}) \cup
               {[to |-> r,
                 cut |-> {m \in Inbound : /\ thread[m] = r.view
                                          /\ \E d \in Deliveries : flow[<<m, d>>] # "idle"}]}
    /\ UNCHANGED <<conv, read, fresh>>

\* DELETE /api/conversations/:number
AnswerDelete(r) ==
    /\ r.kind = "delete"
    /\ conv' = [conv EXCEPT ![r.view] = IF @ = "none" THEN "none" ELSE "removed"]
    /\ fresh' = fresh \ {f \in Flows : T(f) = r.view}
    /\ reqs' = Reply(r, TRUE, {}, {})
    /\ UNCHANGED read

Serve ==
    /\ \E r \in reqs \cap Request :
          AnswerList(r) \/ AnswerThread(r) \/ BeginMark(r) \/ AnswerDelete(r)
    /\ UNCHANGED <<thread, stored, status, hidden, flow, inbox, ws, tab, acts, faults>>

\* markThreadAsRead writes the time it took, also over a later one.
WriteMark ==
    /\ \E q \in reqs \cap Marking :
          /\ read' = [read EXCEPT ![q.to.view] = q.cut]
          /\ reqs' = (reqs \ {q}) \cup {Answered(q.to, TRUE, {}, {})}
    /\ UNCHANGED <<conv, thread, stored, status, hidden, flow, fresh, inbox, ws, tab, acts, faults>>

-----------------------------------------------------------------------------
(* The view                                                                *)

List(t) == [kind |-> "list", own |-> t.filter]

\* fetchConversations(), as the tab after it
Listing(t) == [t EXCEPT !.listing = TRUE]

Marks(view, kind) == IF view.own = None THEN {} ELSE {[kind |-> kind, view |-> view]}

\* Fault: opening a thread also enables the composer.
OpenedEnabling(t, view) ==
    [t EXCEPT !.view = view, !.shown = {}, !.loading = TRUE, !.sending = FALSE]

\* fetchMessages(): the view, emptied, and the requests it makes
Opened(t, view) == [t EXCEPT !.view = view, !.shown = {}, !.loading = TRUE]
OpenRequests(view) == {[kind |-> "open", view |-> view]} \cup Marks(view, "read")

\* The entry of the list, the notification's link (?to=&from=).
Open(view) ==
    /\ tab' = Opened(tab, view)
    /\ reqs' = reqs \cup OpenRequests(view)

\* After componentDidMount: the list, and the thread of a link ?to=&from= if
\* there is one, are loaded, from tables that are still empty.
Init ==
    /\ conv = [t \in Threads |-> "none"]
    /\ \E t \in Threads : thread = [m \in Msgs |-> t]
    /\ stored = [m \in Msgs |-> 0]
    /\ status = [m \in Msgs |-> "none"]
    /\ hidden = {}
    /\ read = [t \in Threads |-> {}]
    /\ flow = [f \in Flows |-> "idle"]
    /\ fresh = {}
    /\ inbox = <<>>
    /\ ws = "up"
    /\ reqs = {}
    /\ \E v \in Threads \cup {None} :
          tab = [view |-> v, shown |-> {}, loading |-> FALSE, sending |-> FALSE,
                 listed |-> {}, listing |-> FALSE, filter |-> None, source |-> First]
    /\ acts = 0 /\ faults = 0

Closed(t) == [t EXCEPT !.view = None, !.shown = {}]

\* Fault: only the peer is taken from the view.
BackUntyped ==
    /\ tab.view # None
    /\ tab' = [tab EXCEPT !.view.peer = None, !.shown = {}]
    /\ UNCHANGED reqs

Back ==
    /\ tab.view # None
    /\ tab' = Closed(tab)
    /\ UNCHANGED reqs

\* handleStartConversation: no own number is selected, only a source.
StartConversation(peer, own) ==
    /\ tab.view = None
    /\ tab' = [tab EXCEPT !.view = [peer |-> peer, own |-> None], !.shown = {},
                          !.loading = FALSE, !.source = own]
    /\ UNCHANGED reqs

DeleteConfirm ==
    /\ tab.view # None /\ tab.view.own # None
    /\ reqs' = reqs \cup {[kind |-> "delete", view |-> tab.view]}
    /\ UNCHANGED tab

FilterChange(own) ==
    /\ tab.view = None
    /\ tab' = Listing([tab EXCEPT !.filter = own])
    /\ reqs' = reqs \cup {List(tab')}

Idle == Cardinality(reqs \ {SendRequest(o) : o \in Outbound}) < MaxReqs

User ==
    /\ Idle
    /\ acts < MaxActs /\ acts' = acts + 1
    /\ \/ \E t \in tab.listed : Open(t)
       \/ Back
       \/ \E p \in Peers, o \in Owns : StartConversation(p, o)
       \/ DeleteConfirm
       \/ \E o \in Owns \cup {None} : FilterChange(o)
    /\ UNCHANGED <<conv, thread, stored, status, hidden, read, flow, fresh, inbox, ws, faults>>

\* removeMessage and restoreMessage, from another client.
RemoveMessage(m) ==
    /\ acts < MaxActs /\ acts' = acts + 1
    /\ stored[m] > 0
    /\ hidden' = IF m \in hidden THEN hidden \ {m} ELSE hidden \cup {m}
    /\ UNCHANGED <<conv, thread, stored, status, read, flow, fresh, reqs, inbox, ws, tab, faults>>

\* handleSendMessage: the composer is disabled while sending.  The route starts
\* sendMessage.
Send(o) ==
    /\ flow[<<o, None>>] = "idle"
    /\ tab.view # None /\ ~tab.sending /\ Idle
    /\ thread' = [thread EXCEPT ![o] =
                    [peer |-> tab.view.peer,
                     own |-> IF tab.view.own # None THEN tab.view.own ELSE tab.source]]
    /\ tab' = [tab EXCEPT !.sending = TRUE]
    /\ reqs' = reqs \cup {SendRequest(o)}
    /\ flow' = [flow EXCEPT ![<<o, None>>] = "upsert"]
    /\ UNCHANGED <<conv, stored, status, hidden, read, fresh, inbox, ws, acts, faults>>

\* An answer arrives: what each request's continuation does.
After(a) ==
    LET t == tab  r == a.to IN
    CASE r.kind = "list" ->
           [t EXCEPT !.listing = FALSE, !.listed = IF a.ok THEN a.threads ELSE @]
      [] r.kind = "open" ->
           [t EXCEPT !.loading = FALSE,
                     !.shown = IF a.ok THEN a.rows ELSE @,
                     !.source = IF a.ok
                                THEN IF r.view.own # None THEN r.view.own ELSE First
                                ELSE @]
      [] r.kind = "refresh" ->
           IF a.ok /\ t.view # None /\ t.view.peer = r.view.peer
           THEN [t EXCEPT !.shown = a.rows] ELSE t
      [] r.kind = "send" ->
           [t EXCEPT !.sending = FALSE, !.shown = @ \cup a.rows]
      [] r.kind = "mark" -> Listing(t)
      [] r.kind = "delete" ->
           IF a.ok THEN [Closed(t) EXCEPT !.listed = @ \ {r.view}] ELSE t
      [] OTHER -> t

AnswerArrives ==
    /\ \E a \in reqs \cap Answer :
          /\ tab' = After(a)
          /\ reqs' = (reqs \ {a}) \cup IF a.to.kind = "mark" THEN {List(tab)} ELSE {}
    /\ UNCHANGED <<conv, thread, stored, status, hidden, read, flow, fresh, inbox, ws, acts, faults>>

\* new_message: the open thread is refreshed and, for a received message,
\* marked read before the list is fetched again; otherwise only the list is.
NewMessage ==
    /\ inbox # <<>> /\ Idle
    /\ LET m == Head(inbox)
           same == tab.view = thread[m]
           mark == same /\ m \in Inbound
       IN  /\ reqs' = reqs \cup (IF same THEN {[kind |-> "refresh", view |-> tab.view]} ELSE {})
                           \cup (IF mark THEN Marks(tab.view, "mark") ELSE {List(tab)})
           /\ tab' = IF mark THEN tab ELSE Listing(tab)
    /\ inbox' = Tail(inbox)
    /\ UNCHANGED <<conv, thread, stored, status, hidden, read, flow, fresh, ws, acts, faults>>

\* ws_connected: the list, and the open thread anew.
Reconnect ==
    /\ ws = "down" /\ Idle
    /\ ws' = "up"
    /\ tab' = Listing(IF tab.view = None THEN tab ELSE Opened(tab, tab.view))
    /\ reqs' = reqs \cup {List(tab)} \cup IF tab.view = None THEN {} ELSE OpenRequests(tab.view)
    /\ UNCHANGED <<conv, thread, stored, status, hidden, read, flow, fresh, inbox, acts, faults>>

-----------------------------------------------------------------------------
(* Faults                                                                  *)

Disconnect ==
    /\ Fault
    /\ ws = "up"
    /\ ws' = "down" /\ inbox' = <<>>
    /\ UNCHANGED <<conv, thread, stored, status, hidden, read, flow, fresh, reqs, tab, acts>>

\* fetch() rejects, on the way to the server or back: none of the continuations above runs,
\* but markThreadRead catches it, and the list is fetched all the same.
RequestLost ==
    /\ Fault
    /\ \E q \in reqs \cap (Request \cup Answer) :
          LET r == IF q \in Answer THEN q.to ELSE q
          IN  /\ q \in Request => r.kind # "send"
              /\ reqs' = (reqs \ {q}) \cup IF r.kind = "mark" THEN {List(tab)} ELSE {}
              /\ tab' = IF r.kind = "mark" THEN Listing(tab) ELSE tab
    /\ UNCHANGED <<conv, thread, stored, status, hidden, read, flow, fresh, inbox, ws, acts>>

\* The server restarts: flows and requests are gone, the provider delivers
\* again what was not answered, and nobody looks at PENDING rows.
Restart ==
    /\ Fault
    /\ flow' = [f \in Flows |-> IF flow[f] \in {"idle", "done", "left"} THEN flow[f]
                                ELSE IF ~IsSend(f) THEN "idle"
                                ELSE IF flow[f] \in Sending THEN "left" ELSE "done"]
    /\ fresh' = {f \in fresh : flow[f] = "done"}
    /\ reqs' = {}
    /\ ws' = "down" /\ inbox' = <<>>
    /\ UNCHANGED <<conv, thread, stored, status, hidden, read, tab, acts>>

-----------------------------------------------------------------------------
FlowStep ==
    \E f \in Flows : \/ Deliver(f)
                     \/ UpsertRead(f)
                     \/ UpsertWrite(f)
                     \/ Insert(f)
                     \/ ProviderAnswers(f)
                     \/ UpdateCollides(f)
                     \/ UpdateStatus(f)
                     \/ QueryRejects(f)
                     \/ Announce(f)

Next ==
    \/ FlowStep
    \/ Serve
    \/ WriteMark
    \/ User
    \/ \E m \in Msgs : RemoveMessage(m)
    \/ \E o \in Outbound : Send(o)
    \/ AnswerArrives
    \/ NewMessage
    \/ Reconnect
    \/ Disconnect
    \/ RequestLost
    \/ Restart

Spec == Init /\ [][Next]_vars

-----------------------------------------------------------------------------
\* One row per message: whatever deliveries overlap and whenever the server
\* restarts, receiveMessage stores what the provider sent at most once.
ReceivedOnce == \A m \in Inbound : stored[m] <= 1

\* A message brings its conversation back: after upsertConversation, only a
\* removal that came later can leave a stored message in a removed conversation.
MessageRestoresThread ==
    \A f \in fresh : flow[f] \in {"insert", "announce", "done", "left"} \cup Sending
                     => conv[T(f)] = "shown"

\* One submission at a time: the composer stays disabled while the server works
\* on a message, so it cannot be submitted a second time, whatever the user
\* opens, deletes or receives in the meantime.
OneSendAtATime == \A o \in Outbound : SendRequest(o) \in reqs => tab.sending

\* A PENDING row has a sendMessage at work on it, whatever the provider answers and
\* however the queries, answers and restarts mix.  It is left alone only where the flow
\* ended as "left": the update to FAILED or the repeated update to SENT rejected, or the
\* server restarted before the status was written.
PendingIsWorkedOn ==
    \A o \in Outbound : status[o] = "PENDING" => flow[<<o, None>>] \in Sending \cup {"left"}
===============================================================================
