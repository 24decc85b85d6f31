----------------------------- MODULE MessagesProofs -----------------------------
(***************************************************************************)
(* Machine-checked proofs about Messages: the tables, the requests and the *)
(* view are well-typed; a message has one row; a conversation that a       *)
(* message brought back is shown until it is removed again; one submission *)
(* at a time; and no row is left PENDING but where writing its final       *)
(* status failed.                                                          *)
(***************************************************************************)
EXTENDS Messages, TLAPS

\* A flow whose upsert no removal followed sees its conversation shown, or is about to
\* show it; the insert it may be about to make fails only where another made the row.
FreshInv ==
    /\ \A f \in fresh : \/ conv[T(f)] = "shown"
                        \/ flow[f] = "removed"
                        \/ flow[f] = "none" /\ conv[T(f)] = "none"
    /\ \A f \in fresh : IsSend(f) => flow[f] # "idle"

\* The sends the tab has asked for, and the answers to them.
Asked == {o \in Outbound : SendRequest(o) \in reqs}
Settled == {a \in reqs \cap Answer : a.to.kind = "send"}

\* Where sendMessage has not begun or is over.
Over == {"idle", "done", "left"}

\* The composer is disabled from a submission to its answer, and the server works
\* on no message that was not asked for or is answered already.
SendInv ==
    /\ Asked # {} \/ Settled # {} => tab.sending
    /\ Asked = {} \/ Settled = {}
    /\ \A o, p \in Asked : o = p
    /\ \A a, b \in Settled : a = b
    /\ \A o \in Outbound : flow[<<o, None>>] \notin Over => o \in Asked

\* The column of provider ids is unique, and a PENDING row has its flow, or had it.
RowsInv == (\A m \in Msgs : stored[m] <= 1) /\ PendingIsWorkedOn

MessagesInv == MessagesTypeOK /\ RowsInv /\ FreshInv /\ SendInv

-----------------------------------------------------------------------------
(* Requests, answers and flows                                             *)

\* A request, its answer and a half-done mark are three different things.
LEMMA RequestsApart ==
    /\ Request \cap Answer = {} /\ Request \cap Marking = {} /\ Answer \cap Marking = {}
<1>1. Request \cap Answer = {}
    BY DEF Request, Answer
<1>2. Request \cap Marking = {}
    BY DEF Request, Marking
<1>3. Answer \cap Marking = {}
    BY DEF Answer, Marking
<1> QED BY <1>1, <1>2, <1>3

\* A send request is the one for its message.
LEMMA SendRequests ==
    /\ \A o \in Outbound : SendRequest(o) \in Request /\ SendRequest(o).kind = "send"
    /\ \A o, p \in Outbound : SendRequest(o) = SendRequest(p) => o = p
    /\ \A r \in Request : r.kind = "send" => \E o \in Outbound : r = SendRequest(o)
<1>1. \A o \in Outbound : SendRequest(o) \in Request /\ SendRequest(o).kind = "send"
    BY DEF Request, SendRequest
<1>2. \A o, p \in Outbound : SendRequest(o) = SendRequest(p) => o = p
    BY DEF SendRequest
<1>3. \A r \in Request : r.kind = "send" => \E o \in Outbound : r = SendRequest(o)
    BY DEF Request, SendRequest
<1> QED BY <1>1, <1>2, <1>3

\* A request to mark a thread read is one of two kinds.
LEMMA MarkRequests ==
    \A r \in Request : r.kind \in {"mark", "read"} => r \in [kind : {"mark", "read"}, view : Views]
BY DEF Request

\* An answer names its request.
LEMMA AnsweredType ==
    ASSUME NEW r \in Request, NEW ok \in BOOLEAN, NEW rows \in SUBSET Msgs,
           NEW threads \in SUBSET Threads
    PROVE  Answered(r, ok, rows, threads) \in Answer /\ Answered(r, ok, rows, threads).to = r
BY DEF Answer, Answered

\* A flow works on one message; a message sent has one flow.
LEMMA FlowOf ==
    /\ \A f \in Flows : M(f) \in Msgs
    /\ \A f \in Flows : IsSend(f) => f = <<M(f), None>>
    /\ \A o \in Outbound : <<o, None>> \in Flows /\ M(<<o, None>>) = o /\ IsSend(<<o, None>>)
<1>1. \A f \in Flows : M(f) \in Msgs
    BY DEF Flows, M, Msgs
<1>2. \A f \in Flows : IsSend(f) => f = <<M(f), None>>
    BY MessagesAssumption DEF Flows, M, IsSend
<1>3. \A o \in Outbound : <<o, None>> \in Flows /\ M(<<o, None>>) = o /\ IsSend(<<o, None>>)
    BY DEF Flows, M, IsSend
<1> QED BY <1>1, <1>2, <1>3

-----------------------------------------------------------------------------
(* Types                                                                   *)

\* What the tab asks for is a request.
LEMMA RequestTypes ==
    /\ \A t \in Tab : List(t) \in Request
    /\ \A v \in Views, k \in {"open", "refresh", "mark", "read", "delete"} :
          [kind |-> k, view |-> v] \in Request
    /\ \A v \in Views, k \in {"mark", "read"} : Marks(v, k) \subseteq Request
    /\ \A v \in Views : OpenRequests(v) \subseteq Request
<1>1. \A t \in Tab : List(t) \in Request
    BY DEF List, Tab, Request
<1>2. \A v \in Views, k \in {"open", "refresh", "mark", "read", "delete"} :
          [kind |-> k, view |-> v] \in Request
    BY DEF Request
<1>3. \A v \in Views, k \in {"mark", "read"} : Marks(v, k) \subseteq Request
    BY <1>2 DEF Marks
<1>4. \A v \in Views : OpenRequests(v) \subseteq Request
    BY <1>2, <1>3 DEF OpenRequests
<1> QED BY <1>1, <1>2, <1>3, <1>4

\* None of them is a send.
LEMMA NoSendAmong ==
    /\ \A t \in Tab : List(t).kind # "send"
    /\ \A v \in Views, k \in {"mark", "read"} : \A r \in Marks(v, k) : r.kind # "send"
    /\ \A v \in Views : \A r \in OpenRequests(v) : r.kind # "send"
BY DEF List, Marks, OpenRequests

\* A reply replaces the request.
LEMMA ReplyType ==
    ASSUME MessagesTypeOK, NEW r \in Request, NEW ok \in BOOLEAN, NEW rows \in SUBSET Msgs,
           NEW threads \in SUBSET Threads
    PROVE  Reply(r, ok, rows, threads) \subseteq Request \cup Answer \cup Marking
BY AnsweredType DEF Reply, MessagesTypeOK

\* The view of the tab opens, closes, and lists.
LEMMA TabTypes ==
    ASSUME NEW t \in Tab
    PROVE  /\ Listing(t) \in Tab /\ Closed(t) \in Tab
           /\ \A v \in Views : Opened(t, v) \in Tab
<1>1. Listing(t) \in Tab
    BY DEF Tab, Listing
<1>2. Closed(t) \in Tab
    BY DEF Tab, Closed
<1>3. \A v \in Views : Opened(t, v) \in Tab
    BY DEF Tab, Opened
<1> QED BY <1>1, <1>2, <1>3

\* The number offered first is one of the user's.
LEMMA FirstType == First \in Owns
BY MessagesAssumption DEF First

\* What the continuation of a request makes of the tab.
LEMMA AfterType ==
    ASSUME tab \in Tab, NEW a \in Answer
    PROVE  After(a) \in Tab
<1> DEFINE r == a.to
<1>1. r \in Request /\ a.ok \in BOOLEAN /\ a.rows \subseteq Msgs /\ a.threads \subseteq Threads
    BY DEF Answer
<1>2. CASE r.kind = "list"
    <2> DEFINE l == IF a.ok THEN a.threads ELSE tab.listed
    <2>1. l \subseteq Threads
        BY <1>1 DEF Tab
    <2>2. After(a) = [tab EXCEPT !.listing = FALSE, !.listed = l]
        BY <1>2 DEF After
    <2> HIDE DEF l
    <2> QED BY <2>1, <2>2 DEF Tab
<1>3. CASE r.kind = "open"
    <2> DEFINE sh == IF a.ok THEN a.rows ELSE tab.shown
               so == IF a.ok THEN IF r.view.own # None THEN r.view.own ELSE First ELSE tab.source
    <2>1. r.view \in Views
        BY <1>1, <1>3 DEF Request
    <2>2. sh \subseteq Msgs /\ so \in Owns
        BY <1>1, <2>1, FirstType DEF Tab, Views
    <2>3. After(a) = [tab EXCEPT !.loading = FALSE, !.shown = sh, !.source = so]
        BY <1>3 DEF After
    <2> HIDE DEF sh, so
    <2> QED BY <2>2, <2>3 DEF Tab
<1>4. CASE r.kind = "refresh"
    BY <1>1, <1>4 DEF After, Tab
<1>5. CASE r.kind = "send"
    BY <1>1, <1>5 DEF After, Tab
<1>6. CASE r.kind = "mark"
    BY <1>6, TabTypes DEF After
<1>7. CASE r.kind = "delete"
    <2>1. [Closed(tab) EXCEPT !.listed = @ \ {r.view}] \in Tab
        BY TabTypes DEF Tab
    <2> QED BY <1>7, <2>1 DEF After
<1>8. CASE r.kind = "read"
    BY <1>8 DEF After
<1>9. r.kind \in {"list", "open", "refresh", "mark", "read", "delete", "send"}
    BY <1>1 DEF Request
<1> HIDE DEF r
<1> QED BY <1>2, <1>3, <1>4, <1>5, <1>6, <1>7, <1>8, <1>9

\* A flow that throws answers the tab with an error, or waits for the next delivery.
LEMMA ThrowsType ==
    ASSUME MessagesTypeOK, NEW f \in Flows, Throws(f)
    PROVE  flow' \in [Flows -> Locations] /\ reqs' \subseteq Request \cup Answer \cup Marking
<1>1. flow' \in [Flows -> Locations]
    BY DEF Throws, MessagesTypeOK, Locations, Sending
<1>2. CASE IsSend(f)
    <2>1. SendRequest(M(f)) \in Request
        BY <1>2, SendRequests DEF IsSend
    <2>2. reqs' = Reply(SendRequest(M(f)), FALSE, {}, {})
        BY <1>2 DEF Throws
    <2> QED BY <1>1, <2>1, <2>2, ReplyType
<1>3. CASE ~IsSend(f)
    BY <1>1, <1>3 DEF Throws, MessagesTypeOK
<1> QED BY <1>2, <1>3

\* The statements of receiveMessage and sendMessage.
LEMMA FlowType ==
    ASSUME MessagesTypeOK, FlowStep
    PROVE  MessagesTypeOK'
<1> PICK f \in Flows : \/ Deliver(f) \/ UpsertRead(f) \/ UpsertWrite(f) \/ Insert(f)
                       \/ ProviderAnswers(f) \/ UpdateCollides(f) \/ UpdateStatus(f)
                       \/ QueryRejects(f) \/ Announce(f)
    BY DEF FlowStep
<1>1. M(f) \in Msgs
    BY FlowOf
<1>2. CASE Deliver(f)
    <2>1. flow' \in [Flows -> Locations]
        BY <1>2 DEF Deliver, MessagesTypeOK, Locations, Sending
    <2> QED BY <1>2, <2>1 DEF Deliver, MessagesTypeOK
<1>3. CASE UpsertRead(f)
    <2>1. T(f) \in Threads
        BY <1>1 DEF T, MessagesTypeOK
    <2>2. flow' \in [Flows -> Locations] /\ fresh' \subseteq Flows
        BY <1>3, <2>1 DEF UpsertRead, MessagesTypeOK, Locations, Sending
    <2> QED BY <1>3, <2>2 DEF UpsertRead, MessagesTypeOK
<1>4. CASE UpsertWrite(f)
    <2>1. /\ conv' \in [Threads -> {"none", "shown", "removed"}] /\ fresh' \subseteq Flows
          /\ flow' \in [Flows -> Locations]
          /\ reqs' \subseteq Request \cup Answer \cup Marking
        <3>1. CASE Throws(f) /\ UNCHANGED <<conv, fresh>>
            BY <3>1, ThrowsType DEF MessagesTypeOK
        <3>2. CASE ~(Throws(f) /\ UNCHANGED <<conv, fresh>>)
            BY <1>4, <3>2 DEF UpsertWrite, MessagesTypeOK, Locations, Sending
        <3> QED BY <3>1, <3>2
    <2> QED BY <1>4, <2>1 DEF UpsertWrite, MessagesTypeOK
<1>5. CASE Insert(f)
    <2>1. /\ stored' \in [Msgs -> 0..2]
          /\ status' \in [Msgs -> {"none", "PENDING", "SENT", "FAILED", "DELIVERED"}]
          /\ flow' \in [Flows -> Locations]
          /\ reqs' \subseteq Request \cup Answer \cup Marking
        <3>1. CASE Throws(f) /\ UNCHANGED <<stored, status>>
            BY <3>1, ThrowsType DEF MessagesTypeOK
        <3>2. CASE ~(Throws(f) /\ UNCHANGED <<stored, status>>)
            <4> DEFINE x == IF IsSend(f) THEN "PENDING" ELSE "DELIVERED"
                       l == IF IsSend(f) THEN "send" ELSE "announce"
            <4>1. /\ stored' = [stored EXCEPT ![M(f)] = 1] /\ reqs' = reqs
                  /\ status' = [status EXCEPT ![M(f)] = x] /\ flow' = [flow EXCEPT ![f] = l]
                BY <1>5, <3>2 DEF Insert
            <4>2. x \in {"PENDING", "DELIVERED"} /\ l \in Locations
                BY DEF Locations, Sending
            <4> HIDE DEF x, l
            <4>3. stored' \in [Msgs -> 0..2]
                <5>1. stored \in [Msgs -> 0..2] /\ 1 \in 0..2
                    BY DEF MessagesTypeOK
                <5>2. stored' = [stored EXCEPT ![M(f)] = 1]
                    BY <4>1
                <5> QED BY <5>1, <5>2
            <4>6. reqs' \subseteq Request \cup Answer \cup Marking
                BY <4>1 DEF MessagesTypeOK
            <4>4. status' \in [Msgs -> {"none", "PENDING", "SENT", "FAILED", "DELIVERED"}]
                BY <4>1, <4>2 DEF MessagesTypeOK
            <4>5. flow' \in [Flows -> Locations]
                BY <4>1, <4>2 DEF MessagesTypeOK
            <4> QED BY <4>3, <4>4, <4>5, <4>6
        <3> QED BY <3>1, <3>2
    <2> QED BY <1>5, <2>1 DEF Insert, MessagesTypeOK
<1>6. CASE ProviderAnswers(f) \/ UpdateCollides(f)
    <2>1. flow' \in [Flows -> Locations]
        BY <1>6 DEF ProviderAnswers, UpdateCollides, MessagesTypeOK, Locations, Sending
    <2> QED BY <1>6, <2>1 DEF ProviderAnswers, UpdateCollides, MessagesTypeOK
<1>8. CASE UpdateStatus(f)
    <2>1. /\ flow' \in [Flows -> Locations]
          /\ status' \in [Msgs -> {"none", "PENDING", "SENT", "FAILED", "DELIVERED"}]
        BY <1>8 DEF UpdateStatus, MessagesTypeOK, Locations, Sending
    <2> QED BY <1>8, <2>1 DEF UpdateStatus, MessagesTypeOK
<1>9. CASE QueryRejects(f)
    <2>1. /\ flow' \in [Flows -> Locations]
          /\ reqs' \subseteq Request \cup Answer \cup Marking
        BY <1>9, ThrowsType DEF QueryRejects
    <2>2. faults' \in 0..MaxFaults /\ fresh' \subseteq Flows
        BY <1>9, MessagesAssumption DEF QueryRejects, Fault, MessagesTypeOK
    <2> QED BY <1>9, <2>1, <2>2 DEF QueryRejects, MessagesTypeOK
<1>7. CASE Announce(f)
    <2>1. flow' \in [Flows -> Locations] /\ inbox' \in Seq(Msgs)
        BY <1>1, <1>7 DEF Announce, MessagesTypeOK, Locations, Sending
    <2>2. reqs' \subseteq Request \cup Answer \cup Marking
        <3>1. CASE IsSend(f)
            <4>1. SendRequest(M(f)) \in Request
                BY <3>1, SendRequests DEF IsSend
            <4>2. reqs' = Reply(SendRequest(M(f)), TRUE, {M(f)}, {})
                BY <1>7, <3>1 DEF Announce
            <4> QED BY <1>1, <4>1, <4>2, ReplyType
        <3>2. CASE ~IsSend(f)
            BY <1>7, <3>2 DEF Announce, MessagesTypeOK
        <3> QED BY <3>1, <3>2
    <2> QED BY <1>7, <2>1, <2>2 DEF Announce, MessagesTypeOK
<1> QED BY <1>2, <1>3, <1>4, <1>5, <1>6, <1>7, <1>8, <1>9

\* The routes, and the mark that is written after its time was taken.
LEMMA RoutesType ==
    ASSUME MessagesTypeOK, Serve \/ WriteMark
    PROVE  MessagesTypeOK'
<1>1. CASE Serve
    <2> PICK r \in reqs \cap Request :
            AnswerList(r) \/ AnswerThread(r) \/ BeginMark(r) \/ AnswerDelete(r)
        BY <1>1 DEF Serve
    <2>1. CASE AnswerList(r)
        <3> DEFINE th == {t \in Threads : conv[t] = "shown" /\ r.own \in {None, t.own}}
        <3>1. reqs' = Reply(r, TRUE, {}, th) /\ th \subseteq Threads
            BY <2>1 DEF AnswerList
        <3> HIDE DEF th
        <3>2. reqs' \subseteq Request \cup Answer \cup Marking
            BY <3>1, ReplyType
        <3> QED BY <1>1, <2>1, <3>2 DEF Serve, AnswerList, MessagesTypeOK
    <2>2. CASE AnswerThread(r)
        <3>1. reqs' = Reply(r, TRUE, Rows(r.view), {}) /\ Rows(r.view) \subseteq Msgs
            BY <2>2 DEF AnswerThread, Rows
        <3>2. reqs' \subseteq Request \cup Answer \cup Marking
            BY <3>1, ReplyType
        <3> QED BY <1>1, <2>2, <3>2 DEF Serve, AnswerThread, MessagesTypeOK
    <2>3. CASE BeginMark(r)
        <3> DEFINE cut == {m \in Inbound : /\ thread[m] = r.view
                                           /\ \E d \in Deliveries : flow[<<m, d>>] # "idle"}
        <3>1. reqs' = (reqs \ {r}) \cup {[to |-> r, cut |-> cut]} /\ cut \subseteq Inbound
            BY <2>3 DEF BeginMark
        <3> HIDE DEF cut
        <3>2. [to |-> r, cut |-> cut] \in Marking
            BY <2>3, <3>1, MarkRequests DEF BeginMark, Marking
        <3>3. reqs' \subseteq Request \cup Answer \cup Marking
            BY <3>1, <3>2 DEF MessagesTypeOK
        <3> QED BY <1>1, <2>3, <3>3 DEF Serve, BeginMark, MessagesTypeOK
    <2>4. CASE AnswerDelete(r)
        <3>1. reqs' = Reply(r, TRUE, {}, {})
            BY <2>4 DEF AnswerDelete
        <3>2. reqs' \subseteq Request \cup Answer \cup Marking
            BY <3>1, ReplyType
        <3>3. conv' \in [Threads -> {"none", "shown", "removed"}] /\ fresh' \subseteq Flows
            BY <2>4 DEF AnswerDelete, MessagesTypeOK
        <3> QED BY <1>1, <2>4, <3>2, <3>3 DEF Serve, AnswerDelete, MessagesTypeOK
    <2> QED BY <2>1, <2>2, <2>3, <2>4
<1>2. CASE WriteMark
    <2> PICK q \in reqs \cap Marking :
            /\ read' = [read EXCEPT ![q.to.view] = q.cut]
            /\ reqs' = (reqs \ {q}) \cup {Answered(q.to, TRUE, {}, {})}
        BY <1>2 DEF WriteMark
    <2>1. q.cut \subseteq Inbound /\ q.to \in Request
        BY DEF Marking, Request
    <2>2. Answered(q.to, TRUE, {}, {}) \in Answer
        BY <2>1, AnsweredType
    <2>3. /\ reqs' \subseteq Request \cup Answer \cup Marking
          /\ read' \in [Threads -> SUBSET Inbound]
        BY <2>1, <2>2 DEF MessagesTypeOK
    <2> QED BY <1>2, <2>3 DEF WriteMark, MessagesTypeOK
<1> QED BY <1>1, <1>2

\* The user, the answers and the events.
LEMMA ViewType ==
    ASSUME MessagesTypeOK,
           \/ User
           \/ \E m \in Msgs : RemoveMessage(m)
           \/ \E o \in Outbound : Send(o)
           \/ AnswerArrives \/ NewMessage \/ Reconnect
    PROVE  MessagesTypeOK'
<1>1. /\ tab \in Tab /\ reqs \subseteq Request \cup Answer \cup Marking
      /\ List(tab) \in Request
      /\ tab.view # None => tab.view \in Views
    BY RequestTypes DEF MessagesTypeOK, Tab
<1>2. ASSUME NEW x, x \in 0..MaxActs, x < MaxActs
      PROVE  x + 1 \in 0..MaxActs
    BY <1>2, MessagesAssumption
<1>3. CASE User
    <2>1. acts' \in 0..MaxActs
        BY <1>2, <1>3 DEF User, MessagesTypeOK
    <2>2. tab' \in Tab /\ reqs' \subseteq Request \cup Answer \cup Marking
        <3>1. ASSUME NEW t \in tab.listed, Open(t)
              PROVE  tab' \in Tab /\ reqs' \subseteq Request \cup Answer \cup Marking
            <4>1. t \in Views
                BY <1>1 DEF Tab, Threads, Views
            <4> QED BY <1>1, <3>1, <4>1, TabTypes, RequestTypes DEF Open
        <3>2. CASE Back
            BY <1>1, <3>2, TabTypes DEF Back
        <3>3. ASSUME NEW p \in Peers, NEW o \in Owns, StartConversation(p, o)
              PROVE  tab' \in Tab /\ reqs' \subseteq Request \cup Answer \cup Marking
            <4>1. [peer |-> p, own |-> None] \in Views
                BY DEF Views
            <4> QED BY <1>1, <3>3, <4>1 DEF StartConversation, Tab
        <3>4. CASE DeleteConfirm
            BY <1>1, <3>4, RequestTypes DEF DeleteConfirm
        <3>5. ASSUME NEW o \in Owns \cup {None}, FilterChange(o)
              PROVE  tab' \in Tab /\ reqs' \subseteq Request \cup Answer \cup Marking
            <4>1. tab' \in Tab
                BY <1>1, <3>5 DEF FilterChange, Listing, Tab
            <4> QED BY <1>1, <3>5, <4>1, RequestTypes DEF FilterChange
        <3> QED BY <1>3, <3>1, <3>2, <3>3, <3>4, <3>5 DEF User
    <2> QED BY <1>3, <2>1, <2>2 DEF User, MessagesTypeOK
<1>4. ASSUME NEW m \in Msgs, RemoveMessage(m)
      PROVE  MessagesTypeOK'
    <2>1. acts' \in 0..MaxActs
        BY <1>2, <1>4 DEF RemoveMessage, MessagesTypeOK
    <2> QED BY <1>4, <2>1 DEF RemoveMessage, MessagesTypeOK
<1>5. ASSUME NEW o \in Outbound, Send(o)
      PROVE  MessagesTypeOK'
    <2> DEFINE th == [peer |-> tab.view.peer,
                      own |-> IF tab.view.own # None THEN tab.view.own ELSE tab.source]
    <2>1. th \in Threads
        BY <1>1, <1>5 DEF Send, Views, Threads, Tab
    <2>2. thread' = [thread EXCEPT ![o] = th] /\ tab' = [tab EXCEPT !.sending = TRUE]
        BY <1>5 DEF Send
    <2> HIDE DEF th
    <2>3. thread' \in [Msgs -> Threads] /\ tab' \in Tab
        BY <1>1, <2>1, <2>2 DEF MessagesTypeOK, Tab
    <2>4. flow' \in [Flows -> Locations]
        BY <1>5 DEF Send, MessagesTypeOK, Locations, Sending
    <2>5. reqs' \subseteq Request \cup Answer \cup Marking
        BY <1>1, <1>5, SendRequests DEF Send
    <2> QED BY <1>5, <2>3, <2>4, <2>5 DEF Send, MessagesTypeOK
<1>6. CASE AnswerArrives
    <2>1. PICK a \in reqs \cap Answer :
              /\ tab' = After(a)
              /\ reqs' = (reqs \ {a}) \cup IF a.to.kind = "mark" THEN {List(tab)} ELSE {}
        BY <1>6 DEF AnswerArrives
    <2>2. tab' \in Tab /\ reqs' \subseteq Request \cup Answer \cup Marking
        BY <1>1, <2>1, AfterType
    <2> QED BY <1>6, <2>2 DEF AnswerArrives, MessagesTypeOK
<1>7. CASE NewMessage
    <2> DEFINE m == Head(inbox)
               same == tab.view = thread[m]
    <2>1. inbox \in Seq(Msgs) /\ inbox # <<>> /\ m \in Msgs
        BY <1>7 DEF NewMessage, MessagesTypeOK
    <2>2. inbox' \in Seq(Msgs)
        BY <1>7, <2>1 DEF NewMessage
    <2>3. tab' \in Tab
        BY <1>1, <1>7, TabTypes DEF NewMessage
    <2>4. same => tab.view \in Views
        BY <2>1 DEF MessagesTypeOK, Threads, Views
    <2> HIDE DEF m
    <2>5. \A r \in reqs' \ reqs :
            \/ same /\ (r = [kind |-> "refresh", view |-> tab.view] \/ r \in Marks(tab.view, "mark"))
            \/ r = List(tab)
        BY <1>7 DEF NewMessage, m
    <2>6. reqs' \subseteq Request \cup Answer \cup Marking
        BY <1>1, <2>4, <2>5, RequestTypes
    <2> QED BY <1>7, <2>2, <2>3, <2>6 DEF NewMessage, MessagesTypeOK
<1>8. CASE Reconnect
    <2>1. tab' \in Tab
        <3>1. CASE tab.view = None
            BY <1>1, <1>8, <3>1, TabTypes DEF Reconnect
        <3>2. CASE tab.view # None
            <4>1. tab' = Listing(Opened(tab, tab.view)) /\ Opened(tab, tab.view) \in Tab
                BY <1>1, <1>8, <3>2, TabTypes DEF Reconnect
            <4> QED BY <4>1, TabTypes
        <3> QED BY <3>1, <3>2
    <2>2. reqs' \subseteq Request \cup Answer \cup Marking
        BY <1>1, <1>8, RequestTypes DEF Reconnect
    <2> QED BY <1>8, <2>1, <2>2 DEF Reconnect, MessagesTypeOK
<1> QED BY <1>3, <1>4, <1>5, <1>6, <1>7, <1>8

\* Lost sockets and requests, and a restart.
LEMMA FaultType ==
    ASSUME MessagesTypeOK, Disconnect \/ RequestLost \/ Restart
    PROVE  MessagesTypeOK'
<1>1. faults' \in 0..MaxFaults
    BY MessagesAssumption DEF Disconnect, RequestLost, Restart, Fault, MessagesTypeOK
<1>2. <<>> \in Seq(Msgs)
    OBVIOUS
<1>3. CASE Disconnect
    BY <1>1, <1>2, <1>3 DEF Disconnect, MessagesTypeOK
<1>4. CASE RequestLost
    <2>1. tab \in Tab /\ Listing(tab) \in Tab /\ List(tab) \in Request
        BY TabTypes, RequestTypes DEF MessagesTypeOK
    <2>2. tab' \in Tab /\ reqs' \subseteq Request \cup Answer \cup Marking
        BY <1>4, <2>1 DEF RequestLost, MessagesTypeOK
    <2> QED BY <1>1, <1>4, <2>2 DEF RequestLost, MessagesTypeOK
<1>5. CASE Restart
    <2>1. flow' \in [Flows -> Locations]
        BY <1>5 DEF Restart, MessagesTypeOK, Locations, Sending
    <2> QED BY <1>1, <1>2, <1>5, <2>1 DEF Restart, MessagesTypeOK
<1> QED BY <1>3, <1>4, <1>5

-----------------------------------------------------------------------------
(* Rows                                                                    *)

\* Where the flow of a PENDING row may be.
Tied == Sending \cup {"left"}

\* What leaves the rows alone, and no send of a PENDING row as it would not have it, keeps
\* what is said of the rows.
LEMMA RowsFrame ==
    ASSUME RowsInv, UNCHANGED <<stored, status>>,
           \A o \in Outbound : flow[<<o, None>>] \in Tied => flow'[<<o, None>>] \in Tied
    PROVE  RowsInv'
BY DEF RowsInv, PendingIsWorkedOn, Tied

\* Every row is written by the flow of its message.
LEMMA RowsStep ==
    ASSUME MessagesTypeOK, RowsInv, Next
    PROVE  RowsInv'
<1>1. ASSUME NEW f \in Flows, UNCHANGED <<stored, status>>,
             \A g \in Flows : g # f => flow'[g] = flow[g],
             IsSend(f) /\ flow[f] \in Tied => flow'[f] \in Tied
      PROVE  RowsInv'
    <2>1. \A o \in Outbound : flow[<<o, None>>] \in Tied => flow'[<<o, None>>] \in Tied
        BY <1>1, FlowOf
    <2> QED BY <1>1, <2>1, RowsFrame
<1>2. CASE FlowStep
    <2> PICK f \in Flows : \/ Deliver(f) \/ UpsertRead(f) \/ UpsertWrite(f) \/ Insert(f)
                           \/ ProviderAnswers(f) \/ UpdateCollides(f) \/ UpdateStatus(f)
                           \/ QueryRejects(f) \/ Announce(f)
        BY <1>2 DEF FlowStep
    <2>1. M(f) \in Msgs
        BY FlowOf
    <2>2. \A g \in Flows : g # f => flow'[g] = flow[g]
        BY DEF MessagesTypeOK, Deliver, UpsertRead, UpsertWrite, Insert, ProviderAnswers,
               UpdateCollides, UpdateStatus, QueryRejects, Announce, Throws
    <2>3. CASE \/ Deliver(f) \/ UpsertRead(f) \/ UpsertWrite(f) \/ Announce(f)
               \/ Insert(f) /\ stored[M(f)] > 0
        <3>1. UNCHANGED <<stored, status>>
            BY <2>3 DEF Deliver, UpsertRead, UpsertWrite, Announce, Insert
        <3>2. flow[f] \in {"idle", "upsert", "none", "removed", "insert", "announce"}
            BY <2>3 DEF Deliver, UpsertRead, UpsertWrite, Announce, Insert
        <3> QED BY <1>1, <2>2, <3>1, <3>2 DEF Tied, Sending
    <2>4. CASE Insert(f) /\ ~(stored[M(f)] > 0)
        <3>1. /\ stored' = [stored EXCEPT ![M(f)] = 1]
              /\ status' = [status EXCEPT ![M(f)] = IF IsSend(f) THEN "PENDING" ELSE "DELIVERED"]
              /\ flow' = [flow EXCEPT ![f] = IF IsSend(f) THEN "send" ELSE "announce"]
            BY <2>4 DEF Insert
        <3>2. \A m \in Msgs : stored'[m] <= 1
            BY <2>1, <3>1 DEF RowsInv, MessagesTypeOK
        <3>3. ASSUME NEW o \in Outbound, status'[o] = "PENDING"
              PROVE  flow'[<<o, None>>] \in Tied
            <4>1. CASE o = M(f)
                <5>1. f = <<o, None>> /\ IsSend(f)
                    BY <4>1, FlowOf DEF IsSend
                <5> QED BY <3>1, <5>1 DEF MessagesTypeOK, Tied, Sending
            <4>2. CASE o # M(f)
                <5>1. <<o, None>> \in Flows /\ f # <<o, None>> /\ o \in Msgs
                    BY <4>2, FlowOf DEF Msgs
                <5>2. status[o] = "PENDING"
                    BY <2>1, <3>1, <3>3, <4>2, <5>1 DEF MessagesTypeOK
                <5> QED BY <2>2, <5>1, <5>2 DEF RowsInv, PendingIsWorkedOn, Tied
            <4> QED BY <4>1, <4>2
        <3> QED BY <3>2, <3>3 DEF RowsInv, PendingIsWorkedOn, Tied
    <2>5. CASE ProviderAnswers(f) \/ UpdateCollides(f)
        <3>1. UNCHANGED <<stored, status>> /\ flow'[f] \in Sending
            BY <2>5 DEF ProviderAnswers, UpdateCollides, MessagesTypeOK, Sending
        <3> QED BY <1>1, <2>2, <3>1 DEF Tied
    <2>6. CASE UpdateStatus(f)
        <3>1. PICK x \in {"SENT", "FAILED"} : status' = [status EXCEPT ![M(f)] = x]
            BY <2>6 DEF UpdateStatus
        <3>2. ASSUME NEW o \in Outbound, status'[o] = "PENDING"
              PROVE  flow'[<<o, None>>] \in Tied
            <4>1. o # M(f) /\ o \in Msgs /\ status[o] = "PENDING"
                BY <2>1, <3>1, <3>2 DEF MessagesTypeOK, Msgs
            <4>2. <<o, None>> \in Flows /\ f # <<o, None>>
                BY <4>1, FlowOf
            <4> QED BY <2>2, <4>1, <4>2 DEF RowsInv, PendingIsWorkedOn, Tied
        <3>3. stored' = stored
            BY <2>6 DEF UpdateStatus
        <3> QED BY <3>2, <3>3 DEF RowsInv, PendingIsWorkedOn, Tied
    <2>7. CASE QueryRejects(f)
        <3>1. UNCHANGED <<stored, status>>
            BY <2>7 DEF QueryRejects
        <3>2. flow'[f] = IF ~IsSend(f) THEN "idle"
                         ELSE IF flow[f] \in {"again", "failed"} THEN "left" ELSE "done"
            BY <2>7 DEF QueryRejects, Throws, MessagesTypeOK
        <3>3. flow[f] \in Tied => flow[f] \in {"again", "failed"}
            BY <2>7 DEF QueryRejects, Tied, Sending
        <3>4. IsSend(f) /\ flow[f] \in Tied => flow'[f] \in Tied
            BY <3>2, <3>3 DEF Tied
        <3> QED BY <1>1, <2>2, <3>1, <3>4
    <2> QED BY <2>3, <2>4, <2>5, <2>6, <2>7
<1>3. CASE \E o \in Outbound : Send(o)
    <2>1. PICK o \in Outbound : Send(o)
        BY <1>3
    <2>2. <<o, None>> \in Flows /\ flow[<<o, None>>] = "idle" /\ UNCHANGED <<stored, status>>
        BY <2>1, FlowOf DEF Send
    <2>3. \A g \in Flows : g # <<o, None>> => flow'[g] = flow[g]
        BY <2>1 DEF Send, MessagesTypeOK
    <2> QED BY <1>1, <2>2, <2>3 DEF Tied, Sending
<1>4. CASE Restart
    <2>1. UNCHANGED <<stored, status>>
        BY <1>4 DEF Restart
    <2>2. ASSUME NEW o \in Outbound, flow[<<o, None>>] \in Tied
          PROVE  flow'[<<o, None>>] \in Tied
        BY <1>4, <2>2, FlowOf DEF Restart, Tied, Sending
    <2> QED BY <2>1, <2>2, RowsFrame
<1>5. CASE \/ Serve \/ WriteMark \/ User \/ (\E m \in Msgs : RemoveMessage(m))
           \/ AnswerArrives \/ NewMessage \/ Reconnect \/ Disconnect \/ RequestLost
    <2>1. UNCHANGED <<stored, status, flow>>
        BY <1>5 DEF Serve, WriteMark, User, RemoveMessage, AnswerArrives, NewMessage, Reconnect,
                    Disconnect, RequestLost
    <2> QED BY <2>1, RowsFrame
<1> QED BY <1>2, <1>3, <1>4, <1>5 DEF Next

-----------------------------------------------------------------------------
(* The conversation a message brings back                                  *)

\* Where a flow stands in relation to its conversation.
FreshAt(f, c, l) == c = "shown" \/ l = "removed" \/ (l = "none" /\ c = "none")

\* A step of one flow that has its conversation, and no other flow's, as it needs it.
LEMMA FreshStep ==
    ASSUME MessagesTypeOK, FreshInv, Next
    PROVE  FreshInv'
<1>1. /\ \A f \in Flows : M(f) \in Msgs /\ T(f) \in Threads
      /\ fresh \subseteq Flows
      /\ \A f \in fresh : FreshAt(f, conv[T(f)], flow[f])
      /\ \A f \in fresh : IsSend(f) => flow[f] # "idle"
    BY FlowOf DEF FreshInv, FreshAt, T, MessagesTypeOK
<1>2. ASSUME fresh' \subseteq Flows,
             \A f \in fresh' : FreshAt(f, conv'[thread'[M(f)]], flow'[f]),
             \A f \in fresh' : IsSend(f) => flow'[f] # "idle"
      PROVE  FreshInv'
    BY <1>2 DEF FreshInv, FreshAt, T
<1>3. CASE FlowStep
    <2> PICK f \in Flows : \/ Deliver(f) \/ UpsertRead(f) \/ UpsertWrite(f) \/ Insert(f)
                           \/ ProviderAnswers(f) \/ UpdateCollides(f) \/ UpdateStatus(f)
                           \/ QueryRejects(f) \/ Announce(f)
        BY <1>3 DEF FlowStep
    <2>1. /\ thread' = thread /\ fresh' \subseteq fresh \cup {f}
          /\ \A g \in Flows : g # f => flow'[g] = flow[g]
        BY DEF MessagesTypeOK, Deliver, UpsertRead, UpsertWrite, Insert, ProviderAnswers,
               UpdateCollides, UpdateStatus, QueryRejects, Announce, Throws
    <2>2. \/ conv' = conv
          \/ conv' = [conv EXCEPT ![T(f)] = "shown"]
        BY DEF Deliver, UpsertRead, UpsertWrite, Insert, ProviderAnswers, UpdateCollides,
               UpdateStatus, QueryRejects, Announce
    <2>3. \A t \in Threads : conv'[t] = conv[t] \/ (conv'[t] = "shown" /\ t = T(f))
        BY <1>1, <2>2 DEF MessagesTypeOK
    <2>4. ASSUME NEW g \in fresh', g # f
          PROVE  FreshAt(g, conv'[thread'[M(g)]], flow'[g]) /\ (IsSend(g) => flow'[g] # "idle")
        <3>1. g \in fresh /\ g \in Flows /\ flow'[g] = flow[g]
            BY <1>1, <2>1, <2>4
        <3>2. conv'[T(g)] = conv[T(g)] \/ conv'[T(g)] = "shown"
            BY <1>1, <2>3, <3>1
        <3> QED BY <1>1, <2>1, <3>1, <3>2 DEF FreshAt, T
    <2>5. flow[f] \in Locations /\ conv[T(f)] \in {"none", "shown", "removed"}
        BY <1>1 DEF MessagesTypeOK
    <2>6. ASSUME f \in fresh'
          PROVE  FreshAt(f, conv'[T(f)], flow'[f]) /\ (IsSend(f) => flow'[f] # "idle")
        <3>1. CASE \/ Deliver(f) \/ ProviderAnswers(f) \/ UpdateCollides(f) \/ UpdateStatus(f)
                   \/ Announce(f)
            <4>1. f \in fresh /\ conv' = conv /\ flow'[f] # "idle"
                  /\ flow[f] \in {"idle", "announce"} \cup Sending
                BY <2>6, <3>1 DEF Deliver, ProviderAnswers, UpdateCollides, UpdateStatus,
                                  Announce, MessagesTypeOK, Sending
            <4>2. conv[T(f)] = "shown"
                BY <1>1, <4>1 DEF FreshAt, Sending
            <4> QED BY <4>1, <4>2 DEF FreshAt
        <3>2. CASE UpsertRead(f)
            BY <2>5, <3>2 DEF UpsertRead, MessagesTypeOK, FreshAt
        <3>3. CASE UpsertWrite(f) /\ flow[f] = "none" /\ conv[T(f)] # "none"
            <4>1. f \in fresh /\ conv' = conv /\ Throws(f)
                BY <2>6, <3>3 DEF UpsertWrite
            <4>2. conv[T(f)] = "shown"
                BY <1>1, <3>3, <4>1 DEF FreshAt
            <4>3. IsSend(f) => flow'[f] # "idle"
                BY <4>1 DEF Throws, MessagesTypeOK
            <4> QED BY <4>1, <4>2, <4>3 DEF FreshAt
        <3>4. CASE UpsertWrite(f) /\ ~(flow[f] = "none" /\ conv[T(f)] # "none")
            <4>1. conv'[T(f)] = "shown" /\ flow'[f] = "insert"
                BY <1>1, <3>4 DEF UpsertWrite, MessagesTypeOK
            <4> QED BY <4>1 DEF FreshAt
        <3>5. CASE Insert(f)
            <4>1. f \in fresh /\ conv' = conv /\ flow[f] = "insert"
                BY <2>6, <3>5 DEF Insert
            <4>2. conv[T(f)] = "shown"
                BY <1>1, <4>1 DEF FreshAt
            <4>3. IsSend(f) => flow'[f] \in {"done", "send"}
                BY <3>5 DEF Insert, Throws, MessagesTypeOK
            <4> QED BY <4>1, <4>2, <4>3 DEF FreshAt
        <3>6. CASE QueryRejects(f)
            <4>1. /\ f \in fresh /\ conv' = conv
                  /\ flow[f] \in {"insert", "again", "failed", "announce"}
                BY <2>6, <3>6 DEF QueryRejects
            <4>2. conv[T(f)] = "shown"
                BY <1>1, <4>1 DEF FreshAt
            <4>3. IsSend(f) => flow'[f] \in {"done", "left"}
                BY <3>6 DEF QueryRejects, Throws, MessagesTypeOK
            <4> QED BY <4>1, <4>2, <4>3 DEF FreshAt
        <3> QED BY <3>1, <3>2, <3>3, <3>4, <3>5, <3>6
    <2>7. fresh' \subseteq Flows
        BY <1>1, <2>1
    <2> QED BY <1>2, <2>1, <2>4, <2>6, <2>7 DEF T
<1>4. CASE Serve
    <2> PICK r \in reqs \cap Request :
            AnswerList(r) \/ AnswerThread(r) \/ BeginMark(r) \/ AnswerDelete(r)
        BY <1>4 DEF Serve
    <2>1. thread' = thread /\ flow' = flow
        BY <1>4 DEF Serve
    <2>2. CASE ~AnswerDelete(r)
        BY <1>1, <1>2, <2>1, <2>2 DEF AnswerList, AnswerThread, BeginMark, T
    <2>3. CASE AnswerDelete(r)
        <3>1. /\ conv' = [conv EXCEPT ![r.view] = IF @ = "none" THEN "none" ELSE "removed"]
              /\ fresh' = fresh \ {f \in Flows : T(f) = r.view}
            BY <2>3 DEF AnswerDelete
        <3>2. ASSUME NEW f \in fresh'
              PROVE  f \in fresh /\ conv'[T(f)] = conv[T(f)]
            BY <1>1, <3>1 DEF MessagesTypeOK
        <3> QED BY <1>1, <1>2, <2>1, <3>1, <3>2 DEF T
    <2> QED BY <2>2, <2>3
<1>5. CASE \E o \in Outbound : Send(o)
    <2>1. PICK o \in Outbound : Send(o)
        BY <1>5
    <2>2. /\ <<o, None>> \in Flows /\ IsSend(<<o, None>>) /\ flow[<<o, None>>] = "idle"
          /\ fresh' = fresh /\ conv' = conv
          /\ flow' = [flow EXCEPT ![<<o, None>>] = "upsert"]
        BY <2>1, FlowOf DEF Send
    <2>3. <<o, None>> \notin fresh
        BY <1>1, <2>2
    <2>4. ASSUME NEW f \in fresh
          PROVE  M(f) # o /\ flow'[f] = flow[f] /\ thread'[M(f)] = thread[M(f)]
        <3>1. M(f) # o
            BY <1>1, <2>3, FlowOf DEF IsSend
        <3> QED BY <1>1, <2>1, <2>2, <2>3, <3>1 DEF Send, MessagesTypeOK
    <2> QED BY <1>1, <1>2, <2>2, <2>4 DEF T
<1>6. CASE Restart
    <2>1. fresh' = {f \in fresh : flow[f] = "done"} /\ conv' = conv /\ thread' = thread
        BY <1>6 DEF Restart
    <2>2. ASSUME NEW f \in fresh'
          PROVE  flow'[f] = "done" /\ conv[T(f)] = "shown"
        BY <1>1, <1>6, <2>1 DEF Restart, FreshAt
    <2> QED BY <1>1, <1>2, <2>1, <2>2 DEF FreshAt, T
<1>7. CASE \/ WriteMark \/ User \/ (\E m \in Msgs : RemoveMessage(m))
           \/ AnswerArrives \/ NewMessage \/ Reconnect \/ Disconnect \/ RequestLost
    <2>1. UNCHANGED <<conv, thread, fresh, flow>>
        BY <1>7 DEF WriteMark, User, RemoveMessage, AnswerArrives, NewMessage, Reconnect,
                    Disconnect, RequestLost
    <2> QED BY <1>1, <1>2, <2>1 DEF T
<1> QED BY <1>3, <1>4, <1>5, <1>6, <1>7 DEF Next

-----------------------------------------------------------------------------
(* One submission at a time                                                *)

\* A step that takes no send away and asks for none, answers none, leaves the
\* composer alone and starts no flow of a send.
LEMMA SendFrame ==
    ASSUME MessagesTypeOK, SendInv,
           \A r \in reqs' \ reqs : /\ r \in Request => r.kind # "send"
                                   /\ r \in Answer => r.to.kind # "send",
           \A o \in Asked : SendRequest(o) \in reqs',
           tab'.sending = tab.sending,
           \A o \in Outbound : flow'[<<o, None>>] \notin Over => flow[<<o, None>>] \notin Over
    PROVE  SendInv'
<1>1. Asked' = Asked
    <2>1. \A o \in Outbound : SendRequest(o) \in reqs' => SendRequest(o) \in reqs
        BY SendRequests
    <2>2. \A o \in Outbound : SendRequest(o) \in reqs' <=> SendRequest(o) \in reqs
        BY <2>1 DEF Asked
    <2> QED BY <2>2 DEF Asked
<1>2. Settled' \subseteq Settled
    BY DEF Settled
<1> QED BY <1>1, <1>2 DEF SendInv

\* The flow of a send ends with the answer to the tab.
LEMMA SettleStep ==
    ASSUME MessagesTypeOK, SendInv, NEW f \in Flows, IsSend(f), flow[f] \notin Over,
           NEW a \in Answer, a.to = SendRequest(M(f)),
           reqs' = (reqs \ {SendRequest(M(f))}) \cup {a},
           NEW l \in {"done", "left"}, flow' = [flow EXCEPT ![f] = l],
           tab' = tab
    PROVE  SendInv'
<1>1. M(f) \in Outbound /\ f = <<M(f), None>>
    BY FlowOf DEF IsSend
<1>2. M(f) \in Asked
    BY <1>1 DEF SendInv
<1>3. Asked = {M(f)} /\ Settled = {} /\ tab.sending
    BY <1>2 DEF SendInv
<1>4. a \notin Request
    BY RequestsApart
<1>5. Asked' = {}
    <2>1. \A o \in Outbound : SendRequest(o) \notin reqs'
        <3>1. \A o \in Outbound : SendRequest(o) \in reqs => o = M(f)
            BY <1>3 DEF Asked
        <3>2. \A o \in Outbound : SendRequest(o) # a
            BY <1>4, SendRequests
        <3> QED BY <3>1, <3>2
    <2> QED BY <2>1 DEF Asked
<1>6. Settled' \subseteq {a}
    <2>1. \A b \in reqs \cap Answer : b.to.kind # "send"
        BY <1>3 DEF Settled
    <2> QED BY <2>1 DEF Settled
<1>7. \A o \in Outbound : flow'[<<o, None>>] \notin Over => FALSE
    <2> SUFFICES ASSUME NEW o \in Outbound, flow'[<<o, None>>] \notin Over
                 PROVE  FALSE
        OBVIOUS
    <2>1. <<o, None>> \in Flows
        BY FlowOf
    <2>2. CASE <<o, None>> = f
        BY <2>1, <2>2 DEF MessagesTypeOK, Over
    <2>3. CASE <<o, None>> # f
        <3>1. o # M(f)
            BY <1>1, <2>3
        <3>2. flow[<<o, None>>] \notin Over
            BY <2>1, <2>3 DEF MessagesTypeOK
        <3> QED BY <1>3, <3>1, <3>2 DEF SendInv
    <2> QED BY <2>2, <2>3
<1> QED BY <1>3, <1>5, <1>6, <1>7 DEF SendInv

\* The continuations, but that of a send, leave the composer alone.
LEMMA ComposerKept ==
    ASSUME tab \in Tab
    PROVE  /\ \A a \in Answer : a.to.kind # "send" => After(a).sending = tab.sending
           /\ \A a \in Answer : a.to.kind = "send" => After(a).sending = FALSE
           /\ Listing(tab).sending = tab.sending /\ Closed(tab).sending = tab.sending
           /\ \A v \in Views : Opened(tab, v).sending = tab.sending
<1>1. Listing(tab).sending = tab.sending /\ Closed(tab).sending = tab.sending
    BY DEF Listing, Closed, Tab
<1>2. \A v \in Views : Opened(tab, v).sending = tab.sending
    BY DEF Opened, Tab
<1>3. ASSUME NEW a \in Answer, a.to.kind = "send"
      PROVE  After(a).sending = FALSE
    BY <1>3 DEF After, Tab
<1>4. ASSUME NEW a \in Answer, a.to.kind # "send"
      PROVE  After(a).sending = tab.sending
    <2>1. a.to.kind \in {"list", "open", "refresh", "mark", "read", "delete"}
        BY <1>4 DEF Answer, Request
    <2>2. CASE a.to.kind = "list"
        BY <2>2 DEF After, Tab
    <2>3. CASE a.to.kind = "open"
        <3> DEFINE sh == IF a.ok THEN a.rows ELSE tab.shown
                   so == IF a.ok THEN IF a.to.view.own # None THEN a.to.view.own ELSE First
                                 ELSE tab.source
        <3>1. After(a) = [tab EXCEPT !.loading = FALSE, !.shown = sh, !.source = so]
            BY <2>3 DEF After
        <3> HIDE DEF sh, so
        <3> QED BY <3>1 DEF Tab
    <2>4. CASE a.to.kind = "refresh"
        BY <2>4 DEF After, Tab
    <2>5. CASE a.to.kind = "mark"
        BY <1>1, <2>5 DEF After
    <2>6. CASE a.to.kind = "read"
        BY <2>6 DEF After
    <2>7. CASE a.to.kind = "delete"
        <3>1. Closed(tab) \in Tab
            BY TabTypes
        <3>2. [Closed(tab) EXCEPT !.listed = @ \ {a.to.view}].sending = Closed(tab).sending
            BY <3>1 DEF Tab
        <3> QED BY <1>1, <2>7, <3>2 DEF After
    <2> QED BY <2>1, <2>2, <2>3, <2>4, <2>5, <2>6, <2>7
<1> QED BY <1>1, <1>2, <1>3, <1>4

\* The flows: only the answer and the error take the request of a send away.
LEMMA SendFlows ==
    ASSUME MessagesTypeOK, SendInv, FlowStep
    PROVE  SendInv'
<1> PICK f \in Flows : \/ Deliver(f) \/ UpsertRead(f) \/ UpsertWrite(f) \/ Insert(f)
                       \/ ProviderAnswers(f) \/ UpdateCollides(f) \/ UpdateStatus(f)
                       \/ QueryRejects(f) \/ Announce(f)
    BY DEF FlowStep
<1>1. M(f) \in Msgs /\ tab' = tab
    BY FlowOf DEF Deliver, UpsertRead, UpsertWrite, Insert, ProviderAnswers, UpdateCollides,
                  UpdateStatus, QueryRejects, Announce
<1>2. \A g \in Flows : g # f => flow'[g] = flow[g]
    BY DEF MessagesTypeOK, Deliver, UpsertRead, UpsertWrite, Insert, ProviderAnswers,
           UpdateCollides, UpdateStatus, QueryRejects, Announce, Throws
<1>3. CASE reqs' = reqs /\ (IsSend(f) => flow[f] \notin Over)
    <2>1. ASSUME NEW o \in Outbound, flow'[<<o, None>>] \notin Over
          PROVE  flow[<<o, None>>] \notin Over
        <3>1. <<o, None>> \in Flows /\ IsSend(<<o, None>>)
            BY FlowOf
        <3> QED BY <1>2, <1>3, <2>1, <3>1
    <2> QED BY <1>1, <1>3, <2>1, SendFrame DEF Asked
<1>4. CASE Throws(f) /\ IsSend(f) /\ flow[f] \notin Over
    <2>1. M(f) \in Outbound
        BY <1>4 DEF IsSend
    <2>2. SendRequest(M(f)) \in Request
        BY <2>1, SendRequests
    <2> DEFINE a == Answered(SendRequest(M(f)), FALSE, {}, {})
    <2>3. a \in Answer /\ a.to = SendRequest(M(f))
        BY <2>2, AnsweredType
    <2>4. reqs' = (reqs \ {SendRequest(M(f))}) \cup {a}
        BY <1>4 DEF Throws, Reply
    <2>5. PICK l \in {"done", "left"} : flow' = [flow EXCEPT ![f] = l]
        BY <1>4 DEF Throws
    <2> HIDE DEF a
    <2> QED BY <1>1, <1>4, <2>3, <2>4, <2>5, SettleStep
<1>5. CASE Announce(f) /\ IsSend(f)
    <2>1. M(f) \in Outbound
        BY <1>5 DEF IsSend
    <2>2. SendRequest(M(f)) \in Request
        BY <2>1, SendRequests
    <2> DEFINE a == Answered(SendRequest(M(f)), TRUE, {M(f)}, {})
    <2>3. a \in Answer /\ a.to = SendRequest(M(f))
        BY <1>1, <2>2, AnsweredType
    <2>4. /\ reqs' = (reqs \ {SendRequest(M(f))}) \cup {a}
          /\ flow' = [flow EXCEPT ![f] = "done"]
          /\ flow[f] = "announce"
        BY <1>5 DEF Announce, Reply
    <2> HIDE DEF a
    <2>5. flow[f] \notin Over
        BY <2>4 DEF Over
    <2> QED BY <1>1, <1>5, <2>3, <2>4, <2>5, SettleStep
<1>7. CASE IsSend(f)
    <2>1. ~Deliver(f) /\ flow[f] \notin Over
        BY <1>7 DEF Deliver, UpsertRead, UpsertWrite, Insert, ProviderAnswers, UpdateCollides,
                    UpdateStatus, QueryRejects, Announce, Over
    <2>2. reqs' = reqs \/ Throws(f) \/ Announce(f)
        BY <2>1 DEF UpsertRead, UpsertWrite, Insert, ProviderAnswers, UpdateCollides,
                    UpdateStatus, QueryRejects
    <2> QED BY <1>3, <1>4, <1>5, <1>7, <2>1, <2>2
<1>8. CASE ~IsSend(f)
    BY <1>3, <1>8
       DEF Deliver, UpsertRead, UpsertWrite, Insert, ProviderAnswers, UpdateCollides,
           UpdateStatus, QueryRejects, Announce, Throws
<1> QED BY <1>7, <1>8

\* The routes answer everything but a send.
LEMMA SendRoutes ==
    ASSUME MessagesTypeOK, SendInv, Serve \/ WriteMark
    PROVE  SendInv'
<1>1. UNCHANGED <<tab, flow>>
    BY DEF Serve, WriteMark
<1>2. CASE Serve
    <2> PICK r \in reqs \cap Request :
            AnswerList(r) \/ AnswerThread(r) \/ BeginMark(r) \/ AnswerDelete(r)
        BY <1>2 DEF Serve
    <2>1. r.kind # "send" /\ \A o \in Outbound : SendRequest(o) # r
        BY SendRequests DEF AnswerList, AnswerThread, BeginMark, AnswerDelete
    <2>2. PICK x : x.to = r /\ x \notin Request /\ reqs' = (reqs \ {r}) \cup {x}
        <3>1. CASE BeginMark(r)
            <4> DEFINE cut == {m \in Inbound : /\ thread[m] = r.view
                                               /\ \E d \in Deliveries : flow[<<m, d>>] # "idle"}
            <4>1. reqs' = (reqs \ {r}) \cup {[to |-> r, cut |-> cut]} /\ cut \subseteq Inbound
                BY <3>1 DEF BeginMark
            <4> HIDE DEF cut
            <4>2. [to |-> r, cut |-> cut] \in Marking /\ [to |-> r, cut |-> cut].to = r
                BY <3>1, <4>1, MarkRequests DEF BeginMark, Marking
            <4> QED BY <4>1, <4>2, RequestsApart
        <3>2. CASE ~BeginMark(r)
            <4>1. PICK rows \in SUBSET Msgs, threads \in SUBSET Threads :
                      reqs' = (reqs \ {r}) \cup {Answered(r, TRUE, rows, threads)}
                <5>1. Rows(r.view) \in SUBSET Msgs
                    BY DEF Rows
                <5>2. {t \in Threads : conv[t] = "shown" /\ r.own \in {None, t.own}}
                         \in SUBSET Threads
                    OBVIOUS
                <5>3. {} \in SUBSET Msgs /\ {} \in SUBSET Threads
                    OBVIOUS
                <5>4. CASE AnswerList(r)
                    BY <5>2, <5>3, <5>4 DEF AnswerList, Reply
                <5>5. CASE AnswerThread(r)
                    BY <5>1, <5>3, <5>5 DEF AnswerThread, Reply
                <5>6. CASE AnswerDelete(r)
                    BY <5>3, <5>6 DEF AnswerDelete, Reply
                <5> QED BY <3>2, <5>4, <5>5, <5>6
            <4>2. Answered(r, TRUE, rows, threads) \in Answer
                  /\ Answered(r, TRUE, rows, threads).to = r
                BY AnsweredType
            <4> QED BY <4>1, <4>2, RequestsApart
        <3> QED BY <3>1, <3>2
    <2>3. \A o \in Asked : SendRequest(o) \in reqs'
        BY <2>1, <2>2 DEF Asked
    <2> QED BY <1>1, <2>1, <2>2, <2>3, SendFrame
<1>3. CASE WriteMark
    <2> PICK q \in reqs \cap Marking :
            reqs' = (reqs \ {q}) \cup {Answered(q.to, TRUE, {}, {})}
        BY <1>3 DEF WriteMark
    <2>1. q.to \in Request /\ q.to.kind # "send"
        BY DEF Marking, Request
    <2> DEFINE a == Answered(q.to, TRUE, {}, {})
    <2>2. a \in Answer /\ a.to = q.to /\ a \notin Request
        BY <2>1, AnsweredType, RequestsApart
    <2> HIDE DEF a
    <2>3. reqs' = (reqs \ {q}) \cup {a}
        BY DEF a
    <2>4. \A o \in Asked : SendRequest(o) \in reqs'
        BY <2>3, SendRequests, RequestsApart DEF Asked
    <2> QED BY <1>1, <2>1, <2>2, <2>3, <2>4, SendFrame
<1> QED BY <1>2, <1>3

\* A request the user or an event makes is not a send, and no view but the composer's
\* own submission disables it.
LEMMA SendView ==
    ASSUME MessagesTypeOK, SendInv,
           User \/ (\E m \in Msgs : RemoveMessage(m)) \/ NewMessage \/ Reconnect
    PROVE  SendInv'
<1>1. /\ tab \in Tab /\ flow' = flow /\ reqs \subseteq reqs'
      /\ tab.view # None => tab.view \in Views
    BY DEF MessagesTypeOK, Tab, User, Open, Back, StartConversation, DeleteConfirm, FilterChange,
           RemoveMessage, NewMessage, Reconnect
<1>2. ASSUME tab'.sending = tab.sending,
             \A r \in reqs' \ reqs : r \in Request /\ r.kind # "send"
      PROVE  SendInv'
    <2>1. \A o \in Asked : SendRequest(o) \in reqs'
        BY <1>1 DEF Asked
    <2> QED BY <1>1, <1>2, <2>1, SendFrame, RequestsApart
<1>3. List(tab) \in Request /\ List(tab).kind # "send"
    BY <1>1, RequestTypes, NoSendAmong
<1>4. CASE User
    <2>1. ASSUME NEW t \in tab.listed, Open(t)
          PROVE  SendInv'
        <3>1. t \in Views
            BY <1>1 DEF Tab, Threads, Views
        <3>2. /\ Opened(tab, t).sending = tab.sending
              /\ OpenRequests(t) \subseteq Request /\ \A r \in OpenRequests(t) : r.kind # "send"
            BY <1>1, <3>1, ComposerKept, RequestTypes, NoSendAmong
        <3> QED BY <1>2, <2>1, <3>2 DEF Open
    <2>2. CASE Back
        BY <1>1, <1>2, <2>2, ComposerKept DEF Back
    <2>3. ASSUME NEW p \in Peers, NEW o \in Owns, StartConversation(p, o)
          PROVE  SendInv'
        <3>1. tab'.sending = tab.sending /\ reqs' = reqs
            BY <1>1, <2>3 DEF StartConversation, Tab
        <3> QED BY <1>2, <3>1
    <2>4. CASE DeleteConfirm
        <3> DEFINE d == [kind |-> "delete", view |-> tab.view]
        <3>1. d \in Request /\ d.kind # "send"
            BY <1>1, <2>4, RequestTypes DEF DeleteConfirm
        <3>2. reqs' = reqs \cup {d} /\ tab' = tab
            BY <2>4 DEF DeleteConfirm
        <3> HIDE DEF d
        <3> QED BY <1>2, <3>1, <3>2
    <2>5. ASSUME NEW o \in Owns \cup {None}, FilterChange(o)
          PROVE  SendInv'
        <3>1. tab' = Listing([tab EXCEPT !.filter = o])
            BY <2>5 DEF FilterChange
        <3>2. tab'.sending = tab.sending /\ tab' \in Tab
            BY <1>1, <3>1 DEF Listing, Tab
        <3>3. List(tab') \in Request /\ List(tab').kind # "send"
            BY <3>2, RequestTypes, NoSendAmong
        <3> QED BY <1>2, <2>5, <3>2, <3>3 DEF FilterChange
    <2> QED BY <1>4, <2>1, <2>2, <2>3, <2>4, <2>5 DEF User
<1>5. CASE \E m \in Msgs : RemoveMessage(m)
    BY <1>2, <1>5 DEF RemoveMessage
<1>6. CASE NewMessage
    <2> DEFINE m == Head(inbox)
               same == tab.view = thread[m]
               f == [kind |-> "refresh", view |-> tab.view]
    <2>1. m \in Msgs
        BY <1>6 DEF NewMessage, MessagesTypeOK
    <2>2. same => tab.view \in Views
        BY <2>1 DEF MessagesTypeOK, Threads, Views
    <2>3. tab'.sending = tab.sending
        BY <1>1, <1>6, ComposerKept DEF NewMessage
    <2> HIDE DEF m
    <2>4. \A r \in reqs' \ reqs :
            \/ same /\ (r = f \/ r \in Marks(tab.view, "mark"))
            \/ r = List(tab)
        BY <1>6 DEF NewMessage, m
    <2>5. same => /\ f \in Request /\ f.kind # "send"
                  /\ Marks(tab.view, "mark") \subseteq Request
                  /\ \A r \in Marks(tab.view, "mark") : r.kind # "send"
        BY <2>2, RequestTypes, NoSendAmong
    <2> HIDE DEF same, f
    <2> QED BY <1>2, <1>3, <2>3, <2>4, <2>5
<1>7. CASE Reconnect
    <2>1. CASE tab.view = None
        BY <1>1, <1>2, <1>3, <1>7, <2>1, ComposerKept DEF Reconnect
    <2>2. CASE tab.view # None
        <3> DEFINE t == Opened(tab, tab.view)
        <3>1. t \in Tab /\ t.sending = tab.sending
            BY <1>1, <2>2, TabTypes, ComposerKept
        <3>2. tab' = Listing(t)
            BY <1>7, <2>2 DEF Reconnect
        <3> HIDE DEF t
        <3>3. tab'.sending = tab.sending
            BY <3>1, <3>2 DEF Listing, Tab
        <3>4. /\ OpenRequests(tab.view) \subseteq Request
              /\ \A r \in OpenRequests(tab.view) : r.kind # "send"
            BY <1>1, <2>2, RequestTypes, NoSendAmong
        <3>5. reqs' = reqs \cup {List(tab)} \cup OpenRequests(tab.view)
            BY <1>7, <2>2 DEF Reconnect
        <3> QED BY <1>2, <1>3, <3>3, <3>4, <3>5
    <2> QED BY <2>1, <2>2
<1> QED BY <1>4, <1>5, <1>6, <1>7

\* The composer is enabled only when nothing is asked for, and by the one answer.
LEMMA SendAnswers ==
    ASSUME MessagesTypeOK, SendInv, (\E o \in Outbound : Send(o)) \/ AnswerArrives
    PROVE  SendInv'
<1>1. CASE \E o \in Outbound : Send(o)
    <2>1. PICK o \in Outbound : Send(o)
        BY <1>1
    <2>2. Asked = {} /\ Settled = {}
        BY <2>1 DEF Send, SendInv
    <2>3. reqs' = reqs \cup {SendRequest(o)} /\ SendRequest(o) \in Request
        BY <2>1, SendRequests DEF Send
    <2>4. Asked' = {o}
        <3>1. \A p \in Outbound : SendRequest(p) \in reqs' <=> p = o
            BY <2>2, <2>3, SendRequests DEF Asked
        <3> QED BY <3>1 DEF Asked
    <2>5. Settled' = {}
        <3>1. reqs' \cap Answer = reqs \cap Answer
            BY <2>3, RequestsApart
        <3> QED BY <2>2, <3>1 DEF Settled
    <2>6. tab'.sending
        BY <2>1 DEF Send, MessagesTypeOK, Tab
    <2>7. ASSUME NEW p \in Outbound, flow'[<<p, None>>] \notin Over
          PROVE  p = o
        <3>1. <<p, None>> \in Flows
            BY FlowOf
        <3>2. CASE p # o
            <4>1. flow'[<<p, None>>] = flow[<<p, None>>]
                BY <2>1, <3>1, <3>2 DEF Send, MessagesTypeOK
            <4> QED BY <2>2, <2>7, <4>1 DEF SendInv
        <3> QED BY <3>2
    <2> QED BY <2>4, <2>5, <2>6, <2>7 DEF SendInv
<1>2. CASE AnswerArrives
    <2>1. PICK a \in reqs \cap Answer :
              /\ tab' = After(a)
              /\ reqs' = (reqs \ {a}) \cup IF a.to.kind = "mark" THEN {List(tab)} ELSE {}
        BY <1>2 DEF AnswerArrives
    <2>2. flow' = flow /\ tab \in Tab /\ List(tab) \in Request /\ List(tab).kind # "send"
        BY <1>2, RequestTypes, NoSendAmong DEF AnswerArrives, MessagesTypeOK
    <2>3. a \notin Request /\ List(tab) \notin Answer
        BY <2>2, RequestsApart
    <2>4. CASE a.to.kind # "send"
        <3>1. tab'.sending = tab.sending
            BY <2>1, <2>2, <2>4, ComposerKept
        <3>2. \A o \in Asked : SendRequest(o) \in reqs'
            BY <2>1, <2>3, SendRequests DEF Asked
        <3>3. \A r \in reqs' \ reqs : r = List(tab)
            BY <2>1
        <3> QED BY <2>2, <2>3, <3>1, <3>2, <3>3, SendFrame
    <2>5. CASE a.to.kind = "send"
        <3>1. a \in Settled
            BY <2>5 DEF Settled
        <3>2. Asked = {} /\ \A b \in Settled : b = a
            BY <3>1 DEF SendInv
        <3>3. reqs' = reqs \ {a}
            BY <2>1, <2>5
        <3>4. Asked' = {} /\ Settled' = {}
            BY <3>2, <3>3 DEF Asked, Settled
        <3> QED BY <2>2, <3>2, <3>4 DEF SendInv
    <2> QED BY <2>4, <2>5
<1> QED BY <1>1, <1>2

\* A lost socket or answer, and the restart that takes every request away.
LEMMA SendFaults ==
    ASSUME MessagesTypeOK, SendInv, Disconnect \/ RequestLost \/ Restart
    PROVE  SendInv'
<1>1. CASE Disconnect
    BY <1>1, SendFrame DEF Disconnect, Asked
<1>2. CASE RequestLost
    <2> DEFINE r(q) == IF q \in Answer THEN q.to ELSE q
    <2>1. PICK q \in reqs \cap (Request \cup Answer) :
              /\ q \in Request => r(q).kind # "send"
              /\ reqs' = (reqs \ {q}) \cup IF r(q).kind = "mark" THEN {List(tab)} ELSE {}
              /\ tab' = IF r(q).kind = "mark" THEN Listing(tab) ELSE tab
        BY <1>2 DEF RequestLost
    <2>2. q \in Request => q \notin Answer /\ q.kind # "send"
        BY <2>1, RequestsApart
    <2>3. \A o \in Asked : SendRequest(o) \in reqs'
        BY <2>1, <2>2, SendRequests DEF Asked
    <2>4. tab'.sending = tab.sending
        BY <2>1, ComposerKept DEF MessagesTypeOK
    <2>5. List(tab) \in Request /\ List(tab).kind # "send" /\ List(tab) \notin Answer
        BY RequestTypes, NoSendAmong, RequestsApart DEF MessagesTypeOK
    <2>6. \A x \in reqs' \ reqs : x = List(tab)
        BY <2>1
    <2>7. flow' = flow
        BY <1>2 DEF RequestLost
    <2> QED BY <2>3, <2>4, <2>5, <2>6, <2>7, SendFrame
<1>3. CASE Restart
    <2>1. reqs' = {}
        BY <1>3 DEF Restart
    <2>2. Asked' = {} /\ Settled' = {}
        BY <2>1 DEF Asked, Settled
    <2>3. \A o \in Outbound : flow'[<<o, None>>] \in Over
        BY <1>3, FlowOf DEF Restart, Over
    <2> QED BY <2>2, <2>3 DEF SendInv
<1> QED BY <1>1, <1>2, <1>3

-----------------------------------------------------------------------------
(* The invariant and what follows from it                                  *)

\* Empty tables, and a tab that shows a thread or none.
LEMMA MessagesInit == Init => MessagesInv
<1> SUFFICES ASSUME Init
             PROVE  MessagesInv
    OBVIOUS
<1>1. /\ conv \in [Threads -> {"none", "shown", "removed"}]
      /\ thread \in [Msgs -> Threads]
      /\ stored \in [Msgs -> 0..2]
      /\ status \in [Msgs -> {"none", "PENDING", "SENT", "FAILED", "DELIVERED"}]
      /\ read \in [Threads -> SUBSET Inbound]
      /\ flow \in [Flows -> Locations]
    BY DEF Init, Locations, Sending
<1>2. tab \in Tab
    <2>1. Threads \subseteq Views
        BY DEF Threads, Views
    <2>2. PICK v \in Threads \cup {None} :
              tab = [view |-> v, shown |-> {}, loading |-> FALSE, sending |-> FALSE,
                     listed |-> {}, listing |-> FALSE, filter |-> None, source |-> First]
        BY DEF Init
    <2>3. v \in Views \cup {None} /\ First \in Owns
        BY <2>1, FirstType
    <2> QED BY <2>2, <2>3 DEF Tab
<1>3. acts \in 0..MaxActs /\ faults \in 0..MaxFaults
    BY MessagesAssumption DEF Init
<1>4. inbox \in Seq(Msgs) /\ hidden = {} /\ fresh = {} /\ reqs = {} /\ ws = "up"
    BY DEF Init
<1>5. MessagesTypeOK
    BY <1>1, <1>2, <1>3, <1>4 DEF MessagesTypeOK
<1>6. RowsInv
    BY DEF Init, RowsInv, PendingIsWorkedOn, Msgs
<1>7. FreshInv
    BY <1>4 DEF FreshInv
<1>8. SendInv
    <2>1. Asked = {} /\ Settled = {}
        BY <1>4 DEF Asked, Settled
    <2>2. \A o \in Outbound : flow[<<o, None>>] = "idle"
        BY FlowOf DEF Init
    <2> QED BY <2>1, <2>2 DEF SendInv, Over
<1> QED BY <1>5, <1>6, <1>7, <1>8 DEF MessagesInv

\* Each operation keeps the invariant.
LEMMA MessagesStep == MessagesInv /\ [Next]_vars => MessagesInv'
<1> SUFFICES ASSUME MessagesInv, [Next]_vars
             PROVE  MessagesInv'
    OBVIOUS
<1>1. CASE Next
    <2>1. MessagesTypeOK'
        BY <1>1, FlowType, RoutesType, ViewType, FaultType DEF MessagesInv, Next
    <2>2. SendInv'
        BY <1>1, SendFlows, SendRoutes, SendView, SendAnswers, SendFaults DEF MessagesInv, Next
    <2> QED BY <1>1, <2>1, <2>2, RowsStep, FreshStep DEF MessagesInv
<1>2. CASE UNCHANGED vars
    <2>1. MessagesTypeOK'
        BY <1>2 DEF MessagesInv, MessagesTypeOK, vars
    <2>2. RowsInv'
        BY <1>2 DEF MessagesInv, RowsInv, PendingIsWorkedOn, vars
    <2>3. FreshInv'
        BY <1>2 DEF MessagesInv, FreshInv, T, vars
    <2>4. SendInv'
        BY <1>2 DEF MessagesInv, SendInv, Asked, Settled, vars
    <2> QED BY <2>1, <2>2, <2>3, <2>4 DEF MessagesInv
<1> QED BY <1>1, <1>2

\* The rows, the flows, the requests and the composer agree in every state.
THEOREM MessagesInvariant == Spec => []MessagesInv
BY MessagesInit, MessagesStep, PTL DEF Spec

\* What the runs check follows from the invariant.
LEMMA MessagesImplied ==
    MessagesInv => /\ MessagesTypeOK
                   /\ ReceivedOnce
                   /\ MessageRestoresThread
                   /\ OneSendAtATime
                   /\ PendingIsWorkedOn
<1> SUFFICES ASSUME MessagesInv
             PROVE  /\ MessagesTypeOK
                    /\ ReceivedOnce
                    /\ MessageRestoresThread
                    /\ OneSendAtATime
                    /\ PendingIsWorkedOn
    OBVIOUS
<1>1. ReceivedOnce
    BY DEF MessagesInv, RowsInv, ReceivedOnce, Msgs
<1>2. MessageRestoresThread
    BY DEF MessagesInv, FreshInv, MessageRestoresThread, Sending
<1>3. OneSendAtATime
    BY DEF MessagesInv, SendInv, Asked, OneSendAtATime
<1> QED BY <1>1, <1>2, <1>3 DEF MessagesInv, RowsInv

\* The columns, the flows and the view keep to their values.
THEOREM MessagesTypeCorrect == Spec => []MessagesTypeOK
BY MessagesInvariant, MessagesImplied, PTL

\* However often and however concurrently receiveMessage is delivered a message, and
\* whenever the server restarts, the message has one row.
THEOREM StoredOnce == Spec => []ReceivedOnce
BY MessagesInvariant, MessagesImplied, PTL

\* After upsertConversation only a later removal can leave a message in a removed
\* conversation, whichever of the select, the insert and the update flows interleave.
THEOREM ThreadRestored == Spec => []MessageRestoresThread
BY MessagesInvariant, MessagesImplied, PTL

\* The composer is disabled as long as the server has its submission, so
\* handleSendMessage never submits beside one that is under way.
THEOREM OneSubmission == Spec => []OneSendAtATime
BY MessagesInvariant, MessagesImplied, PTL

\* A row is PENDING only while its sendMessage is at work on it, or where the flow ended
\* before the status was written: by a rejecting update that nobody catches, or by a restart.
THEOREM PendingHasSender == Spec => []PendingIsWorkedOn
BY MessagesInvariant, MessagesImplied, PTL
=============================================================================
