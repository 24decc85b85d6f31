----------------------------- MODULE CallHistory ------------------------------
(***************************************************************************)
(* CallHistoryService and the call history page: rows are recorded, updated *)
(* and capped by separate queries, changes are broadcast over the client   *)
(* WebSocket, and the page puts its list together from pages it fetches    *)
(* and from the broadcasts.                                                *)
(*                                                                         *)
(* A row's id stands for its timestamp.  The page numbers none of its      *)
(* requests: whatever answer comes last is applied last.                   *)
(***************************************************************************)
EXTENDS Integers, Sequences, FiniteSets

CONSTANTS
    Old,        \* rows the table starts with
    New,        \* calls recorded in a behaviour
    Cap,        \* MAX_HISTORY_ENTRIES
    PageSize,   \* PAGE_SIZE
    Lines,      \* provider numbers
    Slots,      \* requests of the page that may be outstanding
    MaxEvents,  \* bound on lost sockets, failed requests, filters, failed inserts
    None

Row == [line : Lines, type : {"INCOMING", "MISSED"}]

ASSUME HistoryAssumption ==
    /\ Old \in Nat /\ New \in Nat /\ Cap \in Nat \ {0} /\ PageSize \in Nat \ {0}
    /\ MaxEvents \in Nat /\ None \notin Row

VARIABLES
    row,       \* call_history
    call,      \* provider_call_id of each row, named by the first that has it
    recorded,  \* ids given so far
    saving,    \* recordCall() of each id: the query it has reached
    telling,   \* updates still to be broadcast
    sock,      \* the page's socket: "down", "opened" or "up"
    view,      \* the page's state
    req,       \* the page's requests
    raced,     \* changes of the list overlapped or were not told, or a refresh failed
    crowded,   \* two recordings overlapped
    lapsed,    \* nobody has counted since the table may have outgrown its cap
    events

vars == <<row, call, recorded, saving, telling, sock, view, req, raced, crowded, lapsed, events>>

Ids == 1..(Old + New)
Failed == {-n : n \in 1..MaxEvents}     \* ids of blocked calls that could not be recorded
Done == [at |-> "done"]
Idle == [at |-> "idle"]

Ask(page, append, filter) ==
    [at |-> "sent", page |-> page, append |-> append, filter |-> filter, rows |-> None, total |-> 0]

\* The page has just mounted: fetchHistory(1) is on its way.
Init ==
    /\ \E l \in [1..Old -> Lines] :
          row = [i \in Ids |-> IF i <= Old THEN [line |-> l[i], type |-> "MISSED"] ELSE None]
    /\ call = [i \in Ids |-> i]
    /\ recorded = Old
    /\ saving = [i \in Ids |-> Done]
    /\ telling = {} /\ sock = "up"
    /\ view = [list |-> <<>>, page |-> 1, filter |-> None, hasMore |-> FALSE,
               loading |-> TRUE, loadingMore |-> FALSE]
    /\ \E s \in Slots :
          req = [x \in Slots |-> IF x = s THEN Ask(1, FALSE, None) ELSE Idle]
    /\ raced = FALSE /\ crowded = FALSE /\ lapsed = (Old > Cap) /\ events = 0

Event == events < MaxEvents /\ events' = events + 1

-----------------------------------------------------------------------------
(* CallHistoryService                                                      *)

Present == {i \in Ids : row[i] # None}
Outstanding == {s \in Slots : req[s] # Idle}

Older(i) == {j \in Present : j < i}

\* The n oldest rows.
Oldest(n) == {i \in Present : Cardinality(Older(i)) < n}

Shown(list) == {list[k].id : k \in DOMAIN list}

\* Fault: only rows the page has not loaded are news to it.
ReceivedNew(list, e) == IF e.id \in Shown(list) THEN list ELSE <<e>> \o list

\* handleRealtimeUpdate(): in its place if it is shown, on top otherwise.
Received(list, e) ==
    IF e.id \in Shown(list)
    THEN [k \in DOMAIN list |-> IF list[k].id = e.id THEN e ELSE list[k]]
    ELSE <<e>> \o list

\* A broadcast reaches the page if the server has its socket registered; its
\* time on the socket is part of the time until it is sent.
Broadcast(e) ==
    /\ view' = IF sock = "up" THEN [view EXCEPT !.list = Received(@, e)] ELSE view
    /\ raced' = (raced \/ Outstanding # {} \/ sock = "opened")

\* A webhook that is delivered again records its call again, under the same
\* provider_call_id (and the same number).
Again(line) ==
    {call[j] : j \in {k \in Old + 1..recorded : row[k] # None => row[k].line = line}}

\* recordCall() inserts a row.
Record(line) ==
    LET i == recorded + 1 IN
    /\ i \in Ids
    /\ \E c \in {i} \cup Again(line) : call' = [call EXCEPT ![i] = c]
    /\ recorded' = i
    /\ row' = [row EXCEPT ![i] = [line |-> line, type |-> "INCOMING"]]
    /\ saving' = [saving EXCEPT ![i] = [at |-> "count", ids |-> {}, excess |-> 0]]
    /\ crowded' = (crowded \/ \E j \in Ids : saving[j] # Done)
    /\ raced' = (raced \/ Outstanding # {})
    /\ UNCHANGED <<telling, sock, view, req, lapsed, events>>

\* Fault: one row too many is allowed for.
ExcessLate(n) == IF n > Cap + 1 THEN n - Cap ELSE 0

\* What enforceEntryCap() has to delete of n rows.
Excess(n) == IF n > Cap THEN n - Cap ELSE 0

CapCount(i) ==
    LET n == Excess(Cardinality(Present)) IN
    /\ saving[i].at = "count"
    /\ saving' = [saving EXCEPT ![i].at = IF n > 0 THEN "select" ELSE "tell", ![i].excess = n]
    /\ lapsed' = FALSE
    /\ UNCHANGED <<row, call, recorded, telling, sock, view, req, raced, crowded, events>>

CapSelect(i) ==
    /\ saving[i].at = "select"
    /\ saving' = [saving EXCEPT ![i] = [at |-> "delete", ids |-> Oldest(saving[i].excess), excess |-> 0]]
    /\ UNCHANGED <<row, call, recorded, telling, sock, view, req, raced, crowded, lapsed, events>>

CapDelete(i) ==
    /\ saving[i].at = "delete"
    /\ row' = [j \in Ids |-> IF j \in saving[i].ids THEN None ELSE row[j]]
    /\ saving' = [saving EXCEPT ![i] = [at |-> "tell", ids |-> {}, excess |-> 0]]
    /\ raced' = (raced \/ Outstanding # {})
    /\ UNCHANGED <<call, recorded, telling, sock, view, req, crowded, lapsed, events>>

\* A query rejects, with or without having run: recordCall() throws, and the row
\* stays without having been broadcast.
CapRejects(i) ==
    /\ Event
    /\ saving[i] # Done
    /\ saving' = [saving EXCEPT ![i] = Done]
    /\ raced' = TRUE
    /\ lapsed' = (lapsed \/ saving[i].at # "tell")
    /\ UNCHANGED <<row, call, recorded, telling, sock, view, req, crowded>>

\* Only now is the row broadcast, as it was when inserted.
RecordTold(i) ==
    /\ saving[i].at = "tell"
    /\ Broadcast([id |-> i, type |-> "INCOMING"])
    /\ saving' = [saving EXCEPT ![i] = Done]
    /\ UNCHANGED <<row, call, recorded, telling, sock, req, crowded, lapsed, events>>

\* recordBlockedCallAndNotify(): what cannot be recorded is broadcast all the same.
RecordFails ==
    /\ Event
    /\ \E i \in Failed : Broadcast([id |-> i, type |-> "BLOCKED"])
    /\ UNCHANGED <<row, call, recorded, saving, telling, sock, req, crowded, lapsed>>

\* The open rows of a provider call.
Open(c) == {i \in Present : call[i] = c /\ row[i].type = "INCOMING"}

\* updateCallTypeByProviderCallId() changes them all, to broadcast one of them.
Update(c) ==
    LET open == Open(c) IN
    /\ \E i \in open : telling' = telling \cup {[id |-> i, type |-> "MISSED"]}
    /\ row' = [i \in Ids |-> IF i \in open THEN [row[i] EXCEPT !.type = "MISSED"] ELSE row[i]]
    /\ raced' = (raced \/ Outstanding # {} \/ \E i \in open : saving[i] # Done)
    /\ UNCHANGED <<call, recorded, saving, sock, view, req, crowded, lapsed, events>>

UpdateTold(e) ==
    /\ e \in telling
    /\ Broadcast(e)
    /\ telling' = telling \ {e}
    /\ UNCHANGED <<row, call, recorded, saving, sock, req, crowded, lapsed, events>>

-----------------------------------------------------------------------------
(* GET /api/calls/history                                                  *)

Matches(filter) == {i \in Present : filter = None \/ row[i].line = filter}

Newer(S, i) == {j \in S : j > i}

\* The k-th of S, the newest first.
Nth(S, k) == CHOOSE i \in S : Cardinality(Newer(S, i)) = k - 1

Entry(i) == [id |-> i, type |-> row[i].type]

PageOf(r) ==
    LET all == Matches(r.filter)
        skipped == (r.page - 1) * PageSize
        left == Cardinality(all) - skipped IN
    [k \in 1..(IF left < PageSize THEN left ELSE PageSize) |-> Entry(Nth(all, skipped + k))]

Read(s) ==
    /\ req[s] # Idle /\ req[s].rows = None
    /\ req' = [req EXCEPT ![s].rows = PageOf(req[s]), ![s].total = Cardinality(Matches(req[s].filter))]
    /\ UNCHANGED <<row, call, recorded, saving, telling, sock, view, raced, crowded, lapsed, events>>

-----------------------------------------------------------------------------
(* The page                                                                *)

\* A fetch starts in a free slot; it races with one that is outstanding.
Fetch(page, append, filter) ==
    \E s \in Slots \ Outstanding :
       req' = [req EXCEPT ![s] = Ask(page, append, filter)]

Races == raced' = (raced \/ Outstanding # {} \/ telling # {}
                         \/ \E i \in Ids : saving[i] # Done)

\* Fault: a page is appended as it came.
AppendedTwice(list, rows) == list \o rows

\* What an appended page adds: the rows not shown yet.
Appended(list, rows) ==
    LET news == {k \in DOMAIN rows : rows[k].id \notin Shown(list)}
        n == Cardinality(news) IN
    list \o [k \in 1..n |-> rows[Nth(news, n - k + 1)]]

\* A response is applied to whatever the page shows by now.
Respond(s) ==
    LET r == req[s] IN
    /\ r # Idle /\ r.rows # None
    /\ view' = [view EXCEPT
          !.list = IF r.append THEN Appended(@, r.rows) ELSE r.rows,
          !.page = r.page, !.hasMore = r.page * PageSize < r.total,
          !.loading = FALSE, !.loadingMore = FALSE]
    /\ req' = [req EXCEPT ![s] = Idle]
    /\ UNCHANGED <<row, call, recorded, saving, telling, sock, raced, crowded, lapsed, events>>

ResponseFails(s) ==
    /\ Event
    /\ req[s] # Idle
    /\ view' = [view EXCEPT !.loading = FALSE, !.loadingMore = FALSE]
    /\ req' = [req EXCEPT ![s] = Idle]
    /\ raced' = (raced \/ ~req[s].append)
    /\ UNCHANGED <<row, call, recorded, saving, telling, sock, crowded, lapsed>>

\* loadMore(): the sentinel comes into view.
LoadMore ==
    /\ ~view.loading /\ ~view.loadingMore /\ view.hasMore
    /\ Fetch(view.page + 1, TRUE, view.filter)
    /\ view' = [view EXCEPT !.loadingMore = TRUE]
    /\ Races
    /\ UNCHANGED <<row, call, recorded, saving, telling, sock, crowded, lapsed, events>>

Refresh(filter) ==
    /\ Fetch(1, FALSE, filter)
    /\ view' = [view EXCEPT !.filter = filter, !.loading = TRUE]
    /\ Races

FilterChange(filter) ==
    /\ Event
    /\ filter # view.filter
    /\ Refresh(filter)
    /\ UNCHANGED <<row, call, recorded, saving, telling, sock, crowded, lapsed>>

\* The socket is lost with what was on its way; ws_connected fetches anew.
SocketDown ==
    /\ Event
    /\ sock # "down" /\ sock' = "down"
    /\ UNCHANGED <<row, call, recorded, saving, telling, view, req, raced, crowded, lapsed>>

SocketUp ==
    /\ sock = "down" /\ sock' = "opened"
    /\ Refresh(view.filter)
    /\ UNCHANGED <<row, call, recorded, saving, telling, crowded, lapsed, events>>

\* authenticateAndRegister(): two queries later the server knows the socket.
SocketRegistered ==
    /\ sock = "opened" /\ sock' = "up"
    /\ UNCHANGED <<row, call, recorded, saving, telling, view, req, raced, crowded, lapsed, events>>

Service ==
    \/ \E l \in Lines : Record(l)
    \/ \E i \in Ids : CapCount(i) \/ CapSelect(i) \/ CapDelete(i) \/ CapRejects(i) \/ RecordTold(i)
    \/ \E c \in Ids : Update(c)
    \/ RecordFails
    \/ \E e \in telling : UpdateTold(e)

Page ==
    \/ \E s \in Slots : Read(s) \/ Respond(s) \/ ResponseFails(s)
    \/ LoadMore \/ SocketDown \/ SocketUp \/ SocketRegistered
    \/ \E f \in Lines \cup {None} : FilterChange(f)

Next == Service \/ Page

Spec == Init /\ [][Next]_vars

-----------------------------------------------------------------------------
\* enforceEntryCap() keeps the table within its cap once no recording is under
\* way, however recordings overlap, and unless they do it is the oldest rows
\* that go.  A table above its cap, as the server finds it when it went down
\* between the insert and the cap, or as a query of the cap that rejected leaves
\* it, is back within it once a recording has gone through.
CapKept ==
    (\A i \in Ids : saving[i] = Done) =>
        /\ ~lapsed => Cardinality(Present) <= Cap
        /\ ~crowded => \A i \in 1..recorded : i > recorded - Cap => i \in Present

\* No call is listed twice, although pages shift under the reader while calls
\* are recorded and deleted, and broadcasts and pages overlap.
ListedOnce == \A j, k \in DOMAIN view.list : view.list[j].id = view.list[k].id => j = k

Quiet == /\ telling = {} /\ Outstanding = {}
         /\ \A i \in Ids : saving[i] = Done

\* The row is the only one of its call.
Alone(i) == \A j \in 1..recorded : call[j] = call[i] => j = i

\* Once things are quiet the list shows each row as it is, leaves out none of the
\* newest rows that its pages have loaded, and none at all if it offers no more,
\* however broadcasts, shifted pages, filters and reconnects alternated;
\* overlapping ones are excused, as are a broadcast sent between the opening of
\* the socket and its registration and the type of a call recorded twice.
\* (Beyond what is loaded there may be gaps: an update puts a row that is not
\* shown on top, whatever its age.)
ListIsCurrent ==
    Quiet /\ ~raced /\ sock # "down" =>
        LET all == Matches(view.filter)
            loaded == {i \in all : Cardinality(Newer(all, i)) < view.page * PageSize} IN
        /\ \A k \in DOMAIN view.list :
              view.list[k].id \in Present /\ Alone(view.list[k].id) =>
                  view.list[k].type = row[view.list[k].id].type
        /\ (IF view.hasMore THEN loaded ELSE all) \subseteq Shown(view.list)
===============================================================================
