------------------------------- MODULE Sessions -------------------------------
(***************************************************************************)
(* Browser sessions: AuthService and the session middleware, the client    *)
(* WebSocketBroadcaster, the WebDeviceReaper, and on the browser's side    *)
(* api.ts, ws.ts, the login page and the DeviceLifecycle.                  *)
(*                                                                         *)
(* A login inserts one row of device_registry, whose token the browser     *)
(* keeps in localStorage; all tabs share it.  A socket authenticates and a *)
(* request passes the middleware by two queries, so removals, sweeps and   *)
(* closes come in between.                                                 *)
(***************************************************************************)
EXTENDS Naturals, FiniteSets

CONSTANTS
    Devices,    \* web devices, one per login; also the token of that login
    Tabs,       \* tabs of one browser
    Socks,      \* sockets that may exist at a time
    MaxEvents,  \* bound on requests, lost sockets, closed pages and calls
    None        \* no token, device, tab or socket

VARIABLES
    row,     \* device_registry
    store,   \* localStorage: session_token and device_id
    tab,     \* the tabs' pages
    sock,    \* sockets, as server and browser see them
    conns,   \* WebSocketBroadcaster.connections
    alive,   \* WebSocketBroadcaster.aliveSet
    req,     \* requests under way
    sweep,   \* the reaper's sweep
    inCall,  \* devices the orchestrator has in an active call
    events

vars == <<row, store, tab, sock, conns, alive, req, sweep, inCall, events>>

NoRow == [token |-> "none", active |-> FALSE, stale |-> FALSE]
Closed == [page |-> "closed", ws |-> FALSE, sock |-> None]
NoSock == [state |-> "free", tab |-> None, tok |-> None, step |-> "done"]
NoSweep == [due |-> {}, doomed |-> None]

Init ==
    /\ row = [d \in Devices |-> NoRow]
    /\ store = [token |-> None, device |-> None]
    /\ tab = [t \in Tabs |-> [Closed EXCEPT !.page = "login"]]
    /\ sock = [s \in Socks |-> NoSock]
    /\ conns = {} /\ alive = {} /\ req = {}
    /\ sweep = NoSweep /\ inCall = {} /\ events = 0

Event == events < MaxEvents /\ events' = events + 1

-----------------------------------------------------------------------------
(* Requests                                                                *)

Pending(t, kind) == \E r \in req : r.tab = t /\ r.kind = kind

\* api.request() reads the token when it is called.
Ask(t, kind, tok, dev) == [kind |-> kind, tab |-> t, tok |-> tok, dev |-> dev, at |-> "sent"]

\* teardownCallingStack(): a logout without a token, refused for certain.
Teardown(t) == [Ask(t, "teardown", None, None) EXCEPT !.at = "401"]

Moves(r, at) == req' = (req \ {r}) \cup {[r EXCEPT !.at = at]}

\* An answer names neither the token nor the device it was asked with.
Answers(r, at) == req' = (req \ {r}) \cup {[r EXCEPT !.at = at, !.tok = None, !.dev = None]}

Fresh == {d \in Devices : row[d] = NoRow}

\* authService.login(): registerDevice() inserts the row of this login.
SignedIn(d) == [row EXCEPT ![d] = [token |-> "valid", active |-> TRUE, stale |-> FALSE]]

\* The login form is submitted: POST /api/auth/login
Login(t) ==
    LET d == CHOOSE e \in Fresh : TRUE IN
    /\ tab[t].page = "login" /\ ~Pending(t, "login") /\ Fresh # {}
    /\ row' = SignedIn(d)
    /\ req' = req \cup {[Ask(t, "login", None, d) EXCEPT !.at = "ok"]}
    /\ UNCHANGED <<store, tab, sock, conns, alive, sweep, inCall, events>>

\* The stack comes up on the new session; an existing socket is kept.
LoggedIn(r) ==
    /\ r.kind = "login" /\ r.at = "ok"
    /\ store' = [token |-> r.dev, device |-> r.dev]
    /\ tab' = [tab EXCEPT ![r.tab].page = "app", ![r.tab].ws = TRUE]
    /\ req' = req \ {r}
    /\ UNCHANGED <<row, sock, conns, alive, sweep, inCall, events>>

\* A request of a page.
Asks(t, kind, dev) ==
    /\ Event
    /\ tab[t].page = "app" /\ ~Pending(t, kind)
    /\ req' = req \cup {Ask(t, kind, store.token, dev)}
    /\ UNCHANGED <<row, store, tab, sock, conns, alive, sweep, inCall>>

ChangePassword(t) == Asks(t, "password", None)

\* The page offers no removal of its own device.
Removal(t) == \E d \in Devices \ {store.device} : row[d].active /\ Asks(t, "remove", d)


Requests(t) == ChangePassword(t) \/ Removal(t) \/ Asks(t, "logout", None)

Valid(tok) == tok # None /\ row[tok].token = "valid"

\* validateSession() reads the row by its token, ...
Selects(r) ==
    /\ r.at = "sent"
    /\ IF Valid(r.tok) THEN Moves(r, "known") ELSE Answers(r, "401")
    /\ UNCHANGED <<row, store, tab, sock, conns, alive, sweep, inCall, events>>

\* What validateSession() writes to the row it read.
Seen(rw) == [rw EXCEPT !.stale = FALSE, !.active = TRUE]

\* ... and writes it by the device's id.
Refreshes(r) ==
    /\ r.at = "known"
    /\ row' = [row EXCEPT ![r.tok] = Seen(@)]
    /\ Moves(r, "valid")
    /\ UNCHANGED <<store, tab, sock, conns, alive, sweep, inCall, events>>

\* What logout and removal leave: a token nobody holds.
Rotated == [token |-> "rotated", active |-> FALSE, stale |-> FALSE]

\* GET /api/devices: what the list tells the page is left out.
ServesList(r) ==
    /\ r.kind = "list"
    /\ req' = req \ {r}
    /\ UNCHANGED row

\* POST /api/auth/logout, by token
ServesLogout(r) ==
    /\ r.kind = "logout"
    /\ row' = IF Valid(r.tok) THEN [row EXCEPT ![r.tok] = Rotated] ELSE row
    /\ Answers(r, "ok")

\* DELETE /api/devices/:deviceId; its answer tells nothing about the session.
ServesRemoval(r) ==
    /\ r.kind = "remove"
    /\ row' = [row EXCEPT ![r.dev] = Rotated]
    /\ req' = req \ {r}

\* POST /api/auth/change-password: sessions stay; a wrong password is a 401 too.
ServesPassword(r) ==
    /\ r.kind = "password"
    /\ req' = req \ {r} \/ Answers(r, "401")
    /\ UNCHANGED row

Serves(r) ==
    /\ r.at = "valid"
    /\ ServesList(r) \/ ServesLogout(r) \/ ServesRemoval(r) \/ ServesPassword(r)
    /\ UNCHANGED <<store, tab, sock, conns, alive, sweep, inCall, events>>

-----------------------------------------------------------------------------
(* Answers at the browser                                                  *)

\* handleSessionExpired: back to the login form; the socket is kept, and the
\* lifecycle, if it was up, posts its own logout, by now without a token.
Expires(t, others) ==
    /\ tab' = [tab EXCEPT ![t].page = "login"]
    /\ req' = IF tab[t].page = "app" THEN others \cup {Teardown(t)} ELSE others

\* A 401 ends whatever session is stored now; without one it goes unheard.
Refused(r) ==
    /\ r.at = "401" /\ r.kind \in {"password", "list", "remove"}
    /\ IF store.token # None /\ tab[r.tab].page # "closed"
       THEN store' = [store EXCEPT !.token = None] /\ Expires(r.tab, req \ {r})
       ELSE req' = req \ {r} /\ UNCHANGED <<store, tab>>
    /\ UNCHANGED <<row, sock, conns, alive, sweep, inCall, events>>

\* handleLogout, whatever the answer, expires the stored session, unless the
\* page is gone by then.
LoggedOut(r) ==
    /\ r.kind = "logout" /\ r.at \in {"ok", "401"}
    /\ IF tab[r.tab].page # "closed"
       THEN store' = [token |-> None, device |-> None] /\ Expires(r.tab, req \ {r})
       ELSE req' = req \ {r} /\ UNCHANGED <<store, tab>>
    /\ UNCHANGED <<row, sock, conns, alive, sweep, inCall, events>>

\* The lifecycle's own logout settles: the device id goes, whosever it is.
TornDown(r) ==
    /\ r.kind = "teardown" /\ r.at = "401"
    /\ store' = [store EXCEPT !.device = None]
    /\ req' = req \ {r}
    /\ UNCHANGED <<row, tab, sock, conns, alive, sweep, inCall, events>>

-----------------------------------------------------------------------------
(* Sockets: "up"; "cut", dead with neither end aware of it; closed at the  *)
(* server and known to the browser ("shut") or not ("lost")                *)

Unused == {s \in Socks : sock[s] = NoSock /\ \A x \in conns : x[2] # s}

\* reconcileOnReconnect(): with a device id, and unless one is under way, the
\* active devices are asked for; without one there is no provisioning.
Reconciles(t) ==
    IF tab[t].page = "app" /\ ~Pending(t, "list") /\ store.device # None
    THEN {Ask(t, "list", store.token, store.device)} ELSE {}

\* connect(): opened with the token of the moment; the server has accepted the
\* upgrade, so ws_connected comes before it has authenticated it.
Connect(t) ==
    /\ tab[t].page # "closed" /\ tab[t].ws /\ tab[t].sock = None
    /\ Unused # {}
    /\ LET s == CHOOSE x \in Unused : TRUE IN
          /\ sock' = [sock EXCEPT ![s] = [state |-> "up", tab |-> t, tok |-> store.token, step |-> "select"]]
          /\ tab' = [tab EXCEPT ![t].sock = s]
    /\ req' = req \cup Reconciles(t)
    /\ UNCHANGED <<row, store, conns, alive, sweep, inCall, events>>

\* A socket both sides are done with is no more.
Settle(r) ==
    IF r.state \in {"shut", "lost"} /\ r.tab = None /\ r.step = "done" THEN NoSock ELSE r

\* socket.close() at the server: the close frame of a dead one reaches nobody.
Close(r) == Settle([r EXCEPT !.state = IF @ \in {"cut", "lost"} THEN "lost" ELSE "shut"])

\* authenticateAndRegister(): the token is looked up ...
SockSelect(s) ==
    LET r == sock[s] IN
    /\ r.step = "select"
    /\ sock' = [sock EXCEPT ![s] = IF Valid(r.tok) THEN [r EXCEPT !.step = "update"]
                                   ELSE Close([r EXCEPT !.step = "done"])]
    /\ UNCHANGED <<row, store, tab, conns, alive, req, sweep, inCall, events>>

\* Fault: a new socket counts as silent until its first pong.
SockRegisterUnheard(s) ==
    LET r == sock[s] IN
    /\ r.step = "update"
    /\ row' = [row EXCEPT ![r.tok] = Seen(@)]
    /\ conns' = conns \cup {<<r.tok, s>>}
    /\ sock' = [sock EXCEPT ![s].step = "done"]
    /\ UNCHANGED <<alive, store, tab, req, sweep, inCall, events>>

\* ... the row refreshed and the socket registered, even one that has closed
\* meanwhile, whose close event nobody listened for.
SockRegister(s) ==
    LET r == sock[s] IN
    /\ r.step = "update"
    /\ row' = [row EXCEPT ![r.tok] = Seen(@)]
    /\ conns' = conns \cup {<<r.tok, s>>}
    /\ alive' = alive \cup {s}
    /\ sock' = [sock EXCEPT ![s].step = "done"]
    /\ UNCHANGED <<store, tab, req, sweep, inCall, events>>

Of(s) == {x \in conns : x[2] = s}

\* The connection breaks, and both ends hear of it, or the server alone, or
\* neither (ws.ts sends nothing by itself): the close listener, if there is one
\* by now, takes it out.
Drop(s, state) ==
    /\ Event
    /\ sock[s].state = "up" /\ sock[s].tab # None
    /\ sock' = [sock EXCEPT ![s].state = state]
    /\ conns' = IF state = "cut" THEN conns ELSE conns \ Of(s)
    /\ UNCHANGED <<row, store, tab, alive, req, sweep, inCall>>

\* The browser finds its socket broken, before the server does or long after,
\* or the page goes: the beacon it sends to deregister the device has no route
\* that would take it.
Vanish(t, page) ==
    /\ Event
    /\ tab[t].sock # None \/ page = "closed"
    /\ sock' = [s \in Socks |-> IF s = tab[t].sock THEN Settle([sock[s] EXCEPT !.tab = None]) ELSE sock[s]]
    /\ tab' = [tab EXCEPT ![t] = IF page = "closed" THEN Closed ELSE [@ EXCEPT !.sock = None]]
    /\ req' = IF page = "closed" THEN {r \in req : r.tab # t \/ r.at \in {"sent", "known", "valid"}} ELSE req
    /\ UNCHANGED <<row, store, conns, alive, sweep, inCall>>

\* The page is loaded: what localStorage holds decides which one shows.
Load(t) ==
    LET in == store.token # None IN
    /\ Event
    /\ tab[t].page = "closed" /\ ~\E r \in req : r.tab = t
    /\ tab' = [tab EXCEPT ![t] = [Closed EXCEPT !.page = IF in THEN "app" ELSE "login", !.ws = in]]
    /\ UNCHANGED <<row, store, sock, conns, alive, req, sweep, inCall>>

\* onclose: the tab forgets the socket and connects again after a while.
Hears(t) ==
    LET s == tab[t].sock IN
    /\ s # None /\ sock[s].state = "shut"
    /\ tab' = [tab EXCEPT ![t].sock = None]
    /\ sock' = [sock EXCEPT ![s] = Settle([@ EXCEPT !.tab = None])]
    /\ UNCHANGED <<row, store, conns, alive, req, sweep, inCall, events>>

Registered == {x[2] : x \in conns}

LooksOpen(s) == sock[s].state \in {"up", "cut"}

\* Fault: a socket that has not answered is kept while it looks open.
SilentLooksOpen == {s \in Registered \ alive : ~LooksOpen(s)}

\* Sockets that have not answered since the last tick.
Silent == Registered \ alive

Hearing(s) == sock[s].state = "up" /\ sock[s].tab # None

\* The ping interval.  The others are asked again; where somebody is there,
\* the pong comes before the next tick.
PingTick ==
    /\ conns # {}
    /\ conns' = {x \in conns : x[2] \notin Silent}
    /\ sock' = [s \in Socks |-> IF s \in Silent THEN Close(sock[s]) ELSE sock[s]]
    /\ alive' = {s \in Registered \ Silent : Hearing(s)}
    /\ UNCHANGED <<row, store, tab, req, sweep, inCall, events>>

-----------------------------------------------------------------------------
(* Sweeps                                                                  *)

\* isDeviceConnected()
Connected(d) == \E x \in conns : x[1] = d /\ LooksOpen(x[2])

\* 90 s pass without a sign; that the sweeps, every 30 s, refresh what is
\* connected is why a connected device does not age.
Ages(d) ==
    /\ row[d].active /\ ~row[d].stale /\ ~Connected(d)
    /\ row' = [row EXCEPT ![d].stale = TRUE]
    /\ UNCHANGED <<store, tab, sock, conns, alive, req, sweep, inCall, events>>

\* sweep() reads the active devices and the active calls once: only a device
\* stale and in no call by then can be reaped, ...
SweepBegins ==
    LET due == {d \in Devices \ inCall : row[d].active /\ row[d].stale} IN
    /\ sweep = NoSweep /\ due # {}
    /\ sweep' = [due |-> due, doomed |-> None]
    /\ UNCHANGED <<row, store, tab, sock, conns, alive, req, inCall, events>>

\* ... if it is not connected when its turn comes.
SweepDevice(d) ==
    /\ d \in sweep.due /\ sweep.doomed = None
    /\ sweep' = [due |-> sweep.due \ {d}, doomed |-> IF Connected(d) THEN None ELSE d]
    /\ UNCHANGED <<row, store, tab, sock, conns, alive, req, inCall, events>>

\* deactivateDevice() lands; the token is left alone.
SweepWrites ==
    /\ sweep.doomed # None
    /\ row' = [row EXCEPT ![sweep.doomed].active = FALSE, ![sweep.doomed].stale = FALSE]
    /\ sweep' = [sweep EXCEPT !.doomed = None]
    /\ UNCHANGED <<store, tab, sock, conns, alive, req, inCall, events>>

\* A connected device begins a call, or its call ends.
Call(d) ==
    /\ Event
    /\ d \in inCall \/ Connected(d)
    /\ inCall' = IF d \in inCall THEN inCall \ {d} ELSE inCall \cup {d}
    /\ UNCHANGED <<row, store, tab, sock, conns, alive, req, sweep>>

-----------------------------------------------------------------------------
ServerStep(r) == Selects(r) \/ Refreshes(r) \/ Serves(r)
AnswerStep(r) == LoggedIn(r) \/ Refused(r) \/ LoggedOut(r) \/ TornDown(r)
Sweeps == SweepBegins \/ (\E d \in Devices : SweepDevice(d)) \/ SweepWrites

Next ==
    \/ \E t \in Tabs : Login(t) \/ Requests(t) \/ Connect(t) \/ Load(t) \/ Hears(t)
    \/ \E t \in Tabs, page \in {"closed", "kept"} : Vanish(t, page)
    \/ \E r \in req : ServerStep(r) \/ AnswerStep(r)
    \/ \E s \in Socks : SockSelect(s) \/ SockRegister(s)
    \/ \E s \in Socks, state \in {"shut", "lost", "cut"} : Drop(s, state)
    \/ PingTick
    \/ \E d \in Devices : Ages(d) \/ Call(d)
    \/ Sweeps

Spec == Init /\ [][Next]_vars

\* Timers fire, queries and requests settle, and a browser that hears of a close
\* reconnects; nothing makes it hear.
Fairness ==
    /\ \A t \in Tabs : WF_vars(Connect(t) \/ Hears(t))
    /\ WF_vars(\E r \in req : ServerStep(r) \/ AnswerStep(r))
    /\ \A s \in Socks : WF_vars(SockSelect(s) \/ SockRegister(s))
    /\ WF_vars(PingTick) /\ WF_vars(Sweeps)
    /\ \A d \in Devices : WF_vars(Ages(d))

FairSpec == Spec /\ Fairness

-----------------------------------------------------------------------------
\* A tab, a live socket or a request of a browser still speaks for the device,
\* or it is in a call.
InUse(d) ==
    \/ store.token = d /\ \E t \in Tabs : tab[t].page # "closed"
    \/ \E s \in Socks : sock[s].tok = d /\ (Hearing(s) \/ sock[s].step # "done")
    \/ \E r \in req : d \in {r.tok, r.dev}
    \/ d \in inCall

\* A device whose browser is gone for good leaves the list of active devices,
\* although its socket never closed or closed unheard, and whatever sweep was
\* under way.
AbandonedDevicesLeave ==
    \A d \in Devices : <>[]~InUse(d) => <>[]~row[d].active

Holds(t, d) == tab[t].page = "app" /\ store.token = d /\ Valid(d)

\* The tab's socket is one that broke without the browser's notice, or the one
\* of an earlier login.
Stranded(t, d) ==
    LET s == tab[t].sock IN s # None /\ (sock[s].state \in {"cut", "lost"} \/ sock[s].tok # d)

\* A tab that stays open on a session the server accepts ends up registered as
\* that session's device, and is not taken for a silent one, unless it sits on
\* a socket it has no reason to replace.
TabsAreServed ==
    \A t \in Tabs, d \in Devices :
        <>[]Holds(t, d) => <>[](<<d, tab[t].sock>> \in conns) \/ <>[]Stranded(t, d)
===============================================================================
