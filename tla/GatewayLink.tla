----------------------------- MODULE GatewayLink -----------------------------
(***************************************************************************)
(* The signaling link between the server and the modem gateway: the        *)
(* handler ModemGatewayWsHandler with its pairing and challenge exchanges, *)
(* the provider ModemGatewayTelephonyProvider above it, the pairing stored *)
(* in the provider's configuration, and the gateway's reconnecting client. *)
(*                                                                         *)
(* The callbacks of every socket go to the one handler of the provider     *)
(* and do not say which socket they belong to; an exchange awaits the      *)
(* database several times while sockets come and go.                       *)
(***************************************************************************)
EXTENDS Naturals, Sequences, FiniteSets

CONSTANTS
    Conns,      \* sockets, used again once both ends have forgotten them
    Requests,   \* makeCall, answerCall and sendSms requests of the provider
    None,       \* no socket, no nonce, no key, no secret
    MaxEvents   \* bound on lost sockets, stale timers that hit an exchange,
                \* resets, saved settings and restarts of the gateway

Secrets == {"first", "second"}

\* The null value is none of the others.
ASSUME LinkAssumption ==
    /\ None \notin Conns \cup Requests \cup Secrets \cup {"K"}
    /\ MaxEvents \in Nat

PongTicks == 2      \* PONG_TIMEOUT_MS in units of PING_INTERVAL_MS

VARIABLES
    h,        \* the handler in use
    conn,     \* the sockets, with what is under way on them
    asking,   \* initiateAuth() calls that await the public key
    verify,   \* the nonce a response signs while handleAuthResponse() awaits the key
    pair,     \* handleAuthPair() under way
    reset,    \* resetPairing() and its route under way
    db,       \* the stored configuration: public key and pairing secret
    cache,    \* the registry's copy of it
    gw,       \* the gateway: socket, state, secret of its configuration
    pending,  \* requests in pendingOperations
    reported, \* the provider knows the gateway's number
    events    \* of those, so far

vars == <<h, conn, asking, verify, pair, reset, db, cache, gw, pending, reported, events>>

Pairing == [key : {None, "K"}, secret : Secrets \cup {None}]
Handler == [ws : Conns \cup {None}, auth : BOOLEAN, chal : Conns \cup {None},
            stale : BOOLEAN, recent : BOOLEAN, pong : BOOLEAN,
            wait : 0..PongTicks + 1]
Up == [type : {"pair"}, arg : Secrets] \cup [type : {"response"}, arg : Conns]
        \cup [type : {"report"}, arg : {None}] \cup [type : {"result"}, arg : Requests]
Down == [type : {"challenge"}, arg : Conns] \cup [type : {"success", "error"}, arg : {None}]
          \cup [type : {"request"}, arg : Requests]
Socket == [gw : {"none", "open", "closed"}, sv : {"none", "open", "closing", "closed"},
           lossy : BOOLEAN, mine : BOOLEAN, up : Seq(Up), down : Seq(Down)]
PairSteps == {"none", "key", "secret", "age", "load1", "save1", "load2", "save2"}
ResetSteps == {"none", "load1", "save1", "load2", "save2", "update"}

\* Type invariant of the link.
LinkTypeOK ==
    /\ h \in Handler
    /\ conn \in [Conns -> Socket]
    /\ asking \subseteq Conns
    /\ verify \in Conns \cup {None}
    /\ pair \in [at : PairSteps, secret : Secrets \cup {None}, snap : Pairing, mine : BOOLEAN]
    /\ reset \in [at : ResetSteps, snap : Pairing]
    /\ db \in Pairing /\ cache \in Pairing
    /\ gw \in [conn : Conns \cup {None}, st : {"down", "auth", "up"}, secret : Secrets \cup {None}]
    /\ pending \subseteq Requests
    /\ reported \in BOOLEAN
    /\ events \in 0..MaxEvents

Unpaired == [key |-> None, secret |-> None]
Idle == [ws |-> None, auth |-> FALSE, chal |-> None,
         stale |-> FALSE, recent |-> FALSE, pong |-> TRUE, wait |-> 0]
Unused == [gw |-> "none", sv |-> "none", lossy |-> FALSE, mine |-> FALSE, up |-> <<>>, down |-> <<>>]
NoPair == [at |-> "none", secret |-> None, snap |-> Unpaired, mine |-> FALSE]

\* The gateway is paired already, or is started with the first secret.
Init ==
    /\ h = Idle
    /\ conn = [c \in Conns |-> Unused]
    /\ asking = {} /\ verify = None
    /\ pair = NoPair
    /\ reset = [at |-> "none", snap |-> Unpaired]
    /\ db \in {[key |-> "K", secret |-> None], [key |-> None, secret |-> "first"]}
    /\ cache = db
    /\ gw = [conn |-> None, st |-> "down", secret |-> db.secret]
    /\ pending = {} /\ reported = FALSE
    /\ events = 0

-----------------------------------------------------------------------------
(***************************************************************************)
(* The handler                                                             *)
(***************************************************************************)

\* Fault: what was the challenge is overwritten with a flag.
CloseExistingUntyped(x) == [x EXCEPT !.ws = None, !.auth = FALSE, !.chal = FALSE]

\* closeExisting(): the handler forgets its socket, nobody is told.
CloseExisting(x) == [x EXCEPT !.ws = None, !.auth = FALSE, !.chal = None, !.wait = 0, !.pong = TRUE,
                              !.stale = @ \/ x.chal # None]

\* A socket that both ends have forgotten.
Closed(k, c) == [k EXCEPT ![c] = IF @.gw = "closed" /\ @.sv = "closed" THEN Unused ELSE @]
Closing(k, c) == IF c = None THEN k ELSE [k EXCEPT ![c].sv = IF @ = "open" THEN "closing" ELSE @]

\* sendMessage(): to the socket the handler has, if it is open.
SendTo(k, c, m) ==
    IF c # None /\ k[c].sv = "open" /\ ~k[c].lossy /\ k[c].gw = "open"
    THEN [k EXCEPT ![c].down = Append(@, m)] ELSE k
Error == [type |-> "error", arg |-> None]
Success == [type |-> "success", arg |-> None]

\* An exchange is refused: auth_error, then the socket is closed.
Refuse(k) ==
    /\ conn' = Closing(SendTo(k, h.ws, Error), h.ws)
    /\ h' = CloseExisting(h)

\* The exchange succeeds, on whatever socket the handler has by now; chal is the
\* challenge that stays pending.
Succeed(k, chal) ==
    /\ conn' = SendTo(k, h.ws, Success)
    /\ h' = [h EXCEPT !.auth = TRUE, !.chal = chal, !.stale = @ \/ h.chal # chal]

Connected == h.ws # None /\ h.auth /\ conn[h.ws].sv = "open"

\* Nothing is on its way: what a timeout of 30 seconds or more waits for has not come.
Quiet == /\ asking = {} /\ verify = None /\ pair.at = "none"
         /\ \A c \in Conns : conn[c].up = <<>> /\ conn[c].down = <<>>

Event == events < MaxEvents /\ events' = events + 1

\* The gateway dials after its backoff; handleConnection() replaces what is there.
\* An orderly close and the rate limit's second are shorter than the backoff.
Connect(c) ==
    LET k == Closing(conn, h.ws)
    IN  /\ gw.conn = None
        /\ \A d \in Conns : conn[d].gw = "closed" /\ ~conn[d].lossy => conn[d].sv = "closed"
        /\ conn[c] = Unused /\ c \notin asking /\ c # verify
        /\ conn' = [k EXCEPT ![c] = [Unused EXCEPT !.gw = "open", !.sv = "open", !.mine = TRUE,
                        !.up = IF gw.secret = None THEN <<>>
                               ELSE <<[type |-> "pair", arg |-> gw.secret]>>]]
        /\ h' = [CloseExisting(h) EXCEPT !.ws = c, !.recent = FALSE]
        /\ gw' = [gw EXCEPT !.conn = c, !.st = "auth"]
        /\ asking' = asking \cup {c}
        /\ UNCHANGED <<verify, pair, reset, db, cache, pending, reported, events>>

\* initiateAuth(): with a key, a challenge goes to the socket the handler has by now.
InitiateAuth(c) ==
    /\ c \in asking
    /\ asking' = asking \ {c}
    /\ IF db.key = None THEN UNCHANGED <<h, conn>>
       ELSE /\ h' = [h EXCEPT !.chal = c, !.stale = @ \/ h.chal # None]
            /\ conn' = SendTo(conn, h.ws, [type |-> "challenge", arg |-> c])
    /\ UNCHANGED <<verify, pair, reset, db, cache, gw, pending, reported, events>>

\* The timer of an earlier challenge ends the exchange of a later socket.
StaleExpiry ==
    /\ h.stale /\ h.chal # None /\ ~h.auth /\ ~Quiet
    /\ Event
    /\ conn' = Closing(SendTo(conn, h.ws, Error), h.ws)
    /\ h' = [CloseExisting(h) EXCEPT !.stale = FALSE]
    /\ UNCHANGED <<asking, verify, pair, reset, db, cache, gw, pending, reported>>

\* The timers of earlier challenges fire when they mean nothing.
HarmlessExpiry ==
    /\ h.stale /\ (h.chal = None \/ h.auth)
    /\ h' = [h EXCEPT !.stale = FALSE]
    /\ UNCHANGED <<conn, asking, verify, pair, reset, db, cache, gw, pending, reported, events>>

\* CHALLENGE_EXPIRY_MS or AUTH_TIMEOUT_MS pass without an exchange.
AuthTimeout ==
    /\ h.ws # None /\ ~h.auth /\ Quiet
    /\ Refuse(conn)
    /\ UNCHANGED <<asking, verify, pair, reset, db, cache, gw, pending, reported, events>>

\* The next message of a socket the server still listens to.
Take(c) == conn[c].mine /\ conn[c].sv \in {"open", "closing"} /\ conn[c].up # <<>>
Taken(c) == [conn EXCEPT ![c].up = Tail(@)]

\* handleAuthMessage(): a second attempt within a second is refused.
RateLimited(c) ==
    /\ Take(c) /\ Head(conn[c].up).type \in {"pair", "response"}
    /\ h.recent
    /\ Refuse(Taken(c))
    /\ UNCHANGED <<asking, verify, pair, reset, db, cache, gw, pending, reported, events>>

\* handleAuthResponse() up to its await.
Response(c) ==
    /\ Take(c) /\ Head(conn[c].up).type = "response"
    /\ ~h.recent
    /\ IF h.chal = None
       THEN /\ conn' = Closing(SendTo(Taken(c), h.ws, Error), h.ws)
            /\ h' = [CloseExisting(h) EXCEPT !.recent = TRUE]
            /\ UNCHANGED verify
       ELSE /\ verify' = Head(conn[c].up).arg
            /\ conn' = Taken(c)
            /\ h' = [h EXCEPT !.recent = TRUE]
    /\ UNCHANGED <<asking, pair, reset, db, cache, gw, pending, reported, events>>

\* handleAuthResponse() with the key: the signature is checked against the
\* challenge that is pending by now.
Verify ==
    /\ verify # None /\ h.chal # None
    /\ verify' = None
    /\ IF db.key # None /\ h.chal = verify THEN Succeed(conn, None) ELSE Refuse(conn)
    /\ UNCHANGED <<asking, pair, reset, db, cache, gw, pending, reported, events>>

\* The challenge went away with its socket during the await: reading its nonce
\* throws, and nobody catches it; the process ends and is started again.
VerifyThrows ==
    /\ verify # None /\ h.chal = None
    /\ verify' = None
    /\ IF db.key = None THEN Refuse(conn) /\ UNCHANGED <<asking, pair, reset, cache, pending, reported>>
       ELSE /\ h' = Idle /\ asking' = {} /\ pair' = NoPair
            /\ reset' = [at |-> "none", snap |-> Unpaired]
            /\ conn' = [c \in Conns |->
                  Closed([conn EXCEPT ![c].sv = IF @ = "none" THEN @ ELSE "closed",
                                      ![c].mine = FALSE, ![c].up = <<>>], c)[c]]
            /\ cache' = db /\ pending' = {} /\ reported' = FALSE
    /\ UNCHANGED <<db, gw, events>>

-----------------------------------------------------------------------------
(***************************************************************************)
(* Pairing.  Every step ends at an await; the configuration is read,       *)
(* changed and written as a whole by each of the two writes.               *)
(***************************************************************************)

Pair(c) ==
    /\ Take(c) /\ Head(conn[c].up).type = "pair"
    /\ ~h.recent /\ pair.at = "none"
    /\ pair' = [NoPair EXCEPT !.at = "key", !.secret = Head(conn[c].up).arg, !.mine = TRUE]
    /\ conn' = Taken(c)
    /\ h' = [h EXCEPT !.recent = TRUE]
    /\ UNCHANGED <<asking, verify, reset, db, cache, gw, pending, reported, events>>

\* What is stored passes the check at this await, or the pairing is refused.
PairCheck(at, next, ok) ==
    /\ pair.at = at
    /\ IF ok THEN pair' = [pair EXCEPT !.at = next] /\ UNCHANGED <<h, conn>>
       ELSE /\ pair' = NoPair
            /\ IF pair.mine THEN Refuse(conn) ELSE UNCHANGED <<h, conn>>
    /\ UNCHANGED <<asking, verify, reset, db, cache, gw, pending, reported, events>>

\* No key may be stored, and the secret is compared with the stored one.
PairChecks ==
    \/ PairCheck("key", "secret", db.key = None)
    \/ PairCheck("secret", "age", db.secret # None /\ db.secret = pair.secret)
    \/ PairCheck("age", "load1", TRUE)

\* setPublicKey(), then clearPairingSecret(), then the answer.  A challenge that is
\* pending stays so.
PairWrites ==
    /\ pair.at \in {"load1", "save1", "load2", "save2"}
    /\ pair' = CASE pair.at = "load1" -> [pair EXCEPT !.at = "save1", !.snap = db, !.secret = None]
                 [] pair.at = "save1" -> [pair EXCEPT !.at = "load2", !.snap = Unpaired]
                 [] pair.at = "load2" -> [pair EXCEPT !.at = "save2", !.snap = db]
                 [] OTHER -> NoPair
    /\ db' = CASE pair.at = "save1" -> [pair.snap EXCEPT !.key = "K"]
               [] pair.at = "save2" -> [pair.snap EXCEPT !.secret = None]
               [] OTHER -> db
    /\ IF pair.at = "save2" /\ pair.mine THEN Succeed(conn, h.chal) ELSE UNCHANGED <<h, conn>>
    /\ UNCHANGED <<asking, verify, reset, cache, gw, pending, reported, events>>

\* The secret is older than PAIRING_SECRET_TTL_MS.
PairExpired ==
    /\ pair.at = "age" /\ pair.mine
    /\ pair' = NoPair
    /\ Refuse(conn)
    /\ UNCHANGED <<asking, verify, reset, db, cache, gw, pending, reported, events>>

\* POST /api/providers/:id/reset-pairing: the socket is closed first.
ResetStarts ==
    /\ reset.at = "none" /\ Event
    /\ reset' = [at |-> "load1", snap |-> Unpaired]
    /\ conn' = Closing(conn, h.ws)
    /\ h' = CloseExisting(h)
    /\ UNCHANGED <<asking, verify, pair, db, cache, gw, pending, reported>>

\* deletePublicKey(), then setPairingSecret().
ResetWrites ==
    /\ reset.at \in {"load1", "save1", "load2", "save2"}
    /\ reset' = CASE reset.at = "load1" -> [at |-> "save1", snap |-> db]
                  [] reset.at = "save1" -> [at |-> "load2", snap |-> Unpaired]
                  [] reset.at = "load2" -> [at |-> "save2", snap |-> db]
                  [] OTHER -> [at |-> "update", snap |-> Unpaired]
    /\ db' = CASE reset.at = "save1" -> [reset.snap EXCEPT !.key = None]
               [] reset.at = "save2" -> [reset.snap EXCEPT !.secret = "second"]
               [] OTHER -> db
    /\ UNCHANGED <<h, conn, asking, verify, pair, cache, gw, pending, reported, events>>

\* updateProvider(): the configuration is written from the registry's copy, the
\* provider is stopped and a new one with a handler of its own takes its place.
Replace(p) ==
    /\ db' = p /\ cache' = p
    /\ conn' = [c \in Conns |-> [Closing(conn, h.ws)[c] EXCEPT !.mine = FALSE, !.up = <<>>]]
    /\ h' = Idle
    /\ asking' = {} /\ verify' = None
    /\ pair' = [pair EXCEPT !.mine = FALSE]
    /\ pending' = {} /\ reported' = FALSE
    /\ UNCHANGED gw

ResetUpdates ==
    /\ reset.at = "update"
    /\ reset' = [at |-> "none", snap |-> Unpaired]
    /\ Replace([key |-> None, secret |-> "second"])
    /\ UNCHANGED events

\* PUT /api/providers/:id with a configuration: the copy of the registry does
\* not know what a pairing has stored since it was loaded.
SaveSettings ==
    /\ Event
    /\ Replace(cache)
    /\ UNCHANGED reset

-----------------------------------------------------------------------------
(***************************************************************************)
(* Losing a socket                                                         *)
(***************************************************************************)

\* The network loses the socket; neither end is told.
Lose(c) ==
    /\ conn[c].gw = "open" /\ ~conn[c].lossy
    /\ Event
    /\ conn' = [conn EXCEPT ![c].lossy = TRUE, ![c].up = <<>>, ![c].down = <<>>]
    /\ UNCHANGED <<h, asking, verify, pair, reset, db, cache, gw, pending, reported>>

\* Fault: only the socket the handler has counts as a disconnect.
ServerSeesCloseQuietly(c) ==
    /\ conn[c].sv = "closing" \/ (conn[c].sv = "open" /\ conn[c].gw = "closed")
    /\ conn' = Closed([conn EXCEPT ![c].sv = "closed", ![c].up = <<>>], c)
    /\ h' = IF h.ws = c THEN CloseExisting(h) ELSE h
    /\ pending' = IF h.ws = c THEN {} ELSE pending
    /\ reported' = (reported /\ h.ws # c)
    /\ UNCHANGED <<asking, verify, pair, reset, db, cache, gw, events>>

\* The socket's close event: handleDisconnect() forgets whatever socket the
\* handler has, and the provider rejects what is pending and forgets the number.
ServerSeesClose(c) ==
    /\ conn[c].sv = "closing" \/ (conn[c].sv = "open" /\ conn[c].gw = "closed")
    /\ conn' = Closed([conn EXCEPT ![c].sv = "closed", ![c].up = <<>>], c)
    /\ IF conn[c].mine
       THEN /\ h' = CloseExisting(h)
            /\ pending' = {} /\ reported' = FALSE
       ELSE UNCHANGED <<h, pending, reported>>
    /\ UNCHANGED <<asking, verify, pair, reset, db, cache, gw, events>>

\* The interval of PING_INTERVAL_MS.  A missing pong starts the timer of
\* PONG_TIMEOUT_MS, and starts it again at the next tick.  A gateway that can be
\* reached answers within the interval, so that its ticks change nothing.
PingTick ==
    LET late == h.wait = PongTicks + 1
    IN  /\ h.ws # None
        /\ conn[h.ws].lossy
        /\ IF late
           THEN /\ h' = CloseExisting(h)
                /\ conn' = Closing(conn, h.ws)
                /\ pending' = {} /\ reported' = FALSE
           ELSE /\ h' = [h EXCEPT !.wait = IF h.pong THEN @ ELSE 1, !.pong = FALSE]
                /\ UNCHANGED <<conn, pending, reported>>
        /\ UNCHANGED <<asking, verify, pair, reset, db, cache, gw, events>>

-----------------------------------------------------------------------------
(***************************************************************************)
(* The gateway's client, as auth.go, client.go and reconnect.go have it    *)
(***************************************************************************)

Hangup(c) ==
    /\ gw' = [gw EXCEPT !.conn = None, !.st = "down"]
    /\ conn' = Closed([conn EXCEPT ![c].gw = "closed", ![c].down = <<>>], c)

\* The next message from the server.
GatewayReceives ==
    LET c == gw.conn
        m == Head(conn[c].down)
        k == [conn EXCEPT ![c].down = Tail(@)]
    IN  /\ c # None /\ conn[c].down # <<>>
        /\ CASE m.type = "challenge" ->
                  /\ conn' = [k EXCEPT ![c].up = Append(@, [type |-> "response", arg |-> m.arg])]
                  /\ UNCHANGED gw
             [] m.type = "success" ->
                  /\ gw' = [gw EXCEPT !.st = "up"]
                  /\ conn' = IF gw.st = "up" THEN k
                             ELSE [k EXCEPT ![c].up = Append(@, [type |-> "report", arg |-> None])]
             [] m.type = "request" ->
                  /\ conn' = [k EXCEPT ![c].up = Append(@, [type |-> "result", arg |-> m.arg])]
                  /\ UNCHANGED gw
             [] OTHER ->
                  IF gw.st = "auth" THEN Hangup(c) ELSE conn' = k /\ UNCHANGED gw
        /\ UNCHANGED <<h, asking, verify, pair, reset, db, cache, pending, reported, events>>

\* Fault: the gateway waits for ever on a socket that is open at its end.
GatewayHangsUpIfClosed ==
    /\ gw.conn # None /\ conn[gw.conn].down = <<>>
    /\ conn[gw.conn].sv \in {"closing", "closed"} /\ ~conn[gw.conn].lossy
    /\ Hangup(gw.conn)
    /\ UNCHANGED <<h, asking, verify, pair, reset, db, cache, pending, reported, events>>

\* The socket was closed by the server, or the gateway's 30 seconds for the
\* exchange or 90 seconds for the next ping are over.
GatewayHangsUp ==
    LET c == gw.conn
    IN  /\ c # None /\ conn[c].down = <<>>
        /\ \/ conn[c].sv \in {"closing", "closed"} /\ ~conn[c].lossy
           \/ Quiet /\ (conn[c].lossy \/ gw.st = "auth" \/ h.ws # c)
        /\ Hangup(c)
        /\ UNCHANGED <<h, asking, verify, pair, reset, db, cache, pending, reported, events>>

\* The gateway's process is started again: a key that exists makes it ignore the secret.
GatewayRestarts ==
    /\ Event
    /\ gw' = [conn |-> None, st |-> "down", secret |-> None]
    /\ conn' = IF gw.conn = None THEN conn
               ELSE Closed([conn EXCEPT ![gw.conn].gw = "closed", ![gw.conn].down = <<>>], gw.conn)
    /\ UNCHANGED <<h, asking, verify, pair, reset, db, cache, pending, reported>>

\* The operator pairs the gateway anew, with the secret the server shows.
OperatorPairs ==
    /\ gw.conn = None /\ db.key = None /\ db.secret # None /\ gw.secret # db.secret
    /\ gw' = [gw EXCEPT !.secret = db.secret]
    /\ UNCHANGED <<h, conn, asking, verify, pair, reset, db, cache, pending, reported, events>>

-----------------------------------------------------------------------------
(***************************************************************************)
(* The provider                                                            *)
(***************************************************************************)

\* makeCall(), answerCall() or sendSms() with a connected handler.
Request(r) ==
    /\ r \notin pending /\ Connected
    /\ \A c \in Conns : \A m \in {conn[c].up[j] : j \in 1..Len(conn[c].up)}
                          \cup {conn[c].down[j] : j \in 1..Len(conn[c].down)} : m.arg # r
    /\ pending' = pending \cup {r}
    /\ conn' = SendTo(conn, h.ws, [type |-> "request", arg |-> r])
    /\ UNCHANGED <<h, asking, verify, pair, reset, db, cache, gw, reported, events>>

\* CALL_TIMEOUT_MS or SMS_TIMEOUT_MS pass.
RequestTimesOut(r) ==
    /\ r \in pending
    /\ pending' = pending \ {r}
    /\ UNCHANGED <<h, conn, asking, verify, pair, reset, db, cache, gw, reported, events>>

\* A message that is not of the exchange is looked at once the handler is authenticated.
Report(c) ==
    /\ Take(c) /\ Head(conn[c].up).type = "report"
    /\ conn' = Taken(c)
    /\ reported' = (reported \/ h.auth)
    /\ UNCHANGED <<h, asking, verify, pair, reset, db, cache, gw, pending, events>>

\* A result settles the request it names, if that is still waited for.
Result(c) ==
    /\ Take(c) /\ Head(conn[c].up).type = "result"
    /\ conn' = Taken(c)
    /\ pending' = IF h.auth THEN pending \ {Head(conn[c].up).arg} ELSE pending
    /\ UNCHANGED <<h, asking, verify, pair, reset, db, cache, gw, reported, events>>

Dispatch(c) == Report(c) \/ Result(c)

-----------------------------------------------------------------------------
Exchange ==
    \/ \E c \in Conns : Connect(c) \/ InitiateAuth(c)
    \/ \E c \in Conns : RateLimited(c) \/ Response(c) \/ Pair(c)
    \/ StaleExpiry \/ HarmlessExpiry \/ AuthTimeout \/ Verify \/ VerifyThrows
    \/ PairChecks \/ PairWrites \/ PairExpired

Administration == ResetStarts \/ ResetWrites \/ ResetUpdates \/ SaveSettings

Loss == PingTick \/ \E c \in Conns : Lose(c) \/ ServerSeesClose(c)

Gateway == GatewayReceives \/ GatewayHangsUp \/ GatewayRestarts \/ OperatorPairs

Provider == \/ \E r \in Requests : Request(r) \/ RequestTimesOut(r)
            \/ \E c \in Conns : Dispatch(c)

Next == Exchange \/ Administration \/ Loss \/ Gateway \/ Provider

Spec == Init /\ [][Next]_vars

(***************************************************************************)
(* Awaits return, timers fire, messages arrive and the gateway dials       *)
(* again.  A close event of a socket the server has closed comes at the    *)
(* latest with the library's own close timeout; nothing is assumed of      *)
(* faults, administration and requests.                                    *)
(***************************************************************************)
FairSpec ==
    /\ Spec
    /\ WF_vars(Exchange \/ \E c \in Conns : Dispatch(c))
    /\ WF_vars(GatewayReceives \/ GatewayHangsUp)
    /\ WF_vars(\E c \in Conns : ServerSeesClose(c))
    /\ WF_vars(PingTick)

-----------------------------------------------------------------------------
(***************************************************************************)
(* Properties                                                              *)
(***************************************************************************)

\* Once every socket of the handler has been seen to close, the provider holds
\* nothing of them: no request waits, no number is offered for routing.  The
\* disconnects of closeExisting() are silent and rely on the later close event.
NothingLeftBehind ==
    (\A c \in Conns : conn[c].mine => conn[c].sv = "closed") =>
        h.ws = None /\ pending = {} /\ ~reported

LinkUp == gw.st = "up" /\ h.ws = gw.conn /\ Connected

\* The server has the key and the gateway no secret, which it is rid of when it is started
\* with its key file.  The process that paired still has the secret: at every reconnect it
\* asks to be paired again and is refused, until it is started anew.
StartedAsPaired == db.key = "K" /\ gw.secret = None

\* If the gateway is started again after its pairing and both ends stay paired, the link
\* always comes back: after lost sockets, late close events, stale timers, restarts and a
\* replaced provider.
LinkRecovers == <>[]StartedAsPaired => []<>LinkUp
=============================================================================
