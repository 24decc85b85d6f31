--------------------------- MODULE GatewayLinkProofs ---------------------------
(***************************************************************************)
(* Machine-checked proofs about GatewayLink: the link is well-typed, the   *)
(* provider holds nothing of sockets that are gone, and the timer of a     *)
(* missing pong never fires, for any number of sockets, requests and       *)
(* faults.                                                                 *)
(***************************************************************************)
EXTENDS GatewayLink, TLAPS

\* The close event of this socket is still to come, and the handler will hear it.
HeardIn(k, c) == k[c].mine /\ k[c].sv \in {"open", "closing"}

\* The handler's socket is one of them, and so is some socket as long as the
\* provider holds requests or the gateway's number.
ClosePending ==
    /\ h.ws # None => HeardIn(conn, h.ws)
    /\ pending # {} \/ reported => \E c \in Conns : HeardIn(conn, c)

\* The timer of a missing pong is always within its first interval.
PongNeverLate == h.wait <= 1

LinkInv == LinkTypeOK /\ ClosePending /\ PongNeverLate

-----------------------------------------------------------------------------
(* What the handler does to its sockets                                    *)

\* From k to l, no socket whose close event is to be heard is forgotten.
Keeps(k, l) == \A c \in Conns : HeardIn(k, c) => HeardIn(l, c)

\* The server's close() leaves the close event to come.
LEMMA ClosingKeeps ==
    ASSUME NEW k \in [Conns -> Socket], NEW c \in Conns \cup {None}
    PROVE  Closing(k, c) \in [Conns -> Socket] /\ Keeps(k, Closing(k, c))
<1>1. CASE c = None
    BY <1>1 DEF Closing, Keeps
<1>2. CASE c # None
    <2> DEFINE s == [k[c] EXCEPT !.sv = IF @ = "open" THEN "closing" ELSE @]
    <2>1. k[c] \in Socket
        BY <1>2
    <2>2. s \in Socket /\ s.mine = k[c].mine /\ (k[c].sv = "open" => s.sv = "closing")
          /\ (k[c].sv # "open" => s.sv = k[c].sv)
        BY <2>1 DEF Socket
    <2>3. Closing(k, c) = [k EXCEPT ![c] = s]
        BY <1>2, <2>1 DEF Closing, Socket
    <2> HIDE DEF s
    <2> QED BY <1>2, <2>2, <2>3 DEF Keeps, HeardIn
<1> QED BY <1>1, <1>2

\* sendMessage() changes what is under way, and no more.
LEMMA SendToKeeps ==
    ASSUME NEW k \in [Conns -> Socket], NEW c \in Conns \cup {None}, NEW m \in Down
    PROVE  /\ SendTo(k, c, m) \in [Conns -> Socket] /\ Keeps(k, SendTo(k, c, m))
<1>1. CASE ~(c # None /\ k[c].sv = "open" /\ ~k[c].lossy /\ k[c].gw = "open")
    BY <1>1 DEF SendTo, Keeps
<1>2. CASE c # None /\ k[c].sv = "open" /\ ~k[c].lossy /\ k[c].gw = "open"
    <2> DEFINE s == [k[c] EXCEPT !.down = Append(@, m)]
    <2>1. k[c] \in Socket /\ k[c].down \in Seq(Down)
        BY <1>2 DEF Socket
    <2>2. Append(k[c].down, m) \in Seq(Down)
        BY <2>1
    <2>3. s \in Socket /\ s.mine = k[c].mine /\ s.sv = k[c].sv
        BY <2>1, <2>2 DEF Socket
    <2>4. SendTo(k, c, m) = [k EXCEPT ![c] = s]
        BY <1>2, <2>1 DEF SendTo, Socket
    <2> HIDE DEF s
    <2> QED BY <1>2, <2>3, <2>4 DEF Keeps, HeardIn
<1> QED BY <1>1, <1>2

\* A change of one socket that is not its close.
LEMMA SocketKeeps ==
    ASSUME NEW k \in [Conns -> Socket], NEW c \in Conns, NEW s \in Socket,
           s.mine = k[c].mine, s.sv = k[c].sv
    PROVE  /\ [k EXCEPT ![c] = s] \in [Conns -> Socket] /\ Keeps(k, [k EXCEPT ![c] = s])
BY DEF Keeps, HeardIn

\* Both ends are through with a socket: only then is it as good as unused.
LEMMA ClosedKeeps ==
    ASSUME NEW k \in [Conns -> Socket], NEW c \in Conns
    PROVE  /\ Closed(k, c) \in [Conns -> Socket] /\ Keeps(k, Closed(k, c))
           /\ \A d \in Conns \ {c} : Closed(k, c)[d] = k[d]
<1>1. Unused \in Socket
    BY DEF Unused, Socket
<1>2. Closed(k, c) = IF k[c].gw = "closed" /\ k[c].sv = "closed" THEN [k EXCEPT ![c] = Unused] ELSE k
    BY DEF Closed
<1> QED BY <1>1, <1>2 DEF Keeps, HeardIn

\* The next message is taken off a socket.
LEMMA TakenKeeps ==
    ASSUME LinkInv, NEW c \in Conns, Take(c)
    PROVE  /\ Taken(c) \in [Conns -> Socket] /\ Keeps(conn, Taken(c))
           /\ Head(conn[c].up) \in Up /\ HeardIn(conn, c)
<1> DEFINE s == [conn[c] EXCEPT !.up = Tail(@)]
<1>1. /\ conn \in [Conns -> Socket] /\ conn[c] \in Socket
      /\ conn[c].up \in Seq(Up) /\ conn[c].up # <<>>
    BY DEF LinkInv, LinkTypeOK, Take, Socket
<1>2. Tail(conn[c].up) \in Seq(Up) /\ Head(conn[c].up) \in Up
    BY <1>1
<1>3. s \in Socket /\ s.mine = conn[c].mine /\ s.sv = conn[c].sv
    BY <1>1, <1>2 DEF Socket
<1>4. Taken(c) = [conn EXCEPT ![c] = s]
    BY <1>1 DEF Taken, Socket
<1> HIDE DEF s
<1>5. [conn EXCEPT ![c] = s] \in [Conns -> Socket] /\ Keeps(conn, [conn EXCEPT ![c] = s])
    BY <1>1, <1>3, SocketKeeps
<1>6. HeardIn(conn, c)
    BY DEF Take, HeardIn
<1> QED BY <1>2, <1>4, <1>5, <1>6

\* closeExisting(): no socket, no wait.
LEMMA CloseExistingType ==
    ASSUME NEW x \in Handler
    PROVE  CloseExisting(x) \in Handler /\ CloseExisting(x).ws = None /\ CloseExisting(x).wait = 0
<1> DEFINE b == x.stale \/ x.chal # None
<1>1. b \in BOOLEAN
    OBVIOUS
<1>2. CloseExisting(x) = [x EXCEPT !.ws = None, !.auth = FALSE, !.chal = None, !.wait = 0,
                                   !.pong = TRUE, !.stale = b]
    BY DEF CloseExisting
<1>3. 0 \in 0..PongTicks + 1
    BY DEF PongTicks
<1> HIDE DEF b
<1>4. CloseExisting(x).ws = None /\ CloseExisting(x).wait = 0
    BY <1>2 DEF Handler
<1> QED BY <1>1, <1>2, <1>3, <1>4 DEF Handler

\* Refusing an exchange.
LEMMA RefuseKeeps ==
    ASSUME LinkInv, NEW k \in [Conns -> Socket], Keeps(conn, k), Refuse(k)
    PROVE  /\ conn' \in [Conns -> Socket] /\ Keeps(conn, conn')
           /\ h' \in Handler /\ h'.ws = None /\ h'.wait = 0
<1>1. h \in Handler /\ h.ws \in Conns \cup {None}
    BY DEF LinkInv, LinkTypeOK, Handler
<1>2. Error \in Down
    BY DEF Error, Down
<1> DEFINE l == SendTo(k, h.ws, Error)
<1>3. l \in [Conns -> Socket] /\ Keeps(k, l)
    BY <1>1, <1>2, SendToKeeps
<1>4. conn' = Closing(l, h.ws) /\ h' = CloseExisting(h)
    BY DEF Refuse
<1> HIDE DEF l
<1>5. conn' \in [Conns -> Socket] /\ Keeps(l, conn')
    BY <1>1, <1>3, <1>4, ClosingKeeps
<1> QED BY <1>1, <1>3, <1>4, <1>5, CloseExistingType DEF Keeps

\* An exchange that succeeds.
LEMMA SucceedKeeps ==
    ASSUME LinkInv, NEW k \in [Conns -> Socket], Keeps(conn, k),
           NEW c \in {h.chal, None}, Succeed(k, c)
    PROVE  /\ conn' \in [Conns -> Socket] /\ Keeps(conn, conn')
           /\ h' \in Handler /\ h'.ws = h.ws /\ h'.wait = h.wait
<1>1. h \in Handler /\ h.ws \in Conns \cup {None}
    BY DEF LinkInv, LinkTypeOK, Handler
<1>2. Success \in Down
    BY DEF Success, Down
<1>3. conn' \in [Conns -> Socket] /\ Keeps(k, conn')
    BY <1>1, <1>2, SendToKeeps DEF Succeed
<1>4. h' \in Handler /\ h'.ws = h.ws /\ h'.wait = h.wait
    BY <1>1 DEF Succeed, Handler
<1> QED BY <1>3, <1>4 DEF Keeps

\* A handler that has just been made.
LEMMA IdleType == Idle \in Handler /\ Idle.ws = None /\ Idle.wait = 0
<1>1. 0 \in 0..PongTicks + 1
    BY DEF PongTicks
<1> QED BY <1>1 DEF Idle, Handler

\* No pairing is under way.
LEMMA NoPairType ==
    NoPair \in [at : PairSteps, secret : Secrets \cup {None}, snap : Pairing, mine : BOOLEAN]
BY DEF NoPair, PairSteps, Unpaired, Pairing

\* The events that are counted stay within their bound.
LEMMA EventBound ==
    ASSUME events \in 0..MaxEvents, Event
    PROVE  events' \in 0..MaxEvents
BY LinkAssumption DEF Event

\* The exchanges, the configuration and the gateway stay within their types.
RestOK ==
    /\ asking \subseteq Conns
    /\ verify \in Conns \cup {None}
    /\ pair \in [at : PairSteps, secret : Secrets \cup {None}, snap : Pairing, mine : BOOLEAN]
    /\ reset \in [at : ResetSteps, snap : Pairing]
    /\ db \in Pairing /\ cache \in Pairing
    /\ gw \in [conn : Conns \cup {None}, st : {"down", "auth", "up"}, secret : Secrets \cup {None}]
    /\ events \in 0..MaxEvents

\* The parts of the invariant, as the steps use them.
LEMMA Parts ==
    ASSUME LinkInv
    PROVE  /\ h \in Handler /\ h.ws \in Conns \cup {None} /\ h.wait <= 1
           /\ conn \in [Conns -> Socket] /\ RestOK
           /\ pending \subseteq Requests /\ reported \in BOOLEAN
           /\ h.ws # None => HeardIn(conn, h.ws)
           /\ pending # {} \/ reported => \E c \in Conns : HeardIn(conn, c)
           /\ Keeps(conn, conn)
BY DEF LinkInv, LinkTypeOK, RestOK, ClosePending, PongNeverLate, Handler, Keeps

\* A step that forgets no close event: the handler keeps its socket or has none, and
\* nothing is held that was not held before.
LEMMA KeepingStep ==
    ASSUME LinkInv, conn' \in [Conns -> Socket], Keeps(conn, conn'),
           h' \in Handler, h'.ws \in {None, h.ws}, h'.wait <= 1,
           pending' \subseteq pending, reported' = reported, RestOK'
    PROVE  LinkInv'
<1>1. h'.ws # None => HeardIn(conn', h'.ws)
    BY Parts DEF Keeps
<1>2. pending' # {} \/ reported' => \E c \in Conns : HeardIn(conn', c)
    BY Parts DEF Keeps
<1>3. ClosePending' /\ PongNeverLate'
    BY <1>1, <1>2 DEF ClosePending, PongNeverLate, HeardIn
<1> QED BY <1>3, Parts DEF LinkInv, LinkTypeOK, RestOK

\* A step that leaves the handler without a socket and the provider with nothing.
LEMMA ClearingStep ==
    ASSUME LinkInv, conn' \in [Conns -> Socket], h' \in Handler, h'.ws = None, h'.wait = 0,
           pending' = {}, reported' = FALSE, RestOK'
    PROVE  LinkInv'
<1>1. LinkTypeOK'
    BY DEF LinkTypeOK, RestOK
<1>2. ClosePending'
    BY DEF ClosePending
<1>3. PongNeverLate'
    BY DEF PongNeverLate
<1> QED BY <1>1, <1>2, <1>3 DEF LinkInv

-----------------------------------------------------------------------------
(* The exchange                                                            *)

\* handleConnection() replaces the handler's socket with the new one.
LEMMA ConnectStep ==
    ASSUME LinkInv, NEW c \in Conns, Connect(c)
    PROVE  LinkInv'
<1> DEFINE k == Closing(conn, h.ws)
           up == IF gw.secret = None THEN <<>> ELSE <<[type |-> "pair", arg |-> gw.secret]>>
           s == [Unused EXCEPT !.gw = "open", !.sv = "open", !.mine = TRUE, !.up = up]
<1>1. k \in [Conns -> Socket] /\ Keeps(conn, k)
    BY Parts, ClosingKeeps
<1>2. gw.secret # None => [type |-> "pair", arg |-> gw.secret] \in Up
    BY Parts DEF RestOK, Up
<1>3. up \in Seq(Up)
    BY <1>2
<1>4. /\ conn' = [k EXCEPT ![c] = s] /\ h' = [CloseExisting(h) EXCEPT !.ws = c, !.recent = FALSE]
      /\ gw' = [gw EXCEPT !.conn = c, !.st = "auth"] /\ asking' = asking \cup {c}
      /\ UNCHANGED <<verify, pair, reset, db, cache, pending, reported, events>>
      /\ conn[c] = Unused
    BY DEF Connect
<1> HIDE DEF k, up
<1>5. s \in Socket /\ s.mine /\ s.sv = "open"
    <2>1. Unused \in Socket
        BY DEF Unused, Socket
    <2> QED BY <1>3, <2>1 DEF Socket
<1>6. ~HeardIn(conn, c)
    BY <1>4 DEF HeardIn, Unused
<1> HIDE DEF s
<1>7. conn' \in [Conns -> Socket] /\ Keeps(conn, conn') /\ HeardIn(conn', c)
    BY <1>1, <1>4, <1>5, <1>6, Parts DEF Keeps, HeardIn
<1>8. h' \in Handler /\ h'.ws = c /\ h'.wait = 0
    BY <1>4, Parts, CloseExistingType DEF Handler
<1>9. RestOK'
    BY <1>4, Parts DEF RestOK
<1>10. ClosePending' /\ PongNeverLate'
    BY <1>4, <1>7, <1>8 DEF ClosePending, PongNeverLate, HeardIn
<1> QED BY <1>4, <1>7, <1>8, <1>9, <1>10, Parts DEF LinkInv, LinkTypeOK, RestOK

\* initiateAuth() sends its challenge to the socket the handler has by now.
LEMMA InitiateAuthStep ==
    ASSUME LinkInv, NEW c \in Conns, InitiateAuth(c)
    PROVE  LinkInv'
<1>1. RestOK' /\ pending' = pending /\ reported' = reported
    BY Parts DEF InitiateAuth, RestOK
<1>2. CASE db.key = None
    BY <1>1, <1>2, Parts, KeepingStep DEF InitiateAuth
<1>3. CASE db.key # None
    <2> DEFINE b == h.stale \/ h.chal # None
               m == [type |-> "challenge", arg |-> c]
    <2>1. b \in BOOLEAN /\ m \in Down
        BY DEF Down
    <2>2. h' = [h EXCEPT !.chal = c, !.stale = b] /\ conn' = SendTo(conn, h.ws, m)
        BY <1>3 DEF InitiateAuth
    <2> HIDE DEF b, m
    <2>3. h' \in Handler /\ h'.ws = h.ws /\ h'.wait = h.wait
        BY <2>1, <2>2, Parts DEF Handler
    <2>4. conn' \in [Conns -> Socket] /\ Keeps(conn, conn')
        BY <2>1, <2>2, Parts, SendToKeeps
    <2> QED BY <1>1, <2>3, <2>4, Parts, KeepingStep
<1> QED BY <1>2, <1>3

\* A message of the exchange that arrives: refused, or the step up to the first await.
LEMMA AuthMessageStep ==
    ASSUME LinkInv, NEW c \in Conns, RateLimited(c) \/ Response(c) \/ Pair(c)
    PROVE  LinkInv'
<1>1. Take(c)
    BY DEF RateLimited, Response, Pair
<1>2. /\ Taken(c) \in [Conns -> Socket] /\ Keeps(conn, Taken(c)) /\ Head(conn[c].up) \in Up
    BY <1>1, TakenKeeps
<1>3. pending' = pending /\ reported' = reported
    BY DEF RateLimited, Response, Pair
<1>4. CASE RateLimited(c)
    <2>1. /\ conn' \in [Conns -> Socket] /\ Keeps(conn, conn')
          /\ h' \in Handler /\ h'.ws = None /\ h'.wait = 0
        BY <1>2, <1>4, RefuseKeeps DEF RateLimited
    <2>2. RestOK'
        BY <1>4, Parts DEF RateLimited, RestOK
    <2> QED BY <1>3, <2>1, <2>2, KeepingStep
<1>5. CASE Response(c) /\ h.chal = None
    <2> DEFINE l == SendTo(Taken(c), h.ws, Error)
    <2>1. conn' = Closing(l, h.ws) /\ h' = [CloseExisting(h) EXCEPT !.recent = TRUE]
        BY <1>5 DEF Response
    <2>2. Error \in Down
        BY DEF Error, Down
    <2>3. l \in [Conns -> Socket] /\ Keeps(Taken(c), l)
        BY <1>2, <2>2, Parts, SendToKeeps
    <2> HIDE DEF l
    <2>4. conn' \in [Conns -> Socket] /\ Keeps(l, conn')
        BY <2>1, <2>3, Parts, ClosingKeeps
    <2>5. Keeps(conn, conn')
        BY <1>2, <2>3, <2>4 DEF Keeps
    <2>6. h' \in Handler /\ h'.ws = None /\ h'.wait = 0
        BY <2>1, Parts, CloseExistingType DEF Handler
    <2>7. RestOK'
        BY <1>5, Parts DEF Response, RestOK
    <2> QED BY <1>3, <2>4, <2>5, <2>6, <2>7, KeepingStep
<1>6. CASE Response(c) /\ h.chal # None
    <2>1. /\ verify' = Head(conn[c].up).arg /\ Head(conn[c].up).type = "response"
          /\ conn' = Taken(c) /\ h' = [h EXCEPT !.recent = TRUE]
        BY <1>6 DEF Response
    <2>2. verify' \in Conns
        BY <1>2, <2>1 DEF Up
    <2>3. h' \in Handler /\ h'.ws = h.ws /\ h'.wait = h.wait
        BY <2>1, Parts DEF Handler
    <2>4. RestOK'
        BY <1>6, <2>2, Parts DEF Response, RestOK
    <2> QED BY <1>2, <1>3, <2>1, <2>3, <2>4, Parts, KeepingStep
<1>7. CASE Pair(c)
    <2>1. /\ pair' = [NoPair EXCEPT !.at = "key", !.secret = Head(conn[c].up).arg, !.mine = TRUE]
          /\ Head(conn[c].up).type = "pair"
          /\ conn' = Taken(c) /\ h' = [h EXCEPT !.recent = TRUE]
        BY <1>7 DEF Pair
    <2>2. Head(conn[c].up).arg \in Secrets
        BY <1>2, <2>1 DEF Up
    <2>3. h' \in Handler /\ h'.ws = h.ws /\ h'.wait = h.wait
        BY <2>1, Parts DEF Handler
    <2>4. pair' \in [at : PairSteps, secret : Secrets \cup {None}, snap : Pairing, mine : BOOLEAN]
        BY <2>1, <2>2 DEF NoPair, PairSteps, Unpaired, Pairing
    <2>5. RestOK'
        BY <1>7, <2>4, Parts DEF Pair, RestOK
    <2> QED BY <1>2, <1>3, <2>1, <2>3, <2>5, Parts, KeepingStep
<1> QED BY <1>4, <1>5, <1>6, <1>7

\* The timers of the exchange: of this challenge, of an earlier one, or of the socket.
LEMMA ExpiryStep ==
    ASSUME LinkInv, StaleExpiry \/ HarmlessExpiry \/ AuthTimeout
    PROVE  LinkInv'
<1>1. RestOK' /\ pending' = pending /\ reported' = reported
    BY Parts, EventBound DEF StaleExpiry, HarmlessExpiry, AuthTimeout, RestOK
<1>2. CASE StaleExpiry
    <2> DEFINE l == SendTo(conn, h.ws, Error)
    <2>1. conn' = Closing(l, h.ws) /\ h' = [CloseExisting(h) EXCEPT !.stale = FALSE]
        BY <1>2 DEF StaleExpiry
    <2>2. Error \in Down
        BY DEF Error, Down
    <2>3. l \in [Conns -> Socket] /\ Keeps(conn, l)
        BY <2>2, Parts, SendToKeeps
    <2> HIDE DEF l
    <2>4. conn' \in [Conns -> Socket] /\ Keeps(l, conn')
        BY <2>1, <2>3, Parts, ClosingKeeps
    <2>5. Keeps(conn, conn')
        BY <2>3, <2>4 DEF Keeps
    <2>6. h' \in Handler /\ h'.ws = None /\ h'.wait = 0
        BY <2>1, Parts, CloseExistingType DEF Handler
    <2> QED BY <1>1, <2>4, <2>5, <2>6, KeepingStep
<1>3. CASE HarmlessExpiry
    <2>1. h' \in Handler /\ h'.ws = h.ws /\ h'.wait = h.wait /\ conn' = conn
        BY <1>3, Parts DEF HarmlessExpiry, Handler
    <2> QED BY <1>1, <2>1, Parts, KeepingStep
<1>4. CASE AuthTimeout
    <2>1. /\ conn' \in [Conns -> Socket] /\ Keeps(conn, conn')
          /\ h' \in Handler /\ h'.ws = None /\ h'.wait = 0
        BY <1>4, Parts, RefuseKeeps DEF AuthTimeout
    <2> QED BY <1>1, <2>1, KeepingStep
<1> QED BY <1>2, <1>3, <1>4

\* handleAuthResponse() with the key, or the exception that ends the process.
LEMMA VerifyStep ==
    ASSUME LinkInv, Verify \/ VerifyThrows
    PROVE  LinkInv'
<1>1. CASE Verify \/ (VerifyThrows /\ db.key = None)
    <2>1. RestOK' /\ pending' = pending /\ reported' = reported
        BY <1>1, Parts DEF Verify, VerifyThrows, RestOK
    <2>2. Refuse(conn) \/ Succeed(conn, None)
        BY <1>1 DEF Verify, VerifyThrows
    <2>3. /\ conn' \in [Conns -> Socket] /\ Keeps(conn, conn')
          /\ h' \in Handler /\ h'.ws \in {None, h.ws} /\ h'.wait <= 1
        BY <2>2, Parts, RefuseKeeps, SucceedKeeps
    <2> QED BY <2>1, <2>3, KeepingStep
<1>2. CASE VerifyThrows /\ db.key # None
    <2> DEFINE s(c) == [conn[c] EXCEPT !.sv = IF @ = "none" THEN @ ELSE "closed",
                                       !.mine = FALSE, !.up = <<>>]
    <2>1. ASSUME NEW c \in Conns
          PROVE  conn'[c] \in Socket
        <3>1. conn[c] \in Socket /\ <<>> \in Seq(Up)
            BY Parts
        <3>2. s(c) \in Socket
            BY <3>1 DEF Socket
        <3>3. [conn EXCEPT ![c].sv = IF @ = "none" THEN @ ELSE "closed",
                           ![c].mine = FALSE, ![c].up = <<>>] = [conn EXCEPT ![c] = s(c)]
            BY <3>1, Parts DEF Socket
        <3> HIDE DEF s
        <3>4. conn'[c] = Closed([conn EXCEPT ![c] = s(c)], c)[c]
            BY <1>2, <3>3 DEF VerifyThrows
        <3> DEFINE k == [conn EXCEPT ![c] = s(c)]
        <3>5. k \in [Conns -> Socket]
            BY <3>2, Parts
        <3> HIDE DEF k
        <3>6. Closed(k, c) \in [Conns -> Socket]
            BY <3>5, ClosedKeeps
        <3> QED BY <3>4, <3>6 DEF k
    <2>2. conn' \in [Conns -> Socket]
        <3>1. conn' = [c \in Conns |-> conn'[c]]
            BY <1>2 DEF VerifyThrows
        <3> QED BY <2>1, <3>1
    <2>3. h' \in Handler /\ h'.ws = None /\ h'.wait = 0
        BY <1>2, IdleType DEF VerifyThrows
    <2>4. RestOK'
        <3>1. pair' \in [at : PairSteps, secret : Secrets \cup {None}, snap : Pairing, mine : BOOLEAN]
            BY <1>2, NoPairType DEF VerifyThrows
        <3>2. reset' \in [at : ResetSteps, snap : Pairing]
            <4>1. reset' = [at |-> "none", snap |-> Unpaired]
                BY <1>2 DEF VerifyThrows
            <4> QED BY <4>1 DEF ResetSteps, Unpaired, Pairing
        <3> QED BY <1>2, <3>1, <3>2, Parts DEF VerifyThrows, RestOK
    <2>5. pending' = {} /\ reported' = FALSE
        BY <1>2 DEF VerifyThrows
    <2> QED BY <2>2, <2>3, <2>4, <2>5, ClearingStep
<1> QED BY <1>1, <1>2

\* The checks, reads and writes of a pairing.
LEMMA PairingStep ==
    ASSUME LinkInv, PairChecks \/ PairWrites \/ PairExpired
    PROVE  LinkInv'
<1>1. pending' = pending /\ reported' = reported
    BY DEF PairChecks, PairCheck, PairWrites, PairExpired
<1>2. Refuse(conn) \/ Succeed(conn, h.chal) \/ (h' = h /\ conn' = conn)
    BY DEF PairChecks, PairCheck, PairWrites, PairExpired
<1>3. /\ conn' \in [Conns -> Socket] /\ Keeps(conn, conn')
      /\ h' \in Handler /\ h'.ws \in {None, h.ws} /\ h'.wait <= 1
    BY <1>2, Parts, RefuseKeeps, SucceedKeeps
<1>4. /\ pair' \in [at : PairSteps, secret : Secrets \cup {None}, snap : Pairing, mine : BOOLEAN]
      /\ db' \in Pairing
    <2>1. NoPair \in [at : PairSteps, secret : Secrets \cup {None}, snap : Pairing, mine : BOOLEAN]
        BY NoPairType
    <2>2. CASE PairChecks
        <3>1. db' = db /\ \/ pair' = NoPair
                          \/ \E x \in {"secret", "age", "load1"} : pair' = [pair EXCEPT !.at = x]
            BY <2>2 DEF PairChecks, PairCheck
        <3> QED BY <2>1, <3>1, Parts DEF RestOK, PairSteps
    <2>3. CASE PairWrites /\ pair.at \in {"load1", "load2"}
        BY <2>3, Parts DEF PairWrites, RestOK, PairSteps
    <2>4. CASE PairWrites /\ pair.at \in {"save1", "save2"}
        BY <2>1, <2>4, Parts DEF PairWrites, RestOK, PairSteps, Unpaired, Pairing
    <2>5. CASE PairExpired
        BY <2>1, <2>5, Parts DEF PairExpired, RestOK
    <2> QED BY <2>2, <2>3, <2>4, <2>5 DEF PairWrites
<1>5. RestOK'
    BY <1>4, Parts DEF PairChecks, PairCheck, PairWrites, PairExpired, RestOK
<1> QED BY <1>1, <1>3, <1>5, KeepingStep

-----------------------------------------------------------------------------
(* Administration                                                          *)

\* The provider is replaced: the new handler has no socket and hears none.
LEMMA ReplaceStep ==
    ASSUME LinkInv, NEW p \in Pairing, Replace(p),
           reset' \in [at : ResetSteps, snap : Pairing], events' \in 0..MaxEvents
    PROVE  LinkInv'
<1> DEFINE k == Closing(conn, h.ws)
<1>1. k \in [Conns -> Socket]
    BY Parts, ClosingKeeps
<1>2. conn' = [c \in Conns |-> [k[c] EXCEPT !.mine = FALSE, !.up = <<>>]]
    BY DEF Replace
<1> HIDE DEF k
<1>3. conn' \in [Conns -> Socket]
    <2>1. <<>> \in Seq(Up)
        OBVIOUS
    <2>2. ASSUME NEW c \in Conns PROVE [k[c] EXCEPT !.mine = FALSE, !.up = <<>>] \in Socket
        BY <1>1, <2>1 DEF Socket
    <2> QED BY <1>2, <2>2
<1>4. h' \in Handler /\ h'.ws = None /\ h'.wait = 0
    BY IdleType DEF Replace
<1>5. RestOK'
    BY Parts DEF Replace, RestOK
<1>6. pending' = {} /\ reported' = FALSE
    BY DEF Replace
<1> QED BY <1>3, <1>4, <1>5, <1>6, ClearingStep

\* Resetting the pairing and saving the provider's settings.
LEMMA AdministrationStep ==
    ASSUME LinkInv, Administration
    PROVE  LinkInv'
<1>1. CASE ResetStarts
    <2>1. conn' \in [Conns -> Socket] /\ Keeps(conn, conn')
        BY <1>1, Parts, ClosingKeeps DEF ResetStarts
    <2>2. h' \in Handler /\ h'.ws = None /\ h'.wait = 0
        BY <1>1, Parts, CloseExistingType DEF ResetStarts
    <2>3. RestOK' /\ pending' = pending /\ reported' = reported
        BY <1>1, Parts, EventBound DEF ResetStarts, RestOK, ResetSteps, Unpaired, Pairing
    <2> QED BY <2>1, <2>2, <2>3, KeepingStep
<1>2. CASE ResetWrites
    <2>1. /\ reset' \in [at : ResetSteps, snap : Pairing] /\ db' \in Pairing
        BY <1>2, Parts DEF ResetWrites, RestOK, ResetSteps, Unpaired, Pairing, Secrets
    <2>2. RestOK' /\ pending' = pending /\ reported' = reported /\ h' = h /\ conn' = conn
        BY <1>2, <2>1, Parts DEF ResetWrites, RestOK
    <2> QED BY <2>2, Parts, KeepingStep
<1>3. CASE ResetUpdates
    <2>1. [key |-> None, secret |-> "second"] \in Pairing
        BY DEF Pairing, Secrets
    <2>2. /\ reset' \in [at : ResetSteps, snap : Pairing] /\ events' \in 0..MaxEvents
          /\ Replace([key |-> None, secret |-> "second"])
        BY <1>3, Parts DEF ResetUpdates, ResetSteps, Unpaired, Pairing, RestOK
    <2> QED BY <2>1, <2>2, ReplaceStep
<1>4. CASE SaveSettings
    <2>1. /\ reset' \in [at : ResetSteps, snap : Pairing] /\ events' \in 0..MaxEvents
          /\ Replace(cache) /\ cache \in Pairing
        BY <1>4, Parts, EventBound DEF SaveSettings, RestOK
    <2> QED BY <2>1, ReplaceStep
<1> QED BY <1>1, <1>2, <1>3, <1>4 DEF Administration

-----------------------------------------------------------------------------
(* Losing a socket                                                         *)

\* A socket goes silent, its close event comes, or the ping sees that it is silent.
LEMMA LossStep ==
    ASSUME LinkInv, Loss
    PROVE  LinkInv'
<1>1. CASE PingTick
    <2>1. h.wait # PongTicks + 1
        BY Parts DEF PongTicks, Handler
    <2>2. /\ h' = [h EXCEPT !.wait = IF h.pong THEN @ ELSE 1, !.pong = FALSE]
          /\ UNCHANGED <<conn, pending, reported, asking, verify, pair, reset, db, cache, gw, events>>
        BY <1>1, <2>1 DEF PingTick
    <2>3. h' \in Handler /\ h'.ws = h.ws /\ h'.wait <= 1
        <3> DEFINE w == IF h.pong THEN h.wait ELSE 1
        <3>1. w \in 0..PongTicks + 1 /\ w <= 1
            BY Parts DEF Handler, PongTicks
        <3>2. h' = [h EXCEPT !.wait = w, !.pong = FALSE]
            BY <2>2
        <3> HIDE DEF w
        <3> QED BY <3>1, <3>2, Parts DEF Handler
    <2>4. RestOK'
        BY <2>2, Parts DEF RestOK
    <2> QED BY <2>2, <2>3, <2>4, Parts, KeepingStep
<1>2. ASSUME NEW c \in Conns, Lose(c)
      PROVE  LinkInv'
    <2> DEFINE s == [conn[c] EXCEPT !.lossy = TRUE, !.up = <<>>, !.down = <<>>]
    <2>1. conn[c] \in Socket /\ <<>> \in Seq(Up) /\ <<>> \in Seq(Down)
        BY Parts
    <2>2. s \in Socket /\ s.mine = conn[c].mine /\ s.sv = conn[c].sv
        BY <2>1 DEF Socket
    <2>3. conn' = [conn EXCEPT ![c] = s]
        BY <1>2, <2>1, Parts DEF Lose, Socket
    <2> HIDE DEF s
    <2>4. conn' \in [Conns -> Socket] /\ Keeps(conn, conn')
        BY <2>2, <2>3, Parts, SocketKeeps
    <2>5. RestOK' /\ pending' = pending /\ reported' = reported /\ h' = h
        BY <1>2, Parts, EventBound DEF Lose, RestOK
    <2> QED BY <2>4, <2>5, Parts, KeepingStep
<1>3. ASSUME NEW c \in Conns, ServerSeesClose(c)
      PROVE  LinkInv'
    <2> DEFINE s == [conn[c] EXCEPT !.sv = "closed", !.up = <<>>]
               k == [conn EXCEPT ![c] = s]
    <2>1. conn[c] \in Socket /\ <<>> \in Seq(Up) /\ <<>> \in Seq(Down)
        BY Parts
    <2>2. s \in Socket /\ s.mine = conn[c].mine
        BY <2>1 DEF Socket
    <2>3. conn' = Closed(k, c)
        BY <1>3, <2>1, Parts DEF ServerSeesClose, Socket
    <2> HIDE DEF s
    <2>4. k \in [Conns -> Socket] /\ \A d \in Conns \ {c} : k[d] = conn[d]
        BY <2>2, Parts
    <2> HIDE DEF k
    <2>5. conn' \in [Conns -> Socket] /\ \A d \in Conns \ {c} : conn'[d] = conn[d]
        BY <2>3, <2>4, ClosedKeeps
    <2>6. RestOK'
        BY <1>3, Parts DEF ServerSeesClose, RestOK
    <2>7. CASE conn[c].mine
        <3>1. h' = CloseExisting(h) /\ pending' = {} /\ reported' = FALSE
            BY <1>3, <2>7 DEF ServerSeesClose
        <3> QED BY <2>5, <2>6, <3>1, Parts, CloseExistingType, ClearingStep
    <2>8. CASE ~conn[c].mine
        <3>1. h' = h /\ pending' = pending /\ reported' = reported
            BY <1>3, <2>8 DEF ServerSeesClose
        <3>2. Keeps(conn, conn')
            BY <2>5, <2>8 DEF Keeps, HeardIn
        <3> QED BY <2>5, <2>6, <3>1, <3>2, Parts, KeepingStep
    <2> QED BY <2>7, <2>8
<1> QED BY <1>1, <1>2, <1>3 DEF Loss

-----------------------------------------------------------------------------
(* The gateway and the provider                                            *)

\* The gateway closes its end; the server has yet to see it.
LEMMA GatewayCloses ==
    ASSUME NEW k \in [Conns -> Socket], NEW c \in Conns
    PROVE  LET l == Closed([k EXCEPT ![c].gw = "closed", ![c].down = <<>>], c)
           IN  l \in [Conns -> Socket] /\ Keeps(k, l)
<1> DEFINE s == [k[c] EXCEPT !.gw = "closed", !.down = <<>>]
           k2 == [k EXCEPT ![c] = s]
<1>1. k[c] \in Socket /\ <<>> \in Seq(Down)
    OBVIOUS
<1>2. s \in Socket /\ s.mine = k[c].mine /\ s.sv = k[c].sv
    BY <1>1 DEF Socket
<1>3. [k EXCEPT ![c].gw = "closed", ![c].down = <<>>] = k2
    BY <1>1 DEF Socket
<1> HIDE DEF s
<1>4. k2 \in [Conns -> Socket] /\ Keeps(k, k2)
    BY <1>2, SocketKeeps
<1> HIDE DEF k2
<1>5. Closed(k2, c) \in [Conns -> Socket] /\ Keeps(k2, Closed(k2, c))
    BY <1>4, ClosedKeeps
<1>6. Keeps(k, Closed(k2, c))
    BY <1>4, <1>5 DEF Keeps
<1> QED BY <1>3, <1>5, <1>6

\* A message is taken and answered on the same socket.
LEMMA GatewayAnswers ==
    ASSUME LinkInv, NEW c \in Conns, conn[c].down # <<>>,
           NEW u \in Seq(Up)
    PROVE  LET s == [conn[c] EXCEPT !.down = Tail(@), !.up = u]
           IN  [conn EXCEPT ![c] = s] \in [Conns -> Socket] /\ Keeps(conn, [conn EXCEPT ![c] = s])
<1> DEFINE s == [conn[c] EXCEPT !.down = Tail(@), !.up = u]
<1>1. conn \in [Conns -> Socket] /\ conn[c] \in Socket /\ conn[c].down \in Seq(Down)
    BY Parts DEF Socket
<1>2. Tail(conn[c].down) \in Seq(Down)
    BY <1>1
<1>3. s \in Socket /\ s.mine = conn[c].mine /\ s.sv = conn[c].sv
    BY <1>1, <1>2 DEF Socket
<1> HIDE DEF s
<1>4. [conn EXCEPT ![c] = s] \in [Conns -> Socket] /\ Keeps(conn, [conn EXCEPT ![c] = s])
    BY <1>1, <1>3, SocketKeeps
<1> QED BY <1>4 DEF s

\* What the gateway is told, and what it does about it.
LEMMA GatewayReceivesStep ==
    ASSUME LinkInv, GatewayReceives
    PROVE  LinkInv'
<1> DEFINE c == gw.conn
           m == Head(conn[c].down)
           k == [conn EXCEPT ![c].down = Tail(@)]
           Answered(u) == conn' = [conn EXCEPT ![c] = [conn[c] EXCEPT !.down = Tail(@), !.up = u]]
           GwType == [conn : Conns \cup {None}, st : {"down", "auth", "up"}, secret : Secrets \cup {None}]
<1>1. c \in Conns /\ conn[c].down # <<>> /\ gw \in GwType
    BY Parts DEF GatewayReceives, RestOK
<1>2. conn \in [Conns -> Socket] /\ conn[c] \in Socket /\ conn[c].up \in Seq(Up)
      /\ conn[c].down \in Seq(Down)
    BY <1>1, Parts DEF Socket
<1>3. m \in Down
    BY <1>1, <1>2
<1>4. /\ UNCHANGED <<h, asking, verify, pair, reset, db, cache, pending, reported, events>>
    BY DEF GatewayReceives
<1>5. ASSUME conn' \in [Conns -> Socket], Keeps(conn, conn'), gw' \in GwType
      PROVE  LinkInv'
    <2>1. RestOK'
        BY <1>4, <1>5, Parts DEF RestOK
    <2> QED BY <1>4, <1>5, <2>1, Parts, KeepingStep
<1>6. ASSUME NEW u \in Seq(Up), Answered(u), gw' \in GwType
      PROVE  LinkInv'
    <2>1. conn' \in [Conns -> Socket] /\ Keeps(conn, conn')
        BY <1>1, <1>6, GatewayAnswers
    <2> QED BY <1>5, <1>6, <2>1
<1>7. ASSUME NEW x \in Up, conn' = [k EXCEPT ![c].up = Append(@, x)], gw' \in GwType
      PROVE  LinkInv'
    <2>1. Append(conn[c].up, x) \in Seq(Up)
        BY <1>2, <1>7
    <2>2. Answered(Append(conn[c].up, x))
        BY <1>1, <1>2, <1>7 DEF Socket
    <2> QED BY <1>6, <1>7, <2>1, <2>2
<1>8. ASSUME conn' = k, gw' \in GwType
      PROVE  LinkInv'
    <2>1. Answered(conn[c].up)
        BY <1>1, <1>2, <1>8 DEF Socket
    <2> QED BY <1>2, <1>6, <1>8, <2>1
<1>9. CASE m.type = "challenge"
    <2>1. conn' = [k EXCEPT ![c].up = Append(@, [type |-> "response", arg |-> m.arg])] /\ gw' = gw
        BY <1>9 DEF GatewayReceives
    <2>2. [type |-> "response", arg |-> m.arg] \in Up
        BY <1>3, <1>9 DEF Up, Down
    <2> QED BY <1>1, <1>7, <2>1, <2>2
<1>10. CASE m.type = "success"
    <2>1. gw' = [gw EXCEPT !.st = "up"] /\ gw' \in GwType
        BY <1>1, <1>10 DEF GatewayReceives
    <2>2. \/ conn' = k
          \/ conn' = [k EXCEPT ![c].up = Append(@, [type |-> "report", arg |-> None])]
        BY <1>10 DEF GatewayReceives
    <2>3. [type |-> "report", arg |-> None] \in Up
        BY DEF Up
    <2> QED BY <1>7, <1>8, <2>1, <2>2, <2>3
<1>11. CASE m.type = "request"
    <2>1. conn' = [k EXCEPT ![c].up = Append(@, [type |-> "result", arg |-> m.arg])] /\ gw' = gw
        BY <1>11 DEF GatewayReceives
    <2>2. [type |-> "result", arg |-> m.arg] \in Up
        BY <1>3, <1>11 DEF Up, Down
    <2> QED BY <1>1, <1>7, <2>1, <2>2
<1>12. CASE m.type = "error"
    <2>1. \/ Hangup(c)
          \/ conn' = k /\ gw' = gw
        BY <1>12 DEF GatewayReceives
    <2>2. CASE Hangup(c)
        BY <1>1, <1>2, <1>5, <2>2, GatewayCloses DEF Hangup
    <2> QED BY <1>1, <1>8, <2>1, <2>2
<1>13. m.type \in {"challenge", "success", "request", "error"}
    BY <1>3 DEF Down
<1> HIDE DEF m
<1> QED BY <1>9, <1>10, <1>11, <1>12, <1>13

\* The gateway receives, gives up a socket, restarts, or is paired anew.
LEMMA GatewayStep ==
    ASSUME LinkInv, Gateway
    PROVE  LinkInv'
<1> DEFINE GwType == [conn : Conns \cup {None}, st : {"down", "auth", "up"}, secret : Secrets \cup {None}]
<1>1. ASSUME conn' \in [Conns -> Socket], Keeps(conn, conn'), gw' \in GwType, events' \in 0..MaxEvents,
             UNCHANGED <<h, asking, verify, pair, reset, db, cache, pending, reported>>
      PROVE  LinkInv'
    <2>1. RestOK'
        BY <1>1, Parts DEF RestOK
    <2> QED BY <1>1, <2>1, Parts, KeepingStep
<1>2. CASE GatewayHangsUp
    <2>1. Hangup(gw.conn) /\ gw.conn \in Conns /\ gw \in GwType /\ events' = events
          /\ UNCHANGED <<h, asking, verify, pair, reset, db, cache, pending, reported>>
        BY <1>2, Parts DEF GatewayHangsUp, RestOK
    <2>2. conn' \in [Conns -> Socket] /\ Keeps(conn, conn')
        BY <2>1, Parts, GatewayCloses DEF Hangup
    <2>3. gw' \in GwType
        BY <2>1 DEF Hangup
    <2>4. events' \in 0..MaxEvents
        BY <2>1, Parts DEF RestOK
    <2> HIDE DEF GwType
    <2> QED BY <1>1, <2>1, <2>2, <2>3, <2>4
<1>3. CASE GatewayRestarts
    <2>1. /\ events' \in 0..MaxEvents /\ gw' \in GwType /\ gw.conn \in Conns \cup {None}
          /\ UNCHANGED <<h, asking, verify, pair, reset, db, cache, pending, reported>>
        BY <1>3, Parts, EventBound DEF GatewayRestarts, RestOK
    <2>2. conn' \in [Conns -> Socket] /\ Keeps(conn, conn')
        BY <1>3, <2>1, Parts, GatewayCloses DEF GatewayRestarts
    <2> HIDE DEF GwType
    <2> QED BY <1>1, <2>1, <2>2
<1>4. CASE OperatorPairs
    <2>1. gw' \in GwType
        BY <1>4, Parts DEF OperatorPairs, RestOK, Pairing
    <2>2. /\ events' \in 0..MaxEvents /\ conn' = conn
          /\ UNCHANGED <<h, asking, verify, pair, reset, db, cache, pending, reported>>
        BY <1>4, Parts DEF OperatorPairs, RestOK
    <2> HIDE DEF GwType
    <2> QED BY <1>1, <2>1, <2>2, Parts
<1> QED BY <1>2, <1>3, <1>4, GatewayReceivesStep DEF Gateway

\* Requests and the number are taken on only while a close event is still to come.
LEMMA ProviderStep ==
    ASSUME LinkInv, Provider
    PROVE  LinkInv'
<1>1. ASSUME conn' \in [Conns -> Socket], Keeps(conn, conn'), \E c \in Conns : HeardIn(conn, c),
             h' = h, pending' \subseteq Requests, reported' \in BOOLEAN, RestOK'
      PROVE  LinkInv'
    <2>1. \E c \in Conns : HeardIn(conn', c)
        BY <1>1 DEF Keeps
    <2>2. h'.ws # None => HeardIn(conn', h'.ws)
        BY <1>1, Parts DEF Keeps
    <2>3. ClosePending' /\ PongNeverLate'
        BY <1>1, <2>1, <2>2, Parts DEF ClosePending, PongNeverLate, HeardIn
    <2> QED BY <1>1, <2>3, Parts DEF LinkInv, LinkTypeOK, RestOK
<1>2. ASSUME NEW r \in Requests, Request(r)
      PROVE  LinkInv'
    <2>1. h.ws \in Conns /\ HeardIn(conn, h.ws)
        BY <1>2, Parts DEF Request, Connected
    <2>2. [type |-> "request", arg |-> r] \in Down
        BY DEF Down
    <2>3. conn' \in [Conns -> Socket] /\ Keeps(conn, conn')
        BY <1>2, <2>2, Parts, SendToKeeps DEF Request
    <2>4. pending' \subseteq Requests /\ reported' \in BOOLEAN /\ h' = h /\ RestOK'
        BY <1>2, Parts DEF Request, RestOK
    <2> QED BY <1>1, <2>1, <2>3, <2>4
<1>3. ASSUME NEW r \in Requests, RequestTimesOut(r)
      PROVE  LinkInv'
    <2>1. /\ pending' \subseteq pending /\ reported' = reported /\ h' = h /\ conn' = conn /\ RestOK'
        BY <1>3, Parts DEF RequestTimesOut, RestOK
    <2> QED BY <2>1, Parts, KeepingStep
<1>4. ASSUME NEW c \in Conns, Dispatch(c)
      PROVE  LinkInv'
    <2>1. Take(c) /\ conn' = Taken(c) /\ h' = h
        BY <1>4 DEF Dispatch, Report, Result
    <2>2. conn' \in [Conns -> Socket] /\ Keeps(conn, conn') /\ HeardIn(conn, c)
        BY <2>1, TakenKeeps
    <2>3. h.auth \in BOOLEAN
        BY Parts DEF Handler
    <2>4. pending' \subseteq Requests /\ reported' \in BOOLEAN
        BY <1>4, <2>3, Parts DEF Dispatch, Report, Result
    <2>5. RestOK'
        BY <1>4, Parts DEF Dispatch, Report, Result, RestOK
    <2> QED BY <1>1, <2>1, <2>2, <2>4, <2>5
<1> QED BY <1>2, <1>3, <1>4 DEF Provider

-----------------------------------------------------------------------------
(* The theorems                                                            *)

\* Nothing is connected yet.
LEMMA LinkInit == Init => LinkInv
<1> SUFFICES ASSUME Init PROVE LinkInv
    OBVIOUS
<1>1. Unused \in Socket
    BY DEF Unused, Socket
<1>2. db \in Pairing
    BY DEF Init, Pairing, Secrets
<1>3. RestOK
    <2>1. 0 \in 0..MaxEvents
        BY LinkAssumption
    <2>2. reset \in [at : ResetSteps, snap : Pairing]
        BY DEF Init, ResetSteps, Unpaired, Pairing
    <2>3. gw \in [conn : Conns \cup {None}, st : {"down", "auth", "up"}, secret : Secrets \cup {None}]
        BY <1>2 DEF Init, Pairing
    <2> QED BY <1>2, <2>1, <2>2, <2>3, NoPairType DEF Init, RestOK
<1>4. conn \in [Conns -> Socket]
    BY <1>1 DEF Init
<1>5. ClosePending /\ PongNeverLate
    BY IdleType DEF Init, ClosePending, PongNeverLate
<1> QED BY <1>3, <1>4, <1>5, IdleType DEF Init, LinkInv, LinkTypeOK, RestOK

\* Every step of either end, of the network and of the administrator keeps the invariant.
LEMMA LinkStep == LinkInv /\ [Next]_vars => LinkInv'
<1> SUFFICES ASSUME LinkInv, [Next]_vars PROVE LinkInv'
    OBVIOUS
<1>1. CASE UNCHANGED vars
    <2>1. /\ RestOK' /\ h' = h /\ conn' = conn /\ pending' = pending /\ reported' = reported
        BY <1>1, Parts DEF vars, RestOK
    <2> QED BY <2>1, Parts, KeepingStep
<1>2. CASE Exchange
    BY <1>2, ConnectStep, InitiateAuthStep, AuthMessageStep, ExpiryStep, VerifyStep, PairingStep
       DEF Exchange
<1> QED BY <1>1, <1>2, AdministrationStep, LossStep, GatewayStep, ProviderStep DEF Next

\* The invariant of the link holds in every reachable state.
THEOREM LinkInvariant == Spec => []LinkInv
    BY LinkInit, LinkStep, PTL DEF Spec

\* What is checked of the link follows from it.
LEMMA LinkInvImplies ==
    LinkInv => LinkTypeOK /\ NothingLeftBehind /\ PongNeverLate
<1> SUFFICES ASSUME LinkInv PROVE LinkTypeOK /\ NothingLeftBehind /\ PongNeverLate
    OBVIOUS
<1>1. ASSUME \A c \in Conns : conn[c].mine => conn[c].sv = "closed"
      PROVE  h.ws = None /\ pending = {} /\ ~reported
    <2>1. \A c \in Conns : ~HeardIn(conn, c)
        BY <1>1 DEF HeardIn
    <2> QED BY <2>1, Parts
<1> QED BY <1>1 DEF LinkInv, NothingLeftBehind

\* The handler, the sockets and the pairing stay within their declared values, and every
\* message under way has the argument its reader relies on.
THEOREM LinkTypeCorrect == Spec => []LinkTypeOK
    BY LinkInvariant, LinkInvImplies, PTL

\* Once the provider's sockets are seen to close, it holds none of their requests and does
\* not offer the gateway's number (handleDisconnect(), closeExisting()).
THEOREM LinkLeavesNothing == Spec => []NothingLeftBehind
    BY LinkInvariant, LinkInvImplies, PTL

\* A silent gateway is never dropped by the ping: the timer of PONG_TIMEOUT_MS is started
\* again before it can fire (startPingInterval(), startPongTimeout()).
THEOREM PongNeverFires == Spec => []PongNeverLate
    BY LinkInvariant, LinkInvImplies, PTL
=============================================================================
