------------------------------- MODULE WebCall -------------------------------
(***************************************************************************)
(* One browser tab of the web client in a call: the CallController with    *)
(* its WebRtcCallClients (web/src/call), the event socket (web/src/ws.ts)  *)
(* and the server's call routes as the tab sees them.                      *)
(*                                                                         *)
(* placeCall and answer are asynchronous flows.  Each runs in an attempt,  *)
(* att[i].at being the await it is suspended at; several may be under way  *)
(* because the single-call guard looks at the phase, which stays idle      *)
(* until the microphone is granted.  Everything between two awaits is one  *)
(* step; the handlers call one another, so they are written as functions   *)
(* from the state of the tab to the next one.                              *)
(***************************************************************************)
EXTENDS Naturals, Sequences, FiniteSets

CONSTANTS
    InCalls,      \* calls that arrive from outside
    OutCalls,     \* outbound calls, of this tab or of the user's other devices
    Attempts,     \* runs of placeCall and answer
    MaxEvents,    \* bound on attempts and losses of the socket together
    None,         \* no call, no attempt
    MaxDrops,     \* bound on losses of the event socket
    MaxInbox      \* bound on messages under way on it

Calls == InCalls \cup OutCalls

\* A call has one direction, and the null value is none of the others.
ASSUME WebCallAssumption ==
    /\ InCalls \cap OutCalls = {}
    /\ None \notin Calls \cup Attempts
    /\ MaxDrops \in Nat

VARIABLES
    tab,        \* the controller: store, timers, alerting, and its attempts
    declines,   \* calls with a decline request on its way that may still end them
    hanging,    \* calls for which hangup() awaits the answer to its decline
    inbox,      \* messages on the event socket, in order
    ws,         \* "up" or "down"
    recon,      \* the request GET /api/calls/active of reconcile(), and its answer
    served,     \* the calls at the server
    drops       \* losses of the socket so far

vars == <<tab, declines, hanging, inbox, ws, recon, served, drops>>

Kinds == {"disconnected", "connecting", "connected", "failed"}
Awaits == {"unused", "make", "made", "mic", "sdp", "answer", "granted",
           "refused", "offer", "apply", "done"}

Directions == {"inbound", "outbound"}

Attempt == [at : Awaits, call : Calls \cup {None}, dir : Directions, kind : Kinds,
            pc : {"none", "open", "closed"}, closed : BOOLEAN,
            timed : BOOLEAN, bound : BOOLEAN]

Tab == [phase    : {"idle", "connecting", "ringing", "connected", "failed"},
        call     : Calls \cup {None},
        dir      : Directions,
        incoming : Calls \cup {None},
        held     : SUBSET Calls,
        client   : Attempts \cup {None},
        cap      : Calls \cup {None},
        noAnswer : Calls \cup {None},
        ringtone : BOOLEAN,
        att      : [Attempts -> Attempt]]

Message == [type : {"ringing", "connected", "elsewhere", "cancelled"},
            call : Calls]

Listing == [at : {"none", "asked", "listed"}, live : SUBSET Calls, ringing : SUBSET Calls]
NoListing(at) == [at |-> at, live |-> {}, ringing |-> {}]

\* Type invariant: the store, the timers and the attempts stay within the
\* values the controller's and the client's declarations allow.
WebTypeOK ==
    /\ tab \in Tab
    /\ declines \subseteq Calls
    /\ hanging \subseteq Calls
    /\ inbox \in Seq(Message)
    /\ ws \in {"up", "down"}
    /\ recon \in Listing
    /\ served \in [Calls -> {"none", "ringing", "mine", "other", "ended"}]
    /\ drops \in 0..MaxDrops

Fresh == [at |-> "unused", call |-> None, dir |-> "inbound",
          kind |-> "disconnected", pc |-> "none",
          closed |-> FALSE, timed |-> FALSE, bound |-> FALSE]

Init ==
    /\ tab = [phase |-> "idle", call |-> None, dir |-> "inbound", incoming |-> None, held |-> {},
              client |-> None, cap |-> None, noAnswer |-> None,
              ringtone |-> FALSE,
              att |-> [i \in Attempts |-> Fresh]]
    /\ declines = {}
    /\ hanging = {}
    /\ inbox = <<>>
    /\ ws = "up"
    /\ recon = NoListing("none")
    /\ served = [c \in Calls |-> "none"]
    /\ drops = 0

-----------------------------------------------------------------------------
(***************************************************************************)
(* The handlers the controller's methods are built from.                   *)
(***************************************************************************)

\* WebRtcCallClient.close(): stops the track and closes the peer connection
\* that exist by now; a second call does nothing.
Close(a) ==
    IF a.closed THEN a
    ELSE [a EXCEPT !.closed = TRUE, !.timed = FALSE,
                   !.pc = IF @ = "open" THEN "closed" ELSE @,
                   !.kind = "disconnected"]

\* teardownClient(): both timers, the subscription and the client.
Teardown(t) ==
    LET u == [t EXCEPT !.cap = None, !.noAnswer = None, !.client = None]
    IN  IF t.client = None THEN u
        ELSE [u EXCEPT !.att[t.client] = [Close(@) EXCEPT !.bound = FALSE]]

\* Fault: the phase outlives the call.
ResetKeepsPhase(t) ==
    [Teardown(t) EXCEPT !.call = None, !.dir = "inbound", !.incoming = None, !.ringtone = FALSE]

\* resetToIdle()
Reset(t) ==
    [Teardown(t) EXCEPT !.phase = "idle", !.call = None, !.dir = "inbound",
                        !.incoming = None, !.ringtone = FALSE]

\* Fault: the session outlives the surface.
EnforceSessionVisibilityMissing(t) == t

\* enforceSessionVisibility(): no session without a surface that shows it.
EnforceSessionVisibility(t) ==
    IF t.client = None \/ (t.call # None /\ t.phase \in {"connecting", "ringing", "connected"})
    THEN t
    ELSE [Teardown(t) EXCEPT !.phase = "idle",
                             !.call = IF t.phase = "idle" THEN @ ELSE None]

\* setPhase()
SetPhase(t, p) ==
    IF t.phase = p THEN t ELSE EnforceSessionVisibility([t EXCEPT !.phase = p])

\* applyWebRtcState(): what a change of a bound client's state does to the phase.
ApplyWebRtcState(t, kind) ==
    IF t.client = None THEN t
    ELSE CASE kind = "connecting" ->
                IF t.phase \in {"connected", "ringing"} THEN t ELSE SetPhase(t, "connecting")
           [] kind = "connected" ->
                SetPhase([t EXCEPT !.cap = None, !.noAnswer = None], "connected")
           [] kind = "failed" -> SetPhase([t EXCEPT !.cap = None], "failed")
           [] OTHER -> IF t.phase = "failed" THEN SetPhase(t, "idle") ELSE t

\* A client's setState(): its store first, then the controller.  The state of a client
\* the controller has unsubscribed from is not followed any more.
ClientState(t, i, kind) ==
    IF ~t.att[i].bound THEN t
    ELSE ApplyWebRtcState([t EXCEPT !.att[i].kind = kind,
                                    !.att[i].timed = @ /\ kind = "connecting"], kind)

\* isBusy(): the single-call guard.
IsBusy(t) == t.phase \in {"connecting", "ringing", "connected"}

\* What the page offers: the dialer places a call only while the controller is
\* idle, the incoming surface answers and declines, the call banner hangs up.
MayDial == tab.phase = "idle"
OfferShown == tab.incoming # None
BannerShown == tab.client # None \/ (tab.call # None /\ IsBusy(tab))

\* Fault: the surface opens without the ringtone.
PresentIncomingSilently(t, c) == [t EXCEPT !.incoming = c]

\* startRingtone(): until it is stopped, the burst is played again and again.
StartRingtone(t) == [t EXCEPT !.ringtone = TRUE]

\* presentIncoming()
PresentIncoming(t, c) == [StartRingtone(t) EXCEPT !.incoming = c]

\* Dismissal of the incoming surface with its ringtone.
Dismiss(t) == [t EXCEPT !.incoming = None, !.ringtone = FALSE]

\* The client of attempt i becomes the controller's client and is subscribed to;
\* a client that was there before is neither closed nor unsubscribed.
Bind(t, i) == [t EXCEPT !.client = i, !.att[i].at = "mic", !.att[i].bound = TRUE]

\* enterRinging(): the outbound call waits for the far party, under a timer.
EnterRinging(t, c) ==
    IF t.call # c \/ t.dir = "inbound" \/ t.phase \in {"connected", "idle", "failed"} THEN t
    ELSE [SetPhase(t, "ringing") EXCEPT !.noAnswer = c]

\* The flow of attempt i ends.
Done(t, i) == [t EXCEPT !.att[i].at = "done", !.att[i].call = None, !.att[i].dir = "inbound"]

\* The server puts messages on the socket; they are lost while it is down.
Send(ms) ==
    /\ Len(inbox) + Len(ms) <= MaxInbox
    /\ inbox' = IF ws = "up" THEN inbox \o ms ELSE inbox

Live(c) == served[c] \in {"ringing", "mine", "other"}

\* Requests to decline these calls go out; for a call that is over one changes nothing.
SendDeclines(cs) == declines' = declines \cup {c \in cs : Live(c)}

Spent == drops + Cardinality({i \in Attempts : tab.att[i].at # "unused"})

\* Attempts are numbered in the order they start.
NextAttempt(i) ==
    /\ tab.att[i].at = "unused" /\ Spent < MaxEvents
    /\ \A j \in Attempts : j < i => tab.att[j].at # "unused"

-----------------------------------------------------------------------------
(***************************************************************************)
(* placeCall and answer                                                    *)
(***************************************************************************)

\* The user submits the dialer; the request to make the call goes out.
PlaceCall(i) ==
    /\ MayDial
    /\ NextAttempt(i)
    /\ tab' = [tab EXCEPT !.att[i].at = "make", !.att[i].dir = "outbound"]
    /\ UNCHANGED <<declines, hanging, inbox, ws, recon, served, drops>>

\* POST /api/calls/make at the server: the call exists before the answer is back.
ServerMakes(i) ==
    /\ tab.att[i].at = "make"
    /\ \E c \in OutCalls :
         /\ served[c] = "none"
         /\ served' = [served EXCEPT ![c] = "ringing"]
         /\ tab' = [tab EXCEPT !.att[i].at = "made", !.att[i].call = c]
    /\ UNCHANGED <<declines, hanging, inbox, ws, recon, drops>>

\* The request is refused, fails, or exceeds MAKE_TIMEOUT_MS.
MakeFails(i) ==
    /\ tab.att[i].at \in {"make", "made"}
    /\ tab' = Done(Reset(tab), i)
    /\ UNCHANGED <<declines, hanging, inbox, ws, recon, served, drops>>

\* The response names the call: it becomes the active one, the client is created.
MakeReturns(i) ==
    /\ tab.att[i].at = "made"
    /\ tab' = Bind([tab EXCEPT !.call = tab.att[i].call, !.dir = "outbound",
                                   !.incoming = None], i)
    /\ UNCHANGED <<declines, hanging, inbox, ws, recon, served, drops>>

\* Fault: the incoming surface stays open while the call is answered.
AnswerKeepsSurface(i) ==
    /\ ~IsBusy(tab)
    /\ OfferShown
    /\ NextAttempt(i)
    /\ tab' = Bind([tab EXCEPT !.call = tab.incoming, !.dir = "inbound", !.att[i].call = tab.incoming], i)
    /\ UNCHANGED <<declines, hanging, inbox, ws, recon, served, drops>>

\* The user answers the displayed call; the microphone is asked for first.
Answer(i) ==
    /\ ~IsBusy(tab)
    /\ OfferShown
    /\ NextAttempt(i)
    /\ tab' = Bind([Dismiss(tab) EXCEPT !.call = tab.incoming, !.dir = "inbound",
                                        !.att[i].call = tab.incoming], i)
    /\ UNCHANGED <<declines, hanging, inbox, ws, recon, served, drops>>

\* createOffer(): getUserMedia resolves, whether or not the client was closed since.
MicGranted(i) ==
    /\ tab.att[i].at = "mic"
    /\ tab' = ClientState([tab EXCEPT !.att[i].at = "sdp", !.att[i].pc = "open"], i, "connecting")
    /\ UNCHANGED <<declines, hanging, inbox, ws, recon, served, drops>>

\* createOffer() throws: no microphone, or no offer.  An inbound call is declined.
OfferNotCreated(i) ==
    /\ tab.att[i].at \in {"mic", "sdp"}
    /\ tab' = Done(Reset(ClientState(tab, i, "failed")), i)
    /\ SendDeclines({c \in {tab.att[i].call} : tab.att[i].dir = "inbound"})
    /\ UNCHANGED <<hanging, inbox, ws, recon, served, drops>>

\* createOffer() returns with both establishment timers running.
OfferCreated(i) ==
    /\ tab.att[i].at = "sdp" /\ tab.att[i].pc = "open"
    /\ tab' = [tab EXCEPT !.att[i].timed = tab.att[i].bound /\ tab.att[i].kind = "connecting",
                          !.att[i].at = IF tab.att[i].dir = "outbound"
                                        THEN "offer" ELSE "answer"]
    /\ UNCHANGED <<declines, hanging, inbox, ws, recon, served, drops>>

\* POST /api/calls/answer/:callId at the server.
ServerAnswers(i) ==
    LET c == tab.att[i].call
        ok == served[c] = "ringing"
    IN  /\ tab.att[i].at = "answer"
        /\ tab' = [tab EXCEPT !.att[i].at = IF ok THEN "granted" ELSE "refused"]
        /\ served' = [served EXCEPT ![c] = IF ok THEN "mine" ELSE @]
        /\ UNCHANGED <<declines, hanging, inbox, ws, recon, drops>>

\* The answer was refused, or the request or its response is lost.
AnswerFails(i) ==
    /\ tab.att[i].at \in {"answer", "granted", "refused"}
    /\ tab' = Done(Reset(tab), i)
    /\ UNCHANGED <<declines, hanging, inbox, ws, recon, served, drops>>

\* The answer was granted: the establishment cap is armed, the offer is sent.
AnswerReturns(i) ==
    /\ tab.att[i].at = "granted"
    /\ tab' = [tab EXCEPT !.cap = tab.att[i].call, !.att[i].at = "offer"]
    /\ UNCHANGED <<declines, hanging, inbox, ws, recon, served, drops>>

\* exchangeOffer(): the response is applied to the client the tab has by now.
OfferReturns(i) ==
    /\ tab.att[i].at = "offer"
    /\ tab.att[i].call # None /\ Live(tab.att[i].call)
    /\ tab' = IF tab.client # None /\ tab.att[tab.client].pc = "open"
              THEN [tab EXCEPT !.att[i].at = "apply"]
              ELSE Done(Reset(tab), i)
    /\ UNCHANGED <<declines, hanging, inbox, ws, recon, served, drops>>

\* The exchange fails: refused, timed out, or the answer cannot be applied.
OfferFails(i) ==
    /\ tab.att[i].at \in {"offer", "apply"}
    /\ tab' = Done(Reset(tab), i)
    /\ UNCHANGED <<declines, hanging, inbox, ws, recon, served, drops>>

\* The answer is applied; an outbound call starts to ring.
AnswerApplied(i) ==
    /\ tab.att[i].at = "apply"
    /\ tab' = Done(IF tab.att[i].dir = "outbound"
                    THEN EnterRinging(tab, tab.att[i].call) ELSE tab, i)
    /\ UNCHANGED <<declines, hanging, inbox, ws, recon, served, drops>>

Flows ==
    \E i \in Attempts :
        \/ PlaceCall(i) \/ ServerMakes(i) \/ MakeFails(i) \/ MakeReturns(i)
        \/ Answer(i) \/ MicGranted(i) \/ OfferNotCreated(i) \/ OfferCreated(i)
        \/ ServerAnswers(i) \/ AnswerFails(i) \/ AnswerReturns(i)
        \/ OfferReturns(i) \/ OfferFails(i) \/ AnswerApplied(i)

-----------------------------------------------------------------------------
(***************************************************************************)
(* The media connection                                                    *)
(***************************************************************************)

\* ICE or the peer connection reports that media flows.
TransportConnects(i) ==
    /\ tab.att[i].kind = "connecting" /\ tab.att[i].at = "done"
    /\ tab.att[i].pc = "open"
    /\ tab' = ClientState(tab, i, "connected")
    /\ UNCHANGED <<declines, hanging, inbox, ws, recon, served, drops>>

\* A connection being set up fails: ICE gives up, or one of the two timers fires.
SetupTimesOut(i) ==
    /\ tab.att[i].kind = "connecting" /\ tab.att[i].timed
    /\ tab' = ClientState(tab, i, "failed")
    /\ UNCHANGED <<declines, hanging, inbox, ws, recon, served, drops>>

\* A connection is lost, or the watchdog sees no inbound media.
TransportLost(i) ==
    /\ tab.att[i].kind = "connected"
    /\ tab' = ClientState(tab, i, "failed")
    /\ UNCHANGED <<declines, hanging, inbox, ws, recon, served, drops>>

\* The establishment cap of an answered call fires.
CapFires ==
    LET due == tab.call = tab.cap /\ tab.phase \notin {"connected", "idle"}
        t   == [tab EXCEPT !.cap = None]
    IN  /\ tab.cap # None
        /\ tab' = IF due THEN Reset(t) ELSE t
        /\ SendDeclines({c \in {tab.cap} : due})
        /\ UNCHANGED <<hanging, inbox, ws, recon, served, drops>>

\* The no-answer timer fires.
NoAnswerFires ==
    LET due == tab.call = tab.noAnswer /\ tab.phase = "ringing"
        t   == [tab EXCEPT !.noAnswer = None]
    IN  /\ tab.noAnswer # None
        /\ tab' = IF due THEN Reset(t) ELSE t
        /\ SendDeclines({c \in {tab.noAnswer} : due})
        /\ UNCHANGED <<hanging, inbox, ws, recon, served, drops>>

Media == \/ \E i \in Attempts : TransportConnects(i) \/ SetupTimesOut(i) \/ TransportLost(i)
         \/ CapFires \/ NoAnswerFires

-----------------------------------------------------------------------------
(***************************************************************************)
(* Decline and hang-up                                                     *)
(***************************************************************************)

Decline ==
    /\ OfferShown
    /\ tab' = Dismiss(tab)
    /\ SendDeclines({tab.incoming})
    /\ UNCHANGED <<hanging, inbox, ws, recon, served, drops>>

Hangup ==
    /\ BannerShown /\ tab.call # None
    /\ SendDeclines({tab.call})
    /\ hanging' = hanging \cup {tab.call}
    /\ UNCHANGED <<tab, inbox, ws, recon, served, drops>>

\* The decline was answered or HANGUP_TIMEOUT_MS have passed; whatever call the
\* tab has by now is reset.
HangupReturns(c) ==
    /\ c \in hanging
    /\ hanging' = hanging \ {c}
    /\ tab' = Reset(tab)
    /\ UNCHANGED <<declines, inbox, ws, recon, served, drops>>

UserEnds == Decline \/ Hangup \/ \E c \in Calls : HangupReturns(c)

-----------------------------------------------------------------------------
(***************************************************************************)
(* The event socket                                                        *)
(***************************************************************************)

\* onCallEvent() for a call that is not the active one, with the status of an offer.
OnOffer(t, c) ==
    IF t.call = None /\ t.incoming = None /\ c \notin t.held THEN PresentIncoming(t, c) ELSE t

\* A second offer while a call or an offer is displayed is declined.
AutoDeclines(t, m) ==
    IF /\ m.type \in {"ringing", "connected"}
       /\ m.call \notin {t.call, t.incoming} \cup t.held
       /\ {t.call, t.incoming} # {None}
    THEN {m.call} ELSE {}

\* onCallEvent()
OnCallEvent(t, m) ==
    CASE m.type \in {"ringing", "connected"} /\ m.call # t.call -> OnOffer(t, m.call)
      [] m.type = "connected" /\ m.call = t.call ->
           LET u == [t EXCEPT !.noAnswer = None]
           IN  IF t.phase \in {"ringing", "connecting"} THEN SetPhase(u, "connected") ELSE u
      [] OTHER -> t

\* Fault: the cancellation is taken for the call it names.
OnCallCancelledUntyped(t, m) == [t EXCEPT !.held = @ \cup {m.type}]

\* onCallCancelled()
OnCallCancelled(t, m) ==
    LET u == IF m.type = "elsewhere" THEN [t EXCEPT !.held = @ \cup {m.call}] ELSE t
        v == IF u.incoming = m.call THEN Dismiss(u) ELSE u
    IN  IF v.call = m.call THEN Reset(v) ELSE v

\* The socket delivers its next message.
Deliver ==
    /\ inbox # <<>>
    /\ LET m == Head(inbox) IN
         /\ tab' = IF m.type \in {"elsewhere", "cancelled"}
                   THEN OnCallCancelled(tab, m) ELSE OnCallEvent(tab, m)
         /\ SendDeclines(AutoDeclines(tab, m))
    /\ inbox' = Tail(inbox)
    /\ UNCHANGED <<hanging, ws, recon, served, drops>>

\* onWsDisconnected(): an established call goes on, a call being set up ends.
WsDrops ==
    /\ ws = "up" /\ drops < MaxDrops /\ Spent < MaxEvents
    /\ drops' = drops + 1
    /\ ws' = "down"
    /\ inbox' = <<>>
    /\ tab' = IF tab.phase = "connected" THEN tab
              ELSE IF tab.phase \in {"connecting", "ringing"} \/ tab.incoming # None
              THEN Reset(tab) ELSE tab
    /\ UNCHANGED <<declines, hanging, recon, served>>

\* The socket is back; onWsConnected() asks for the active calls.
WsConnects ==
    /\ ws = "down"
    /\ ws' = "up"
    /\ recon' = NoListing("asked")
    /\ UNCHANGED <<tab, declines, hanging, inbox, served, drops>>

\* GET /api/calls/active at the server: unanswered calls are listed as ringing,
\* whatever their direction.
ServerLists ==
    /\ recon.at = "asked"
    /\ recon' = [at      |-> "listed",
                 live    |-> {c \in Calls : Live(c)},
                 ringing |-> {c \in Calls : served[c] = "ringing"}]
    /\ UNCHANGED <<tab, declines, hanging, inbox, ws, served, drops>>

\* reconcile() gives up after RECONCILE_TIMEOUT_MS.
ReconcileFails ==
    /\ recon.at # "none"
    /\ recon' = NoListing("none")
    /\ UNCHANGED <<tab, declines, hanging, inbox, ws, served, drops>>

\* Fault: an offer that another device has taken since is presented again.
PresentListedAnyway(t, list) ==
    IF t.phase = "idle" /\ t.call = None /\ t.incoming = None /\ list.ringing # {}
    THEN {PresentIncoming(t, c) : c \in list.ringing} ELSE {t}

\* The third step of reconcile(): the first listed offer is presented.
PresentListed(t, list) ==
    LET offers == list.ringing \ t.held
    IN  IF t.phase = "idle" /\ t.call = None /\ t.incoming = None /\ offers # {}
        THEN {PresentIncoming(t, c) : c \in offers} ELSE {t}

\* Its first two steps: a call and an offer that the server no longer lists go.
DropUnlisted(t, list) ==
    LET u == IF t.call # None /\ t.call \notin list.live THEN Reset(t) ELSE t
    IN  IF u.incoming # None /\ u.incoming \notin list.live THEN Dismiss(u) ELSE u

\* reconcile(): the answer, which may be older than what the tab has seen since.
Reconcile ==
    /\ recon.at = "listed"
    /\ tab' \in PresentListed(DropUnlisted(tab, recon), recon)
    /\ recon' = NoListing("none")
    /\ UNCHANGED <<declines, hanging, inbox, ws, served, drops>>

Socket == Deliver \/ WsDrops \/ WsConnects \/ ServerLists \/ ReconcileFails \/ Reconcile

-----------------------------------------------------------------------------
(***************************************************************************)
(* The server and the other devices                                        *)
(***************************************************************************)

\* handleInbound() broadcasts the offer.
CallArrives(c) ==
    /\ served[c] = "none"
    /\ served' = [served EXCEPT ![c] = "ringing"]
    /\ Send(<<[type |-> "ringing", call |-> c]>>)
    /\ UNCHANGED <<tab, declines, hanging, ws, recon, drops>>

\* Another device answers first; an outbound call that rings can be answered like any
\* other, neither the route nor the orchestrator looks at the direction.
AnsweredElsewhere(c) ==
    /\ served[c] = "ringing"
    /\ served' = [served EXCEPT ![c] = "other"]
    /\ Send(<<[type |-> "elsewhere", call |-> c]>>)
    /\ UNCHANGED <<tab, declines, hanging, ws, recon, drops>>

\* Another device places a call, which is not announced to the tab.
OtherPlaces(c) ==
    /\ served[c] = "none"
    /\ served' = [served EXCEPT ![c] = "ringing"]
    /\ UNCHANGED <<tab, declines, hanging, inbox, ws, recon, drops>>

\* The provider's leg comes up, or the provider reports the call as answered: every
\* device is told, also of an inbound call that rings.  An outbound one is then answered.
CallConnects(c) ==
    /\ served[c] \in {"ringing", "mine"}
    /\ served' = [served EXCEPT ![c] = IF c \in OutCalls /\ @ = "ringing" THEN "other" ELSE @]
    /\ Send(<<[type |-> "connected", call |-> c]>>)
    /\ UNCHANGED <<tab, declines, hanging, ws, recon, drops>>

\* endCall(): the call event "disconnected" means nothing to the tab, the
\* cancellation that follows it does.  A decline that comes later finds no call.
EndCall(c) ==
    /\ served' = [served EXCEPT ![c] = "ended"]
    /\ declines' = declines \ {c}
    /\ Send(<<[type |-> "cancelled", call |-> c]>>)

\* The caller or the far party hangs up.
RemoteEnds(c) ==
    /\ Live(c)
    /\ EndCall(c)
    /\ UNCHANGED <<tab, hanging, ws, recon, drops>>

\* POST /api/calls/decline/:callId at the server.
ServerDeclines(c) ==
    /\ c \in declines
    /\ EndCall(c)
    /\ UNCHANGED <<tab, hanging, ws, recon, drops>>

Server ==
    \/ \E c \in InCalls : CallArrives(c)
    \/ \E c \in OutCalls : OtherPlaces(c)
    \/ \E c \in Calls : \/ AnsweredElsewhere(c) \/ CallConnects(c)
                        \/ RemoteEnds(c) \/ ServerDeclines(c)

Next == Flows \/ Media \/ UserEnds \/ Socket \/ Server

Spec == Init /\ [][Next]_vars

(***************************************************************************)
(* Timers fire, requests return or time out, and the browser's prompt for  *)
(* the microphone is answered.  Nothing is assumed of the user otherwise,  *)
(* nor of the server or the socket.                                        *)
(***************************************************************************)
FlowProceeds(i) ==
    \/ MakeFails(i) \/ MakeReturns(i)
    \/ MicGranted(i) \/ OfferNotCreated(i) \/ OfferCreated(i)
    \/ AnswerFails(i) \/ AnswerReturns(i)
    \/ OfferReturns(i) \/ OfferFails(i) \/ AnswerApplied(i)

Timers == CapFires \/ NoAnswerFires \/ \E i \in Attempts : SetupTimesOut(i)

FairSpec ==
    /\ Spec
    /\ WF_vars(\E i \in Attempts : FlowProceeds(i))
    /\ WF_vars(Timers)

-----------------------------------------------------------------------------
(***************************************************************************)
(* Properties                                                              *)
(***************************************************************************)

\* The "safety invariant" of enforceSessionVisibility (call-controller.ts:1590): the
\* controller's client never runs behind an idle screen, and a call being shown
\* always has a client.  While the microphone is asked for, no media flows yet.
SurfaceMatchesSession ==
    /\ tab.client # None =>
          /\ tab.call # None
          /\ IsBusy(tab) \/ tab.att[tab.client].at = "mic"
    /\ tab.phase # "idle" => IsBusy(tab) /\ tab.client # None

\* At most one surface: never an incoming offer beside an active call, through
\* every overlap of placeCall, answer, events and a stale reconcile answer.
SingleSurface == tab.call = None \/ tab.incoming = None

\* A call that another device holds is never offered here, and active only if this tab
\* placed it: the response of its make request does not look at heldElsewhere
\* (call-controller.ts:598), stale lists and repeated events must.
HeldNotShown ==
    /\ tab.incoming \notin tab.held
    /\ tab.call \in tab.held => tab.dir = "outbound"

\* An offer that is on screen rings.
OfferRings == tab.incoming # None => tab.ringtone

\* No setup hangs: connecting and ringing end, by an answer, a failure or a timer.
SetupEnds ==
    (tab.phase \in {"connecting", "ringing"}) ~> (tab.phase \in {"idle", "connected"})
=============================================================================
