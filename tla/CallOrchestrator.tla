-------------------------- MODULE CallOrchestrator --------------------------
(***************************************************************************)
(* The server's CallOrchestrator: the four in-memory maps that correlate   *)
(* internal call ids, MediaBridge sessions, provider call ids and          *)
(* notification ids, and the handlers that fill and empty them.            *)
(*                                                                         *)
(* The server is single-threaded, so a handler is atomic between two       *)
(* awaits and any other handler may run at an await.  Each await is        *)
(* therefore the end of an action, and the place where a handler waits is  *)
(* kept in "setup" (initiateOutbound and handleInbound, one per call) and  *)
(* in "answering" (answerCall, one per request).  Database writes are      *)
(* fire-and-forget: issuing one adds it to "issued", and module            *)
(* CallRecords says when it runs and what it does to the tables.           *)
(*                                                                         *)
(* A definition marked "Fault:" is the definition after it with a mistake  *)
(* the code might have made; no specification uses it, it only shows that  *)
(* the properties notice the mistake.                                      *)
(***************************************************************************)
EXTENDS Naturals, FiniteSets

CONSTANTS
    Calls,            \* internal call ids (randomUUID: never reused)
    ProviderCalls,    \* provider call ids, as webhooks carry them
    Devices,          \* client devices
    Kinds,            \* kinds of provider in play: "sip", "gateway", "echo"
    NoCall, NoProviderCall, NoDevice,
    MaxAnswers,       \* bound: answer requests admitted per call
    Faults,           \* which of "socket", "restart", "destroy", "sweep", "crash" occur
    RetriedWebhooks   \* may a provider deliver one incoming call twice?

ASSUME KindsAssumption == Kinds \subseteq {"sip", "gateway", "echo"}
ASSUME NullsAssumption == /\ NoCall \notin Calls
                          /\ NoProviderCall \notin ProviderCalls
                          /\ NoDevice \notin Devices
ASSUME FaultsAssumption == Faults \subseteq {"socket", "restart", "destroy", "sweep", "crash"}
ASSUME BoundAssumption == MaxAnswers \in Nat

VARIABLES
    setup,                   \* where initiateOutbound / handleInbound waits
    direction, kind, providerCallId,         \* fields of the ActiveCall objects,
    answered, answeredByDevice,              \* which closures keep after the
    ended, watchdog,                         \* maps have dropped them
    activeCalls,             \* keys of the activeCalls map
    sessionToCall,           \* sessions in the sessionToCall map (sessionId = callId)
    providerCallToInternal,  \* provider call id -> call id
    notificationToCall,      \* calls whose notification id is in the map
    answering,               \* answerCall requests waiting at an await
    attempts,                \* answer requests admitted so far, per call
    told,                    \* <<call, device>>: answerCall returned success
    wire,                    \* the last call event broadcast to the clients
    notification,            \* createNotification and its continuation, per call
    issued,                  \* database writes issued so far
    mediaSessions,           \* sessions that exist in the MediaBridge
    providerLeg,             \* the provider's audio leg of each session
    destroying,              \* destroySession requests not yet carried out
    listenerUp,              \* is the MediaBridge event socket connected?
    toCheck, asked,          \* reconcileActiveSessions: calls to visit, status awaited
    sweep,                   \* endAllCalls: snapshot of ids still to end
    hangups                  \* provider calls whose end was reported to the server

ident  == <<direction, kind, providerCallId>>
claim  == <<answered, answeredByDevice>>
call   == <<ident, claim, ended, watchdog>>
table  == <<activeCalls, sessionToCall, providerCallToInternal, notificationToCall>>
client == <<told, wire, notification>>
media  == <<mediaSessions, providerLeg, destroying>>
passes == <<toCheck, asked, sweep>>

vars == <<setup, call, table, answering, attempts, client, issued, media,
          listenerUp, passes, hangups>>

-----------------------------------------------------------------------------
Phases == {"new", "creating", "dialing", "patching", "numbers", "returned", "failed"}

AnswerRequest == [call : Calls, device : Devices, step : {"patch", "provider"}]

JobNames == {"insertRow", "markAnswered", "markResolved", "declineRow", "missRow",
             "missNotification", "duration", "unansweredRow", "legacyEnd"}

Job(name, c) == [op |-> name, call |-> c]
Jobs == [op : JobNames, call : Calls]

Ids == ({"call", "notification"} \X Calls) \cup ({"provider"} \X ProviderCalls)

TypeOK ==
    /\ setup \in [Calls -> Phases]
    /\ direction \in [Calls -> {"inbound", "outbound"}]
    /\ kind \in [Calls -> {"sip", "gateway", "echo"}]
    /\ providerCallId \in [Calls -> ProviderCalls \cup {NoProviderCall}]
    /\ answered \in [Calls -> BOOLEAN]
    /\ answeredByDevice \in [Calls -> Devices \cup {NoDevice}]
    /\ ended \in [Calls -> BOOLEAN]
    /\ watchdog \in [Calls -> {"off", "short", "long"}]
    /\ activeCalls \subseteq Calls
    /\ sessionToCall \subseteq Calls
    /\ providerCallToInternal \in [ProviderCalls -> Calls \cup {NoCall}]
    /\ notificationToCall \subseteq Calls
    /\ answering \subseteq AnswerRequest
    /\ attempts \in [Calls -> 0..MaxAnswers]
    /\ told \subseteq Calls \X Devices
    /\ wire \in [Calls -> {"none", "ringing", "connected", "answered", "cancelled"}]
    /\ notification \in [Calls -> {"none", "creating", "sent", "settled"}]
    /\ issued \subseteq Jobs
    /\ mediaSessions \subseteq Calls
    /\ providerLeg \in [Calls -> {"pending", "up", "gone"}]
    /\ destroying \subseteq Calls
    /\ listenerUp \in BOOLEAN
    /\ toCheck \subseteq Calls
    /\ asked \subseteq Calls
    /\ sweep \subseteq Calls
    /\ hangups \subseteq ProviderCalls

Init ==
    /\ setup = [c \in Calls |-> "new"]
    /\ direction = [c \in Calls |-> "inbound"]
    /\ kind = [c \in Calls |-> "sip"]
    /\ providerCallId = [c \in Calls |-> NoProviderCall]
    /\ answered = [c \in Calls |-> FALSE]
    /\ answeredByDevice = [c \in Calls |-> NoDevice]
    /\ ended = [c \in Calls |-> FALSE]
    /\ watchdog = [c \in Calls |-> "off"]
    /\ activeCalls = {}
    /\ sessionToCall = {}
    /\ providerCallToInternal = [p \in ProviderCalls |-> NoCall]
    /\ notificationToCall = {}
    /\ answering = {}
    /\ attempts = [c \in Calls |-> 0]
    /\ told = {}
    /\ wire = [c \in Calls |-> "none"]
    /\ notification = [c \in Calls |-> "none"]
    /\ issued = {}
    /\ mediaSessions = {}
    /\ providerLeg = [c \in Calls |-> "pending"]
    /\ destroying = {}
    /\ listenerUp = TRUE
    /\ toCheck = {}
    /\ asked = {}
    /\ sweep = {}
    /\ hangups = {}

-----------------------------------------------------------------------------
(* Ids.  Callers hold the call id, the notification id or the provider id. *)

ResolveToCallId(id) ==
    CASE id[1] = "call"         -> id[2]
      [] id[1] = "notification" -> IF id[2] \in notificationToCall \cap activeCalls
                                   THEN id[2] ELSE NoCall
      [] id[1] = "provider"     -> providerCallToInternal[id[2]]

Fresh(p) == \A c \in Calls : providerCallId[c] # p

\* Fault: armWatchdog is not called.
TrackUnarmed(c) ==
    /\ activeCalls' = activeCalls \cup {c}
    /\ sessionToCall' = sessionToCall \cup {c}
    /\ UNCHANGED <<watchdog, notificationToCall, direction, kind, claim, ended>>

(* A call enters the maps with the short watchdog armed. *)
Track(c) ==
    /\ activeCalls' = activeCalls \cup {c}
    /\ sessionToCall' = sessionToCall \cup {c}
    /\ watchdog' = [watchdog EXCEPT ![c] = "short"]
    /\ UNCHANGED <<notificationToCall, direction, kind, claim, ended>>

\* Fault: the call id is stored for the device.
ClaimSwapped(c, d) ==
    /\ answered' = [answered EXCEPT ![c] = TRUE]
    /\ answeredByDevice' = [answeredByDevice EXCEPT ![c] = c]
    /\ watchdog' = [watchdog EXCEPT ![c] = "long"]
    /\ UNCHANGED <<ident, ended>>

Claim(c, d) ==
    /\ answered' = [answered EXCEPT ![c] = TRUE]
    /\ answeredByDevice' = [answeredByDevice EXCEPT ![c] = d]
    /\ watchdog' = [watchdog EXCEPT ![c] = "long"]
    /\ UNCHANGED <<ident, ended>>

Broadcast(c, status) == wire' = [wire EXCEPT ![c] = status]

Advance(c, phase) == setup' = [setup EXCEPT ![c] = phase]

-----------------------------------------------------------------------------
(* endCall: runs to completion without an await.                           *)

\* Fault: the timer is not cleared.
CloseLeavesWatchdog(c) ==
    /\ ~ended[c]
    /\ ended' = [ended EXCEPT ![c] = TRUE]
    /\ UNCHANGED watchdog

\* Marks the call ended, once, and disarms its watchdog.
Close(c) ==
    /\ ~ended[c]
    /\ ended' = [ended EXCEPT ![c] = TRUE]
    /\ watchdog' = [watchdog EXCEPT ![c] = "off"]

\* Fault: an unanswered call's session is forgotten.
DestroyIfAnswered(c) == destroying' = IF answered[c] THEN destroying \cup {c} ELSE destroying

\* The request that gives the MediaBridge session back.
Destroy(c) == destroying' = destroying \cup {c}

\* Fault: the notification id stays mapped.
UntrackKeepsNotification(c) ==
    /\ activeCalls' = activeCalls \ {c}
    /\ sessionToCall' = sessionToCall \ {c}
    /\ providerCallToInternal' =
          [providerCallToInternal EXCEPT ![providerCallId[c]] = NoCall]
    /\ UNCHANGED notificationToCall

\* The call leaves all four maps.
Untrack(c) ==
    /\ activeCalls' = activeCalls \ {c}
    /\ sessionToCall' = sessionToCall \ {c}
    /\ providerCallToInternal' =
          [providerCallToInternal EXCEPT ![providerCallId[c]] = NoCall]
    /\ notificationToCall' = notificationToCall \ {c}

\* Fault: the claim is not looked at.
EndJobsIgnoringClaim(c, trigger) ==
    IF direction[c] = "inbound"
    THEN {{Job("missRow", c), Job("missNotification", c)}}
    ELSE {{Job("duration", c)}}

\* The history and notification writes endCall issues.  An answered call whose
\* rounded duration is zero issues none.
EndJobs(c, trigger) ==
    IF direction[c] = "inbound" /\ ~answered[c]
    THEN IF trigger = "declined"
         THEN {{Job("declineRow", c), Job("markResolved", c)}}
         ELSE {{Job("missRow", c), Job("missNotification", c)}}
    ELSE IF answered[c]
         THEN {{Job("duration", c)}, {}}
         ELSE {{Job("unansweredRow", c)}}

EndCall(c, trigger) ==
    /\ c \in activeCalls
    /\ Close(c)
    /\ Broadcast(c, "cancelled")
    /\ Destroy(c)
    /\ \E jobs \in EndJobs(c, trigger) : issued' = issued \cup jobs
    /\ Untrack(c)
    /\ UNCHANGED <<setup, ident, claim, answering, attempts, told, notification,
                   mediaSessions>>

\* DELETE /hangup and /decline from a client.
Decline(id) ==
    /\ EndCall(ResolveToCallId(id), "declined")
    /\ UNCHANGED <<providerLeg, listenerUp, passes, hangups>>

\* The watchdog timer expires.
WatchdogFires(c) ==
    /\ watchdog[c] # "off"
    /\ EndCall(c, "watchdog_timeout")
    /\ UNCHANGED <<providerLeg, listenerUp, passes, hangups>>

\* The path of the server's event listener that predates the orchestrator edits the
\* history rows of a provider id that is not mapped, for every kind of provider;
\* the listener of Vonage's own event webhook (the kind is "sip") does nothing.
LegacyJobs(p) ==
    LET rows == {b \in Calls : providerCallId[b] = p} IN
    {{Job("legacyEnd", b) : b \in rows}}
        \cup IF \A b \in rows : kind[b] = "sip" THEN {{}} ELSE {}

\* A terminal webhook or event for provider call p; the dummy provider (the kind is
\* "echo") only hangs up the calls it simulated.  A mapped call is ended.
ProviderTerminal(p) ==
    /\ p \notin hangups
    /\ ~Fresh(p)
    /\ \A b \in Calls : providerCallId[b] = p /\ kind[b] = "echo" => direction[b] = "inbound"
    /\ hangups' = hangups \cup {p}
    /\ LET c == providerCallToInternal[p] IN
          \/ /\ c \in activeCalls
             /\ EndCall(c, "provider_call_state_changed")
          \/ /\ c \notin activeCalls
             /\ \E late \in IF c = NoCall THEN LegacyJobs(p) ELSE {{}} :
                   issued' = issued \cup late
             /\ UNCHANGED <<setup, call, table, answering, attempts, client,
                            mediaSessions, destroying>>
    /\ UNCHANGED <<providerLeg, listenerUp, passes>>

\* The provider reports the call as answered, whichever side answered it: the clients
\* are told, the call's own state waits for the MediaBridge's provider_connected.
\* The dummy provider reports no such thing.
ProviderAnswered(p) ==
    /\ providerCallToInternal[p] # NoCall
    /\ kind[providerCallToInternal[p]] # "echo"
    /\ p \notin hangups
    /\ Broadcast(providerCallToInternal[p], "connected")
    /\ UNCHANGED <<setup, call, table, answering, attempts, told, notification, issued,
                   media, listenerUp, passes, hangups>>

-----------------------------------------------------------------------------
(* initiateOutbound                                                        *)

InitiateOutbound(c, d, k) ==
    /\ setup[c] = "new"
    /\ Advance(c, "creating")
    /\ direction' = [direction EXCEPT ![c] = "outbound"]
    /\ kind' = [kind EXCEPT ![c] = k]
    /\ answeredByDevice' = [answeredByDevice EXCEPT ![c] = d]
    /\ UNCHANGED <<providerCallId, answered, ended, watchdog, table, answering, attempts,
                   client, issued, media, listenerUp, passes, hangups>>

OutboundSessionCreated(c) ==
    /\ setup[c] = "creating"
    /\ direction[c] = "outbound"
    /\ Advance(c, "dialing")
    /\ mediaSessions' = mediaSessions \cup {c}
    /\ UNCHANGED <<call, table, answering, attempts, client, issued, providerLeg,
                   destroying, listenerUp, passes, hangups>>

\* createSession rejects; the MediaBridge may have created the session all the
\* same (the reply was lost or came after the client's timeout).
OutboundSessionFails(c, created) ==
    /\ setup[c] = "creating"
    /\ direction[c] = "outbound"
    /\ Advance(c, "failed")
    /\ mediaSessions' = IF created THEN mediaSessions \cup {c} ELSE mediaSessions
    /\ UNCHANGED <<call, table, answering, attempts, client, issued, providerLeg,
                   destroying, listenerUp, passes, hangups>>

\* Fault: the provider id is not mapped.
TrackOutboundUnmapped(c, p) ==
    /\ Advance(c, "returned")
    /\ providerCallId' = [providerCallId EXCEPT ![c] = p]
    /\ Track(c)
    /\ issued' = issued \cup {Job("insertRow", c)}
    /\ UNCHANGED providerCallToInternal

\* The end of initiateOutbound, after its last await.
TrackOutbound(c, p) ==
    /\ Advance(c, "returned")
    /\ providerCallId' = [providerCallId EXCEPT ![c] = p]
    /\ Track(c)
    /\ providerCallToInternal' = [providerCallToInternal EXCEPT ![p] = c]
    /\ issued' = issued \cup {Job("insertRow", c)}

\* makeCall resolves with a provider call id; the echo leg needs no patch.
MakeCallReturns(c, p) ==
    /\ setup[c] = "dialing"
    /\ Fresh(p)
    /\ IF kind[c] = "echo"
       THEN TrackOutbound(c, p)
       ELSE /\ Advance(c, "patching")
            /\ providerCallId' = [providerCallId EXCEPT ![c] = p]
            /\ UNCHANGED <<direction, kind, claim, ended, watchdog, table, issued>>
    /\ UNCHANGED <<answering, attempts, client, media, listenerUp, passes, hangups>>

\* makeCall rejects: the error leaves initiateOutbound, nothing is undone.
MakeCallFails(c) ==
    /\ setup[c] = "dialing"
    /\ Advance(c, "failed")
    /\ UNCHANGED <<call, table, answering, attempts, client, issued, media,
                   listenerUp, passes, hangups>>

\* updateSession settles; a rejection is only logged.
PatchSettles(c) ==
    /\ setup[c] = "patching"
    /\ TrackOutbound(c, providerCallId[c])
    /\ UNCHANGED <<answering, attempts, client, media, listenerUp, passes, hangups>>

-----------------------------------------------------------------------------
(* handleInbound                                                           *)

\* The listener for incoming_call events (gateway, dummy) drops a call that is
\* already mapped; the webhooks do not look.
HandleInbound(c, p, k) ==
    /\ setup[c] = "new"
    /\ Fresh(p) \/ RetriedWebhooks
    /\ \A b \in Calls : providerCallId[b] = p =>
                            kind[b] = k /\ direction[b] = "inbound"
    /\ k # "sip" => providerCallToInternal[p] = NoCall
    /\ Advance(c, "creating")
    /\ direction' = [direction EXCEPT ![c] = "inbound"]
    /\ kind' = [kind EXCEPT ![c] = k]
    /\ providerCallId' = [providerCallId EXCEPT ![c] = p]
    /\ providerCallToInternal' = [providerCallToInternal EXCEPT ![p] = c]
    /\ UNCHANGED <<claim, ended, watchdog, activeCalls, sessionToCall,
                   notificationToCall, answering, attempts, client, issued, media,
                   listenerUp, passes, hangups>>

InboundSessionCreated(c) ==
    /\ setup[c] = "creating"
    /\ direction[c] = "inbound"
    /\ Advance(c, "numbers")
    /\ mediaSessions' = mediaSessions \cup {c}
    /\ Track(c)
    /\ issued' = issued \cup {Job("insertRow", c)}
    /\ UNCHANGED <<providerCallId, providerCallToInternal, answering, attempts, client,
                   providerLeg, destroying, listenerUp, passes, hangups>>

InboundSessionFails(c, created) ==
    /\ setup[c] = "creating"
    /\ direction[c] = "inbound"
    /\ Advance(c, "failed")
    /\ mediaSessions' = IF created THEN mediaSessions \cup {c} ELSE mediaSessions
    /\ providerCallToInternal' =
          [providerCallToInternal EXCEPT ![providerCallId[c]] = NoCall]
    /\ UNCHANGED <<call, activeCalls, sessionToCall, notificationToCall, answering,
                   attempts, client, issued, providerLeg, destroying, listenerUp,
                   passes, hangups>>

\* getNumbers resolves: issue the notification, then tell the clients to ring,
\* whatever became of the call meanwhile.
NumbersReturned(c) ==
    /\ setup[c] = "numbers"
    /\ Advance(c, "returned")
    /\ notification' = [notification EXCEPT ![c] = "creating"]
    /\ Broadcast(c, "ringing")
    /\ UNCHANGED <<call, table, answering, attempts, told, issued, media,
                   listenerUp, passes, hangups>>

\* getNumbers rejects: the webhook fails, the call stays tracked.
NumbersFail(c) ==
    /\ setup[c] = "numbers"
    /\ Advance(c, "failed")
    /\ UNCHANGED <<call, table, answering, attempts, client, issued, media,
                   listenerUp, passes, hangups>>

-----------------------------------------------------------------------------
(* answerCall                                                              *)

\* The end of answerCall: nothing is re-checked after the awaits.
ConfirmAnswer(c, d) ==
    /\ told' = told \cup {<<c, d>>}
    /\ Broadcast(c, "answered")
    /\ issued' = issued \cup {Job("markAnswered", c), Job("markResolved", c)}
    /\ UNCHANGED notification

\* Fault: a second answer is let in.
MayAnswerAgain(c) == c \in activeCalls

MayAnswer(c) == c \in activeCalls /\ ~answered[c]

\* Up to the first await; an outbound call has none.
AnswerCall(id, d) ==
    LET c == ResolveToCallId(id) IN
    /\ MayAnswer(c)
    /\ attempts[c] < MaxAnswers
    /\ attempts' = [attempts EXCEPT ![c] = @ + 1]
    /\ Claim(c, d)
    /\ IF direction[c] = "inbound"
       THEN /\ answering' = answering \cup
                  {[call |-> c, device |-> d,
                    step |-> IF kind[c] = "gateway" THEN "patch" ELSE "provider"]}
            /\ UNCHANGED <<client, issued>>
       ELSE ConfirmAnswer(c, d) /\ UNCHANGED answering
    /\ UNCHANGED <<setup, table, media, listenerUp, passes, hangups>>

AnswerPatched(r) ==
    /\ r \in answering
    /\ r.step = "patch"
    /\ answering' = (answering \ {r}) \cup {[r EXCEPT !.step = "provider"]}
    /\ UNCHANGED <<setup, call, table, attempts, client, issued, media, listenerUp,
                   passes, hangups>>

AnswerSucceeds(r) ==
    /\ r \in answering
    /\ r.step = "provider"
    /\ answering' = answering \ {r}
    /\ ConfirmAnswer(r.call, r.device)
    /\ UNCHANGED <<setup, call, table, attempts, media, listenerUp, passes, hangups>>

\* Fault: the claim is not reset.
AnswerFailsKeepsClaim(r) ==
    /\ r \in answering
    /\ kind[r.call] = "gateway"
    /\ answering' = answering \ {r}
    /\ UNCHANGED <<setup, call, table, attempts, client, issued, media, listenerUp,
                   passes, hangups>>

\* Fault: the session is destroyed under the call.
AnswerFailsDestroys(r) ==
    /\ r \in answering
    /\ kind[r.call] = "gateway"
    /\ answering' = answering \ {r}
    /\ answered' = [answered EXCEPT ![r.call] = FALSE]
    /\ answeredByDevice' = [answeredByDevice EXCEPT ![r.call] = NoDevice]
    /\ Destroy(r.call)
    /\ UNCHANGED <<setup, ident, ended, watchdog, table, attempts, client, issued,
                   mediaSessions, providerLeg, listenerUp, passes, hangups>>

\* updateSession or the gateway's answerCall rejects: the claim is undone, the
\* watchdog is left as it is.
AnswerFails(r) ==
    /\ r \in answering
    /\ kind[r.call] = "gateway"
    /\ answering' = answering \ {r}
    /\ answered' = [answered EXCEPT ![r.call] = FALSE]
    /\ answeredByDevice' = [answeredByDevice EXCEPT ![r.call] = NoDevice]
    /\ UNCHANGED <<setup, ident, ended, watchdog, table, attempts, client, issued, media,
                   listenerUp, passes, hangups>>

-----------------------------------------------------------------------------
(* MediaBridge events.  One that is emitted while the event socket is down *)
(* is lost; one for a session no longer mapped is ignored.                 *)

\* When the provider may bring up its audio: it has been told where to connect, by
\* makeCall, by the webhook's response (sip) or by answerCall (gateway).
ProviderMayConnect(c) ==
    IF direction[c] = "outbound"
    THEN setup[c] \in {"dialing", "patching", "returned"}
    ELSE /\ setup[c] \in {"numbers", "returned", "failed"}
         /\ kind[c] = "sip" => setup[c] = "returned"
         /\ kind[c] = "gateway" => answered[c]

HandleProviderConnected(c) ==
    IF listenerUp /\ c \in sessionToCall /\ c \in activeCalls
    THEN /\ Broadcast(c, "connected")
         /\ IF ~answered[c] /\ direction[c] = "outbound"
            THEN Claim(c, answeredByDevice[c]) ELSE UNCHANGED call
    ELSE UNCHANGED <<wire, call>>

ProviderConnected(c) ==
    /\ c \in mediaSessions
    /\ providerLeg[c] = "pending"
    /\ ProviderMayConnect(c)
    /\ providerLeg' = [providerLeg EXCEPT ![c] = "up"]
    /\ HandleProviderConnected(c)
    /\ UNCHANGED <<setup, table, answering, attempts, told, notification, issued,
                   mediaSessions, destroying, listenerUp, passes, hangups>>

ProviderDisconnected(c) ==
    /\ c \in mediaSessions
    /\ providerLeg[c] = "up"
    /\ providerLeg' = [providerLeg EXCEPT ![c] = "gone"]
    /\ IF listenerUp /\ c \in sessionToCall /\ c \in activeCalls
       THEN EndCall(c, "provider_disconnected")
       ELSE UNCHANGED <<setup, call, table, answering, attempts, client, issued,
                        mediaSessions, destroying>>
    /\ UNCHANGED <<listenerUp, passes, hangups>>

\* A device that has the call id submitted an offer, connected and then left.
ClientDisconnected(c) ==
    /\ c \in mediaSessions
    /\ listenerUp
    /\ c \in sessionToCall
    /\ EndCall(c, "client_disconnected")
    /\ UNCHANGED <<providerLeg, listenerUp, passes, hangups>>

-----------------------------------------------------------------------------
(* The MediaBridge process and the event socket                            *)

\* destroySession reaches the MediaBridge, or fails and is only logged.
DestroySettles(c, done) ==
    /\ c \in destroying
    /\ done \/ "destroy" \in Faults
    /\ destroying' = destroying \ {c}
    /\ mediaSessions' = IF done THEN mediaSessions \ {c} ELSE mediaSessions
    /\ UNCHANGED <<setup, call, table, answering, attempts, client, issued,
                   providerLeg, listenerUp, passes, hangups>>

ListenerDrops ==
    /\ "socket" \in Faults
    /\ listenerUp
    /\ listenerUp' = FALSE
    /\ UNCHANGED <<setup, call, table, answering, attempts, client, issued, media,
                   passes, hangups>>

\* A restart loses every session and cuts the event socket.
MediaBridgeRestarts ==
    /\ "restart" \in Faults
    /\ mediaSessions # {}
    /\ mediaSessions' = {}
    /\ listenerUp' = FALSE
    /\ UNCHANGED <<setup, call, table, answering, attempts, client, issued,
                   providerLeg, destroying, passes, hangups>>

\* A genuine reconnect starts reconcileActiveSessions over the calls of now.
ListenerReconnects ==
    /\ ~listenerUp
    /\ listenerUp' = TRUE
    /\ toCheck' = toCheck \cup activeCalls
    /\ UNCHANGED <<setup, call, table, answering, attempts, client, issued, media,
                   asked, sweep, hangups>>

\* The loop awaits one status before it looks at the next call.
ReconcileVisits(c) ==
    /\ c \in toCheck
    /\ asked = {}
    /\ toCheck' = toCheck \ {c}
    /\ asked' = IF ended[c] \/ ~answered[c] THEN {} ELSE {c}
    /\ UNCHANGED <<setup, call, table, answering, attempts, client, issued, media,
                   listenerUp, sweep, hangups>>

\* providerConnected is set when the leg connects and never reset.
StatusConnected(c) == c \in mediaSessions /\ providerLeg[c] # "pending"

ReconcileKeeps(c) ==
    /\ c \in asked
    /\ StatusConnected(c)
    /\ asked' = {}
    /\ UNCHANGED <<setup, call, table, answering, attempts, client, issued, media,
                   listenerUp, toCheck, sweep, hangups>>

\* No provider leg, no session, or a request that failed or timed out.
ReconcileEnds(c) ==
    /\ c \in asked
    /\ asked' = {}
    /\ IF c \in activeCalls
       THEN EndCall(c, "reconcile")
       ELSE UNCHANGED <<setup, call, table, answering, attempts, client, issued,
                        mediaSessions, destroying>>
    /\ UNCHANGED <<providerLeg, listenerUp, toCheck, sweep, hangups>>

-----------------------------------------------------------------------------
(* endAllCalls: MediaBridge failure detected, or shutdown                  *)

EndAllCalls ==
    /\ "sweep" \in Faults
    /\ activeCalls \ sweep # {}
    /\ sweep' = sweep \cup activeCalls
    /\ UNCHANGED <<setup, call, table, answering, attempts, client, issued, media,
                   listenerUp, toCheck, asked, hangups>>

SweepNext(c) ==
    /\ c \in sweep
    /\ sweep' = sweep \ {c}
    /\ IF c \in activeCalls
       THEN EndCall(c, "end_all")
       ELSE UNCHANGED <<setup, call, table, answering, attempts, client, issued,
                        mediaSessions, destroying>>
    /\ UNCHANGED <<providerLeg, listenerUp, toCheck, asked, hangups>>

-----------------------------------------------------------------------------
(* createNotification and its continuation                                 *)

\* The row is inserted, its id broadcast, and the wake signals that carry it are
\* on their way ...
NotificationSent(c) ==
    /\ notification[c] = "creating"
    /\ notification' = [notification EXCEPT ![c] = "sent"]
    /\ UNCHANGED <<setup, call, table, answering, attempts, told, wire, issued, media,
                   listenerUp, passes, hangups>>

\* ... or the insert fails.
NotificationFails(c) ==
    /\ notification[c] = "creating"
    /\ notification' = [notification EXCEPT ![c] = "none"]
    /\ UNCHANGED <<setup, call, table, answering, attempts, told, wire, issued, media,
                   listenerUp, passes, hangups>>

\* Fault: an answered call is taken to be over.
NotificationRegisteredIfRinging(c) ==
    /\ notification[c] = "sent"
    /\ notification' = [notification EXCEPT ![c] = "settled"]
    /\ notificationToCall' = IF c \in activeCalls /\ ~answered[c]
                             THEN notificationToCall \cup {c} ELSE notificationToCall
    /\ UNCHANGED <<setup, call, activeCalls, sessionToCall, providerCallToInternal,
                   answering, attempts, told, wire, issued, media, listenerUp, passes,
                   hangups>>

\* Once every wake signal is answered or has failed, the continuation registers
\* the id if the call is still there.
NotificationRegistered(c) ==
    /\ notification[c] = "sent"
    /\ notification' = [notification EXCEPT ![c] = "settled"]
    /\ notificationToCall' = IF c \in activeCalls THEN notificationToCall \cup {c}
                             ELSE notificationToCall
    /\ UNCHANGED <<setup, call, activeCalls, sessionToCall, providerCallToInternal,
                   answering, attempts, told, wire, issued, media, listenerUp, passes,
                   hangups>>

-----------------------------------------------------------------------------
Outbound(c) ==
    \/ \E d \in Devices, k \in Kinds : InitiateOutbound(c, d, k)
    \/ OutboundSessionCreated(c)
    \/ \E created \in BOOLEAN : OutboundSessionFails(c, created)
    \/ \E p \in ProviderCalls : MakeCallReturns(c, p)
    \/ MakeCallFails(c)
    \/ PatchSettles(c)

Inbound(c) ==
    \/ \E p \in ProviderCalls, k \in Kinds : HandleInbound(c, p, k)
    \/ InboundSessionCreated(c)
    \/ \E created \in BOOLEAN : InboundSessionFails(c, created)
    \/ NumbersReturned(c)
    \/ NumbersFail(c)

Answering ==
    \/ \E id \in Ids, d \in Devices : AnswerCall(id, d)
    \/ \E r \in answering : AnswerPatched(r) \/ AnswerSucceeds(r) \/ AnswerFails(r)

Ending ==
    \/ \E id \in Ids : Decline(id)
    \/ \E c \in Calls : WatchdogFires(c)
    \/ \E p \in ProviderCalls : ProviderTerminal(p) \/ ProviderAnswered(p)

MediaEvent(c) ==
    \/ ProviderConnected(c)
    \/ ProviderDisconnected(c)
    \/ ClientDisconnected(c)

Bridge ==
    \/ \E c \in Calls, done \in BOOLEAN : DestroySettles(c, done)
    \/ ListenerDrops
    \/ MediaBridgeRestarts
    \/ ListenerReconnects

Passes ==
    \/ EndAllCalls
    \/ \E c \in Calls : \/ ReconcileVisits(c)
                        \/ ReconcileKeeps(c)
                        \/ ReconcileEnds(c)
                        \/ SweepNext(c)

Notifying(c) ==
    \/ NotificationSent(c)
    \/ NotificationFails(c)
    \/ NotificationRegistered(c)

Next ==
    \/ \E c \in Calls : Outbound(c) \/ Inbound(c) \/ MediaEvent(c) \/ Notifying(c)
    \/ Answering
    \/ Ending
    \/ Bridge
    \/ Passes

Spec == Init /\ [][Next]_vars

-----------------------------------------------------------------------------
(* Fairness.  Node runs an expired timer, and a destroy request settles:   *)
(* the MediaBridge client aborts it after ten seconds.                     *)

FairSpec ==
    /\ Spec
    /\ \A c \in Calls : /\ WF_vars(WatchdogFires(c))
                         /\ WF_vars(\E done \in BOOLEAN : DestroySettles(c, done))

-----------------------------------------------------------------------------
(* Safety                                                                  *)

Tracked(c) == c \in activeCalls
Pending(c) == {r \in answering : r.call = c}
Serves(c, d) == <<c, d>> \in told

\* No id leads to a call that is over: a provider id in its map belongs to a call
\* that is tracked or still creating its session, a notification id to one that is
\* tracked, whatever continuation registers it (handleInbound's early mapping,
\* createNotification's then, endCall's clean-up).
NoDanglingId ==
    /\ sessionToCall = activeCalls
    /\ notificationToCall \subseteq activeCalls
    /\ \A p \in ProviderCalls :
          LET c == providerCallToInternal[p] IN
          c # NoCall => /\ providerCallId[c] = p
                        /\ ~ended[c]
                        /\ Tracked(c) \/ (setup[c] = "creating" /\ direction[c] = "inbound")

\* The only call of its provider call: no webhook was retried for it.
Alone(c) == \A b \in Calls : providerCallId[b] = providerCallId[c] => b = c

\* The provider's hang-up can always find the call it is about: a tracked call is
\* mapped under its provider id unless a webhook delivered again took the entry
\* (handleInbound's early mapping, initiateOutbound's late one, the two deletes).
HangupFindsCall ==
    \A c \in activeCalls : Alone(c) => providerCallToInternal[providerCallId[c]] = c

\* Once every wake signal is settled, the notification id answers for its call as
\* long as the call is tracked, whenever the call is answered meanwhile.
RegisteredIdResolves ==
    \A c \in activeCalls : notification[c] = "settled" => c \in notificationToCall

\* An inbound call is claimed exactly when one device's answer request is pending
\* on it or was told success, never two: awaits, failures and endCall in between
\* neither lose the claim nor leave one behind (answerCall's reset).
ClaimAccounted ==
    \A c \in Calls : direction[c] = "inbound" =>
        LET claimants == {r.device : r \in Pending(c)} \cup {d \in Devices : Serves(c, d)}
        IN  claimants = IF answered[c] THEN {answeredByDevice[c]} ELSE {}

\* At most one device is told that it has the call.
OneWinner == \A c \in Calls, d, e \in Devices : Serves(c, d) /\ Serves(c, e) => d = e

\* A tracked call always has its backstop armed, and a timer never outlives its
\* call (armWatchdog against endCall, from every handler that does either).
WatchdogArmed == \A c \in Calls : watchdog[c] # "off" <=> Tracked(c)

\* A MediaBridge session is owned by a tracked call, by a setup under way or by a
\* destroy request, except where initiateOutbound or handleInbound threw before
\* tracking the call: that session is left behind.
SessionsOwned ==
    "destroy" \notin Faults =>
        \A c \in mediaSessions : \/ Tracked(c)
                                 \/ c \in destroying
                                 \/ setup[c] \in {"dialing", "patching"}
                                 \/ setup[c] = "failed" /\ ~ended[c]

\* While the MediaBridge stays up a tracked call keeps its session: nothing the
\* server does destroys it under a live call.
SessionKept == "restart" \notin Faults => activeCalls \subseteq mediaSessions

-----------------------------------------------------------------------------
(* Liveness                                                                *)

\* Every call that gets into the maps leaves them, whichever signals are lost.
EveryCallEnds == \A c \in Calls : Tracked(c) ~> ~Tracked(c)

\* Every session of a call that was tracked is given back.
SessionsReclaimed ==
    \A c \in Calls : (Tracked(c) /\ c \in mediaSessions) ~> (c \notin mediaSessions)
=============================================================================
