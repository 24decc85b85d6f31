----------------------- MODULE CallOrchestratorProofs -----------------------
(***************************************************************************)
(* Machine-checked proofs about CallOrchestrator, for every set of calls,  *)
(* provider calls and devices: type correctness, the invariants            *)
(* NoDanglingId, WatchdogArmed, ClaimAccounted, OneWinner and              *)
(* HangupFindsCall, whose inductive invariant is IInv below, and on top of *)
(* it who owns a MediaBridge session (SessionsOwned, SessionKept) and that *)
(* a notification id, once its wake signals are settled, answers for its   *)
(* call (RegisteredIdResolves).  Last, that the orchestrator implements    *)
(* CallLifecycle.                                                          *)
(***************************************************************************)
EXTENDS CallOrchestratorRefines, TLAPS

\* The tuples that only group variables for UNCHANGED.
USE DEF call, ident, claim, table, client, media, passes, Close, Destroy, Untrack, MayAnswer

-----------------------------------------------------------------------------
(* Type correctness                                                        *)

\* The types of the variables that endCall writes, and of those it keeps.
EndCallTyped ==
    /\ ended \in [Calls -> BOOLEAN]
    /\ watchdog \in [Calls -> {"off", "short", "long"}]
    /\ wire \in [Calls -> {"none", "ringing", "connected", "answered", "cancelled"}]
    /\ destroying \subseteq Calls
    /\ issued \subseteq Jobs
    /\ activeCalls \subseteq Calls
    /\ sessionToCall \subseteq Calls
    /\ providerCallToInternal \in [ProviderCalls -> Calls \cup {NoCall}]
    /\ notificationToCall \subseteq Calls
    /\ mediaSessions \subseteq Calls

\* endCall keeps the types of everything it writes.
LEMMA EndCallTypes ==
    ASSUME TypeOK, NEW c \in Calls, NEW trigger, EndCall(c, trigger)
    PROVE  /\ EndCallTyped'
           /\ UNCHANGED <<setup, ident, claim, answering, attempts, told, notification>>
<1>1. issued' \subseteq Jobs
    <2>1. PICK jobs \in EndJobs(c, trigger) : issued' = issued \cup jobs
        BY DEF EndCall
    <2>2. jobs \subseteq Jobs
        BY DEF EndJobs, Job, Jobs, JobNames
    <2> QED BY <2>1, <2>2 DEF TypeOK
<1> QED BY <1>1 DEF TypeOK, EndCall, EndCallTyped, Broadcast

\* The initial state is type correct.
LEMMA InitTypes == Init => TypeOK
    BY NullsAssumption, BoundAssumption DEF Init, TypeOK, Phases

\* Every step of setting up an outbound call keeps the types.
LEMMA OutboundTypes ==
    ASSUME TypeOK, NEW c \in Calls, Outbound(c) PROVE TypeOK'
<1>1. CASE \E d \in Devices, k \in Kinds : InitiateOutbound(c, d, k)
    BY <1>1, KindsAssumption DEF InitiateOutbound, TypeOK, Advance, Phases
<1>2. CASE OutboundSessionCreated(c)
    BY <1>2 DEF OutboundSessionCreated, TypeOK, Advance, Phases
<1>3. CASE \E created \in BOOLEAN : OutboundSessionFails(c, created)
    BY <1>3 DEF OutboundSessionFails, TypeOK, Advance, Phases
<1>4. CASE \E p \in ProviderCalls : MakeCallReturns(c, p)
    <2>1. PICK p \in ProviderCalls : MakeCallReturns(c, p)
        BY <1>4
    <2>2. CASE kind[c] = "echo"
        BY <2>1, <2>2 DEF MakeCallReturns, TrackOutbound, Track, TypeOK, Advance, Phases,
            Job, Jobs, JobNames
    <2>3. CASE kind[c] # "echo"
        BY <2>1, <2>3 DEF MakeCallReturns, TypeOK, Advance, Phases
    <2> QED BY <2>2, <2>3
<1>5. CASE MakeCallFails(c)
    BY <1>5 DEF MakeCallFails, TypeOK, Advance, Phases
<1>6. CASE PatchSettles(c)
    <2> DEFINE p == providerCallId[c]
    <2>1. TrackOutbound(c, p) /\ p \in ProviderCalls \cup {NoProviderCall}
          /\ UNCHANGED <<answering, attempts, client, media, listenerUp, passes, hangups>>
        BY <1>6 DEF PatchSettles, TypeOK
    <2> HIDE DEF p
    <2>2. setup' \in [Calls -> Phases] /\ watchdog' \in [Calls -> {"off", "short", "long"}]
          /\ providerCallId' \in [Calls -> ProviderCalls \cup {NoProviderCall}]
        BY <2>1 DEF TrackOutbound, Track, Advance, TypeOK, Phases
    <2>3. providerCallToInternal' \in [ProviderCalls -> Calls \cup {NoCall}]
        BY <2>1 DEF TrackOutbound, TypeOK
    <2>4. activeCalls' \subseteq Calls /\ sessionToCall' \subseteq Calls /\ issued' \subseteq Jobs
        BY <2>1 DEF TrackOutbound, Track, TypeOK, Job, Jobs, JobNames
    <2> QED BY <2>1, <2>2, <2>3, <2>4 DEF TrackOutbound, Track, TypeOK
<1> QED BY <1>1, <1>2, <1>3, <1>4, <1>5, <1>6 DEF Outbound

\* Every step of setting up an inbound call keeps the types.
LEMMA InboundTypes ==
    ASSUME TypeOK, NEW c \in Calls, Inbound(c) PROVE TypeOK'
<1>1. CASE \E p \in ProviderCalls, k \in Kinds : HandleInbound(c, p, k)
    BY <1>1, KindsAssumption DEF HandleInbound, TypeOK, Advance, Phases
<1>2. CASE InboundSessionCreated(c)
    BY <1>2 DEF InboundSessionCreated, Track, TypeOK, Advance, Phases, Job, Jobs, JobNames
<1>3. CASE \E created \in BOOLEAN : InboundSessionFails(c, created)
    BY <1>3 DEF InboundSessionFails, TypeOK, Advance, Phases
<1>4. CASE NumbersReturned(c)
    BY <1>4 DEF NumbersReturned, TypeOK, Advance, Phases, Broadcast
<1>5. CASE NumbersFail(c)
    BY <1>5 DEF NumbersFail, TypeOK, Advance, Phases
<1> QED BY <1>1, <1>2, <1>3, <1>4, <1>5 DEF Inbound

\* Every step of answering keeps the types.
LEMMA AnsweringTypes == ASSUME TypeOK, Answering PROVE TypeOK'
<1>1. CASE \E id \in Ids, d \in Devices : AnswerCall(id, d)
    <2>1. PICK id \in Ids, d \in Devices : AnswerCall(id, d)
        BY <1>1
    <2> DEFINE c == ResolveToCallId(id)
    <2>2. c \in Calls /\ attempts[c] < MaxAnswers /\ Claim(c, d)
          /\ attempts' = [attempts EXCEPT ![c] = @ + 1]
        BY <2>1 DEF AnswerCall, TypeOK
    <2> HIDE DEF c
    <2>3. attempts' \in [Calls -> 0..MaxAnswers]
        BY <2>2, BoundAssumption DEF TypeOK
    <2>4. CASE direction[c] = "inbound"
        <3>1. answering' \subseteq AnswerRequest /\ UNCHANGED <<client, issued>>
            BY <2>1, <2>2, <2>4 DEF c, AnswerCall, TypeOK, AnswerRequest
        <3>2. UNCHANGED <<setup, table, media, listenerUp, passes, hangups>>
            BY <2>1 DEF AnswerCall
        <3> QED BY <2>2, <2>3, <3>1, <3>2 DEF Claim, TypeOK
    <2>5. CASE direction[c] # "inbound"
        <3>1. ConfirmAnswer(c, d)
              /\ UNCHANGED <<setup, table, media, listenerUp, passes, hangups, answering>>
            BY <2>1, <2>5 DEF c, AnswerCall
        <3> QED BY <2>2, <2>3, <3>1 DEF Claim, ConfirmAnswer, Broadcast, TypeOK, Job, Jobs,
                JobNames
    <2> QED BY <2>4, <2>5
<1>2. CASE \E r \in answering : AnswerPatched(r)
    BY <1>2 DEF AnswerPatched, TypeOK, AnswerRequest
<1>3. CASE \E r \in answering : AnswerSucceeds(r)
    BY <1>3 DEF AnswerSucceeds, ConfirmAnswer, Broadcast, TypeOK, AnswerRequest, Job, Jobs,
        JobNames
<1>4. CASE \E r \in answering : AnswerFails(r)
    BY <1>4 DEF AnswerFails, TypeOK, AnswerRequest
<1> QED BY <1>1, <1>2, <1>3, <1>4 DEF Answering

\* Every step that may end a call keeps the types.
LEMMA EndingTypes == ASSUME TypeOK, Ending PROVE TypeOK'
<1>1. CASE \E id \in Ids : Decline(id)
    <2>1. PICK id \in Ids : Decline(id)
        BY <1>1
    <2> DEFINE c == ResolveToCallId(id)
    <2>2. c \in Calls /\ EndCall(c, "declined")
          /\ UNCHANGED <<providerLeg, listenerUp, passes, hangups>>
        BY <2>1 DEF Decline, EndCall, TypeOK
    <2> HIDE DEF c
    <2> QED BY <2>2, EndCallTypes DEF TypeOK, EndCallTyped
<1>2. CASE \E c \in Calls : WatchdogFires(c)
    BY <1>2, EndCallTypes DEF WatchdogFires, TypeOK, EndCallTyped
<1>3. CASE \E p \in ProviderCalls : ProviderTerminal(p)
    <2>1. PICK p \in ProviderCalls : ProviderTerminal(p)
        BY <1>3
    <2> DEFINE c == providerCallToInternal[p]
    <2>2. CASE c \in activeCalls
        <3>1. c \in Calls /\ EndCall(c, "provider_call_state_changed")
              /\ hangups' = hangups \cup {p} /\ UNCHANGED <<providerLeg, listenerUp, passes>>
            BY <2>1, <2>2 DEF ProviderTerminal, TypeOK
        <3> HIDE DEF c
        <3> QED BY <3>1, EndCallTypes DEF TypeOK, EndCallTyped
    <2>3. CASE c \notin activeCalls
        <3>1. issued' \subseteq Jobs
            <4>1. PICK late \in IF c = NoCall THEN LegacyJobs(p) ELSE {{}} :
                      issued' = issued \cup late
                BY <2>1, <2>3 DEF ProviderTerminal
            <4>2. late \subseteq Jobs
                BY <4>1 DEF LegacyJobs, Job, Jobs, JobNames
            <4> QED BY <4>1, <4>2 DEF TypeOK
        <3> QED BY <2>1, <2>3, <3>1 DEF ProviderTerminal, TypeOK
    <2> QED BY <2>2, <2>3
<1>4. CASE \E p \in ProviderCalls : ProviderAnswered(p)
    BY <1>4 DEF ProviderAnswered, Broadcast, TypeOK
<1> QED BY <1>1, <1>2, <1>3, <1>4 DEF Ending

\* Every MediaBridge event keeps the types.
LEMMA MediaEventTypes ==
    ASSUME TypeOK, NEW c \in Calls, MediaEvent(c) PROVE TypeOK'
<1>1. CASE ProviderConnected(c)
    <2> DEFINE d == answeredByDevice[c]
    <2>1. d \in Devices \cup {NoDevice}
        BY DEF TypeOK
    <2>2. /\ \/ Claim(c, d) /\ Broadcast(c, "connected")
             \/ UNCHANGED call /\ Broadcast(c, "connected")
             \/ UNCHANGED <<call, wire>>
          /\ providerLeg' = [providerLeg EXCEPT ![c] = "up"]
          /\ UNCHANGED <<setup, table, answering, attempts, told, notification, issued,
                         mediaSessions, destroying, listenerUp, passes, hangups>>
        BY <1>1 DEF ProviderConnected, HandleProviderConnected
    <2> HIDE DEF d
    <2>3. providerLeg' \in [Calls -> {"pending", "up", "gone"}]
          /\ wire' \in [Calls -> {"none", "ringing", "connected", "answered", "cancelled"}]
        BY <2>2 DEF Broadcast, TypeOK
    <2>4. answered' \in [Calls -> BOOLEAN] /\ answeredByDevice' \in [Calls -> Devices \cup {NoDevice}]
          /\ watchdog' \in [Calls -> {"off", "short", "long"}]
        <3>1. CASE Claim(c, d)
            BY <2>1, <3>1 DEF Claim, TypeOK
        <3>2. CASE UNCHANGED call
            BY <3>2 DEF TypeOK
        <3> QED BY <2>2, <3>1, <3>2
    <2>5. UNCHANGED <<ident, ended>>
        BY <2>2 DEF Claim
    <2>6. UNCHANGED <<setup, table, answering, attempts, told, notification, issued,
                      mediaSessions, destroying, listenerUp, passes, hangups>>
        BY <2>2
    <2> QED BY <2>3, <2>4, <2>5, <2>6 DEF TypeOK
<1>2. CASE ProviderDisconnected(c)
    <2>1. CASE listenerUp /\ c \in sessionToCall /\ c \in activeCalls
        BY <1>2, <2>1, EndCallTypes DEF ProviderDisconnected, TypeOK, EndCallTyped
    <2>2. CASE ~(listenerUp /\ c \in sessionToCall /\ c \in activeCalls)
        BY <1>2, <2>2 DEF ProviderDisconnected, TypeOK
    <2> QED BY <2>1, <2>2
<1>3. CASE ClientDisconnected(c)
    BY <1>3, EndCallTypes DEF ClientDisconnected, TypeOK, EndCallTyped
<1> QED BY <1>1, <1>2, <1>3 DEF MediaEvent

\* Every step of the MediaBridge and its socket keeps the types.
LEMMA BridgeTypes == ASSUME TypeOK, Bridge PROVE TypeOK'
    BY DEF Bridge, DestroySettles, ListenerDrops, MediaBridgeRestarts, ListenerReconnects,
        TypeOK

\* Every step of reconcileActiveSessions and endAllCalls keeps the types.
LEMMA PassesTypes == ASSUME TypeOK, Passes PROVE TypeOK'
<1>1. CASE EndAllCalls
    BY <1>1 DEF EndAllCalls, TypeOK
<1>2. ASSUME NEW c \in Calls, ReconcileVisits(c) \/ ReconcileKeeps(c) PROVE TypeOK'
    BY <1>2 DEF ReconcileVisits, ReconcileKeeps, TypeOK
<1>3. ASSUME NEW c \in Calls, ReconcileEnds(c) \/ SweepNext(c) PROVE TypeOK'
    <2>1. CASE c \in activeCalls
        BY <1>3, <2>1, EndCallTypes DEF ReconcileEnds, SweepNext, TypeOK, EndCallTyped
    <2>2. CASE c \notin activeCalls
        BY <1>3, <2>2 DEF ReconcileEnds, SweepNext, TypeOK
    <2> QED BY <2>1, <2>2
<1> QED BY <1>1, <1>2, <1>3 DEF Passes

\* The notification steps keep the types.
LEMMA NotifyingTypes ==
    ASSUME TypeOK, NEW c \in Calls, Notifying(c) PROVE TypeOK'
    BY DEF Notifying, NotificationSent, NotificationFails, NotificationRegistered, TypeOK

\* Every step keeps the types.
LEMMA NextTypes == TypeOK /\ [Next]_vars => TypeOK'
<1> SUFFICES ASSUME TypeOK, [Next]_vars PROVE TypeOK'
    OBVIOUS
<1>1. CASE UNCHANGED vars
    BY <1>1 DEF vars, TypeOK
<1>2. CASE Next
    BY <1>2, OutboundTypes, InboundTypes, AnsweringTypes, EndingTypes, MediaEventTypes,
        BridgeTypes, PassesTypes, NotifyingTypes DEF Next
<1> QED BY <1>1, <1>2

\* The variables of the orchestrator always have their types.
THEOREM TypeCorrect == Spec => []TypeOK
    BY InitTypes, NextTypes, PTL DEF Spec

-----------------------------------------------------------------------------
(* The maps.  Until a call is tracked its object is not in the maps, save  *)
(* for the provider id of an inbound call that is creating its session.    *)

Early == {"new", "creating", "dialing", "patching"}

Reserved(c) == setup[c] = "creating" /\ direction[c] = "inbound"

NotYetTracked ==
    \A c \in Calls : setup[c] \in Early => c \notin activeCalls /\ ~ended[c]

HasProviderCall ==
    \A c \in Calls : c \in activeCalls \/ Reserved(c) \/ setup[c] = "patching"
                        => ~ended[c] /\ providerCallId[c] \in ProviderCalls

NoIdYet ==
    \A c \in Calls : setup[c] \in {"new", "dialing"} \/ (setup[c] = "creating" /\ ~Reserved(c))
                        => providerCallId[c] = NoProviderCall

MappedIfAlone ==
    \A c \in Calls : (c \in activeCalls \/ Reserved(c)) /\ Alone(c)
                        => providerCallToInternal[providerCallId[c]] = c

MapInv == /\ NotYetTracked
          /\ HasProviderCall
          /\ NoIdYet
          /\ NoDanglingId
          /\ WatchdogArmed
          /\ MappedIfAlone

-----------------------------------------------------------------------------
(* The answers.  A claim is held by one request or by the one device told. *)

UnclaimedEarly ==
    \A c \in Calls : setup[c] \in Early => ~answered[c]

PendingHolds ==
    \A r \in answering :
        /\ direction[r.call] = "inbound"
        /\ answered[r.call]
        /\ answeredByDevice[r.call] = r.device
        /\ \A d \in Devices : <<r.call, d>> \notin told
        /\ \A q \in answering : q.call = r.call => q = r

ToldHolds ==
    \A c \in Calls, d \in Devices :
        <<c, d>> \in told => answered[c] /\ answeredByDevice[c] = d

ClaimHeld ==
    \A c \in Calls : direction[c] = "inbound" /\ answered[c] =>
        \/ \E r \in answering : r.call = c
        \/ <<c, answeredByDevice[c]>> \in told

\* All but ClaimHeld survives a restart of the server, which drops the requests.
ClaimInv == UnclaimedEarly /\ PendingHolds /\ ToldHolds

AnswerInv == ClaimInv /\ ClaimHeld

IInv == TypeOK /\ MapInv /\ AnswerInv
-----------------------------------------------------------------------------
(* MapInv is inductive                                                     *)

mapVars == <<setup, direction, providerCallId, ended, watchdog, table>>

\* Initially the maps are empty.
LEMMA MapsInit == Init => MapInv
    BY NullsAssumption DEF Init, MapInv, NotYetTracked, HasProviderCall, NoIdYet, Reserved, Early,
        NoDanglingId, WatchdogArmed, MappedIfAlone, Alone, Tracked

\* A step that leaves the maps, the setups and the watchdogs alone.
LEMMA MapsQuiet == ASSUME MapInv, UNCHANGED mapVars PROVE MapInv'
    BY DEF mapVars, MapInv, NotYetTracked, HasProviderCall, NoIdYet, Reserved, NoDanglingId,
        WatchdogArmed, MappedIfAlone, Alone, Tracked

\* A setup that moves on or gives up without touching the maps.
LEMMA MapsAdvance ==
    ASSUME TypeOK, MapInv, NEW c \in Calls,
           NEW phase \in {"dialing", "numbers", "returned", "failed"},
           ~Reserved(c), phase = "dialing" => setup[c] = "creating",
           Advance(c, phase),
           UNCHANGED <<direction, providerCallId, ended, watchdog, table>>
    PROVE  MapInv'
    BY DEF TypeOK, Advance, MapInv, NotYetTracked, HasProviderCall, NoIdYet, Reserved, Early,
        NoDanglingId, WatchdogArmed, MappedIfAlone, Alone, Tracked

\* endCall removes the call from all four maps, and nothing else from any.
LEMMA MapsEnd ==
    ASSUME TypeOK, MapInv, NEW c \in Calls, NEW trigger, EndCall(c, trigger)
    PROVE  MapInv'
<1>1. /\ c \in activeCalls
      /\ ended' = [ended EXCEPT ![c] = TRUE]
      /\ watchdog' = [watchdog EXCEPT ![c] = "off"]
      /\ activeCalls' = activeCalls \ {c}
      /\ sessionToCall' = sessionToCall \ {c}
      /\ providerCallToInternal' =
            [providerCallToInternal EXCEPT ![providerCallId[c]] = NoCall]
      /\ notificationToCall' = notificationToCall \ {c}
      /\ UNCHANGED <<setup, direction, providerCallId>>
    BY DEF EndCall
<1>2. NotYetTracked' /\ HasProviderCall' /\ NoIdYet'
    BY <1>1 DEF TypeOK, MapInv, NotYetTracked, HasProviderCall, NoIdYet, Reserved, Early
<1>3. NoDanglingId'
    BY <1>1, NullsAssumption DEF TypeOK, MapInv, HasProviderCall, NoDanglingId, Tracked
<1>4. WatchdogArmed'
    BY <1>1 DEF TypeOK, MapInv, WatchdogArmed, Tracked
<1>5. MappedIfAlone'
    BY <1>1, <1>2 DEF TypeOK, MapInv, HasProviderCall, MappedIfAlone, Alone, Reserved
<1> QED BY <1>2, <1>3, <1>4, <1>5 DEF MapInv

\* A call that shares its provider id with no other after c has got one shared it
\* with none before.
LEMMA AloneBefore ==
    ASSUME TypeOK, NEW c \in Calls, NEW p \in ProviderCalls, NEW b \in Calls \ {c},
           providerCallId' = [providerCallId EXCEPT ![c] = p],
           providerCallId[c] \in {p, NoProviderCall},
           providerCallId[b] \in ProviderCalls,
           Alone(b)'
    PROVE  Alone(b) /\ providerCallId[b] # p /\ providerCallId'[b] = providerCallId[b]
    BY NullsAssumption DEF TypeOK, Alone

\* initiateOutbound enters the maps once.
LEMMA MapsTrackOutbound ==
    ASSUME TypeOK, MapInv, NEW c \in Calls, NEW p \in ProviderCalls,
           setup[c] \in {"dialing", "patching"},
           providerCallId[c] \in {p, NoProviderCall},
           TrackOutbound(c, p)
    PROVE  MapInv'
<1>1. /\ setup' = [setup EXCEPT ![c] = "returned"]
      /\ providerCallId' = [providerCallId EXCEPT ![c] = p]
      /\ activeCalls' = activeCalls \cup {c}
      /\ sessionToCall' = sessionToCall \cup {c}
      /\ watchdog' = [watchdog EXCEPT ![c] = "short"]
      /\ providerCallToInternal' = [providerCallToInternal EXCEPT ![p] = c]
      /\ UNCHANGED <<notificationToCall, direction, ended>>
    BY DEF TrackOutbound, Track, Advance
<1>2. c \notin activeCalls /\ ~ended[c] /\ ~Reserved(c)
    BY DEF MapInv, NotYetTracked, Early, Reserved
<1>3. NotYetTracked' /\ HasProviderCall' /\ NoIdYet'
    BY <1>1, <1>2 DEF TypeOK, MapInv, NotYetTracked, HasProviderCall, NoIdYet, Reserved, Early
<1>4. NoDanglingId'
    BY <1>1, <1>2, NullsAssumption DEF TypeOK, MapInv, NoDanglingId, Tracked, Reserved
<1>5. WatchdogArmed'
    BY <1>1 DEF TypeOK, MapInv, WatchdogArmed, Tracked
<1>6. MappedIfAlone'
    <2> SUFFICES ASSUME NEW b \in Calls, (b \in activeCalls \/ Reserved(b))', Alone(b)'
                 PROVE  providerCallToInternal'[providerCallId'[b]] = b
        BY DEF MappedIfAlone
    <2>1. CASE b = c
        BY <1>1, <2>1 DEF TypeOK
    <2>2. CASE b # c
        <3>1. (b \in activeCalls \/ Reserved(b)) /\ providerCallId[b] \in ProviderCalls
            BY <1>1, <2>2 DEF TypeOK, Reserved, MapInv, HasProviderCall
        <3>2. Alone(b) /\ providerCallId[b] # p /\ providerCallId'[b] = providerCallId[b]
            BY <1>1, <2>2, <3>1, AloneBefore
        <3> QED BY <1>1, <3>1, <3>2 DEF TypeOK, MapInv, MappedIfAlone
    <2> QED BY <2>1, <2>2
<1> QED BY <1>3, <1>4, <1>5, <1>6 DEF MapInv

\* initiateOutbound begins, or learns the provider id before it tracks the call.
LEMMA MapsInitiate ==
    ASSUME TypeOK, MapInv, NEW c \in Calls, NEW d \in Devices, NEW k \in Kinds,
           InitiateOutbound(c, d, k)
    PROVE  MapInv'
<1>1. /\ setup[c] = "new" /\ setup' = [setup EXCEPT ![c] = "creating"]
      /\ direction' = [direction EXCEPT ![c] = "outbound"]
      /\ UNCHANGED <<providerCallId, ended, watchdog, table>>
    BY DEF InitiateOutbound, Advance
<1> QED BY <1>1 DEF TypeOK, MapInv, NotYetTracked, HasProviderCall, NoIdYet, Reserved, Early,
        NoDanglingId, WatchdogArmed, MappedIfAlone, Alone, Tracked

\* makeCall returns: the call is tracked under an id no other call has, or its session
\* is patched first.
LEMMA MapsMakeCall ==
    ASSUME TypeOK, MapInv, NEW c \in Calls, NEW p \in ProviderCalls, MakeCallReturns(c, p)
    PROVE  MapInv'
<1>1. CASE kind[c] = "echo"
    BY <1>1, MapsTrackOutbound DEF MakeCallReturns, MapInv, NoIdYet
<1>2. CASE kind[c] # "echo"
    <2>1. /\ setup[c] = "dialing" /\ setup' = [setup EXCEPT ![c] = "patching"]
          /\ providerCallId' = [providerCallId EXCEPT ![c] = p]
          /\ \A b \in Calls : providerCallId[b] # p
          /\ UNCHANGED <<direction, ended, watchdog, table>>
        BY <1>2 DEF MakeCallReturns, Advance, Fresh
    <2>2. NotYetTracked' /\ HasProviderCall' /\ NoIdYet' /\ WatchdogArmed'
        BY <2>1 DEF TypeOK, MapInv, NotYetTracked, HasProviderCall, NoIdYet, Reserved, Early,
            WatchdogArmed, Tracked
    <2>3. NoDanglingId'
        BY <2>1 DEF TypeOK, MapInv, NotYetTracked, Reserved, Early, NoDanglingId, Tracked
    <2>4. MappedIfAlone'
        <3> SUFFICES ASSUME NEW b \in Calls, (b \in activeCalls \/ Reserved(b))', Alone(b)'
                     PROVE  providerCallToInternal'[providerCallId'[b]] = b
            BY DEF MappedIfAlone
        <3>1. /\ b # c
              /\ b \in activeCalls \/ Reserved(b)
              /\ providerCallId[b] \in ProviderCalls
            BY <2>1 DEF TypeOK, Reserved, MapInv, NotYetTracked, Early, HasProviderCall
        <3>2. Alone(b) /\ providerCallId'[b] = providerCallId[b]
            <4>1. providerCallId[c] \in {p, NoProviderCall}
                BY <2>1 DEF MapInv, NoIdYet
            <4>2. b \in Calls \ {c} /\ providerCallId[b] \in ProviderCalls
                BY <3>1
            <4>3. providerCallId' = [providerCallId EXCEPT ![c] = p]
                BY <2>1
            <4> QED BY <4>1, <4>2, <4>3, AloneBefore
        <3> QED BY <2>1, <3>1, <3>2 DEF MapInv, MappedIfAlone
    <2> QED BY <2>2, <2>3, <2>4 DEF MapInv
<1> QED BY <1>1, <1>2

\* Every step of an outbound setup keeps the maps in order.
LEMMA MapsOutbound ==
    ASSUME TypeOK, MapInv, NEW c \in Calls, Outbound(c) PROVE MapInv'
<1>1. CASE \E d \in Devices, k \in Kinds : InitiateOutbound(c, d, k)
    BY <1>1, MapsInitiate
<1>2. CASE OutboundSessionCreated(c)
    BY <1>2, MapsAdvance DEF OutboundSessionCreated, Reserved
<1>3. CASE \E created \in BOOLEAN : OutboundSessionFails(c, created)
    BY <1>3, MapsAdvance DEF OutboundSessionFails, Reserved
<1>4. CASE \E p \in ProviderCalls : MakeCallReturns(c, p)
    BY <1>4, MapsMakeCall
<1>5. CASE MakeCallFails(c)
    BY <1>5, MapsAdvance DEF MakeCallFails, Reserved
<1>6. CASE PatchSettles(c)
    <2> DEFINE p == providerCallId[c]
    <2>1. /\ p \in ProviderCalls /\ providerCallId[c] \in {p, NoProviderCall}
          /\ setup[c] = "patching" /\ TrackOutbound(c, p)
        BY <1>6 DEF PatchSettles, MapInv, HasProviderCall
    <2> HIDE DEF p
    <2> QED BY <2>1, MapsTrackOutbound
<1> QED BY <1>1, <1>2, <1>3, <1>4, <1>5, <1>6 DEF Outbound

\* Every step of handleInbound keeps the maps in order: the early mapping is for a
\* call that is creating its session, and goes with it when that fails.
LEMMA MapsInbound ==
    ASSUME TypeOK, MapInv, NEW c \in Calls, Inbound(c) PROVE MapInv'
<1>1. CASE \E p \in ProviderCalls, k \in Kinds : HandleInbound(c, p, k)
    <2>1. PICK p \in ProviderCalls :
              /\ setup[c] = "new" /\ setup' = [setup EXCEPT ![c] = "creating"]
              /\ providerCallId' = [providerCallId EXCEPT ![c] = p]
              /\ providerCallToInternal' = [providerCallToInternal EXCEPT ![p] = c]
              /\ direction' = [direction EXCEPT ![c] = "inbound"]
              /\ UNCHANGED <<ended, watchdog, activeCalls, sessionToCall, notificationToCall>>
        BY <1>1 DEF HandleInbound, Advance, Fresh
    <2>2. NotYetTracked' /\ HasProviderCall' /\ NoIdYet' /\ WatchdogArmed'
        BY <2>1 DEF TypeOK, MapInv, NotYetTracked, HasProviderCall, NoIdYet, Reserved, Early,
            WatchdogArmed, Tracked
    <2>3. NoDanglingId'
        <3>1. sessionToCall' = activeCalls' /\ notificationToCall' \subseteq activeCalls'
            BY <2>1 DEF MapInv, NoDanglingId
        <3>2. c \notin activeCalls /\ ~ended[c] /\ ~Reserved(c)
            BY <2>1 DEF MapInv, NotYetTracked, Early, Reserved
        <3>3. ASSUME NEW q \in ProviderCalls, providerCallToInternal'[q] # NoCall
              PROVE  LET b == providerCallToInternal'[q] IN
                     /\ providerCallId'[b] = q
                     /\ ~ended'[b]
                     /\ b \in activeCalls' \/ (setup'[b] = "creating" /\ direction'[b] = "inbound")
            <4>1. CASE q = p
                BY <2>1, <3>2, <4>1 DEF TypeOK
            <4>2. CASE q # p
                BY <2>1, <3>2, <3>3, <4>2 DEF TypeOK, MapInv, NoDanglingId, Reserved, Tracked
            <4> QED BY <4>1, <4>2
        <3> QED BY <3>1, <3>3 DEF NoDanglingId, Tracked
    <2>4. MappedIfAlone'
        <3> SUFFICES ASSUME NEW b \in Calls, (b \in activeCalls \/ Reserved(b))', Alone(b)'
                     PROVE  providerCallToInternal'[providerCallId'[b]] = b
            BY DEF MappedIfAlone
        <3>1. CASE b = c
            BY <2>1, <3>1 DEF TypeOK
        <3>2. CASE b # c
            <4>1. (b \in activeCalls \/ Reserved(b)) /\ providerCallId[b] \in ProviderCalls
                BY <2>1, <3>2 DEF TypeOK, Reserved, MapInv, HasProviderCall
            <4>2. Alone(b) /\ providerCallId[b] # p /\ providerCallId'[b] = providerCallId[b]
                <5>1. providerCallId[c] = NoProviderCall
                    BY <2>1 DEF MapInv, NoIdYet
                <5> QED BY <2>1, <3>2, <4>1, <5>1, AloneBefore
            <4> QED BY <2>1, <3>2, <4>1, <4>2 DEF TypeOK, MapInv, MappedIfAlone
        <3> QED BY <3>1, <3>2
    <2> QED BY <2>2, <2>3, <2>4 DEF MapInv
<1>2. CASE InboundSessionCreated(c)
    <2>1. /\ Reserved(c) /\ setup' = [setup EXCEPT ![c] = "numbers"]
          /\ activeCalls' = activeCalls \cup {c}
          /\ sessionToCall' = sessionToCall \cup {c}
          /\ watchdog' = [watchdog EXCEPT ![c] = "short"]
          /\ UNCHANGED <<providerCallId, providerCallToInternal, notificationToCall,
                         direction, ended>>
        BY <1>2 DEF InboundSessionCreated, Track, Advance, Reserved
    <2>2. NotYetTracked' /\ HasProviderCall' /\ NoIdYet' /\ WatchdogArmed'
        BY <2>1 DEF TypeOK, MapInv, NotYetTracked, HasProviderCall, NoIdYet, Reserved, Early,
            WatchdogArmed, Tracked
    <2>3. NoDanglingId' /\ MappedIfAlone'
        BY <2>1 DEF TypeOK, MapInv, NoDanglingId, MappedIfAlone, Alone, HasProviderCall,
            Reserved, Tracked
    <2> QED BY <2>2, <2>3 DEF MapInv
<1>3. CASE \E created \in BOOLEAN : InboundSessionFails(c, created)
    <2>1. /\ Reserved(c) /\ setup' = [setup EXCEPT ![c] = "failed"]
          /\ providerCallToInternal' =
                [providerCallToInternal EXCEPT ![providerCallId[c]] = NoCall]
          /\ UNCHANGED <<direction, providerCallId, ended, watchdog, activeCalls,
                         sessionToCall, notificationToCall>>
        BY <1>3 DEF InboundSessionFails, Advance, Reserved
    <2>2. NotYetTracked' /\ HasProviderCall' /\ NoIdYet' /\ WatchdogArmed'
        BY <2>1 DEF TypeOK, MapInv, NotYetTracked, HasProviderCall, NoIdYet, Reserved, Early,
            WatchdogArmed, Tracked
    <2>3. NoDanglingId'
        BY <2>1, NullsAssumption DEF TypeOK, MapInv, NoDanglingId, HasProviderCall,
            Reserved, Tracked
    <2>4. MappedIfAlone'
        BY <2>1 DEF TypeOK, MapInv, NotYetTracked, Early, HasProviderCall, Reserved,
            MappedIfAlone, Alone
    <2> QED BY <2>2, <2>3, <2>4 DEF MapInv
<1>4. CASE NumbersReturned(c)
    BY <1>4, MapsAdvance DEF NumbersReturned, Reserved
<1>5. CASE NumbersFail(c)
    BY <1>5, MapsAdvance DEF NumbersFail, Reserved
<1> QED BY <1>1, <1>2, <1>3, <1>4, <1>5 DEF Inbound

\* A claim re-arms the watchdog of a call that is tracked.
LEMMA MapsClaim ==
    ASSUME TypeOK, MapInv, NEW c \in activeCalls, NEW d, Claim(c, d), UNCHANGED <<setup, table>>
    PROVE  MapInv'
    BY DEF Claim, TypeOK, MapInv, NotYetTracked, HasProviderCall, NoIdYet, Reserved, Early,
        NoDanglingId, WatchdogArmed, MappedIfAlone, Alone, Tracked

\* Every step of answering keeps the maps in order.
LEMMA MapsAnswering == ASSUME TypeOK, MapInv, Answering PROVE MapInv'
<1>1. CASE \E id \in Ids, d \in Devices : AnswerCall(id, d)
    <2>1. PICK id \in Ids, d \in Devices : AnswerCall(id, d)
        BY <1>1
    <2> DEFINE c == ResolveToCallId(id)
    <2>2. c \in activeCalls /\ Claim(c, d) /\ UNCHANGED <<setup, table>>
        BY <2>1 DEF AnswerCall
    <2> HIDE DEF c
    <2> QED BY <2>2, MapsClaim
<1>2. CASE \E r \in answering : AnswerPatched(r) \/ AnswerSucceeds(r) \/ AnswerFails(r)
    BY <1>2, MapsQuiet DEF AnswerPatched, AnswerSucceeds, AnswerFails, mapVars
<1> QED BY <1>1, <1>2 DEF Answering

\* Every step that may end a call keeps the maps in order.
LEMMA MapsEnding == ASSUME TypeOK, MapInv, Ending PROVE MapInv'
<1>1. CASE \E id \in Ids : Decline(id)
    <2>1. PICK id \in Ids : Decline(id)
        BY <1>1
    <2> DEFINE c == ResolveToCallId(id)
    <2>2. c \in Calls /\ EndCall(c, "declined")
        BY <2>1 DEF Decline, EndCall, TypeOK
    <2> HIDE DEF c
    <2> QED BY <2>2, MapsEnd
<1>2. CASE \E c \in Calls : WatchdogFires(c)
    BY <1>2, MapsEnd DEF WatchdogFires
<1>3. CASE \E p \in ProviderCalls : ProviderTerminal(p)
    <2>1. PICK p \in ProviderCalls : ProviderTerminal(p)
        BY <1>3
    <2> DEFINE c == providerCallToInternal[p]
    <2>2. CASE c \in activeCalls
        <3>1. c \in Calls /\ EndCall(c, "provider_call_state_changed")
            BY <2>1, <2>2 DEF ProviderTerminal, TypeOK
        <3> HIDE DEF c
        <3> QED BY <3>1, MapsEnd
    <2>3. CASE c \notin activeCalls
        BY <2>1, <2>3, MapsQuiet DEF ProviderTerminal, mapVars
    <2> QED BY <2>2, <2>3
<1>4. CASE \E p \in ProviderCalls : ProviderAnswered(p)
    BY <1>4, MapsQuiet DEF ProviderAnswered, mapVars
<1> QED BY <1>1, <1>2, <1>3, <1>4 DEF Ending

\* Every MediaBridge event keeps the maps in order.
LEMMA MapsMediaEvent ==
    ASSUME TypeOK, MapInv, NEW c \in Calls, MediaEvent(c) PROVE MapInv'
<1>1. CASE ProviderConnected(c)
    <2>1. CASE listenerUp /\ c \in sessionToCall /\ c \in activeCalls
               /\ ~answered[c] /\ direction[c] = "outbound"
        BY <1>1, <2>1, MapsClaim DEF ProviderConnected, HandleProviderConnected
    <2>2. CASE ~(listenerUp /\ c \in sessionToCall /\ c \in activeCalls
               /\ ~answered[c] /\ direction[c] = "outbound")
        <3>1. UNCHANGED <<call, setup, table>>
            BY <1>1, <2>2 DEF ProviderConnected, HandleProviderConnected
        <3> QED BY <3>1, MapsQuiet DEF mapVars
    <2> QED BY <2>1, <2>2
<1>2. CASE ProviderDisconnected(c)
    BY <1>2, MapsEnd, MapsQuiet DEF ProviderDisconnected, mapVars
<1>3. CASE ClientDisconnected(c)
    BY <1>3, MapsEnd DEF ClientDisconnected
<1> QED BY <1>1, <1>2, <1>3 DEF MediaEvent

\* The MediaBridge, its socket and the passes disturb the maps through endCall only.
LEMMA MapsBridge == ASSUME TypeOK, MapInv, Bridge PROVE MapInv'
    BY MapsQuiet DEF Bridge, DestroySettles, ListenerDrops, MediaBridgeRestarts,
        ListenerReconnects, mapVars

\* reconcileActiveSessions and endAllCalls disturb the maps through endCall only.
LEMMA MapsPasses == ASSUME TypeOK, MapInv, Passes PROVE MapInv'
    BY MapsQuiet, MapsEnd DEF Passes, EndAllCalls, ReconcileVisits, ReconcileKeeps,
        ReconcileEnds, SweepNext, mapVars

\* The notification id is registered for a call that is tracked.
LEMMA MapsNotifying ==
    ASSUME TypeOK, MapInv, NEW c \in Calls, Notifying(c) PROVE MapInv'
<1>1. CASE NotificationSent(c) \/ NotificationFails(c)
    BY <1>1, MapsQuiet DEF NotificationSent, NotificationFails, mapVars
<1>2. CASE NotificationRegistered(c)
    BY <1>2 DEF NotificationRegistered, TypeOK, MapInv, NotYetTracked, HasProviderCall, NoIdYet,
        Reserved, NoDanglingId, WatchdogArmed, MappedIfAlone, Alone, Tracked
<1> QED BY <1>1, <1>2 DEF Notifying

\* Every step keeps the maps in order.
LEMMA MapsNext == TypeOK /\ MapInv /\ [Next]_vars => MapInv'
<1> SUFFICES ASSUME TypeOK, MapInv, [Next]_vars PROVE MapInv'
    OBVIOUS
<1>1. CASE UNCHANGED vars
    BY <1>1, MapsQuiet DEF vars, mapVars
<1>2. CASE Next
    BY <1>2, MapsOutbound, MapsInbound, MapsAnswering, MapsEnding, MapsMediaEvent,
        MapsBridge, MapsPasses, MapsNotifying DEF Next
<1> QED BY <1>1, <1>2

\* The maps are in order in every reachable state.
LEMMA MapsInvariant == Spec => [](TypeOK /\ MapInv)
<1>1. Init => TypeOK /\ MapInv
    BY InitTypes, MapsInit
<1>2. TypeOK /\ MapInv /\ [Next]_vars => (TypeOK /\ MapInv)'
    BY NextTypes, MapsNext
<1> QED BY <1>1, <1>2, PTL DEF Spec

\* No id the server resolves leads to a call that is over, whatever the
\* interleaving of setups, answers, ends and notification continuations.
THEOREM IdsNeverDangle == Spec => []NoDanglingId
<1>1. MapInv => NoDanglingId
    BY DEF MapInv
<1> QED BY <1>1, MapsInvariant, PTL

\* Every tracked call has its watchdog armed, and no timer outlives its call.
THEOREM WatchdogFollowsCall == Spec => []WatchdogArmed
<1>1. MapInv => WatchdogArmed
    BY DEF MapInv
<1> QED BY <1>1, MapsInvariant, PTL

\* Unless a webhook is delivered again, the provider's hang-up finds its call.
THEOREM HangupsFindTheirCall == Spec => []HangupFindsCall
<1>1. TypeOK /\ MapInv => HangupFindsCall
    BY DEF TypeOK, MapInv, MappedIfAlone, Alone, HangupFindsCall
<1> QED BY <1>1, MapsInvariant, PTL

-----------------------------------------------------------------------------
(* AnswerInv is inductive, and so is ClaimInv alone                        *)

\* What every step of the orchestrator does to the claims.
ClaimsKept == ClaimInv' /\ (ClaimHeld => ClaimHeld')

answerVars == <<setup, direction, claim, answering, told>>

\* Initially no call is claimed.
LEMMA AnswersInit == Init => AnswerInv
    BY DEF Init, AnswerInv, ClaimInv, UnclaimedEarly, Early, PendingHolds, ToldHolds, ClaimHeld

\* A step that leaves the claims, the requests and the setups alone.
LEMMA AnswersQuiet == ASSUME ClaimInv, UNCHANGED answerVars PROVE ClaimsKept
    BY DEF answerVars, ClaimInv, UnclaimedEarly, PendingHolds, ToldHolds, ClaimHeld, ClaimsKept

\* A setup that moves on, to a place where it may be claimed or not.
LEMMA AnswersAdvance ==
    ASSUME TypeOK, ClaimInv, NEW c \in Calls, NEW phase \in Phases, Advance(c, phase),
           phase \in Early => setup[c] \in Early,
           UNCHANGED <<direction, claim, answering, told>>
    PROVE  ClaimsKept
<1>1. UnclaimedEarly'
    BY DEF TypeOK, Advance, ClaimInv, UnclaimedEarly
<1>2. PendingHolds' /\ ToldHolds' /\ (ClaimHeld => ClaimHeld')
    BY DEF ClaimInv, PendingHolds, ToldHolds, ClaimHeld
<1> QED BY <1>1, <1>2 DEF ClaimInv, ClaimsKept

\* A setup that begins: the call's direction is settled and it is not yet claimed.
LEMMA AnswersBegin ==
    ASSUME TypeOK, ClaimInv, NEW c \in Calls, setup[c] = "new", Advance(c, "creating"),
           NEW way \in {"inbound", "outbound"},
           direction' = [direction EXCEPT ![c] = way],
           NEW owner \in Devices \cup {NoDevice},
           answeredByDevice' = [answeredByDevice EXCEPT ![c] = owner],
           UNCHANGED <<answered, answering, told>>
    PROVE  ClaimsKept
<1>1. ~answered[c]
    BY DEF ClaimInv, UnclaimedEarly, Early
<1>2. UnclaimedEarly'
    BY DEF TypeOK, Advance, ClaimInv, UnclaimedEarly, Early
<1>3. PendingHolds'
    BY <1>1 DEF TypeOK, AnswerRequest, ClaimInv, PendingHolds
<1>4. ToldHolds' /\ (ClaimHeld => ClaimHeld')
    BY <1>1 DEF TypeOK, ClaimInv, ToldHolds, ClaimHeld
<1> QED BY <1>2, <1>3, <1>4 DEF ClaimInv, ClaimsKept

\* Every step of an outbound setup keeps the claims accounted for.
LEMMA AnswersOutbound ==
    ASSUME TypeOK, ClaimInv, NEW c \in Calls, Outbound(c) PROVE ClaimsKept
<1>1. CASE \E d \in Devices, k \in Kinds : InitiateOutbound(c, d, k)
    BY <1>1, AnswersBegin DEF InitiateOutbound
<1>2. CASE OutboundSessionCreated(c)
    BY <1>2, AnswersAdvance DEF OutboundSessionCreated, Phases, Early
<1>3. CASE \E created \in BOOLEAN : OutboundSessionFails(c, created)
    BY <1>3, AnswersAdvance DEF OutboundSessionFails, Phases, Early
<1>4. CASE \E p \in ProviderCalls : MakeCallReturns(c, p)
    BY <1>4, AnswersAdvance DEF MakeCallReturns, TrackOutbound, Track, Phases, Early
<1>5. CASE MakeCallFails(c)
    BY <1>5, AnswersAdvance DEF MakeCallFails, Phases, Early
<1>6. CASE PatchSettles(c)
    BY <1>6, AnswersAdvance DEF PatchSettles, TrackOutbound, Track, Phases, Early
<1> QED BY <1>1, <1>2, <1>3, <1>4, <1>5, <1>6 DEF Outbound

\* Every step of handleInbound keeps the claims accounted for.
LEMMA AnswersInbound ==
    ASSUME TypeOK, ClaimInv, NEW c \in Calls, Inbound(c) PROVE ClaimsKept
<1>1. CASE \E p \in ProviderCalls, k \in Kinds : HandleInbound(c, p, k)
    <2>1. answeredByDevice' = [answeredByDevice EXCEPT ![c] = answeredByDevice[c]]
        BY <1>1 DEF HandleInbound, TypeOK
    <2> QED BY <1>1, <2>1, AnswersBegin DEF HandleInbound, TypeOK
<1>2. CASE InboundSessionCreated(c)
    BY <1>2, AnswersAdvance DEF InboundSessionCreated, Track, Phases, Early
<1>3. CASE \E created \in BOOLEAN : InboundSessionFails(c, created)
    BY <1>3, AnswersAdvance DEF InboundSessionFails, Phases, Early
<1>4. CASE NumbersReturned(c)
    BY <1>4, AnswersAdvance DEF NumbersReturned, Phases, Early
<1>5. CASE NumbersFail(c)
    BY <1>5, AnswersAdvance DEF NumbersFail, Phases, Early
<1> QED BY <1>1, <1>2, <1>3, <1>4, <1>5 DEF Inbound

\* A new claim is on a call nobody holds: no request is pending on it and no device
\* has been told that it has it.
LEMMA FreeIfUnanswered ==
    ASSUME ClaimInv, NEW c \in Calls, ~answered[c]
    PROVE  /\ \A r \in answering : r.call # c
           /\ \A d \in Devices : <<c, d>> \notin told
    BY DEF ClaimInv, PendingHolds, ToldHolds

\* answerCall up to its first await, or to its end for an outbound call.
LEMMA AnswersAnswerCall ==
    ASSUME TypeOK, MapInv, ClaimInv, NEW id \in Ids, NEW d \in Devices, AnswerCall(id, d)
    PROVE  ClaimsKept
<1> DEFINE c == ResolveToCallId(id)
<1>1. /\ c \in Calls /\ c \in activeCalls /\ ~answered[c]
      /\ answered' = [answered EXCEPT ![c] = TRUE]
      /\ answeredByDevice' = [answeredByDevice EXCEPT ![c] = d]
      /\ UNCHANGED <<setup, direction>>
    BY DEF AnswerCall, Claim, TypeOK
<1>2. \/ /\ direction[c] = "inbound"
         /\ \E step \in {"patch", "provider"} :
                answering' = answering \cup {[call |-> c, device |-> d, step |-> step]}
         /\ UNCHANGED told
      \/ /\ direction[c] # "inbound"
         /\ told' = told \cup {<<c, d>>}
         /\ UNCHANGED answering
    BY DEF AnswerCall, ConfirmAnswer
<1> HIDE DEF c
<1>3. setup[c] \notin Early
    BY <1>1 DEF MapInv, NotYetTracked
<1>4. UnclaimedEarly'
    BY <1>1, <1>3 DEF TypeOK, ClaimInv, UnclaimedEarly
<1>5. PendingHolds'
    <2>1. CASE direction[c] = "inbound"
        BY <1>1, <1>2, <2>1, FreeIfUnanswered DEF TypeOK, AnswerRequest, ClaimInv, PendingHolds
    <2>2. CASE direction[c] # "inbound"
        BY <1>1, <1>2, <2>2, FreeIfUnanswered DEF TypeOK, AnswerRequest, ClaimInv, PendingHolds
    <2> QED BY <2>1, <2>2
<1>6. ToldHolds'
    BY <1>1, <1>2, FreeIfUnanswered DEF TypeOK, ClaimInv, ToldHolds
<1>7. ClaimHeld => ClaimHeld'
    <2>1. CASE direction[c] = "inbound"
        <3> PICK step \in {"patch", "provider"} :
                answering' = answering \cup {[call |-> c, device |-> d, step |-> step]}
            BY <1>2, <2>1
        <3>1. \E r \in answering' : r.call = c
            <4> DEFINE r == [call |-> c, device |-> d, step |-> step]
            <4>1. r \in answering' /\ r.call = c
                OBVIOUS
            <4> HIDE DEF r
            <4> QED BY <4>1
        <3>2. answering \subseteq answering' /\ UNCHANGED told
            BY <1>2, <2>1
        <3> QED BY <1>1, <3>1, <3>2 DEF TypeOK, ClaimInv, ClaimHeld
    <2>2. CASE direction[c] # "inbound"
        BY <1>1, <1>2, <2>2 DEF TypeOK, ClaimInv, ClaimHeld
    <2> QED BY <2>1, <2>2
<1> QED BY <1>4, <1>5, <1>6, <1>7 DEF ClaimInv, ClaimsKept

\* The pending request is confirmed, passes its first await, or gives the claim up.
LEMMA AnswersSettle ==
    ASSUME TypeOK, ClaimInv, NEW r \in answering,
           AnswerPatched(r) \/ AnswerSucceeds(r) \/ AnswerFails(r)
    PROVE  ClaimsKept
<1>1. r.call \in Calls /\ r.device \in Devices
    BY DEF TypeOK, AnswerRequest
<1>2. /\ direction[r.call] = "inbound" /\ answered[r.call] /\ answeredByDevice[r.call] = r.device
      /\ \A d \in Devices : <<r.call, d>> \notin told
      /\ \A q \in answering : q.call = r.call => q = r
    BY DEF ClaimInv, PendingHolds
<1>3. CASE AnswerPatched(r)
    <2>1. PICK q \in AnswerRequest : /\ q.call = r.call /\ q.device = r.device
                                     /\ answering' = (answering \ {r}) \cup {q}
        BY <1>3 DEF AnswerPatched, TypeOK, AnswerRequest
    <2>2. UNCHANGED <<setup, direction, claim, told>>
        BY <1>3 DEF AnswerPatched
    <2>3. PendingHolds'
        BY <1>2, <2>1, <2>2 DEF TypeOK, AnswerRequest, ClaimInv, PendingHolds
    <2> QED BY <2>1, <2>2, <2>3
           DEF TypeOK, ClaimInv, UnclaimedEarly, ToldHolds, ClaimHeld, ClaimsKept
<1>4. CASE AnswerSucceeds(r)
    <2>1. /\ answering' = answering \ {r} /\ told' = told \cup {<<r.call, r.device>>}
          /\ UNCHANGED <<setup, direction, claim>>
        BY <1>4 DEF AnswerSucceeds, ConfirmAnswer
    <2>2. PendingHolds'
        BY <1>1, <1>2, <2>1 DEF TypeOK, AnswerRequest, ClaimInv, PendingHolds
    <2> QED BY <1>1, <1>2, <2>1, <2>2
           DEF TypeOK, ClaimInv, UnclaimedEarly, ToldHolds, ClaimHeld, ClaimsKept
<1>5. CASE AnswerFails(r)
    <2>1. /\ answering' = answering \ {r}
          /\ answered' = [answered EXCEPT ![r.call] = FALSE]
          /\ answeredByDevice' = [answeredByDevice EXCEPT ![r.call] = NoDevice]
          /\ UNCHANGED <<setup, direction, told>>
        BY <1>5 DEF AnswerFails
    <2>2. PendingHolds'
        BY <1>1, <1>2, <2>1 DEF TypeOK, AnswerRequest, ClaimInv, PendingHolds
    <2> QED BY <1>1, <1>2, <2>1, <2>2
           DEF TypeOK, ClaimInv, UnclaimedEarly, ToldHolds, ClaimHeld, ClaimsKept
<1> QED BY <1>3, <1>4, <1>5

\* Every step of answering keeps the claims accounted for.
LEMMA AnswersAnswering ==
    ASSUME TypeOK, MapInv, ClaimInv, Answering PROVE ClaimsKept
    BY AnswersAnswerCall, AnswersSettle DEF Answering

\* endCall leaves the claim where it is.
LEMMA AnswersEnd ==
    ASSUME ClaimInv, NEW c, NEW trigger, EndCall(c, trigger) PROVE ClaimsKept
    BY AnswersQuiet DEF EndCall, answerVars

\* Hang-ups, timers and provider signals leave every claim where it is.
LEMMA AnswersEnding == ASSUME ClaimInv, Ending PROVE ClaimsKept
    BY AnswersEnd, AnswersQuiet DEF Ending, Decline, WatchdogFires, ProviderTerminal,
        ProviderAnswered, answerVars

\* provider_connected claims an outbound call for the device that dialled it.
LEMMA AnswersMediaEvent ==
    ASSUME TypeOK, MapInv, ClaimInv, NEW c \in Calls, MediaEvent(c) PROVE ClaimsKept
<1>1. CASE ProviderConnected(c)
    <2>1. CASE listenerUp /\ c \in sessionToCall /\ c \in activeCalls
               /\ ~answered[c] /\ direction[c] = "outbound"
        <3>1. /\ answered' = [answered EXCEPT ![c] = TRUE]
              /\ answeredByDevice' = [answeredByDevice EXCEPT ![c] = answeredByDevice[c]]
              /\ UNCHANGED <<setup, direction, answering, told>>
            BY <1>1, <2>1 DEF ProviderConnected, HandleProviderConnected, Claim
        <3>2. setup[c] \notin Early
            BY <2>1 DEF MapInv, NotYetTracked
        <3>3. UnclaimedEarly' /\ ToldHolds' /\ (ClaimHeld => ClaimHeld')
            BY <2>1, <3>1, <3>2, FreeIfUnanswered
            DEF TypeOK, ClaimInv, UnclaimedEarly, ToldHolds, ClaimHeld
        <3>4. PendingHolds'
            BY <2>1, <3>1, FreeIfUnanswered DEF TypeOK, AnswerRequest, ClaimInv, PendingHolds
        <3> QED BY <3>3, <3>4 DEF ClaimInv, ClaimsKept
    <2>2. CASE ~(listenerUp /\ c \in sessionToCall /\ c \in activeCalls
               /\ ~answered[c] /\ direction[c] = "outbound")
        <3>1. UNCHANGED <<call, setup, answering, told>>
            BY <1>1, <2>2 DEF ProviderConnected, HandleProviderConnected
        <3> QED BY <3>1, AnswersQuiet DEF answerVars
    <2> QED BY <2>1, <2>2
<1>2. CASE ProviderDisconnected(c)
    BY <1>2, AnswersEnd, AnswersQuiet DEF ProviderDisconnected, answerVars
<1>3. CASE ClientDisconnected(c)
    BY <1>3, AnswersEnd DEF ClientDisconnected
<1> QED BY <1>1, <1>2, <1>3 DEF MediaEvent

\* The MediaBridge and its socket leave every claim where it is.
LEMMA AnswersBridge == ASSUME ClaimInv, Bridge PROVE ClaimsKept
    BY AnswersQuiet DEF Bridge, DestroySettles, ListenerDrops, MediaBridgeRestarts,
        ListenerReconnects, answerVars

\* reconcileActiveSessions and endAllCalls leave every claim where it is.
LEMMA AnswersPasses == ASSUME ClaimInv, Passes PROVE ClaimsKept
    BY AnswersQuiet, AnswersEnd DEF Passes, EndAllCalls, ReconcileVisits, ReconcileKeeps,
        ReconcileEnds, SweepNext, answerVars

\* The notification steps leave every claim where it is.
LEMMA AnswersNotifying ==
    ASSUME ClaimInv, NEW c \in Calls, Notifying(c) PROVE ClaimsKept
    BY AnswersQuiet DEF Notifying, NotificationSent, NotificationFails,
        NotificationRegistered, answerVars

\* Every step keeps the claims accounted for.
LEMMA AnswersNext == TypeOK /\ MapInv /\ ClaimInv /\ [Next]_vars => ClaimsKept
<1> SUFFICES ASSUME TypeOK, MapInv, ClaimInv, [Next]_vars PROVE ClaimsKept
    OBVIOUS
<1>1. CASE UNCHANGED vars
    BY <1>1, AnswersQuiet DEF vars, answerVars
<1>2. CASE Next
    BY <1>2, AnswersOutbound, AnswersInbound, AnswersAnswering, AnswersEnding,
        AnswersMediaEvent, AnswersBridge, AnswersPasses, AnswersNotifying DEF Next
<1> QED BY <1>1, <1>2

\* The inductive invariant holds in every reachable state.
THEOREM InductiveInvariant == Spec => []IInv
<1>1. Init => IInv
    BY InitTypes, MapsInit, AnswersInit DEF IInv
<1>2. IInv /\ [Next]_vars => IInv'
    BY NextTypes, MapsNext, AnswersNext DEF IInv, AnswerInv, ClaimsKept
<1> QED BY <1>1, <1>2, PTL DEF Spec

\* Two devices are never both told that they have one call.
THEOREM NeverTwoWinners == Spec => []OneWinner
<1>1. IInv => OneWinner
    BY DEF IInv, AnswerInv, ClaimInv, ToldHolds, OneWinner, Serves
<1> QED BY <1>1, InductiveInvariant, PTL

\* The claim on an inbound call belongs to its one pending request or to the one
\* device that was told: no failure, race or end leaks it or loses it.
THEOREM ClaimsAreAccounted == Spec => []ClaimAccounted
<1>1. IInv => ClaimAccounted
    <2> SUFFICES ASSUME IInv, NEW c \in Calls, direction[c] = "inbound"
                 PROVE  {r.device : r \in Pending(c)} \cup {d \in Devices : Serves(c, d)}
                            = IF answered[c] THEN {answeredByDevice[c]} ELSE {}
        BY DEF ClaimAccounted
    <2>1. \A r \in Pending(c) : answered[c] /\ r.device = answeredByDevice[c]
        BY DEF IInv, AnswerInv, ClaimInv, PendingHolds, Pending
    <2>2. \A d \in Devices : Serves(c, d) => answered[c] /\ d = answeredByDevice[c]
        BY DEF IInv, AnswerInv, ClaimInv, ToldHolds, Serves
    <2>3. answered[c] => Pending(c) # {} \/ \E d \in Devices : Serves(c, d)
        <3> SUFFICES ASSUME <<c, answeredByDevice[c]>> \in told
                     PROVE  \E d \in Devices : <<c, d>> \in told
            BY DEF IInv, AnswerInv, ClaimHeld, Pending, Serves
        <3> QED BY DEF IInv, TypeOK
    <2> QED BY <2>1, <2>2, <2>3
<1> QED BY <1>1, InductiveInvariant, PTL

-----------------------------------------------------------------------------
(* Sessions.  A destroy request is only ever issued for a call that ended; *)
(* a setup that waits for its provider has its session already.            *)

DestroyedAreEnded == \A c \in destroying : ended[c]

SetupHasSession ==
    "restart" \notin Faults =>
        \A c \in Calls : setup[c] \in {"dialing", "patching"} => c \in mediaSessions

SessionInv == DestroyedAreEnded /\ SetupHasSession /\ SessionsOwned /\ SessionKept

sessionVars == <<setup, ended, activeCalls, media>>

\* Initially there is no session.
LEMMA SessionsInit == Init => SessionInv
    BY DEF Init, SessionInv, DestroyedAreEnded, SetupHasSession, SessionsOwned, SessionKept

\* A step that leaves the setups, the sessions and the tracked calls alone.
LEMMA SessionsQuiet == ASSUME SessionInv, UNCHANGED sessionVars PROVE SessionInv'
    BY DEF sessionVars, SessionInv, DestroyedAreEnded, SetupHasSession, SessionsOwned, SessionKept,
        Tracked

\* A setup that goes on to wait for its provider, with the session it has or has
\* just got, or that begins and has none.
LEMMA SessionsAdvance ==
    ASSUME TypeOK, MapInv, SessionInv, NEW c \in Calls,
           NEW phase \in {"creating", "dialing", "patching"}, Advance(c, phase),
           mediaSessions' = IF phase = "dialing" THEN mediaSessions \cup {c} ELSE mediaSessions,
           phase = "creating" => setup[c] = "new",
           phase = "patching" => setup[c] = "dialing",
           UNCHANGED <<ended, activeCalls, destroying>>
    PROVE  SessionInv'
<1>1. DestroyedAreEnded' /\ SessionKept'
    BY DEF SessionInv, DestroyedAreEnded, SessionKept
<1>2. SetupHasSession'
    BY DEF TypeOK, Advance, SessionInv, SetupHasSession
<1>3. SessionsOwned'
    BY DEF TypeOK, Advance, SessionInv, SessionsOwned, Tracked
<1> QED BY <1>1, <1>2, <1>3 DEF SessionInv

\* A setup that gives up before the call is tracked may leave its session behind.
LEMMA SessionsGiveUp ==
    ASSUME TypeOK, MapInv, SessionInv, NEW c \in Calls, setup[c] \in Early, Advance(c, "failed"),
           NEW created \in BOOLEAN,
           mediaSessions' = IF created THEN mediaSessions \cup {c} ELSE mediaSessions,
           UNCHANGED <<ended, activeCalls, destroying>>
    PROVE  SessionInv'
<1>1. DestroyedAreEnded' /\ SessionKept'
    BY DEF SessionInv, DestroyedAreEnded, SessionKept
<1>2. SetupHasSession'
    BY DEF TypeOK, Advance, SessionInv, SetupHasSession
<1>3. SessionsOwned'
    BY DEF TypeOK, Advance, MapInv, NotYetTracked, SessionInv, SessionsOwned, Tracked
<1> QED BY <1>1, <1>2, <1>3 DEF SessionInv

\* A call that is tracked has the session it was set up with.
LEMMA SessionsTrack ==
    ASSUME TypeOK, SessionInv, NEW c \in Calls, NEW phase \in {"numbers", "returned"},
           Advance(c, phase), activeCalls' = activeCalls \cup {c},
           mediaSessions' = IF phase = "numbers" THEN mediaSessions \cup {c} ELSE mediaSessions,
           phase = "returned" => setup[c] \in {"dialing", "patching"},
           UNCHANGED <<ended, destroying>>
    PROVE  SessionInv'
<1>1. DestroyedAreEnded'
    BY DEF SessionInv, DestroyedAreEnded
<1>2. SetupHasSession' /\ SessionKept'
    BY DEF TypeOK, Advance, SessionInv, SetupHasSession, SessionKept
<1>3. SessionsOwned'
    BY DEF TypeOK, Advance, SessionInv, SessionsOwned, Tracked
<1> QED BY <1>1, <1>2, <1>3 DEF SessionInv

\* The setup of a call that is tracked moves on.
LEMMA SessionsMoveOn ==
    ASSUME TypeOK, SessionInv, NEW c \in Calls, setup[c] = "numbers",
           NEW phase \in {"returned", "failed"}, Advance(c, phase),
           UNCHANGED <<ended, activeCalls, media>>
    PROVE  SessionInv'
    BY DEF TypeOK, Advance, SessionInv, DestroyedAreEnded, SetupHasSession, SessionsOwned,
        SessionKept, Tracked

\* Every step of an outbound setup keeps the sessions owned.
LEMMA SessionsOutbound ==
    ASSUME TypeOK, MapInv, SessionInv, NEW c \in Calls, Outbound(c) PROVE SessionInv'
<1>1. CASE \E d \in Devices, k \in Kinds : InitiateOutbound(c, d, k)
    BY <1>1, SessionsAdvance DEF InitiateOutbound
<1>2. CASE OutboundSessionCreated(c)
    BY <1>2, SessionsAdvance DEF OutboundSessionCreated
<1>3. CASE \E created \in BOOLEAN : OutboundSessionFails(c, created)
    BY <1>3, SessionsGiveUp DEF OutboundSessionFails, Early
<1>4. CASE \E p \in ProviderCalls : MakeCallReturns(c, p)
    <2>1. PICK p \in ProviderCalls : MakeCallReturns(c, p)
        BY <1>4
    <2>2. CASE kind[c] = "echo"
        BY <2>1, <2>2, SessionsTrack DEF MakeCallReturns, TrackOutbound, Track
    <2>3. CASE kind[c] # "echo"
        BY <2>1, <2>3, SessionsAdvance DEF MakeCallReturns
    <2> QED BY <2>2, <2>3
<1>5. CASE MakeCallFails(c)
    <2>1. mediaSessions' = IF FALSE THEN mediaSessions \cup {c} ELSE mediaSessions
        BY <1>5 DEF MakeCallFails
    <2> QED BY <1>5, <2>1, SessionsGiveUp DEF MakeCallFails, Early
<1>6. CASE PatchSettles(c)
    BY <1>6, SessionsTrack DEF PatchSettles, TrackOutbound, Track
<1> QED BY <1>1, <1>2, <1>3, <1>4, <1>5, <1>6 DEF Outbound

\* Every step of handleInbound keeps the sessions owned.
LEMMA SessionsInbound ==
    ASSUME TypeOK, MapInv, SessionInv, NEW c \in Calls, Inbound(c) PROVE SessionInv'
<1>1. CASE \E p \in ProviderCalls, k \in Kinds : HandleInbound(c, p, k)
    BY <1>1, SessionsAdvance DEF HandleInbound
<1>2. CASE InboundSessionCreated(c)
    BY <1>2, SessionsTrack DEF InboundSessionCreated, Track
<1>3. CASE \E created \in BOOLEAN : InboundSessionFails(c, created)
    BY <1>3, SessionsGiveUp DEF InboundSessionFails, Early
<1>4. CASE NumbersReturned(c)
    BY <1>4, SessionsMoveOn DEF NumbersReturned
<1>5. CASE NumbersFail(c)
    BY <1>5, SessionsMoveOn DEF NumbersFail
<1> QED BY <1>1, <1>2, <1>3, <1>4, <1>5 DEF Inbound

\* endCall hands the session of its call over to the destroy request.
LEMMA SessionsEnd ==
    ASSUME TypeOK, SessionInv, NEW c \in Calls, NEW trigger, EndCall(c, trigger)
    PROVE  SessionInv'
<1>1. /\ ended' = [ended EXCEPT ![c] = TRUE] /\ activeCalls' = activeCalls \ {c}
      /\ destroying' = destroying \cup {c}
      /\ UNCHANGED <<setup, mediaSessions>>
    BY DEF EndCall
<1>2. DestroyedAreEnded'
    BY <1>1 DEF TypeOK, SessionInv, DestroyedAreEnded
<1>3. SetupHasSession' /\ SessionKept'
    BY <1>1 DEF SessionInv, SetupHasSession, SessionKept
<1>4. SessionsOwned'
    BY <1>1 DEF TypeOK, SessionInv, SessionsOwned, Tracked
<1> QED BY <1>2, <1>3, <1>4 DEF SessionInv

\* No answer touches a session.
LEMMA SessionsAnswering == ASSUME SessionInv, Answering PROVE SessionInv'
    BY SessionsQuiet DEF Answering, AnswerCall, Claim, AnswerPatched, AnswerSucceeds, AnswerFails,
        sessionVars

\* Hang-ups, timers and provider signals reach a session through endCall only.
LEMMA SessionsEnding == ASSUME TypeOK, SessionInv, Ending PROVE SessionInv'
<1>1. CASE \E id \in Ids : Decline(id)
    <2>1. PICK id \in Ids : Decline(id)
        BY <1>1
    <2> DEFINE c == ResolveToCallId(id)
    <2>2. c \in Calls /\ EndCall(c, "declined")
        BY <2>1 DEF Decline, EndCall, TypeOK
    <2> HIDE DEF c
    <2> QED BY <2>2, SessionsEnd
<1>2. CASE \E c \in Calls : WatchdogFires(c)
    BY <1>2, SessionsEnd DEF WatchdogFires
<1>3. CASE \E p \in ProviderCalls : ProviderTerminal(p)
    <2>1. PICK p \in ProviderCalls : ProviderTerminal(p)
        BY <1>3
    <2> DEFINE c == providerCallToInternal[p]
    <2>2. CASE c \in activeCalls
        <3>1. c \in Calls /\ EndCall(c, "provider_call_state_changed")
            BY <2>1, <2>2 DEF ProviderTerminal, TypeOK
        <3> HIDE DEF c
        <3> QED BY <3>1, SessionsEnd
    <2>3. CASE c \notin activeCalls
        BY <2>1, <2>3, SessionsQuiet DEF ProviderTerminal, sessionVars
    <2> QED BY <2>2, <2>3
<1>4. CASE \E p \in ProviderCalls : ProviderAnswered(p)
    BY <1>4, SessionsQuiet DEF ProviderAnswered, sessionVars
<1> QED BY <1>1, <1>2, <1>3, <1>4 DEF Ending

\* A provider or client that leaves ends the call; nothing else of a media event
\* touches the sessions.
LEMMA SessionsMediaEvent ==
    ASSUME TypeOK, SessionInv, NEW c \in Calls, MediaEvent(c) PROVE SessionInv'
<1>1. CASE ProviderConnected(c)
    <2>1. UNCHANGED <<setup, ended, activeCalls, mediaSessions, destroying>>
        BY <1>1 DEF ProviderConnected, HandleProviderConnected, Claim
    <2> QED BY <2>1 DEF SessionInv, DestroyedAreEnded, SetupHasSession, SessionsOwned,
            SessionKept, Tracked
<1>2. CASE ProviderDisconnected(c)
    <2>1. CASE listenerUp /\ c \in sessionToCall /\ c \in activeCalls
        BY <1>2, <2>1, SessionsEnd DEF ProviderDisconnected
    <2>2. CASE ~(listenerUp /\ c \in sessionToCall /\ c \in activeCalls)
        <3>1. UNCHANGED <<setup, ended, activeCalls, mediaSessions, destroying>>
            BY <1>2, <2>2 DEF ProviderDisconnected
        <3> QED BY <3>1 DEF SessionInv, DestroyedAreEnded, SetupHasSession, SessionsOwned,
                SessionKept, Tracked
    <2> QED BY <2>1, <2>2
<1>3. CASE ClientDisconnected(c)
    BY <1>3, SessionsEnd DEF ClientDisconnected
<1> QED BY <1>1, <1>2, <1>3 DEF MediaEvent

\* A destroy request takes the session of a call that is over; a restart takes all
\* and then nothing is promised.
LEMMA SessionsBridge == ASSUME TypeOK, MapInv, SessionInv, Bridge PROVE SessionInv'
<1>1. CASE \E c \in Calls, done \in BOOLEAN : DestroySettles(c, done)
    <2>1. PICK c \in Calls, done \in BOOLEAN : DestroySettles(c, done)
        BY <1>1
    <2>2. /\ c \in destroying
          /\ done \/ "destroy" \in Faults
          /\ destroying' = destroying \ {c}
          /\ mediaSessions' = IF done THEN mediaSessions \ {c} ELSE mediaSessions
          /\ UNCHANGED <<setup, ended, activeCalls>>
        BY <2>1 DEF DestroySettles
    <2>3. ended[c]
        BY <2>2 DEF SessionInv, DestroyedAreEnded
    <2>4. c \notin activeCalls /\ setup[c] \notin {"dialing", "patching"}
        BY <2>1, <2>3 DEF MapInv, HasProviderCall, NotYetTracked, Early
    <2>5. DestroyedAreEnded' /\ SetupHasSession' /\ SessionKept'
        BY <2>2, <2>4 DEF SessionInv, DestroyedAreEnded, SetupHasSession, SessionKept
    <2>6. SessionsOwned'
        BY <2>2 DEF SessionInv, SessionsOwned, Tracked
    <2> QED BY <2>5, <2>6 DEF SessionInv
<1>2. CASE MediaBridgeRestarts
    BY <1>2 DEF MediaBridgeRestarts, SessionInv, DestroyedAreEnded, SetupHasSession,
        SessionsOwned, SessionKept
<1>3. CASE ListenerDrops \/ ListenerReconnects
    BY <1>3, SessionsQuiet DEF ListenerDrops, ListenerReconnects, sessionVars
<1> QED BY <1>1, <1>2, <1>3 DEF Bridge

\* reconcileActiveSessions and endAllCalls reach a session through endCall only.
LEMMA SessionsPasses == ASSUME TypeOK, SessionInv, Passes PROVE SessionInv'
<1>1. CASE EndAllCalls \/ \E c \in Calls : ReconcileVisits(c) \/ ReconcileKeeps(c)
    BY <1>1, SessionsQuiet DEF EndAllCalls, ReconcileVisits, ReconcileKeeps, sessionVars
<1>2. CASE \E c \in Calls : ReconcileEnds(c) \/ SweepNext(c)
    BY <1>2, SessionsEnd, SessionsQuiet DEF ReconcileEnds, SweepNext, sessionVars
<1> QED BY <1>1, <1>2 DEF Passes

\* Every step keeps the sessions owned.
LEMMA SessionsNext == TypeOK /\ MapInv /\ SessionInv /\ [Next]_vars => SessionInv'
<1> SUFFICES ASSUME TypeOK, MapInv, SessionInv, [Next]_vars PROVE SessionInv'
    OBVIOUS
<1>1. CASE UNCHANGED vars
    BY <1>1, SessionsQuiet DEF vars, sessionVars
<1>2. CASE \E c \in Calls : Notifying(c)
    BY <1>2, SessionsQuiet DEF Notifying, NotificationSent, NotificationFails,
        NotificationRegistered, sessionVars
<1>3. CASE Next
    BY <1>2, <1>3, SessionsOutbound, SessionsInbound, SessionsAnswering, SessionsEnding,
        SessionsMediaEvent, SessionsBridge, SessionsPasses DEF Next
<1> QED BY <1>1, <1>3

\* The sessions are owned in every reachable state.
LEMMA SessionInvariant == Spec => []SessionInv
<1>1. Init => SessionInv
    BY SessionsInit
<1>2. TypeOK /\ MapInv /\ SessionInv /\ [Next]_vars => SessionInv'
    BY SessionsNext
<1> QED BY <1>1, <1>2, MapsInvariant, PTL DEF Spec

\* While destroy requests are carried out, the only session nobody gives back is
\* the one of a setup that threw before its call was tracked.
THEOREM EverySessionHasAnOwner == Spec => []SessionsOwned
<1>1. SessionInv => SessionsOwned
    BY DEF SessionInv
<1> QED BY <1>1, SessionInvariant, PTL

\* Unless the MediaBridge restarts, a tracked call never loses its session.
THEOREM LiveCallsKeepTheirSession == Spec => []SessionKept
<1>1. SessionInv => SessionKept
    BY DEF SessionInv
<1> QED BY <1>1, SessionInvariant, PTL

-----------------------------------------------------------------------------
(* Notifications.  Until handleInbound has its numbers, no notification is *)
(* created for the call.                                                   *)

NotYetNotified ==
    \A c \in Calls : setup[c] \in Early \cup {"numbers"} => notification[c] = "none"

NoteInv == NotYetNotified /\ RegisteredIdResolves

noteVars == <<setup, activeCalls, notification, notificationToCall>>

\* A step that leaves the notifications, their map and the setups alone.
LEMMA NotesQuiet == ASSUME NoteInv, UNCHANGED noteVars PROVE NoteInv'
    BY DEF noteVars, NoteInv, NotYetNotified, RegisteredIdResolves

\* A setup that moves on before its call is notified, which it may begin to track.
LEMMA NotesAdvance ==
    ASSUME TypeOK, NoteInv, NEW c \in Calls, NEW phase \in Phases,
           setup[c] \in Early \cup {"numbers"}, Advance(c, phase),
           activeCalls' \in {activeCalls, activeCalls \cup {c}},
           UNCHANGED <<notification, notificationToCall>>
    PROVE  NoteInv'
<1>1. NotYetNotified'
    BY DEF TypeOK, Advance, NoteInv, NotYetNotified
<1>2. RegisteredIdResolves'
    BY DEF NoteInv, NotYetNotified, RegisteredIdResolves
<1> QED BY <1>1, <1>2 DEF NoteInv

\* endCall takes the call and its id out together.
LEMMA NotesEnd ==
    ASSUME NoteInv, NEW c \in Calls, NEW trigger, EndCall(c, trigger) PROVE NoteInv'
    BY DEF EndCall, NoteInv, NotYetNotified, RegisteredIdResolves

\* Every step of an outbound setup leaves the notifications alone.
LEMMA NotesOutbound ==
    ASSUME TypeOK, NoteInv, NEW c \in Calls, Outbound(c) PROVE NoteInv'
<1>1. CASE \/ \E d \in Devices, k \in Kinds : InitiateOutbound(c, d, k)
           \/ OutboundSessionCreated(c)
           \/ \E created \in BOOLEAN : OutboundSessionFails(c, created)
           \/ MakeCallFails(c)
    BY <1>1, NotesAdvance DEF InitiateOutbound, OutboundSessionCreated, OutboundSessionFails,
        MakeCallFails, Early, Phases
<1>2. CASE \E p \in ProviderCalls : MakeCallReturns(c, p)
    BY <1>2, NotesAdvance DEF MakeCallReturns, TrackOutbound, Track, Early, Phases
<1>3. CASE PatchSettles(c)
    BY <1>3, NotesAdvance DEF PatchSettles, TrackOutbound, Track, Early, Phases
<1> QED BY <1>1, <1>2, <1>3 DEF Outbound

\* handleInbound creates the notification of a call last.
LEMMA NotesInbound ==
    ASSUME TypeOK, NoteInv, NEW c \in Calls, Inbound(c) PROVE NoteInv'
<1>1. CASE \/ \E p \in ProviderCalls, k \in Kinds : HandleInbound(c, p, k)
           \/ InboundSessionCreated(c)
           \/ \E created \in BOOLEAN : InboundSessionFails(c, created)
           \/ NumbersFail(c)
    BY <1>1, NotesAdvance DEF HandleInbound, InboundSessionCreated, InboundSessionFails,
        NumbersFail, Track, Early, Phases
<1>2. CASE NumbersReturned(c)
    BY <1>2 DEF NumbersReturned, TypeOK, Advance, Early, NoteInv, NotYetNotified,
        RegisteredIdResolves
<1> QED BY <1>1, <1>2 DEF Inbound

\* No answer touches a notification.
LEMMA NotesAnswering == ASSUME NoteInv, Answering PROVE NoteInv'
    BY NotesQuiet DEF Answering, AnswerCall, ConfirmAnswer, AnswerPatched, AnswerSucceeds,
        AnswerFails, noteVars

\* Whatever ends a call, endCall takes its id out.
LEMMA NotesEnding == ASSUME TypeOK, NoteInv, Ending PROVE NoteInv'
<1>1. CASE \E id \in Ids : Decline(id)
    <2>1. PICK id \in Ids : Decline(id)
        BY <1>1
    <2> DEFINE c == ResolveToCallId(id)
    <2>2. c \in Calls /\ EndCall(c, "declined")
        BY <2>1 DEF Decline, EndCall, TypeOK
    <2> HIDE DEF c
    <2> QED BY <2>2, NotesEnd
<1>2. CASE \E c \in Calls : WatchdogFires(c)
    BY <1>2, NotesEnd DEF WatchdogFires
<1>3. CASE \E p \in ProviderCalls : ProviderTerminal(p)
    <2>1. PICK p \in ProviderCalls : ProviderTerminal(p)
        BY <1>3
    <2> DEFINE c == providerCallToInternal[p]
    <2>2. CASE c \in activeCalls
        <3>1. c \in Calls /\ EndCall(c, "provider_call_state_changed")
            BY <2>1, <2>2 DEF ProviderTerminal, TypeOK
        <3> HIDE DEF c
        <3> QED BY <3>1, NotesEnd
    <2>3. CASE c \notin activeCalls
        BY <2>1, <2>3, NotesQuiet DEF ProviderTerminal, noteVars
    <2> QED BY <2>2, <2>3
<1>4. CASE \E p \in ProviderCalls : ProviderAnswered(p)
    BY <1>4, NotesQuiet DEF ProviderAnswered, noteVars
<1> QED BY <1>1, <1>2, <1>3, <1>4 DEF Ending

\* A media event touches the notifications through endCall only.
LEMMA NotesMediaEvent == ASSUME NoteInv, NEW c \in Calls, MediaEvent(c) PROVE NoteInv'
<1>1. CASE ProviderConnected(c)
    BY <1>1, NotesQuiet DEF ProviderConnected, HandleProviderConnected, noteVars
<1>2. CASE ProviderDisconnected(c)
    BY <1>2, NotesEnd, NotesQuiet DEF ProviderDisconnected, noteVars
<1>3. CASE ClientDisconnected(c)
    BY <1>3, NotesEnd DEF ClientDisconnected
<1> QED BY <1>1, <1>2, <1>3 DEF MediaEvent

\* The MediaBridge and the passes touch the notifications through endCall only.
LEMMA NotesBridgeAndPasses == ASSUME NoteInv, Bridge \/ Passes PROVE NoteInv'
    BY NotesQuiet, NotesEnd DEF Bridge, DestroySettles, ListenerDrops, MediaBridgeRestarts,
        ListenerReconnects, Passes, EndAllCalls, ReconcileVisits, ReconcileKeeps, ReconcileEnds,
        SweepNext, noteVars

\* The continuation registers the id of every call it finds tracked.
LEMMA NotesNotifying ==
    ASSUME TypeOK, NoteInv, NEW c \in Calls, Notifying(c) PROVE NoteInv'
    BY DEF Notifying, NotificationSent, NotificationFails, NotificationRegistered, TypeOK,
        NoteInv, NotYetNotified, RegisteredIdResolves

\* Every step keeps what is known of the notifications.
LEMMA NotesNext == TypeOK /\ NoteInv /\ [Next]_vars => NoteInv'
<1> SUFFICES ASSUME TypeOK, NoteInv, [Next]_vars PROVE NoteInv'
    OBVIOUS
<1>1. CASE UNCHANGED vars
    BY <1>1, NotesQuiet DEF vars, noteVars
<1>2. CASE Next
    BY <1>2, NotesOutbound, NotesInbound, NotesAnswering, NotesEnding, NotesMediaEvent,
        NotesBridgeAndPasses, NotesNotifying DEF Next
<1> QED BY <1>1, <1>2

\* An id whose wake signals are settled answers for its call until the call ends.
THEOREM SettledIdsResolve == Spec => []RegisteredIdResolves
<1>1. Init => NoteInv
    BY DEF Init, NoteInv, NotYetNotified, RegisteredIdResolves
<1>2. NoteInv => RegisteredIdResolves
    BY DEF NoteInv
<1> QED BY <1>1, <1>2, NotesNext, TypeCorrect, PTL DEF Spec

-----------------------------------------------------------------------------
(* The refinement: the initial state is one of CallLifecycle, and every    *)
(* step is a step of the lifecycle or changes nothing of it.  Which step   *)
(* it is follows from MapInv (what is tracked, what is over) and AnswerInv *)
(* (who holds the claim).                                                  *)

\* The device that places a call is known from the start.
CallerKnown == \A c \in Calls : direction[c] = "outbound" => answeredByDevice[c] \in Devices

\* A step that leaves directions and claims alone.
LEMMA CallerQuiet ==
    ASSUME CallerKnown, UNCHANGED <<direction, answeredByDevice>> PROVE CallerKnown'
    BY DEF CallerKnown

\* Every step of setting up a call.
LEMMA CallerSetup ==
    ASSUME TypeOK, CallerKnown, NEW c \in Calls, Outbound(c) \/ Inbound(c) PROVE CallerKnown'
<1>1. CASE \E d \in Devices, k \in Kinds : InitiateOutbound(c, d, k)
    BY <1>1 DEF InitiateOutbound, TypeOK, CallerKnown
<1>2. CASE \E p \in ProviderCalls, k \in Kinds : HandleInbound(c, p, k)
    BY <1>2 DEF HandleInbound, TypeOK, CallerKnown
<1>3. CASE \/ OutboundSessionCreated(c)
           \/ \E created \in BOOLEAN : OutboundSessionFails(c, created)
           \/ \E p \in ProviderCalls : MakeCallReturns(c, p)
           \/ MakeCallFails(c)
           \/ PatchSettles(c)
    BY <1>3, CallerQuiet DEF OutboundSessionCreated, OutboundSessionFails, MakeCallReturns,
        MakeCallFails, PatchSettles, TrackOutbound, Track
<1>4. CASE \/ InboundSessionCreated(c)
           \/ \E created \in BOOLEAN : InboundSessionFails(c, created)
           \/ NumbersReturned(c)
           \/ NumbersFail(c)
    BY <1>4, CallerQuiet DEF InboundSessionCreated, InboundSessionFails, NumbersReturned,
        NumbersFail, Track
<1> QED BY <1>1, <1>2, <1>3, <1>4 DEF Outbound, Inbound

\* A failed answer clears the device of an inbound call only.
LEMMA CallerAnswering ==
    ASSUME TypeOK, AnswerInv, CallerKnown, Answering PROVE CallerKnown'
<1>1. CASE \E id \in Ids, d \in Devices : AnswerCall(id, d)
    <2>1. PICK id \in Ids, d \in Devices : AnswerCall(id, d)
        BY <1>1
    <2> DEFINE c == ResolveToCallId(id)
    <2>2. /\ c \in Calls /\ answeredByDevice' = [answeredByDevice EXCEPT ![c] = d]
          /\ UNCHANGED direction
        BY <2>1 DEF AnswerCall, Claim, TypeOK
    <2> HIDE DEF c
    <2> QED BY <2>2 DEF TypeOK, CallerKnown
<1>2. CASE \E r \in answering : AnswerPatched(r) \/ AnswerSucceeds(r)
    BY <1>2, CallerQuiet DEF AnswerPatched, AnswerSucceeds
<1>3. CASE \E r \in answering : AnswerFails(r)
    <2>1. PICK r \in answering : AnswerFails(r)
        BY <1>3
    <2>2. direction[r.call] = "inbound"
        BY DEF AnswerInv, ClaimInv, PendingHolds
    <2> QED BY <2>1, <2>2 DEF AnswerFails, TypeOK, CallerKnown
<1> QED BY <1>1, <1>2, <1>3 DEF Answering

\* The rest changes the device only where the far end of an outbound call answers.
LEMMA CallerRest ==
    ASSUME TypeOK, CallerKnown,
           Ending \/ Bridge \/ Passes \/ \E c \in Calls : MediaEvent(c) \/ Notifying(c)
    PROVE  CallerKnown'
<1>1. CASE \E c \in Calls : ProviderConnected(c)
    BY <1>1 DEF ProviderConnected, HandleProviderConnected, Claim, TypeOK, CallerKnown
<1>2. CASE Ending
    BY <1>2, CallerQuiet DEF Ending, Decline, WatchdogFires, ProviderTerminal, ProviderAnswered,
        EndCall
<1>3. CASE Bridge \/ Passes
    BY <1>3, CallerQuiet DEF Bridge, DestroySettles, ListenerDrops, MediaBridgeRestarts,
        ListenerReconnects, Passes, EndAllCalls, ReconcileVisits, ReconcileKeeps,
        ReconcileEnds, SweepNext, EndCall
<1>4. CASE \E c \in Calls : Notifying(c)
    BY <1>4, CallerQuiet DEF Notifying, NotificationSent, NotificationFails,
        NotificationRegistered
<1>5. CASE \E c \in Calls : ProviderDisconnected(c) \/ ClientDisconnected(c)
    BY <1>5, CallerQuiet DEF ProviderDisconnected, ClientDisconnected, EndCall
<1> QED BY <1>1, <1>2, <1>3, <1>4, <1>5 DEF MediaEvent

\* Every step keeps the device that placed a call.
LEMMA CallerNext ==
    IInv /\ CallerKnown /\ [Next]_vars => CallerKnown'
<1> SUFFICES ASSUME IInv, CallerKnown, [Next]_vars PROVE CallerKnown'
    OBVIOUS
<1>1. CASE UNCHANGED vars
    BY <1>1, CallerQuiet DEF vars
<1>2. CASE Next
    BY <1>2, CallerSetup, CallerAnswering, CallerRest DEF Next, IInv
<1> QED BY <1>1, <1>2

\* What MapInv, AnswerInv and CallerKnown say holds in every reachable state.
LEMMA CallerInvariant == Spec => [](IInv /\ CallerKnown)
<1>1. Init => CallerKnown
    BY DEF Init, CallerKnown
<1> QED BY <1>1, CallerNext, InductiveInvariant, PTL DEF Spec

-----------------------------------------------------------------------------
(* What the steps of the orchestrator are to the lifecycle                 *)

LifecycleStep == [Lifecycle!Next]_(Lifecycle!lifecycle)

\* The lifecycle looks at these only.
LEMMA StepQuiet ==
    ASSUME UNCHANGED <<activeCalls, ended, claim, told>> PROVE LifecycleStep
    BY DEF LifecycleStep, Lifecycle!lifecycle, PhaseOf, HolderOf

\* An unclaimed call's device is not looked at.
LEMMA StepUnclaimed ==
    ASSUME NEW c \in Calls, ~answered[c], UNCHANGED <<activeCalls, ended, answered, told>>,
           \A b \in Calls \ {c} : answeredByDevice'[b] = answeredByDevice[b]
    PROVE  LifecycleStep
<1>1. \A b \in Calls : PhaseOf(b)' = PhaseOf(b) /\ HolderOf(b)' = HolderOf(b)
    BY DEF PhaseOf, HolderOf
<1> QED BY <1>1 DEF LifecycleStep, Lifecycle!lifecycle

\* A call that enters the maps opens.
LEMMA StepOpen ==
    ASSUME NEW c \in Calls, c \notin activeCalls, ~ended[c],
           activeCalls' = activeCalls \cup {c}, UNCHANGED <<ended, claim, told>>
    PROVE  LifecycleStep
<1>1. /\ PhaseOf(c) = "unknown" /\ PhaseOf(c)' = "open"
      /\ \A b \in Calls \ {c} : PhaseOf(b)' = PhaseOf(b)
      /\ \A b \in Calls : HolderOf(b)' = HolderOf(b)
    BY DEF PhaseOf, HolderOf
<1>2. Lifecycle!Open(c)
    BY <1>1 DEF Lifecycle!Open
<1> QED BY <1>2 DEF LifecycleStep, Lifecycle!Next

\* endCall closes it.
LEMMA StepClose ==
    ASSUME TypeOK, NEW c \in Calls, NEW trigger, EndCall(c, trigger) PROVE LifecycleStep
<1>1. /\ c \in activeCalls /\ activeCalls' = activeCalls \ {c}
      /\ ended' = [ended EXCEPT ![c] = TRUE] /\ UNCHANGED <<claim, told>>
    BY DEF EndCall
<1>2. /\ PhaseOf(c) = "open" /\ PhaseOf(c)' = "over"
      /\ \A b \in Calls \ {c} : PhaseOf(b)' = PhaseOf(b)
      /\ \A b \in Calls : HolderOf(b)' = HolderOf(b)
    BY <1>1 DEF TypeOK, PhaseOf, HolderOf
<1>3. Lifecycle!Close(c)
    BY <1>1, <1>2 DEF Lifecycle!Close
<1> QED BY <1>3 DEF LifecycleStep, Lifecycle!Next

\* A claim takes an open call that nobody holds, and may be confirmed at once.
LEMMA StepClaim ==
    ASSUME TypeOK, NEW c \in Calls, NEW d \in Devices, c \in activeCalls, ~answered[c],
           Claim(c, d), told' \in {told, told \cup {<<c, d>>}}, UNCHANGED activeCalls
    PROVE  LifecycleStep
<1>1. /\ PhaseOf(c) = "open" /\ HolderOf(c) = NoDevice /\ HolderOf(c)' = d
      /\ \A b \in Calls \ {c} : HolderOf(b)' = HolderOf(b)
      /\ \A b \in Calls : PhaseOf(b)' = PhaseOf(b)
    BY DEF Claim, TypeOK, PhaseOf, HolderOf
<1>2. CASE told' = told
    <2>1. Lifecycle!Claim(c, d)
        BY <1>1, <1>2 DEF Lifecycle!Claim, Lifecycle!Take
    <2> QED BY <2>1 DEF LifecycleStep, Lifecycle!Next
<1>3. CASE told' = told \cup {<<c, d>>}
    <2>1. Lifecycle!ClaimAndGrant(c, d)
        BY <1>1, <1>3 DEF Lifecycle!ClaimAndGrant, Lifecycle!Take
    <2> QED BY <2>1 DEF LifecycleStep, Lifecycle!Next
<1> QED BY <1>2, <1>3

\* A confirmation goes to the holder.
LEMMA StepGrant ==
    ASSUME NEW c \in Calls, NEW d \in Devices, answered[c], answeredByDevice[c] = d,
           told' = told \cup {<<c, d>>}, UNCHANGED <<activeCalls, ended, claim>>
    PROVE  LifecycleStep
<1>1. /\ HolderOf(c) = d
      /\ \A b \in Calls : PhaseOf(b)' = PhaseOf(b) /\ HolderOf(b)' = HolderOf(b)
    BY DEF PhaseOf, HolderOf
<1>2. Lifecycle!Grant(c, d)
    BY <1>1 DEF Lifecycle!Grant
<1> QED BY <1>2 DEF LifecycleStep, Lifecycle!Next

\* A failed answer is given up by a device that was not told it won.
LEMMA StepGiveUp ==
    ASSUME TypeOK, AnswerInv, NEW r \in answering, AnswerFails(r) PROVE LifecycleStep
<1>1. /\ r.call \in Calls /\ r.device \in Devices
      /\ answered[r.call] /\ answeredByDevice[r.call] = r.device
      /\ <<r.call, r.device>> \notin told
    BY DEF TypeOK, AnswerRequest, AnswerInv, ClaimInv, PendingHolds
<1>2. /\ HolderOf(r.call) = r.device /\ HolderOf(r.call)' = NoDevice
      /\ \A b \in Calls \ {r.call} : HolderOf(b)' = HolderOf(b)
      /\ \A b \in Calls : PhaseOf(b)' = PhaseOf(b)
      /\ UNCHANGED told
    BY <1>1 DEF AnswerFails, TypeOK, PhaseOf, HolderOf
<1>3. Lifecycle!GiveUp(r.call)
    BY <1>1, <1>2 DEF Lifecycle!GiveUp
<1> QED BY <1>1, <1>3 DEF LifecycleStep, Lifecycle!Next

-----------------------------------------------------------------------------
(* Every action                                                            *)

\* Setting up an outbound call opens it at most.
LEMMA OutboundImplements ==
    ASSUME TypeOK, MapInv, AnswerInv, NEW c \in Calls, Outbound(c) PROVE LifecycleStep
<1>1. setup[c] \in Early => c \notin activeCalls /\ ~ended[c] /\ ~answered[c]
    BY DEF MapInv, NotYetTracked, AnswerInv, ClaimInv, UnclaimedEarly
<1>2. CASE \E d \in Devices, k \in Kinds : InitiateOutbound(c, d, k)
    <2>1. /\ setup[c] = "new" /\ UNCHANGED <<activeCalls, ended, answered, told>>
          /\ \A b \in Calls \ {c} : answeredByDevice'[b] = answeredByDevice[b]
        BY <1>2 DEF InitiateOutbound, TypeOK
    <2> QED BY <1>1, <2>1, StepUnclaimed DEF Early
<1>3. CASE OutboundSessionCreated(c) \/ MakeCallFails(c)
           \/ \E created \in BOOLEAN : OutboundSessionFails(c, created)
    BY <1>3, StepQuiet DEF OutboundSessionCreated, MakeCallFails, OutboundSessionFails
<1>4. CASE \E p \in ProviderCalls : MakeCallReturns(c, p)
    BY <1>1, <1>4, StepOpen, StepQuiet DEF MakeCallReturns, TrackOutbound, Track, Early
<1>5. CASE PatchSettles(c)
    BY <1>1, <1>5, StepOpen DEF PatchSettles, TrackOutbound, Track, Early
<1> QED BY <1>2, <1>3, <1>4, <1>5 DEF Outbound

\* Setting up an inbound call opens it at most.
LEMMA InboundImplements ==
    ASSUME TypeOK, MapInv, NEW c \in Calls, Inbound(c) PROVE LifecycleStep
<1>1. setup[c] \in Early => c \notin activeCalls /\ ~ended[c]
    BY DEF MapInv, NotYetTracked
<1>2. CASE InboundSessionCreated(c)
    BY <1>1, <1>2, StepOpen DEF InboundSessionCreated, Track, Early
<1>3. CASE \/ \E p \in ProviderCalls, k \in Kinds : HandleInbound(c, p, k)
           \/ \E created \in BOOLEAN : InboundSessionFails(c, created)
           \/ NumbersReturned(c)
           \/ NumbersFail(c)
    BY <1>3, StepQuiet DEF HandleInbound, InboundSessionFails, NumbersReturned, NumbersFail
<1> QED BY <1>2, <1>3 DEF Inbound

\* The steps of answerCall claim, confirm or give back.
LEMMA AnsweringImplements ==
    ASSUME TypeOK, AnswerInv, Answering PROVE LifecycleStep
<1>1. CASE \E id \in Ids, d \in Devices : AnswerCall(id, d)
    <2>1. PICK id \in Ids, d \in Devices : AnswerCall(id, d)
        BY <1>1
    <2> DEFINE c == ResolveToCallId(id)
    <2>2. /\ c \in Calls /\ c \in activeCalls /\ ~answered[c] /\ Claim(c, d)
          /\ told' \in {told, told \cup {<<c, d>>}} /\ UNCHANGED activeCalls
        BY <2>1 DEF AnswerCall, ConfirmAnswer, TypeOK
    <2> HIDE DEF c
    <2> QED BY <2>2, StepClaim
<1>2. CASE \E r \in answering : AnswerPatched(r)
    BY <1>2, StepQuiet DEF AnswerPatched
<1>3. CASE \E r \in answering : AnswerSucceeds(r)
    <2>1. PICK r \in answering : AnswerSucceeds(r)
        BY <1>3
    <2>2. /\ r.call \in Calls /\ r.device \in Devices
          /\ answered[r.call] /\ answeredByDevice[r.call] = r.device
        BY DEF TypeOK, AnswerRequest, AnswerInv, ClaimInv, PendingHolds
    <2>3. told' = told \cup {<<r.call, r.device>>} /\ UNCHANGED <<activeCalls, ended, claim>>
        BY <2>1 DEF AnswerSucceeds, ConfirmAnswer
    <2> QED BY <2>2, <2>3, StepGrant
<1>4. CASE \E r \in answering : AnswerFails(r)
    BY <1>4, StepGiveUp
<1> QED BY <1>1, <1>2, <1>3, <1>4 DEF Answering

\* Hang-ups, timers and provider signals close a call or do nothing.
LEMMA EndingImplements == ASSUME TypeOK, Ending PROVE LifecycleStep
<1>1. CASE \E id \in Ids : Decline(id)
    <2>1. PICK id \in Ids : Decline(id)
        BY <1>1
    <2> DEFINE c == ResolveToCallId(id)
    <2>2. c \in Calls /\ EndCall(c, "declined")
        BY <2>1 DEF Decline, EndCall, TypeOK
    <2> HIDE DEF c
    <2> QED BY <2>2, StepClose
<1>2. CASE \E c \in Calls : WatchdogFires(c)
    BY <1>2, StepClose DEF WatchdogFires
<1>3. CASE \E p \in ProviderCalls : ProviderTerminal(p)
    <2>1. PICK p \in ProviderCalls : ProviderTerminal(p)
        BY <1>3
    <2> DEFINE c == providerCallToInternal[p]
    <2>2. CASE c \in activeCalls
        <3>1. c \in Calls /\ EndCall(c, "provider_call_state_changed")
            BY <2>1, <2>2 DEF ProviderTerminal, TypeOK
        <3> HIDE DEF c
        <3> QED BY <3>1, StepClose
    <2>3. CASE c \notin activeCalls
        BY <2>1, <2>3, StepQuiet DEF ProviderTerminal
    <2> QED BY <2>2, <2>3
<1>4. CASE \E p \in ProviderCalls : ProviderAnswered(p)
    BY <1>4, StepQuiet DEF ProviderAnswered
<1> QED BY <1>1, <1>2, <1>3, <1>4 DEF Ending

\* The MediaBridge events: a far end that answers confirms, a lost leg closes.
LEMMA MediaEventImplements ==
    ASSUME TypeOK, CallerKnown, NEW c \in Calls, MediaEvent(c) PROVE LifecycleStep
<1>1. CASE ProviderConnected(c)
    <2>1. /\ UNCHANGED <<activeCalls, told>>
          /\ \/ UNCHANGED call
             \/ /\ c \in activeCalls /\ ~answered[c] /\ direction[c] = "outbound"
                /\ Claim(c, answeredByDevice[c])
        BY <1>1 DEF ProviderConnected, HandleProviderConnected
    <2>2. CASE UNCHANGED call
        BY <2>1, <2>2, StepQuiet
    <2>3. CASE /\ c \in activeCalls /\ ~answered[c] /\ direction[c] = "outbound"
               /\ Claim(c, answeredByDevice[c])
        <3> DEFINE d == answeredByDevice[c]
        <3>1. d \in Devices /\ Claim(c, d)
            BY <2>3 DEF CallerKnown
        <3> HIDE DEF d
        <3> QED BY <2>1, <2>3, <3>1, StepClaim
    <2> QED BY <2>1, <2>2, <2>3
<1>2. CASE ProviderDisconnected(c)
    BY <1>2, StepClose, StepQuiet DEF ProviderDisconnected
<1>3. CASE ClientDisconnected(c)
    BY <1>3, StepClose DEF ClientDisconnected
<1> QED BY <1>1, <1>2, <1>3 DEF MediaEvent

\* The event socket, the passes and the notifications close a call or do nothing.
LEMMA RestImplements ==
    ASSUME TypeOK, Bridge \/ Passes \/ \E c \in Calls : Notifying(c) PROVE LifecycleStep
    BY StepQuiet, StepClose DEF Bridge, DestroySettles, ListenerDrops, MediaBridgeRestarts,
        ListenerReconnects, Passes, EndAllCalls, ReconcileVisits, ReconcileKeeps, ReconcileEnds,
        SweepNext, Notifying, NotificationSent, NotificationFails, NotificationRegistered

\* Every step is a step of the lifecycle or changes nothing of it.
LEMMA NextImplements == IInv /\ CallerKnown /\ [Next]_vars => LifecycleStep
<1> SUFFICES ASSUME IInv, CallerKnown, [Next]_vars PROVE LifecycleStep
    OBVIOUS
<1>1. CASE UNCHANGED vars
    BY <1>1, StepQuiet DEF vars
<1>2. CASE Next
    BY <1>2, OutboundImplements, InboundImplements, AnsweringImplements, EndingImplements,
        MediaEventImplements, RestImplements DEF Next, IInv
<1> QED BY <1>1, <1>2

\* The orchestrator implements the lifecycle: two answers, a failed answer and every
\* way a call may end interleave at every await, for any number of calls, devices and
\* retried webhooks, and what the devices see is one call opened once, won once and
\* closed once.
THEOREM OrchestratorImplementsLifecycle == Spec => ImplementsLifecycle
<1>1. Init => Lifecycle!Init
    BY DEF Init, Lifecycle!Init, PhaseOf, HolderOf
<1>2. IInv /\ CallerKnown /\ [Next]_vars => [Lifecycle!Next]_(Lifecycle!lifecycle)
    BY NextImplements DEF LifecycleStep
<1> QED BY <1>1, <1>2, CallerInvariant, PTL DEF Spec, ImplementsLifecycle, Lifecycle!Spec
=============================================================================
