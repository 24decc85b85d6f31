----------------------------- MODULE WebCallProofs -----------------------------
(***************************************************************************)
(* Machine-checked proofs about WebCall: the store is well-typed, and what *)
(* is on the screen, what carries media and what rings belong together,    *)
(* for any number of calls and of overlapping runs of placeCall and answer.*)
(*                                                                         *)
(* The controller's methods are functions from a tab to a tab, so the      *)
(* invariant is a predicate on tabs that each of them preserves, and the   *)
(* actions follow from the methods they apply.                             *)
(***************************************************************************)
EXTENDS WebCall, TLAPS

\* What the properties say of a tab, but for the phase its client is shown in.  The
\* client has its state changes delivered; a call held elsewhere is here only as placed here.
Bound(t) ==
    /\ t.client # None => t.call # None /\ t.att[t.client].bound
    /\ t.phase # "idle" => IsBusy(t) /\ t.client # None
    /\ t.call = None \/ t.incoming = None
    /\ t.incoming # None => t.ringtone
    /\ t.incoming \notin t.held
    /\ t.call \in t.held => t.dir = "outbound"

\* The client is shown as busy, or still waits for the microphone.
ShownBusy(t) == t.client # None => IsBusy(t) \/ t.att[t.client].at = "mic"

Consistent(t) == Bound(t) /\ ShownBusy(t)

\* An attempt that has its call keeps it until it ends.
InSetup == Awaits \ {"unused", "make", "done"}
AttemptsHaveCalls(t) ==
    \A i \in Attempts :
        t.att[i].at \in InSetup => t.att[i].call \in Calls

TabInv(t) == t \in Tab /\ Consistent(t) /\ AttemptsHaveCalls(t)

WebInv == WebTypeOK /\ TabInv(tab)

-----------------------------------------------------------------------------
(* The methods                                                             *)

\* close() touches the media of an attempt and nothing of its flow.
LEMMA CloseAttempt ==
    ASSUME NEW a \in Attempt
    PROVE  /\ Close(a) \in Attempt
           /\ Close(a).at = a.at /\ Close(a).call = a.call /\ Close(a).dir = a.dir
    BY DEF Close, Attempt, Kinds

\* What the flows of t and u have in common: where they are and for which call.
SameFlows(t, u) ==
    \A i \in Attempts : u.att[i].at = t.att[i].at /\ u.att[i].call = t.att[i].call

\* teardownClient() leaves no client and no timer, and the rest as it was.
LEMMA TeardownTab ==
    ASSUME NEW t \in Tab
    PROVE  /\ Teardown(t) \in Tab
           /\ Teardown(t).client = None
           /\ Teardown(t).phase = t.phase /\ Teardown(t).call = t.call /\ Teardown(t).dir = t.dir
           /\ Teardown(t).incoming = t.incoming /\ Teardown(t).held = t.held
           /\ Teardown(t).ringtone = t.ringtone
           /\ SameFlows(t, Teardown(t))
<1>1. CASE t.client = None
    BY <1>1 DEF Teardown, Tab, SameFlows
<1>2. CASE t.client # None
    <2> DEFINE i == t.client
               a == [Close(t.att[i]) EXCEPT !.bound = FALSE]
    <2>1. i \in Attempts /\ t.att[i] \in Attempt
        BY <1>2 DEF Tab
    <2>2. a \in Attempt /\ a.at = t.att[i].at /\ a.call = t.att[i].call
        BY <2>1, CloseAttempt DEF Attempt
    <2>3. Teardown(t) = [t EXCEPT !.cap = None, !.noAnswer = None, !.client = None, !.att[i] = a]
        BY <1>2, <2>1 DEF Teardown, Tab
    <2> HIDE DEF a
    <2>4. Teardown(t).att = [t.att EXCEPT ![i] = a] /\ t.att \in [Attempts -> Attempt]
        BY <2>3 DEF Tab
    <2>5. Teardown(t).att \in [Attempts -> Attempt] /\ SameFlows(t, Teardown(t))
        BY <2>1, <2>2, <2>4 DEF SameFlows
    <2> QED BY <2>3, <2>5 DEF Tab
<1> QED BY <1>1, <1>2

\* resetToIdle() gives a consistent tab, whatever the attempts do.
LEMMA ResetTab ==
    ASSUME NEW t \in Tab, AttemptsHaveCalls(t)
    PROVE  TabInv(Reset(t)) /\ SameFlows(t, Reset(t)) /\ Reset(t).client = None
<1>1. Teardown(t) \in Tab
    BY TeardownTab
<1>2. Reset(t) \in Tab
    BY <1>1 DEF Reset, Tab, Directions
<1>3. SameFlows(t, Reset(t))
    BY <1>1, TeardownTab DEF Reset, SameFlows, Tab
<1>4. Reset(t).client = None /\ Reset(t).held = t.held
    BY <1>1, TeardownTab DEF Reset, Tab
<1>5. /\ Reset(t).phase = "idle" /\ Reset(t).call = None /\ Reset(t).incoming = None
    BY <1>1 DEF Reset, Tab
<1>6. Consistent(Reset(t))
    BY <1>2, <1>4, <1>5, WebCallAssumption DEF Consistent, Bound, ShownBusy, IsBusy, Tab
<1> QED BY <1>2, <1>3, <1>4, <1>6 DEF TabInv, AttemptsHaveCalls, SameFlows

\* setPhase() of a tab that has a client: a phase that is shown keeps it, "failed" takes it.
LEMMA SetPhaseTab ==
    ASSUME NEW t \in Tab, Bound(t), t.client # None,
           NEW p \in {"connecting", "ringing", "connected", "failed"}
    PROVE  /\ SetPhase(t, p) \in Tab /\ Consistent(SetPhase(t, p))
           /\ SameFlows(t, SetPhase(t, p))
<1>1. CASE t.phase = p
    BY <1>1 DEF SetPhase, Bound, Consistent, ShownBusy, IsBusy, SameFlows
<1> DEFINE u == [t EXCEPT !.phase = p]
<1>2. /\ u \in Tab /\ u.phase = p /\ u.call = t.call /\ u.client = t.client /\ u.att = t.att
      /\ u.incoming = t.incoming /\ u.held = t.held /\ u.ringtone = t.ringtone
      /\ u.dir = t.dir
    BY DEF Tab
<1>3. CASE t.phase # p /\ p # "failed"
    <2>1. SetPhase(t, p) = u
        BY <1>2, <1>3 DEF SetPhase, EnforceSessionVisibility, Bound
    <2> HIDE DEF u
    <2> QED BY <1>2, <1>3, <2>1 DEF Bound, Consistent, ShownBusy, IsBusy, SameFlows
<1>4. CASE t.phase # p /\ p = "failed"
    <2> DEFINE v == Teardown(u)
    <2>1. SetPhase(t, p) = [v EXCEPT !.phase = "idle", !.call = None]
        BY <1>2, <1>4 DEF SetPhase, EnforceSessionVisibility
    <2>2. /\ v \in Tab /\ v.client = None /\ v.incoming = t.incoming /\ v.held = t.held
          /\ v.ringtone = t.ringtone /\ SameFlows(u, v)
        BY <1>2, TeardownTab
    <2> HIDE DEF u, v
    <2>3. /\ SetPhase(t, p) \in Tab /\ SetPhase(t, p).phase = "idle" /\ SetPhase(t, p).call = None
          /\ SetPhase(t, p).client = None /\ SetPhase(t, p).incoming = t.incoming
          /\ SetPhase(t, p).held = t.held /\ SetPhase(t, p).ringtone = t.ringtone
          /\ SetPhase(t, p).att = v.att
        BY <2>1, <2>2 DEF Tab
    <2>4. SameFlows(t, SetPhase(t, p))
        BY <1>2, <2>2, <2>3 DEF SameFlows
    <2> QED BY <2>3, <2>4, WebCallAssumption
            DEF Bound, Consistent, ShownBusy, IsBusy, Tab
<1> QED BY <1>1, <1>3, <1>4

\* applyWebRtcState(): afterwards the client is shown as busy, or gone.
LEMMA ApplyWebRtcStateTab ==
    ASSUME NEW t \in Tab, Bound(t), NEW kind \in {"connecting", "connected", "failed"}
    PROVE  /\ ApplyWebRtcState(t, kind) \in Tab /\ Consistent(ApplyWebRtcState(t, kind))
           /\ SameFlows(t, ApplyWebRtcState(t, kind))
<1>1. CASE t.client = None
    BY <1>1 DEF ApplyWebRtcState, Consistent, ShownBusy, SameFlows
<1>2. CASE t.client # None /\ kind = "connecting"
    <2>1. CASE t.phase \in {"connected", "ringing"}
        BY <1>2, <2>1 DEF ApplyWebRtcState, Consistent, ShownBusy, IsBusy, SameFlows
    <2>2. CASE t.phase \notin {"connected", "ringing"}
        <3>1. ApplyWebRtcState(t, kind) = SetPhase(t, "connecting")
            BY <1>2, <2>2 DEF ApplyWebRtcState
        <3> QED BY <1>2, <3>1, SetPhaseTab
    <2> QED BY <2>1, <2>2
<1>3. CASE t.client # None /\ kind = "connected"
    <2> DEFINE u == [t EXCEPT !.cap = None, !.noAnswer = None]
    <2>1. /\ u \in Tab /\ u.phase = t.phase /\ u.call = t.call /\ u.client = t.client
          /\ u.incoming = t.incoming /\ u.held = t.held /\ u.ringtone = t.ringtone
          /\ u.att = t.att /\ u.dir = t.dir
        BY DEF Tab
    <2>2. ApplyWebRtcState(t, kind) = SetPhase(u, "connected")
        BY <1>3 DEF ApplyWebRtcState
    <2> HIDE DEF u
    <2>3. Bound(u)
        BY <2>1 DEF Bound, IsBusy
    <2> QED BY <1>3, <2>1, <2>2, <2>3, SetPhaseTab DEF SameFlows
<1>4. CASE t.client # None /\ kind = "failed"
    <2> DEFINE u == [t EXCEPT !.cap = None]
    <2>1. /\ u \in Tab /\ u.phase = t.phase /\ u.call = t.call /\ u.client = t.client
          /\ u.incoming = t.incoming /\ u.held = t.held /\ u.ringtone = t.ringtone
          /\ u.att = t.att /\ u.dir = t.dir
        BY DEF Tab
    <2>2. ApplyWebRtcState(t, kind) = SetPhase(u, "failed")
        BY <1>4 DEF ApplyWebRtcState
    <2> HIDE DEF u
    <2>3. Bound(u)
        BY <2>1 DEF Bound, IsBusy
    <2> QED BY <1>4, <2>1, <2>2, <2>3, SetPhaseTab DEF SameFlows
<1> QED BY <1>1, <1>2, <1>3, <1>4

\* A client's setState(), also where it is the step that ends its wait for the microphone.
LEMMA ClientStateTab ==
    ASSUME NEW t \in Tab, Bound(t), AttemptsHaveCalls(t), NEW i \in Attempts,
           t.client = i \/ ShownBusy(t),
           NEW kind \in {"connecting", "connected", "failed"}
    PROVE  TabInv(ClientState(t, i, kind)) /\ SameFlows(t, ClientState(t, i, kind))
<1>1. CASE ~t.att[i].bound
    <2>1. ClientState(t, i, kind) = t
        BY <1>1 DEF ClientState
    <2>2. t.client # i
        BY <1>1, WebCallAssumption DEF Bound
    <2> QED BY <2>1, <2>2 DEF TabInv, Consistent, SameFlows
<1>2. CASE t.att[i].bound
    <2> DEFINE a == [t.att[i] EXCEPT !.kind = kind, !.timed = @ /\ kind = "connecting"]
               u == [t EXCEPT !.att[i].kind = kind, !.att[i].timed = @ /\ kind = "connecting"]
    <2>1. t.att \in [Attempts -> Attempt] /\ t.att[i] \in Attempt
        BY DEF Tab
    <2>2. /\ a \in Attempt /\ a.at = t.att[i].at /\ a.call = t.att[i].call
          /\ a.bound = t.att[i].bound
        BY <2>1 DEF Attempt, Kinds
    <2>3. u.att = [t.att EXCEPT ![i] = a]
        BY <2>1 DEF Tab, Attempt
    <2>4. /\ u.phase = t.phase /\ u.call = t.call /\ u.client = t.client /\ u.dir = t.dir
          /\ u.incoming = t.incoming /\ u.held = t.held /\ u.ringtone = t.ringtone
        BY DEF Tab
    <2> HIDE DEF a
    <2>5. u \in Tab
        BY <2>1, <2>2, <2>3 DEF Tab
    <2>6. ClientState(t, i, kind) = ApplyWebRtcState(u, kind)
        BY <1>2 DEF ClientState
    <2> HIDE DEF u
    <2>7. SameFlows(t, u) /\ \A j \in Attempts : u.att[j].bound = t.att[j].bound
        BY <2>1, <2>2, <2>3 DEF SameFlows
    <2>8. Bound(u)
        BY <2>4, <2>7 DEF Bound, IsBusy, Tab
    <2> QED BY <2>5, <2>6, <2>7, <2>8, ApplyWebRtcStateTab
            DEF TabInv, SameFlows, AttemptsHaveCalls
<1> QED BY <1>1, <1>2

\* A step of one flow that neither ends the wait of the client nor unsubscribes anyone.
LEMMA AttemptStep ==
    ASSUME NEW t, TabInv(t), NEW i \in Attempts, NEW a \in Attempt,
           a.bound = t.att[i].bound,
           t.client # i \/ t.att[i].at # "mic",
           a.at \in InSetup => a.call \in Calls
    PROVE  TabInv([t EXCEPT !.att[i] = a])
<1> DEFINE u == [t EXCEPT !.att[i] = a]
<1>1. t \in Tab /\ t.att \in [Attempts -> Attempt]
    BY DEF TabInv, Tab
<1>2. /\ u.phase = t.phase /\ u.call = t.call /\ u.client = t.client
      /\ u.incoming = t.incoming /\ u.held = t.held /\ u.ringtone = t.ringtone
      /\ u.att = [t.att EXCEPT ![i] = a] /\ u.dir = t.dir
    BY <1>1 DEF Tab
<1>3. u \in Tab
    BY <1>1 DEF Tab
<1> HIDE DEF u
<1>4. Bound(u)
    BY <1>1, <1>2 DEF Bound, IsBusy, TabInv, Consistent, Tab
<1>5. ShownBusy(u)
    BY <1>1, <1>2 DEF ShownBusy, IsBusy, TabInv, Consistent, Tab
<1>6. AttemptsHaveCalls(u)
    BY <1>1, <1>2 DEF AttemptsHaveCalls, TabInv
<1>7. TabInv(u)
    BY <1>3, <1>4, <1>5, <1>6 DEF TabInv, Consistent
<1> QED BY <1>7 DEF u

\* A timer that is armed or cleared disturbs nothing.
LEMMA TimerStep ==
    ASSUME NEW t, TabInv(t), NEW c \in Calls \cup {None}
    PROVE  TabInv([t EXCEPT !.cap = c]) /\ TabInv([t EXCEPT !.noAnswer = c])
BY DEF TabInv, Tab, Consistent, Bound, ShownBusy, IsBusy, AttemptsHaveCalls

\* A flow ends; its client, if it is the controller's, no longer waits for the microphone.
LEMMA DoneTab ==
    ASSUME NEW t, TabInv(t), NEW i \in Attempts, t.client # i \/ t.att[i].at # "mic"
    PROVE  TabInv(Done(t, i))
<1> DEFINE a == [t.att[i] EXCEPT !.at = "done", !.call = None, !.dir = "inbound"]
<1>1. t \in Tab /\ t.att[i] \in Attempt
    BY DEF TabInv, Tab
<1>2. a \in Attempt /\ a.bound = t.att[i].bound /\ a.at = "done"
    BY <1>1 DEF Attempt, Awaits, Directions
<1>3. Done(t, i) = [t EXCEPT !.att[i] = a]
    BY <1>1 DEF Done, Tab, Attempt
<1> HIDE DEF a
<1> QED BY <1>2, <1>3, AttemptStep DEF InSetup

\* The client of a flow becomes the controller's: it waits for the microphone.
LEMMA BindTab ==
    ASSUME NEW t \in Tab, NEW i \in Attempts, t.call # None, t.incoming = None,
           t.phase # "idle" => IsBusy(t),
           t.call \in t.held => t.dir = "outbound",
           AttemptsHaveCalls(t), t.att[i].call \in Calls
    PROVE  TabInv(Bind(t, i))
<1> DEFINE a == [t.att[i] EXCEPT !.at = "mic", !.bound = TRUE]
           u == [t EXCEPT !.client = i, !.att[i] = a]
<1>1. t.att \in [Attempts -> Attempt] /\ t.att[i] \in Attempt
    BY DEF Tab
<1>2. a \in Attempt /\ a.bound /\ a.at = "mic" /\ a.call = t.att[i].call
    BY <1>1 DEF Attempt, Awaits
<1>3. Bind(t, i) = u
    BY <1>1 DEF Bind, Tab, Attempt
<1> HIDE DEF a
<1>4. /\ u.phase = t.phase /\ u.call = t.call /\ u.client = i
      /\ u.incoming = None /\ u.held = t.held /\ u.ringtone = t.ringtone
      /\ u.att = [t.att EXCEPT ![i] = a] /\ u.dir = t.dir
    BY DEF Tab
<1>5. u \in Tab
    BY <1>1, <1>2 DEF Tab
<1> HIDE DEF u
<1>6. Bound(u)
    BY <1>1, <1>2, <1>4, WebCallAssumption DEF Bound, IsBusy, Tab
<1>7. ShownBusy(u)
    BY <1>1, <1>2, <1>4 DEF ShownBusy
<1>8. AttemptsHaveCalls(u)
    BY <1>1, <1>2, <1>4 DEF AttemptsHaveCalls
<1> QED BY <1>3, <1>5, <1>6, <1>7, <1>8 DEF TabInv, Consistent

\* An offer is put on the screen of a tab that shows no call.
LEMMA PresentIncomingTab ==
    ASSUME NEW t, TabInv(t), NEW c \in Calls, t.call = None, c \notin t.held
    PROVE  TabInv(PresentIncoming(t, c))
BY DEF PresentIncoming, StartRingtone, TabInv, Tab, Consistent, Bound, ShownBusy, IsBusy,
       AttemptsHaveCalls

\* The incoming surface goes.
LEMMA DismissTab ==
    ASSUME NEW t, TabInv(t)
    PROVE  TabInv(Dismiss(t))
BY WebCallAssumption
   DEF Dismiss, TabInv, Tab, Consistent, Bound, ShownBusy, IsBusy, AttemptsHaveCalls, Calls

\* enterRinging() finds a client, since the phase it needs has one.
LEMMA EnterRingingTab ==
    ASSUME NEW t, TabInv(t), NEW c \in Calls
    PROVE  TabInv(EnterRinging(t, c)) /\ SameFlows(t, EnterRinging(t, c))
<1>1. CASE t.call # c \/ t.dir = "inbound" \/ t.phase \in {"connected", "idle", "failed"}
    BY <1>1 DEF EnterRinging, SameFlows
<1>2. CASE ~(t.call # c \/ t.dir = "inbound" \/ t.phase \in {"connected", "idle", "failed"})
    <2> DEFINE u == SetPhase(t, "ringing")
    <2>1. t \in Tab /\ Bound(t) /\ t.client # None
        BY <1>2 DEF TabInv, Consistent, Bound
    <2>2. u \in Tab /\ Consistent(u) /\ SameFlows(t, u)
        BY <2>1, SetPhaseTab
    <2>3. EnterRinging(t, c) = [u EXCEPT !.noAnswer = c]
        BY <1>2 DEF EnterRinging
    <2> HIDE DEF u
    <2>4. TabInv(u)
        BY <2>2 DEF TabInv, SameFlows, AttemptsHaveCalls
    <2>5. [u EXCEPT !.noAnswer = c].att = u.att
        BY <2>2 DEF Tab
    <2>6. TabInv([u EXCEPT !.noAnswer = c])
        BY <2>4, TimerStep
    <2>7. SameFlows(t, EnterRinging(t, c))
        BY <2>2, <2>3, <2>5 DEF SameFlows
    <2> QED BY <2>3, <2>6, <2>7
<1> QED BY <1>1, <1>2

\* onCallEvent(): an offer is presented, or the active call is reported connected.
LEMMA OnCallEventTab ==
    ASSUME NEW t, TabInv(t), NEW m \in Message, m.type \in {"ringing", "connected"}
    PROVE  TabInv(OnCallEvent(t, m))
<1>0. m.call \in Calls
    BY DEF Message
<1>1. CASE m.call # t.call
    <2>1. OnCallEvent(t, m) = OnOffer(t, m.call)
        BY <1>1 DEF OnCallEvent
    <2> QED BY <1>0, <2>1, PresentIncomingTab DEF OnOffer
<1>2. CASE m.type = "connected" /\ m.call = t.call
    <2> DEFINE u == [t EXCEPT !.noAnswer = None]
    <2>1. OnCallEvent(t, m) =
              IF t.phase \in {"ringing", "connecting"} THEN SetPhase(u, "connected") ELSE u
        BY <1>2 DEF OnCallEvent
    <2>2. TabInv(u)
        BY TimerStep
    <2>3. u.phase = t.phase
        BY DEF TabInv, Tab
    <2> HIDE DEF u
    <2>4. CASE t.phase \in {"ringing", "connecting"}
        <3>1. u \in Tab /\ Bound(u) /\ u.client # None
            BY <2>2, <2>3, <2>4 DEF TabInv, Consistent, Bound
        <3>2. /\ SetPhase(u, "connected") \in Tab /\ Consistent(SetPhase(u, "connected"))
              /\ SameFlows(u, SetPhase(u, "connected"))
            BY <3>1, SetPhaseTab
        <3> QED BY <2>1, <2>2, <2>4, <3>2 DEF TabInv, SameFlows, AttemptsHaveCalls
    <2> QED BY <2>1, <2>2, <2>4
<1>3. CASE m.type = "ringing" /\ m.call = t.call
    BY <1>3 DEF OnCallEvent
<1> QED BY <1>1, <1>2, <1>3

\* onCallCancelled(): a call held elsewhere leaves the screen with the step that learns of it.
LEMMA OnCallCancelledTab ==
    ASSUME NEW t, TabInv(t), NEW m \in Message
    PROVE  TabInv(OnCallCancelled(t, m))
<1> DEFINE u == IF m.type = "elsewhere" THEN [t EXCEPT !.held = @ \cup {m.call}] ELSE t
           v == IF u.incoming = m.call THEN Dismiss(u) ELSE u
<1>0. m.call \in Calls /\ m.call # None
    BY WebCallAssumption DEF Message
<1>1. /\ u \in Tab /\ u.held \subseteq t.held \cup {m.call}
      /\ u.call = t.call /\ u.incoming = t.incoming
      /\ u.client = t.client /\ u.phase = t.phase /\ u.ringtone = t.ringtone
      /\ u.att = t.att /\ u.dir = t.dir
    BY <1>0 DEF TabInv, Tab
<1> HIDE DEF u
<1>2. /\ v \in Tab /\ v.held = u.held /\ v.call = t.call /\ v.client = t.client
      /\ v.phase = t.phase /\ v.att = t.att /\ v.dir = t.dir
      /\ v.incoming \in {None, t.incoming} /\ v.incoming # m.call
      /\ v.incoming # None => v.ringtone
    BY <1>0, <1>1 DEF Dismiss, Tab, TabInv, Consistent, Bound
<1>3. OnCallCancelled(t, m) = IF v.call = m.call THEN Reset(v) ELSE v
    BY DEF OnCallCancelled, u
<1> HIDE DEF v
<1>4. AttemptsHaveCalls(v)
    BY <1>2 DEF AttemptsHaveCalls, TabInv
<1>5. CASE v.call = m.call
    BY <1>1, <1>2, <1>3, <1>4, <1>5, ResetTab
<1>6. CASE v.call # m.call
    <2>1. (v.call \in v.held => v.dir = "outbound") /\ v.incoming \notin v.held
        BY <1>1, <1>2, <1>6, WebCallAssumption DEF TabInv, Consistent, Bound, Tab
    <2>2. Consistent(v)
        BY <1>1, <1>2, <2>1 DEF TabInv, Consistent, Bound, ShownBusy, IsBusy
    <2> QED BY <1>2, <1>3, <1>4, <1>6, <2>2 DEF TabInv
<1> QED BY <1>5, <1>6

\* reconcile() presents a listed offer where nothing is shown.
LEMMA PresentListedTab ==
    ASSUME NEW t, TabInv(t), NEW list \in Listing, NEW u \in PresentListed(t, list)
    PROVE  TabInv(u)
<1>1. list.ringing \subseteq Calls
    BY DEF Listing
<1>2. CASE /\ t.phase = "idle" /\ t.call = None /\ t.incoming = None
           /\ list.ringing \ t.held # {}
    <2>1. PICK c \in list.ringing \ t.held : u = PresentIncoming(t, c)
        BY <1>2 DEF PresentListed
    <2> QED BY <1>1, <1>2, <2>1, PresentIncomingTab
<1>3. CASE ~(/\ t.phase = "idle" /\ t.call = None /\ t.incoming = None
             /\ list.ringing \ t.held # {})
    BY <1>3 DEF PresentListed
<1> QED BY <1>2, <1>3

-----------------------------------------------------------------------------
(* The steps of placeCall and answer                                       *)

\* What is left to show of a step that leaves the socket and the reconcile request alone.
LEMMA TabStep ==
    ASSUME WebInv, TabInv(tab'), UNCHANGED <<inbox, ws, recon, drops>>,
           declines' \subseteq Calls, hanging' \subseteq Calls,
           served' \in [Calls -> {"none", "ringing", "mine", "other", "ended"}]
    PROVE  WebInv'
BY DEF WebInv, WebTypeOK, TabInv

\* Requests to decline are made for calls.
LEMMA SendDeclinesType ==
    ASSUME WebInv, NEW cs \in SUBSET Calls, SendDeclines(cs)
    PROVE  declines' \subseteq Calls
BY DEF WebInv, WebTypeOK, SendDeclines

\* The flow of an attempt, from the request to the applied answer.
LEMMA FlowsStep ==
    ASSUME WebInv, Flows
    PROVE  WebInv'
<1> PICK i \in Attempts :
        \/ PlaceCall(i) \/ ServerMakes(i) \/ MakeFails(i) \/ MakeReturns(i)
        \/ Answer(i) \/ MicGranted(i) \/ OfferNotCreated(i) \/ OfferCreated(i)
        \/ ServerAnswers(i) \/ AnswerFails(i) \/ AnswerReturns(i)
        \/ OfferReturns(i) \/ OfferFails(i) \/ AnswerApplied(i)
    BY DEF Flows
<1> DEFINE b == tab.att[i]
<1>1. /\ TabInv(tab) /\ tab \in Tab /\ Bound(tab) /\ ShownBusy(tab)
      /\ AttemptsHaveCalls(tab)
    BY DEF WebInv, TabInv, Consistent, Bound
<1>2. /\ declines \subseteq Calls /\ hanging \subseteq Calls
      /\ served \in [Calls -> {"none", "ringing", "mine", "other", "ended"}]
    BY DEF WebInv, WebTypeOK
<1>3. /\ tab.att \in [Attempts -> Attempt] /\ b \in Attempt
      /\ b.at \in InSetup => b.call \in Calls
    BY <1>1 DEF Tab, AttemptsHaveCalls
<1>4. TabInv(Reset(tab)) /\ SameFlows(tab, Reset(tab)) /\ Reset(tab).client = None
    BY <1>1, ResetTab
<1>5. TabInv(Done(Reset(tab), i))
    BY <1>4, DoneTab, WebCallAssumption
<1>6. CASE PlaceCall(i)
    <2> DEFINE a == [b EXCEPT !.at = "make", !.dir = "outbound"]
    <2>1. a \in Attempt /\ a.bound = b.bound /\ a.at = "make" /\ b.at # "mic"
        BY <1>3, <1>6 DEF PlaceCall, NextAttempt, Attempt, Awaits, Directions
    <2>2. tab' = [tab EXCEPT !.att[i] = a]
        BY <1>3, <1>6 DEF PlaceCall, Tab, Attempt
    <2> HIDE DEF a
    <2>3. TabInv(tab')
        BY <1>1, <2>1, <2>2, AttemptStep DEF InSetup
    <2> QED BY <1>2, <1>6, <2>3, TabStep DEF PlaceCall
<1>7. CASE ServerMakes(i)
    <2>1. PICK c \in OutCalls :
              /\ served' = [served EXCEPT ![c] = "ringing"]
              /\ tab' = [tab EXCEPT !.att[i].at = "made", !.att[i].call = c]
        BY <1>7 DEF ServerMakes
    <2> DEFINE a == [b EXCEPT !.at = "made", !.call = c]
    <2>2. a \in Attempt /\ a.bound = b.bound /\ a.call = c /\ b.at # "mic"
        BY <1>3, <1>7 DEF ServerMakes, Attempt, Awaits, Calls
    <2>3. tab' = [tab EXCEPT !.att[i] = a]
        BY <1>3, <2>1 DEF Tab, Attempt
    <2> HIDE DEF a
    <2>4. TabInv(tab')
        BY <1>1, <2>2, <2>3, AttemptStep DEF Calls
    <2>5. served' \in [Calls -> {"none", "ringing", "mine", "other", "ended"}]
        BY <1>2, <2>1
    <2> QED BY <1>2, <1>7, <2>4, <2>5, TabStep DEF ServerMakes
<1>8. CASE MakeFails(i) \/ AnswerFails(i) \/ OfferFails(i)
    BY <1>2, <1>5, <1>8, TabStep DEF MakeFails, AnswerFails, OfferFails
<1>9. CASE MakeReturns(i)
    <2> DEFINE u == [tab EXCEPT !.call = b.call, !.dir = "outbound", !.incoming = None]
    <2>1. b.call \in Calls /\ tab' = Bind(u, i)
        BY <1>3, <1>9 DEF MakeReturns, InSetup, Awaits
    <2>2. /\ u \in Tab /\ u.call = b.call /\ u.incoming = None /\ u.phase = tab.phase
          /\ u.held = tab.held /\ u.att = tab.att /\ u.dir = "outbound"
        BY <1>1, <2>1 DEF Tab, Directions
    <2> HIDE DEF u
    <2>3. u.call # None /\ u.att[i].call \in Calls
        BY <1>1, <2>1, <2>2, WebCallAssumption
    <2>4. (u.phase # "idle" => IsBusy(u)) /\ AttemptsHaveCalls(u)
        BY <1>1, <2>2 DEF IsBusy, Bound, AttemptsHaveCalls
    <2>5. TabInv(tab')
        BY <2>1, <2>2, <2>3, <2>4, BindTab
    <2> QED BY <1>2, <1>9, <2>5, TabStep DEF MakeReturns
<1>10. CASE Answer(i)
    <2> DEFINE a == [b EXCEPT !.call = tab.incoming]
               u == [Dismiss(tab) EXCEPT !.call = tab.incoming, !.dir = "inbound",
                                         !.att[i].call = tab.incoming]
    <2>1. /\ tab.incoming \in Calls /\ tab.incoming # None /\ tab.incoming \notin tab.held
          /\ tab' = Bind(u, i) /\ b.at = "unused"
        BY <1>1, <1>10 DEF Answer, OfferShown, Tab, Bound, NextAttempt
    <2>2. a \in Attempt /\ a.at = "unused" /\ a.call = tab.incoming
        BY <1>3, <2>1 DEF Attempt
    <2>3. /\ u.call = tab.incoming /\ u.incoming = None /\ u.phase = tab.phase
          /\ u.held = tab.held /\ u.att = [tab.att EXCEPT ![i] = a]
        BY <1>1, <1>3 DEF Dismiss, Tab, Attempt
    <2> HIDE DEF a
    <2>4. u \in Tab
        BY <1>1, <1>3, <2>1, <2>2, <2>3 DEF Dismiss, Tab, Directions
    <2> HIDE DEF u
    <2>5. u.att[i].call \in Calls /\ AttemptsHaveCalls(u)
        BY <1>1, <1>3, <2>1, <2>2, <2>3 DEF AttemptsHaveCalls, InSetup
    <2>6. u.phase # "idle" => IsBusy(u)
        BY <1>1, <2>3 DEF IsBusy, Bound
    <2>7. TabInv(tab')
        BY <1>1, <2>1, <2>3, <2>4, <2>5, <2>6, BindTab
    <2> QED BY <1>2, <1>10, <2>7, TabStep DEF Answer
<1>11. CASE MicGranted(i)
    <2> DEFINE a == [b EXCEPT !.at = "sdp", !.pc = "open"]
               u == [tab EXCEPT !.att[i].at = "sdp", !.att[i].pc = "open"]
    <2>1. a \in Attempt /\ a.bound = b.bound /\ a.at = "sdp" /\ a.call = b.call
        BY <1>3 DEF Attempt, Awaits
    <2>2. u = [tab EXCEPT !.att[i] = a]
        BY <1>1, <1>3 DEF Tab, Attempt
    <2>3. tab' = ClientState(u, i, "connecting") /\ b.at = "mic"
        BY <1>11 DEF MicGranted
    <2> HIDE DEF a, u
    <2>4. /\ u \in Tab
          /\ u.call = tab.call /\ u.incoming = tab.incoming /\ u.phase = tab.phase
          /\ u.client = tab.client /\ u.ringtone = tab.ringtone
          /\ u.held = tab.held /\ u.att = [tab.att EXCEPT ![i] = a] /\ u.dir = tab.dir
        BY <1>1, <2>1, <2>2 DEF Tab
    <2>5. Bound(u)
        BY <1>1, <1>3, <2>1, <2>4 DEF Bound, IsBusy, Tab
    <2>6. u.client = i \/ ShownBusy(u)
        BY <1>1, <1>3, <2>4 DEF ShownBusy, IsBusy, Tab
    <2>7. AttemptsHaveCalls(u)
        BY <1>1, <1>3, <2>1, <2>3, <2>4 DEF AttemptsHaveCalls, InSetup, Awaits
    <2>8. TabInv(tab')
        BY <2>3, <2>4, <2>5, <2>6, <2>7, ClientStateTab
    <2> QED BY <1>2, <1>11, <2>8, TabStep DEF MicGranted
<1>12. CASE OfferNotCreated(i)
    <2> DEFINE u == ClientState(tab, i, "failed")
               cs == {c \in {b.call} : b.dir = "inbound"}
    <2>1. TabInv(u)
        BY <1>1, ClientStateTab
    <2>2. tab' = Done(Reset(u), i) /\ SendDeclines(cs) /\ cs \in SUBSET Calls
        BY <1>3, <1>12 DEF OfferNotCreated, InSetup, Awaits
    <2> HIDE DEF u, cs
    <2>3. TabInv(Reset(u)) /\ Reset(u).client = None
        BY <2>1, ResetTab DEF TabInv, Consistent, Bound
    <2>4. TabInv(tab')
        BY <2>2, <2>3, DoneTab, WebCallAssumption
    <2>5. declines' \subseteq Calls
        BY <2>2, SendDeclinesType
    <2> QED BY <1>2, <1>12, <2>4, <2>5, TabStep DEF OfferNotCreated
<1>13. CASE OfferCreated(i)
    <2> DEFINE a == [b EXCEPT !.timed = b.bound /\ b.kind = "connecting",
                              !.at = IF b.dir = "outbound" THEN "offer" ELSE "answer"]
    <2>1. /\ a \in Attempt /\ a.bound = b.bound /\ a.call = b.call /\ b.at = "sdp"
          /\ a.at \in {"offer", "answer"}
        BY <1>3, <1>13 DEF OfferCreated, Attempt, Awaits
    <2>2. tab' = [tab EXCEPT !.att[i] = a]
        BY <1>3, <1>13 DEF OfferCreated, Tab, Attempt
    <2> HIDE DEF a
    <2>3. b.call \in Calls
        BY <1>3, <2>1 DEF InSetup, Awaits
    <2>4. TabInv(tab')
        BY <1>1, <2>1, <2>2, <2>3, AttemptStep
    <2> QED BY <1>2, <1>13, <2>4, TabStep DEF OfferCreated
<1>14. CASE ServerAnswers(i)
    <2> DEFINE to == IF served[b.call] = "ringing" THEN "granted" ELSE "refused"
               a == [b EXCEPT !.at = to]
    <2>1. /\ tab' = [tab EXCEPT !.att[i].at = to] /\ b.at = "answer" /\ to \in {"granted", "refused"}
          /\ served' = [served EXCEPT ![b.call] = IF served[b.call] = "ringing" THEN "mine" ELSE @]
        BY <1>14 DEF ServerAnswers
    <2>2. served' \in [Calls -> {"none", "ringing", "mine", "other", "ended"}]
        BY <1>2, <2>1
    <2> HIDE DEF to
    <2>3. a \in Attempt /\ a.bound = b.bound /\ a.call = b.call /\ a.at = to
        BY <1>3, <2>1 DEF Attempt, Awaits
    <2>4. tab' = [tab EXCEPT !.att[i] = a]
        BY <1>3, <2>1 DEF Tab, Attempt
    <2> HIDE DEF a
    <2>5. b.call \in Calls
        BY <1>3, <2>1 DEF InSetup, Awaits
    <2>6. TabInv(tab')
        BY <1>1, <2>1, <2>3, <2>4, <2>5, AttemptStep
    <2> QED BY <1>2, <1>14, <2>2, <2>6, TabStep DEF ServerAnswers
<1>15. CASE AnswerReturns(i)
    <2> DEFINE a == [b EXCEPT !.at = "offer"]
               u == [tab EXCEPT !.att[i] = a]
    <2>1. b.at = "granted" /\ tab' = [tab EXCEPT !.cap = b.call, !.att[i].at = "offer"]
        BY <1>15 DEF AnswerReturns
    <2>2. a \in Attempt /\ a.bound = b.bound /\ a.call = b.call /\ a.at = "offer"
        BY <1>3 DEF Attempt, Awaits
    <2>3. tab' = [u EXCEPT !.cap = b.call]
        BY <1>3, <2>1 DEF Tab, Attempt
    <2>4. b.call \in Calls
        BY <1>3, <2>1 DEF InSetup, Awaits
    <2> HIDE DEF a
    <2>5. TabInv(u)
        BY <1>1, <2>1, <2>2, <2>4, AttemptStep
    <2> HIDE DEF u
    <2>6. TabInv(tab')
        BY <2>3, <2>4, <2>5, TimerStep
    <2> QED BY <1>2, <1>15, <2>6, TabStep DEF AnswerReturns
<1>16. CASE OfferReturns(i)
    <2> DEFINE a == [b EXCEPT !.at = "apply"]
    <2>1. b.at = "offer" /\ b.call \in Calls
        BY <1>3, <1>16 DEF OfferReturns, InSetup, Awaits
    <2>2. a \in Attempt /\ a.bound = b.bound /\ a.call = b.call /\ a.at = "apply"
        BY <1>3 DEF Attempt, Awaits
    <2>3. tab' = [tab EXCEPT !.att[i] = a] \/ tab' = Done(Reset(tab), i)
        BY <1>3, <1>16 DEF OfferReturns, Tab, Attempt
    <2> HIDE DEF a
    <2>4. TabInv([tab EXCEPT !.att[i] = a])
        BY <1>1, <2>1, <2>2, AttemptStep
    <2>5. TabInv(tab')
        BY <1>5, <2>3, <2>4
    <2> QED BY <1>2, <1>16, <2>5, TabStep DEF OfferReturns
<1>17. CASE AnswerApplied(i)
    <2> DEFINE u == IF b.dir = "outbound" THEN EnterRinging(tab, b.call) ELSE tab
    <2>1. b.at = "apply" /\ b.call \in Calls /\ tab' = Done(u, i)
        BY <1>3, <1>17 DEF AnswerApplied, InSetup, Awaits
    <2>2. TabInv(EnterRinging(tab, b.call)) /\ SameFlows(tab, EnterRinging(tab, b.call))
        BY <1>1, <2>1, EnterRingingTab
    <2>3. TabInv(u) /\ u.att[i].at = "apply"
        BY <1>1, <2>1, <2>2 DEF SameFlows
    <2> HIDE DEF u
    <2>4. TabInv(tab')
        BY <2>1, <2>3, DoneTab
    <2> QED BY <1>2, <1>17, <2>4, TabStep DEF AnswerApplied
<1> QED BY <1>6, <1>7, <1>8, <1>9, <1>10, <1>11, <1>12, <1>13, <1>14, <1>15, <1>16, <1>17

\* The media connection of an attempt changes, or one of the controller's timers fires.
LEMMA MediaStep ==
    ASSUME WebInv, Media
    PROVE  WebInv'
<1>1. /\ TabInv(tab) /\ tab \in Tab /\ Bound(tab) /\ ShownBusy(tab)
      /\ AttemptsHaveCalls(tab)
    BY DEF WebInv, TabInv, Consistent, Bound
<1>2. /\ declines \subseteq Calls /\ hanging \subseteq Calls
      /\ served \in [Calls -> {"none", "ringing", "mine", "other", "ended"}]
    BY DEF WebInv, WebTypeOK
<1>3. ASSUME NEW i \in Attempts, TransportConnects(i) \/ SetupTimesOut(i) \/ TransportLost(i)
      PROVE  WebInv'
    <2>1. PICK kind \in {"connected", "failed"} : tab' = ClientState(tab, i, kind)
        BY <1>3 DEF TransportConnects, SetupTimesOut, TransportLost
    <2>2. TabInv(tab')
        BY <1>1, <2>1, ClientStateTab
    <2> QED BY <1>2, <1>3, <2>2, TabStep DEF TransportConnects, SetupTimesOut, TransportLost
<1>4. CASE CapFires
    <2> DEFINE t == [tab EXCEPT !.cap = None]
               due == tab.call = tab.cap /\ tab.phase \notin {"connected", "idle"}
               cs == {c \in {tab.cap} : due}
    <2>1. TabInv(t)
        BY <1>1, TimerStep
    <2>2. tab.cap \in Calls /\ (tab' = Reset(t) \/ tab' = t) /\ SendDeclines(cs)
        BY <1>1, <1>4 DEF CapFires, Tab
    <2> HIDE DEF t
    <2>3. TabInv(tab')
        BY <2>1, <2>2, ResetTab DEF TabInv, Consistent, Bound
    <2>4. declines' \subseteq Calls
        BY <2>2, SendDeclinesType
    <2> QED BY <1>2, <1>4, <2>3, <2>4, TabStep DEF CapFires
<1>5. CASE NoAnswerFires
    <2> DEFINE t == [tab EXCEPT !.noAnswer = None]
               due == tab.call = tab.noAnswer /\ tab.phase = "ringing"
               cs == {c \in {tab.noAnswer} : due}
    <2>1. TabInv(t)
        BY <1>1, TimerStep
    <2>2. tab.noAnswer \in Calls /\ (tab' = Reset(t) \/ tab' = t) /\ SendDeclines(cs)
        BY <1>1, <1>5 DEF NoAnswerFires, Tab
    <2> HIDE DEF t
    <2>3. TabInv(tab')
        BY <2>1, <2>2, ResetTab DEF TabInv, Consistent, Bound
    <2>4. declines' \subseteq Calls
        BY <2>2, SendDeclinesType
    <2> QED BY <1>2, <1>5, <2>3, <2>4, TabStep DEF NoAnswerFires
<1> QED BY <1>3, <1>4, <1>5 DEF Media

-----------------------------------------------------------------------------
(* The user, the socket and the server                                     *)

\* The user declines or hangs up; the answer to a hang-up resets whatever call there is.
LEMMA UserEndsStep ==
    ASSUME WebInv, UserEnds
    PROVE  WebInv'
<1>1. /\ TabInv(tab) /\ tab \in Tab /\ AttemptsHaveCalls(tab)
    BY DEF WebInv, TabInv, Consistent, Bound
<1>2. /\ declines \subseteq Calls /\ hanging \subseteq Calls
      /\ served \in [Calls -> {"none", "ringing", "mine", "other", "ended"}]
    BY DEF WebInv, WebTypeOK
<1>3. CASE Decline
    <2>1. tab.incoming \in Calls /\ SendDeclines({tab.incoming}) /\ tab' = Dismiss(tab)
        BY <1>1, <1>3 DEF Decline, OfferShown, Tab
    <2>2. TabInv(tab') /\ declines' \subseteq Calls
        BY <1>1, <2>1, DismissTab, SendDeclinesType
    <2> QED BY <1>2, <1>3, <2>2, TabStep DEF Decline
<1>4. CASE Hangup
    <2>1. tab.call \in Calls /\ SendDeclines({tab.call}) /\ tab' = tab
        BY <1>1, <1>4 DEF Hangup, Tab
    <2>2. declines' \subseteq Calls /\ hanging' \subseteq Calls
        BY <1>2, <1>4, <2>1, SendDeclinesType DEF Hangup
    <2> QED BY <1>1, <1>2, <1>4, <2>1, <2>2, TabStep DEF Hangup
<1>5. ASSUME NEW c \in Calls, HangupReturns(c)
      PROVE  WebInv'
    <2>1. TabInv(tab')
        BY <1>1, <1>5, ResetTab DEF HangupReturns
    <2> QED BY <1>2, <1>5, <2>1, TabStep DEF HangupReturns
<1> QED BY <1>3, <1>4, <1>5 DEF UserEnds

\* Messages, the loss and the return of the socket, and the answer reconcile() waits for.
LEMMA SocketStep ==
    ASSUME WebInv, Socket
    PROVE  WebInv'
<1>1. /\ TabInv(tab) /\ tab \in Tab /\ AttemptsHaveCalls(tab)
    BY DEF WebInv, TabInv, Consistent, Bound
<1>2. /\ declines \subseteq Calls /\ hanging \subseteq Calls
      /\ served \in [Calls -> {"none", "ringing", "mine", "other", "ended"}]
      /\ inbox \in Seq(Message) /\ ws \in {"up", "down"} /\ recon \in Listing
      /\ drops \in 0..MaxDrops
    BY DEF WebInv, WebTypeOK
<1>3. TabInv(Reset(tab))
    BY <1>1, ResetTab
<1>4. CASE Deliver
    <2> DEFINE m == Head(inbox)
               cs == AutoDeclines(tab, m)
    <2>1. /\ inbox # <<>> /\ inbox' = Tail(inbox) /\ SendDeclines(cs)
          /\ tab' = IF m.type \in {"elsewhere", "cancelled"}
                    THEN OnCallCancelled(tab, m) ELSE OnCallEvent(tab, m)
        BY <1>4 DEF Deliver
    <2>2. m \in Message
        BY <1>2, <2>1
    <2>4. cs \in SUBSET Calls
        BY <2>2 DEF AutoDeclines, Message
    <2>5. inbox' \in Seq(Message)
        BY <1>2, <2>1
    <2> HIDE DEF m, cs
    <2>6. TabInv(tab')
        <3>1. CASE m.type \in {"elsewhere", "cancelled"}
            BY <1>1, <2>1, <2>2, <3>1, OnCallCancelledTab
        <3>2. CASE m.type \notin {"elsewhere", "cancelled"}
            <4>1. m.type \in {"ringing", "connected"}
                BY <2>2, <3>2 DEF Message
            <4> QED BY <1>1, <2>1, <2>2, <3>2, <4>1, OnCallEventTab
        <3> QED BY <3>1, <3>2
    <2>7. declines' \subseteq Calls
        BY <2>1, <2>4, SendDeclinesType
    <2> QED BY <1>2, <1>4, <2>5, <2>6, <2>7 DEF Deliver, WebInv, WebTypeOK, TabInv
<1>5. CASE WsDrops
    <2>1. TabInv(tab')
        BY <1>1, <1>3, <1>5 DEF WsDrops
    <2>2. inbox' \in Seq(Message)
        BY <1>5 DEF WsDrops
    <2>3. drops' \in 0..MaxDrops /\ ws' \in {"up", "down"}
        BY <1>2, <1>5, WebCallAssumption DEF WsDrops
    <2> QED BY <1>2, <1>5, <2>1, <2>2, <2>3 DEF WsDrops, WebInv, WebTypeOK, TabInv
<1>6. CASE WsConnects \/ ServerLists \/ ReconcileFails
    <2>1. recon' \in Listing /\ ws' \in {"up", "down"}
        BY <1>2, <1>6 DEF WsConnects, ServerLists, ReconcileFails, NoListing, Listing
    <2>2. UNCHANGED <<tab, declines, hanging, inbox, served, drops>>
        BY <1>6 DEF WsConnects, ServerLists, ReconcileFails
    <2> QED BY <1>1, <1>2, <2>1, <2>2 DEF WebInv, WebTypeOK, TabInv
<1>7. CASE Reconcile
    <2> DEFINE t == IF tab.call # None /\ tab.call \notin recon.live THEN Reset(tab) ELSE tab
               u == DropUnlisted(tab, recon)
    <2>1. tab' \in PresentListed(u, recon) /\ recon' = NoListing("none")
        BY <1>7 DEF Reconcile
    <2>2. TabInv(t)
        BY <1>1, <1>3
    <2>3. TabInv(u)
        <3>1. u = t \/ u = Dismiss(t)
            BY DEF DropUnlisted
        <3> HIDE DEF t, u
        <3> QED BY <2>2, <3>1, DismissTab
    <2> HIDE DEF u
    <2>4. TabInv(tab')
        BY <1>2, <2>1, <2>3, PresentListedTab
    <2>5. recon' \in Listing
        BY <2>1 DEF NoListing, Listing
    <2> QED BY <1>2, <1>7, <2>4, <2>5
            DEF Reconcile, WebInv, WebTypeOK, TabInv
<1> QED BY <1>4, <1>5, <1>6, <1>7 DEF Socket

\* The server and the other devices never reach into the tab.
LEMMA ServerStep ==
    ASSUME WebInv, Server
    PROVE  WebInv'
<1>1. /\ TabInv(tab) /\ tab \in Tab
      /\ declines \subseteq Calls /\ hanging \subseteq Calls
      /\ served \in [Calls -> {"none", "ringing", "mine", "other", "ended"}]
      /\ inbox \in Seq(Message) /\ ws \in {"up", "down"} /\ recon \in Listing
      /\ drops \in 0..MaxDrops
    BY DEF WebInv, WebTypeOK
<1>2. UNCHANGED <<tab, hanging, ws, recon, drops>>
    BY DEF Server, CallArrives, AnsweredElsewhere, OtherPlaces, CallConnects, RemoteEnds,
           ServerDeclines
<1>3. /\ declines' \subseteq Calls
      /\ served' \in [Calls -> {"none", "ringing", "mine", "other", "ended"}]
    BY <1>1 DEF Server, CallArrives, AnsweredElsewhere, OtherPlaces, CallConnects,
                RemoteEnds, ServerDeclines, EndCall
<1>4. UNCHANGED inbox \/ \E m \in Message : Send(<<m>>)
    <2>1. CASE \E c \in OutCalls : OtherPlaces(c)
        BY <2>1 DEF OtherPlaces
    <2>2. CASE ~ \E c \in OutCalls : OtherPlaces(c)
        <3>1. PICK c \in Calls, ty \in {"ringing", "connected", "elsewhere", "cancelled"} :
                  Send(<<[type |-> ty, call |-> c]>>)
            BY <2>2 DEF Server, CallArrives, AnsweredElsewhere, CallConnects, RemoteEnds,
                        ServerDeclines, EndCall, Calls
        <3>2. [type |-> ty, call |-> c] \in Message
            BY DEF Message
        <3> QED BY <3>1, <3>2
    <2> QED BY <2>1, <2>2
<1>5. inbox' \in Seq(Message)
    <2>1. CASE UNCHANGED inbox
        BY <1>1, <2>1
    <2>2. ASSUME NEW m \in Message, Send(<<m>>)
          PROVE  inbox' \in Seq(Message)
        <3>1. <<m>> \in Seq(Message)
            OBVIOUS
        <3>2. inbox' = inbox \o <<m>> \/ inbox' = inbox
            BY <2>2 DEF Send
        <3> QED BY <1>1, <3>1, <3>2
    <2> QED BY <1>4, <2>1, <2>2
<1> QED BY <1>1, <1>2, <1>3, <1>5 DEF WebInv, WebTypeOK, TabInv

-----------------------------------------------------------------------------
(* The theorems                                                            *)

\* A tab that is just opened is consistent.
LEMMA WebInit == Init => WebInv
<1> SUFFICES ASSUME Init PROVE WebInv
    OBVIOUS
<1>1. Fresh \in Attempt
    BY DEF Fresh, Attempt, Awaits, Directions, Kinds
<1>2. tab \in Tab
    BY <1>1 DEF Init, Tab, Directions
<1>3. /\ declines \subseteq Calls /\ hanging \subseteq Calls
      /\ served \in [Calls -> {"none", "ringing", "mine", "other", "ended"}]
      /\ inbox \in Seq(Message) /\ ws \in {"up", "down"} /\ recon \in Listing
      /\ drops \in 0..MaxDrops
    BY WebCallAssumption DEF Init, NoListing, Listing
<1>4. Consistent(tab) /\ AttemptsHaveCalls(tab)
    BY DEF Init, Fresh, Consistent, Bound, ShownBusy, AttemptsHaveCalls, InSetup
<1> QED BY <1>2, <1>3, <1>4 DEF WebInv, WebTypeOK, TabInv

\* Every step of the tab, of its attempts, of the socket and of the server keeps the
\* invariant.
LEMMA WebStep == WebInv /\ [Next]_vars => WebInv'
<1> SUFFICES ASSUME WebInv, [Next]_vars PROVE WebInv'
    OBVIOUS
<1>1. CASE UNCHANGED vars
    BY <1>1 DEF vars, WebInv, WebTypeOK, TabInv
<1> QED BY <1>1, FlowsStep, MediaStep, UserEndsStep, SocketStep, ServerStep DEF Next

\* The invariant of the tab holds in every reachable state.
THEOREM WebInvariant == Spec => []WebInv
    BY WebInit, WebStep, PTL DEF Spec

\* What the properties say of the tab follows from it.
LEMMA WebInvImplies ==
    WebInv => /\ WebTypeOK /\ SurfaceMatchesSession /\ SingleSurface
              /\ HeldNotShown /\ OfferRings
    BY DEF WebInv, TabInv, Consistent, Bound, ShownBusy, SurfaceMatchesSession, SingleSurface,
           HeldNotShown, OfferRings

\* The store, the timers and the attempts stay within what the controller declares
\* (call-store.ts, call-controller.ts).
THEOREM WebTypeCorrect == Spec => []WebTypeOK
    BY WebInvariant, WebInvImplies, PTL

\* The client that carries media and the call on the screen belong together, through every
\* overlap of flows, timers, events and a stale reconcile answer (enforceSessionVisibility()).
THEOREM SurfacesMatch == Spec => []SurfaceMatchesSession
    BY WebInvariant, WebInvImplies, PTL

\* An incoming offer is never shown beside an active call (placeCall(), answer(),
\* onCallEvent(), reconcile()).
THEOREM OneSurface == Spec => []SingleSurface
    BY WebInvariant, WebInvImplies, PTL

\* A call that another device holds is never offered here, and is the active call only if
\* this tab placed it (onCallCancelled(), onCallEvent(), reconcile(), placeCall()).
THEOREM HeldStaysHidden == Spec => []HeldNotShown
    BY WebInvariant, WebInvImplies, PTL

\* An offer that is on the screen rings (presentIncoming(), startRingtone()).
THEOREM OffersRing == Spec => []OfferRings
    BY WebInvariant, WebInvImplies, PTL
=============================================================================
