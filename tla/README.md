# Svarla in TLA+

Svarla is a self-hosted telephone: a Node.js server (`src/src`), a MediaBridge that carries
audio between WebRTC and the telephony providers (`src/mediabridge`, Go), a gateway that puts
a cellular modem behind the server (`src/modem-gateway`, Go), and Android and web clients.
This directory holds TLA+ models of the parts where the order of events decides whether a
call is answered once, ends everywhere, is shown and recorded truthfully, whether a text
message gets through, and whether providers, gateways and browsers find each other again;
the configurations that model-check them with TLC; and TLAPS proofs of the central
invariants of most of them for every number of calls, devices, sockets, messages and providers.

## The system and its components

| component | state it keeps | operations | talks to | module |
|---|---|---|---|---|
| `CallOrchestrator` (`services/call-orchestrator.ts`) | `activeCalls`, `sessionToCall`, `providerCallToInternal`, `notificationToCall`; one `ActiveCall` per call with its watchdog timer | `initiateOutbound`, `handleInbound`, `answerCall`, `endCall`, `reconcileActiveSessions`, `endAllCalls`, MediaBridge events | MediaBridge client, providers, broadcaster, history, notifications | `CallOrchestrator` |
| call routes, webhooks, event wiring (`routes/call-routes.ts`, `webhook-router.ts`, `server.ts`) | none | initiate, answer, decline, list; incoming, answered and terminal events; inbound SMS | orchestrator, history, conversations | the callers' modules |
| MediaBridge client, event listener, failure detector (`services/media-bridge-*.ts`) | connection health, reconnect timer, `wasHealthy`, `wasConnected` | create, update, destroy, status; event delivery; poll | MediaBridge, orchestrator | `CallOrchestrator` |
| `CallHistoryService`, `NotificationService`, `StartupCleanupService` | tables `call_history`, `notifications` | insert, type changes, answered, duration, cap, pages; create, resolve, transition, mark read | database, broadcaster, devices | `CallRecords`, `CallHistory` |
| `ConversationService`, `ReadStateService` | tables `messages`, `conversations`, `read_state` | receive, send, remove, list, mark read | providers, broadcaster | `InboundSms`, `Messages` |
| `ProviderRegistry`, `NumberManagementService` | map of entries and running instances; tables `providers`, `numbers` | load, add, update, remove, poll; sync, activate, default, routing | providers, routes | `Providers` |
| gateway provider on the server (`providers/modem-gateway-*.ts`) | socket, challenge, timers, pending operations; pairing in the provider's configuration | challenge, pairing, reset, ping, requests | gateway, registry | `GatewayLink` |
| `AuthService`, `DeviceRegistryManager`, `WebDeviceReaper`, `WebSocketBroadcaster` | table `device_registry`, `connections`, `aliveSet` | sign in and out, check, register, sweep, ping | clients, orchestrator | `Sessions` |
| web client (`web/src`) | `CallController` and its clients, socket, token, the views' state | calls, messages, history, providers, session | server | `WebCall`, `Messages`, `CallHistory`, `Providers`, `Sessions` |
| gateway SMS (`modem-gateway/internal/sms`, `internal/buffer`, `cmd/.../smsdelivery.go`) | modem storage, part store, pending set, two persistent buffers | read, assemble, persist, deliver, acknowledge, delete | modem, server | `SmsIntake`, `PersistentBuffer`, `InboundSms` |
| gateway signaling (`modem-gateway/internal/signaling`) | connection to the server, key, pairing secret; the one modem call | authenticate, reconnect; dial, answer, hang up | modem, server | `GatewayLink` |
| MediaBridge (`mediabridge/`) | session store, media sessions, SIP dialogs, peer connections, event socket | control API, SIP, WebRTC, audio sockets | server, providers, clients | as `CallOrchestrator` sees it |
| Android client | its own call controller, local caches | requests and reactions to broadcasts | server | not modelled |

`PROJECT.json` lists every part with its sources and whether it is modelled.

What makes the system hard: the server is one thread, but every `await` lets any other
handler in. A call is set up over up to three awaits, answered over up to two, and can be
ended at each of them by a client, by the provider's webhook, by three MediaBridge events,
by a timer, by a reconcile pass or by a sweep. History and notification writes are issued
without being awaited. Webhooks are delivered again when they are not acknowledged in time,
events are lost while their socket is down, and either process may restart. The browser has
the same difficulty from its side: a flow of the controller or of a view resumes after an
await in a page that has moved on, answers arrive in any order, and events are lost while
its socket is down. Tables are read and written by separate statements on a pool, also where
one operation needs several.

Correctness of each part, in short:

* orchestrator: one winner per call; the claim is held by the pending or confirmed answer;
  no id leads to an ended call; a hang-up finds its call; a timer for every tracked call;
  every MediaBridge session has an owner; every call ends;
* records: an answered call is not recorded as missed; after a restart nothing waits for a
  call that cannot be resolved; notifications only move forward; the history stays within
  its cap and the page shows it as it is;
* a tab in a call: what is on the screen and what carries media belong together, an offer
  rings, a call held elsewhere is not offered, no setup hangs;
* messages: stored once, never hidden by a removal that came first, sent once per
  submission, pending only while somebody works on them; on the gateway's way, never lost;
* gateway link: nothing of a closed socket is left over, and a paired gateway that has been
  started again since comes back;
* registry: one running instance per active entry, the default number can be called from;
* sessions: an abandoned device leaves, an open tab is registered as the device it signed in as.

## Modules

| module | what it is |
|---|---|
| `CallOrchestrator` | the orchestrator's maps and handlers, the MediaBridge's sessions as the server sees them, the event socket, the passes |
| `CallLifecycle` | the abstract specification: a call opens once, is held by at most one device at a time, is won once, ends once |
| `CallOrchestratorRefines` | the orchestrator implements `CallLifecycle` under a refinement mapping |
| `CallRecords` | extends the orchestrator with the two tables, the writes in flight and server restarts |
| `PersistentBuffer` | the gateway's keyed buffers as operators: memory, file, torn last line, failing disk |
| `SmsIntake` | `+CMTI` handlers, drains, reassembler and part store of the gateway, its crash and its boot |
| `InboundSms` | extends the intake with the pump, the connection and the server's `receiveMessage` |
| `SmsService` | the abstract specification of the SMS path: stored when received in full, announced at most once |
| `WebCall` | one tab's `CallController` with its WebRTC clients, the event socket and the server's calls as the tab sees them |
| `GatewayLink` | the server's handler of the gateway's sockets, its pairing and challenge exchanges, the provider above it, and the reconnecting gateway |
| `Messages` | `receiveMessage` and `sendMessage` at their statements, conversations and read state, and the conversations view of a tab |
| `Providers` | the registry and the number management: tables, map of entries, running instances, the operations between their awaits |
| `Sessions` | sign-in, tokens, sockets of a browser, the broadcaster's bookkeeping and the reaper |
| `CallHistory` | recording with its cap, broadcasts, and the list the history page puts together |
| `CallOrchestratorProofs` | TLAPS theorems about `CallOrchestrator`: maps, timers and claims; media sessions and notification ids; the refinement in `CallOrchestratorRefines` |
| `CallRecordsProofs` | TLAPS theorems about `CallRecords`, with restarts and late writes |
| `WebCallProofs`, `GatewayLinkProofs`, `MessagesProofs`, `ProvidersProofs`, `CallHistoryProofs`, `InboundSmsProofs` | TLAPS theorems about the module each is named for |
| `MC*` | symmetry sets for TLC, and the view of `call_history` |

`CallRecords` and `CallOrchestratorRefines` extend the orchestrator, `InboundSms` extends
`SmsIntake`. The browser's modules stand beside the server's instead of composing with them:
`WebCall` keeps of the orchestrator only what a tab can tell apart (`served`), so that two
overlapping flows of the tab can be checked against every order of the server's events.

### How state and actions correspond to the code

An action is the code between two awaits.

**Orchestrator.** `setup[c]` says where `initiateOutbound` or
`handleInbound` waits: `creating` (createSession), `dialing` (makeCall), `patching`
(updateSession), `numbers` (getNumbers), `returned`, or `failed` when it threw.
`answering` holds one request per `answerCall` at an await. The four maps have the names
they have in the code; since `sessionId = callId`, `sessionToCall` and `notificationToCall`
are sets of calls. The fields of an `ActiveCall` stay readable after the call has left the
maps, as they do for the closures that captured the object. `EndCall` is the whole
of `endCall`, which has no await: guard, timer, broadcast, destroy request, writes, maps.

`wire[c]` is the last call event broadcast for `c`; `told` holds the devices to which
`POST /api/calls/answer` replied with success. `destroying` holds destroy requests that have
not settled. `providerLeg` is the truth at the MediaBridge, `StatusConnected` what its status
endpoint reports. `Outbound`/`Inbound`/`Answering`/`Ending`/`MediaEvent`/`Bridge`/
`Passes`/`Notifying` group the actions by the code they come from.

**Records.** `CallRecords` gives a meaning to the writes the orchestrator puts into `issued`: each runs
once, in any order (`RunWrite`), by the `WHERE` clause of its statement, so updates
find their rows by provider call id and may find none. `ServerRestart` drops what had not run,
applies the start-up clean-up, and empties the maps.

**SMS path.** A reader is a goroutine: `reader[p]` is the `handleCMTI` started for part
`p`, `reader[Drain]` the one `DrainStoredMessages` that may run. Its `pc` says which command
or lock comes next: `read` (AT+CMGR), `add` (`AddPart`), `deliver` (`Persist`), `delete` and
`free` (AT+CMGD after a delivery, and without one), `commit`; the drain also has `list`,
`next` and `others`. `storage` is the SM memory of the modem, `selected` the memory that
commands go to. A buffer is a record of `mem`, `file` and `torn`; `parts` is the part store
and `inbox` the buffer of `SMSDelivery`. `overdue` stands for the clock: the messages whose
first part is older than the stale timeout. `handling` holds a record for each delivery that
the server works on, since several of one message may be under way.

**Tab in a call.** `tab` is the controller's store with its timers; `tab.att[i]` is one run of
`placeCall` or `answer` and `at` the await it is suspended at. Several runs may be under way,
because the single-call guard reads the phase, which stays idle until the microphone is
granted. `tab.client` is `this.client`, which a later run overwrites. The controller's
handlers call one another, so they are functions from a tab to the next tab, and an action
applies one to `tab`. `inbox` is the event socket in order, `recon` the request of `reconcile`
and its answer, read at the server at one moment and applied at another. The actions of the
user are guarded by what the page offers: the dialer (`MayDial`), the incoming surface
(`OfferShown`) and the banner (`BannerShown`).

**Gateway link.** `h` is the one handler of the provider, whose callbacks do not say which
socket they belong to; `conn` is the sockets with what is under way on each; `asking`,
`verify`, `pair` and `reset` are exchanges at an await of the database. `db` is the pairing in
the provider's configuration column and `cache` the registry's copy; a save writes the
whole record that was loaded before. `gw` is the gateway's client.

**Messages.** `flow[f]` names the statement a run of `receiveMessage` or `sendMessage` is about
to execute, `sent`, `again` and `failed` being the three updates of a status; `left` is a `sendMessage` that has
ended without one. `reqs` holds the tab's requests under way and their answers, in no order.

**Registry.** `op[o].at` is the await an operation has reached; operations hold the entry object
(`entry`), which may have left the map (`inMap`). `good` is the set of running instances with
whether their credentials are accepted; nothing but the entry knows an instance. Of an entry's health only a failure to
authenticate is kept. `RemoveDelete` detaches the numbers that still refer to the provider, as the key's
`ON DELETE SET NULL` does (`migrations/011_nullable_number_provider.ts:23-28`); `RemoveRejects` is a delete that
fails.

**Sessions.** `row` is `device_registry`, `store` the browser's localStorage. `sock` is the sockets as
both ends see them: `up`; `cut`, dead with neither end aware of it; closed at the server and known to the
browser (`shut`) or not (`lost`). A close the server sends on a dead socket reaches nobody (`Close`), and only
`Vanish`, which nothing makes happen, lets the browser find out by itself. `conns` and `alive` the broadcaster's maps, `req` the requests between the
queries of the middleware and their answers.

**History.** An id stands for the timestamp of its row. `saving` is `recordCall` at its queries,
`telling` the updates still to be broadcast, `view` the page, `req` its requests. `call` names the call of each
row: a webhook delivered again records a second row of one call (`Again`), and `Update` changes all open rows of
a call and broadcasts one. The page's socket is `opened` when the page fetches anew and `up` once the server
has registered it, two queries later. `CapRejects` ends a recording at any of its queries, and `lapsed`
remembers that nobody has counted the rows since, as after a start above the cap.

Definitions introduced by `\* Fault:` are variants of the definition that follows with one
plausible mistake (a dropped guard, a missing reset). No specification uses them: replacing
the real definition by its variant must make TLC find the property listed with it in
`PROJECT.json` violated.

### Simplifications

Calls, records and the SMS path:

* `LegacyEnd` (three statements of the listener's fallback in `server.ts`) runs as one step. The kind `sip`
  stands for Vonage, whose event webhook does nothing for an unmapped id, and for 46elks, whose `whenhangup`
  reaches the fallback: `LegacyJobs` admits both.
* Overlapping reconcile passes are merged into one set of calls to visit; at most one status
  request is awaited at a time.
* A provider's hang-up that arrives before `makeCall` has returned is not a separate
  action; it finds no mapping and changes nothing the model keeps.
* The 200 ms before a destroy request is part of the time the request is under way.
* `dispose` is covered by `ServerRestart`.
* WebRTC offers, ICE candidates and DTMF are relayed without touching orchestrator state.
* A retry inside the MediaBridge client is part of the await of its caller.
* A modem that comes back without a restart of the gateway is covered by `GatewayCrashes` and
  `Boot`, which lose strictly more. An orderly shutdown is a crash after one more rewrite of
  the buffers' files and is not a separate action.
* Messages arrive in the SM memory; the other memories a drain visits are taken as empty and
  as one. `DrainLists` selects and lists in one step.
* A message has one or two parts, the pieces a reassembly can be in being missing, held and
  complete. Reuse of an 8-bit concatenation reference by the same sender is not modelled.
* The `new_message` broadcast goes with `MetadataUpdated`; `notified` counts notifications.
* `MaxAnswers` bounds the answer requests admitted for one call. A rejected request changes
  nothing and is not counted.

Tab in a call (`WebCall`):

* The `disconnected` call event is a no-op of the controller, so only `cancelled` is sent.
* Any ringing call can be answered by another device, whatever its direction: neither the answer
  route nor the orchestrator looks at it. The report that a call is connected is sent once more only
  for a call that rings or that this tab has answered, not for one another device has.
* A request to decline a call that is over changes nothing and is dropped.
* Mute, volume, DTMF and the wording of errors are left out; `stop()` is not an action.
* One reconcile is under way at a time, and one message on the socket (`MaxInbox`).

Gateway link (`GatewayLink`):

* One pairing and one challenge response are under way at a time; prompt exchanges end before
  their 30 second timers, and a gateway that can be reached answers a ping before the next.
* The limit on pairing attempts counts within one connection. Contents of status reports are left out.

Messages: both tables start empty with the page loaded; notifications of messages, the page's
remount and scrolling are left out; a timestamp is reduced to whether `read_at` has reached it;
`read_state_updated` goes to other devices only. `retryMessage` and `updateMessageStatus` are
called from nowhere in the running server.

Registry: which number is least used is any; an id is added once; a start that fails when the
server restarts, labels and the flag that blocks inbound calls are left out.

Sessions: one tab of one browser; logins are not counted as events since the devices bound them.
Wrong passwords, lock-out, rate limits, the device limit, tickets, expiry by age, Android and the
device page's own list are left out. The refresh of `last_seen_at` is the guard of `Ages`.
The beacon a page sends when it is unloaded is a POST to a route that exists for DELETE only,
and changes nothing.

History: rows and count of a page are read at one moment; the time on the socket is folded into
the time until a broadcast is sent; the only update is from INCOMING to MISSED; the
dashboard's excerpt is left out.

## Runs

Ten of the eleven passing runs set `CHECK_DEADLOCK FALSE` because calls, operations and events
are bounded, and once they are used up nothing is left to do; the gateway link sets it for the
end of its sockets.

| run | what it shows | bounds |
|---|---|---|
| `call_faults` | claim, winner, timer, session ownership and notification ids; that the orchestrator implements `CallLifecycle`; that every call ends and its session is given back | 1 call over each kind of provider, 2 devices, 2 answers; socket losses, MediaBridge restarts and sweeps |
| `webhook_retries` | no id leads to an ended call, and a hang-up finds its call, when webhooks are retried | 2 calls, 2 provider ids, sip and gateway, no answers |
| `records` | tables stay truthful under reordering and restarts, and a live call keeps its session | 1 call, 2 devices, restarts |
| `sms_custody` | a message is never lost, is stored whole and once, and is announced at most once (`ImplementsService`) | 1 two-part message, 2 slots, 2 deliveries at a time, one going stale, 1 outage |
| `sms_delivered` | a message that has reached the buffer's file is stored and leaves the pump, under fairness | 1 message, 1 slot, 2 deliveries at a time, AT and disk errors, 2 outages |
| `web_call` | surface, session, ring and held calls stay together, and every setup ends | 1 inbound and 1 outbound call, 2 runs of `placeCall` or `answer` or one with a lost socket, 1 message under way |
| `gateway_link` | nothing is left of closed sockets, and the link of a gateway started again since its pairing comes back | 2 sockets used again without end, 1 request, 1 fault (lost socket, stale timer, reset, saved settings, restart) |
| `messages` | a message is received once, brings its conversation back, is sent once per submission, and is pending only while its send is at work | 1 received message in 2 overlapping deliveries, 1 sent, 1 peer, 2 own numbers, 1 other act of the user, 1 fault |
| `providers` | instances match entries, colors stay distinct, the default number can be called from | 2 providers, 2 numbers, 1 color, 3 operations, 2 at a time, 1 event |
| `sessions` | a device whose browser is gone leaves; a tab that stays is registered as its session's device, unless stranded on a socket it has no reason to replace | 2 logins, 1 tab, 2 sockets, 2 events |
| `call_history` | the cap holds, the page lists each call once and as it is | 2 recordings, perhaps of one call, over a table of 1 with a cap of 2, pages of 1, 2 lines, 2 requests at a time, 1 event |
| `v_sms_slot_reuse` | expects a violation: a message is deleted from the modem before it is stored | the SMS path with the fault `reuse` |

Properties about one call are checked with one call: calls share only
`providerCallToInternal`, and that sharing is what `webhook_retries` exercises with two
(answers do not touch the map, so that run admits none). Two devices are enough for a race
of answers; two answers for a failed answer followed by another. The proofs remove the
bounds for the safety properties they cover.

`HangupFindsCall` speaks of a call that alone has its provider id: a webhook that is
delivered again sets up a second call under the same id and takes the entry over.

The SMS runs use one message, since messages meet only in the modem's slots and in the order of
a buffer; two parts and two slots give two `+CMTI` handlers and a drain working at once.
An outage is a crash of the gateway, a lost connection, a server restart, a rejected query or
a failed write to the disk: `MaxOutages` bounds their number together. `Faults` adds what the
environment may do besides: `stale` (five minutes pass), `at` (an AT command fails), `disk`,
and `reuse` (the modem fills a slot that a reader still has at hand).

`sms_custody` leaves out `disk`, `at` and `reuse`, because `NothingLost` does not hold with
them: `v_sms_slot_reuse` shows it for `reuse`; with `at`, a drain deletes a message whose read
failed for a moment; with `disk`, a part that could not be stored is deleted from the modem,
and a message that is only in the memory of the buffer is taken for delivered when the modem
offers it again. So the run shows that the order of the steps is right, and these three are
the ways in which a message is lost nevertheless, apart from the five minutes of the stale
timeout, which `NothingLost` exempts by name, and a buffer at capacity.

In `web_call` two attempts are what an overlap needs: one suspended at the microphone, the other
started meanwhile; the inbound and the outbound call may come in either order. In
`gateway_link` a socket that both ends have forgotten is used again, so that the link lives
through any number of reconnects although two sockets exist at a time; the single fault is
added to what is free in any case: the gateway's read deadline, the server's expiry timers and
late close events. In `messages` the user opens, leaves, deletes or reads while a send and two
deliveries are under way (`MaxReqs` bounds the requests besides a send). In `providers` any two of
adding, editing, disabling, removing and syncing overlap, on one provider or on two, and one
color for two numbers makes the palette run out. In `call_history` two recordings overlap and carry a
table of one past its cap of two, and a page of one row makes every insert shift the pages under the reader; the
single event is a lost socket, a query of the cap that rejects, a failed request, another filter or a blocked call
that could not be recorded. That run has a `VIEW`: once `raced`, states that differ only in the types the list
and the answers show, or in the filter of an answered request, count as one, as no action and no property
looks at these from then on. In `sessions` two events let a socket break unheard and the page be
closed, or a session end and the tab sign in again.

### Properties that make an exception, and why

Some properties name the case in which the code does not keep them:

* `SessionsOwned`: the session of a setup that threw before its call was tracked is left behind.
* `AnsweredNotMissed`: rows that the listener's fallback for unmapped provider ids has edited (46elks, gateway
  and dummy): it runs beside `endCall` and may call an answered call missed.
* `PendingIsWorkedOn`: the row of a `sendMessage` that ended before its status was written stays PENDING
  (`left`): the update to FAILED or the repeated update to SENT rejected (see below), or the server restarted.
* `MessageRestoresThread`: a removal between the un-remove and the insert hides the new message
  (`fresh` forgets the flows it hits).
* `InstancesMatchEntries` and `DefaultRoutes`: two operations overlapping on one provider, or a removal whose
  delete rejected, which leaves the provider in the map, active and stopped (`provider-registry.ts:530-543`):
  `clash` has both.
* `ColorsDistinct`: overlapping changes of numbers, or a palette used up (`excused`).
* `CapKept`: overlapping recordings may delete more than the excess (`crowded`). A table that starts above its
  cap, or of which a query of the cap rejected, is above it until a recording has counted (`lapsed`).
* `ListIsCurrent`: overlapping broadcasts and pages, a failed refresh, a recording that threw before its
  broadcast, a broadcast between the opening of the socket and its registration (`raced`, see below); the
  type of a call recorded twice (`Alone`); rows beyond those the pages have loaded (see below).
* `HeldNotShown`: a call that this tab has placed and that another device holds may be current, never offered.
* `LinkRecovers`: asks that both ends stay paired, and that the gateway's process has been started
  again since it paired: the process that paired cannot reconnect (see below, also for how an
  overlap undoes a pairing).
* `TabsAreServed` asks that the tab's token stays the one the server accepts, and excuses a tab that stays on
  a socket which broke without its notice, or which was opened under an earlier login (`Stranded`, see below).

### Where the code and what is said of it disagree

`v_sms_slot_reuse` is checked by TLC and has its entry under `findings` in `PROJECT.json`. The
models contain the following as well, in their actions; no run is spent on them:

* The long watchdog stays armed after a failed answer (`call-orchestrator.ts:577`, against the
  comment at `:751` that it is long once answered).
* A webhook delivered again sets up a second call (`webhook-router.ts:508`, against the comment
  at `:376-378` and `server-managed-notifications/requirements.md:90`).
* A hang-up while the session is being created is dropped and the call rings on
  (`call-orchestrator.ts:837`, against `provider-generic-voice/requirements.md:112`).
* Reconcile keeps a call whose leg is gone, since the session's flag is never reset
  (`session.go:168`, against the comment at `call-orchestrator.ts:783-785`).
* A row stays INCOMING when an answer fails after the call's end (`call-orchestrator.ts:590`,
  against `call-history-service.ts:105`).
* The gateway's process that has paired keeps the pairing secret in memory (`auth.go:116-120`,
  `run.go:66-71`). Once it loses that first connection it asks to be paired again at every
  attempt, is refused as `already_paired` and closed (`modem-gateway-ws-handler.ts:517-523`), and
  never comes back until it is started anew, against `.kiro/specs/modem-gateway/requirements.md:68-69`
  and `docs/guide/provider-modem-gateway.md:253-261`. `GatewayLink` has these steps (`Connect`
  sends the request while `gw.secret` is set); `LinkRecovers` holds only beyond them.
* A silent gateway is never dropped by the ping: each tick starts the timer of the missing pong
  again (`modem-gateway-ws-handler.ts:885`, against `modem-gateway/requirements.md:70`).
* A ringing outbound call is listed and can be answered by another device while the request that made it
  is under way; its response makes the call current without looking at `heldElsewhere`
  (`call-controller.ts:598`, against `:407-415`). `HeldNotShown` allows the placing tab this.
* A message that was sent or refused may stay PENDING and its request be answered 500: the repeated update to
  SENT and the updates to FAILED are caught by nobody (`conversation-service.ts:157-165`, `:184-193`), against the
  comment at `:169-173` that a post-send database error "must NOT leave the row stuck at PENDING or surface as a 500".
* The page fetches anew when its socket opens (`call-history.tsx:366-377`), but the server registers the socket
  only after two queries (`broadcaster.ts:136-173`). What is broadcast after the page was read and before the
  registration is lost, against the comment at `web/src/ws.ts:44-45` ("so they can re-fetch any state that may
  have been missed").
* Signing out does not close the page's socket, and `initWebSocket` returns the existing one, so
  after the next sign-in the tab's socket stays registered under the old device (`main.tsx:242`,
  `ws.ts:21-23`, against `web-calling-voice/requirements.md:59` and `:246`).

### Further observations

Orders of events the models admit, none of which a comment or requirement rules out in so many
words:

* **Orchestrator.** A notification id is registered only after every wake signal has been sent;
  the ring is broadcast after an await during which the call may have been cancelled; a
  reconcile pass takes the claim of a pending answer for a provider leg and ends that call; a
  hang-up of 46elks, the gateway or the dummy provider that finds its id unmapped marks the row MISSED, also
  when the write that records the answer is still on its way (`server.ts:499-552`); a
  missed notification may be created after the transition that was to mark it.
* **SMS path.** A `+CMTI` handler that reads while a drain has another memory selected leaves its
  message for the next drain; a message whose row was inserted before its metadata update
  failed is acknowledged later as a duplicate and never announced.
* **Call history.** An update of a row that is not shown is put on top of the list whatever the row's age
  (`call-history.tsx:390`), and a broadcast whatever the filter, so that the list need not be
  the head of the history once an older open row is updated.
* **Tab in a call.** Overlapping attempts overwrite the client and leave the earlier microphone
  open, as does a `createOffer` that ends after `close`; a hang-up, a failed `makeCall` or a failed
  `exchangeOffer` resets whatever call is current; `placeCall` removes an offer without stopping
  its ring; a stale reconcile ends a call just placed.
* **Gateway link.** The late close event of a replaced socket makes the handler forget the new one
  (`modem-gateway-ws-handler.ts:313`), which then lives until the gateway's 90 second deadline; the expiry
  timer of a challenge is never cleared (`:437-445`); `handleAuthResponse` reads the pending
  challenge after an await (`:615`); the configuration column is read, changed and written
  with awaits in between, and the registry writes back its own copy, so a setting saved at the
  wrong moment undoes or restores a pairing (`modem-gateway-persistence.ts:47-98`,
  `provider-registry.ts:415`, `:440`); a crash between storing the key and clearing the secret leaves both.
* **Messages.** Opening a thread never marks its notifications read, because the provider's message
  id is compared with the row's (`notification-service.ts:311-325`, `webhook-router.ts:932`);
  marking a thread read twice at a time may move `read_at` backwards; a late answer of
  `fetchMessages` is shown in the thread opened since; after a reconnect the open thread is
  fetched again without its own number; a request that fails in the network leaves
  `sending` or `loading` set.
* **Registry.** After a restart a disabled provider has no entry; overlapping updates, or an update and
  a removal, leave an instance running that no entry knows (`provider-registry.ts:465-479`);
  a sync that overlaps a removal takes a number over before the row goes, which is then left active, without a
  provider and in no list; a removal whose delete rejects leaves the provider listed as active with its
  instance stopped and its numbers gone; a sync
  re-activates what the user deactivated; a late answer of a poll is written to an entry whose
  credentials have changed.
* **Sessions.** `validateSession` reads by token and writes by id, so a device removed in between is
  active again (`auth-service.ts:197-228`); a late 401 clears the token of the next sign-in
  (`api.ts:71-75`); a wrong current password is answered 401 and signs the browser out
  (`settings.tsx:241-243`); removing a device leaves its sockets open; the reaper decides on a
  snapshot; a browser whose socket dies without a close need not find out, since `ws.ts` sends nothing by itself
  and the close that follows the server's unanswered ping reaches nobody (`broadcaster.ts:362-380`), so the tab
  is registered no more and does not connect again.
* **History.** Overlapping enforcements of the cap delete too many rows; the broadcast of an insert
  is sent after the cap's queries and may be overtaken by the update's; an update changes all open rows of a call and broadcasts the first, so the page shows
  the others as open until it is loaded again; a rejected query of the cap fails the recording after its insert, so the row is not
  broadcast; a realtime update ignores the page's filter; Vonage's `ringing` of an outbound call
  (`webhook-router.ts:810-826`) records a second row.

### Fairness

`FairSpec` of the orchestrator assumes two things. `WF(WatchdogFires)`: Node runs the callback of
an expired timer, and the timer is armed while the call is tracked (`WatchdogArmed`).
`WF(DestroySettles)`: the MediaBridge client aborts a request after ten seconds, so it
settles one way or the other. Nothing is assumed of providers, devices, the event socket or
the passes: `EveryCallEnds` holds with all of them silent. `SessionsReclaimed` is checked
without the fault `destroy`, since a destroy request that fails is logged and not repeated.

`FairSpec` of the SMS path assumes weak fairness of the goroutines (a command returns or times
out), of the restart of the gateway, of its reconnect loop, of the pump (a ticker repeats the
flush every 30 seconds) and of the server's awaits. The network, and every fault, are free.

`FairSpec` of `WebCall`: an await of a flow settles (requests, `createOffer` and the answer's
application carry time-outs, the browser's own promises end) and the timers fire. Nothing is
assumed of the user, the far end or the socket.

`FairSpec` of `GatewayLink`: the server goes on with an exchange or with what it has received, sees
a closed socket close, and runs its ping interval; the gateway handles what it receives or hangs
up at its deadlines, which `reconnect.go` turns into another attempt. Nothing is assumed of a reset
or of a request.

`FairSpec` of `Sessions`: an open page without a socket connects, and one whose browser knows of the close
hears of it (`ws.ts` repeats its attempts for ever). Nothing makes a browser find out that its socket is dead.
Requests and the queries of a socket's authentication
settle, the ping interval and the reaper run, and time passes for a silent device.

`Messages`, `Providers` and `CallHistory` are checked for safety only: what they promise at the end
of a request depends on the user making it.

## Proofs

Eight modules prove, for every value of the constants that satisfies the named assumptions,
what the tables below list. The assumptions say only what the constants stand for: kinds and
faults are of the listed sort, a null value is not a member of the set it extends (`Absent` is
no row and no notification, `None` no call, socket, provider, color, part or row of a table, `Drain` no part), inbound
and outbound calls or messages are different ones, the account owns a number
(`MessagesAssumption`), and bounds are natural numbers (a cap and a page size
positive ones).

| theorem | states |
|---|---|
| `TypeCorrect` | `Spec => []TypeOK` |
| `InductiveInvariant` | `Spec => []IInv` |
| `IdsNeverDangle` | `Spec => []NoDanglingId` |
| `WatchdogFollowsCall` | `Spec => []WatchdogArmed` |
| `HangupsFindTheirCall` | `Spec => []HangupFindsCall` |
| `NeverTwoWinners` | `Spec => []OneWinner` |
| `ClaimsAreAccounted` | `Spec => []ClaimAccounted` |
| `EverySessionHasAnOwner` | `Spec => []SessionsOwned` |
| `LiveCallsKeepTheirSession` | `Spec => []SessionKept` |
| `SettledIdsResolve` | `Spec => []RegisteredIdResolves` |
| `OrchestratorImplementsLifecycle` | `Spec => ImplementsLifecycle` |
| `RecordsTypeCorrect` | `RecordsSpec => []RecordsTypeOK` |
| `RestartsLeaveNothingOpen` | `RecordsSpec => []OpenOnlyThisRun` |
| `NotificationsMoveForward` | `RecordsSpec => NoteMovesForward` |
| `AnsweredIsNeverMissed` | `RecordsSpec => []AnsweredNotMissed` |

and, of the parts beside the orchestrator, each from the `Spec` of its own module:

| module | theorem | states |
|---|---|---|
| `WebCallProofs` | `WebInvariant` | `Spec => []WebInv` |
| | `WebTypeCorrect` | `Spec => []WebTypeOK` |
| | `SurfacesMatch` | `Spec => []SurfaceMatchesSession` |
| | `OneSurface` | `Spec => []SingleSurface` |
| | `HeldStaysHidden` | `Spec => []HeldNotShown` |
| | `OffersRing` | `Spec => []OfferRings` |
| `GatewayLinkProofs` | `LinkInvariant` | `Spec => []LinkInv` |
| | `LinkTypeCorrect` | `Spec => []LinkTypeOK` |
| | `LinkLeavesNothing` | `Spec => []NothingLeftBehind` |
| | `PongNeverFires` | `Spec => []PongNeverLate` |
| `MessagesProofs` | `MessagesInvariant` | `Spec => []MessagesInv` |
| | `MessagesTypeCorrect` | `Spec => []MessagesTypeOK` |
| | `StoredOnce` | `Spec => []ReceivedOnce` |
| | `ThreadRestored` | `Spec => []MessageRestoresThread` |
| | `OneSubmission` | `Spec => []OneSendAtATime` |
| | `PendingHasSender` | `Spec => []PendingIsWorkedOn` |
| `ProvidersProofs` | `ProvidersInvariant` | `Spec => []ProvidersInv` |
| | `ProvidersTypeCorrect` | `Spec => []ProvidersTypeOK` |
| | `EntriesMatch` | `Spec => []InstancesMatchEntries` |
| | `ColorsKept` | `Spec => []ColorsDistinct` |
| | `DefaultCallable` | `Spec => []DefaultRoutes` |
| `CallHistoryProofs` | `HistoryTypeCorrect` | `Spec => []HistoryTypeOK` |
| | `ListsEachOnce` | `Spec => []ListedOnce` |
| | `CapHolds` | `Spec => []CapKept` |
| | `ListCurrent` | `Spec => []ListIsCurrent` |
| `InboundSmsProofs` | `SmsInvariant` | `Spec => []SmsInv` |
| | `SmsRefinesService` | `Spec => ImplementsService` |
| | `NothingIsLost` | `Reliable => (Spec => []NothingLost)` |

### The orchestrator and its tables

The inductive invariant is `IInv == TypeOK /\ MapInv /\ AnswerInv`.

`MapInv` explains the maps. `NoDanglingId` alone is not inductive: `endCall` removes the
entry under `providerCallId[c]`, and `TrackOutbound` adds one, so one must know that a call
not yet tracked is in no map (`NotYetTracked`), that a tracked call has a provider id
(`HasProviderCall`) that it got exactly once (`NoIdYet`), and that a tracked call which
alone has its id is mapped under it (`MappedIfAlone`).

`AnswerInv` explains the claim. A call that has not reached the maps is unclaimed
(`UnclaimedEarly`), a pending request and a told device each imply the claim with their
device (`PendingHolds`, `ToldHolds`; the three are `ClaimInv`), and a claimed inbound call has
one of the two (`ClaimHeld`). The first three survive a failing answer because `answerCall` admits a
request only when the claim is free, so the failing request was the only one. `OneWinner` and
`ClaimAccounted` follow from these without further induction.

The media sessions are explained, in the same module, by `SessionInv`: a destroy request is made for
ended calls only (`DestroyedAreEnded`), a setup that has passed createSession has its session
(`SetupHasSession`), and with these `SessionsOwned` and `SessionKept`. That a destroy
request takes no session of a tracked call uses `MapInv`: an ended call is not tracked
and not being set up. `NoteInv` says of the notifications that none is created before
`handleInbound` has its numbers, which with `RegisteredIdResolves` is inductive.

The refinement, in the same module, shows that every step of the orchestrator is a step of `CallLifecycle` or
changes nothing of it. Which step it is needs the invariants: `Track` opens a call only because a
call still in its setup is neither tracked nor over (`NotYetTracked`); a confirmation after an
await grants the call to the device that asked only because the pending request still
holds the claim (`PendingHolds`); an outbound call that is answered at the far end is
claimed for a real device because the device that placed it is never forgotten (`CallerKnown`,
added for it, which needs that requests are pending for inbound calls only).

`CallRecordsProofs` is about the orchestrator with its tables. `OpenOnlyThisRun` says that nothing
waits for a call of an earlier run, and is strengthened to `RecordsInv`: such a call is not tracked and
its setup is over, its row is resolved or absent, no insert of its row is still to run and
no notification of it is being created (`PastIsOver`); a notification exists only for a call
whose wake signals were sent (`NoNoteYet`); a write that marks an answer has a winner to
name (`AnswerHasWinner`). That a running server leaves the calls of its predecessor alone is
`Settled`: what any handler may do to a call whose setup has failed.

`AnsweredNotMissed` is about two writes that were issued at different times and may run in
either order, so `DecidedInv` says where they were issued. `endCall` asks for a missed or declined
row only of a call that is not tracked any more, not in its setup and without a pending request
(`Gone`), and only if it is unclaimed; as nothing confirms an answer to a call that is gone, no write
that marks an answer was or will be issued for it (`MissIsFinal`). A row that does say missed
or declined therefore names no device, and no write is left that could add one (`MissedUnanswered`).
That a pending request holds the claim is what makes an unclaimed call free of requests, so
`ClaimInv` is needed; `ClaimHeld` is not, and does not survive a restart, which
forgets the pending request that holds a claim. Writes find their row by provider id (`WritesHaveCall`, `OwnProviderCall`), and
two calls that share one, as after a retried webhook, share their writes: the property excepts
them, and so do `MissedUnanswered` and the lemma `OnlyItsRow`. A row that the listener's fallback has
edited (`legacyEnd` in `ran`) is excepted as well, whatever provider carried the call; a restart takes
every issued write for run, which is why `DecidedInv` says that only issued writes have run.

### A tab in a call

The controller's methods are functions from a tab to a tab, so `WebInv` is mostly a predicate
on tabs, `TabInv`, that every method preserves; the actions follow from the methods they apply.
The four properties together are not inductive. `Bound` adds that the current client has its state
changes delivered and a call of its own, `ShownBusy` that a client whose phase does not show
it still waits for the microphone (that is where two runs of `placeCall` and `answer` overlap),
and `AttemptsHaveCalls` that an attempt past `makeCall` has its call.
`enforceSessionVisibility` is what makes `setPhase` keep them.

### The gateway link

`NothingLeftBehind` speaks of a state without sockets, and so cannot be inductive. `ClosePending`
says what leads there: as long as the provider holds a request or offers the number, and as
long as the handler has a socket, some socket whose handler still listens has a close event to
come, since `handleDisconnect` runs on each. The late close event of a replaced socket is covered, as it
clears too much rather than too little. `PongNeverLate` states the observation about the ping as
a theorem: no order of pings, pongs and closes makes that timer fire.

### Messages

`MessagesInv` has four parts. `RowsInv` is `PendingIsWorkedOn` and that no message, received or sent,
has two rows; a send is tied to its PENDING row (`Tied`) from the insert until the status is written, and for
good if it ended before that (`left`). `FreshInv`
says where a delivery stands whose upsert no removal has followed: its conversation is shown,
is about to be un-removed by the update it decided on, or is to be inserted and not there yet;
without the last two the property would not survive the await between the select and the
write. `SendInv` ties the composer to the server: there is at most one send asked for (`Asked`) or
answered and not yet seen (`Settled`), never both, and the composer is disabled meanwhile; and the
server works on no message that was not asked for (every other send is `Over`), so a late answer is always
that of the current submission.

### The registry and the numbers

`OrderInv` says, for a provider without an overlap (`clash`), what each operation has done at each of
its awaits (`Phase`): between `stop` and `start` nothing of the provider runs, at `start`
exactly the instance the operation holds, after it exactly the entry's. At rest (`Resting`) that is
`InstancesMatchEntries`. `Owned` is what remains true under overlaps as well: an instance that an
entry or an operation refers to is an instance of that provider, so a `stop` never hits another
provider's. `RefersInv` is the foreign key: a removal sets the owner of the numbers that refer to the
provider to none when its row goes, also of those a sync has taken over since they were orphaned, and a
sync takes a number over only while the row is there. A removal whose delete rejects leaves an active entry
with a stopped instance and counts as a `clash` too. `SnapInv` and `ColorInv` are about a sync: the rows of its snapshot are still rows,
and unless changes overlap the snapshot is the table itself, so that `ChosenDistinct`, the lemma
about `chooseColor` and `reclaimColor`, applies to the table: while a color is free, the color chosen
is one that no other number is left with. `DefaultRoutes` follows from `RefersInv` and `OrderInv` together.

### The call history

The queries sort and count, so the proofs begin with ranks: in a finite set of numbers each has as many
below it (`Older`) or above it (`Newer`) as its place says, and every place is taken (`PlacesTaken`, by
counting). From these follow what a page contains (`PageCovers`) and which rows the oldest are
(`OldestAreOld`). `ListedOnce` needs only that an answer under way has no row twice
(`AnswersOnce`), and `Appended` and `Received` then keep the list so, whatever it is by now.

`CapInv` follows a recording through its queries. While the table is above the cap, some recording is
still to count it, or has counted so much that what it is to delete suffices (`ExcessHandled`), unless nobody
has counted since the start or since a recording threw (`lapsed`): rows
inserted after its count are counted by their own recording, and two that select the same rows
delete them once. A late delete takes what was oldest, so nothing older than its rows outlives them
(`OldestGo`); and a recording that runs alone takes nothing of the newest `Cap` (`NewestStay`).

`CurrentInv` is about the page. Nothing changes while a request is outstanding, so its answer is a page
of the table as it is (`RequestsFresh`). The list says of a row, if it is the only one of its call (`Alone`), what
the table does or what an update still to be broadcast will (`Typed`), has the rows its pages loaded except those still to be broadcast
(`Loaded`), and knows no row to come (`ShownKnown`, by which a new row takes no other's place).
Deletes keep `Loaded` because the oldest go: no row moves up into what counts as loaded. All of
this is under the condition that the page listens (`Listening`): its socket is not down and it awaits no answer
that replaces the list; a refresh establishes it anew. Between the opening of the socket and its registration
nothing must be broadcast, which `raced` records.

### The SMS path

`SmsInv` holds under every fault. It says of each part of the path that what it holds has come from
the part before it: slots, readers, the reassembler and its store hold only parts that have arrived;
the inbox, the pump, the messages under way and the server's rows only messages of which every part has
(`Received`); and of the deliveries of one message to the server at most one is past the
insert, the one that made the row (`HandlingInv`). That is all the refinement needs: a row is
inserted only by a delivery that finds none, and announced only by the delivery that inserted it.

`NothingLost` is proved from `CustodyInv`, under `Reliable`: of the faults only `stale`, and room in the
buffers for every part. The run `sms_custody` has the same conditions, and as said there the property
fails without them; crashes, lost connections and server restarts stay, at every step and in any
number. In `CustodyInv` each buffer's file holds what the memory of a running gateway holds, each
entry once (`Kept`); while a reader works on a part its slot holds that part or nothing, and before
it deletes the slot the part is stored elsewhere (`HoldsSlot`), which a `+CMTI` handler and a drain on
the same slot keep for each other because a slot is not used again meanwhile; the drain looks at
memory `SM` until it turns to the others (`DrainSelects`); acknowledgements reach a gateway
that runs (`LinkInv`). Most steps are then settled by `Carried`, that what is stored stays stored. An
acknowledged message may leave the buffer because its row is there (`acks` in `SmsInv`), and parts
leave the part store after their message is in the inbox or has gone stale. That a buffer
without some entries holds the others in their order is proved, like the pages of the call
history, by ranks (`WithoutKeeps`).

### How the proofs are laid out

Each invariant has one lemma per group of actions (`*Types`, `*Maps`, `*Answers`,
`Sessions*`, `Notes*`, `Caller*`, `Settled*`, `Decides*`, `Decided*`, `Records*`, `*Implements`; `*Tab` and `*Step` for the methods and
the actions of the tab, `*Keeps` for the link; `*Type`, `*Order` and `*Numbers` for the
registry; `*List`, `Cap*` and `Current*` for the call history; `*Step` and
`*Custody` for the SMS path), a lemma for each helper on functions that several steps use, and frame lemmas for
what an action does not touch; the theorems combine them with `PTL`.

**Only model-checked.** Liveness (`EveryCallEnds`, `SessionsReclaimed`, and that of the SMS path, the
tab, the gateway link and the browser's sessions), which rests on fairness and is beyond the
prover. `Sessions` therefore has no theorem, as it states liveness only. Every invariant and every
other action property or refinement that a passing run checks is stated by a theorem.

## Not modelled

* **MediaBridge beyond its control API**: starting and stopping a media session, SIP dialogs,
  WebRTC negotiation, audio sockets and sample pipelines (`mediasession`, `sip`, `webrtc`, `audiows`,
  `bridge`). The orchestrator sees sessions and three events, which may come in any order.
  That a slot is reserved before the media session is started, so that a stop may come in
  between (`main.go:177`), is listed as a hazard without a property.
* **Failure detector**: when its counters reach the limit. `endAllCalls` may run at any moment.
* **Gateway**: its own call manager, the sending of SMS, USSD, the modem driver with its AT state
  machine, registration and audio, the orderly shutdown. Their failures are the free events of
  the SMS path and the gateway link. The PDU and GSM 7-bit codecs are bit-level functions
  without state.
* **Android client**: its call state machine and caches. Its requests are inputs of the server's
  handlers, where they interleave with everything else.
* **Web client**: routing, the list of notifications, the dashboard, and what the simplifications name.
* **Server**: configuration, encryption, packaging, migrations, validators and formatters, which are
  start-up code or pure functions; the sync route; badge counts; SMS notifications; the call
  router, which is not wired into the running server.

Worth doing next: the start and stop of media sessions inside the MediaBridge against the control API
as `CallOrchestrator` uses it; and the gateway's call manager composed with `GatewayLink`.
