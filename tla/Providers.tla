------------------------------- MODULE Providers ------------------------------
(***************************************************************************)
(* ProviderRegistry and NumberManagementService: the providers and numbers *)
(* tables, the registry's map of entries, the running provider instances,  *)
(* and the routes and pages that change them.                              *)
(*                                                                         *)
(* addProvider, updateProvider, removeProvider and syncNumbers are         *)
(* operations with awaits in between; op[o].at is the await operation o    *)
(* has reached.  They hold the entry object itself, so they go on with it  *)
(* when it has left the map.  The pages serialise nothing: two browsers,   *)
(* or two clicks on Enable, run two operations on one provider.            *)
(***************************************************************************)
EXTENDS Naturals, FiniteSets

CONSTANTS
    Ids,      \* provider ids; an id is added once
    Numbers,  \* numbers of the providers' accounts
    Colors,   \* NUMBER_COLOR_PALETTE
    Insts,    \* provider instances that may run at a time
    Ops,      \* operations that may run at a time
    MaxOps,   \* bound on operations started
    MaxEvents,\* bound on restarts, polls, changed accounts, (de)activations and failed deletes
    None      \* no instance, no provider, no color

\* A row of numbers: a provider or none, a color or none.
NumberRow == [owner : Ids \cup {None}, active : BOOLEAN, color : Colors \cup {None}]

ASSUME ProvidersAssumption == None \notin Ids \cup Insts \cup Colors \cup NumberRow

VARIABLES
    row,      \* the providers table
    entry,    \* the entry object of each provider; an update holds on to it
    inMap,    \* providers the registry's map holds
    good,     \* per running instance: whether its credentials are accepted
    num,      \* the numbers table: owner, is_active, color
    default,  \* the default_number setting
    offers,   \* the numbers in each provider's account
    op,       \* the operations
    checks,   \* health checks under way
    clash,    \* providers of which two operations overlapped, or a removal failed half-way
    excused,  \* changes of numbers have overlapped, or the palette was used up
    started, events

vars == <<row, entry, inMap, good, num, default, offers, op, checks, clash, excused, started, events>>

Live == DOMAIN good

Idle == [kind |-> "none"]
NoEntry == [enabled |-> TRUE, cred |-> TRUE, inst |-> None, status |-> "unavailable", health |-> "ok"]

\* loadAll(): instances of the providers of up, each started.
Loads(up) == {f \in [up -> Insts] : \A p, q \in up : f[p] = f[q] => p = q}
Loaded(f, e) == [i \in {f[p] : p \in DOMAIN f} |->
                   LET p == CHOOSE q \in DOMAIN f : f[q] = i IN [id |-> p, ok |-> e[p].cred]]
Entries(f, e) == [p \in Ids |-> IF p \in DOMAIN f
                    THEN [e[p] EXCEPT !.enabled = TRUE, !.inst = f[p],
                                      !.status = "active", !.health = "ok"]
                    ELSE [e[p] EXCEPT !.inst = None]]

\* The server has loaded the providers it finds; no number is synced yet.
Init ==
    \E up \in SUBSET Ids : \E f \in Loads(up) :
    LET fresh == [p \in Ids |-> NoEntry] IN
    /\ row = [p \in Ids |-> IF p \in up THEN "enabled" ELSE "none"]
    /\ entry = Entries(f, fresh)
    /\ inMap = up
    /\ good = Loaded(f, fresh)
    /\ num = [n \in Numbers |-> None]
    /\ default = None
    /\ offers \in [Ids -> SUBSET Numbers]
    /\ op = [o \in Ops |-> Idle]
    /\ checks = {} /\ clash = {} /\ excused = FALSE
    /\ started = 0 /\ events = 0

-----------------------------------------------------------------------------
(* Operations                                                              *)

OpsOn(p) == {o \in Ops : op[o].kind \in {"add", "update", "remove"} /\ op[o].id = p}
Syncs == {o \in Ops : op[o].kind = "sync"}

\* Two operations write a provider's entry; a sync does not.
Clashes(a, b) == a.kind # "none" /\ a.id = b.id /\ "sync" \notin {a.kind, b.kind}

\* An operation starts in a free slot; it clashes with one on the same provider.
Begin(o, r) ==
    /\ op[o] = Idle /\ started < MaxOps
    /\ started' = started + 1
    /\ op' = [op EXCEPT ![o] = r]
    /\ clash' = IF \E q \in Ops : Clashes(op[q], r) THEN clash \cup {r.id} ELSE clash

\* Instances nothing refers to.
Spare == Insts \ (Live \cup {entry[p].inst : p \in {q \in Ids : q \in inMap \/ OpsOn(q) # {}}}
                       \cup {op[o].inst : o \in {x \in Ops : op[x].kind \in {"add", "update"}}})

Ends(o) == op' = [op EXCEPT ![o] = Idle]

With(f, i, v) == [j \in DOMAIN f \cup {i} |-> IF j = i THEN v ELSE f[j]]
Without(f, i) == [j \in DOMAIN f \ {i} |-> f[j]]

\* POST /api/providers: addProvider
Add(o, p) ==
    /\ row[p] = "none" /\ entry[p] = NoEntry /\ OpsOn(p) = {} /\ p \notin inMap
    /\ Begin(o, [kind |-> "add", id |-> p, at |-> "insert", inst |-> None])
    /\ UNCHANGED <<row, entry, inMap, good, num, default, offers, checks, excused, events>>

\* The row is written; the factory makes an instance and its start is awaited.
AddInsert(o) ==
    /\ op[o].kind = "add" /\ op[o].at = "insert"
    /\ row' = [row EXCEPT ![op[o].id] = "enabled"]
    /\ \E i \in Spare, ok \in BOOLEAN :
          /\ good' = With(good, i, [id |-> op[o].id, ok |-> ok])
          /\ entry' = [entry EXCEPT ![op[o].id].cred = ok]
          /\ op' = [op EXCEPT ![o].at = "start", ![o].inst = i]
    /\ UNCHANGED <<inMap, num, default, offers, checks, clash, excused, started, events>>

\* The start settles, and only then does the entry enter the map.
AddStarted(o) ==
    LET p == op[o].id IN
    /\ op[o].kind = "add" /\ op[o].at = "start"
    /\ inMap' = inMap \cup {p}
    /\ \/ /\ entry' = [entry EXCEPT ![p].inst = op[o].inst, ![p].status = "active"]
          /\ op' = [op EXCEPT ![o].at = "check"]
          /\ UNCHANGED good
       \/ /\ good' = Without(good, op[o].inst)
          /\ Ends(o)
          /\ UNCHANGED entry
    /\ UNCHANGED <<row, num, default, offers, checks, clash, excused, started, events>>

\* What the edit form and the Enable button send: only what differs.
Changes(p) == {c \in [cred : BOOLEAN, enabled : BOOLEAN] :
                  c # [cred |-> entry[p].cred, enabled |-> entry[p].enabled]}

\* PUT /api/providers/:id
Update(o, p, c) ==
    /\ p \in inMap
    /\ Begin(o, [kind |-> "update", id |-> p, at |-> "write",
                 cred |-> c.cred, enabled |-> c.enabled, inst |-> None])
    /\ UNCHANGED <<row, entry, inMap, good, num, default, offers, checks, excused, events>>

\* Fault: an instance is only stopped when the provider is disabled.
StopIfDisabled(e) == IF e.enabled \/ e.inst = None THEN good ELSE Without(good, e.inst)

\* stop() of the entry's instance, if it runs.
Stop(e) == IF e.inst \in Live THEN Without(good, e.inst) ELSE good

\* The row is written, then the entry; health is cleared and stop() called.
UpdateWrite(o) ==
    LET u == op[o]  p == u.id
        e == [entry[p] EXCEPT !.cred = u.cred, !.enabled = u.enabled, !.health = "ok"] IN
    /\ u.kind = "update" /\ u.at = "write"
    /\ row' = [row EXCEPT ![p] = IF @ = "none" THEN @
                                 ELSE IF u.enabled THEN "enabled" ELSE "disabled"]
    /\ entry' = [entry EXCEPT ![p] = e]
    /\ good' = Stop(e)
    /\ op' = [op EXCEPT ![o] = [kind |-> "update", id |-> p, at |-> "stop", inst |-> None]]
    /\ UNCHANGED <<inMap, num, default, offers, checks, clash, excused, started, events>>

\* The entry lets go of whatever instance it now has; a new one is started.
UpdateStopped(o) ==
    LET u == op[o]  p == u.id IN
    /\ u.kind = "update" /\ u.at = "stop"
    /\ IF entry[p].enabled
       THEN /\ \E i \in Spare :
                  /\ good' = With(good, i, [id |-> p, ok |-> entry[p].cred])
                  /\ op' = [op EXCEPT ![o].at = "start", ![o].inst = i]
            /\ entry' = [entry EXCEPT ![p].inst = None]
       ELSE /\ entry' = [entry EXCEPT ![p].inst = None, ![p].status = "disabled"]
            /\ Ends(o)
            /\ UNCHANGED good
    /\ UNCHANGED <<row, inMap, num, default, offers, checks, clash, excused, started, events>>

UpdateStarted(o) ==
    LET u == op[o]  p == u.id IN
    /\ u.kind = "update" /\ u.at = "start"
    /\ \/ /\ entry' = [entry EXCEPT ![p].inst = u.inst, ![p].status = "active"]
          /\ op' = [op EXCEPT ![o].at = "check"]
          /\ UNCHANGED good
       \/ /\ entry' = [entry EXCEPT ![p].status = "unavailable"]
          /\ good' = Without(good, u.inst)
          /\ Ends(o)
    /\ UNCHANGED <<row, inMap, num, default, offers, checks, clash, excused, started, events>>

\* What a probe leaves as the health, of which only a failure to authenticate matters.
Verdict(ok) == IF ok THEN "ok" ELSE "auth"

\* The health check both operations await at their end; the instance probed is
\* the one the map's entry has when it begins.
ProbeNew(o) ==
    LET p == op[o].id IN
    /\ op[o].kind \in {"add", "update"} /\ op[o].at = "check"
    /\ Ends(o)
    /\ entry' = IF p \in inMap /\ entry[p].inst \in Live
                THEN [entry EXCEPT ![p].health = Verdict(good[entry[p].inst].ok)]
                ELSE entry
    /\ UNCHANGED <<row, inMap, good, num, default, offers, checks, clash, excused, started, events>>

\* DELETE /api/providers/:id: removeProvider
Remove(o, p) ==
    /\ p \in inMap
    /\ Begin(o, [kind |-> "remove", id |-> p, at |-> "orphan"])
    /\ UNCHANGED <<row, entry, inMap, good, num, default, offers, checks, excused, events>>

Overlaps == excused \/ Syncs # {}

\* The numbers are detached first, then the instance is stopped.
RemoveOrphan(o) ==
    LET p == op[o].id IN
    /\ op[o].kind = "remove" /\ op[o].at = "orphan"
    /\ num' = [n \in Numbers |->
                 IF num[n] # None /\ num[n].owner = p
                 THEN [num[n] EXCEPT !.owner = None, !.active = FALSE] ELSE num[n]]
    /\ good' = Stop(entry[p])
    /\ op' = [op EXCEPT ![o].at = "delete"]
    /\ excused' = Overlaps
    /\ UNCHANGED <<row, entry, inMap, default, offers, checks, clash, started, events>>

\* The row goes, and the entry.  The key of numbers is ON DELETE SET NULL: a number
\* that refers to the provider again loses it, and stays active.
RemoveDelete(o) ==
    LET p == op[o].id IN
    /\ op[o].kind = "remove" /\ op[o].at = "delete"
    /\ num' = [n \in Numbers |-> IF num[n] # None /\ num[n].owner = p
                                 THEN [num[n] EXCEPT !.owner = None] ELSE num[n]]
    /\ row' = [row EXCEPT ![p] = "none"] /\ inMap' = inMap \ {p}
    /\ Ends(o)
    /\ excused' = (excused \/ (num' # num /\ Syncs # {}))
    /\ UNCHANGED <<entry, good, default, offers, checks, clash, started, events>>

Event == events < MaxEvents /\ events' = events + 1

\* The delete rejects: the provider stays, its instance stopped and its entry as it was.
RemoveRejects(o) ==
    /\ Event
    /\ op[o].kind = "remove" /\ op[o].at = "delete"
    /\ clash' = clash \cup {op[o].id}
    /\ Ends(o)
    /\ UNCHANGED <<row, entry, inMap, good, num, default, offers, checks, excused, started>>

-----------------------------------------------------------------------------
(* Health polling                                                          *)

\* checkAllHealth() skips what failed to authenticate.
Poll(p) ==
    /\ Event
    /\ p \in inMap /\ entry[p].enabled /\ entry[p].inst \in Live /\ entry[p].health # "auth"
    /\ checks = {}
    /\ checks' = {[id |-> p, ok |-> good[entry[p].inst].ok]}
    /\ UNCHANGED <<row, entry, inMap, good, num, default, offers, op, clash, excused, started>>

\* The answer is written to the entry, whatever instance it has by now.
PollAnswer ==
    /\ \E c \in checks : entry' = [entry EXCEPT ![c.id].health = Verdict(c.ok)]
    /\ checks' = {}
    /\ UNCHANGED <<row, inMap, good, num, default, offers, op, clash, excused, started, events>>

-----------------------------------------------------------------------------
(* Numbers                                                                 *)

\* POST /api/numbers/sync, or the sync that follows an activation.
Sync(o, p) ==
    /\ p \in inMap /\ entry[p].inst # None
    /\ Begin(o, [kind |-> "sync", id |-> p, at |-> "list", list |-> {},
                 snap |-> [n \in Numbers |-> None], todo |-> {}])
    /\ excused' = Overlaps
    /\ UNCHANGED <<row, entry, inMap, good, num, default, offers, checks, events>>

Mine(tab, p) == {n \in Numbers : tab[n] # None /\ tab[n].owner = p}

\* listNumbers() answers; this provider's rows and the colors in use are read.
\* The sync decides by this snapshot, which it keeps up to date with its own
\* writes only.
SyncList(o) ==
    LET p == op[o].id IN
    /\ op[o].kind = "sync" /\ op[o].at = "list"
    /\ op' = [op EXCEPT ![o].at = "apply", ![o].list = offers[p], ![o].snap = num,
                        ![o].todo = offers[p] \cup {n \in Mine(num, p) : num[n].active}]
    /\ UNCHANGED <<row, entry, inMap, good, num, default, offers, checks, clash, excused, started, events>>

Holders(tab, c, active) == {n \in Numbers : tab[n] # None /\ tab[n].color = c /\ tab[n].active = active}
Free(tab) == {c \in Colors : Holders(tab, c, TRUE) = {}}
Unused(tab) == {c \in Free(tab) : Holders(tab, c, FALSE) = {}}

\* Fault: a color held by inactive numbers is handed out without reclaiming it.
ChooseColorHeld(tab, existing) ==
    IF existing \in Free(tab) THEN [color : {existing}, reclaim : {FALSE}]
    ELSE IF Free(tab) # {} THEN [color : Free(tab), reclaim : {FALSE}]
    ELSE [color : Colors, reclaim : {FALSE}]

\* chooseColor(): the number's own, one nobody has, one of an inactive number,
\* and with the palette used up any (the code takes the least used one).
ChooseColor(tab, existing) ==
    IF existing \in Free(tab) THEN [color : {existing}, reclaim : {FALSE}]
    ELSE IF Unused(tab) # {} THEN [color : Unused(tab), reclaim : {FALSE}]
    ELSE IF Free(tab) # {} THEN [color : Free(tab), reclaim : {TRUE}]
    ELSE [color : Colors, reclaim : {FALSE}]

\* reclaimColor(): one inactive holder loses the color.
Reclaimed(tab, choice) ==
    LET holders == IF choice.reclaim THEN Holders(tab, choice.color, FALSE) ELSE {}
    IN  IF holders = {} THEN {tab} ELSE {[tab EXCEPT ![h].color = None] : h \in holders}

\* A number the provider offers: left alone when active under it, activated
\* again, or inserted or taken over; the database refuses the last when the
\* provider is gone, and the sync fails.
SyncNumber(o, n) ==
    LET s == op[o]  p == s.id
        known == n \in Mine(s.snap, p)
        mine == IF known THEN s.snap[n].color ELSE None IN
    /\ s.kind = "sync" /\ s.at = "apply" /\ n \in s.todo \cap s.list
    /\ IF known /\ s.snap[n].active
       THEN op' = [op EXCEPT ![o].todo = @ \ {n}] /\ UNCHANGED <<num, excused>>
       ELSE IF ~known /\ row[p] = "none"
       THEN Ends(o) /\ UNCHANGED <<num, excused>>
       ELSE \E choice \in ChooseColor(s.snap, mine) :
              \E tab \in Reclaimed(num, choice) :
                 LET r == [owner |-> IF known THEN tab[n].owner ELSE p,
                           active |-> TRUE, color |-> choice.color] IN
                 /\ num' = [tab EXCEPT ![n] = r]
                 /\ \E snap \in Reclaimed(s.snap, choice) :
                       op' = [op EXCEPT ![o].todo = @ \ {n}, ![o].snap = [snap EXCEPT ![n] = r]]
                 /\ excused' = (excused \/ Free(s.snap) = {})
    /\ UNCHANGED <<row, entry, inMap, good, default, offers, checks, clash, started, events>>

\* A number no longer offered is orphaned, after the offered ones.
SyncOrphan(o, n) ==
    LET s == op[o] IN
    /\ s.kind = "sync" /\ s.at = "apply" /\ s.todo \cap s.list = {} /\ n \in s.todo
    /\ num' = [num EXCEPT ![n].active = FALSE, ![n].owner = None]
    /\ op' = [op EXCEPT ![o].todo = @ \ {n}]
    /\ UNCHANGED <<row, entry, inMap, good, default, offers, checks, clash, excused, started, events>>

SyncDone(o) ==
    /\ op[o].kind = "sync" /\ op[o].at = "apply" /\ op[o].todo = {}
    /\ Ends(o)
    /\ UNCHANGED <<row, entry, inMap, good, num, default, offers, checks, clash, excused, started, events>>

-----------------------------------------------------------------------------
(* Numbers in use and the default number                                   *)

\* setActive(), whatever became of the number's provider.
Activated(n, active) == [num EXCEPT ![n].active = active]

\* PUT /api/numbers/:number/active
SetActive(n, active) ==
    /\ Event
    /\ num[n] # None /\ num[n].active # active
    /\ num' = Activated(n, active)
    /\ excused' = Overlaps
    /\ UNCHANGED <<row, entry, inMap, good, default, offers, op, checks, clash, started>>

\* setDefaultNumber(): an active number, or none.
MayDefault == {None} \cup {n \in Numbers : num[n] # None /\ num[n].active}

\* PUT /api/numbers/default
SetDefault(n) ==
    /\ n \in MayDefault \ {default}
    /\ default' = n
    /\ UNCHANGED <<row, entry, inMap, good, num, offers, op, checks, clash, excused, started, events>>

\* Fault: orphaned numbers are read with the others.
InUseLeft == {n \in Numbers : num[n] # None /\ num[n].active}

\* getNumbers(): active numbers that still have their provider.
InUse == {n \in Numbers : num[n] # None /\ num[n].active /\ num[n].owner # None}

\* What getDefaultNumber() may answer: the setting while it is in use, otherwise
\* the one used last or added first, which the model does not tell apart.
DefaultNumber == IF default \in InUse THEN {default} ELSE InUse

\* requireProviderForNumber(): "entry", "unavailable" or an error.
ProviderFor(n) ==
    LET p == num[n].owner IN
    IF p \notin inMap THEN "error"
    ELSE IF entry[p].status # "active" \/ entry[p].inst = None THEN "unavailable"
    ELSE "entry"

\* The account at the provider gains or loses a number.
AccountChanges(p, n) ==
    /\ Event
    /\ offers' = [offers EXCEPT ![p] = IF n \in @ THEN @ \ {n} ELSE @ \cup {n}]
    /\ UNCHANGED <<row, entry, inMap, good, num, default, op, checks, clash, excused, started>>

\* loadAll() starts the enabled providers; a disabled one gets no entry.
Restart ==
    LET up == {p \in Ids : row[p] = "enabled"} IN
    /\ Event
    /\ \E f \in Loads(up) : good' = Loaded(f, entry) /\ entry' = Entries(f, entry)
    /\ inMap' = up
    /\ op' = [o \in Ops |-> Idle]
    /\ checks' = {} /\ clash' = {}
    /\ UNCHANGED <<row, num, default, offers, excused, started>>

OpStep(o) ==
    \/ AddInsert(o) \/ AddStarted(o)
    \/ UpdateWrite(o) \/ UpdateStopped(o) \/ UpdateStarted(o) \/ ProbeNew(o)
    \/ RemoveOrphan(o) \/ RemoveDelete(o) \/ RemoveRejects(o)
    \/ SyncList(o) \/ SyncDone(o)
    \/ \E n \in Numbers : SyncNumber(o, n) \/ SyncOrphan(o, n)

AddForm(o, p) == Add(o, p)
EditForm(o, p) == \E c \in Changes(p) : Update(o, p, c)
OpBegins(o, p) == AddForm(o, p) \/ EditForm(o, p) \/ Remove(o, p) \/ Sync(o, p)

StatusEdit == \E n \in Numbers, active \in BOOLEAN : SetActive(n, active)
DefaultEdit == \E n \in Numbers \cup {None} : SetDefault(n)

Next ==
    \/ \E o \in Ops : OpStep(o) \/ \E p \in Ids : OpBegins(o, p)
    \/ \E p \in Ids : Poll(p)
    \/ PollAnswer
    \/ StatusEdit \/ DefaultEdit
    \/ \E p \in Ids, n \in Numbers : AccountChanges(p, n)
    \/ Restart

Spec == Init /\ [][Next]_vars

-----------------------------------------------------------------------------
\* Instances and entries agree: once no operation is under way on a provider,
\* its entry is active exactly when its instance runs, and no other instance of
\* it runs, listening for calls and messages, unless two operations on it
\* overlapped or the delete of its removal failed, which leaves it active and stopped.
InstancesMatchEntries ==
    \A p \in Ids \ clash :
        OpsOn(p) = {} =>
            /\ p \in inMap => (entry[p].status = "active" <=> entry[p].inst \in Live)
            /\ \A i \in Live : good[i].id = p => p \in inMap /\ entry[p].inst = i

\* Numbers in use are told apart by their colors, through orphaning, taking
\* over, reclaiming and activation by hand, unless the palette was used up or
\* changes overlapped.
ColorsDistinct ==
    ~excused =>
        \A m, n \in Numbers :
            (/\ m # n /\ num[m] # None /\ num[n] # None
             /\ num[m].active /\ num[n].active /\ num[m].color # None)
            => num[m].color # num[n].color

\* The number offered as the default can be called from: its provider is found
\* and its instance runs, through deactivations, orphaning, removals and syncs
\* in any order, unless the provider is disabled, failed to start, is just being
\* changed, or one of the cases of InstancesMatchEntries.
DefaultRoutes ==
    \A n \in DefaultNumber : \E p \in Ids :
        /\ num[n].owner = p
        /\ (/\ row[p] # "disabled" /\ p \notin clash /\ OpsOn(p) = {}
            /\ p \in inMap => entry[p].status = "active")
           => ProviderFor(n) = "entry" /\ entry[p].inst \in Live
===============================================================================
