----------------------------- MODULE ProvidersProofs -----------------------------
(***************************************************************************)
(* Machine-checked proofs about Providers: entries and running instances   *)
(* agree, numbers in use have colors of their own, and the number offered  *)
(* as the default can be called from.                                      *)
(***************************************************************************)
EXTENDS Providers, TLAPS

Entry == [enabled : BOOLEAN, cred : BOOLEAN, inst : Insts \cup {None},
          status : {"active", "unavailable", "disabled"}, health : {"ok", "auth"}]
Instance == [id : Ids, ok : BOOLEAN]
Table == [Numbers -> NumberRow \cup {None}]

\* The operations, by kind; an update has its changes until it has written them.
AddOp == [kind : {"add"}, id : Ids, at : {"insert", "start", "check"}, inst : Insts \cup {None}]
EditOp == [kind : {"update"}, id : Ids, at : {"write"}, cred : BOOLEAN, enabled : BOOLEAN,
           inst : {None}]
ChangeOp == [kind : {"update"}, id : Ids, at : {"stop", "start", "check"}, inst : Insts \cup {None}]
RemoveOp == [kind : {"remove"}, id : Ids, at : {"orphan", "delete"}]
SyncOp == [kind : {"sync"}, id : Ids, at : {"list", "apply"}, list : SUBSET Numbers,
           snap : Table, todo : SUBSET Numbers]
Operation == {Idle} \cup AddOp \cup EditOp \cup ChangeOp \cup RemoveOp \cup SyncOp

ProvidersTypeOK ==
    /\ row \in [Ids -> {"none", "enabled", "disabled"}]
    /\ entry \in [Ids -> Entry]
    /\ inMap \subseteq Ids
    /\ Live \subseteq Insts /\ good \in [Live -> Instance]
    /\ num \in Table
    /\ offers \in [Ids -> SUBSET Numbers]
    /\ op \in [Ops -> Operation]
    /\ checks \subseteq Instance
    /\ clash \subseteq Ids
    /\ excused \in BOOLEAN

\* The instances of p that run.
Running(p) == {i \in Live : good[i].id = p}

\* A running instance that an entry or an operation refers to is its provider's.
Owned ==
    /\ \A p \in Ids : (p \in inMap \/ OpsOn(p) # {}) /\ entry[p].inst \in Live
                      => entry[p].inst \in Running(p)
    /\ \A o \in Ops : op[o].kind \in {"add", "update"} /\ op[o].inst \in Live
                      => op[o].inst \in Running(op[o].id)

\* What runs of p between its operations, and what awaits its start.
Calm(p) == Running(p) = IF entry[p].status = "active" THEN {entry[p].inst} ELSE {}
Silent(p) == Running(p) = {}
Starting(p, i) == entry[p].inst = None /\ Running(p) = {i}

Resting(p) == IF p \in inMap THEN Calm(p) ELSE Silent(p) /\ row[p] # "enabled"

\* Where an operation r on p is, and what is true of p there.
Phase(p, r) ==
    /\ r.kind \in {"update", "remove"} \/ r.at = "check" => p \in inMap
    /\ r.at \in {"check", "write", "orphan"} => Calm(p)
    /\ r.at \in {"insert", "stop", "delete"} => Silent(p)
    /\ r.at = "start" => Starting(p, r.inst)
    /\ r.kind = "add" /\ r.at # "check" =>
          p \notin inMap /\ entry[p].inst = None /\ entry[p].status # "active"

\* One operation at a time, whatever syncs there are.
Orderly(p) ==
    /\ \A a, b \in OpsOn(p) : a = b
    /\ OpsOn(p) = {} => Resting(p)
    /\ \A o \in OpsOn(p) : Phase(p, op[o])

OrderInv == \A p \in Ids \ clash : Orderly(p)

\* The foreign key of numbers.
RefersInv == \A n \in Numbers : num[n] # None /\ num[n].owner # None => row[num[n].owner] # "none"

\* Rows of numbers are never deleted under a sync.
SnapInv ==
    \A o \in Syncs : \A n \in Numbers :
       op[o].snap[n] # None \/ n \in op[o].todo \ op[o].list => num[n] # None

\* Unless changes overlap, the sync under way decides by what the table holds.
Distinct(tab) ==
    \A m, n \in Numbers :
       m # n /\ tab[m] # None /\ tab[n] # None /\ tab[m].color # None => tab[m].color # tab[n].color

ColorInv ==
    ~excused => /\ Distinct(num)
                /\ \A o, x \in Syncs : o = x
                /\ \A o \in Syncs : op[o].at = "apply" /\ op[o].todo \cap op[o].list # {}
                                    => op[o].snap = num

ProvidersInv == ProvidersTypeOK /\ Owned /\ OrderInv /\ RefersInv /\ SnapInv /\ ColorInv

-----------------------------------------------------------------------------
(* Operations and instances                                                *)

\* What an operation's kind and place say of its record.
LEMMA OpKinds ==
    ASSUME ProvidersTypeOK, NEW o \in Ops
    PROVE  /\ op[o] \in Operation
           /\ op[o].kind = "add" => op[o] \in AddOp
           /\ op[o].kind = "update" => op[o] \in EditOp \cup ChangeOp
           /\ op[o].kind = "update" /\ op[o].at = "write" => op[o] \in EditOp
           /\ op[o].kind = "update" /\ op[o].at # "write" => op[o] \in ChangeOp
           /\ op[o].kind = "remove" => op[o] \in RemoveOp
           /\ op[o].kind = "sync" => op[o] \in SyncOp
           /\ op[o].kind # "none" => op[o].id \in Ids
           /\ op[o].kind \in {"add", "update"} => op[o].inst \in Insts \cup {None}
           /\ op[o].kind = "none" => op[o] = Idle
<1>1. op[o] \in Operation
    BY DEF ProvidersTypeOK
<1> QED BY <1>1 DEF Operation, AddOp, EditOp, ChangeOp, RemoveOp, SyncOp, Idle

\* An instance starts.
LEMMA WithInstance ==
    ASSUME ProvidersTypeOK, NEW i \in Insts, i \notin Live, NEW r \in Instance,
           good' = With(good, i, r)
    PROVE  /\ Live' = Live \cup {i} /\ Live' \subseteq Insts /\ good' \in [Live' -> Instance]
           /\ Running(r.id)' = Running(r.id) \cup {i}
           /\ \A q \in Ids : q # r.id => Running(q)' = Running(q)
<1>1. Live' = Live \cup {i}
    BY DEF With, Live
<1>2. \A j \in Live' : good'[j] = IF j = i THEN r ELSE good[j]
    BY <1>1 DEF With, Live
<1>3. good' = [j \in Live' |-> IF j = i THEN r ELSE good[j]]
    BY DEF With, Live
<1>4. good' \in [Live' -> Instance]
    BY <1>1, <1>3 DEF ProvidersTypeOK
<1>5. \A q \in Ids : Running(q)' = {j \in Live' : good'[j].id = q}
    BY DEF Running
<1>6. r.id \in Ids
    BY DEF Instance
<1>7. \A q \in Ids : q # r.id => Running(q)' = Running(q)
    BY <1>1, <1>2, <1>5 DEF Running
<1>8. Running(r.id)' = Running(r.id) \cup {i}
    BY <1>1, <1>2 DEF Running
<1> QED BY <1>1, <1>4, <1>7, <1>8 DEF ProvidersTypeOK

\* An instance stops.
LEMMA WithoutInstance ==
    ASSUME ProvidersTypeOK, NEW i, NEW p \in Ids, i \in Live => i \in Running(p),
           good' = Without(good, i)
    PROVE  /\ Live' = Live \ {i} /\ Live' \subseteq Insts /\ good' \in [Live' -> Instance]
           /\ Running(p)' = Running(p) \ {i}
           /\ \A q \in Ids : q # p => Running(q)' = Running(q)
<1>1. Live' = Live \ {i}
    BY DEF Without, Live
<1>2. good' = [j \in Live' |-> good[j]]
    BY DEF Without, Live
<1>3. good' \in [Live' -> Instance]
    BY <1>1, <1>2 DEF ProvidersTypeOK
<1>4. \A q \in Ids : Running(q)' = Running(q) \ {i}
    BY <1>1, <1>2 DEF Running
<1>5. \A q \in Ids : q # p => i \notin Running(q)
    BY DEF Running
<1>6. \A q \in Ids : q # p => Running(q)' = Running(q)
    BY <1>4, <1>5
<1>7. Live' \subseteq Insts
    BY <1>1 DEF ProvidersTypeOK
<1> QED BY <1>1, <1>3, <1>4, <1>6, <1>7

\* stop() of an entry's instance.
LEMMA StopInstance ==
    ASSUME ProvidersTypeOK, NEW p \in Ids, entry[p].inst \in Live => entry[p].inst \in Running(p),
           NEW e, e.inst = entry[p].inst, good' = Stop(e)
    PROVE  /\ Live' = Live \ {entry[p].inst} /\ Live' \subseteq Insts /\ good' \in [Live' -> Instance]
           /\ Running(p)' = Running(p) \ {entry[p].inst}
           /\ \A q \in Ids : q # p => Running(q)' = Running(q)
<1>1. CASE e.inst \in Live
    BY <1>1, WithoutInstance DEF Stop
<1>2. CASE e.inst \notin Live
    <2>1. good' = good
        BY <1>2 DEF Stop
    <2> QED BY <1>2, <2>1 DEF Live, Running, ProvidersTypeOK
<1> QED BY <1>1, <1>2

\* A spare instance runs nowhere, and no entry in use and no operation refers to it.
LEMMA SpareInstance ==
    ASSUME NEW i \in Spare
    PROVE  /\ i \in Insts /\ i \notin Live
           /\ \A q \in Ids : q \in inMap \/ OpsOn(q) # {} => entry[q].inst # i
           /\ \A o \in Ops : op[o].kind \in {"add", "update"} => op[o].inst # i
BY DEF Spare

-----------------------------------------------------------------------------
(* Types                                                                   *)

\* An operation's place changes, or it ends.
LEMMA OpType ==
    ASSUME ProvidersTypeOK, NEW o \in Ops, NEW r \in Operation, op' = [op EXCEPT ![o] = r]
    PROVE  op' \in [Ops -> Operation]
BY DEF ProvidersTypeOK

\* An operation begins.
LEMMA BeginType ==
    ASSUME ProvidersTypeOK, NEW o \in Ops, NEW r \in Operation, r.id \in Ids, Begin(o, r)
    PROVE  op' \in [Ops -> Operation] /\ clash' \subseteq Ids
BY DEF ProvidersTypeOK, Begin

\* What the requests start.
LEMMA BeginsType ==
    ASSUME ProvidersTypeOK, NEW o \in Ops, NEW p \in Ids, OpBegins(o, p)
    PROVE  ProvidersTypeOK'
<1>1. CASE AddForm(o, p)
    <2> DEFINE r == [kind |-> "add", id |-> p, at |-> "insert", inst |-> None]
    <2>1. r \in Operation /\ r.id \in Ids
        BY DEF Operation, AddOp
    <2>2. Begin(o, r)
        BY <1>1 DEF AddForm, Add
    <2> HIDE DEF r
    <2>3. op' \in [Ops -> Operation] /\ clash' \subseteq Ids
        BY <2>1, <2>2, BeginType
    <2> QED BY <1>1, <2>3 DEF AddForm, Add, ProvidersTypeOK, Live
<1>2. CASE EditForm(o, p)
    <2>1. PICK c \in Changes(p) : Update(o, p, c)
        BY <1>2 DEF EditForm
    <2> DEFINE r == [kind |-> "update", id |-> p, at |-> "write",
                     cred |-> c.cred, enabled |-> c.enabled, inst |-> None]
    <2>2. r \in Operation /\ r.id \in Ids
        BY DEF Operation, EditOp, Changes
    <2>3. Begin(o, r)
        BY <2>1 DEF Update
    <2> HIDE DEF r
    <2>4. op' \in [Ops -> Operation] /\ clash' \subseteq Ids
        BY <2>2, <2>3, BeginType
    <2> QED BY <2>1, <2>4 DEF Update, ProvidersTypeOK, Live
<1>3. CASE Remove(o, p)
    <2> DEFINE r == [kind |-> "remove", id |-> p, at |-> "orphan"]
    <2>1. r \in Operation /\ r.id \in Ids
        BY DEF Operation, RemoveOp
    <2>2. Begin(o, r)
        BY <1>3 DEF Remove
    <2> HIDE DEF r
    <2>3. op' \in [Ops -> Operation] /\ clash' \subseteq Ids
        BY <2>1, <2>2, BeginType
    <2> QED BY <1>3, <2>3 DEF Remove, ProvidersTypeOK, Live
<1>4. CASE Sync(o, p)
    <2> DEFINE r == [kind |-> "sync", id |-> p, at |-> "list", list |-> {},
                     snap |-> [n \in Numbers |-> None], todo |-> {}]
    <2>1. r \in Operation /\ r.id \in Ids
        BY DEF Operation, SyncOp, Table
    <2>2. Begin(o, r)
        BY <1>4 DEF Sync
    <2> HIDE DEF r
    <2>3. op' \in [Ops -> Operation] /\ clash' \subseteq Ids
        BY <2>1, <2>2, BeginType
    <2>4. excused' \in BOOLEAN
        BY <1>4 DEF Sync, Overlaps, ProvidersTypeOK
    <2> QED BY <1>4, <2>3, <2>4 DEF Sync, ProvidersTypeOK, Live
<1> QED BY <1>1, <1>2, <1>3, <1>4 DEF OpBegins

\* addProvider and updateProvider.
LEMMA ChangeType ==
    ASSUME ProvidersTypeOK, Owned, NEW o \in Ops,
           \/ AddInsert(o) \/ AddStarted(o)
           \/ UpdateWrite(o) \/ UpdateStopped(o) \/ UpdateStarted(o) \/ ProbeNew(o)
    PROVE  ProvidersTypeOK'
<1> DEFINE p == op[o].id
<1>1. /\ op[o].kind \in {"add", "update"} /\ p \in Ids /\ op[o].inst \in Insts \cup {None}
      /\ op[o].inst \in Live => op[o].inst \in Running(p)
    BY OpKinds DEF AddInsert, AddStarted, UpdateWrite, UpdateStopped, UpdateStarted, ProbeNew, Owned
<1>2. OpsOn(p) # {}
    BY <1>1 DEF OpsOn
<1>3. entry[p].inst \in Live => entry[p].inst \in Running(p)
    BY <1>1, <1>2 DEF Owned
<1>4. entry[p] \in Entry /\ Idle \in Operation
    BY <1>1 DEF ProvidersTypeOK, Operation
<1> HIDE DEF p
<1>5. CASE AddInsert(o)
    <2>1. PICK i \in Spare, ok \in BOOLEAN :
              /\ good' = With(good, i, [id |-> p, ok |-> ok])
              /\ entry' = [entry EXCEPT ![p].cred = ok]
              /\ op' = [op EXCEPT ![o].at = "start", ![o].inst = i]
        BY <1>5 DEF AddInsert, p
    <2>2. [id |-> p, ok |-> ok] \in Instance
        BY <1>1 DEF Instance
    <2>3. Live' \subseteq Insts /\ good' \in [Live' -> Instance]
        BY <2>1, <2>2, SpareInstance, WithInstance
    <2>4. entry' \in [Ids -> Entry]
        BY <1>1, <2>1 DEF ProvidersTypeOK, Entry
    <2>5. [op[o] EXCEPT !.at = "start", !.inst = i] \in Operation
        BY <1>5, OpKinds, SpareInstance DEF AddInsert, AddOp, Operation
    <2>6. op' = [op EXCEPT ![o] = [op[o] EXCEPT !.at = "start", !.inst = i]]
        BY <2>1 DEF ProvidersTypeOK
    <2>7. op' \in [Ops -> Operation]
        BY <2>5, <2>6, OpType
    <2>8. row' \in [Ids -> {"none", "enabled", "disabled"}]
        BY <1>5 DEF AddInsert, ProvidersTypeOK
    <2> QED BY <1>5, <2>3, <2>4, <2>7, <2>8 DEF AddInsert, ProvidersTypeOK
<1>6. CASE AddStarted(o)
    <2>1. inMap' \subseteq Ids
        BY <1>1, <1>6 DEF AddStarted, ProvidersTypeOK, p
    <2>2. CASE /\ entry' = [entry EXCEPT ![p].inst = op[o].inst, ![p].status = "active"]
               /\ op' = [op EXCEPT ![o].at = "check"]
               /\ UNCHANGED good
        <3>0. [entry[p] EXCEPT !.inst = op[o].inst, !.status = "active"] \in Entry
            BY <1>1, <1>4 DEF Entry
        <3>1. entry' \in [Ids -> Entry]
            <4>1. entry' = [entry EXCEPT ![p] = [entry[p] EXCEPT !.inst = op[o].inst,
                                                                 !.status = "active"]]
                BY <2>2 DEF ProvidersTypeOK
            <4> QED BY <1>1, <3>0, <4>1 DEF ProvidersTypeOK
        <3>2. [op[o] EXCEPT !.at = "check"] \in Operation
            BY <1>6, OpKinds DEF AddStarted, AddOp, Operation
        <3>3. op' = [op EXCEPT ![o] = [op[o] EXCEPT !.at = "check"]]
            BY <2>2 DEF ProvidersTypeOK
        <3>4. op' \in [Ops -> Operation]
            BY <3>2, <3>3, OpType
        <3> QED BY <1>6, <2>1, <2>2, <3>1, <3>4 DEF AddStarted, ProvidersTypeOK, Live
    <2>3. CASE good' = Without(good, op[o].inst) /\ Ends(o) /\ UNCHANGED entry
        <3>1. Live' \subseteq Insts /\ good' \in [Live' -> Instance]
            BY <1>1, <2>3, WithoutInstance
        <3>2. op' \in [Ops -> Operation]
            BY <1>4, <2>3, OpType DEF Ends
        <3> QED BY <1>6, <2>1, <2>3, <3>1, <3>2 DEF AddStarted, ProvidersTypeOK
    <2> QED BY <1>6, <2>2, <2>3 DEF AddStarted, p
<1>7. CASE UpdateWrite(o)
    <2>1. op[o] \in EditOp
        BY <1>7, OpKinds DEF UpdateWrite
    <2> DEFINE e == [entry[p] EXCEPT !.cred = op[o].cred, !.enabled = op[o].enabled, !.health = "ok"]
               r == [kind |-> "update", id |-> p, at |-> "stop", inst |-> None]
    <2>2. e \in Entry /\ e.inst = entry[p].inst
        BY <1>4, <2>1 DEF Entry, EditOp
    <2>3. r \in Operation
        BY <1>1 DEF Operation, ChangeOp
    <2>4. entry' = [entry EXCEPT ![p] = e] /\ good' = Stop(e) /\ op' = [op EXCEPT ![o] = r]
        BY <1>7 DEF UpdateWrite, p
    <2> HIDE DEF e, r
    <2>5. Live' \subseteq Insts /\ good' \in [Live' -> Instance]
        BY <1>1, <1>3, <2>2, <2>4, StopInstance
    <2>6. entry' \in [Ids -> Entry] /\ op' \in [Ops -> Operation]
        BY <1>1, <2>2, <2>3, <2>4, OpType DEF ProvidersTypeOK
    <2>7. row' \in [Ids -> {"none", "enabled", "disabled"}]
        BY <1>7 DEF UpdateWrite, ProvidersTypeOK
    <2> QED BY <1>7, <2>5, <2>6, <2>7 DEF UpdateWrite, ProvidersTypeOK
<1>8. CASE UpdateStopped(o)
    <2>1. op[o] \in ChangeOp
        BY <1>8, OpKinds DEF UpdateStopped
    <2>2. CASE entry[p].enabled
        <3>1. PICK i \in Spare : /\ good' = With(good, i, [id |-> p, ok |-> entry[p].cred])
                                  /\ op' = [op EXCEPT ![o].at = "start", ![o].inst = i]
            BY <1>8, <2>2 DEF UpdateStopped, p
        <3>2. [id |-> p, ok |-> entry[p].cred] \in Instance
            BY <1>1, <1>4 DEF Instance, Entry
        <3>3. Live' \subseteq Insts /\ good' \in [Live' -> Instance]
            BY <3>1, <3>2, SpareInstance, WithInstance
        <3>4. entry' \in [Ids -> Entry]
            BY <1>1, <1>8, <2>2 DEF UpdateStopped, ProvidersTypeOK, Entry, p
        <3>5. [op[o] EXCEPT !.at = "start", !.inst = i] \in Operation
            BY <2>1, SpareInstance DEF ChangeOp, Operation
        <3>6. op' = [op EXCEPT ![o] = [op[o] EXCEPT !.at = "start", !.inst = i]]
            BY <3>1 DEF ProvidersTypeOK
        <3>7. op' \in [Ops -> Operation]
            BY <3>5, <3>6, OpType
        <3> QED BY <1>8, <3>3, <3>4, <3>7 DEF UpdateStopped, ProvidersTypeOK
    <2>3. CASE ~entry[p].enabled
        <3>1. entry' \in [Ids -> Entry]
            BY <1>1, <1>8, <2>3 DEF UpdateStopped, ProvidersTypeOK, Entry, p
        <3>2. op' \in [Ops -> Operation] /\ good' = good
            BY <1>4, <1>8, <2>3, OpType DEF UpdateStopped, Ends, p
        <3> QED BY <1>8, <3>1, <3>2 DEF UpdateStopped, ProvidersTypeOK, Live
    <2> QED BY <2>2, <2>3
<1>9. CASE UpdateStarted(o)
    <2>1. op[o] \in ChangeOp
        BY <1>9, OpKinds DEF UpdateStarted
    <2>2. CASE /\ entry' = [entry EXCEPT ![p].inst = op[o].inst, ![p].status = "active"]
               /\ op' = [op EXCEPT ![o].at = "check"]
               /\ UNCHANGED good
        <3>0. [entry[p] EXCEPT !.inst = op[o].inst, !.status = "active"] \in Entry
            BY <1>1, <1>4 DEF Entry
        <3>1. entry' \in [Ids -> Entry]
            <4>1. entry' = [entry EXCEPT ![p] = [entry[p] EXCEPT !.inst = op[o].inst,
                                                                 !.status = "active"]]
                BY <2>2 DEF ProvidersTypeOK
            <4> QED BY <1>1, <3>0, <4>1 DEF ProvidersTypeOK
        <3>2. [op[o] EXCEPT !.at = "check"] \in Operation
            BY <2>1 DEF ChangeOp, Operation
        <3>3. op' = [op EXCEPT ![o] = [op[o] EXCEPT !.at = "check"]]
            BY <2>2 DEF ProvidersTypeOK
        <3>4. op' \in [Ops -> Operation]
            BY <3>2, <3>3, OpType
        <3> QED BY <1>9, <2>2, <3>1, <3>4 DEF UpdateStarted, ProvidersTypeOK, Live
    <2>3. CASE /\ entry' = [entry EXCEPT ![p].status = "unavailable"]
               /\ good' = Without(good, op[o].inst) /\ Ends(o)
        <3>1. Live' \subseteq Insts /\ good' \in [Live' -> Instance]
            BY <1>1, <2>3, WithoutInstance
        <3>2. op' \in [Ops -> Operation]
            BY <1>4, <2>3, OpType DEF Ends
        <3>3. entry' \in [Ids -> Entry]
            BY <1>1, <2>3 DEF ProvidersTypeOK, Entry
        <3> QED BY <1>9, <3>1, <3>2, <3>3 DEF UpdateStarted, ProvidersTypeOK
    <2> QED BY <1>9, <2>2, <2>3 DEF UpdateStarted, p
<1>10. CASE ProbeNew(o)
    <2>1. op' \in [Ops -> Operation]
        BY <1>4, <1>10, OpType DEF ProbeNew, Ends
    <2>2. entry' \in [Ids -> Entry]
        BY <1>1, <1>10 DEF ProbeNew, ProvidersTypeOK, Entry, Verdict, p
    <2> QED BY <1>10, <2>1, <2>2 DEF ProbeNew, ProvidersTypeOK, Live
<1> QED BY <1>5, <1>6, <1>7, <1>8, <1>9, <1>10

\* removeProvider, and the sync.
LEMMA RemoveType ==
    ASSUME ProvidersTypeOK, Owned, NEW o \in Ops,
           RemoveOrphan(o) \/ RemoveDelete(o) \/ RemoveRejects(o)
    PROVE  ProvidersTypeOK'
<1> DEFINE p == op[o].id
<1>1. op[o] \in RemoveOp /\ p \in Ids
    BY OpKinds DEF RemoveOrphan, RemoveDelete, RemoveRejects
<1>2. OpsOn(p) # {}
    BY DEF OpsOn, RemoveOrphan, RemoveDelete, RemoveRejects
<1>3. entry[p].inst \in Live => entry[p].inst \in Running(p)
    BY <1>1, <1>2 DEF Owned
<1> HIDE DEF p
<1>4. CASE RemoveOrphan(o)
    <2>1. Live' \subseteq Insts /\ good' \in [Live' -> Instance]
        BY <1>1, <1>3, <1>4, StopInstance DEF RemoveOrphan, p
    <2>2. [op[o] EXCEPT !.at = "delete"] \in Operation
        BY <1>1 DEF RemoveOp, Operation
    <2>3. op' = [op EXCEPT ![o] = [op[o] EXCEPT !.at = "delete"]]
        BY <1>4 DEF RemoveOrphan, ProvidersTypeOK
    <2>4. op' \in [Ops -> Operation]
        BY <2>2, <2>3, OpType
    <2>5. \A n \in Numbers : num[n] # None =>
              [num[n] EXCEPT !.owner = None, !.active = FALSE] \in NumberRow
        BY DEF ProvidersTypeOK, Table, NumberRow
    <2>6. num' \in Table
        BY <1>4, <2>5 DEF RemoveOrphan, ProvidersTypeOK, Table
    <2>7. excused' \in BOOLEAN
        BY <1>4 DEF RemoveOrphan, Overlaps, ProvidersTypeOK
    <2> QED BY <1>4, <2>1, <2>4, <2>6, <2>7 DEF RemoveOrphan, ProvidersTypeOK
<1>5. CASE RemoveDelete(o)
    <2>1. op' \in [Ops -> Operation]
        BY <1>5, OpType DEF RemoveDelete, Ends, Operation
    <2>2. row' \in [Ids -> {"none", "enabled", "disabled"}] /\ inMap' \subseteq Ids
        BY <1>5 DEF RemoveDelete, ProvidersTypeOK
    <2>3. \A n \in Numbers : num[n] # None => [num[n] EXCEPT !.owner = None] \in NumberRow
        BY DEF ProvidersTypeOK, Table, NumberRow
    <2>4. num' \in Table
        BY <1>5, <2>3 DEF RemoveDelete, ProvidersTypeOK, Table
    <2> QED BY <1>5, <2>1, <2>2, <2>4 DEF RemoveDelete, ProvidersTypeOK, Live
<1>6. CASE RemoveRejects(o)
    <2>1. op' \in [Ops -> Operation]
        BY <1>6, OpType DEF RemoveRejects, Ends, Operation
    <2>2. clash' \subseteq Ids
        BY <1>1, <1>6 DEF RemoveRejects, ProvidersTypeOK, p
    <2> QED BY <1>6, <2>1, <2>2 DEF RemoveRejects, ProvidersTypeOK, Live
<1> QED BY <1>4, <1>5, <1>6

\* chooseColor() takes a color of the palette, and reclaimColor() keeps the rows.
LEMMA ColorType ==
    ASSUME NEW tab \in Table, NEW c, NEW choice \in ChooseColor(tab, c),
           NEW t \in Table, NEW r \in Reclaimed(t, choice)
    PROVE  choice.color \in Colors /\ r \in Table
<1>1. choice.color \in Colors
    BY DEF ChooseColor, Free, Unused
<1>2. CASE r = t
    BY <1>1, <1>2
<1>3. CASE \E h \in Holders(t, choice.color, FALSE) : r = [t EXCEPT ![h].color = None]
    <2>1. PICK h \in Holders(t, choice.color, FALSE) : r = [t EXCEPT ![h].color = None]
        BY <1>3
    <2>2. h \in Numbers /\ t[h] \in NumberRow
        BY DEF Holders, Table
    <2>3. [t[h] EXCEPT !.color = None] \in NumberRow
        BY <2>2 DEF NumberRow
    <2>4. r = [t EXCEPT ![h] = [t[h] EXCEPT !.color = None]]
        BY <2>1 DEF Table
    <2> QED BY <1>1, <2>2, <2>3, <2>4 DEF Table
<1> QED BY <1>2, <1>3 DEF Reclaimed

\* The sync leaves a number alone, fails, or writes a row: its owner, or the provider
\* that takes it over, and a color that was chosen by the snapshot.
Assigns(o, n, choice, tab, snap, r) ==
    /\ choice \in ChooseColor(op[o].snap, IF n \in Mine(op[o].snap, op[o].id)
                                         THEN op[o].snap[n].color ELSE None)
    /\ tab \in Reclaimed(num, choice) /\ snap \in Reclaimed(op[o].snap, choice)
    /\ r = [owner |-> IF n \in Mine(op[o].snap, op[o].id) THEN tab[n].owner ELSE op[o].id,
            active |-> TRUE, color |-> choice.color]
    /\ n \notin Mine(op[o].snap, op[o].id) => row[op[o].id] # "none"
    /\ num' = [tab EXCEPT ![n] = r]
    /\ op' = [op EXCEPT ![o] = [op[o] EXCEPT !.todo = op[o].todo \ {n}, !.snap = [snap EXCEPT ![n] = r]]]
    /\ excused' = (excused \/ Free(op[o].snap) = {})

Skips(o, n) ==
    /\ op' = [op EXCEPT ![o] = [op[o] EXCEPT !.todo = op[o].todo \ {n}]]
    /\ UNCHANGED <<num, excused>>

\* The three outcomes of a number offered.
LEMMA SyncNumberCases ==
    ASSUME ProvidersTypeOK, SnapInv, NEW o \in Ops, NEW n \in Numbers, SyncNumber(o, n)
    PROVE  \/ Skips(o, n)
           \/ Ends(o) /\ UNCHANGED <<num, excused>>
           \/ \E choice, tab, snap, r :
                 /\ Assigns(o, n, choice, tab, snap, r)
                 /\ choice.color \in Colors /\ tab \in Table /\ snap \in Table
                 /\ r \in NumberRow /\ r.active /\ r.color = choice.color
                 /\ \/ num[n] # None /\ r.owner = num[n].owner
                    \/ row[op[o].id] # "none" /\ r.owner = op[o].id
<1>1. op[o] \in SyncOp /\ op[o].id \in Ids /\ o \in Syncs
    BY OpKinds DEF SyncNumber, Syncs
<1>2. num \in Table /\ op[o].snap \in Table
    BY <1>1 DEF ProvidersTypeOK, SyncOp
<1>3. CASE op' = [op EXCEPT ![o].todo = @ \ {n}] /\ UNCHANGED <<num, excused>>
    BY <1>3 DEF ProvidersTypeOK, Skips
<1>4. CASE ~\/ op' = [op EXCEPT ![o].todo = @ \ {n}] /\ UNCHANGED <<num, excused>>
            \/ Ends(o) /\ UNCHANGED <<num, excused>>
    <2> DEFINE p == op[o].id
               known == n \in Mine(op[o].snap, p)
               mine == IF known THEN op[o].snap[n].color ELSE None
               R(tab, c) == [owner |-> IF known THEN tab[n].owner ELSE p,
                             active |-> TRUE, color |-> c]
    <2>1. /\ ~known => row[p] # "none"
          /\ \E choice \in ChooseColor(op[o].snap, mine) :
               \E tab \in Reclaimed(num, choice) :
                  /\ num' = [tab EXCEPT ![n] = R(tab, choice.color)]
                  /\ \E snap \in Reclaimed(op[o].snap, choice) :
                        op' = [op EXCEPT ![o].todo = @ \ {n},
                                         ![o].snap = [snap EXCEPT ![n] = R(tab, choice.color)]]
                  /\ excused' = (excused \/ Free(op[o].snap) = {})
        BY <1>4 DEF SyncNumber
    <2>2. PICK choice \in ChooseColor(op[o].snap, mine) :
              \E tab \in Reclaimed(num, choice) :
                  /\ num' = [tab EXCEPT ![n] = R(tab, choice.color)]
                  /\ \E snap \in Reclaimed(op[o].snap, choice) :
                        op' = [op EXCEPT ![o].todo = @ \ {n},
                                         ![o].snap = [snap EXCEPT ![n] = R(tab, choice.color)]]
                  /\ excused' = (excused \/ Free(op[o].snap) = {})
        BY <2>1
    <2>3. PICK tab \in Reclaimed(num, choice) :
                  /\ num' = [tab EXCEPT ![n] = R(tab, choice.color)]
                  /\ \E snap \in Reclaimed(op[o].snap, choice) :
                        op' = [op EXCEPT ![o].todo = @ \ {n},
                                         ![o].snap = [snap EXCEPT ![n] = R(tab, choice.color)]]
                  /\ excused' = (excused \/ Free(op[o].snap) = {})
        BY <2>2
    <2>4. PICK snap \in Reclaimed(op[o].snap, choice) :
              op' = [op EXCEPT ![o].todo = @ \ {n},
                               ![o].snap = [snap EXCEPT ![n] = R(tab, choice.color)]]
        BY <2>3
    <2>5. PICK r : r = R(tab, choice.color)
        OBVIOUS
    <2> HIDE DEF R
    <2>6. choice.color \in Colors /\ tab \in Table /\ snap \in Table
        BY <1>2, ColorType
    <2>7. op' = [op EXCEPT ![o] = [op[o] EXCEPT !.todo = op[o].todo \ {n},
                                               !.snap = [snap EXCEPT ![n] = r]]]
        BY <2>4, <2>5 DEF ProvidersTypeOK
    <2>8. Assigns(o, n, choice, tab, snap, r)
        BY <2>1, <2>3, <2>5, <2>7 DEF Assigns, R
    <2>9. known => num[n] # None /\ num[n] \in NumberRow
        BY <1>1, <1>2 DEF SnapInv, Mine, Table
    <2>10. known => tab[n].owner = num[n].owner
        <3>1. CASE \E h \in Numbers : tab = [num EXCEPT ![h].color = None]
            BY <1>2, <2>9, <3>1 DEF NumberRow, Table
        <3> QED BY <3>1 DEF Reclaimed, Holders
    <2>11. known => num[n].owner \in Ids \cup {None}
        BY <2>9 DEF NumberRow
    <2>12. r \in NumberRow /\ r.active /\ r.color = choice.color
        BY <1>1, <2>5, <2>6, <2>10, <2>11 DEF NumberRow, R
    <2>13. r.owner = IF known THEN num[n].owner ELSE p
        BY <2>5, <2>10 DEF R
    <2> QED BY <2>1, <2>6, <2>8, <2>9, <2>12, <2>13
<1> QED BY <1>3, <1>4

\* syncNumbers.
LEMMA SyncType ==
    ASSUME ProvidersTypeOK, SnapInv, NEW o \in Ops,
           \/ SyncList(o) \/ SyncDone(o)
           \/ \E n \in Numbers : SyncNumber(o, n) \/ SyncOrphan(o, n)
    PROVE  ProvidersTypeOK'
<1>1. op[o] \in SyncOp /\ op[o].id \in Ids /\ o \in Syncs
    BY OpKinds DEF SyncList, SyncDone, SyncNumber, SyncOrphan, Syncs
<1>2. num \in Table /\ op[o].snap \in Table
    BY <1>1 DEF ProvidersTypeOK, SyncOp
<1>3. \A x \in SUBSET Numbers : [op[o] EXCEPT !.todo = x] \in Operation
    BY <1>1 DEF SyncOp, Operation
<1>4. CASE SyncList(o)
    <2> DEFINE p == op[o].id
               r == [op[o] EXCEPT !.at = "apply", !.list = offers[p], !.snap = num,
                                  !.todo = offers[p] \cup {n \in Mine(num, p) : num[n].active}]
    <2>1. offers[p] \subseteq Numbers /\ Mine(num, p) \subseteq Numbers
        BY <1>1 DEF ProvidersTypeOK, Mine
    <2>2. r \in SyncOp
        BY <1>1, <1>2, <2>1 DEF SyncOp
    <2>3. op' = [op EXCEPT ![o] = r]
        BY <1>4 DEF SyncList, ProvidersTypeOK
    <2> HIDE DEF r
    <2>4. op' \in [Ops -> Operation]
        BY <2>2, <2>3, OpType DEF Operation
    <2> QED BY <1>4, <2>4 DEF SyncList, ProvidersTypeOK, Live
<1>5. CASE SyncDone(o)
    <2>1. op' \in [Ops -> Operation]
        BY <1>5, OpType DEF SyncDone, Ends, Operation
    <2> QED BY <1>5, <2>1 DEF SyncDone, ProvidersTypeOK, Live
<1>6. ASSUME NEW n \in Numbers, SyncNumber(o, n)
      PROVE  ProvidersTypeOK'
    <2>1. num' \in Table /\ op' \in [Ops -> Operation] /\ excused' \in BOOLEAN
        <3>1. CASE Skips(o, n)
            <4>1. op[o].todo \ {n} \in SUBSET Numbers
                BY <1>1 DEF SyncOp
            <4>2. op' \in [Ops -> Operation]
                BY <1>3, <3>1, <4>1, OpType DEF Skips
            <4> QED BY <3>1, <4>2 DEF ProvidersTypeOK, Skips
        <3>2. CASE Ends(o) /\ UNCHANGED <<num, excused>>
            <4>1. op' \in [Ops -> Operation]
                BY <3>2, OpType DEF Ends, Operation
            <4> QED BY <3>2, <4>1 DEF ProvidersTypeOK
        <3>3. ASSUME NEW choice, NEW tab \in Table, NEW snap \in Table, NEW r \in NumberRow,
                     Assigns(o, n, choice, tab, snap, r)
              PROVE  num' \in Table /\ op' \in [Ops -> Operation] /\ excused' \in BOOLEAN
            <4>1. [snap EXCEPT ![n] = r] \in Table /\ num' \in Table
                BY <3>3 DEF Assigns, Table
            <4> DEFINE new == [snap EXCEPT ![n] = r]
            <4>2. op' = [op EXCEPT ![o] = [op[o] EXCEPT !.todo = op[o].todo \ {n}, !.snap = new]]
                BY <3>3 DEF Assigns
            <4>3. new \in Table
                BY <4>1
            <4> HIDE DEF new
            <4>4. [op[o] EXCEPT !.todo = op[o].todo \ {n}, !.snap = new] \in Operation
                BY <1>1, <4>3 DEF SyncOp, Operation
            <4>5. op' \in [Ops -> Operation]
                BY <4>2, <4>4, OpType
            <4> QED BY <3>3, <4>1, <4>5 DEF ProvidersTypeOK, Assigns
        <3> QED BY <1>6, <3>1, <3>2, <3>3, SyncNumberCases
    <2> QED BY <1>6, <2>1 DEF SyncNumber, ProvidersTypeOK, Live
<1>7. ASSUME NEW n \in Numbers, SyncOrphan(o, n)
      PROVE  ProvidersTypeOK'
    <2>1. op' = [op EXCEPT ![o] = [op[o] EXCEPT !.todo = op[o].todo \ {n}]]
        BY <1>7 DEF SyncOrphan, ProvidersTypeOK
    <2>2. op[o].todo \ {n} \in SUBSET Numbers
        BY <1>1 DEF SyncOp
    <2>3. op' \in [Ops -> Operation]
        BY <1>3, <2>1, <2>2, OpType
    <2>4. num' = [num EXCEPT ![n] = [num[n] EXCEPT !.active = FALSE, !.owner = None]]
        BY <1>2, <1>7 DEF SyncOrphan, Table
    <2>5. n \in op[o].todo \ op[o].list
        BY <1>7 DEF SyncOrphan
    <2>6. num[n] \in NumberRow
        BY <1>1, <1>2, <2>5 DEF SnapInv, Table
    <2>7. [num[n] EXCEPT !.active = FALSE, !.owner = None] \in NumberRow
        BY <2>6 DEF NumberRow
    <2>8. num' \in Table
        BY <1>2, <2>4, <2>7 DEF Table
    <2> QED BY <1>7, <2>3, <2>8 DEF SyncOrphan, ProvidersTypeOK, Live
<1> QED BY <1>4, <1>5, <1>6, <1>7

\* loadAll() starts one instance for each provider it loads.
LEMMA LoadedInstances ==
    ASSUME NEW up \in SUBSET Ids, NEW f \in Loads(up), NEW e \in [Ids -> Entry]
    PROVE  /\ Entries(f, e) \in [Ids -> Entry]
           /\ DOMAIN Loaded(f, e) \subseteq Insts
           /\ Loaded(f, e) \in [DOMAIN Loaded(f, e) -> Instance]
           /\ \A p \in Ids : {i \in DOMAIN Loaded(f, e) : Loaded(f, e)[i].id = p}
                             = IF p \in up THEN {f[p]} ELSE {}
           /\ \A p \in up : /\ f[p] \in Insts /\ Entries(f, e)[p].inst = f[p]
                           /\ Entries(f, e)[p].status = "active"
           /\ \A p \in Ids \ up : Entries(f, e)[p].inst = None
<1>1. f \in [up -> Insts] /\ DOMAIN f = up /\ \A p, q \in up : f[p] = f[q] => p = q
    BY DEF Loads
<1>2. ASSUME NEW p \in up
      PROVE  /\ f[p] \in Insts /\ Entries(f, e)[p].inst = f[p]
             /\ Entries(f, e)[p].status = "active" /\ Entries(f, e)[p] \in Entry
    <2>1. Entries(f, e)[p] = [e[p] EXCEPT !.enabled = TRUE, !.inst = f[p],
                                          !.status = "active", !.health = "ok"]
        BY <1>1 DEF Entries
    <2> QED BY <1>1, <2>1 DEF Entry
<1>3. ASSUME NEW p \in Ids \ up
      PROVE  Entries(f, e)[p].inst = None /\ Entries(f, e)[p] \in Entry
    <2>1. Entries(f, e)[p] = [e[p] EXCEPT !.inst = None]
        BY <1>1 DEF Entries
    <2> QED BY <2>1 DEF Entry
<1>4. Entries(f, e) \in [Ids -> Entry]
    <2>1. \A p \in Ids : Entries(f, e)[p] \in Entry
        BY <1>2, <1>3
    <2> QED BY <2>1 DEF Entries
<1> DEFINE g == Loaded(f, e)
           D == {f[p] : p \in up}
<1>5. DOMAIN g = D /\ D \subseteq Insts
    BY <1>1 DEF Loaded
<1>6. ASSUME NEW i \in D
      PROVE  \E p \in up : f[p] = i /\ g[i] = [id |-> p, ok |-> e[p].cred]
    <2>1. \E p \in up : f[p] = i
        OBVIOUS
    <2> DEFINE q == CHOOSE x \in up : f[x] = i
    <2>2. q \in up /\ f[q] = i
        BY <2>1
    <2>3. g[i] = [id |-> q, ok |-> e[q].cred]
        BY <1>1 DEF Loaded
    <2> QED BY <2>2, <2>3
<1>7. g = [i \in D |-> g[i]]
    BY <1>1 DEF Loaded
<1> HIDE DEF g
<1>8. g \in [D -> Instance]
    <2>1. ASSUME NEW i \in D
          PROVE  g[i] \in Instance
        <3>1. PICK p \in up : g[i] = [id |-> p, ok |-> e[p].cred]
            BY <1>6
        <3>2. e[p].cred \in BOOLEAN
            BY DEF Entry
        <3> QED BY <3>1, <3>2 DEF Instance
    <2> QED BY <1>7, <2>1
<1>9. ASSUME NEW p \in Ids
      PROVE  {i \in D : g[i].id = p} = IF p \in up THEN {f[p]} ELSE {}
    <2>1. ASSUME NEW i \in D
          PROVE  \E x \in up : f[x] = i /\ g[i].id = x
        <3>1. PICK x \in up : f[x] = i /\ g[i] = [id |-> x, ok |-> e[x].cred]
            BY <1>6
        <3> QED BY <3>1
    <2> QED BY <1>1, <2>1
<1> QED BY <1>2, <1>3, <1>4, <1>5, <1>8, <1>9 DEF g

\* Polls, changes by hand, and a restart.
LEMMA EventType ==
    ASSUME ProvidersTypeOK,
           \/ \E p \in Ids : Poll(p)
           \/ PollAnswer \/ StatusEdit \/ DefaultEdit
           \/ \E p \in Ids, n \in Numbers : AccountChanges(p, n)
           \/ Restart
    PROVE  ProvidersTypeOK'
<1>1. ASSUME NEW p \in Ids, Poll(p)
      PROVE  ProvidersTypeOK'
    <2>1. good[entry[p].inst] \in Instance
        BY <1>1 DEF Poll, ProvidersTypeOK
    <2>2. checks' \subseteq Instance
        BY <1>1, <2>1 DEF Poll, Instance
    <2> QED BY <1>1, <2>2 DEF Poll, ProvidersTypeOK, Live
<1>2. CASE PollAnswer
    <2>1. PICK c \in checks : entry' = [entry EXCEPT ![c.id].health = Verdict(c.ok)]
        BY <1>2 DEF PollAnswer
    <2>2. c.id \in Ids /\ Verdict(c.ok) \in {"ok", "auth"}
        BY DEF ProvidersTypeOK, Instance, Verdict
    <2>3. [entry[c.id] EXCEPT !.health = Verdict(c.ok)] \in Entry
        BY <2>2 DEF ProvidersTypeOK, Entry
    <2>4. entry' = [entry EXCEPT ![c.id] = [entry[c.id] EXCEPT !.health = Verdict(c.ok)]]
        BY <2>1, <2>2 DEF ProvidersTypeOK
    <2>5. entry' \in [Ids -> Entry]
        BY <2>2, <2>3, <2>4 DEF ProvidersTypeOK
    <2> QED BY <1>2, <2>5 DEF PollAnswer, ProvidersTypeOK, Live
<1>3. CASE StatusEdit
    <2>1. PICK n \in Numbers, active \in BOOLEAN : SetActive(n, active)
        BY <1>3 DEF StatusEdit
    <2>2. [num[n] EXCEPT !.active = active] \in NumberRow
        BY <2>1 DEF SetActive, ProvidersTypeOK, Table, NumberRow
    <2>3. num' = [num EXCEPT ![n] = [num[n] EXCEPT !.active = active]]
        BY <2>1 DEF SetActive, Activated, ProvidersTypeOK, Table
    <2>4. num' \in Table
        BY <2>2, <2>3 DEF ProvidersTypeOK, Table
    <2>5. excused' \in BOOLEAN
        BY <2>1 DEF SetActive, Overlaps, ProvidersTypeOK
    <2> QED BY <2>1, <2>4, <2>5 DEF SetActive, ProvidersTypeOK, Live
<1>4. CASE DefaultEdit
    BY <1>4 DEF DefaultEdit, SetDefault, ProvidersTypeOK, Live
<1>5. ASSUME NEW p \in Ids, NEW n \in Numbers, AccountChanges(p, n)
      PROVE  ProvidersTypeOK'
    <2>1. offers' \in [Ids -> SUBSET Numbers]
        BY <1>5 DEF AccountChanges, ProvidersTypeOK
    <2> QED BY <1>5, <2>1 DEF AccountChanges, ProvidersTypeOK, Live
<1>6. CASE Restart
    <2> DEFINE up == {p \in Ids : row[p] = "enabled"}
    <2>1. PICK f \in Loads(up) : good' = Loaded(f, entry) /\ entry' = Entries(f, entry)
        BY <1>6 DEF Restart
    <2>2. inMap' = up /\ up \in SUBSET Ids
        BY <1>6 DEF Restart
    <2> HIDE DEF up
    <2>3. /\ entry' \in [Ids -> Entry]
          /\ Live' \subseteq Insts /\ good' \in [Live' -> Instance]
        BY <2>1, <2>2, LoadedInstances DEF ProvidersTypeOK, Live
    <2>4. op' \in [Ops -> Operation]
        BY <1>6 DEF Restart, Operation
    <2> QED BY <1>6, <2>2, <2>3, <2>4 DEF Restart, ProvidersTypeOK
<1> QED BY <1>1, <1>2, <1>3, <1>4, <1>5, <1>6

-----------------------------------------------------------------------------
(* Entries and their instances                                             *)

Changing == {"add", "update", "remove"}

\* A provider that a step does not touch, but for syncs and numbers.
LEMMA OrderFrame ==
    ASSUME NEW p \in Ids, Orderly(p),
           entry'[p].inst = entry[p].inst, entry'[p].status = entry[p].status,
           p \in inMap' <=> p \in inMap, row'[p] = row[p], Running(p)' = Running(p),
           \A x \in Ops : x \in OpsOn(p)' \/ x \in OpsOn(p) => op'[x] = op[x]
    PROVE  Orderly(p)'
<1>1. OpsOn(p)' = OpsOn(p) /\ \A o \in OpsOn(p) : op'[o] = op[o]
    BY DEF OpsOn
<1>2. Calm(p)' = Calm(p) /\ Silent(p)' = Silent(p)
    BY DEF Calm, Silent
<1>3. Resting(p)' = Resting(p)
    BY <1>2 DEF Resting
<1>4. ASSUME NEW o \in OpsOn(p)
      PROVE  Phase(p, op[o])'
    <2>1. Phase(p, op[o]) /\ op'[o] = op[o] /\ op[o].kind \in Changing
        BY <1>1 DEF Orderly, OpsOn, Changing
    <2>2. Starting(p, op[o].inst)' = Starting(p, op[o].inst)
        BY <2>1 DEF Starting
    <2> QED BY <1>2, <2>1, <2>2 DEF Phase
<1> QED BY <1>1, <1>3, <1>4 DEF Orderly

\* Another provider, when an operation on p moves on or ends.
LEMMA OthersKept ==
    ASSUME NEW p \in Ids, NEW o \in OpsOn(p), NEW r, r = Idle \/ (r.kind # "sync" /\ r.id = p),
           op \in [Ops -> Operation], op' = [op EXCEPT ![o] = r],
           NEW q \in Ids, q # p, Orderly(q),
           entry'[q] = entry[q], q \in inMap' <=> q \in inMap, row'[q] = row[q],
           Running(q)' = Running(q)
    PROVE  Orderly(q)'
<1>1. o \in Ops /\ op[o].id = p /\ op'[o] = r
    BY DEF OpsOn
<1>2. \A x \in Ops : x # o => op'[x] = op[x]
    OBVIOUS
<1>3. o \notin OpsOn(q)' /\ o \notin OpsOn(q)
    BY <1>1 DEF OpsOn, Idle
<1>4. \A x \in Ops : x \in OpsOn(q)' \/ x \in OpsOn(q) => op'[x] = op[x]
    BY <1>2, <1>3
<1> QED BY <1>4, OrderFrame

\* The provider of an operation that moves on or ends.
LEMMA OpMoves ==
    ASSUME NEW p \in Ids, Orderly(p), NEW o \in OpsOn(p), NEW r,
           op \in [Ops -> Operation], op' = [op EXCEPT ![o] = r],
           \/ r = Idle /\ Resting(p)'
           \/ r.kind = op[o].kind /\ r.id = p /\ Phase(p, r)'
    PROVE  Orderly(p)'
<1>1. OpsOn(p) = {o} /\ op'[o] = r /\ op[o].kind \in Changing
    BY DEF Orderly, OpsOn, Changing
<1>2. \A x \in Ops : x # o => op'[x] = op[x]
    OBVIOUS
<1>3. CASE r = Idle
    <2>1. OpsOn(p)' = {}
        BY <1>1, <1>2, <1>3 DEF OpsOn, Idle
    <2>2. Resting(p)'
        BY <1>1, <1>3 DEF Idle, Changing
    <2> QED BY <2>1, <2>2 DEF Orderly
<1>4. CASE r.kind = op[o].kind /\ r.id = p /\ Phase(p, r)'
    <2>1. OpsOn(p)' = {o}
        BY <1>1, <1>2, <1>4 DEF OpsOn, Changing
    <2>2. Phase(p, op[o])'
        BY <1>1, <1>4 DEF Phase, Calm, Silent, Starting, Running
    <2> QED BY <1>1, <2>1, <2>2 DEF Orderly
<1> QED BY <1>3, <1>4

\* Every new instance was spare, and what refers to running instances is kept.
LEMMA OwnedFrame ==
    ASSUME Owned, Live' \subseteq Live \cup Spare,
           \A q \in Ids : Running(q) \cap Live' \subseteq Running(q)',
           \A q \in Ids : (q \in inMap' \/ OpsOn(q)' # {}) /\ entry'[q].inst \in Live' =>
               \/ entry'[q].inst \in Running(q)'
               \/ (q \in inMap \/ OpsOn(q) # {}) /\ entry'[q].inst = entry[q].inst,
           \A x \in Ops : op'[x].kind \in {"add", "update"} /\ op'[x].inst \in Live' =>
               \/ (op[x].inst \in Running(op[x].id))'
               \/ op'[x] = op[x] /\ op[x].id \in Ids
    PROVE  Owned'
<1>1. \A q \in Ids : q \in inMap \/ OpsOn(q) # {} => entry[q].inst \notin Spare
    BY SpareInstance
<1>2. \A x \in Ops : op[x].kind \in {"add", "update"} => op[x].inst \notin Spare
    BY SpareInstance
<1>3. ASSUME NEW q \in Ids, q \in inMap' \/ OpsOn(q)' # {}, entry'[q].inst \in Live'
      PROVE  entry'[q].inst \in Running(q)'
    <2>1. CASE (q \in inMap \/ OpsOn(q) # {}) /\ entry'[q].inst = entry[q].inst
        <3>1. entry[q].inst \in Live
            BY <1>1, <1>3, <2>1
        <3>2. entry[q].inst \in Running(q)
            BY <2>1, <3>1 DEF Owned
        <3> QED BY <1>3, <2>1, <3>2
    <2> QED BY <1>3, <2>1
<1>4. ASSUME NEW x \in Ops, op'[x].kind \in {"add", "update"}, op'[x].inst \in Live'
      PROVE  (op[x].inst \in Running(op[x].id))'
    <2>1. CASE op'[x] = op[x] /\ op[x].id \in Ids
        <3>1. op[x].inst \in Live
            BY <1>2, <1>4, <2>1
        <3>2. op[x].inst \in Running(op[x].id)
            BY <1>4, <2>1, <3>1 DEF Owned
        <3>3. op[x].inst \in Running(op[x].id)'
            BY <1>4, <2>1, <3>2
        <3> QED BY <2>1, <3>3
    <2> QED BY <1>4, <2>1
<1> QED BY <1>3, <1>4 DEF Owned

\* A step of an operation concerns its provider only.
LEMMA OpStepOrder ==
    ASSUME ProvidersTypeOK, OrderInv, NEW p \in Ids, NEW o \in OpsOn(p), NEW r,
           op' = [op EXCEPT ![o] = r], clash' = clash,
           \A q \in Ids : q # p =>
               /\ entry'[q] = entry[q] /\ (q \in inMap' <=> q \in inMap) /\ row'[q] = row[q]
               /\ Running(q)' = Running(q),
           \/ r = Idle /\ (Orderly(p) => Resting(p)')
           \/ r.kind = op[o].kind /\ r.id = p /\ (Orderly(p) => Phase(p, r)')
    PROVE  OrderInv'
<1> SUFFICES ASSUME NEW q \in Ids, q \notin clash, Orderly(q)
             PROVE  Orderly(q)'
    BY DEF OrderInv
<1>1. op \in [Ops -> Operation] /\ op[o].kind \in Changing
    BY DEF ProvidersTypeOK, OpsOn, Changing
<1>2. CASE q = p
    BY <1>1, <1>2, OpMoves
<1>3. CASE q # p
    <2>1. r = Idle \/ (r.kind # "sync" /\ r.id = p)
        BY <1>1 DEF Changing
    <2> QED BY <1>1, <1>3, <2>1, OthersKept
<1> QED BY <1>2, <1>3


\* The same for the instances that run: the step starts a spare one or stops one of p.
LEMMA OpStepOwned ==
    ASSUME ProvidersTypeOK, Owned, NEW p \in Ids, NEW o \in OpsOn(p), NEW r,
           op' = [op EXCEPT ![o] = r], r = Idle \/ (r.kind = op[o].kind /\ r.id = p),
           \A q \in Ids : q # p =>
               entry'[q] = entry[q] /\ (q \in inMap' <=> q \in inMap) /\ Running(q)' = Running(q),
           Live' \subseteq Live \cup Spare, Running(p) \cap Live' \subseteq Running(p)',
           entry'[p].inst \in Live' => entry'[p].inst \in Running(p)',
           r.kind \in {"add", "update"} /\ r.inst \in Live' => r.inst \in Running(p)'
    PROVE  Owned'
<1>1. op \in [Ops -> Operation] /\ o \in Ops /\ op[o].id = p
    BY DEF ProvidersTypeOK, OpsOn
<1>2. op'[o] = r /\ \A x \in Ops : x # o => op'[x] = op[x]
    BY <1>1
<1>3. ASSUME NEW q \in Ids, q # p
      PROVE  q \in inMap' \/ OpsOn(q)' # {} => q \in inMap \/ OpsOn(q) # {}
    BY <1>1, <1>2, <1>3 DEF OpsOn, Idle
<1>4. \A x \in Ops : op'[x].kind \in {"add", "update"} /\ op'[x].inst \in Live' =>
               \/ (op[x].inst \in Running(op[x].id))'
               \/ op'[x] = op[x] /\ op[x].id \in Ids
    <2>1. op'[o].kind \in {"add", "update"} => op'[o].id = p
        BY <1>2 DEF Idle
    <2>2. op'[o].kind \in {"add", "update"} /\ op'[o].inst \in Live' => (op[o].inst \in Running(op[o].id))'
        BY <1>2, <2>1
    <2> QED BY <1>2, <2>2, OpKinds
<1> QED BY <1>3, <1>4, OwnedFrame

\* What an operation and its provider's entry refer to.
LEMMA OpInstances ==
    ASSUME ProvidersTypeOK, Owned, NEW p \in Ids, NEW o \in OpsOn(p)
    PROVE  /\ o \in Ops /\ op[o].id = p
           /\ entry[p].inst \in Live => entry[p].inst \in Running(p)
           /\ entry[p].inst \notin Spare
           /\ op[o].kind \in {"add", "update"} =>
                 (op[o].inst \in Live => op[o].inst \in Running(p)) /\ op[o].inst \notin Spare
           /\ None \notin Live
<1>1. None \notin Live
    BY ProvidersAssumption DEF ProvidersTypeOK
<1>2. o \in Ops /\ op[o].id = p
    BY DEF OpsOn
<1> QED BY <1>1, <1>2, SpareInstance DEF Owned

\* An instance of p starts.
LEMMA StartsInstance ==
    ASSUME ProvidersTypeOK, NEW p \in Ids, NEW i \in Spare, NEW ok \in BOOLEAN,
           good' = With(good, i, [id |-> p, ok |-> ok])
    PROVE  /\ Live' = Live \cup {i} /\ Running(p)' = Running(p) \cup {i}
           /\ Live' \subseteq Live \cup Spare
           /\ \A q \in Ids : q # p => Running(q)' = Running(q)
<1>1. PICK r : r = [id |-> p, ok |-> ok]
    OBVIOUS
<1>2. r \in Instance /\ r.id = p
    BY <1>1 DEF Instance
<1>3. i \in Insts /\ i \notin Live
    BY SpareInstance
<1>4. good' = With(good, i, r)
    BY <1>1
<1> QED BY <1>2, <1>3, <1>4, WithInstance

\* addProvider: the row is written and the instance made.
LEMMA AddInsertOrder ==
    ASSUME ProvidersTypeOK, Owned, OrderInv, NEW p \in Ids, NEW o \in OpsOn(p), AddInsert(o)
    PROVE  Owned' /\ OrderInv'
<1>1. op[o].id = p /\ op[o].kind = "add" /\ op[o].at = "insert" /\ o \in Ops /\ op[o] \in AddOp
    BY OpKinds, OpInstances DEF AddInsert
<1>2. PICK i \in Spare, ok \in BOOLEAN :
              /\ good' = With(good, i, [id |-> p, ok |-> ok])
              /\ entry' = [entry EXCEPT ![p].cred = ok]
              /\ op' = [op EXCEPT ![o].at = "start", ![o].inst = i]
    BY <1>1 DEF AddInsert
<1>3. /\ Live' = Live \cup {i} /\ Running(p)' = Running(p) \cup {i}
      /\ Live' \subseteq Live \cup Spare
      /\ \A q \in Ids : q # p => Running(q)' = Running(q)
    BY <1>2, StartsInstance
<1>4. PICK r : r = [op[o] EXCEPT !.at = "start", !.inst = i]
    OBVIOUS
<1>5. /\ op' = [op EXCEPT ![o] = r]
      /\ r.kind = "add" /\ r.at = "start" /\ r.inst = i /\ r.id = p
    BY <1>1, <1>2, <1>4 DEF ProvidersTypeOK, AddOp
<1>6. entry'[p].inst = entry[p].inst /\ entry'[p].status = entry[p].status
    BY <1>2 DEF ProvidersTypeOK, Entry
<1>7. \A q \in Ids : q # p => entry'[q] = entry[q] /\ row'[q] = row[q]
    BY <1>1, <1>2 DEF AddInsert, ProvidersTypeOK
<1>8. inMap' = inMap /\ num' = num /\ clash' = clash
    BY DEF AddInsert
<1>9. Orderly(p) => Phase(p, r)'
    <2> SUFFICES ASSUME Orderly(p)
                 PROVE  Phase(p, r)'
        OBVIOUS
    <2>1. Running(p) = {} /\ p \notin inMap /\ entry[p].inst = None /\ entry[p].status # "active"
        BY <1>1 DEF Orderly, Phase, Silent
    <2> QED BY <1>3, <1>5, <1>6, <1>8, <2>1 DEF Phase, Starting
<1>10. entry'[p].inst \in Live' => entry'[p].inst \in Running(p)'
    BY <1>3, <1>6, OpInstances
<1>11. OrderInv'
    BY <1>1, <1>3, <1>5, <1>7, <1>8, <1>9, OpStepOrder
<1> QED BY <1>1, <1>3, <1>5, <1>7, <1>8, <1>10, <1>11, OpStepOwned

\* An instance of p stops.
LEMMA StopsInstance ==
    ASSUME ProvidersTypeOK, NEW p \in Ids, NEW i, i \in Live => i \in Running(p),
           good' = Without(good, i)
    PROVE  /\ Live' = Live \ {i} /\ Running(p)' = Running(p) \ {i}
           /\ Live' \subseteq Live \cup Spare /\ Running(p) \cap Live' \subseteq Running(p)'
           /\ \A q \in Ids : q # p => Running(q)' = Running(q)
BY WithoutInstance

\* The start settles: the entry takes the instance, or it is stopped.
LEMMA AddStartedOrder ==
    ASSUME ProvidersTypeOK, Owned, OrderInv, NEW p \in Ids, NEW o \in OpsOn(p), AddStarted(o)
    PROVE  Owned' /\ OrderInv'
<1>1. op[o].id = p /\ op[o].kind = "add" /\ op[o].at = "start" /\ o \in Ops /\ op[o] \in AddOp
    BY OpKinds, OpInstances DEF AddStarted
<1>2. row' = row /\ num' = num /\ clash' = clash /\ inMap' = inMap \cup {p}
    BY <1>1 DEF AddStarted
<1>3. Orderly(p) => Starting(p, op[o].inst) /\ entry[p].status # "active"
    BY <1>1 DEF Orderly, Phase
<1>4. CASE /\ entry' = [entry EXCEPT ![p].inst = op[o].inst, ![p].status = "active"]
           /\ op' = [op EXCEPT ![o].at = "check"]
           /\ UNCHANGED good
    <2>1. PICK r : r = [op[o] EXCEPT !.at = "check"]
        OBVIOUS
    <2>2. /\ op' = [op EXCEPT ![o] = r]
          /\ r.kind = "add" /\ r.at = "check" /\ r.inst = op[o].inst /\ r.id = p
        BY <1>1, <1>4, <2>1 DEF ProvidersTypeOK, AddOp
    <2>3. entry'[p].inst = op[o].inst /\ entry'[p].status = "active"
        BY <1>4 DEF ProvidersTypeOK, Entry
    <2>4. \A q \in Ids : q # p => entry'[q] = entry[q]
        BY <1>4 DEF ProvidersTypeOK
    <2>5. Live' = Live /\ \A q \in Ids : Running(q)' = Running(q)
        BY <1>4 DEF Live, Running
    <2>6. Orderly(p) => Phase(p, r)'
        BY <1>2, <1>3, <2>2, <2>3, <2>5 DEF Phase, Calm, Starting
    <2>7. op[o].inst \in Live' => op[o].inst \in Running(p)'
        BY <1>1, <2>5, OpInstances
    <2>8. OrderInv'
        BY <1>1, <1>2, <2>2, <2>4, <2>5, <2>6, OpStepOrder
    <2> QED BY <1>1, <1>2, <2>2, <2>3, <2>4, <2>5, <2>7, <2>8, OpStepOwned
<1>5. CASE good' = Without(good, op[o].inst) /\ Ends(o) /\ UNCHANGED entry
    <2>1. op' = [op EXCEPT ![o] = Idle] /\ entry' = entry
        BY <1>5 DEF Ends
    <2>2. /\ Live' = Live \ {op[o].inst} /\ Running(p)' = Running(p) \ {op[o].inst}
          /\ Live' \subseteq Live \cup Spare /\ Running(p) \cap Live' \subseteq Running(p)'
          /\ \A q \in Ids : q # p => Running(q)' = Running(q)
        BY <1>1, <1>5, OpInstances, StopsInstance
    <2>3. Orderly(p) => Resting(p)'
        BY <1>2, <1>3, <2>1, <2>2 DEF Resting, Calm, Starting
    <2>4. entry'[p].inst \in Live' => entry'[p].inst \in Running(p)'
        BY <2>1, <2>2, OpInstances
    <2>5. OrderInv'
        BY <1>2, <2>1, <2>2, <2>3, OpStepOrder
    <2> QED BY <1>2, <2>1, <2>2, <2>4, <2>5, OpStepOwned DEF Idle
<1> QED BY <1>1, <1>4, <1>5 DEF AddStarted

\* stop() of the entry's instance: none of p runs afterwards if only that one did.
LEMMA StopsEntry ==
    ASSUME ProvidersTypeOK, Owned, NEW p \in Ids, NEW o \in OpsOn(p),
           NEW e, e.inst = entry[p].inst, good' = Stop(e)
    PROVE  /\ Live' \subseteq Live \cup Spare /\ Running(p) \cap Live' \subseteq Running(p)'
           /\ Running(p)' = Running(p) \ {entry[p].inst} /\ entry[p].inst \notin Live'
           /\ \A q \in Ids : q # p => Running(q)' = Running(q)
           /\ Calm(p) => Running(p)' = {}
<1>1. /\ Live' = Live \ {entry[p].inst}
      /\ Running(p)' = Running(p) \ {entry[p].inst}
      /\ \A q \in Ids : q # p => Running(q)' = Running(q)
    BY OpInstances, StopInstance
<1>2. Calm(p) => Running(p) \ {entry[p].inst} = {}
    BY DEF Calm
<1>3. Running(p) \subseteq Live
    BY DEF Running
<1> QED BY <1>1, <1>2, <1>3

\* updateProvider: row and entry are written, and the instance is stopped.
LEMMA UpdateWriteOrder ==
    ASSUME ProvidersTypeOK, Owned, OrderInv, NEW p \in Ids, NEW o \in OpsOn(p), UpdateWrite(o)
    PROVE  Owned' /\ OrderInv'
<1>1. op[o].id = p /\ op[o].kind = "update" /\ op[o].at = "write" /\ o \in Ops
    BY OpInstances DEF UpdateWrite
<1>2. PICK e : e = [entry[p] EXCEPT !.cred = op[o].cred, !.enabled = op[o].enabled, !.health = "ok"]
    OBVIOUS
<1>3. PICK r : r = [kind |-> "update", id |-> p, at |-> "stop", inst |-> None]
    OBVIOUS
<1>4. entry' = [entry EXCEPT ![p] = e] /\ good' = Stop(e) /\ op' = [op EXCEPT ![o] = r]
    BY <1>1, <1>2, <1>3 DEF UpdateWrite
<1>5. e.inst = entry[p].inst
    BY <1>2 DEF ProvidersTypeOK, Entry
<1>6. r.kind = "update" /\ r.id = p /\ r.at = "stop" /\ r.inst = None
    BY <1>3
<1>7. entry'[p].inst = entry[p].inst /\ \A q \in Ids : q # p => entry'[q] = entry[q]
    BY <1>4, <1>5 DEF ProvidersTypeOK
<1>8. \A q \in Ids : q # p => row'[q] = row[q]
    BY <1>1 DEF UpdateWrite, ProvidersTypeOK
<1>9. inMap' = inMap /\ num' = num /\ clash' = clash
    BY DEF UpdateWrite
<1>10. /\ Live' \subseteq Live \cup Spare /\ Running(p) \cap Live' \subseteq Running(p)'
       /\ \A q \in Ids : q # p => Running(q)' = Running(q)
       /\ entry[p].inst \notin Live' /\ (Calm(p) => Running(p)' = {})
    BY <1>4, <1>5, StopsEntry
<1>11. Orderly(p) => Phase(p, r)'
    <2> SUFFICES ASSUME Orderly(p)
                 PROVE  Phase(p, r)'
        OBVIOUS
    <2>1. p \in inMap /\ Calm(p)
        BY <1>1 DEF Orderly, Phase
    <2> QED BY <1>6, <1>9, <1>10, <2>1 DEF Phase, Silent
<1>12. r.inst \notin Live'
    BY <1>6, <1>10, OpInstances, ProvidersAssumption DEF Spare
<1>13. OrderInv'
    BY <1>1, <1>4, <1>6, <1>7, <1>8, <1>9, <1>10, <1>11, OpStepOrder
<1> QED BY <1>1, <1>4, <1>6, <1>7, <1>9, <1>10, <1>12, <1>13, OpStepOwned

\* stop() has settled: the entry lets go, and if it is enabled a new instance starts.
LEMMA UpdateStoppedOrder ==
    ASSUME ProvidersTypeOK, Owned, OrderInv, NEW p \in Ids, NEW o \in OpsOn(p), UpdateStopped(o)
    PROVE  Owned' /\ OrderInv'
<1>1. op[o].id = p /\ op[o].kind = "update" /\ op[o].at = "stop" /\ o \in Ops /\ op[o] \in ChangeOp
    BY OpKinds, OpInstances DEF UpdateStopped
<1>2. row' = row /\ num' = num /\ clash' = clash /\ inMap' = inMap
    BY DEF UpdateStopped
<1>3. Orderly(p) => Running(p) = {} /\ p \in inMap
    BY <1>1 DEF Orderly, Phase, Silent
<1>4. CASE entry[p].enabled
    <2>1. PICK i \in Spare : /\ good' = With(good, i, [id |-> p, ok |-> entry[p].cred])
                              /\ op' = [op EXCEPT ![o].at = "start", ![o].inst = i]
        BY <1>1, <1>4 DEF UpdateStopped
    <2>2. entry' = [entry EXCEPT ![p].inst = None] /\ entry[p].cred \in BOOLEAN
        BY <1>1, <1>4 DEF UpdateStopped, ProvidersTypeOK, Entry
    <2>3. /\ Live' = Live \cup {i} /\ Running(p)' = Running(p) \cup {i}
          /\ Live' \subseteq Live \cup Spare
          /\ \A q \in Ids : q # p => Running(q)' = Running(q)
        BY <2>1, <2>2, StartsInstance
    <2>4. PICK r : r = [op[o] EXCEPT !.at = "start", !.inst = i]
        OBVIOUS
    <2>5. /\ op' = [op EXCEPT ![o] = r]
          /\ r.kind = "update" /\ r.at = "start" /\ r.inst = i /\ r.id = p
        BY <1>1, <2>1, <2>4 DEF ProvidersTypeOK, ChangeOp
    <2>6. entry'[p].inst = None /\ \A q \in Ids : q # p => entry'[q] = entry[q]
        BY <2>2 DEF ProvidersTypeOK, Entry
    <2>7. Orderly(p) => Phase(p, r)'
        BY <1>2, <1>3, <2>3, <2>5, <2>6 DEF Phase, Starting
    <2>8. None \notin Live'
        BY <2>3, SpareInstance, OpInstances, ProvidersAssumption
    <2>9. OrderInv'
        BY <1>1, <1>2, <2>3, <2>5, <2>6, <2>7, OpStepOrder
    <2> QED BY <1>1, <1>2, <2>3, <2>5, <2>6, <2>8, <2>9, OpStepOwned
<1>5. CASE ~entry[p].enabled
    <2>1. op' = [op EXCEPT ![o] = Idle] /\ good' = good
        BY <1>1, <1>5 DEF UpdateStopped, Ends
    <2>2. entry' = [entry EXCEPT ![p].inst = None, ![p].status = "disabled"]
        BY <1>1, <1>5 DEF UpdateStopped
    <2>3. /\ entry'[p].inst = None /\ entry'[p].status = "disabled"
          /\ \A q \in Ids : q # p => entry'[q] = entry[q]
        BY <2>2 DEF ProvidersTypeOK, Entry
    <2>4. Live' = Live /\ \A q \in Ids : Running(q)' = Running(q)
        BY <2>1 DEF Live, Running
    <2>5. Orderly(p) => Resting(p)'
        BY <1>2, <1>3, <2>3, <2>4 DEF Resting, Calm
    <2>6. OrderInv'
        BY <1>2, <2>1, <2>3, <2>4, <2>5, OpStepOrder
    <2>7. entry'[p].inst \notin Live'
        BY <2>3, <2>4, OpInstances
    <2> QED BY <1>2, <2>1, <2>3, <2>4, <2>6, <2>7, OpStepOwned DEF Idle
<1> QED BY <1>4, <1>5

\* The start settles.
LEMMA UpdateStartedOrder ==
    ASSUME ProvidersTypeOK, Owned, OrderInv, NEW p \in Ids, NEW o \in OpsOn(p), UpdateStarted(o)
    PROVE  Owned' /\ OrderInv'
<1>1. op[o].id = p /\ op[o].kind = "update" /\ op[o].at = "start" /\ o \in Ops /\ op[o] \in ChangeOp
    BY OpKinds, OpInstances DEF UpdateStarted
<1>2. row' = row /\ num' = num /\ clash' = clash /\ inMap' = inMap
    BY DEF UpdateStarted
<1>3. Orderly(p) => Starting(p, op[o].inst) /\ p \in inMap
    BY <1>1 DEF Orderly, Phase
<1>4. CASE /\ entry' = [entry EXCEPT ![p].inst = op[o].inst, ![p].status = "active"]
           /\ op' = [op EXCEPT ![o].at = "check"]
           /\ UNCHANGED good
    <2>1. PICK r : r = [op[o] EXCEPT !.at = "check"]
        OBVIOUS
    <2>2. /\ op' = [op EXCEPT ![o] = r]
          /\ r.kind = "update" /\ r.at = "check" /\ r.inst = op[o].inst /\ r.id = p
        BY <1>1, <1>4, <2>1 DEF ProvidersTypeOK, ChangeOp
    <2>3. entry'[p].inst = op[o].inst /\ entry'[p].status = "active"
        BY <1>4 DEF ProvidersTypeOK, Entry
    <2>4. \A q \in Ids : q # p => entry'[q] = entry[q]
        BY <1>4 DEF ProvidersTypeOK
    <2>5. Live' = Live /\ \A q \in Ids : Running(q)' = Running(q)
        BY <1>4 DEF Live, Running
    <2>6. Orderly(p) => Phase(p, r)'
        BY <1>2, <1>3, <2>2, <2>3, <2>5 DEF Phase, Calm, Starting
    <2>7. op[o].inst \in Live' => op[o].inst \in Running(p)'
        BY <1>1, <2>5, OpInstances
    <2>8. OrderInv'
        BY <1>1, <1>2, <2>2, <2>4, <2>5, <2>6, OpStepOrder
    <2> QED BY <1>1, <1>2, <2>2, <2>3, <2>4, <2>5, <2>7, <2>8, OpStepOwned
<1>5. CASE /\ entry' = [entry EXCEPT ![p].status = "unavailable"]
           /\ good' = Without(good, op[o].inst) /\ Ends(o)
    <2>1. op' = [op EXCEPT ![o] = Idle]
        BY <1>5 DEF Ends
    <2>2. /\ Live' = Live \ {op[o].inst} /\ Running(p)' = Running(p) \ {op[o].inst}
          /\ Live' \subseteq Live \cup Spare /\ Running(p) \cap Live' \subseteq Running(p)'
          /\ \A q \in Ids : q # p => Running(q)' = Running(q)
        BY <1>1, <1>5, OpInstances, StopsInstance
    <2>3. /\ entry'[p].inst = entry[p].inst /\ entry'[p].status = "unavailable"
          /\ \A q \in Ids : q # p => entry'[q] = entry[q]
        BY <1>5 DEF ProvidersTypeOK, Entry
    <2>4. Orderly(p) => Resting(p)'
        BY <1>2, <1>3, <2>2, <2>3 DEF Resting, Calm, Starting
    <2>5. entry'[p].inst \in Live' => entry'[p].inst \in Running(p)'
        BY <2>2, <2>3, OpInstances
    <2>6. OrderInv'
        BY <1>2, <2>1, <2>2, <2>3, <2>4, OpStepOrder
    <2> QED BY <1>2, <2>1, <2>2, <2>3, <2>5, <2>6, OpStepOwned DEF Idle
<1> QED BY <1>1, <1>4, <1>5 DEF UpdateStarted

\* The probe changes the health alone.
LEMMA ProbeNewOrder ==
    ASSUME ProvidersTypeOK, Owned, OrderInv, NEW p \in Ids, NEW o \in OpsOn(p), ProbeNew(o)
    PROVE  Owned' /\ OrderInv'
<1>1. op[o].id = p /\ op[o].at = "check"
    BY OpInstances DEF ProbeNew
<1>2. /\ row' = row /\ num' = num /\ clash' = clash /\ inMap' = inMap /\ good' = good
      /\ op' = [op EXCEPT ![o] = Idle]
    BY DEF ProbeNew, Ends
<1>3. Orderly(p) => Calm(p) /\ p \in inMap
    BY <1>1 DEF Orderly, Phase
<1>4. /\ entry'[p].inst = entry[p].inst /\ entry'[p].status = entry[p].status
      /\ \A q \in Ids : q # p => entry'[q] = entry[q]
    BY <1>1 DEF ProbeNew, ProvidersTypeOK, Entry
<1>5. Live' = Live /\ \A q \in Ids : Running(q)' = Running(q)
    BY <1>2 DEF Live, Running
<1>6. Orderly(p) => Resting(p)'
    BY <1>2, <1>3, <1>4, <1>5 DEF Resting, Calm
<1>7. OrderInv'
    BY <1>2, <1>4, <1>5, <1>6, OpStepOrder
<1> QED BY <1>2, <1>4, <1>5, <1>7, OpInstances, OpStepOwned DEF Idle

\* removeProvider: the numbers are detached and the instance stopped.
LEMMA RemoveOrphanOrder ==
    ASSUME ProvidersTypeOK, Owned, OrderInv, NEW p \in Ids, NEW o \in OpsOn(p), RemoveOrphan(o)
    PROVE  Owned' /\ OrderInv'
<1>1. op[o].id = p /\ op[o].kind = "remove" /\ op[o].at = "orphan" /\ o \in Ops /\ op[o] \in RemoveOp
    BY OpKinds, OpInstances DEF RemoveOrphan
<1>2. row' = row /\ entry' = entry /\ clash' = clash /\ inMap' = inMap /\ good' = Stop(entry[p])
    BY <1>1 DEF RemoveOrphan
<1>3. PICK r : r = [op[o] EXCEPT !.at = "delete"]
    OBVIOUS
<1>4. op' = [op EXCEPT ![o] = r] /\ r.kind = "remove" /\ r.at = "delete" /\ r.id = p
    BY <1>1, <1>3 DEF RemoveOrphan, ProvidersTypeOK, RemoveOp
<1>5. /\ Live' \subseteq Live \cup Spare /\ Running(p) \cap Live' \subseteq Running(p)'
      /\ \A q \in Ids : q # p => Running(q)' = Running(q)
      /\ entry[p].inst \notin Live' /\ (Calm(p) => Running(p)' = {})
    BY <1>2, StopsEntry
<1>9. Orderly(p) => Phase(p, r)'
    <2>1. Orderly(p) => p \in inMap /\ Calm(p)
        BY <1>1 DEF Orderly, Phase
    <2> QED BY <1>2, <1>4, <1>5, <2>1 DEF Phase, Silent
<1>10. OrderInv'
    BY <1>1, <1>2, <1>4, <1>5, <1>9, OpStepOrder
<1> QED BY <1>1, <1>2, <1>4, <1>5, <1>10, OpStepOwned

\* The row goes and the entry leaves the map.
LEMMA RemoveDeleteOrder ==
    ASSUME ProvidersTypeOK, Owned, OrderInv, NEW p \in Ids, NEW o \in OpsOn(p), RemoveDelete(o)
    PROVE  Owned' /\ OrderInv'
<1>1. op[o].id = p /\ op[o].kind = "remove" /\ op[o].at = "delete"
    BY OpInstances DEF RemoveDelete
<1>2. /\ entry' = entry /\ clash' = clash /\ good' = good
      /\ op' = [op EXCEPT ![o] = Idle]
    BY DEF RemoveDelete, Ends
<1>3. /\ \A q \in Ids : q # p => row'[q] = row[q] /\ (q \in inMap' <=> q \in inMap)
      /\ row'[p] = "none" /\ p \notin inMap'
    BY <1>1 DEF RemoveDelete, ProvidersTypeOK
<1>4. Live' = Live /\ \A q \in Ids : Running(q)' = Running(q)
    BY <1>2 DEF Live, Running
<1>5. Orderly(p) => Resting(p)'
    <2>1. Orderly(p) => Running(p) = {}
        BY <1>1 DEF Orderly, Phase, Silent
    <2> QED BY <1>3, <1>4, <2>1 DEF Resting, Silent
<1>6. OrderInv'
    BY <1>2, <1>3, <1>4, <1>5, OpStepOrder
<1> QED BY <1>2, <1>3, <1>4, <1>6, OpInstances, OpStepOwned DEF Idle

\* The delete rejects, and nothing is said of the provider from then on.
LEMMA RemoveRejectsOrder ==
    ASSUME ProvidersTypeOK, Owned, OrderInv, NEW p \in Ids, NEW o \in OpsOn(p), RemoveRejects(o)
    PROVE  Owned' /\ OrderInv'
<1>1. op[o].id = p
    BY OpInstances
<1>2. /\ UNCHANGED <<row, entry, inMap, good, num>> /\ clash' = clash \cup {p}
      /\ op' = [op EXCEPT ![o] = Idle]
    BY <1>1 DEF RemoveRejects, Ends
<1>3. Live' = Live /\ \A q \in Ids : Running(q)' = Running(q)
    BY <1>2 DEF Live, Running
<1>4. ASSUME NEW q \in Ids, q \notin clash'
      PROVE  Orderly(q)'
    <2>1. q # p /\ Orderly(q)
        BY <1>2, <1>4 DEF OrderInv
    <2> QED BY <1>2, <1>3, <2>1, OthersKept DEF ProvidersTypeOK
<1> QED BY <1>2, <1>3, <1>4, OpInstances, OpStepOwned DEF Idle, OrderInv

\* A request begins to change or remove p.
LEMMA BeginOrder ==
    ASSUME ProvidersTypeOK, Owned, OrderInv, NEW o \in Ops, NEW p \in Ids,
           NEW r, r.kind \in Changing, r.id = p, Begin(o, r),
           UNCHANGED <<row, entry, inMap, good, num>>,
           Resting(p) /\ OpsOn(p) = {} => Phase(p, r)', p \in inMap \/ entry[p].inst \notin Live,
           r.kind \in {"add", "update"} => r.inst \notin Live
    PROVE  Owned' /\ OrderInv'
<1>1. op[o] = Idle /\ op' = [op EXCEPT ![o] = r] /\ op'[o] = r
      /\ \A x \in Ops : x # o => op'[x] = op[x]
    BY DEF Begin, ProvidersTypeOK
<1>2. Live' = Live /\ \A q \in Ids : Running(q)' = Running(q)
    BY DEF Live, Running
<1>3. \A q \in Ids : q # p => OpsOn(q)' = OpsOn(q)
    BY <1>1 DEF OpsOn, Idle
<1>5. Owned'
    <2>1. \A q \in Ids : (q \in inMap' \/ OpsOn(q)' # {}) /\ entry'[q].inst \in Live' =>
               q \in inMap \/ OpsOn(q) # {}
        BY <1>2, <1>3
    <2>2. \A x \in Ops : op'[x].kind \in {"add", "update"} /\ op'[x].inst \in Live' =>
               op'[x] = op[x] /\ op[x].id \in Ids
        BY <1>1, <1>2, OpKinds
    <2> QED BY <1>2, <2>1, <2>2, OwnedFrame
<1>6. ASSUME NEW q \in Ids, q # p, q \notin clash'
      PROVE  Orderly(q)'
    <2>1. Orderly(q)
        BY <1>6 DEF OrderInv, Begin
    <2>2. \A x \in Ops : x \in OpsOn(q)' \/ x \in OpsOn(q) => op'[x] = op[x]
        BY <1>1, <1>3, <1>6 DEF OpsOn, Idle
    <2> QED BY <1>2, <2>1, <2>2, OrderFrame
<1>7. ASSUME p \notin clash'
      PROVE  Orderly(p)'
    <2>1. p \notin clash /\ \A x \in Ops : ~Clashes(op[x], r)
        BY <1>7 DEF Begin
    <2>2. OpsOn(p) = {}
        BY <2>1 DEF OpsOn, Clashes, Changing
    <2>3. Phase(p, r)'
        BY <2>1, <2>2 DEF OrderInv, Orderly
    <2>4. OpsOn(p)' = {o}
        BY <1>1, <2>2 DEF OpsOn, Changing
    <2>5. Phase(p, op[o])'
        BY <1>1, <2>3 DEF Phase, Calm, Silent, Starting, Running
    <2> QED BY <1>1, <2>4, <2>5 DEF Orderly
<1> QED BY <1>5, <1>6, <1>7 DEF OrderInv

\* A sync begins, goes on or ends.
LEMMA SyncOrder ==
    ASSUME ProvidersTypeOK, Owned, OrderInv, NEW o \in Ops, NEW r,
           op' = [op EXCEPT ![o] = r], r = Idle \/ r.kind = "sync",
           op[o] = Idle \/ op[o].kind = "sync",
           UNCHANGED <<row, entry, inMap, good>>, clash \subseteq clash'
    PROVE  Owned' /\ OrderInv'
<1>1. op'[o] = r /\ \A x \in Ops : x # o => op'[x] = op[x]
    BY DEF ProvidersTypeOK
<1>2. Live' = Live /\ \A q \in Ids : Running(q)' = Running(q)
    BY DEF Live, Running
<1>3. \A q \in Ids : OpsOn(q)' = OpsOn(q) /\ o \notin OpsOn(q)
    BY <1>1 DEF OpsOn, Idle
<1>4. Owned'
    <2>1. \A x \in Ops : op'[x].kind \in {"add", "update"} => op'[x] = op[x] /\ op[x].id \in Ids
        BY <1>1, OpKinds DEF Idle
    <2> QED BY <1>2, <1>3, <2>1, OwnedFrame
<1>5. ASSUME NEW q \in Ids, q \notin clash'
      PROVE  Orderly(q)'
    <2>1. Orderly(q)
        BY <1>5 DEF OrderInv
    <2>2. \A x \in Ops : x \in OpsOn(q)' \/ x \in OpsOn(q) => op'[x] = op[x]
        BY <1>1, <1>3
    <2> QED BY <1>2, <2>1, <2>2, OrderFrame
<1> QED BY <1>4, <1>5 DEF OrderInv

\* What the requests start.
LEMMA BeginsOrder ==
    ASSUME ProvidersTypeOK, Owned, OrderInv, NEW o \in Ops, NEW p \in Ids, OpBegins(o, p)
    PROVE  Owned' /\ OrderInv'
<1>1. None \notin Live
    BY ProvidersAssumption DEF ProvidersTypeOK
<1>2. CASE AddForm(o, p)
    <2>1. PICK r : r = [kind |-> "add", id |-> p, at |-> "insert", inst |-> None]
        OBVIOUS
    <2>2. r.kind = "add" /\ r.id = p /\ r.at = "insert" /\ r.inst = None
        BY <2>1
    <2>3. Begin(o, r) /\ entry[p] = NoEntry /\ p \notin inMap
        BY <1>2, <2>1 DEF AddForm, Add
    <2>4. UNCHANGED <<row, entry, inMap, good, num>>
        BY <1>2 DEF AddForm, Add
    <2>5. entry[p].inst = None /\ entry[p].status # "active"
        BY <2>3 DEF NoEntry
    <2>6. Resting(p) => Phase(p, r)'
        BY <2>2, <2>3, <2>4, <2>5 DEF Resting, Phase, Silent, Running, Live
    <2> QED BY <1>1, <2>2, <2>3, <2>4, <2>5, <2>6, BeginOrder DEF Changing
<1>3. CASE EditForm(o, p)
    <2>1. PICK c \in Changes(p) : Update(o, p, c)
        BY <1>3 DEF EditForm
    <2>2. PICK r : r = [kind |-> "update", id |-> p, at |-> "write",
                        cred |-> c.cred, enabled |-> c.enabled, inst |-> None]
        OBVIOUS
    <2>3. r.kind = "update" /\ r.id = p /\ r.at = "write" /\ r.inst = None
        BY <2>2
    <2>4. Begin(o, r) /\ p \in inMap /\ UNCHANGED <<row, entry, inMap, good, num>>
        BY <2>1, <2>2 DEF Update
    <2>5. Resting(p) => Phase(p, r)'
        BY <2>3, <2>4 DEF Resting, Phase, Calm, Running, Live
    <2> QED BY <1>1, <2>3, <2>4, <2>5, BeginOrder DEF Changing
<1>4. CASE Remove(o, p)
    <2>1. PICK r : r = [kind |-> "remove", id |-> p, at |-> "orphan"]
        OBVIOUS
    <2>2. r.kind = "remove" /\ r.id = p /\ r.at = "orphan"
        BY <2>1
    <2>3. Begin(o, r) /\ p \in inMap /\ UNCHANGED <<row, entry, inMap, good, num>>
        BY <1>4, <2>1 DEF Remove
    <2>4. Resting(p) => Phase(p, r)'
        BY <2>2, <2>3 DEF Resting, Phase, Calm, Running, Live
    <2> QED BY <2>2, <2>3, <2>4, BeginOrder DEF Changing
<1>5. CASE Sync(o, p)
    <2>1. PICK r : r = [kind |-> "sync", id |-> p, at |-> "list", list |-> {},
                        snap |-> [n \in Numbers |-> None], todo |-> {}]
        OBVIOUS
    <2>2. r.kind = "sync" /\ r.id = p
        BY <2>1
    <2>3. Begin(o, r) /\ UNCHANGED <<row, entry, inMap, good, num>>
        BY <1>5, <2>1 DEF Sync
    <2>4. op[o] = Idle /\ op' = [op EXCEPT ![o] = r] /\ clash \subseteq clash'
        BY <2>3 DEF Begin
    <2> QED BY <2>2, <2>3, <2>4, SyncOrder
<1> QED BY <1>2, <1>3, <1>4, <1>5 DEF OpBegins

\* Polls and changes by hand.
LEMMA QuietOrder ==
    ASSUME ProvidersTypeOK, Owned, OrderInv, UNCHANGED <<row, inMap, good, op, clash>>,
           \A p \in Ids : entry'[p].inst = entry[p].inst /\ entry'[p].status = entry[p].status
    PROVE  Owned' /\ OrderInv'
<1>1. Live' = Live /\ \A q \in Ids : Running(q)' = Running(q) /\ OpsOn(q)' = OpsOn(q)
    BY DEF Live, Running, OpsOn
<1>2. Owned'
    BY <1>1, OpKinds, OwnedFrame
<1>3. ASSUME NEW q \in Ids, q \notin clash
      PROVE  Orderly(q)'
    <2>1. Orderly(q)
        BY <1>3 DEF OrderInv
    <2> QED BY <1>1, <2>1, OrderFrame
<1> QED BY <1>2, <1>3 DEF OrderInv

\* reclaimColor() takes a color away and changes nothing else.
LEMMA ReclaimedRows ==
    ASSUME NEW t \in Table, NEW choice, NEW tab \in Reclaimed(t, choice), NEW n \in Numbers
    PROVE  /\ tab[n] # None <=> t[n] # None
           /\ t[n] # None => /\ tab[n].owner = t[n].owner /\ tab[n].active = t[n].active
                             /\ tab[n].color \in {t[n].color, None}
<1>1. CASE tab = t
    BY <1>1
<1>2. CASE \E h \in Holders(t, choice.color, FALSE) : tab = [t EXCEPT ![h].color = None]
    <2>1. PICK h \in Holders(t, choice.color, FALSE) : tab = [t EXCEPT ![h].color = None]
        BY <1>2
    <2>2. t[h] # None /\ t[h] \in NumberRow /\ h \in Numbers
        BY DEF Holders, Table
    <2>3. PICK r : r = [t[h] EXCEPT !.color = None]
        OBVIOUS
    <2>4. tab = [t EXCEPT ![h] = r]
        BY <2>1, <2>3 DEF Table
    <2>5. r \in NumberRow /\ r.owner = t[h].owner /\ r.active = t[h].active /\ r.color = None
        BY <2>2, <2>3 DEF NumberRow
    <2>6. r # None
        BY <2>5, ProvidersAssumption
    <2> QED BY <2>2, <2>4, <2>5, <2>6 DEF Table
<1> QED BY <1>1, <1>2 DEF Reclaimed

\* The operation of a step of syncNumbers.
LEMMA SyncRecord ==
    ASSUME ProvidersTypeOK, NEW o \in Ops,
           \/ SyncList(o) \/ SyncDone(o)
           \/ \E n \in Numbers : SyncNumber(o, n) \/ SyncOrphan(o, n)
    PROVE  op[o] \in SyncOp /\ op[o].kind = "sync" /\ o \in Syncs /\ op[o] # Idle
<1>1. op[o].kind = "sync"
    BY DEF SyncList, SyncDone, SyncNumber, SyncOrphan
<1> QED BY <1>1, OpKinds DEF Syncs, Idle

\* syncNumbers.
LEMMA SyncStepOrder ==
    ASSUME ProvidersTypeOK, Owned, OrderInv, SnapInv, NEW o \in Ops,
           \/ SyncList(o) \/ SyncDone(o)
           \/ \E n \in Numbers : SyncNumber(o, n) \/ SyncOrphan(o, n)
    PROVE  Owned' /\ OrderInv'
<1>1. op[o] \in SyncOp /\ op[o].kind = "sync" /\ o \in Syncs /\ op[o] # Idle
    BY SyncRecord
<1>2. UNCHANGED <<row, entry, inMap, good, clash>>
    BY DEF SyncList, SyncDone, SyncNumber, SyncOrphan
<1>3. op \in [Ops -> Operation]
    BY DEF ProvidersTypeOK
<1>4. ASSUME NEW r, op' = [op EXCEPT ![o] = r], r = Idle \/ r.kind = "sync"
      PROVE  Owned' /\ OrderInv'
    BY <1>1, <1>2, <1>4, SyncOrder
<1>6. CASE SyncList(o)
    <2>1. PICK r : r = [op[o] EXCEPT !.at = "apply", !.list = offers[op[o].id], !.snap = num,
                        !.todo = offers[op[o].id] \cup {n \in Mine(num, op[o].id) : num[n].active}]
        OBVIOUS
    <2>2. op' = [op EXCEPT ![o] = r]
        BY <1>3, <1>6, <2>1 DEF SyncList
    <2>3. r.kind = "sync"
        BY <1>1, <2>1 DEF SyncOp
    <2> QED BY <1>4, <2>2, <2>3
<1>7. CASE SyncDone(o)
    BY <1>4, <1>7 DEF SyncDone, Ends
<1>8. ASSUME NEW n \in Numbers, SyncNumber(o, n)
      PROVE  Owned' /\ OrderInv'
    <2>1. CASE Skips(o, n)
        <3>1. PICK r : r = [op[o] EXCEPT !.todo = op[o].todo \ {n}]
            OBVIOUS
        <3>2. r.kind = "sync"
            BY <1>1, <3>1 DEF SyncOp
        <3> QED BY <1>4, <2>1, <3>1, <3>2 DEF Skips
    <2>2. CASE Ends(o) /\ UNCHANGED <<num, excused>>
        BY <1>4, <2>2 DEF Ends
    <2>3. ASSUME NEW choice, NEW tab, NEW snap, NEW w, Assigns(o, n, choice, tab, snap, w)
          PROVE  Owned' /\ OrderInv'
        <3>1. PICK new : new = [snap EXCEPT ![n] = w]
            OBVIOUS
        <3>2. PICK r : r = [op[o] EXCEPT !.todo = op[o].todo \ {n}, !.snap = new]
            OBVIOUS
        <3>3. op' = [op EXCEPT ![o] = r]
            BY <2>3, <3>1, <3>2 DEF Assigns
        <3>4. r.kind = "sync"
            BY <1>1, <3>2 DEF SyncOp
        <3> QED BY <1>4, <3>3, <3>4
    <2> QED BY <1>8, <2>1, <2>2, <2>3, SyncNumberCases
<1>9. ASSUME NEW n \in Numbers, SyncOrphan(o, n)
      PROVE  Owned' /\ OrderInv'
    <2>1. PICK r : r = [op[o] EXCEPT !.todo = op[o].todo \ {n}]
        OBVIOUS
    <2>2. r.kind = "sync"
        BY <1>1, <2>1 DEF SyncOp
    <2>3. op' = [op EXCEPT ![o] = r]
        BY <1>3, <1>9, <2>1 DEF SyncOrphan
    <2> QED BY <1>4, <2>2, <2>3
<1> QED BY <1>6, <1>7, <1>8, <1>9

\* Polls, changes by hand, and a restart.
LEMMA EventOrder ==
    ASSUME ProvidersTypeOK, Owned, OrderInv,
           \/ \E p \in Ids : Poll(p)
           \/ PollAnswer \/ StatusEdit \/ DefaultEdit
           \/ \E p \in Ids, n \in Numbers : AccountChanges(p, n)
           \/ Restart
    PROVE  Owned' /\ OrderInv'
<1>1. CASE \E p \in Ids : Poll(p)
    BY <1>1, QuietOrder DEF Poll
<1>2. CASE PollAnswer
    <2>1. \A p \in Ids : entry'[p].inst = entry[p].inst /\ entry'[p].status = entry[p].status
        BY <1>2 DEF PollAnswer, ProvidersTypeOK, Entry
    <2> QED BY <1>2, <2>1, QuietOrder DEF PollAnswer
<1>3. CASE StatusEdit
    <2>1. PICK n \in Numbers, active \in BOOLEAN : SetActive(n, active)
        BY <1>3 DEF StatusEdit
    <2> QED BY <2>1, QuietOrder DEF SetActive
<1>4. CASE DefaultEdit
    BY <1>4, QuietOrder DEF DefaultEdit, SetDefault
<1>5. CASE \E p \in Ids, n \in Numbers : AccountChanges(p, n)
    BY <1>5, QuietOrder DEF AccountChanges
<1>6. CASE Restart
    <2> DEFINE up == {p \in Ids : row[p] = "enabled"}
    <2>1. PICK f \in Loads(up) : good' = Loaded(f, entry) /\ entry' = Entries(f, entry)
        BY <1>6 DEF Restart
    <2>2. inMap' = up /\ up \in SUBSET Ids /\ row' = row
        BY <1>6 DEF Restart
    <2>3. \A p \in Ids : p \in up <=> row'[p] = "enabled"
        BY <2>2
    <2> HIDE DEF up
    <2>4. /\ \A p \in Ids : Running(p)' = IF p \in up THEN {f[p]} ELSE {}
          /\ \A p \in up : entry'[p].inst = f[p] /\ entry'[p].status = "active"
        BY <2>1, <2>2, LoadedInstances DEF ProvidersTypeOK, Live, Running
    <2>5. \A o \in Ops : op'[o] = Idle
        BY <1>6 DEF Restart
    <2>6. \A p \in Ids : OpsOn(p)' = {}
        BY <2>5 DEF OpsOn, Idle
    <2>7. Owned'
        BY <2>2, <2>4, <2>5, <2>6 DEF Owned, Idle
    <2>8. \A p \in Ids : Resting(p)'
        BY <2>2, <2>3, <2>4 DEF Resting, Calm, Silent
    <2> QED BY <2>6, <2>7, <2>8 DEF OrderInv, Orderly
<1> QED BY <1>1, <1>2, <1>3, <1>4, <1>5, <1>6

-----------------------------------------------------------------------------
(* Numbers and their colors                                                *)

NumbersInv == RefersInv /\ SnapInv /\ ColorInv

\* A step that leaves the numbers and the syncs under way alone; a row may go
\* that no number refers to.
LEMMA NumbersFrame ==
    ASSUME ProvidersTypeOK, NumbersInv, num' = num, excused' = excused,
           \A p \in Ids : row'[p] = "none" =>
               row[p] = "none" \/ \A n \in Numbers : num[n] # None => num[n].owner # p,
           \A x \in Syncs' : x \in Syncs /\ op'[x] = op[x]
    PROVE  NumbersInv'
<1>1. \A n \in Numbers : num[n] # None /\ num[n].owner # None => num[n].owner \in Ids
    BY DEF ProvidersTypeOK, Table, NumberRow
<1>2. RefersInv'
    BY <1>1 DEF NumbersInv, RefersInv
<1>3. SnapInv'
    BY DEF NumbersInv, SnapInv
<1>4. ColorInv'
    BY DEF NumbersInv, ColorInv, Distinct
<1> QED BY <1>2, <1>3, <1>4 DEF NumbersInv

\* Numbers are changed beside the syncs: owners are dropped, colors are kept.
LEMMA NumbersEdited ==
    ASSUME ProvidersTypeOK, NumbersInv, excused' = Overlaps,
           \A p \in Ids : row'[p] = "none" =>
               row[p] = "none" \/ \A n \in Numbers : num'[n] # None => num'[n].owner # p,
           \A n \in Numbers : /\ num'[n] # None <=> num[n] # None
                              /\ num[n] # None => /\ num'[n].owner \in {num[n].owner, None}
                                                  /\ num'[n].color = num[n].color,
           \A x \in Syncs' : x \in Syncs /\ op'[x] = op[x]
    PROVE  NumbersInv'
<1>1. RefersInv'
    <2>1. \A n \in Numbers : num[n] # None /\ num[n].owner # None => num[n].owner \in Ids
        BY DEF ProvidersTypeOK, Table, NumberRow
    <2> QED BY <2>1 DEF NumbersInv, RefersInv
<1>2. SnapInv'
    BY DEF NumbersInv, SnapInv
<1>3. ColorInv'
    BY DEF NumbersInv, ColorInv, Distinct, Overlaps
<1> QED BY <1>1, <1>2, <1>3 DEF NumbersInv

\* A sync goes on: what it has read stays in the table.
LEMMA SyncGoesOn ==
    ASSUME ProvidersTypeOK, NumbersInv, NEW o \in Syncs, NEW r, op' = [op EXCEPT ![o] = r],
           r.kind = "sync", row' = row, excused => excused',
           \A n \in Numbers : num'[n] # None /\ num'[n].owner # None =>
               \/ num[n] # None /\ num'[n].owner = num[n].owner
               \/ row[num'[n].owner] # "none",
           \A n \in Numbers : num[n] # None => num'[n] # None,
           \A n \in Numbers : r.snap[n] # None \/ n \in r.todo \ r.list => num'[n] # None,
           ~excused' => /\ Distinct(num')
                        /\ r.at = "apply" /\ r.todo \cap r.list # {} => r.snap = num'
    PROVE  NumbersInv'
<1>1. o \in Ops /\ op'[o] = r /\ (\A x \in Ops : x # o => op'[x] = op[x]) /\ Syncs' = Syncs
    BY DEF ProvidersTypeOK, Syncs
<1>2. RefersInv'
    BY DEF NumbersInv, RefersInv
<1>3. SnapInv'
    BY <1>1 DEF NumbersInv, SnapInv, Syncs
<1>4. ColorInv'
    <2>1. SUFFICES ASSUME ~excused'
                   PROVE  /\ Distinct(num')
                          /\ \A a, x \in Syncs : a = x
                          /\ \A a \in Syncs : op'[a].at = "apply" /\ op'[a].todo \cap op'[a].list # {}
                                    => op'[a].snap = num'
        BY <1>1 DEF ColorInv, Distinct
    <2>2. \A a, x \in Syncs : a = x
        BY <2>1 DEF NumbersInv, ColorInv
    <2> QED BY <1>1, <2>1, <2>2
<1> QED BY <1>2, <1>3, <1>4 DEF NumbersInv

\* While a color is free, chooseColor() and reclaimColor() give a number a color
\* that no other number has.
LEMMA ChosenDistinct ==
    ASSUME NEW t \in Table, Distinct(t), Free(t) # {}, NEW n \in Numbers, NEW c,
           c = None \/ (t[n] # None /\ t[n].color = c), NEW choice \in ChooseColor(t, c),
           NEW tab \in Reclaimed(t, choice), NEW snap \in Reclaimed(t, choice)
    PROVE  /\ tab = snap
           /\ \A m \in Numbers : m # n /\ tab[m] # None => tab[m].color # choice.color
           /\ Distinct(tab)
<1>1. choice.color \in Free(t) /\ choice.color \in Colors /\ choice.color # None
    BY ProvidersAssumption DEF ChooseColor, Unused, Free
<1>2. \A m \in Numbers : t[m] # None => t[m].active \in BOOLEAN
    BY DEF Table, NumberRow
<1>3. \A m \in Numbers : t[m] # None /\ t[m].color = choice.color => m \in Holders(t, choice.color, FALSE)
    BY <1>1, <1>2 DEF Free, Holders
<1>4. \A g, h \in Holders(t, choice.color, FALSE) : g = h
    BY <1>1 DEF Holders, Distinct
<1>5. CASE choice.reclaim /\ Holders(t, choice.color, FALSE) # {}
    <2>1. PICK h \in Holders(t, choice.color, FALSE) : tab = [t EXCEPT ![h].color = None]
        BY <1>5 DEF Reclaimed
    <2>2. snap = [t EXCEPT ![h].color = None]
        BY <1>4, <1>5 DEF Reclaimed
    <2>3. t[h] \in NumberRow /\ h \in Numbers
        BY DEF Holders, Table
    <2>4. tab[h].color = None /\ \A m \in Numbers : m # h => tab[m] = t[m]
        BY <2>1, <2>3 DEF Table, NumberRow
    <2>5. \A m \in Numbers : tab[m] # None => tab[m].color # choice.color
        BY <1>1, <1>3, <1>4, <2>4
    <2>6. Distinct(tab)
        BY <2>4 DEF Distinct
    <2> QED BY <2>1, <2>2, <2>5, <2>6
<1>6. CASE ~(choice.reclaim /\ Holders(t, choice.color, FALSE) # {})
    <2>1. tab = t /\ snap = t
        BY <1>6 DEF Reclaimed
    <2>2. \/ choice.color = c /\ c \in Free(t)
          \/ choice.color \in Unused(t)
          \/ choice.reclaim
        BY DEF ChooseColor
    <2>3. \A m \in Numbers : m # n /\ t[m] # None => t[m].color # choice.color
        <3>1. CASE choice.color = c
            BY <1>1, <3>1 DEF Distinct
        <3>2. CASE choice.color \in Unused(t)
            BY <1>3, <3>2 DEF Unused
        <3>3. CASE choice.reclaim
            BY <1>3, <1>6, <3>3
        <3> QED BY <2>2, <3>1, <3>2, <3>3
    <2> QED BY <2>1, <2>3
<1> QED BY <1>5, <1>6

\* A number offered is assigned by the snapshot.
LEMMA SyncNumberNumbers ==
    ASSUME ProvidersTypeOK, NumbersInv, NEW o \in Ops, NEW n \in Numbers, SyncNumber(o, n)
    PROVE  NumbersInv'
<1>1. op[o] \in SyncOp /\ op[o].kind = "sync" /\ o \in Syncs /\ op[o] # Idle
    BY SyncRecord
<1>2. num \in Table /\ row' = row /\ op \in [Ops -> Operation]
    BY DEF ProvidersTypeOK, SyncNumber
<1>3. /\ \A m \in Numbers : op[o].snap[m] # None \/ m \in op[o].todo \ op[o].list => num[m] # None
      /\ ~excused => /\ Distinct(num)
                     /\ op[o].at = "apply" /\ op[o].todo \cap op[o].list # {} => op[o].snap = num
    BY <1>1 DEF NumbersInv, SnapInv, ColorInv
<1>4. CASE Skips(o, n)
    <2>1. PICK r : r = [op[o] EXCEPT !.todo = op[o].todo \ {n}]
        OBVIOUS
    <2>2. /\ r.kind = "sync" /\ r.at = op[o].at /\ r.list = op[o].list /\ r.snap = op[o].snap
          /\ r.todo = op[o].todo \ {n}
        BY <1>1, <2>1 DEF SyncOp
    <2>3. op' = [op EXCEPT ![o] = r] /\ num' = num /\ excused' = excused
        BY <1>4, <2>1 DEF Skips
    <2>4. \A m \in Numbers : r.snap[m] # None \/ m \in r.todo \ r.list => num'[m] # None
        BY <1>3, <2>2, <2>3
    <2>5. \A m \in Numbers : num'[m] # None /\ num'[m].owner # None =>
               num[m] # None /\ num'[m].owner = num[m].owner
        BY <2>3
    <2>6. \A m \in Numbers : num[m] # None => num'[m] # None
        BY <2>3
    <2>7. ~excused' => /\ Distinct(num')
                       /\ r.at = "apply" /\ r.todo \cap r.list # {} => r.snap = num'
        BY <1>3, <2>2, <2>3
    <2> QED BY <1>1, <1>2, <2>2, <2>3, <2>4, <2>5, <2>6, <2>7, SyncGoesOn
<1>5. CASE Ends(o) /\ UNCHANGED <<num, excused>>
    <2>1. \A x \in Syncs' : x \in Syncs /\ op'[x] = op[x]
        BY <1>2, <1>5 DEF Ends, Syncs, Idle
    <2> QED BY <1>2, <1>5, <2>1, NumbersFrame
<1>6. ASSUME NEW choice, NEW tab \in Table, NEW snap \in Table, NEW w \in NumberRow,
             Assigns(o, n, choice, tab, snap, w), w.color = choice.color,
             \/ num[n] # None /\ w.owner = num[n].owner
             \/ row[op[o].id] # "none" /\ w.owner = op[o].id
      PROVE  NumbersInv'
    <2>1. PICK new : new = [snap EXCEPT ![n] = w]
        OBVIOUS
    <2>2. PICK r : r = [op[o] EXCEPT !.todo = op[o].todo \ {n}, !.snap = new]
        OBVIOUS
    <2>3. /\ op' = [op EXCEPT ![o] = r] /\ num' = [tab EXCEPT ![n] = w]
          /\ excused' = (excused \/ Free(op[o].snap) = {})
          /\ tab \in Reclaimed(num, choice) /\ snap \in Reclaimed(op[o].snap, choice)
        BY <1>6, <2>1, <2>2 DEF Assigns
    <2>4. /\ r.kind = "sync" /\ r.at = op[o].at /\ r.list = op[o].list /\ r.snap = new
          /\ r.todo = op[o].todo \ {n}
        BY <1>1, <2>2 DEF SyncOp
    <2>5. /\ \A m \in Numbers : tab[m] # None <=> num[m] # None
          /\ \A m \in Numbers : num[m] # None => tab[m].owner = num[m].owner
          /\ \A m \in Numbers : snap[m] # None <=> op[o].snap[m] # None
        BY <1>1, <1>2, <2>3, ReclaimedRows DEF SyncOp
    <2>6. /\ \A m \in Numbers : num'[m] = IF m = n THEN w ELSE tab[m]
          /\ \A m \in Numbers : new[m] = IF m = n THEN w ELSE snap[m]
          /\ w # None
        BY <2>1, <2>3, ProvidersAssumption DEF Table
    <2>7. \A m \in Numbers : num[m] # None => num'[m] # None
        BY <2>5, <2>6
    <2>8. \A m \in Numbers : r.snap[m] # None \/ m \in r.todo \ r.list => num'[m] # None
        BY <1>3, <2>4, <2>5, <2>6
    <2>9. ASSUME NEW m \in Numbers, num'[m] # None, num'[m].owner # None
          PROVE  \/ num[m] # None /\ num'[m].owner = num[m].owner
                 \/ row[num'[m].owner] # "none"
        BY <1>6, <2>5, <2>6, <2>9
    <2>10. ASSUME ~excused'
           PROVE  Distinct(num') /\ r.snap = num'
        <3>1. ~excused /\ Free(op[o].snap) # {}
            BY <2>3, <2>10
        <3>2. op[o].at = "apply" /\ n \in op[o].todo \cap op[o].list
            BY DEF SyncNumber
        <3>3. op[o].snap = num /\ Distinct(num)
            BY <1>3, <3>1, <3>2
        <3> DEFINE c == IF n \in Mine(num, op[o].id) THEN num[n].color ELSE None
        <3>4. choice \in ChooseColor(num, c) /\ (c = None \/ (num[n] # None /\ num[n].color = c))
            BY <1>6, <3>3 DEF Assigns, Mine
        <3> HIDE DEF c
        <3>5. /\ tab = snap
              /\ \A m \in Numbers : m # n /\ tab[m] # None => tab[m].color # choice.color
              /\ Distinct(tab)
            BY <1>2, <2>3, <3>1, <3>3, <3>4, ChosenDistinct
        <3>6. \A a, b \in Numbers : a # b /\ num'[a] # None /\ num'[b] # None /\ num'[a].color # None
                                    => num'[a].color # num'[b].color
            BY <1>6, <2>6, <3>5 DEF Distinct
        <3> QED BY <2>1, <2>3, <2>4, <3>5, <3>6 DEF Distinct
    <2> QED BY <1>1, <1>2, <2>3, <2>4, <2>7, <2>8, <2>9, <2>10, SyncGoesOn
<1> QED BY <1>4, <1>5, <1>6, SyncNumberCases DEF NumbersInv

\* syncNumbers.
LEMMA SyncNumbers ==
    ASSUME ProvidersTypeOK, NumbersInv, NEW o \in Ops,
           \/ SyncList(o) \/ SyncDone(o)
           \/ \E n \in Numbers : SyncNumber(o, n) \/ SyncOrphan(o, n)
    PROVE  NumbersInv'
<1>1. op[o] \in SyncOp /\ op[o].kind = "sync" /\ o \in Syncs /\ op[o] # Idle
    BY SyncRecord
<1>2. num \in Table /\ op \in [Ops -> Operation]
    BY DEF ProvidersTypeOK
<1>3. /\ \A m \in Numbers : op[o].snap[m] # None \/ m \in op[o].todo \ op[o].list => num[m] # None
      /\ ~excused => Distinct(num)
    BY <1>1 DEF NumbersInv, SnapInv, ColorInv
<1>4. CASE SyncList(o)
    <2>1. PICK r : r = [op[o] EXCEPT !.at = "apply", !.list = offers[op[o].id], !.snap = num,
                        !.todo = offers[op[o].id] \cup {n \in Mine(num, op[o].id) : num[n].active}]
        OBVIOUS
    <2>2. op' = [op EXCEPT ![o] = r] /\ num' = num /\ row' = row /\ excused' = excused
        BY <1>2, <1>4, <2>1 DEF SyncList
    <2>3. r.kind = "sync" /\ r.snap = num /\ r.todo \ r.list \subseteq Mine(num, op[o].id)
        BY <1>1, <2>1 DEF SyncOp
    <2>4. \A m \in Numbers : r.snap[m] # None \/ m \in r.todo \ r.list => num[m] # None
        BY <2>3 DEF Mine
    <2> QED BY <1>1, <1>3, <2>2, <2>3, <2>4, SyncGoesOn
<1>5. CASE SyncDone(o)
    <2>1. \A x \in Syncs' : x \in Syncs /\ op'[x] = op[x]
        BY <1>2, <1>5 DEF SyncDone, Ends, Syncs, Idle
    <2>2. row' = row /\ num' = num /\ excused' = excused
        BY <1>5 DEF SyncDone
    <2> QED BY <2>1, <2>2, NumbersFrame
<1>6. ASSUME NEW n \in Numbers, SyncOrphan(o, n)
      PROVE  NumbersInv'
    <2>1. PICK r : r = [op[o] EXCEPT !.todo = op[o].todo \ {n}]
        OBVIOUS
    <2>2. r.kind = "sync" /\ r.list = op[o].list /\ r.snap = op[o].snap /\ r.todo = op[o].todo \ {n}
        BY <1>1, <2>1 DEF SyncOp
    <2>3. op' = [op EXCEPT ![o] = r] /\ row' = row /\ excused' = excused
        BY <1>2, <1>6, <2>1 DEF SyncOrphan
    <2>4. num[n] # None /\ num[n] \in NumberRow /\ op[o].todo \cap op[o].list = {}
        BY <1>2, <1>3, <1>6 DEF SyncOrphan, Table
    <2>5. PICK w : w = [num[n] EXCEPT !.active = FALSE, !.owner = None]
        OBVIOUS
    <2>6. w \in NumberRow /\ w.owner = None /\ w.color = num[n].color
        BY <2>4, <2>5 DEF NumberRow
    <2>7. num' = [num EXCEPT ![n] = w]
        BY <1>2, <1>6, <2>5 DEF SyncOrphan, Table
    <2>8. w # None /\ \A m \in Numbers : num'[m] = IF m = n THEN w ELSE num[m]
        BY <1>2, <2>6, <2>7, ProvidersAssumption DEF Table
    <2>9. \A m \in Numbers : num'[m] # None /\ num'[m].owner # None =>
               num[m] # None /\ num'[m].owner = num[m].owner
        BY <2>6, <2>8
    <2>10. \A m \in Numbers : r.snap[m] # None \/ m \in r.todo \ r.list => num'[m] # None
        BY <1>3, <2>2, <2>8
    <2>11. Distinct(num) => Distinct(num')
        BY <2>4, <2>6, <2>8 DEF Distinct
    <2>12. r.todo \cap r.list = {}
        BY <2>2, <2>4
    <2> QED BY <1>1, <1>3, <2>2, <2>3, <2>8, <2>9, <2>10, <2>11, <2>12, SyncGoesOn
<1> QED BY <1>4, <1>5, <1>6, SyncNumberNumbers

\* The requests: only a sync counts as one.
LEMMA BeginsNumbers ==
    ASSUME ProvidersTypeOK, NumbersInv, NEW o \in Ops, NEW p \in Ids, OpBegins(o, p)
    PROVE  NumbersInv'
<1>1. ASSUME NEW r, Begin(o, r), r.kind # "sync", UNCHANGED <<row, num, excused>>
      PROVE  NumbersInv'
    <2>1. \A x \in Syncs' : x \in Syncs /\ op'[x] = op[x]
        BY <1>1 DEF Begin, Syncs, ProvidersTypeOK
    <2> QED BY <1>1, <2>1, NumbersFrame
<1>2. CASE AddForm(o, p)
    <2>1. PICK r : r = [kind |-> "add", id |-> p, at |-> "insert", inst |-> None]
        OBVIOUS
    <2>2. r.kind = "add" /\ Begin(o, r)
        BY <1>2, <2>1 DEF AddForm, Add
    <2> QED BY <1>1, <1>2, <2>2 DEF AddForm, Add
<1>3. CASE EditForm(o, p)
    <2>1. PICK c \in Changes(p) : Update(o, p, c)
        BY <1>3 DEF EditForm
    <2>2. PICK r : r = [kind |-> "update", id |-> p, at |-> "write",
                        cred |-> c.cred, enabled |-> c.enabled, inst |-> None]
        OBVIOUS
    <2>3. r.kind = "update" /\ Begin(o, r)
        BY <2>1, <2>2 DEF Update
    <2> QED BY <1>1, <2>1, <2>3 DEF Update
<1>4. CASE Remove(o, p)
    <2>1. PICK r : r = [kind |-> "remove", id |-> p, at |-> "orphan"]
        OBVIOUS
    <2>2. r.kind = "remove" /\ Begin(o, r)
        BY <1>4, <2>1 DEF Remove
    <2> QED BY <1>1, <1>4, <2>2 DEF Remove
<1>5. CASE Sync(o, p)
    <2>1. PICK r : r = [kind |-> "sync", id |-> p, at |-> "list", list |-> {},
                        snap |-> [n \in Numbers |-> None], todo |-> {}]
        OBVIOUS
    <2>2. r.at = "list" /\ r.todo = {} /\ \A n \in Numbers : r.snap[n] = None
        BY <2>1
    <2>3. Begin(o, r) /\ row' = row /\ num' = num /\ excused' = Overlaps
        BY <1>5, <2>1 DEF Sync
    <2>4. op[o] = Idle /\ op'[o] = r /\ \A x \in Ops : x # o => op'[x] = op[x]
        BY <2>3 DEF Begin, ProvidersTypeOK
    <2>5. \A x \in Syncs' : x = o \/ (x \in Syncs /\ op'[x] = op[x])
        BY <2>4 DEF Syncs
    <2>6. RefersInv'
        BY <2>3 DEF NumbersInv, RefersInv
    <2>7. SnapInv'
        BY <2>2, <2>3, <2>4, <2>5 DEF NumbersInv, SnapInv
    <2>8. ColorInv'
        BY <2>2, <2>3, <2>4, <2>5 DEF NumbersInv, ColorInv, Distinct, Overlaps
    <2> QED BY <2>6, <2>7, <2>8 DEF NumbersInv
<1> QED BY <1>2, <1>3, <1>4, <1>5 DEF OpBegins

\* addProvider, updateProvider and removeProvider.
LEMMA OpNumbers ==
    ASSUME ProvidersTypeOK, NumbersInv, NEW o \in Ops,
           \/ AddInsert(o) \/ AddStarted(o)
           \/ UpdateWrite(o) \/ UpdateStopped(o) \/ UpdateStarted(o) \/ ProbeNew(o)
           \/ RemoveOrphan(o) \/ RemoveDelete(o) \/ RemoveRejects(o)
    PROVE  NumbersInv'
<1>1. op \in [Ops -> Operation] /\ op[o].kind # "sync"
    BY DEF ProvidersTypeOK, AddInsert, AddStarted, UpdateWrite, UpdateStopped, UpdateStarted,
           ProbeNew, RemoveOrphan, RemoveDelete, RemoveRejects
<1>2. \A x \in Ops : x # o => op'[x] = op[x]
    BY <1>1 DEF AddInsert, AddStarted, UpdateWrite, UpdateStopped, UpdateStarted,
           ProbeNew, RemoveOrphan, RemoveDelete, RemoveRejects, Ends
<1>3. op'[o].kind # "sync"
    <2>1. CASE op' = [op EXCEPT ![o] = Idle]
        BY <1>1, <2>1 DEF Idle
    <2>2. CASE AddInsert(o) \/ AddStarted(o) \/ UpdateStopped(o) \/ UpdateStarted(o)
        <3>1. op[o] \in AddOp \cup ChangeOp
            BY <2>2, OpKinds DEF AddInsert, AddStarted, UpdateStopped, UpdateStarted
        <3>2. \A a, i : /\ [op[o] EXCEPT !.at = a, !.inst = i].kind # "sync"
                        /\ [op[o] EXCEPT !.at = a].kind # "sync"
            BY <3>1 DEF AddOp, ChangeOp
        <3>3. ASSUME NEW i, op' = [op EXCEPT ![o].at = "start", ![o].inst = i]
              PROVE  op'[o].kind # "sync"
            BY <1>1, <3>2, <3>3
        <3>4. CASE op' = [op EXCEPT ![o].at = "check"]
            BY <1>1, <3>2, <3>4
        <3>5. CASE AddInsert(o) \/ UpdateStopped(o)
            BY <2>1, <3>3, <3>5 DEF AddInsert, UpdateStopped, Ends
        <3>6. CASE AddStarted(o) \/ UpdateStarted(o)
            BY <2>1, <3>4, <3>6 DEF AddStarted, UpdateStarted, Ends
        <3> QED BY <2>2, <3>5, <3>6
    <2>3. CASE UpdateWrite(o)
        BY <1>1, <2>3 DEF UpdateWrite
    <2>4. CASE RemoveOrphan(o)
        <3>1. op[o] \in RemoveOp
            BY <2>4, OpKinds DEF RemoveOrphan
        <3>2. [op[o] EXCEPT !.at = "delete"].kind = "remove"
            BY <3>1 DEF RemoveOp
        <3> QED BY <1>1, <2>4, <3>2 DEF RemoveOrphan
    <2>5. CASE ProbeNew(o) \/ RemoveDelete(o) \/ RemoveRejects(o)
        BY <2>1, <2>5 DEF ProbeNew, RemoveDelete, RemoveRejects, Ends
    <2> QED BY <2>2, <2>3, <2>4, <2>5
<1>4. \A x \in Syncs' : x \in Syncs /\ op'[x] = op[x]
    BY <1>2, <1>3 DEF Syncs
<1>5. CASE \/ AddInsert(o) \/ AddStarted(o)
           \/ UpdateWrite(o) \/ UpdateStopped(o) \/ UpdateStarted(o) \/ ProbeNew(o)
    <2>1. num' = num /\ excused' = excused
        BY <1>5 DEF AddInsert, AddStarted, UpdateWrite, UpdateStopped, UpdateStarted, ProbeNew
    <2>2. \A p \in Ids : row'[p] = "none" => row[p] = "none"
        BY <1>5 DEF AddInsert, AddStarted, UpdateWrite, UpdateStopped, UpdateStarted, ProbeNew,
                    ProvidersTypeOK
    <2> QED BY <1>4, <2>1, <2>2, NumbersFrame
<1>6. CASE RemoveOrphan(o)
    <2>1. ASSUME NEW n \in Numbers
          PROVE  /\ num'[n] # None <=> num[n] # None
                 /\ num[n] # None => /\ num'[n].owner \in {num[n].owner, None}
                                     /\ num'[n].color = num[n].color
        <3>1. CASE num[n] # None /\ num[n].owner = op[o].id
            <4>1. PICK w : w = [num[n] EXCEPT !.owner = None, !.active = FALSE]
                OBVIOUS
            <4>2. num'[n] = w
                BY <1>6, <3>1, <4>1 DEF RemoveOrphan
            <4>3. w \in NumberRow /\ w.owner = None /\ w.color = num[n].color
                BY <3>1, <4>1 DEF ProvidersTypeOK, Table, NumberRow
            <4> QED BY <3>1, <4>2, <4>3, ProvidersAssumption
        <3>2. CASE ~(num[n] # None /\ num[n].owner = op[o].id)
            BY <1>6, <3>2 DEF RemoveOrphan
        <3> QED BY <3>1, <3>2
    <2>2. row' = row /\ excused' = Overlaps
        BY <1>6 DEF RemoveOrphan
    <2> QED BY <1>4, <2>1, <2>2, NumbersEdited
<1>7. CASE RemoveDelete(o)
    <2>1. ASSUME NEW n \in Numbers
          PROVE  /\ num'[n] # None <=> num[n] # None
                 /\ num[n] # None => /\ num'[n].owner \in {num[n].owner, None}
                                     /\ num'[n].color = num[n].color
                                     /\ op[o].id \in Ids => num'[n].owner # op[o].id
        <3>1. CASE num[n] # None /\ num[n].owner = op[o].id
            <4>1. PICK w : w = [num[n] EXCEPT !.owner = None]
                OBVIOUS
            <4>2. num'[n] = w
                BY <1>7, <3>1, <4>1 DEF RemoveDelete
            <4>3. w \in NumberRow /\ w.owner = None /\ w.color = num[n].color
                BY <3>1, <4>1 DEF ProvidersTypeOK, Table, NumberRow
            <4> QED BY <3>1, <4>2, <4>3, ProvidersAssumption
        <3>2. CASE ~(num[n] # None /\ num[n].owner = op[o].id)
            BY <1>7, <3>2 DEF RemoveDelete
        <3> QED BY <3>1, <3>2
    <2>2. \A p \in Ids : row'[p] = "none" =>
               row[p] = "none" \/ \A n \in Numbers : num'[n] # None => num'[n].owner # p
        BY <1>7, <2>1 DEF RemoveDelete, ProvidersTypeOK
    <2>3. CASE num' = num
        <3>1. excused' = excused
            BY <1>7, <2>3 DEF RemoveDelete, ProvidersTypeOK
        <3> QED BY <1>4, <2>2, <2>3, <3>1, NumbersFrame
    <2>4. CASE num' # num
        <3>1. excused' = Overlaps
            BY <1>7, <2>4 DEF RemoveDelete, Overlaps
        <3> QED BY <1>4, <2>1, <2>2, <3>1, NumbersEdited
    <2> QED BY <2>3, <2>4
<1>8. CASE RemoveRejects(o)
    <2>1. row' = row /\ num' = num /\ excused' = excused
        BY <1>8 DEF RemoveRejects
    <2> QED BY <1>4, <2>1, NumbersFrame
<1> QED BY <1>5, <1>6, <1>7, <1>8

\* Polls, changes by hand, and a restart.
LEMMA EventNumbers ==
    ASSUME ProvidersTypeOK, NumbersInv,
           \/ \E p \in Ids : Poll(p)
           \/ PollAnswer \/ StatusEdit \/ DefaultEdit
           \/ \E p \in Ids, n \in Numbers : AccountChanges(p, n)
           \/ Restart
    PROVE  NumbersInv'
<1>1. CASE StatusEdit
    <2>1. PICK n \in Numbers, active \in BOOLEAN : SetActive(n, active)
        BY <1>1 DEF StatusEdit
    <2>2. num[n] \in NumberRow /\ num[n] # None
        BY <2>1 DEF SetActive, ProvidersTypeOK, Table
    <2>3. PICK w : w = [num[n] EXCEPT !.active = active]
        OBVIOUS
    <2>4. w \in NumberRow /\ w.owner = num[n].owner /\ w.color = num[n].color
        BY <2>2, <2>3 DEF NumberRow
    <2>5. \A m \in Numbers : num'[m] = IF m = n THEN w ELSE num[m]
        BY <2>1, <2>3 DEF SetActive, Activated, ProvidersTypeOK, Table
    <2>6. w # None
        BY <2>4, ProvidersAssumption
    <2>7. \A x \in Syncs' : x \in Syncs /\ op'[x] = op[x]
        BY <2>1 DEF SetActive, Syncs
    <2>8. row' = row /\ excused' = Overlaps
        BY <2>1 DEF SetActive
    <2> QED BY <2>2, <2>4, <2>5, <2>6, <2>7, <2>8, NumbersEdited
<1>2. CASE Restart
    <2>1. Syncs' = {}
        BY <1>2 DEF Restart, Syncs, Idle
    <2> QED BY <1>2, <2>1, NumbersFrame DEF Restart
<1>3. CASE \/ \E p \in Ids : Poll(p)
           \/ PollAnswer \/ DefaultEdit
           \/ \E p \in Ids, n \in Numbers : AccountChanges(p, n)
    <2>1. UNCHANGED <<row, num, op, excused>>
        BY <1>3 DEF Poll, PollAnswer, DefaultEdit, SetDefault, AccountChanges
    <2> QED BY <2>1, NumbersFrame DEF Syncs
<1> QED BY <1>1, <1>2, <1>3

-----------------------------------------------------------------------------
(* The invariant                                                           *)

\* What loadAll() leaves at the first start.
LEMMA ProvidersInit ==
    ASSUME Init
    PROVE  ProvidersInv
<1>1. NoEntry.inst = None /\ NoEntry \in Entry /\ NoEntry.status = "unavailable"
    BY DEF NoEntry, Entry
<1>2. PICK fresh : fresh = [p \in Ids |-> NoEntry]
    OBVIOUS
<1>3. PICK up \in SUBSET Ids : \E f \in Loads(up) :
          /\ row = [p \in Ids |-> IF p \in up THEN "enabled" ELSE "none"]
          /\ entry = Entries(f, fresh) /\ inMap = up /\ good = Loaded(f, fresh)
    BY <1>2 DEF Init
<1>4. PICK f \in Loads(up) :
          /\ row = [p \in Ids |-> IF p \in up THEN "enabled" ELSE "none"]
          /\ entry = Entries(f, fresh) /\ inMap = up /\ good = Loaded(f, fresh)
    BY <1>3
<1>5. /\ num = [n \in Numbers |-> None] /\ offers \in [Ids -> SUBSET Numbers]
      /\ op = [o \in Ops |-> Idle] /\ checks = {} /\ clash = {} /\ excused = FALSE
    BY DEF Init
<1>6. fresh \in [Ids -> Entry]
    BY <1>1, <1>2
<1>7. /\ entry \in [Ids -> Entry] /\ Live \subseteq Insts /\ good \in [Live -> Instance]
      /\ \A p \in Ids : Running(p) = IF p \in up THEN {f[p]} ELSE {}
      /\ \A p \in up : entry[p].inst = f[p] /\ entry[p].status = "active"
    BY <1>4, <1>6, LoadedInstances DEF Live, Running
<1>8. ProvidersTypeOK
    BY <1>4, <1>5, <1>7 DEF ProvidersTypeOK, Table, Operation
<1>9. (\A p \in Ids : OpsOn(p) = {}) /\ Syncs = {} /\ \A o \in Ops : op[o].kind = "none"
    BY <1>5 DEF OpsOn, Syncs, Idle
<1>10. Owned
    BY <1>4, <1>7, <1>9 DEF Owned
<1>11. OrderInv
    BY <1>4, <1>7, <1>9 DEF OrderInv, Orderly, Resting, Calm, Silent
<1>12. RefersInv /\ SnapInv /\ ColorInv
    BY <1>5, <1>9 DEF RefersInv, SnapInv, ColorInv, Distinct
<1> QED BY <1>8, <1>10, <1>11, <1>12 DEF ProvidersInv

\* Every step keeps the invariant.
LEMMA ProvidersStep ==
    ASSUME ProvidersInv, Next
    PROVE  ProvidersInv'
<1>1. ProvidersTypeOK /\ Owned /\ OrderInv /\ NumbersInv
    BY DEF ProvidersInv, NumbersInv
<1>2. SUFFICES ProvidersTypeOK' /\ Owned' /\ OrderInv' /\ NumbersInv'
    BY DEF ProvidersInv, NumbersInv
<1>3. ASSUME NEW o \in Ops, NEW p \in Ids, OpBegins(o, p)
      PROVE  ProvidersTypeOK' /\ Owned' /\ OrderInv' /\ NumbersInv'
    BY <1>1, <1>3, BeginsType, BeginsOrder, BeginsNumbers
<1>4. ASSUME NEW o \in Ops, \/ AddInsert(o) \/ AddStarted(o)
                            \/ UpdateWrite(o) \/ UpdateStopped(o) \/ UpdateStarted(o) \/ ProbeNew(o)
                            \/ RemoveOrphan(o) \/ RemoveDelete(o) \/ RemoveRejects(o)
      PROVE  ProvidersTypeOK' /\ Owned' /\ OrderInv' /\ NumbersInv'
    <2>1. op[o].kind \in Changing /\ op[o].kind # "none"
        BY <1>4 DEF Changing, AddInsert, AddStarted, UpdateWrite, UpdateStopped, UpdateStarted,
                    ProbeNew, RemoveOrphan, RemoveDelete, RemoveRejects
    <2>2. PICK p \in Ids : o \in OpsOn(p)
        BY <1>1, <2>1, OpKinds DEF OpsOn, Changing
    <2>3. Owned' /\ OrderInv'
        BY <1>1, <1>4, <2>2, AddInsertOrder, AddStartedOrder, UpdateWriteOrder, UpdateStoppedOrder,
           UpdateStartedOrder, ProbeNewOrder, RemoveOrphanOrder, RemoveDeleteOrder,
           RemoveRejectsOrder
    <2>4. ProvidersTypeOK'
        BY <1>1, <1>4, ChangeType, RemoveType
    <2>5. NumbersInv'
        BY <1>1, <1>4, OpNumbers
    <2> QED BY <2>3, <2>4, <2>5
<1>5. ASSUME NEW o \in Ops, \/ SyncList(o) \/ SyncDone(o)
                            \/ \E n \in Numbers : SyncNumber(o, n) \/ SyncOrphan(o, n)
      PROVE  ProvidersTypeOK' /\ Owned' /\ OrderInv' /\ NumbersInv'
    <2>1. SnapInv
        BY <1>1 DEF NumbersInv
    <2> QED BY <1>1, <1>5, <2>1, SyncType, SyncStepOrder, SyncNumbers
<1>6. CASE \/ \E p \in Ids : Poll(p)
           \/ PollAnswer \/ StatusEdit \/ DefaultEdit
           \/ \E p \in Ids, n \in Numbers : AccountChanges(p, n)
           \/ Restart
    BY <1>1, <1>6, EventType, EventOrder, EventNumbers
<1> QED BY <1>3, <1>4, <1>5, <1>6 DEF Next, OpStep

\* The inductive invariant of addProvider, updateProvider, removeProvider,
\* syncNumbers, the polls and the numbers routes.
THEOREM ProvidersInvariant == Spec => []ProvidersInv
<1>1. ASSUME ProvidersInv, UNCHANGED vars
      PROVE  ProvidersInv'
    BY <1>1 DEF vars, ProvidersInv, ProvidersTypeOK, Owned, OrderInv, RefersInv, SnapInv, ColorInv,
               Orderly, Resting, Phase, Calm, Silent, Starting, Running, Live, OpsOn, Syncs, Distinct
<1>2. ProvidersInv /\ [Next]_vars => ProvidersInv'
    BY <1>1, ProvidersStep
<1> QED BY <1>2, ProvidersInit, PTL DEF Spec

\* Rows, entries, instances and operations stay well-typed.
THEOREM ProvidersTypeCorrect == Spec => []ProvidersTypeOK
<1>1. ProvidersInv => ProvidersTypeOK
    BY DEF ProvidersInv
<1> QED BY <1>1, ProvidersInvariant, PTL

\* Between the operations of the registry, an active entry's instance runs and
\* no other instance of the provider does.
THEOREM EntriesMatch == Spec => []InstancesMatchEntries
<1>1. ASSUME ProvidersInv
      PROVE  InstancesMatchEntries
    <2> SUFFICES ASSUME NEW p \in Ids \ clash, OpsOn(p) = {}
                 PROVE  /\ p \in inMap => (entry[p].status = "active" <=> entry[p].inst \in Live)
                        /\ \A i \in Live : good[i].id = p => p \in inMap /\ entry[p].inst = i
        BY DEF InstancesMatchEntries
    <2>1. Resting(p)
        BY <1>1 DEF ProvidersInv, OrderInv, Orderly
    <2>2. p \in inMap /\ entry[p].inst \in Live => entry[p].inst \in Running(p)
        BY <1>1 DEF ProvidersInv, Owned
    <2> QED BY <2>1, <2>2 DEF Resting, Calm, Silent, Running
<1> QED BY <1>1, ProvidersInvariant, PTL

\* syncNumbers and the numbers page leave numbers in use with colors of their own.
THEOREM ColorsKept == Spec => []ColorsDistinct
<1>1. ProvidersInv => ColorsDistinct
    BY DEF ProvidersInv, ColorInv, Distinct, ColorsDistinct
<1> QED BY <1>1, ProvidersInvariant, PTL

\* getDefaultNumber() answers a number whose provider can be called through.
THEOREM DefaultCallable == Spec => []DefaultRoutes
<1>1. ASSUME ProvidersInv
      PROVE  DefaultRoutes
    <2> SUFFICES ASSUME NEW n \in DefaultNumber
                 PROVE  \E p \in Ids :
                    /\ num[n].owner = p
                    /\ (/\ row[p] # "disabled" /\ p \notin clash /\ OpsOn(p) = {}
                        /\ p \in inMap => entry[p].status = "active")
                       => ProviderFor(n) = "entry" /\ entry[p].inst \in Live
        BY DEF DefaultRoutes
    <2>1. n \in Numbers /\ num[n] # None /\ num[n].owner # None
        BY DEF DefaultNumber, InUse
    <2>2. PICK p \in Ids : num[n].owner = p
        BY <1>1, <2>1 DEF ProvidersInv, ProvidersTypeOK, Table, NumberRow
    <2>3. row[p] \in {"enabled", "disabled"}
        BY <1>1, <2>1, <2>2 DEF ProvidersInv, RefersInv, ProvidersTypeOK
    <2>4. ASSUME row[p] # "disabled", p \notin clash, OpsOn(p) = {},
                 p \in inMap => entry[p].status = "active"
          PROVE  ProviderFor(n) = "entry" /\ entry[p].inst \in Live
        <3>1. Resting(p)
            BY <1>1, <2>4 DEF ProvidersInv, OrderInv, Orderly
        <3>2. p \in inMap /\ entry[p].status = "active" /\ entry[p].inst \in Live
            BY <2>3, <2>4, <3>1 DEF Resting, Calm, Running
        <3>3. entry[p].inst # None
            BY <1>1, <3>2, ProvidersAssumption DEF ProvidersInv, ProvidersTypeOK
        <3> QED BY <2>2, <3>2, <3>3 DEF ProviderFor
    <2> QED BY <2>2, <2>4
<1> QED BY <1>1, ProvidersInvariant, PTL
=============================================================================
