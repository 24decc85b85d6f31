------------------------- MODULE InboundSmsProofs -------------------------
(***************************************************************************)
(* Machine-checked proofs about InboundSms: the SMS path implements        *)
(* SmsService whatever fails, crashes or is delivered again, and loses     *)
(* nothing (NothingLost) as long as the disk and the modem do as they are  *)
(* told and the buffers are large enough.                                  *)
(***************************************************************************)
EXTENDS InboundSms, FiniteSetTheorems, SequenceTheorems, TLAPS

-----------------------------------------------------------------------------
(* The buffer.  What an operation leaves in memory and in the file was     *)
(* there before, or is what was pushed.                                    *)

Below(S, i) == {j \in S : j < i}

\* A map from a set to as many numbers that takes none twice takes each.
LEMMA RanksTaken ==
    ASSUME NEW S, IsFiniteSet(S), NEW rank \in [S -> 0..(Cardinality(S) - 1)],
           \A i, j \in S : rank[i] = rank[j] => i = j
    PROVE  \A n \in 0..(Cardinality(S) - 1) : \E i \in S : rank[i] = n
<1> DEFINE T == 0..(Cardinality(S) - 1)
<1>1. Cardinality(S) \in Nat
    BY FS_CardinalityType
<1>2. IsFiniteSet(T) /\ Cardinality(T) = Cardinality(S)
    BY <1>1, FS_Interval
<1>3. rank \in Injection(S, T)
    BY DEF Injection, IsInjective
<1>4. rank \in Surjection(S, T)
    BY <1>2, <1>3, FS_Injection
<1> QED BY <1>4 DEF Surjection

\* In a finite set of numbers, each has as many below it as its place says.
LEMMA BelowRank ==
    ASSUME NEW S \in SUBSET Int, IsFiniteSet(S)
    PROVE  /\ Cardinality(S) \in Nat
           /\ \A i \in S : Cardinality(Below(S, i)) \in 0..(Cardinality(S) - 1)
           /\ \A i, j \in S : Cardinality(Below(S, i)) = Cardinality(Below(S, j)) => i = j
           /\ \A n \in 1..Cardinality(S) : \E i \in S : Cardinality(Below(S, i)) = n - 1
<1>0. Cardinality(S) \in Nat
    BY FS_CardinalityType
<1>1. \A i \in S : Below(S, i) \in SUBSET S /\ IsFiniteSet(Below(S, i)) /\ Below(S, i) # S
    BY FS_Subset DEF Below
<1>2. \A i \in S : Cardinality(Below(S, i)) \in 0..(Cardinality(S) - 1)
    BY <1>1, FS_Subset, FS_CardinalityType
<1>3. ASSUME NEW i \in S, NEW j \in S, i < j
      PROVE  Cardinality(Below(S, i)) < Cardinality(Below(S, j))
    <2>1. Below(S, i) \subseteq Below(S, j)
        <3> SUFFICES ASSUME NEW x \in Below(S, i) PROVE x \in Below(S, j)
            OBVIOUS
        <3>1. x \in S /\ x \in Int /\ i \in Int /\ j \in Int /\ x < i
            BY DEF Below
        <3> QED BY <1>3, <3>1 DEF Below
    <2>2. i \in Below(S, j) /\ i \notin Below(S, i)
        BY <1>3 DEF Below
    <2> QED BY <1>1, <2>1, <2>2, FS_Subset, FS_CardinalityType
<1>4. ASSUME NEW i \in S, NEW j \in S, Cardinality(Below(S, i)) = Cardinality(Below(S, j))
      PROVE  i = j
    <2>1. Cardinality(Below(S, i)) \in Int /\ Cardinality(Below(S, j)) \in Int
        BY <1>2
    <2>2. ~(i < j) /\ ~(j < i)
        BY <1>3, <1>4, <2>1
    <2> QED BY <2>2
<1>5. ASSUME NEW n \in 1..Cardinality(S) PROVE \E i \in S : Cardinality(Below(S, i)) = n - 1
    <2> DEFINE rank == [i \in S |-> Cardinality(Below(S, i))]
    <2>1. rank \in [S -> 0..(Cardinality(S) - 1)]
        BY <1>2
    <2>2. \A i, j \in S : rank[i] = rank[j] => i = j
        BY <1>4
    <2>3. n - 1 \in 0..(Cardinality(S) - 1)
        BY <1>0
    <2>4. \E i \in S : rank[i] = n - 1
        <3> HIDE DEF rank
        <3> QED BY <2>1, <2>2, <2>3, RanksTaken
    <2> QED BY <2>4
<1> QED BY <1>0, <1>2, <1>4, <1>5

\* Without keeps the entries that are not in T, each as often as it was there.
LEMMA WithoutKeeps ==
    ASSUME NEW S, NEW s \in Seq(S), NEW T
    PROVE  /\ Without(s, T) \in Seq(S)
           /\ ToSet(Without(s, T)) = ToSet(s) \ T
           /\ (\A j, k \in DOMAIN s : s[j] = s[k] => j = k)
                 => \A j, k \in DOMAIN Without(s, T) :
                       Without(s, T)[j] = Without(s, T)[k] => j = k
<1> DEFINE kept == {k \in DOMAIN s : s[k] \notin T}
           nth(n) == CHOOSE k \in kept : Cardinality({j \in kept : j < k}) = n - 1
           left == [n \in 1..Cardinality(kept) |-> s[nth(n)]]
<1>1. left = Without(s, T)
    BY DEF Without
<1>2. kept \in SUBSET Int /\ IsFiniteSet(kept) /\ kept \subseteq DOMAIN s
    <2>1. IsFiniteSet(1..Len(s)) /\ DOMAIN s = 1..Len(s)
        BY FS_Interval
    <2> QED BY <2>1, FS_Subset
<1>3. /\ Cardinality(kept) \in Nat
      /\ \A i \in kept : Cardinality(Below(kept, i)) \in 0..(Cardinality(kept) - 1)
      /\ \A i, j \in kept : Cardinality(Below(kept, i)) = Cardinality(Below(kept, j)) => i = j
      /\ \A n \in 1..Cardinality(kept) : \E i \in kept : Cardinality(Below(kept, i)) = n - 1
    <2> HIDE DEF kept
    <2> QED BY <1>2, BelowRank
<1>4. \A n \in 1..Cardinality(kept) : nth(n) \in kept /\ Cardinality(Below(kept, nth(n))) = n - 1
    <2> HIDE DEF kept
    <2> QED BY <1>3 DEF Below
<1>5. \A j, k \in 1..Cardinality(kept) : nth(j) = nth(k) => j = k
    <2> HIDE DEF nth, kept
    <2> QED BY <1>3, <1>4
<1>6. \A i \in kept : \E n \in 1..Cardinality(kept) : nth(n) = i
    <2> SUFFICES ASSUME NEW i \in kept PROVE \E n \in 1..Cardinality(kept) : nth(n) = i
        OBVIOUS
    <2> DEFINE n == Cardinality(Below(kept, i)) + 1
    <2> HIDE DEF nth, kept
    <2>1. n \in 1..Cardinality(kept) /\ n - 1 = Cardinality(Below(kept, i))
        BY <1>3
    <2>2. nth(n) = i
        <3> HIDE DEF n
        <3> QED BY <1>3, <1>4, <2>1
    <2> QED BY <2>1, <2>2
<1>7. \A k \in kept : k \in DOMAIN s /\ s[k] \in S /\ s[k] \notin T
    BY <1>2
<1>8. \A k \in DOMAIN s : s[k] \notin T => k \in kept
    OBVIOUS
<1>9. left \in Seq(S) /\ DOMAIN left = 1..Cardinality(kept)
    <2> HIDE DEF nth, kept
    <2>1. left \in [1..Cardinality(kept) -> S]
        BY <1>4, <1>7
    <2> QED BY <1>3, <2>1, IsASeq
<1>10. \A n \in 1..Cardinality(kept) : left[n] = s[nth(n)]
    OBVIOUS
<1> HIDE DEF nth, kept, left
<1>11. ToSet(left) = ToSet(s) \ T
    <2>1. \A x \in ToSet(left) : x \in ToSet(s) \ T
        BY <1>4, <1>7, <1>9, <1>10 DEF ToSet
    <2>2. \A x \in ToSet(s) \ T : x \in ToSet(left)
        <3> SUFFICES ASSUME NEW k \in DOMAIN s, s[k] \notin T PROVE s[k] \in ToSet(left)
            BY DEF ToSet
        <3>1. PICK n \in 1..Cardinality(kept) : nth(n) = k
            BY <1>6, <1>8
        <3> QED BY <1>9, <1>10, <3>1 DEF ToSet
    <2> QED BY <2>1, <2>2
<1>12. (\A j, k \in DOMAIN s : s[j] = s[k] => j = k)
            => \A j, k \in DOMAIN left : left[j] = left[k] => j = k
    BY <1>4, <1>5, <1>7, <1>9, <1>10
<1> QED BY <1>1, <1>9, <1>11, <1>12

\* A buffer of what has arrived is one of whatever has arrived later.
LEMMA BufferGrows == ASSUME NEW R, NEW S, R \subseteq S, NEW b \in Buffer(R) PROVE b \in Buffer(S)
<1>1. b.mem \in Seq(S) /\ b.file \in Seq(S)
    BY DEF Buffer
<1> QED BY <1>1 DEF Buffer

LEMMA ContainsIsIn == ASSUME NEW S, NEW s \in Seq(S), NEW x PROVE Contains(s, x) <=> x \in ToSet(s)
    BY DEF Contains, ToSet

LEMMA OutcomeIs ==
    \A b : /\ Outcome(b, TRUE).buf = b /\ Outcome(b, TRUE).ok = TRUE
          /\ Outcome(b, FALSE).buf = b /\ Outcome(b, FALSE).ok = FALSE
    BY DEF Outcome

\* Push, removal and load keep to the entries they are given, whatever the disk does.
LEMMA PushTyped ==
    ASSUME NEW S, NEW b \in Buffer(S), NEW x \in S, NEW fails \in BOOLEAN, NEW o \in Push(b, x, fails)
    PROVE  o.buf \in Buffer(S) /\ o.ok \in BOOLEAN
<1>1. b.mem \in Seq(S) /\ b.file \in Seq(S) /\ b.torn \in BOOLEAN
    BY DEF Buffer
<1>2. CASE Contains(b.mem, x)
    <2>1. o = Outcome(b, TRUE)
        BY <1>2 DEF Push
    <2> QED BY <2>1, OutcomeIs
<1>3. CASE ~Contains(b.mem, x) /\ Len(b.mem) >= Capacity
    <2> DEFINE c == [b EXCEPT !.mem = Append(Tail(@), x)]
    <2>1. c \in Buffer(S)
        <3>1. Len(b.mem) > 0
            BY <1>1, <1>3, BufferAssumption
        <3>2. Tail(b.mem) \in Seq(S)
            BY <1>1, <3>1
        <3>3. Append(Tail(b.mem), x) \in Seq(S)
            BY <3>2
        <3> QED BY <3>3 DEF Buffer
    <2>2. o \in RewriteFile(c, fails)
        BY <1>3 DEF Push
    <2> HIDE DEF c
    <2>3. [c EXCEPT !.file = c.mem, !.torn = FALSE] \in Buffer(S)
        BY <2>1 DEF Buffer
    <2>4. o = Outcome([c EXCEPT !.file = c.mem, !.torn = FALSE], TRUE) \/ o = Outcome(c, FALSE)
        BY <2>2 DEF RewriteFile
    <2> QED BY <2>1, <2>3, <2>4, OutcomeIs
<1>4. CASE ~Contains(b.mem, x) /\ ~(Len(b.mem) >= Capacity)
    <2> DEFINE c == [b EXCEPT !.mem = Append(@, x)]
               written == [c EXCEPT !.file = @ \o Line(c, x), !.torn = FALSE]
               unfinished == {c, [c EXCEPT !.torn = TRUE], written}
    <2>1. c \in Buffer(S)
        <3>1. Append(b.mem, x) \in Seq(S)
            BY <1>1
        <3> QED BY <3>1 DEF Buffer
    <2>2. o \in AppendLine(c, x, fails)
        BY <1>4 DEF Push
    <2> HIDE DEF c
    <2>3. written \in Buffer(S)
        <3>1. Line(c, x) \in Seq(S)
            BY DEF Line
        <3>2. c.file \o Line(c, x) \in Seq(S)
            BY <2>1, <3>1 DEF Buffer
        <3> QED BY <2>1, <3>2 DEF Buffer
    <2>4. [c EXCEPT !.torn = TRUE] \in Buffer(S)
        BY <2>1 DEF Buffer
    <2>5. \/ o = Outcome(written, TRUE)
          \/ \E a \in unfinished : o = Outcome(a, FALSE)
        BY <2>2 DEF AppendLine
    <2> HIDE DEF written
    <2> QED BY <2>1, <2>3, <2>4, <2>5, OutcomeIs
<1> QED BY <1>2, <1>3, <1>4

LEMMA RemoveTyped ==
    ASSUME NEW S, NEW b \in Buffer(S), NEW T, NEW fails \in BOOLEAN, NEW o \in RemoveAll(b, T, fails)
    PROVE  o.buf \in Buffer(S) /\ o.ok \in BOOLEAN
<1> DEFINE gone == T \cap ToSet(b.mem)
           left == Without(b.mem, gone)
           rewritten(K) == [mem |-> left, file |-> Without(b.mem, K), torn |-> FALSE]
<1>1. b.mem \in Seq(S)
    BY DEF Buffer
<1>2. \A K : Without(b.mem, K) \in Seq(S)
    BY <1>1, WithoutKeeps
<1>3. left \in Seq(S)
    <2> HIDE DEF gone
    <2> QED BY <1>2
<1>4. \A K : rewritten(K) \in Buffer(S)
    <2> HIDE DEF left
    <2> QED BY <1>2, <1>3 DEF Buffer
<1>5. [b EXCEPT !.mem = left] \in Buffer(S)
    <2> HIDE DEF left
    <2> QED BY <1>3 DEF Buffer
<1>6. \/ o = Outcome(b, TRUE)
      \/ o = Outcome(rewritten(gone), TRUE)
      \/ o = Outcome([b EXCEPT !.mem = left], FALSE)
      \/ \E K : o = Outcome(rewritten(K), FALSE)
    BY DEF RemoveAll
<1>7. PICK c \in Buffer(S) : o = Outcome(c, TRUE) \/ o = Outcome(c, FALSE)
    <2> HIDE DEF rewritten, left, gone
    <2> QED BY <1>4, <1>5, <1>6, Zenon
<1> QED BY <1>7, OutcomeIs

\* The boot reads of the file what the buffer may hold.
LEMMA LoadTyped ==
    ASSUME NEW S, NEW b \in Buffer(S)
    PROVE  /\ Load(b) \in Buffer(S) /\ Load(b).file = b.file /\ Load(b).torn = b.torn
           /\ Len(b.file) <= Capacity => Load(b).mem = b.file
<1> DEFINE excess == Max({0, Len(b.file) - Capacity})
           tail == SubSeq(b.file, excess + 1, Len(b.file))
<1>1. b.file \in Seq(S) /\ Len(b.file) \in Nat /\ Capacity \in Nat
    BY BufferAssumption DEF Buffer
<1>2. excess \in {0, Len(b.file) - Capacity} /\ excess >= 0 /\ (Len(b.file) <= Capacity => excess = 0)
    <2> DEFINE d == Len(b.file) - Capacity
    <2>1. d \in Int /\ (Len(b.file) <= Capacity <=> d <= 0)
        BY <1>1
    <2> HIDE DEF d
    <2>2. \E e \in {0, d} : \A y \in {0, d} : e >= y
        BY <2>1
    <2>3. Max({0, d}) \in {0, d} /\ \A y \in {0, d} : Max({0, d}) >= y
        BY <2>2 DEF Max
    <2>4. excess = Max({0, d})
        BY DEF d
    <2> HIDE DEF excess
    <2> QED BY <2>1, <2>3, <2>4 DEF d
<1>3. excess + 1 \in 1..(Len(b.file) + 1)
    <2> HIDE DEF excess
    <2>1. Capacity > 0
        BY BufferAssumption
    <2> QED BY <1>1, <1>2, <2>1
<1>4. tail \in Seq(S)
    <2> HIDE DEF excess
    <2> QED BY <1>1, <1>3, SubSeqProperties
<1>5. Len(b.file) <= Capacity => tail = b.file
    <2> HIDE DEF excess
    <2>1. SubSeq(b.file, 1, Len(b.file)) = b.file
        BY <1>1, SubSeqFull
    <2> QED BY <1>2, <2>1
<1>6. Load(b) = [b EXCEPT !.mem = tail]
    BY DEF Load
<1> HIDE DEF tail
<1> QED BY <1>4, <1>5, <1>6 DEF Buffer


-----------------------------------------------------------------------------
(* The invariant: what every part of the path holds has arrived, what is   *)
(* past the Reassembler has arrived in full, and of the deliveries of one  *)
(* message to the server at most one is past the insert.                   *)

Received == {m \in Messages : PartsOf(m) \subseteq arrived}

Pcs == {"idle", "read", "add", "deliver", "delete", "commit", "free", "list", "next", "others"}

Reader == [pc : Pcs, slot : Slots \cup {None}, part : Parts \cup {None}]

StorageInv ==
    /\ arrived \subseteq Parts
    /\ storage \in [Slots -> arrived \cup {None}]
    /\ selected \in {"SM", "other"}

ReadersInv ==
    /\ reader \in [Readers -> Reader]
    /\ \A r \in Readers :
         /\ reader[r].pc \in {"add", "deliver", "delete", "commit"} => reader[r].part \in arrived
         /\ reader[r].pc \in {"deliver", "delete", "commit"} => Message(r) \in Received

AssemblyInv ==
    /\ pending \in [Messages -> SUBSET arrived]
    /\ \A m \in Messages : pending[m] \subseteq PartsOf(m)
    /\ overdue \subseteq Messages /\ expired \subseteq Messages

BuffersInv == parts \in Buffer(arrived) /\ inbox \in Buffer(Received)

IntakeInv == StorageInv /\ ReadersInv /\ AssemblyInv /\ BuffersInv

Late(h) == h.at \in {"inserted", "acked"}

Handling == [sms : Received, id : Handlers, at : {"checked", "inserted", "acked"}]

\* A delivery that has passed the insert is the one that inserted the row.
HandlingInv ==
    /\ handling \subseteq Handling
    /\ \A h \in handling : Late(h) => h.sms \in rows /\ notified[h.sms] = 0
    /\ \A h, k \in handling : Late(h) /\ Late(k) /\ h.sms = k.sms => h = k

ServerInv ==
    /\ batch \in Seq(Received) /\ wire \subseteq Received
    /\ rows \subseteq Received /\ acks \subseteq rows
    /\ notified \in [Messages -> {0, 1}]
    /\ \A m \in Messages : notified[m] = 1 => m \in rows
    /\ HandlingInv

SmsInv == IntakeInv /\ ServerInv

LEMMA MayFail == DiskMayFail \in BOOLEAN
    BY DEF DiskMayFail

LEMMA PartsOfMessage ==
    \A p \in Parts : /\ p[1] \in Messages /\ p \in PartsOf(p[1])
                     /\ p[1] \notin Multipart => PartsOf(p[1]) = {p}
<1> SUFFICES ASSUME NEW p \in Parts
             PROVE  /\ p[1] \in Messages /\ p \in PartsOf(p[1])
                    /\ p[1] \notin Multipart => PartsOf(p[1]) = {p}
    OBVIOUS
<1>1. p[1] \in Messages /\ p = <<p[1], p[2]>> /\ (p[1] \notin Multipart => p[2] = 1)
    BY IntakeAssumption DEF Parts
<1>2. p \in PartsOf(p[1])
    BY DEF PartsOf
<1>3. ASSUME p[1] \notin Multipart PROVE \A q \in PartsOf(p[1]) : q = p
    <2> SUFFICES ASSUME NEW q \in Parts, q[1] = p[1] PROVE q = p
        BY DEF PartsOf
    <2>1. q = <<q[1], q[2]>> /\ (q[1] \notin Multipart => q[2] = 1)
        BY IntakeAssumption DEF Parts
    <2> QED BY <1>1, <1>3, <2>1
<1> QED BY <1>1, <1>2, <1>3

\* What a step does to its reader.
LEMMA GotoMoves ==
    ASSUME ReadersInv, NEW r \in Readers, NEW pc \in Pcs, Goto(r, pc)
    PROVE  /\ reader' \in [Readers -> Reader]
           /\ reader'[r].pc = pc /\ reader'[r].part = reader[r].part /\ reader'[r].slot = reader[r].slot
           /\ \A q \in Readers : q # r => reader'[q] = reader[q]
<1>1. reader \in [Readers -> Reader] /\ reader[r] \in Reader
    BY DEF ReadersInv
<1>2. reader' = [reader EXCEPT ![r] = [reader[r] EXCEPT !.pc = pc]]
    BY <1>1 DEF Goto
<1>3. [reader[r] EXCEPT !.pc = pc] \in Reader
    BY <1>1 DEF Reader
<1> QED BY <1>1, <1>2, <1>3 DEF Reader

LEMMA IdleReader ==
    /\ Idle \in Reader
    /\ \A pc \in Pcs : [Idle EXCEPT !.pc = pc] \in Reader /\ [Idle EXCEPT !.pc = pc].pc = pc
    BY DEF Idle, Reader, Pcs

LEMMA DoneMoves ==
    ASSUME ReadersInv, NEW r \in Readers, Done(r)
    PROVE  /\ reader' \in [Readers -> Reader]
           /\ reader'[r].pc \in {"idle", "next"}
           /\ r # Drain => reader'[r].pc = "idle"
           /\ \A q \in Readers : q # r => reader'[q] = reader[q]
<1> DEFINE new == IF r = Drain THEN [Idle EXCEPT !.pc = "next"] ELSE Idle
<1>1. reader' = [reader EXCEPT ![r] = new]
    BY DEF Done
<1>2. new \in Reader /\ new.pc \in {"idle", "next"} /\ (r # Drain => new.pc = "idle")
    BY IdleReader DEF Idle, Pcs
<1>3. reader \in [Readers -> Reader]
    BY DEF ReadersInv
<1> HIDE DEF new
<1> QED BY <1>1, <1>2, <1>3

\* Nothing of the intake is disturbed by the arrival of another part.
LEMMA ReceivedGrows ==
    ASSUME arrived \subseteq arrived' PROVE Received \subseteq Received'
    BY DEF Received

LEMMA SmsInit == Init => SmsInv
<1> SUFFICES ASSUME Init PROVE SmsInv
    OBVIOUS
<1>1. StorageInv
    BY DEF Init, IntakeInit, StorageInv
<1>2. ReadersInv
    BY IdleReader DEF Init, IntakeInit, ReadersInv, Idle
<1>3. AssemblyInv
    BY DEF Init, IntakeInit, AssemblyInv
<1>4. BuffersInv
    BY DEF Init, IntakeInit, BuffersInv, EmptyBuffer, Buffer
<1>5. HandlingInv
    BY DEF Init, HandlingInv
<1>6. ServerInv
    BY <1>5 DEF Init, ServerInv
<1> QED BY <1>1, <1>2, <1>3, <1>4, <1>6 DEF SmsInv, IntakeInv

\* A step of one reader disturbs what is said of that reader only.
LEMMA ReadersFrame ==
    ASSUME ReadersInv, NEW r \in Readers, arrived' = arrived, reader' \in [Readers -> Reader],
           \A q \in Readers : q # r => reader'[q] = reader[q],
           reader'[r].pc \in {"add", "deliver", "delete", "commit"} => reader'[r].part \in arrived,
           reader'[r].pc \in {"deliver", "delete", "commit"} => reader'[r].part[1] \in Received
    PROVE  ReadersInv' /\ Received' = Received
<1>1. Received' = Received
    BY DEF Received
<1> QED BY <1>1 DEF ReadersInv, Message

LEMMA ArriveStep ==
    ASSUME IntakeInv, NEW p \in Parts, NEW s \in Slots, Arrive(p, s)
    PROVE  IntakeInv' /\ Received \subseteq Received'
<1> USE DEF IntakeInv
<1>1. arrived' = arrived \cup {p} /\ arrived \subseteq arrived' /\ Received \subseteq Received'
    BY ReceivedGrows DEF Arrive
<1>2. StorageInv'
    BY <1>1 DEF Arrive, StorageInv
<1>3. ReadersInv'
    <2>1. p \in Readers /\ [pc |-> "read", slot |-> s, part |-> None] \in Reader
        BY DEF Readers, Reader, Pcs
    <2>2. reader' \in [Readers -> Reader]
        BY <2>1 DEF Arrive, ReadersInv
    <2>3. \A r \in Readers : reader'[r] = reader[r] \/ reader'[r].pc = "read"
        BY <2>1 DEF Arrive, ReadersInv
    <2> QED BY <1>1, <2>2, <2>3 DEF ReadersInv, Message
<1>4. AssemblyInv'
    BY <1>1 DEF Arrive, AssemblyInv, assembly
<1>5. BuffersInv'
    BY <1>1, BufferGrows DEF Arrive, BuffersInv, assembly
<1> QED BY <1>1, <1>2, <1>3, <1>4, <1>5

\* Steps that only move a reader, or that change no more than the storage.
LEMMA MoveStep ==
    ASSUME IntakeInv, NEW r \in Readers, UNCHANGED <<arrived, assembly, inbox>>, StorageInv',
           reader' \in [Readers -> Reader], \A q \in Readers : q # r => reader'[q] = reader[q],
           reader'[r].pc \in {"add", "deliver", "delete", "commit"} => reader'[r].part \in arrived,
           reader'[r].pc \in {"deliver", "delete", "commit"} => reader'[r].part[1] \in Received
    PROVE  IntakeInv' /\ Received' = Received
<1>1. ReadersInv' /\ Received' = Received
    BY ReadersFrame DEF IntakeInv
<1>2. AssemblyInv' /\ BuffersInv'
    BY <1>1 DEF IntakeInv, AssemblyInv, BuffersInv, assembly
<1> QED BY <1>1, <1>2 DEF IntakeInv

LEMMA SmsFullStep == ASSUME IntakeInv, SmsFull PROVE IntakeInv' /\ Received' = Received
<1>1. StorageInv' /\ UNCHANGED <<arrived, assembly, inbox>>
    BY DEF SmsFull, IntakeInv, StorageInv, modem
<1>2. Drain \in Readers /\ [Idle EXCEPT !.pc = "list"] \in Reader
    BY IdleReader DEF Readers, Pcs
<1>3. reader' = [reader EXCEPT ![Drain] = [Idle EXCEPT !.pc = "list"]] /\ reader \in [Readers -> Reader]
    BY DEF SmsFull, IntakeInv, ReadersInv
<1>4. [Idle EXCEPT !.pc = "list"].pc = "list"
    BY DEF Idle
<1>5. /\ reader' \in [Readers -> Reader]
      /\ \A q \in Readers : q # Drain => reader'[q] = reader[q]
      /\ reader'[Drain].pc = "list"
    BY <1>2, <1>3, <1>4
<1> QED BY <1>1, <1>2, <1>5, MoveStep

LEMMA GoesStaleStep ==
    ASSUME IntakeInv, NEW m \in Multipart, GoesStale(m) PROVE IntakeInv' /\ Received' = Received
<1>1. Received' = Received
    BY DEF GoesStale, modem, Received
<1>2. StorageInv' /\ ReadersInv' /\ BuffersInv'
    BY <1>1 DEF GoesStale, modem, IntakeInv, StorageInv, ReadersInv, Message, BuffersInv
<1>3. AssemblyInv'
    BY IntakeAssumption DEF GoesStale, modem, IntakeInv, AssemblyInv
<1> QED BY <1>1, <1>2, <1>3 DEF IntakeInv

LEMMA ReadMessageStep ==
    ASSUME IntakeInv, NEW r \in Readers, ReadMessage(r) PROVE IntakeInv' /\ Received' = Received
<1> DEFINE p == storage[reader[r].slot]
<1>1. StorageInv' /\ UNCHANGED <<arrived, assembly, inbox>>
    BY DEF ReadMessage, IntakeInv, StorageInv, modem
<1>2. reader[r] \in Reader /\ reader \in [Readers -> Reader]
    BY DEF IntakeInv, ReadersInv
<1>3. p \in arrived /\ p \in Parts
    BY <1>2 DEF ReadMessage, Readable, IntakeInv, StorageInv, Reader
<1>4. p[1] \notin Multipart => p[1] \in Received
    BY <1>3, PartsOfMessage DEF Received
<1>5. PICK pc \in Pcs : /\ pc = "add" \/ (pc = "deliver" /\ p[1] \in Received)
                        /\ reader' = [reader EXCEPT ![r] = [reader[r] EXCEPT !.part = p, !.pc = pc]]
    BY <1>2, <1>4 DEF ReadMessage, Pcs
<1> HIDE DEF p
<1>6. [reader[r] EXCEPT !.part = p, !.pc = pc] \in Reader
    BY <1>2, <1>3 DEF Reader
<1>7. /\ reader' \in [Readers -> Reader]
      /\ \A q \in Readers : q # r => reader'[q] = reader[q]
      /\ reader'[r].pc = pc /\ reader'[r].part = p
    BY <1>2, <1>5, <1>6 DEF Reader
<1> QED BY <1>1, <1>3, <1>5, <1>7, MoveStep

LEMMA ReadFailsStep ==
    ASSUME IntakeInv, NEW r \in Readers, ReadFails(r) PROVE IntakeInv' /\ Received' = Received
<1>1. StorageInv' /\ UNCHANGED <<arrived, assembly, inbox>>
    BY DEF ReadFails, IntakeInv, StorageInv, modem
<1>2. CASE Goto(r, "free")
    BY <1>1, <1>2, GotoMoves, MoveStep DEF IntakeInv, Pcs
<1>3. CASE Done(r)
    BY <1>1, <1>3, DoneMoves, MoveStep DEF IntakeInv
<1> QED BY <1>2, <1>3 DEF ReadFails

LEMMA StorageShrinks ==
    ASSUME StorageInv, UNCHANGED <<arrived, selected>>, NEW s, DeleteStored(s) PROVE StorageInv'
    BY DEF StorageInv, DeleteStored

LEMMA FreeSlotStep ==
    ASSUME IntakeInv, NEW r \in Readers, FreeSlot(r) PROVE IntakeInv' /\ Received' = Received
<1>1. StorageInv' /\ UNCHANGED <<arrived, assembly, inbox>>
    BY StorageShrinks DEF FreeSlot, IntakeInv
<1> QED BY <1>1, DoneMoves, MoveStep DEF FreeSlot, IntakeInv

LEMMA DeleteDeliveredStep ==
    ASSUME IntakeInv, NEW r \in Readers, DeleteDelivered(r) PROVE IntakeInv' /\ Received' = Received
<1>1. StorageInv' /\ UNCHANGED <<arrived, assembly, inbox>>
    BY StorageShrinks DEF DeleteDelivered, IntakeInv
<1>2. CASE Goto(r, "commit")
    <2>1. reader[r].part \in arrived /\ reader[r].part[1] \in Received
        BY DEF DeleteDelivered, IntakeInv, ReadersInv, Message
    <2>2. "commit" \in Pcs
        BY DEF Pcs
    <2> QED BY <1>1, <1>2, <2>1, <2>2, GotoMoves, MoveStep DEF IntakeInv
<1>3. CASE Done(r)
    BY <1>1, <1>3, DoneMoves, MoveStep DEF IntakeInv
<1> QED BY <1>2, <1>3 DEF DeleteDelivered

LEMMA AddPartStep ==
    ASSUME IntakeInv, NEW r \in Readers, AddPart(r) PROVE IntakeInv' /\ Received' = Received
<1> DEFINE m == Message(r)
           p == reader[r].part
           stale == {n \in overdue : pending[n] # {}}
           kept == [n \in Messages |-> IF n \in stale THEN {} ELSE pending[n]]
           held == kept[m] \cup {p}
<1>1. arrived' = arrived /\ StorageInv'
    BY DEF AddPart, modem, IntakeInv, StorageInv
<1>2. p \in arrived /\ p \in Parts /\ m \in Messages /\ p \in PartsOf(m) /\ m = p[1]
    BY PartsOfMessage DEF AddPart, IntakeInv, ReadersInv, StorageInv, Message
<1>3. kept \in [Messages -> SUBSET arrived] /\ \A n \in Messages : kept[n] \subseteq PartsOf(n)
    BY DEF IntakeInv, AssemblyInv
<1>4. held \subseteq arrived /\ held \subseteq PartsOf(m)
    <2> HIDE DEF kept, m, p
    <2> QED BY <1>2, <1>3
<1>5. /\ pending' = [kept EXCEPT ![m] = held]
      /\ overdue' = overdue \ stale /\ expired' = expired \cup stale
      /\ inbox' = inbox
      /\ Goto(r, IF held = PartsOf(m) THEN "deliver" ELSE "free")
    BY DEF AddPart
<1>6. parts' \in Buffer(arrived)
    <2>1. PICK cleaned \in RemoveAll(parts, UNION {pending[n] : n \in stale}, DiskMayFail) :
             \E pushed \in Push(cleaned.buf, p, DiskMayFail) : parts' = pushed.buf
        BY DEF AddPart
    <2>2. parts \in Buffer(arrived)
        BY DEF IntakeInv, BuffersInv
    <2>3. cleaned.buf \in Buffer(arrived)
        BY <2>1, <2>2, MayFail, RemoveTyped
    <2>4. PICK pushed \in Push(cleaned.buf, p, DiskMayFail) : parts' = pushed.buf
        BY <2>1
    <2> HIDE DEF p
    <2> QED BY <1>2, <2>3, <2>4, MayFail, PushTyped
<1>7. stale \subseteq overdue
    OBVIOUS
<1>8. ReadersInv' /\ Received' = Received
    <2>1. PICK pc \in {"deliver", "free"} : Goto(r, pc) /\ (pc = "deliver" => held = PartsOf(m))
        BY <1>5
    <2>2. pc = "deliver" => m \in Received
        BY <1>2, <1>4, <2>1 DEF Received
    <2>3. /\ reader' \in [Readers -> Reader]
          /\ reader'[r].pc = pc /\ reader'[r].part = p
          /\ \A q \in Readers : q # r => reader'[q] = reader[q]
        BY <2>1, GotoMoves DEF IntakeInv, Pcs
    <2> HIDE DEF m, p, held
    <2> QED BY <1>1, <1>2, <2>1, <2>2, <2>3, ReadersFrame DEF IntakeInv
<1>9. AssemblyInv'
    <2>1. overdue \subseteq Messages /\ expired \subseteq Messages
        BY DEF IntakeInv, AssemblyInv
    <2> HIDE DEF kept, held, m, stale
    <2>2. pending' \in [Messages -> SUBSET arrived] /\ \A n \in Messages : pending'[n] \subseteq PartsOf(n)
        BY <1>3, <1>4, <1>5
    <2> QED BY <1>1, <1>5, <1>7, <2>1, <2>2 DEF AssemblyInv
<1>10. BuffersInv'
    BY <1>1, <1>5, <1>6, <1>8 DEF IntakeInv, BuffersInv
<1> QED BY <1>1, <1>8, <1>9, <1>10 DEF IntakeInv

LEMMA DeliverStep ==
    ASSUME IntakeInv, NEW r \in Readers, Deliver(r) PROVE IntakeInv' /\ Received' = Received
<1>1. arrived' = arrived /\ StorageInv'
    BY DEF Deliver, modem, IntakeInv, StorageInv
<1>2. reader[r].part \in arrived /\ Message(r) \in Received /\ Message(r) = reader[r].part[1]
    BY DEF Deliver, IntakeInv, ReadersInv, Message
<1>3. ReadersInv' /\ Received' = Received
    <2>1. CASE Goto(r, "delete")
        <3>1. "delete" \in Pcs
            BY DEF Pcs
        <3> QED BY <1>1, <1>2, <2>1, <3>1, GotoMoves, ReadersFrame DEF IntakeInv
    <2>2. CASE Done(r)
        BY <1>1, <2>2, DoneMoves, ReadersFrame DEF IntakeInv
    <2> QED BY <2>1, <2>2 DEF Deliver
<1>4. inbox' \in Buffer(Received)
    <2>1. PICK pushed \in Push(inbox, Message(r), DiskMayFail) : inbox' = pushed.buf
        BY DEF Deliver
    <2>2. inbox \in Buffer(Received)
        BY DEF IntakeInv, BuffersInv
    <2> QED BY <1>2, <2>1, <2>2, MayFail, PushTyped
<1>5. AssemblyInv' /\ BuffersInv'
    BY <1>1, <1>3, <1>4 DEF Deliver, assembly, IntakeInv, AssemblyInv, BuffersInv
<1> QED BY <1>1, <1>3, <1>5 DEF IntakeInv

LEMMA CommitStep ==
    ASSUME IntakeInv, NEW r \in Readers, Commit(r) PROVE IntakeInv' /\ Received' = Received
<1>1. arrived' = arrived /\ StorageInv'
    BY DEF Commit, modem, IntakeInv, StorageInv
<1>2. ReadersInv' /\ Received' = Received
    BY <1>1, DoneMoves, ReadersFrame DEF Commit, IntakeInv
<1>3. parts' \in Buffer(arrived)
    <2>1. PICK left \in RemoveAll(parts, pending[Message(r)], DiskMayFail) : parts' = left.buf
        BY DEF Commit
    <2>2. parts \in Buffer(arrived)
        BY DEF IntakeInv, BuffersInv
    <2> QED BY <2>1, <2>2, MayFail, RemoveTyped
<1>4. AssemblyInv'
    BY <1>1 DEF Commit, IntakeInv, AssemblyInv
<1>5. BuffersInv'
    BY <1>1, <1>2, <1>3 DEF Commit, IntakeInv, BuffersInv
<1> QED BY <1>1, <1>2, <1>4, <1>5 DEF IntakeInv

LEMMA DrainingStep ==
    ASSUME IntakeInv, Draining PROVE IntakeInv' /\ Received' = Received
<1>0. Drain \in Readers /\ reader \in [Readers -> Reader]
    BY DEF Readers, IntakeInv, ReadersInv
<1>1. CASE DrainLists
    <2>1. StorageInv' /\ UNCHANGED <<arrived, assembly, inbox>>
        BY <1>1 DEF DrainLists, IntakeInv, StorageInv
    <2>2. Goto(Drain, "next") /\ "next" \in Pcs
        BY <1>1 DEF DrainLists, Pcs
    <2> QED BY <1>0, <2>1, <2>2, GotoMoves, MoveStep DEF IntakeInv
<1>2. CASE DrainOthers
    <2>1. StorageInv' /\ UNCHANGED <<arrived, assembly, inbox>>
        BY <1>2 DEF DrainOthers, IntakeInv, StorageInv
    <2>2. Goto(Drain, "others") /\ "others" \in Pcs
        BY <1>2 DEF DrainOthers, Pcs
    <2> QED BY <1>0, <2>1, <2>2, GotoMoves, MoveStep DEF IntakeInv
<1>3. CASE DrainRestores
    <2>1. StorageInv' /\ UNCHANGED <<arrived, assembly, inbox>>
        BY <1>3 DEF DrainRestores, IntakeInv, StorageInv
    <2>2. reader' = [reader EXCEPT ![Drain] = Idle] /\ Idle.pc = "idle"
        BY <1>3 DEF DrainRestores, Idle
    <2> QED BY <1>0, <2>1, <2>2, IdleReader, MoveStep
<1>4. CASE \E s \in Slots : DrainNext(s)
    <2>1. PICK s \in Slots : DrainNext(s)
        BY <1>4
    <2>2. StorageInv' /\ UNCHANGED <<arrived, assembly, inbox>>
        BY <2>1 DEF DrainNext, IntakeInv, StorageInv, modem
    <2> DEFINE new == [pc |-> "read", slot |-> s, part |-> None]
    <2>3. reader' = [reader EXCEPT ![Drain] = new] /\ new \in Reader /\ new.pc = "read"
        BY <2>1 DEF DrainNext, Reader, Pcs
    <2> HIDE DEF new
    <2> QED BY <1>0, <2>2, <2>3, MoveStep
<1> QED BY <1>1, <1>2, <1>3, <1>4 DEF Draining

LEMMA BootStep == ASSUME IntakeInv, Boot PROVE IntakeInv' /\ Received' = Received
<1> DEFINE loaded == Load(parts)
           stale == {p \in ToSet(loaded.mem) : p[1] \in overdue}
<1>1. arrived' = arrived /\ StorageInv' /\ Received' = Received
    BY DEF Boot, modem, IntakeInv, StorageInv, Received
<1>2. loaded \in Buffer(arrived) /\ Load(inbox) \in Buffer(Received)
    BY LoadTyped DEF IntakeInv, BuffersInv
<1>3. ReadersInv'
    <2>1. Drain \in Readers /\ [Idle EXCEPT !.pc = "list"] \in Reader
          /\ [Idle EXCEPT !.pc = "list"].pc = "list"
        BY IdleReader DEF Readers, Pcs
    <2>2. reader' = [reader EXCEPT ![Drain] = [Idle EXCEPT !.pc = "list"]] /\ reader \in [Readers -> Reader]
        BY DEF Boot, IntakeInv, ReadersInv
    <2>3. /\ reader' \in [Readers -> Reader]
          /\ \A q \in Readers : q # Drain => reader'[q] = reader[q]
          /\ reader'[Drain].pc = "list"
        BY <2>1, <2>2
    <2> QED BY <1>1, <2>1, <2>3, ReadersFrame DEF IntakeInv
<1>4. BuffersInv'
    <2>1. PICK left \in RemoveAll(loaded, stale, DiskMayFail) : parts' = left.buf
        BY DEF Boot
    <2>2. inbox' = Load(inbox)
        BY DEF Boot
    <2> HIDE DEF loaded, stale
    <2>3. parts' \in Buffer(arrived)
        BY <1>2, <2>1, MayFail, RemoveTyped
    <2> QED BY <1>1, <1>2, <2>2, <2>3 DEF BuffersInv
<1>5. AssemblyInv'
    <2>1. ToSet(loaded.mem) \subseteq arrived
        <3>1. loaded.mem \in Seq(arrived)
            BY <1>2 DEF Buffer
        <3> HIDE DEF loaded
        <3> QED BY <3>1 DEF ToSet
    <2>2. /\ pending' = [m \in Messages |-> (PartsOf(m) \cap ToSet(loaded.mem)) \ stale]
          /\ overdue' = {} /\ expired' = expired \cup overdue
        BY DEF Boot
    <2> HIDE DEF loaded, stale
    <2> QED BY <1>1, <2>1, <2>2 DEF IntakeInv, AssemblyInv
<1> QED BY <1>1, <1>3, <1>4, <1>5 DEF IntakeInv

LEMMA StopStep == ASSUME IntakeInv, StopProcess PROVE IntakeInv' /\ Received' = Received
<1>1. arrived' = arrived /\ StorageInv' /\ Received' = Received
    BY DEF StopProcess, modem, IntakeInv, StorageInv, Received
<1>2. ReadersInv'
    BY IdleReader DEF StopProcess, ReadersInv, Idle
<1>3. AssemblyInv'
    BY <1>1 DEF StopProcess, IntakeInv, AssemblyInv
<1>4. BuffersInv'
    <2>1. ASSUME NEW S, NEW b \in Buffer(S) PROVE [b EXCEPT !.mem = <<>>] \in Buffer(S)
        <3>1. <<>> \in Seq(S)
            OBVIOUS
        <3> QED BY <3>1 DEF Buffer
    <2>2. parts' = [parts EXCEPT !.mem = <<>>] /\ inbox' = [inbox EXCEPT !.mem = <<>>]
        BY DEF StopProcess
    <2>3. arrived' = arrived /\ Received' = Received /\ parts \in Buffer(arrived)
          /\ inbox \in Buffer(Received)
        BY <1>1 DEF IntakeInv, BuffersInv
    <2> QED BY <2>1, <2>2, <2>3 DEF BuffersInv
<1> QED BY <1>1, <1>2, <1>3, <1>4 DEF IntakeInv

LEMMA IntakeStep == ASSUME IntakeInv, IntakeNext PROVE IntakeInv' /\ Received \subseteq Received'
<1>1. CASE \E r \in Readers : Reading(r)
    BY <1>1, ReadMessageStep, ReadFailsStep, AddPartStep, FreeSlotStep, DeliverStep,
       DeleteDeliveredStep, CommitStep DEF Reading
<1> QED BY <1>1, ArriveStep, GoesStaleStep, SmsFullStep, DrainingStep, BootStep DEF IntakeNext

\* What the server and the pump keep is not disturbed by what the intake does.
LEMMA ServerFrame ==
    ASSUME ServerInv, UNCHANGED <<delivery, server>>, Received \subseteq Received'
    PROVE  ServerInv'
<1>1. batch' \in Seq(Received') /\ wire' \subseteq Received' /\ rows' \subseteq Received'
      /\ acks' \subseteq rows'
    <2>1. batch \in Seq(Received')
        BY DEF ServerInv
    <2> QED BY <2>1 DEF ServerInv, delivery, server
<1>2. HandlingInv'
    BY DEF ServerInv, HandlingInv, Handling, Late, server
<1> QED BY <1>1, <1>2 DEF ServerInv, server

\* Steps that touch neither what was received nor what the server works on.
LEMMA DeliveryFrame ==
    ASSUME SmsInv, UNCHANGED <<modem, reader, listed, assembly, server>>,
           inbox' \in Buffer(Received), batch' \in Seq(Received), wire' \subseteq wire \cup Received,
           acks' \subseteq acks
    PROVE  SmsInv' /\ Received' = Received
<1>1. Received' = Received
    BY DEF modem, Received
<1>2. IntakeInv'
    BY <1>1 DEF SmsInv, IntakeInv, StorageInv, ReadersInv, Message, AssemblyInv, BuffersInv,
           modem, assembly
<1>3. HandlingInv'
    BY <1>1 DEF SmsInv, ServerInv, HandlingInv, Handling, Late, server
<1>4. ServerInv'
    BY <1>1, <1>3 DEF SmsInv, ServerInv, server
<1> QED BY <1>1, <1>2, <1>4 DEF SmsInv

LEMMA PumpStep == ASSUME SmsInv, Connect \/ Pump PROVE SmsInv' /\ Received' = Received
<1>0. inbox \in Buffer(Received) /\ inbox.mem \in Seq(Received) /\ batch \in Seq(Received)
    BY DEF SmsInv, IntakeInv, BuffersInv, ServerInv, Buffer
<1>1. CASE Connect
    BY <1>0, <1>1, DeliveryFrame DEF Connect, intake
<1>2. CASE Flush
    BY <1>0, <1>2, DeliveryFrame DEF Flush, intake
<1>3. CASE SendOne
    <2>1. Head(batch) \in Received /\ Tail(batch) \in Seq(Received)
        BY <1>0, <1>3 DEF SendOne
    <2> QED BY <1>0, <1>3, <2>1, DeliveryFrame DEF SendOne, intake
<1>4. CASE GiveUp
    <2>1. <<>> \in Seq(Received)
        OBVIOUS
    <2> QED BY <1>0, <1>4, <2>1, DeliveryFrame DEF GiveUp, intake
<1>5. CASE \E m \in Messages : HandleAck(m)
    <2>1. PICK m \in Messages : HandleAck(m)
        BY <1>5
    <2>2. PICK left \in RemoveAll(inbox, {m}, DiskMayFail) : inbox' = left.buf
        BY <2>1 DEF HandleAck
    <2>3. inbox' \in Buffer(Received)
        BY <1>0, <2>2, MayFail, RemoveTyped
    <2> QED BY <1>0, <2>1, <2>3, DeliveryFrame DEF HandleAck
<1> QED BY <1>1, <1>2, <1>3, <1>4, <1>5 DEF Pump

\* Steps of the server.
LEMMA ServeFrame ==
    ASSUME SmsInv, UNCHANGED <<intake, batch>>, wire' \subseteq wire, rows \subseteq rows',
           rows' \subseteq Received,
           acks' \subseteq rows', notified' \in [Messages -> {0, 1}],
           \A m \in Messages : notified'[m] = 1 => m \in rows', HandlingInv'
    PROVE  SmsInv' /\ Received' = Received
<1>1. Received' = Received
    BY DEF intake, modem, Received
<1>2. IntakeInv'
    BY <1>1 DEF SmsInv, IntakeInv, StorageInv, ReadersInv, Message, AssemblyInv, BuffersInv,
           intake, modem, assembly
<1> QED BY <1>1, <1>2 DEF SmsInv, ServerInv

LEMMA ServeStep ==
    ASSUME SmsInv, NEW m \in Messages, NEW id \in Handlers, Serve(m, id)
    PROVE  SmsInv' /\ Received' = Received
<1>0. Received' = Received
    BY DEF Serve, ReceiveMessage, InsertMessage, MetadataUpdated, CreateNotification,
           intake, modem, Received
<1>1. /\ wire \subseteq Received /\ rows \subseteq Received /\ acks \subseteq rows
      /\ notified \in [Messages -> {0, 1}]
      /\ \A n \in Messages : notified[n] = 1 => n \in rows
      /\ handling \subseteq Handling
      /\ \A h \in handling : Late(h) => h.sms \in rows /\ notified[h.sms] = 0
      /\ \A h, k \in handling : Late(h) /\ Late(k) /\ h.sms = k.sms => h = k
    BY DEF SmsInv, ServerInv, HandlingInv
<1>2. \A at \in {"checked", "inserted", "acked"} :
         /\ At(m, id, at).sms = m /\ At(m, id, at).at = at
         /\ m \in Received => At(m, id, at) \in Handling
    BY DEF At, Handling
<1>3. CASE ReceiveMessage(m, id)
    <2>1. m \in Received
        BY <1>1, <1>3 DEF ReceiveMessage
    <2>2. handling' \subseteq handling \cup {At(m, id, "checked")} /\ UNCHANGED <<rows, notified>>
        BY <1>3 DEF ReceiveMessage
    <2>3. HandlingInv'
        BY <1>0, <1>1, <1>2, <2>1, <2>2 DEF HandlingInv, Handling, Late
    <2>4. acks' \subseteq rows
        BY <1>1, <1>3 DEF ReceiveMessage, Acknowledge
    <2> QED BY <1>1, <1>3, <2>3, <2>4, ServeFrame DEF ReceiveMessage
<1>4. CASE InsertMessage(m, id)
    <2>1. m \in Received
        BY <1>1, <1>2, <1>4 DEF InsertMessage, Handling
    <2>2. CASE m \in rows
        <3>1. handling' \subseteq handling /\ rows' = rows /\ notified' = notified
            BY <1>4, <2>2 DEF InsertMessage
        <3>2. HandlingInv'
            BY <1>0, <1>1, <3>1 DEF HandlingInv, Handling, Late
        <3> QED BY <1>1, <1>4, <3>1, <3>2, ServeFrame DEF InsertMessage, delivery
    <2>3. CASE m \notin rows
        <3>1. /\ handling' \subseteq handling \cup {At(m, id, "inserted")}
              /\ rows' = rows \cup {m} /\ notified' = notified
            BY <1>4, <2>3 DEF InsertMessage
        <3>2. notified[m] = 0
            BY <1>1, <2>3
        <3>3. \A h \in handling : Late(h) => h.sms # m
            BY <1>1, <2>3
        <3>4. HandlingInv'
            BY <1>0, <1>1, <1>2, <2>1, <3>1, <3>2, <3>3 DEF HandlingInv, Handling, Late
        <3> QED BY <1>1, <1>4, <2>1, <3>1, <3>4, ServeFrame DEF InsertMessage, delivery
    <2> QED BY <2>2, <2>3
<1>5. CASE MetadataUpdated(m, id)
    <2>1. m \in Received /\ m \in rows /\ notified[m] = 0
        BY <1>1, <1>2, <1>5 DEF MetadataUpdated, Late
    <2>2. /\ handling' = (handling \ {At(m, id, "inserted")}) \cup {At(m, id, "acked")}
          /\ UNCHANGED <<rows, notified>>
        BY <1>5 DEF MetadataUpdated
    <2>3. \A h \in handling : Late(h) /\ h.sms = m => h = At(m, id, "inserted")
        BY <1>1, <1>2, <1>5 DEF MetadataUpdated, Late
    <2>4. HandlingInv'
        BY <1>0, <1>1, <1>2, <2>1, <2>2, <2>3 DEF HandlingInv, Handling, Late
    <2>5. acks' \subseteq rows
        BY <1>1, <1>5, <2>1 DEF MetadataUpdated, Acknowledge
    <2> QED BY <1>1, <1>5, <2>2, <2>4, <2>5, ServeFrame DEF MetadataUpdated
<1>6. CASE CreateNotification(m, id)
    <2>1. m \in rows /\ notified[m] = 0
        BY <1>1, <1>2, <1>6 DEF CreateNotification, Late
    <2>2. /\ handling' = handling \ {At(m, id, "acked")} /\ rows' = rows
          /\ notified' = [notified EXCEPT ![m] = 1]
        BY <1>6, <2>1 DEF CreateNotification
    <2>3. \A h \in handling' : Late(h) => h.sms # m
        BY <1>1, <1>2, <1>6, <2>2 DEF CreateNotification, Late
    <2>4. HandlingInv'
        BY <1>0, <1>1, <2>2, <2>3 DEF HandlingInv, Handling, Late
    <2> QED BY <1>1, <1>6, <2>1, <2>2, <2>4, ServeFrame DEF CreateNotification, delivery
<1> QED BY <1>3, <1>4, <1>5, <1>6 DEF Serve

LEMMA OutageStep == ASSUME SmsInv, Outage PROVE SmsInv' /\ Received' = Received
<1>0. HandlingInv /\ inbox \in Buffer(Received)
    BY DEF SmsInv, ServerInv, IntakeInv, BuffersInv
<1>1. CASE GatewayCrashes
    <2>1. IntakeInv' /\ Received' = Received
        BY <1>1, StopStep DEF GatewayCrashes, SmsInv
    <2>2. HandlingInv'
        BY <1>0, <1>1, <2>1 DEF GatewayCrashes, HandlingInv, Handling, Late, server
    <2>3. ServerInv'
        BY <1>1, <2>1, <2>2 DEF GatewayCrashes, Disconnect, SmsInv, ServerInv, server
    <2> QED BY <2>1, <2>3 DEF SmsInv
<1>2. CASE ConnectionLost
    BY <1>0, <1>2, DeliveryFrame DEF ConnectionLost, Disconnect, SmsInv, ServerInv
<1>3. ASSUME handling' \subseteq handling, wire' \subseteq wire, acks' \subseteq acks,
             UNCHANGED <<modem, reader, listed, assembly, inbox, up, batch, rows, notified>>
      PROVE  SmsInv' /\ Received' = Received
    <2>1. Received' = Received
        BY <1>3 DEF modem, Received
    <2>2. IntakeInv'
        BY <1>3, <2>1 DEF SmsInv, IntakeInv, StorageInv, ReadersInv, Message, AssemblyInv,
               BuffersInv, modem, assembly
    <2>3. HandlingInv'
        BY <1>0, <1>3, <2>1 DEF HandlingInv, Handling, Late
    <2> QED BY <1>3, <2>1, <2>2, <2>3 DEF SmsInv, ServerInv
<1>4. CASE ServerRestarts
    BY <1>3, <1>4 DEF ServerRestarts, Disconnect
<1>5. CASE \E h \in handling : QueryFails(h)
    BY <1>3, <1>5 DEF QueryFails, delivery
<1> QED BY <1>1, <1>2, <1>4, <1>5 DEF Outage

LEMMA SmsStep == ASSUME SmsInv, [Next]_vars PROVE SmsInv' /\ Received \subseteq Received'
<1>1. CASE IntakeNext /\ UNCHANGED <<delivery, server>>
    BY <1>1, IntakeStep, ServerFrame DEF SmsInv
<1>2. CASE \E m \in Messages, id \in Handlers : Serve(m, id)
    BY <1>2, ServeStep
<1>3. CASE UNCHANGED vars
    <2>1. Received' = Received /\ inbox \in Buffer(Received)
        BY <1>3 DEF vars, intake, modem, Received, SmsInv, IntakeInv, BuffersInv
    <2>2. batch \in Seq(Received)
        BY DEF SmsInv, ServerInv
    <2> QED BY <1>3, <2>1, <2>2, DeliveryFrame DEF vars, intake, delivery
<1> QED BY <1>1, <1>2, <1>3, PumpStep, OutageStep DEF Next

\* What the network has delivered, and what each part of the path holds, stays
\* within what has arrived; every row of the server's table is a message that
\* was received in full, and notified at most once.
THEOREM SmsInvariant == Spec => []SmsInv
<1>1. SmsInv /\ [Next]_vars => SmsInv'
    BY SmsStep
<1> QED BY SmsInit, <1>1, PTL DEF Spec

-----------------------------------------------------------------------------
(* The refinement: every step of InboundSms is one of SmsService.          *)

LEMMA ServiceInit == Init => Service!Init
<1> SUFFICES ASSUME Init PROVE Service!Init
    OBVIOUS
<1>1. \A m \in Messages : PartsOf(m) # {}
    <2>1. \A m \in Messages : <<m, 1>> \in PartsOf(m)
        BY DEF PartsOf, Parts
    <2> QED BY <2>1
<1>2. {m \in Messages : PartsOf(m) \subseteq arrived} = {}
    BY <1>1 DEF Init, IntakeInit
<1> QED BY <1>2 DEF Init, Service!Init

LEMMA ServeImplements ==
    ASSUME SmsInv, NEW m \in Messages, NEW id \in Handlers, Serve(m, id)
    PROVE  [Service!Next]_(Service!service)
<1>0. Received' = Received /\ notified \in [Messages -> {0, 1}]
    BY ServeStep DEF SmsInv, ServerInv
<1>1. CASE ReceiveMessage(m, id)
    BY <1>0, <1>1 DEF ReceiveMessage, Service!service, Received
<1>2. CASE InsertMessage(m, id)
    <2>1. m \in Received
        BY <1>2 DEF InsertMessage, SmsInv, ServerInv, HandlingInv, Handling, At
    <2>2. CASE m \in rows
        BY <1>0, <1>2, <2>2 DEF InsertMessage, Service!service, Received
    <2>3. CASE m \notin rows
        <3>1. Service!Store(m)
            BY <1>0, <1>2, <2>1, <2>3 DEF InsertMessage, Service!Store, Received
        <3> QED BY <3>1 DEF Service!Next
    <2> QED BY <2>2, <2>3
<1>3. CASE MetadataUpdated(m, id)
    BY <1>0, <1>3 DEF MetadataUpdated, Service!service, Received
<1>4. CASE CreateNotification(m, id)
    <2>1. m \in rows /\ notified[m] = 0
        BY <1>4 DEF CreateNotification, SmsInv, ServerInv, HandlingInv, Late, At
    <2>2. notified' = [notified EXCEPT ![m] = 1] /\ rows' = rows
        BY <1>4, <2>1 DEF CreateNotification
    <2>3. Service!Announce(m)
        BY <1>0, <2>1, <2>2 DEF Service!Announce, Received
    <2> QED BY <2>3 DEF Service!Next
<1> QED BY <1>1, <1>2, <1>3, <1>4 DEF Serve

LEMMA StepImplements ==
    ASSUME SmsInv, SmsInv', [Next]_vars PROVE [Service!Next]_(Service!service)
<1>1. CASE IntakeNext /\ UNCHANGED <<delivery, server>>
    <2>1. Received \subseteq Received' /\ Received' \in SUBSET Messages /\ UNCHANGED <<rows, notified>>
        BY <1>1, IntakeStep DEF SmsInv, server, Received
    <2>2. Service!Receive
        BY <2>1 DEF Service!Receive, Received
    <2> QED BY <2>2 DEF Service!Next
<1>2. CASE \E m \in Messages, id \in Handlers : Serve(m, id)
    BY <1>2, ServeImplements
<1>3. ASSUME Received' = Received, UNCHANGED <<rows, notified>> PROVE [Service!Next]_(Service!service)
    BY <1>3 DEF Service!service, Received
<1>4. CASE Connect \/ Pump
    <2>1. UNCHANGED <<rows, notified>>
        BY <1>4 DEF Connect, Pump, Flush, SendOne, GiveUp, HandleAck, server
    <2> QED BY <1>3, <1>4, <2>1, PumpStep
<1>5. CASE Outage
    <2>1. UNCHANGED <<rows, notified>>
        BY <1>5 DEF Outage, GatewayCrashes, ConnectionLost, ServerRestarts, QueryFails, server
    <2> QED BY <1>3, <1>5, <2>1, OutageStep
<1>6. CASE UNCHANGED vars
    BY <1>3, <1>6 DEF vars, server, intake, modem, Received
<1> QED BY <1>1, <1>2, <1>4, <1>5, <1>6 DEF Next

\* The SMS path implements SmsService: only messages that have arrived in full
\* are stored, each once, and each is announced at most once, after it was
\* stored, however often the gateway delivers it again.
THEOREM SmsRefinesService == Spec => ImplementsService
<1>1. SmsInv /\ SmsInv' /\ [Next]_vars => [Service!Next]_(Service!service)
    BY StepImplements
<1> QED BY SmsInvariant, ServiceInit, <1>1, PTL DEF Spec, ImplementsService, Service!Spec

-----------------------------------------------------------------------------
(* Nothing is lost.  What the buffers do when the disk does not fail and    *)
(* they have room: the file holds what memory holds, each entry once.       *)

Distinct(s) == \A j, k \in DOMAIN s : s[j] = s[k] => j = k

InStep(b) == b.mem = b.file /\ ~b.torn /\ Distinct(b.file)

Roomy(S) == IsFiniteSet(S) /\ Cardinality(S) <= Capacity

LEMMA DistinctFits ==
    ASSUME NEW S, Roomy(S), NEW s \in Seq(S), Distinct(s)
    PROVE  Len(s) <= Capacity /\ \A x \in S \ ToSet(s) : Len(s) < Capacity
<1>1. ASSUME NEW T, IsFiniteSet(T), s \in Seq(T) PROVE Len(s) <= Cardinality(T)
    <2>1. s \in [1..Len(s) -> T] /\ DOMAIN s = 1..Len(s)
        BY <1>1
    <2>2. s \in Injection(1..Len(s), T)
        BY <2>1 DEF Distinct, Injection, IsInjective
    <2>3. Cardinality(1..Len(s)) = Len(s)
        <3>1. Len(s) \in Nat
            OBVIOUS
        <3>2. Cardinality(1..Len(s)) = IF 1 > Len(s) THEN 0 ELSE Len(s) - 1 + 1
            BY <3>1, FS_Interval
        <3> QED BY <3>1, <3>2
    <2> QED BY <1>1, <2>2, <2>3, FS_Injection
<1>2. IsFiniteSet(S) /\ Cardinality(S) \in Nat /\ Cardinality(S) <= Capacity /\ Len(s) \in Nat
      /\ Capacity \in Nat
    BY FS_CardinalityType, BufferAssumption DEF Roomy
<1>3. ASSUME NEW x \in S \ ToSet(s) PROVE Len(s) < Capacity
    <2>1. IsFiniteSet(S \ {x}) /\ Cardinality(S \ {x}) = Cardinality(S) - 1
        BY <1>2, FS_RemoveElement
    <2>2. s \in Seq(S \ {x})
        <3>1. \A k \in 1..Len(s) : s[k] \in S \ {x}
            BY DEF ToSet
        <3> QED BY <3>1
    <2>3. Len(s) <= Cardinality(S \ {x})
        BY <1>1, <2>1, <2>2
    <2> QED BY <1>2, <2>1, <2>3
<1>4. Len(s) <= Capacity
    BY <1>1, <1>2
<1> QED BY <1>3, <1>4

Adds(c, b, x) == ToSet(c.file) = ToSet(b.file) \cup {x}

LEMMA PushKept ==
    ASSUME NEW S, Roomy(S), NEW b \in Buffer(S), InStep(b), NEW x \in S, NEW o \in Push(b, x, FALSE)
    PROVE  InStep(o.buf) /\ Adds(o.buf, b, x)
<1>1. b.mem \in Seq(S) /\ b.file = b.mem /\ ~b.torn
    BY DEF Buffer, InStep
<1>2. CASE Contains(b.mem, x)
    <2>1. o = Outcome(b, TRUE)
        BY <1>2 DEF Push
    <2>2. x \in ToSet(b.mem)
        BY <1>1, <1>2, ContainsIsIn
    <2> QED BY <1>1, <2>1, <2>2, OutcomeIs DEF Adds
<1>3. CASE ~Contains(b.mem, x)
    <2>1. x \notin ToSet(b.mem)
        BY <1>1, <1>3, ContainsIsIn
    <2>2. Len(b.mem) < Capacity
        BY <1>1, <2>1, DistinctFits DEF InStep
    <2>3. ~(Len(b.mem) >= Capacity)
        BY <1>1, <2>2, BufferAssumption
    <2> DEFINE c == [b EXCEPT !.mem = Append(@, x)]
               written == [c EXCEPT !.file = @ \o Line(c, x), !.torn = FALSE]
    <2>4. o \in AppendLine(c, x, FALSE)
        BY <1>3, <2>3 DEF Push
    <2>5. o = Outcome(written, TRUE)
        BY <2>4 DEF AppendLine
    <2>6. Line(c, x) = <<x>>
        BY <1>1 DEF Line, Buffer
    <2>7. written.mem = Append(b.mem, x) /\ written.file = b.mem \o <<x>> /\ written.torn = FALSE
        BY <1>1, <2>6 DEF Buffer
    <2> HIDE DEF written, c
    <2>8. b.mem \o <<x>> = Append(b.mem, x)
        BY <1>1
    <2>9. o.buf = written /\ o.ok = TRUE
        BY <2>5, OutcomeIs
    <2> DEFINE s == Append(b.mem, x)
    <2>10. s \in Seq(S) /\ Len(s) = Len(b.mem) + 1 /\ DOMAIN s = 1..(Len(b.mem) + 1)
           /\ s[Len(b.mem) + 1] = x /\ (\A k \in DOMAIN b.mem : s[k] = b.mem[k])
           /\ DOMAIN b.mem = 1..Len(b.mem) /\ Len(b.mem) \in Nat
        BY <1>1
    <2> HIDE DEF s
    <2>11. \A k \in DOMAIN b.mem : b.mem[k] # x
        BY <2>1 DEF ToSet
    <2>12. \A k \in DOMAIN s : k \in DOMAIN b.mem \/ k = Len(b.mem) + 1
        BY <2>10
    <2>13. Distinct(s)
        BY <1>1, <2>10, <2>11, <2>12 DEF Distinct, InStep
    <2>14. Len(b.mem) + 1 \in DOMAIN s /\ DOMAIN b.mem \subseteq DOMAIN s
        BY <2>10
    <2>15. ToSet(s) = ToSet(b.mem) \cup {x}
        BY <2>10, <2>12, <2>14 DEF ToSet
    <2> QED BY <1>1, <2>7, <2>8, <2>9, <2>13, <2>15 DEF InStep, Adds, s
<1> QED BY <1>2, <1>3

LEMMA RemoveKept ==
    ASSUME NEW S, NEW b \in Buffer(S), InStep(b), NEW T, NEW o \in RemoveAll(b, T, FALSE)
    PROVE  InStep(o.buf) /\ ToSet(o.buf.file) = ToSet(b.file) \ T
<1> DEFINE gone == T \cap ToSet(b.mem)
           left == Without(b.mem, gone)
<1>1. b.mem \in Seq(S) /\ b.file = b.mem /\ ~b.torn /\ Distinct(b.mem)
    BY DEF Buffer, InStep
<1>2. CASE gone = {}
    <2>1. o = Outcome(b, TRUE)
        BY <1>2 DEF RemoveAll
    <2>2. ToSet(b.file) \ T = ToSet(b.file)
        BY <1>1, <1>2
    <2> QED BY <2>1, <2>2, OutcomeIs
<1>3. CASE gone # {}
    <2>1. o = Outcome([mem |-> left, file |-> left, torn |-> FALSE], TRUE)
        BY <1>3 DEF RemoveAll
    <2>2. ToSet(left) = ToSet(b.mem) \ gone /\ Distinct(left)
        <3> HIDE DEF gone
        <3> QED BY <1>1, WithoutKeeps DEF Distinct
    <2>3. ToSet(b.mem) \ gone = ToSet(b.mem) \ T
        OBVIOUS
    <2>4. o.buf = [mem |-> left, file |-> left, torn |-> FALSE] /\ o.ok = TRUE
        <3> HIDE DEF left
        <3> QED BY <2>1, OutcomeIs
    <2> HIDE DEF left, gone
    <2> QED BY <1>1, <2>2, <2>3, <2>4 DEF InStep
<1> QED BY <1>2, <1>3

LEMMA LoadKept ==
    ASSUME NEW S, Roomy(S), NEW b \in Buffer(S), ~b.torn, Distinct(b.file)
    PROVE  InStep(Load(b)) /\ Load(b).file = b.file
<1>1. b.file \in Seq(S)
    BY DEF Buffer
<1>2. Len(b.file) <= Capacity
    BY <1>1, DistinctFits
<1> QED BY <1>2, LoadTyped DEF InStep

\* What the theorem asks of the world: the disk and the modem do as they are
\* told, no slot is used again while a goroutine still works on its index, and
\* the buffers never reach their capacity.
Reliable == Faults \subseteq {"stale"} /\ Roomy(Parts)

\* The file holds what the memory of a running gateway holds.
Kept(b) == (up => b.mem = b.file) /\ ~b.torn /\ Distinct(b.file)

Taken(m) == Contains(inbox.file, m) \/ m \in rows

Working == {"read", "add", "deliver", "delete", "commit", "free"}

\* While a reader works on a part, its slot holds that part or nothing; before
\* it deletes the slot, the part is stored elsewhere.
HoldsSlot(r) ==
    /\ reader[r].pc # "idle" => up
    /\ reader[r].pc \in Working => reader[r].slot \in Slots
    /\ reader[r].pc = "read" => reader[r].part = None
    /\ reader[r].pc \in Working \ {"read"} => storage[reader[r].slot] \in {None, reader[r].part}
    /\ reader[r].pc = "free" /\ reader[r].part # None => Persisted(reader[r].part)
    /\ reader[r].pc \in {"delete", "commit"} => Taken(Message(r))

HoldingInv == \A r \in Readers : HoldsSlot(r)

\* The drain works on the memory "SM" until it turns to the others.
DrainSelects == reader[Drain].pc \in Working \cup {"next"} => selected = "SM"

\* Acknowledgements reach a gateway that runs.
LinkInv == (link => up) /\ (acks # {} => link)

CustodyInv ==
    /\ Reliable
    /\ Kept(parts) /\ Kept(inbox)
    /\ HoldingInv /\ DrainSelects /\ LinkInv
    /\ NothingLost

LEMMA MessagesFit == Reliable => Roomy(Messages)
<1> SUFFICES ASSUME Reliable PROVE Roomy(Messages)
    OBVIOUS
<1> DEFINE f == [m \in Messages |-> <<m, 1>>]
<1>1. f \in Injection(Messages, Parts)
    BY DEF Parts, Injection, IsInjective
<1>2. IsFiniteSet(Messages) /\ Cardinality(Messages) <= Cardinality(Parts)
    <2> HIDE DEF f
    <2> QED BY <1>1, FS_Injection DEF Reliable, Roomy
<1>3. Cardinality(Messages) \in Nat /\ Cardinality(Parts) \in Nat /\ Capacity \in Nat
    BY <1>2, FS_CardinalityType, BufferAssumption DEF Reliable, Roomy
<1> QED BY <1>2, <1>3 DEF Reliable, Roomy

LEMMA ReliableDisk == Reliable => DiskMayFail = FALSE
    BY DEF Reliable, DiskMayFail

\* The buffers of a gateway that runs.
LEMMA RunningBuffers ==
    ASSUME SmsInv, CustodyInv
    PROVE  /\ parts \in Buffer(Parts) /\ inbox \in Buffer(Messages)
           /\ up => InStep(parts) /\ InStep(inbox)
<1>1. arrived \subseteq Parts /\ Received \subseteq Messages /\ parts \in Buffer(arrived)
      /\ inbox \in Buffer(Received)
    BY DEF SmsInv, IntakeInv, StorageInv, BuffersInv, Received
<1>2. parts \in Buffer(Parts) /\ inbox \in Buffer(Messages)
    BY <1>1, BufferGrows
<1>3. up => InStep(parts) /\ InStep(inbox)
    BY DEF CustodyInv, Kept, InStep
<1> QED BY <1>2, <1>3

\* Where a part is, in terms of sets.
PartFile == ToSet(parts.file)
InboxFile == ToSet(inbox.file)

LEMMA WhereItIs ==
    ASSUME SmsInv
    PROVE  /\ \A m : Taken(m) <=> m \in InboxFile \cup rows
           /\ \A p : Persisted(p) <=> p \in PartFile \/ p[1] \in InboxFile \cup rows \cup expired
<1>1. parts.file \in Seq(arrived) /\ inbox.file \in Seq(Received)
    BY DEF SmsInv, IntakeInv, BuffersInv, Buffer
<1>2. \A x : (Contains(parts.file, x) <=> x \in PartFile) /\ (Contains(inbox.file, x) <=> x \in InboxFile)
    BY <1>1, ContainsIsIn DEF PartFile, InboxFile
<1> QED BY <1>2 DEF Taken, Persisted

LEMMA WhereItIsNext ==
    ASSUME SmsInv'
    PROVE  /\ \A m : Taken(m)' <=> m \in InboxFile' \cup rows'
           /\ \A p : Persisted(p)' <=> p \in PartFile' \/ p[1] \in InboxFile' \cup rows' \cup expired'
<1>1. parts.file' \in Seq(arrived') /\ inbox.file' \in Seq(Received')
    BY DEF SmsInv, IntakeInv, BuffersInv, Buffer
<1>2. \A x : (Contains(parts.file, x)' <=> x \in PartFile') /\ (Contains(inbox.file, x)' <=> x \in InboxFile')
    BY <1>1, ContainsIsIn DEF PartFile, InboxFile
<1> QED BY <1>2 DEF Taken, Persisted

LEMMA CustodyInit == ASSUME Reliable, Init PROVE CustodyInv
<1>1. EmptyBuffer.mem = <<>> /\ EmptyBuffer.file = <<>> /\ EmptyBuffer.torn = FALSE
    BY DEF EmptyBuffer
<1>2. Distinct(<<>>)
    BY DEF Distinct
<1>3. Kept(parts) /\ Kept(inbox)
    BY <1>1, <1>2 DEF Init, IntakeInit, Kept
<1>4. \A r \in Readers : reader[r].pc = "idle"
    BY DEF Init, IntakeInit, Idle
<1>5. Drain \in Readers
    BY DEF Readers
<1>6. HoldingInv /\ DrainSelects /\ LinkInv /\ NothingLost
    BY <1>4, <1>5 DEF Init, IntakeInit, HoldingInv, HoldsSlot, DrainSelects, LinkInv, NothingLost, Working
<1> QED BY <1>3, <1>6 DEF CustodyInv

\* What is stored stays stored: only what is told of a step in terms of this
\* has to be looked at again after it.
Carried ==
    /\ \A m : Taken(m) => Taken(m)'
    /\ \A p \in Parts : Persisted(p) => Persisted(p)'

Emptied == \A s \in Slots : \/ storage'[s] = storage[s]
                            \/ storage'[s] = None /\ (storage[s] # None => Persisted(storage[s]))

LEMMA CarriedOver ==
    ASSUME UNCHANGED <<parts, inbox, expired>>, rows \subseteq rows' PROVE Carried
    BY DEF Carried, Taken, Persisted

LEMMA StillThere ==
    ASSUME SmsInv, NothingLost, arrived' = arrived, Carried, Emptied PROVE NothingLost'
<1> SUFFICES ASSUME NEW p \in arrived PROVE (\E s \in Slots : storage'[s] = p) \/ Persisted(p)'
    BY DEF NothingLost, Persisted
<1>1. p \in Parts /\ p # None
    BY PartsAssumption DEF SmsInv, IntakeInv, StorageInv
<1>2. (\E s \in Slots : storage[s] = p) \/ Persisted(p)
    BY DEF NothingLost, Persisted
<1>3. Persisted(p) => Persisted(p)'
    BY <1>1 DEF Carried
<1>4. CASE \E s \in Slots : storage[s] = p
    BY <1>1, <1>3, <1>4 DEF Emptied
<1> QED BY <1>2, <1>3, <1>4

\* Holding what it held, for a reader that does not move.
LEMMA HoldsOn ==
    ASSUME SmsInv, NEW q \in Readers, HoldsSlot(q), reader'[q] = reader[q], up => up', Carried,
           \A s \in Slots : reader[q].slot = s => storage'[s] \in {storage[s], None}
    PROVE  HoldsSlot(q)'
<1>1. reader[q] \in Reader /\ reader[q].part \in Parts \cup {None}
    BY DEF SmsInv, IntakeInv, ReadersInv, Reader
<1>2. Message(q)' = Message(q)
    BY DEF Message
<1>3. reader[q].pc \in {"delete", "commit"} => Taken(Message(q))'
    BY <1>2 DEF HoldsSlot, Carried, Taken
<1>4. reader[q].pc = "free" /\ reader[q].part # None => Persisted(reader[q].part)'
    BY <1>1 DEF HoldsSlot, Carried, Persisted
<1>5. reader[q].pc \in Working \ {"read"} => storage'[reader[q].slot] \in {None, reader[q].part}
    BY DEF HoldsSlot, Working
<1> QED BY <1>3, <1>4, <1>5 DEF HoldsSlot, Persisted

\* A step in which a reader works on its part.
ReaderDoes(r) ==
    /\ UNCHANGED <<arrived, selected, up, rows, link, acks>>
    /\ reader[r].pc \in Working
    /\ \A q \in Readers : q # r => reader'[q] = reader[q]
    /\ Kept(parts)' /\ Kept(inbox)' /\ Carried /\ Emptied
    /\ HoldsSlot(r)'

LEMMA ReaderCustody ==
    ASSUME SmsInv, CustodyInv, NEW r \in Readers, ReaderDoes(r) PROVE CustodyInv'
<1>1. HoldingInv'
    <2> SUFFICES ASSUME NEW q \in Readers, q # r PROVE HoldsSlot(q)'
        BY DEF HoldingInv, ReaderDoes
    <2>1. HoldsSlot(q) /\ reader'[q] = reader[q] /\ (up => up') /\ Carried
        BY DEF CustodyInv, HoldingInv, ReaderDoes
    <2>2. \A s \in Slots : reader[q].slot = s => storage'[s] \in {storage[s], None}
        BY DEF ReaderDoes, Emptied
    <2> QED BY <2>1, <2>2, HoldsOn
<1>2. NothingLost'
    BY StillThere DEF CustodyInv, ReaderDoes
<1>3. DrainSelects'
    <2>1. Drain \in Readers
        BY DEF Readers
    <2>2. CASE r = Drain
        BY <2>2 DEF ReaderDoes, CustodyInv, DrainSelects
    <2>3. CASE r # Drain
        BY <2>1, <2>3 DEF ReaderDoes, CustodyInv, DrainSelects
    <2> QED BY <2>2, <2>3
<1>4. LinkInv'
    BY DEF ReaderDoes, CustodyInv, LinkInv
<1> QED BY <1>1, <1>2, <1>3, <1>4 DEF ReaderDoes, CustodyInv, Reliable

LEMMA KeptStays ==
    ASSUME CustodyInv, up' = up
    PROVE  (parts' = parts => Kept(parts)') /\ (inbox' = inbox => Kept(inbox)')
    BY DEF CustodyInv, Kept

\* What holds of a reader about to take a step.
LEMMA AboutReader ==
    ASSUME SmsInv, CustodyInv, NEW r \in Readers, reader[r].pc \in Working
    PROVE  /\ reader[r] \in Reader /\ reader[r].slot \in Slots /\ up /\ HoldsSlot(r)
           /\ r = Drain => selected = "SM"
    BY DEF SmsInv, IntakeInv, ReadersInv, CustodyInv, HoldingInv, HoldsSlot, DrainSelects, Working

LEMMA ReadMessageCustody ==
    ASSUME SmsInv, CustodyInv, NEW r \in Readers, ReadMessage(r), UNCHANGED <<delivery, server>>
    PROVE  CustodyInv'
<1> DEFINE p == storage[reader[r].slot]
           pc == IF p[1] \in Multipart THEN "add" ELSE "deliver"
<1>1. reader[r] \in Reader /\ reader[r].slot \in Slots /\ up /\ reader \in [Readers -> Reader]
    BY AboutReader DEF ReadMessage, Working, SmsInv, IntakeInv, ReadersInv
<1>2. reader' = [reader EXCEPT ![r] = [reader[r] EXCEPT !.part = p, !.pc = pc]]
    BY <1>1 DEF ReadMessage
<1>3. pc \in {"add", "deliver"}
    OBVIOUS
<1>4. UNCHANGED <<arrived, storage, selected, up, parts, inbox, rows, expired, link, acks>>
    BY DEF ReadMessage, modem, assembly, delivery, server
<1> HIDE DEF pc
<1>5. /\ reader'[r].pc = pc /\ reader'[r].part = p /\ reader'[r].slot = reader[r].slot
      /\ \A q \in Readers : q # r => reader'[q] = reader[q]
    <2> HIDE DEF p
    <2> QED BY <1>1, <1>2 DEF Reader
<1>6. HoldsSlot(r)'
    BY <1>1, <1>3, <1>4, <1>5 DEF HoldsSlot
<1>7. Emptied /\ Carried
    BY <1>4, CarriedOver DEF Emptied
<1>8. ReaderDoes(r)
    BY <1>4, <1>5, <1>6, <1>7, KeptStays DEF ReaderDoes, ReadMessage, Working
<1> QED BY <1>8, ReaderCustody

LEMMA DoneHolds ==
    ASSUME SmsInv, NEW r \in Readers, Done(r), up, up'
    PROVE  HoldsSlot(r)' /\ \A q \in Readers : q # r => reader'[q] = reader[q]
<1>1. reader'[r].pc \in {"idle", "next"} /\ \A q \in Readers : q # r => reader'[q] = reader[q]
    BY DoneMoves DEF SmsInv, IntakeInv
<1> QED BY <1>1 DEF HoldsSlot, Working

LEMMA ReadFailsCustody ==
    ASSUME SmsInv, CustodyInv, NEW r \in Readers, ReadFails(r), UNCHANGED <<delivery, server>>
    PROVE  CustodyInv'
<1>1. /\ reader[r] \in Reader /\ reader[r].slot \in Slots /\ up /\ reader[r].pc = "read"
      /\ reader[r].part = None
      /\ r = Drain => selected = "SM"
    BY AboutReader DEF ReadFails, Working, HoldsSlot
<1>2. UNCHANGED <<arrived, storage, selected, up, parts, inbox, rows, expired, link, acks>>
    BY DEF ReadFails, modem, assembly, delivery, server
<1>3. Emptied /\ Carried
    BY <1>2, CarriedOver DEF Emptied
<1>4. HoldsSlot(r)' /\ \A q \in Readers : q # r => reader'[q] = reader[q]
    <2>1. CASE r = Drain
        <3>1. storage[reader[r].slot] = None
            <4>1. "at" \notin Faults
                BY DEF CustodyInv, Reliable
            <4>2. ~Readable(r)
                BY <4>1 DEF ReadFails
            <4> QED BY <1>1, <2>1, <4>2 DEF Readable
        <3>2. Goto(r, "free") /\ "free" \in Pcs
            BY <2>1 DEF ReadFails, Pcs
        <3>3. /\ reader'[r].pc = "free" /\ reader'[r].part = reader[r].part
              /\ reader'[r].slot = reader[r].slot
              /\ \A q \in Readers : q # r => reader'[q] = reader[q]
            BY <3>2, GotoMoves DEF SmsInv, IntakeInv
        <3> QED BY <1>1, <1>2, <3>1, <3>3 DEF HoldsSlot
    <2>2. CASE r # Drain
        BY <1>1, <1>2, <2>2, DoneHolds DEF ReadFails
    <2> QED BY <2>1, <2>2
<1>5. ReaderDoes(r)
    BY <1>1, <1>2, <1>3, <1>4, KeptStays DEF ReaderDoes, Working
<1> QED BY <1>5, ReaderCustody

\* The slot a reader deletes is empty or holds what is stored elsewhere.
LEMMA DeleteEmpties ==
    ASSUME SmsInv, CustodyInv, NEW r \in Readers, reader[r].pc \in {"free", "delete"},
           DeleteStored(reader[r].slot)
    PROVE  Emptied
<1>1. /\ reader[r] \in Reader /\ reader[r].slot \in Slots
      /\ storage[reader[r].slot] \in {None, reader[r].part}
      /\ reader[r].pc = "free" /\ reader[r].part # None => Persisted(reader[r].part)
      /\ reader[r].pc = "delete" => Taken(Message(r))
    BY AboutReader DEF HoldsSlot, Working
<1>2. storage[reader[r].slot] # None => Persisted(storage[reader[r].slot])
    <2>1. Taken(Message(r)) => Persisted(reader[r].part)
        BY DEF Taken, Persisted, Message
    <2> QED BY <1>1, <2>1
<1>3. storage \in [Slots -> arrived \cup {None}]
    BY DEF SmsInv, IntakeInv, StorageInv
<1> QED BY <1>1, <1>2, <1>3 DEF DeleteStored, Emptied

LEMMA FreeSlotCustody ==
    ASSUME SmsInv, CustodyInv, NEW r \in Readers, FreeSlot(r), UNCHANGED <<delivery, server>>
    PROVE  CustodyInv'
<1>1. reader[r].pc = "free" /\ up
    BY AboutReader DEF FreeSlot, Working
<1>2. UNCHANGED <<arrived, selected, up, parts, inbox, rows, expired, link, acks>>
    BY DEF FreeSlot, assembly, delivery, server
<1>3. Emptied /\ Carried
    BY <1>1, <1>2, CarriedOver, DeleteEmpties DEF FreeSlot
<1>4. HoldsSlot(r)' /\ \A q \in Readers : q # r => reader'[q] = reader[q]
    BY <1>1, <1>2, DoneHolds DEF FreeSlot
<1>5. ReaderDoes(r)
    BY <1>1, <1>2, <1>3, <1>4, KeptStays DEF ReaderDoes, Working
<1> QED BY <1>5, ReaderCustody

LEMMA DeleteDeliveredCustody ==
    ASSUME SmsInv, CustodyInv, NEW r \in Readers, DeleteDelivered(r), UNCHANGED <<delivery, server>>
    PROVE  CustodyInv'
<1>1. /\ reader[r].pc = "delete" /\ up /\ reader[r].slot \in Slots /\ Taken(Message(r))
      /\ storage[reader[r].slot] \in {None, reader[r].part}
    BY AboutReader DEF DeleteDelivered, Working, HoldsSlot
<1>2. UNCHANGED <<arrived, selected, up, parts, inbox, rows, expired, link, acks>>
    BY DEF DeleteDelivered, assembly, delivery, server
<1>3. Emptied /\ Carried
    BY <1>1, <1>2, CarriedOver, DeleteEmpties DEF DeleteDelivered
<1>4. HoldsSlot(r)' /\ \A q \in Readers : q # r => reader'[q] = reader[q]
    <2>1. CASE Goto(r, "commit")
        <3>1. /\ reader'[r].pc = "commit" /\ reader'[r].part = reader[r].part
              /\ reader'[r].slot = reader[r].slot
              /\ \A q \in Readers : q # r => reader'[q] = reader[q]
            BY <2>1, GotoMoves DEF SmsInv, IntakeInv, Pcs
        <3>2. storage'[reader[r].slot] \in {None, reader[r].part}
            BY <1>1, <1>3 DEF Emptied
        <3>3. Taken(Message(r))'
            BY <1>1, <1>2, <3>1 DEF Taken, Message
        <3> QED BY <1>1, <1>2, <3>1, <3>2, <3>3 DEF HoldsSlot
    <2>2. CASE Done(r)
        BY <1>1, <1>2, <2>2, DoneHolds
    <2> QED BY <2>1, <2>2 DEF DeleteDelivered
<1>5. ReaderDoes(r)
    BY <1>1, <1>2, <1>3, <1>4, KeptStays DEF ReaderDoes, Working
<1> QED BY <1>5, ReaderCustody

LEMMA AddPartCustody ==
    ASSUME SmsInv, SmsInv', CustodyInv, NEW r \in Readers, AddPart(r), UNCHANGED <<delivery, server>>
    PROVE  CustodyInv'
<1> DEFINE m == Message(r)
           p == reader[r].part
           stale == {n \in overdue : pending[n] # {}}
           gone == UNION {pending[n] : n \in stale}
<1>1. /\ reader[r].pc = "add" /\ up /\ reader[r].slot \in Slots
      /\ storage[reader[r].slot] \in {None, p}
    BY AboutReader DEF AddPart, Working, HoldsSlot
<1>2. UNCHANGED <<arrived, storage, selected, up, inbox, rows, link, acks>> /\ expired' = expired \cup stale
    BY DEF AddPart, modem, delivery, server
<1>3. p \in Parts
    BY <1>1 DEF SmsInv, IntakeInv, ReadersInv, StorageInv
<1>4. InStep(parts') /\ PartFile' = (PartFile \ gone) \cup {p}
    <2>1. PICK cleaned \in RemoveAll(parts, gone, FALSE) :
             \E pushed \in Push(cleaned.buf, p, FALSE) : parts' = pushed.buf
        BY ReliableDisk DEF AddPart, CustodyInv
    <2>2. PICK pushed \in Push(cleaned.buf, p, FALSE) : parts' = pushed.buf
        BY <2>1
    <2>3. parts \in Buffer(Parts) /\ InStep(parts) /\ Roomy(Parts)
        BY <1>1, RunningBuffers DEF CustodyInv, Reliable
    <2> HIDE DEF gone, p
    <2>4. cleaned.buf \in Buffer(Parts)
        BY <2>1, <2>3, RemoveTyped
    <2>5. InStep(cleaned.buf) /\ ToSet(cleaned.buf.file) = PartFile \ gone
        BY <2>1, <2>3, RemoveKept DEF PartFile
    <2>6. InStep(pushed.buf) /\ Adds(pushed.buf, cleaned.buf, p)
        BY <1>3, <2>2, <2>3, <2>4, <2>5, PushKept
    <2> QED BY <2>2, <2>5, <2>6 DEF PartFile, Adds
<1>5. \A q \in gone : q[1] \in stale
    BY DEF SmsInv, IntakeInv, AssemblyInv, PartsOf
<1>6. Carried
    <2> HIDE DEF gone, stale, p
    <2>1. InboxFile' = InboxFile
        BY <1>2 DEF InboxFile
    <2> QED BY <1>2, <1>4, <1>5, <2>1, WhereItIs, WhereItIsNext DEF Carried
<1>7. PICK q \in Parts : q = p /\ Persisted(q)'
    <2> SUFFICES ASSUME NEW q \in Parts, q = p PROVE Persisted(q)'
        BY <1>3
    <2>1. q \in PartFile'
        <3> HIDE DEF gone, p
        <3> QED BY <1>4
    <2> QED BY <2>1, WhereItIsNext
<1>8. HoldsSlot(r)' /\ \A k \in Readers : k # r => reader'[k] = reader[k]
    <2>1. PICK pc \in {"deliver", "free"} : Goto(r, pc)
        BY DEF AddPart
    <2>2. /\ reader'[r].pc = pc /\ reader'[r].part = p /\ reader'[r].slot = reader[r].slot
          /\ \A k \in Readers : k # r => reader'[k] = reader[k]
        BY <2>1, GotoMoves DEF SmsInv, IntakeInv, Pcs
    <2> QED BY <1>1, <1>2, <2>2, <1>7 DEF HoldsSlot, Persisted
<1>9. Emptied
    BY <1>2 DEF Emptied
<1>10. Kept(parts)' /\ Kept(inbox)'
    BY <1>2, <1>4, KeptStays DEF Kept, InStep
<1>11. ReaderDoes(r)
    BY <1>1, <1>2, <1>6, <1>8, <1>9, <1>10 DEF ReaderDoes, Working
<1> QED BY <1>11, ReaderCustody

LEMMA DeliverCustody ==
    ASSUME SmsInv, SmsInv', CustodyInv, NEW r \in Readers, Deliver(r), UNCHANGED <<delivery, server>>
    PROVE  CustodyInv'
<1>1. /\ reader[r].pc = "deliver" /\ up /\ reader[r].slot \in Slots
      /\ storage[reader[r].slot] \in {None, reader[r].part}
    BY AboutReader DEF Deliver, Working, HoldsSlot
<1>2. UNCHANGED <<arrived, storage, selected, up, parts, rows, expired, link, acks>>
    BY DEF Deliver, modem, assembly, delivery, server
<1>3. Message(r) \in Messages
    BY <1>1 DEF SmsInv, IntakeInv, ReadersInv, Received
<1>4. InStep(inbox') /\ InboxFile' = InboxFile \cup {Message(r)}
    <2>1. PICK pushed \in Push(inbox, Message(r), FALSE) : inbox' = pushed.buf
        BY ReliableDisk DEF Deliver, CustodyInv
    <2>2. inbox \in Buffer(Messages) /\ InStep(inbox) /\ Roomy(Messages)
        BY <1>1, RunningBuffers, MessagesFit DEF CustodyInv
    <2>3. InStep(pushed.buf) /\ Adds(pushed.buf, inbox, Message(r))
        BY <1>3, <2>1, <2>2, PushKept
    <2> QED BY <2>1, <2>3 DEF InboxFile, Adds
<1>5. Carried
    <2>1. PartFile' = PartFile
        BY <1>2 DEF PartFile
    <2> QED BY <1>2, <1>4, <2>1, WhereItIs, WhereItIsNext DEF Carried
<1>6. Contains(inbox'.file, Message(r))
    <2>1. inbox'.file \in Seq(Received')
        BY DEF SmsInv, IntakeInv, BuffersInv, Buffer
    <2> QED BY <1>4, <2>1, ContainsIsIn DEF InboxFile
<1>7. HoldsSlot(r)' /\ \A q \in Readers : q # r => reader'[q] = reader[q]
    <2>1. CASE Goto(r, "delete")
        <3>1. /\ reader'[r].pc = "delete" /\ reader'[r].part = reader[r].part
              /\ reader'[r].slot = reader[r].slot
              /\ \A q \in Readers : q # r => reader'[q] = reader[q]
            BY <2>1, GotoMoves DEF SmsInv, IntakeInv, Pcs
        <3>2. Taken(Message(r))'
            BY <1>6, <3>1 DEF Taken, Message
        <3> QED BY <1>1, <1>2, <3>1, <3>2 DEF HoldsSlot
    <2>2. CASE Done(r)
        BY <1>1, <1>2, <2>2, DoneHolds
    <2> QED BY <2>1, <2>2 DEF Deliver
<1>8. Emptied
    BY <1>2 DEF Emptied
<1>9. Kept(parts)' /\ Kept(inbox)'
    BY <1>2, <1>4, KeptStays DEF Kept, InStep
<1>10. ReaderDoes(r)
    BY <1>1, <1>2, <1>5, <1>7, <1>8, <1>9 DEF ReaderDoes, Working
<1> QED BY <1>10, ReaderCustody

LEMMA CommitCustody ==
    ASSUME SmsInv, SmsInv', CustodyInv, NEW r \in Readers, Commit(r), UNCHANGED <<delivery, server>>
    PROVE  CustodyInv'
<1> DEFINE gone == pending[Message(r)]
<1>1. reader[r].pc = "commit" /\ up /\ Taken(Message(r))
    BY AboutReader DEF Commit, Working, HoldsSlot
<1>2. UNCHANGED <<arrived, storage, selected, up, inbox, rows, expired, link, acks>>
    BY DEF Commit, modem, delivery, server
<1>3. InStep(parts') /\ PartFile' = PartFile \ gone
    <2>1. PICK left \in RemoveAll(parts, gone, FALSE) : parts' = left.buf
        BY ReliableDisk DEF Commit, CustodyInv
    <2>2. parts \in Buffer(Parts) /\ InStep(parts)
        BY <1>1, RunningBuffers
    <2> HIDE DEF gone
    <2> QED BY <2>1, <2>2, RemoveKept DEF PartFile
<1>4. \A p \in gone : p[1] = Message(r)
    <2>1. Message(r) \in Messages
        BY <1>1 DEF SmsInv, IntakeInv, ReadersInv, Received
    <2>2. gone \subseteq PartsOf(Message(r))
        BY <2>1 DEF SmsInv, IntakeInv, AssemblyInv
    <2> QED BY <2>2 DEF PartsOf
<1>5. Carried
    <2> HIDE DEF gone
    <2>1. InboxFile' = InboxFile
        BY <1>2 DEF InboxFile
    <2>2. Message(r) \in InboxFile \cup rows
        BY <1>1, WhereItIs
    <2> QED BY <1>2, <1>3, <1>4, <2>1, <2>2, WhereItIs, WhereItIsNext DEF Carried
<1>6. HoldsSlot(r)' /\ \A q \in Readers : q # r => reader'[q] = reader[q]
    BY <1>1, <1>2, DoneHolds DEF Commit
<1>7. Emptied
    BY <1>2 DEF Emptied
<1>8. Kept(parts)' /\ Kept(inbox)'
    BY <1>2, <1>3, KeptStays DEF Kept, InStep
<1>9. ReaderDoes(r)
    BY <1>1, <1>2, <1>5, <1>6, <1>7, <1>8 DEF ReaderDoes, Working
<1> QED BY <1>9, ReaderCustody

\* Steps that leave the storage alone and say of every reader what held before.
LEMMA StillHolds ==
    ASSUME SmsInv, CustodyInv, Carried, UNCHANGED <<arrived, storage, up, reader>>
    PROVE  HoldingInv' /\ NothingLost'
<1>1. Emptied
    BY DEF Emptied
<1>2. ASSUME NEW q \in Readers PROVE HoldsSlot(q)'
    BY <1>2, HoldsOn DEF CustodyInv, HoldingInv
<1> QED BY <1>1, <1>2, StillThere DEF CustodyInv, HoldingInv

LEMMA ArriveCustody ==
    ASSUME SmsInv, CustodyInv, NEW p \in Parts, NEW s \in Slots, Arrive(p, s), UNCHANGED <<delivery, server>>
    PROVE  CustodyInv'
<1>1. UNCHANGED <<selected, up, parts, inbox, rows, expired, link, acks>>
    BY DEF Arrive, assembly, delivery, server
<1>2. Carried
    BY <1>1, CarriedOver
<1>3. storage' = [storage EXCEPT ![s] = p] /\ storage \in [Slots -> arrived \cup {None}] /\ storage[s] = None
    BY DEF Arrive, SmsInv, IntakeInv, StorageInv
<1>4. /\ \A q \in Readers : q # p \/ ~up => reader'[q] = reader[q]
      /\ up => reader'[p] = [pc |-> "read", slot |-> s, part |-> None]
    BY DEF Arrive, Readers, SmsInv, IntakeInv, ReadersInv
<1>5. \A r \in Readers : reader[r].slot # s
    <2>1. "reuse" \notin Faults
        BY DEF CustodyInv, Reliable
    <2> QED BY <2>1 DEF Arrive, AtHand
<1>6. HoldingInv'
    <2> SUFFICES ASSUME NEW q \in Readers PROVE HoldsSlot(q)'
        BY DEF HoldingInv
    <2>1. CASE q # p \/ ~up
        <3>1. reader'[q] = reader[q] /\ HoldsSlot(q)
            BY <1>4, <2>1 DEF CustodyInv, HoldingInv
        <3>2. \A t \in Slots : reader[q].slot = t => storage'[t] \in {storage[t], None}
            BY <1>3, <1>5
        <3> QED BY <1>1, <1>2, <3>1, <3>2, HoldsOn
    <2>2. CASE q = p /\ up
        BY <1>1, <1>4, <2>2 DEF HoldsSlot, Working
    <2> QED BY <2>1, <2>2
<1>7. NothingLost'
    <2> SUFFICES ASSUME NEW q \in arrived' PROVE (\E t \in Slots : storage'[t] = q) \/ Persisted(q)'
        BY DEF NothingLost, Persisted
    <2>1. q = p \/ q \in arrived
        BY DEF Arrive
    <2>2. CASE q = p
        BY <1>3, <2>2
    <2>3. CASE q \in arrived
        <3>1. q # None /\ q \in Parts
            BY <2>3, PartsAssumption DEF SmsInv, IntakeInv, StorageInv
        <3>2. (\E t \in Slots : storage[t] = q) \/ Persisted(q)
            BY <2>3 DEF CustodyInv, NothingLost, Persisted
        <3>3. Persisted(q) => Persisted(q)'
            BY <1>2, <3>1 DEF Carried
        <3> QED BY <1>3, <3>1, <3>2, <3>3
    <2> QED BY <2>1, <2>2, <2>3
<1>8. DrainSelects'
    <2>1. Drain \in Readers /\ Drain # p
        BY PartsAssumption DEF Readers
    <2> QED BY <1>1, <1>4, <2>1 DEF CustodyInv, DrainSelects
<1>9. LinkInv' /\ Reliable'
    BY <1>1 DEF CustodyInv, LinkInv, Reliable
<1> QED BY <1>1, <1>6, <1>7, <1>8, <1>9, KeptStays DEF CustodyInv

\* Steps of the drain between two messages.
LEMMA DrainCustody ==
    ASSUME SmsInv, CustodyInv, up, UNCHANGED <<arrived, storage, up, assembly, inbox, delivery, server>>,
           \A q \in Readers : q # Drain => reader'[q] = reader[q],
           HoldsSlot(Drain)', DrainSelects'
    PROVE  CustodyInv'
<1>1. UNCHANGED <<parts, inbox, rows, expired, link, acks>>
    BY DEF assembly, delivery, server
<1>2. Carried /\ Emptied
    BY <1>1, CarriedOver DEF Emptied
<1>3. HoldingInv'
    <2> SUFFICES ASSUME NEW q \in Readers, q # Drain PROVE HoldsSlot(q)'
        BY DEF HoldingInv
    <2>1. HoldsSlot(q) /\ reader'[q] = reader[q]
        BY DEF CustodyInv, HoldingInv
    <2> QED BY <1>2, <2>1, HoldsOn
<1>4. NothingLost' /\ LinkInv' /\ Reliable'
    BY <1>1, <1>2, StillThere DEF CustodyInv, LinkInv, Reliable
<1> QED BY <1>1, <1>3, <1>4, KeptStays DEF CustodyInv

LEMMA DrainMoves ==
    ASSUME SmsInv, NEW new \in Reader, reader' = [reader EXCEPT ![Drain] = new]
    PROVE  reader'[Drain] = new /\ \A q \in Readers : q # Drain => reader'[q] = reader[q]
    BY DEF SmsInv, IntakeInv, ReadersInv, Readers

LEMMA DrainingCustody ==
    ASSUME SmsInv, CustodyInv, SmsFull \/ Draining, UNCHANGED <<delivery, server>> PROVE CustodyInv'
<1>0. Drain \in Readers /\ ReadersInv
    BY DEF Readers, SmsInv, IntakeInv
<1>1. CASE SmsFull
    <2>1. UNCHANGED <<arrived, storage, selected, up, assembly, inbox>> /\ up
        BY <1>1 DEF SmsFull, modem
    <2>2. reader'[Drain].pc = "list" /\ \A q \in Readers : q # Drain => reader'[q] = reader[q]
        <3>1. [Idle EXCEPT !.pc = "list"] \in Reader /\ [Idle EXCEPT !.pc = "list"].pc = "list"
            BY IdleReader DEF Pcs
        <3> QED BY <1>1, <3>1, DrainMoves DEF SmsFull
    <2>3. HoldsSlot(Drain)' /\ DrainSelects'
        BY <2>1, <2>2 DEF HoldsSlot, DrainSelects, Working
    <2> QED BY <2>1, <2>2, <2>3, DrainCustody
<1>2. CASE Draining
    <2>1. reader[Drain].pc # "idle" /\ up
        BY <1>0, <1>2 DEF Draining, DrainLists, DrainOthers, DrainRestores, DrainNext,
               CustodyInv, HoldingInv, HoldsSlot
    <2>2. CASE DrainLists
        <3>1. UNCHANGED <<arrived, storage, up, assembly, inbox>> /\ selected' = "SM"
            BY <2>2 DEF DrainLists
        <3>2. reader'[Drain].pc = "next" /\ \A q \in Readers : q # Drain => reader'[q] = reader[q]
            BY <1>0, <2>2, GotoMoves DEF DrainLists, Pcs
        <3>3. HoldsSlot(Drain)' /\ DrainSelects'
            BY <2>1, <3>1, <3>2 DEF HoldsSlot, DrainSelects, Working
        <3> QED BY <2>1, <3>1, <3>2, <3>3, DrainCustody
    <2>3. CASE DrainOthers
        <3>1. UNCHANGED <<arrived, storage, up, assembly, inbox>>
            BY <2>3 DEF DrainOthers
        <3>2. reader'[Drain].pc = "others" /\ \A q \in Readers : q # Drain => reader'[q] = reader[q]
            BY <1>0, <2>3, GotoMoves DEF DrainOthers, Pcs
        <3>3. HoldsSlot(Drain)' /\ DrainSelects'
            BY <2>1, <3>1, <3>2 DEF HoldsSlot, DrainSelects, Working
        <3> QED BY <2>1, <3>1, <3>2, <3>3, DrainCustody
    <2>4. CASE DrainRestores
        <3>1. UNCHANGED <<arrived, storage, up, assembly, inbox>>
            BY <2>4 DEF DrainRestores
        <3>2. reader'[Drain].pc = "idle" /\ \A q \in Readers : q # Drain => reader'[q] = reader[q]
            <4>1. Idle \in Reader /\ Idle.pc = "idle"
                BY IdleReader DEF Idle
            <4>2. reader' = [reader EXCEPT ![Drain] = Idle]
                BY <2>4 DEF DrainRestores
            <4> QED BY <4>1, <4>2, DrainMoves
        <3>3. HoldsSlot(Drain)' /\ DrainSelects'
            BY <2>1, <3>1, <3>2 DEF HoldsSlot, DrainSelects, Working
        <3> QED BY <2>1, <3>1, <3>2, <3>3, DrainCustody
    <2>5. CASE \E s \in Slots : DrainNext(s)
        <3>1. PICK s \in Slots : DrainNext(s)
            BY <2>5
        <3>2. UNCHANGED <<arrived, storage, selected, up, assembly, inbox>> /\ selected = "SM"
            BY <3>1 DEF DrainNext, modem, CustodyInv, DrainSelects
        <3> DEFINE new == [pc |-> "read", slot |-> s, part |-> None]
        <3>3. new \in Reader /\ new.pc = "read" /\ new.slot = s /\ new.part = None
            BY DEF Reader, Pcs
        <3>4. reader' = [reader EXCEPT ![Drain] = new]
            BY <3>1 DEF DrainNext
        <3> HIDE DEF new
        <3>5. reader'[Drain] = new /\ \A q \in Readers : q # Drain => reader'[q] = reader[q]
            BY <3>3, <3>4, DrainMoves
        <3>6. HoldsSlot(Drain)' /\ DrainSelects'
            BY <2>1, <3>2, <3>3, <3>5 DEF HoldsSlot, DrainSelects, Working
        <3> QED BY <2>1, <3>2, <3>5, <3>6, DrainCustody
    <2> QED BY <1>2, <2>2, <2>3, <2>4, <2>5 DEF Draining
<1> QED BY <1>1, <1>2

LEMMA GoesStaleCustody ==
    ASSUME SmsInv, CustodyInv, NEW m \in Multipart, GoesStale(m), UNCHANGED <<delivery, server>>
    PROVE  CustodyInv'
<1>1. UNCHANGED <<arrived, storage, selected, reader, up, parts, inbox, rows, expired, link, acks>>
    BY DEF GoesStale, modem, delivery, server
<1>2. HoldingInv' /\ NothingLost'
    BY <1>1, CarriedOver, StillHolds
<1>3. DrainSelects' /\ LinkInv' /\ Reliable'
    BY <1>1 DEF CustodyInv, DrainSelects, LinkInv, Reliable
<1> QED BY <1>1, <1>2, <1>3, KeptStays DEF CustodyInv

LEMMA BootCustody ==
    ASSUME SmsInv, SmsInv', CustodyInv, Boot, UNCHANGED <<delivery, server>> PROVE CustodyInv'
<1> DEFINE loaded == Load(parts)
           stale == {p \in ToSet(loaded.mem) : p[1] \in overdue}
<1>1. UNCHANGED <<arrived, storage, selected, rows, link, acks>> /\ expired' = expired \cup overdue /\ up'
    BY DEF Boot, modem, delivery, server
<1>2. parts \in Buffer(Parts) /\ inbox \in Buffer(Messages)
    BY RunningBuffers
<1>3. InStep(loaded) /\ loaded.file = parts.file /\ loaded \in Buffer(Parts)
    BY <1>2, LoadKept, LoadTyped DEF CustodyInv, Kept, Reliable
<1>4. InStep(inbox') /\ InboxFile' = InboxFile
    <2>1. InStep(Load(inbox)) /\ Load(inbox).file = inbox.file
        BY <1>2, LoadKept, MessagesFit DEF CustodyInv, Kept
    <2> QED BY <2>1 DEF Boot, InboxFile
<1>5. InStep(parts') /\ PartFile' = PartFile \ stale
    <2>1. PICK left \in RemoveAll(loaded, stale, FALSE) : parts' = left.buf
        BY ReliableDisk DEF Boot, CustodyInv
    <2> HIDE DEF loaded, stale
    <2>2. InStep(left.buf) /\ ToSet(left.buf.file) = ToSet(loaded.file) \ stale
        BY <1>3, <2>1, RemoveKept
    <2> QED BY <1>3, <2>1, <2>2 DEF PartFile
<1>6. \A p \in stale : p[1] \in overdue
    OBVIOUS
<1>7. Carried
    <2> HIDE DEF loaded, stale
    <2> QED BY <1>1, <1>4, <1>5, <1>6, WhereItIs, WhereItIsNext DEF Carried
<1>8. Emptied
    BY <1>1 DEF Emptied
<1>9. HoldingInv' /\ DrainSelects'
    <2>1. [Idle EXCEPT !.pc = "list"] \in Reader /\ [Idle EXCEPT !.pc = "list"].pc = "list"
          /\ Drain \in Readers
        BY IdleReader DEF Pcs, Readers
    <2>2. reader'[Drain].pc = "list" /\ \A q \in Readers : q # Drain => reader'[q] = reader[q]
        BY <2>1, DrainMoves DEF Boot
    <2>3. \A q \in Readers : reader[q].pc = "idle"
        BY DEF Boot, CustodyInv, HoldingInv, HoldsSlot
    <2>4. \A q \in Readers : reader'[q].pc \in {"idle", "list"}
        BY <2>2, <2>3
    <2> QED BY <1>1, <2>1, <2>4 DEF HoldingInv, HoldsSlot, DrainSelects, Working
<1>10. Kept(parts)' /\ Kept(inbox)'
    BY <1>4, <1>5 DEF Kept, InStep
<1>11. NothingLost' /\ LinkInv' /\ Reliable'
    BY <1>1, <1>7, <1>8, StillThere DEF CustodyInv, LinkInv, Reliable
<1> QED BY <1>9, <1>10, <1>11 DEF CustodyInv

LEMMA CrashCustody ==
    ASSUME SmsInv, SmsInv', CustodyInv, GatewayCrashes PROVE CustodyInv'
<1>1. /\ UNCHANGED <<arrived, storage, selected, rows, expired>> /\ ~up' /\ ~link' /\ acks' = {}
      /\ parts' = [parts EXCEPT !.mem = <<>>] /\ inbox' = [inbox EXCEPT !.mem = <<>>]
      /\ reader' = [r \in Readers |-> Idle]
    BY DEF GatewayCrashes, Disconnect, StopProcess, modem, server
<1>2. /\ parts'.file = parts.file /\ parts'.torn = parts.torn
      /\ inbox'.file = inbox.file /\ inbox'.torn = inbox.torn
    <2>1. parts \in Buffer(Parts) /\ inbox \in Buffer(Messages)
        BY RunningBuffers
    <2> QED BY <1>1, <2>1 DEF Buffer
<1>3. Kept(parts)' /\ Kept(inbox)'
    BY <1>1, <1>2 DEF CustodyInv, Kept
<1>4. Carried /\ Emptied
    BY <1>1, <1>2 DEF Carried, Emptied, Taken, Persisted
<1>5. HoldingInv' /\ DrainSelects'
    <2>1. \A q \in Readers : reader'[q].pc = "idle"
        BY <1>1 DEF Idle
    <2>2. Drain \in Readers
        BY DEF Readers
    <2> QED BY <2>1, <2>2 DEF HoldingInv, HoldsSlot, DrainSelects, Working
<1>6. NothingLost' /\ LinkInv' /\ Reliable'
    BY <1>1, <1>4, StillThere DEF CustodyInv, LinkInv, Reliable
<1> QED BY <1>3, <1>5, <1>6 DEF CustodyInv

\* Steps that leave the gateway's intake and its buffers alone.
LEMMA ElsewhereCustody ==
    ASSUME SmsInv, CustodyInv, UNCHANGED <<modem, reader, assembly, inbox, up>>, rows \subseteq rows',
           LinkInv'
    PROVE  CustodyInv'
<1>1. UNCHANGED <<arrived, storage, selected, parts, expired>>
    BY DEF modem, assembly
<1>2. HoldingInv' /\ NothingLost'
    BY <1>1, CarriedOver, StillHolds
<1>3. DrainSelects' /\ Reliable'
    BY <1>1 DEF CustodyInv, DrainSelects, Reliable
<1> QED BY <1>1, <1>2, <1>3, KeptStays DEF CustodyInv

LEMMA HandleAckCustody ==
    ASSUME SmsInv, SmsInv', CustodyInv, NEW m \in Messages, HandleAck(m) PROVE CustodyInv'
<1>1. UNCHANGED <<arrived, storage, selected, reader, up, link, parts, rows, expired>> /\ acks' \subseteq acks
    BY DEF HandleAck, modem, assembly, server
<1>2. up /\ m \in rows
    BY DEF HandleAck, CustodyInv, LinkInv, SmsInv, ServerInv
<1>3. InStep(inbox') /\ InboxFile' = InboxFile \ {m}
    <2>1. PICK left \in RemoveAll(inbox, {m}, FALSE) : inbox' = left.buf
        BY ReliableDisk DEF HandleAck, CustodyInv
    <2>2. inbox \in Buffer(Messages) /\ InStep(inbox)
        BY <1>2, RunningBuffers
    <2>3. InStep(left.buf) /\ ToSet(left.buf.file) = ToSet(inbox.file) \ {m}
        BY <2>1, <2>2, RemoveKept
    <2> QED BY <2>1, <2>3 DEF InboxFile
<1>4. Carried
    <2>1. PartFile' = PartFile
        BY <1>1 DEF PartFile
    <2> QED BY <1>1, <1>2, <1>3, <2>1, WhereItIs, WhereItIsNext DEF Carried
<1>5. HoldingInv' /\ NothingLost'
    BY <1>1, <1>4, StillHolds
<1>6. Kept(parts)' /\ Kept(inbox)'
    BY <1>1, <1>3, KeptStays DEF Kept, InStep
<1>7. DrainSelects' /\ LinkInv' /\ Reliable'
    BY <1>1 DEF CustodyInv, DrainSelects, LinkInv, Reliable
<1> QED BY <1>5, <1>6, <1>7 DEF CustodyInv

LEMMA CustodyStep == ASSUME SmsInv, SmsInv', CustodyInv, [Next]_vars PROVE CustodyInv'
<1>1. CASE IntakeNext /\ UNCHANGED <<delivery, server>>
    <2>1. CASE \E r \in Readers : Reading(r)
        BY <1>1, <2>1, ReadMessageCustody, ReadFailsCustody, AddPartCustody, FreeSlotCustody,
           DeliverCustody, DeleteDeliveredCustody, CommitCustody DEF Reading
    <2> QED BY <1>1, <2>1, ArriveCustody, GoesStaleCustody, DrainingCustody, BootCustody DEF IntakeNext
<1>2. CASE Connect
    BY <1>2, ElsewhereCustody DEF Connect, intake, server, CustodyInv, LinkInv
<1>3. CASE Flush \/ SendOne \/ GiveUp
    BY <1>3, ElsewhereCustody DEF Flush, SendOne, GiveUp, intake, server, CustodyInv, LinkInv
<1>4. CASE \E m \in Messages, id \in Handlers : Serve(m, id)
    <2>1. PICK m \in Messages, id \in Handlers : Serve(m, id)
        BY <1>4
    <2>2. UNCHANGED <<intake, link>> /\ rows \subseteq rows'
          /\ (acks' = acks \/ acks' = IF link THEN acks \cup {m} ELSE acks)
        BY <2>1 DEF Serve, ReceiveMessage, InsertMessage, MetadataUpdated, CreateNotification,
               Acknowledge, delivery
    <2>3. LinkInv'
        BY <2>2 DEF intake, CustodyInv, LinkInv
    <2> QED BY <2>2, <2>3, ElsewhereCustody DEF intake
<1>5. CASE ConnectionLost
    BY <1>5, ElsewhereCustody DEF ConnectionLost, Disconnect, server, LinkInv
<1>6. CASE ServerRestarts
    BY <1>6, ElsewhereCustody DEF ServerRestarts, Disconnect, LinkInv
<1>7. CASE \E h \in handling : QueryFails(h)
    BY <1>7, ElsewhereCustody DEF QueryFails, delivery, CustodyInv, LinkInv
<1>8. CASE UNCHANGED vars
    BY <1>8, ElsewhereCustody DEF vars, intake, delivery, server, CustodyInv, LinkInv
<1> QED BY <1>1, <1>2, <1>3, <1>4, <1>5, <1>6, <1>7, <1>8, CrashCustody, HandleAckCustody
        DEF Next, Pump, Outage

\* No part of a message is lost between the modem's storage and the server's
\* table, whatever crashes or loses its connection and however the goroutines
\* interleave, as long as the disk, the modem and the slots are Reliable.
THEOREM NothingIsLost == Reliable => (Spec => []NothingLost)
<1> SUFFICES ASSUME Reliable PROVE Spec => []NothingLost
    OBVIOUS
<1>1. Init => CustodyInv
    BY CustodyInit
<1>2. SmsInv /\ SmsInv' /\ CustodyInv /\ [Next]_vars => CustodyInv'
    BY CustodyStep
<1>3. CustodyInv => NothingLost
    BY DEF CustodyInv
<1> QED BY SmsInvariant, <1>1, <1>2, <1>3, PTL DEF Spec

=============================================================================
