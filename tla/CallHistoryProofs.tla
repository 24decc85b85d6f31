-------------------------- MODULE CallHistoryProofs --------------------------
(***************************************************************************)
(* Machine-checked proofs about CallHistory: the table keeps to its cap    *)
(* (CapKept), the page lists no call twice (ListedOnce), and once things   *)
(* are quiet it shows what it has loaded as it is (ListIsCurrent), for any *)
(* cap, page size and number of calls and requests.                        *)
(***************************************************************************)
EXTENDS CallHistory, FiniteSetTheorems, SequenceTheorems, TLAPS

-----------------------------------------------------------------------------
(* Ranks.  An element of a finite set of numbers has as many below it, or  *)
(* above it, as its place in the order says, and each place is taken.      *)

\* A map from a set to as many numbers that takes none twice takes each.
LEMMA PlacesTaken ==
    ASSUME NEW S, IsFiniteSet(S), NEW rank \in [S -> 0..(Cardinality(S) - 1)],
           \A i, j \in S : rank[i] = rank[j] => i = j
    PROVE  \A n \in 0..(Cardinality(S) - 1) : \E i \in S : rank[i] = n
<1> DEFINE T == 0..(Cardinality(S) - 1)
<1>1. Cardinality(S) \in Nat
    BY FS_CardinalityType
<1>2. IsFiniteSet(T) /\ Cardinality(T) = Cardinality(S)
    BY <1>1, FS_Interval
<1>3. rank \in Injection(S, T)
    BY DEF Injection, IsInjective
<1>4. rank \in Surjection(S, T)
    BY <1>2, <1>3, FS_Injection
<1> QED BY <1>4 DEF Surjection

\* Fewer elements are newer than a newer one.
LEMMA NewerRank ==
    ASSUME NEW S \in SUBSET Int, IsFiniteSet(S)
    PROVE  /\ \A i \in S : Cardinality(Newer(S, i)) \in 0..(Cardinality(S) - 1)
           /\ \A i, j \in S : i < j => Cardinality(Newer(S, j)) < Cardinality(Newer(S, i))
<1>1. \A i \in S : IsFiniteSet(Newer(S, i)) /\ Newer(S, i) # S
    BY FS_Subset DEF Newer
<1>2. \A i \in S : Cardinality(Newer(S, i)) \in 0..(Cardinality(S) - 1)
    <2> SUFFICES ASSUME NEW i \in S PROVE Cardinality(Newer(S, i)) \in 0..(Cardinality(S) - 1)
        OBVIOUS
    <2>1. Newer(S, i) \in SUBSET S
        BY DEF Newer
    <2> QED BY <1>1, <2>1, FS_Subset, FS_CardinalityType
<1>3. ASSUME NEW i \in S, NEW j \in S, i < j
      PROVE  Cardinality(Newer(S, j)) < Cardinality(Newer(S, i))
    <2>1. Newer(S, j) \subseteq Newer(S, i)
        <3> SUFFICES ASSUME NEW x \in Newer(S, j) PROVE x \in Newer(S, i)
            OBVIOUS
        <3>1. x \in S /\ x \in Int /\ i \in Int /\ j \in Int /\ x > j
            BY DEF Newer
        <3> QED BY <1>3, <3>1 DEF Newer
    <2>2. j \in Newer(S, i) /\ j \notin Newer(S, j)
        BY <1>3 DEF Newer
    <2> QED BY <1>1, <2>1, <2>2, FS_Subset, FS_CardinalityType
<1> QED BY <1>2, <1>3

\* Each place has its element, and Nth finds it.
LEMMA NthRank ==
    ASSUME NEW S \in SUBSET Int, IsFiniteSet(S), NEW k \in 1..Cardinality(S)
    PROVE  Nth(S, k) \in S /\ Cardinality(Newer(S, Nth(S, k))) = k - 1
<1> DEFINE rank == [i \in S |-> Cardinality(Newer(S, i))]
<1>1. rank \in [S -> 0..(Cardinality(S) - 1)]
    BY NewerRank
<1>2. ASSUME NEW i \in S, NEW j \in S, rank[i] = rank[j] PROVE i = j
    <2>1. Cardinality(Newer(S, i)) \in Int /\ Cardinality(Newer(S, j)) \in Int
        BY NewerRank
    <2>2. ~(i < j) /\ ~(j < i)
        BY <1>2, <2>1, NewerRank
    <2> QED BY <2>2
<1>3. k - 1 \in 0..(Cardinality(S) - 1)
    BY FS_CardinalityType
<1>4. \E i \in S : rank[i] = k - 1
    <2> HIDE DEF rank
    <2> QED BY <1>1, <1>2, <1>3, PlacesTaken
<1>5. \E i \in S : Cardinality(Newer(S, i)) = k - 1
    BY <1>4
<1> QED BY <1>5 DEF Nth

\* Nth takes no element twice.
LEMMA NthOnce ==
    ASSUME NEW S \in SUBSET Int, IsFiniteSet(S),
           NEW k \in 1..Cardinality(S), NEW l \in 1..Cardinality(S), Nth(S, k) = Nth(S, l)
    PROVE  k = l
<1>1. Cardinality(Newer(S, Nth(S, k))) = k - 1 /\ Cardinality(Newer(S, Nth(S, l))) = l - 1
    BY NthRank
<1> QED BY <1>1, FS_CardinalityType

\* Nth leaves none out.
LEMMA NthAll ==
    ASSUME NEW S \in SUBSET Int, IsFiniteSet(S), NEW i \in S
    PROVE  /\ Cardinality(Newer(S, i)) + 1 \in 1..Cardinality(S)
           /\ i = Nth(S, Cardinality(Newer(S, i)) + 1)
<1> DEFINE k == Cardinality(Newer(S, i)) + 1
           j == Nth(S, k)
<1>1. k \in 1..Cardinality(S) /\ k - 1 = Cardinality(Newer(S, i))
    BY NewerRank, FS_CardinalityType
<1>2. j \in S /\ Cardinality(Newer(S, j)) = k - 1
    <2> HIDE DEF k
    <2> QED BY <1>1, NthRank
<1>3. ~(i < j) /\ ~(j < i)
    <2> HIDE DEF j, k
    <2>1. Cardinality(Newer(S, i)) \in Int /\ Cardinality(Newer(S, j)) \in Int
        BY <1>2, NewerRank
    <2> QED BY <1>1, <1>2, <2>1, NewerRank
<1>4. i = j
    <2> HIDE DEF j
    <2> QED BY <1>2, <1>3
<1> QED BY <1>1, <1>4

-----------------------------------------------------------------------------
(* Types.                                                                  *)

Saver == [at : {"count", "select", "delete", "tell"}, ids : SUBSET Ids, excess : Nat]

Entries == [id : Ids \cup Failed, type : {"INCOMING", "MISSED", "BLOCKED"}]

Filters == Lines \cup {None}

Request ==
    [at : {"sent"}, page : Nat \ {0}, append : BOOLEAN, filter : Filters,
     rows : {None} \cup Seq(Entries), total : Nat]

View ==
    [list : Seq(Entries), page : Nat \ {0}, filter : Filters, hasMore : BOOLEAN,
     loading : BOOLEAN, loadingMore : BOOLEAN]

TableTypeOK ==
    /\ row \in [Ids -> Row \cup {None}]
    /\ call \in [Ids -> Ids]
    /\ recorded \in Old..(Old + New)
    /\ saving \in [Ids -> {Done} \cup Saver]
    /\ telling \subseteq [id : Ids, type : {"MISSED"}]

PageTypeOK ==
    /\ sock \in {"down", "opened", "up"}
    /\ raced \in BOOLEAN /\ crowded \in BOOLEAN /\ lapsed \in BOOLEAN
    /\ view \in View
    /\ req \in [Slots -> {Idle} \cup Request]

HistoryTypeOK == TableTypeOK /\ PageTypeOK

\* The table has finitely many rows, and so has the part of it that a filter selects.
LEMMA PresentFinite ==
    /\ Present \in SUBSET Ids /\ IsFiniteSet(Present)
    /\ \A f : Matches(f) \in SUBSET Present /\ IsFiniteSet(Matches(f))
    /\ Ids \subseteq Nat
<1>1. IsFiniteSet(Ids) /\ Ids \subseteq Nat
    BY HistoryAssumption, FS_Interval DEF Ids
<1>2. Present \in SUBSET Ids /\ \A f : Matches(f) \in SUBSET Present
    BY DEF Present, Matches
<1>3. IsFiniteSet(Present)
    BY <1>1, <1>2, FS_Subset
<1> QED BY <1>1, <1>2, <1>3, FS_Subset

\* A page answers with well-typed entries, each row once.
LEMMA PageRows ==
    ASSUME TableTypeOK, NEW r \in Request
    PROVE  /\ PageOf(r) \in Seq(Entries)
           /\ \A j, k \in DOMAIN PageOf(r) : PageOf(r)[j].id = PageOf(r)[k].id => j = k
<1> DEFINE all == Matches(r.filter)
           skipped == (r.page - 1) * PageSize
           left == Cardinality(all) - skipped
           n == IF left < PageSize THEN left ELSE PageSize
<1>1. all \in SUBSET Int /\ IsFiniteSet(all) /\ Cardinality(all) \in Nat
    <2>1. all \in SUBSET Present /\ IsFiniteSet(all)
        BY PresentFinite
    <2>2. Present \in SUBSET Int
        BY PresentFinite
    <2> HIDE DEF all
    <2> QED BY <2>1, <2>2, FS_CardinalityType
<1>2. skipped \in Nat /\ n \in Int
    BY <1>1, HistoryAssumption DEF Request
<1>3. \A k \in 1..n : skipped + k \in 1..Cardinality(all)
    BY <1>1, <1>2, HistoryAssumption
<1>4. PageOf(r) = [k \in 1..n |-> Entry(Nth(all, skipped + k))]
    BY DEF PageOf
<1> HIDE DEF all, skipped, n
<1>5. \A k \in 1..n : Nth(all, skipped + k) \in all
    BY <1>1, <1>3, NthRank
<1>6. \A i \in all : Entry(i) \in Entries
    BY PresentFinite DEF all, Entry, Entries, TableTypeOK, Row, Matches, Present
<1>7. PageOf(r) \in [1..n -> Entries]
    BY <1>4, <1>5, <1>6
<1>8. PageOf(r) \in Seq(Entries)
    <2>1. CASE n \in Nat
        BY <1>7, <2>1
    <2>2. CASE n \notin Nat
        <3>1. 1..n = 1..0
            BY <1>2, <2>2
        <3>2. PageOf(r) \in [1..0 -> Entries]
            BY <1>7, <3>1
        <3> QED BY <3>2
    <2> QED BY <2>1, <2>2
<1>9. ASSUME NEW j \in 1..n, NEW k \in 1..n, PageOf(r)[j].id = PageOf(r)[k].id PROVE j = k
    <2>1. Nth(all, skipped + j) = Nth(all, skipped + k)
        BY <1>4, <1>9 DEF Entry
    <2>2. skipped + j = skipped + k
        BY <1>1, <1>3, <2>1, NthOnce
    <2> QED BY <1>2, <2>2
<1> QED BY <1>7, <1>8, <1>9

-----------------------------------------------------------------------------
(* What a broadcast and an appended page do to the list.                   *)

Once(list) == \A j, k \in DOMAIN list : list[j].id = list[k].id => j = k

\* A broadcast shows its entry, once, and leaves the others as they are.
LEMMA ReceivedRows ==
    ASSUME NEW list \in Seq(Entries), Once(list), NEW e \in Entries
    PROVE  /\ Received(list, e) \in Seq(Entries)
           /\ Once(Received(list, e))
           /\ Shown(Received(list, e)) = Shown(list) \cup {e.id}
           /\ \A k \in DOMAIN Received(list, e) :
                 \/ Received(list, e)[k] = e
                 \/ /\ Received(list, e)[k].id # e.id
                    /\ \E j \in DOMAIN list : Received(list, e)[k] = list[j]
<1> DEFINE new == Received(list, e)
<1>0. Len(list) \in Nat /\ DOMAIN list = 1..Len(list)
    OBVIOUS
<1>1. CASE e.id \in Shown(list)
    <2>1. new = [k \in DOMAIN list |-> IF list[k].id = e.id THEN e ELSE list[k]]
        BY <1>1 DEF Received
    <2> HIDE DEF new
    <2>2. DOMAIN new = DOMAIN list /\ \A k \in DOMAIN list : new[k].id = list[k].id
        BY <2>1
    <2>3. new \in Seq(Entries)
        BY <1>0, <2>1
    <2>4. Once(new)
        BY <2>2 DEF Once
    <2>5. Shown(new) = Shown(list)
        BY <2>2 DEF Shown
    <2>6. \A k \in DOMAIN new :
              new[k] = e \/ (new[k].id # e.id /\ \E j \in DOMAIN list : new[k] = list[j])
        BY <2>1
    <2> QED BY <1>1, <2>3, <2>4, <2>5, <2>6 DEF new
<1>2. CASE e.id \notin Shown(list)
    <2>1. new = <<e>> \o list
        BY <1>2 DEF Received
    <2> HIDE DEF new
    <2>2. <<e>> \in Seq(Entries) /\ Len(<<e>>) = 1 /\ <<e>>[1] = e
        OBVIOUS
    <2>3. /\ new \in Seq(Entries) /\ Len(new) = 1 + Len(list)
          /\ \A k \in 1..(1 + Len(list)) : new[k] = IF k <= 1 THEN <<e>>[k] ELSE list[k - 1]
        BY <2>1, <2>2, ConcatProperties
    <2>4. /\ DOMAIN new = 1..(1 + Len(list)) /\ new[1] = e
          /\ \A k \in 2..(1 + Len(list)) : new[k] = list[k - 1] /\ k - 1 \in DOMAIN list
          /\ \A k \in DOMAIN list : k + 1 \in 2..(1 + Len(list)) /\ new[k + 1] = list[k]
        BY <1>0, <2>2, <2>3
    <2>5. \A k \in DOMAIN new : k = 1 \/ k \in 2..(1 + Len(list))
        BY <1>0, <2>4
    <2>6. \A k \in DOMAIN list : list[k].id # e.id
        BY <1>2 DEF Shown
    <2>7. \A k \in DOMAIN new :
              new[k] = e \/ (new[k].id # e.id /\ \E j \in DOMAIN list : new[k] = list[j])
        BY <2>4, <2>5, <2>6
    <2>8. Once(new)
        <3> SUFFICES ASSUME NEW j \in DOMAIN new, NEW k \in DOMAIN new, new[j].id = new[k].id
                     PROVE  j = k
            BY DEF Once
        <3>1. CASE j = 1 \/ k = 1
            BY <2>4, <2>5, <2>6, <3>1
        <3>2. CASE j # 1 /\ k # 1
            <4>1. j - 1 = k - 1
                BY <2>4, <2>5, <3>2 DEF Once
            <4> QED BY <1>0, <2>4, <4>1
        <3> QED BY <3>1, <3>2
    <2>9. Shown(new) = Shown(list) \cup {e.id}
        <3>1. ASSUME NEW i \in Shown(new) PROVE i \in Shown(list) \cup {e.id}
            BY <2>7 DEF Shown
        <3>2. ASSUME NEW i \in Shown(list) PROVE i \in Shown(new)
            <4>1. PICK k \in DOMAIN list : i = list[k].id
                BY DEF Shown
            <4>2. k + 1 \in DOMAIN new /\ new[k + 1] = list[k]
                BY <1>0, <2>4
            <4> QED BY <4>1, <4>2 DEF Shown
        <3>3. e.id \in Shown(new)
            <4>1. 1 \in DOMAIN new
                BY <1>0, <2>4
            <4> QED BY <2>4, <4>1 DEF Shown
        <3> QED BY <3>1, <3>2, <3>3
    <2> QED BY <2>3, <2>7, <2>8, <2>9 DEF new
<1> QED BY <1>1, <1>2

\* An appended page shows its rows, each once, after what is shown already.
LEMMA AppendedRows ==
    ASSUME NEW list \in Seq(Entries), Once(list), NEW rows \in Seq(Entries), Once(rows)
    PROVE  /\ Appended(list, rows) \in Seq(Entries)
           /\ Once(Appended(list, rows))
           /\ Shown(Appended(list, rows)) = Shown(list) \cup Shown(rows)
           /\ \A k \in DOMAIN Appended(list, rows) :
                 \/ \E j \in DOMAIN list : Appended(list, rows)[k] = list[j]
                 \/ \E j \in DOMAIN rows : Appended(list, rows)[k] = rows[j]
<1> DEFINE news == {k \in DOMAIN rows : rows[k].id \notin Shown(list)}
           n == Cardinality(news)
           rest == [k \in 1..n |-> rows[Nth(news, n - k + 1)]]
           new == Appended(list, rows)
<1>1. /\ Len(list) \in Nat /\ DOMAIN list = 1..Len(list)
      /\ Len(rows) \in Nat /\ DOMAIN rows = 1..Len(rows)
    OBVIOUS
<1>2. news \in SUBSET Int /\ IsFiniteSet(news) /\ n \in Nat
    <2>1. IsFiniteSet(1..Len(rows))
        BY <1>1, FS_Interval
    <2> QED BY <1>1, <2>1, FS_Subset, FS_CardinalityType
<1>3. new = list \o rest
    BY DEF Appended
<1> HIDE DEF n
<1>4. \A k \in 1..n : n - k + 1 \in 1..n
    BY <1>2
<1>5. \A k \in 1..n : Nth(news, n - k + 1) \in news
    BY <1>2, <1>4, NthRank DEF n
<1>6. \A k \in 1..n : rest[k] \in Entries /\ rest[k].id \notin Shown(list)
    BY <1>1, <1>5
<1>7. rest \in Seq(Entries) /\ Len(rest) = n /\ DOMAIN rest = 1..n
    <2>1. rest \in [1..n -> Entries]
        BY <1>6
    <2> HIDE DEF rest
    <2> QED BY <1>2, <2>1
<1>8. \A k \in 1..n : \E j \in DOMAIN rows : rest[k] = rows[j]
    BY <1>5
<1>9. Once(rest)
    <2> SUFFICES ASSUME NEW j \in 1..n, NEW k \in 1..n, rest[j].id = rest[k].id PROVE j = k
        BY <1>7 DEF Once
    <2>1. Nth(news, n - j + 1) = Nth(news, n - k + 1)
        BY <1>5 DEF Once
    <2>2. n - j + 1 = n - k + 1
        BY <1>2, <1>4, <2>1, NthOnce DEF n
    <2> QED BY <1>2, <2>2
<1>10. Shown(rest) = Shown(rows) \ Shown(list)
    <2>1. Shown(rest) \subseteq Shown(rows) \ Shown(list)
        BY <1>6, <1>7, <1>8 DEF Shown
    <2>2. ASSUME NEW i \in Shown(rows), i \notin Shown(list) PROVE i \in Shown(rest)
        <3>1. PICK j \in DOMAIN rows : i = rows[j].id
            BY DEF Shown
        <3>2. j \in news
            BY <2>2, <3>1
        <3> DEFINE r == Cardinality(Newer(news, j)) + 1
        <3>3. r \in 1..n /\ j = Nth(news, r)
            BY <1>2, <3>2, NthAll DEF n
        <3> HIDE DEF r, news
        <3>4. n - r + 1 \in 1..n /\ n - (n - r + 1) + 1 = r
            BY <1>2, <3>3
        <3>5. rest[n - r + 1] = rows[j]
            BY <3>3, <3>4
        <3> HIDE DEF rest
        <3> QED BY <1>7, <3>1, <3>4, <3>5 DEF Shown
    <2> QED BY <2>1, <2>2
<1> HIDE DEF rest, new, news
<1>11. /\ new \in Seq(Entries) /\ Len(new) = Len(list) + n
       /\ \A k \in 1..(Len(list) + n) :
             new[k] = IF k <= Len(list) THEN list[k] ELSE rest[k - Len(list)]
    BY <1>3, <1>7, ConcatProperties
<1>12. /\ DOMAIN new = 1..(Len(list) + n)
       /\ \A k \in DOMAIN new : \/ k \in DOMAIN list /\ new[k] = list[k]
                                \/ /\ k - Len(list) \in DOMAIN rest
                                   /\ k \notin DOMAIN list /\ k \in Int
                                   /\ new[k] = rest[k - Len(list)]
       /\ \A k \in DOMAIN list : k \in DOMAIN new /\ new[k] = list[k]
       /\ \A k \in DOMAIN rest : k + Len(list) \in DOMAIN new /\ new[k + Len(list)] = rest[k]
    <2>1. DOMAIN new = 1..(Len(list) + n)
        BY <1>11
    <2>2. ASSUME NEW k \in DOMAIN new, k <= Len(list)
          PROVE  k \in DOMAIN list /\ new[k] = list[k]
        BY <1>1, <1>11, <2>1, <2>2
    <2>3. ASSUME NEW k \in DOMAIN new, ~(k <= Len(list))
          PROVE  /\ k - Len(list) \in DOMAIN rest /\ k \notin DOMAIN list /\ k \in Int
                 /\ new[k] = rest[k - Len(list)]
        BY <1>1, <1>2, <1>7, <1>11, <2>1, <2>3
    <2>4. ASSUME NEW k \in DOMAIN list PROVE k \in DOMAIN new /\ new[k] = list[k]
        BY <1>1, <1>2, <1>11, <2>1
    <2>5. ASSUME NEW k \in DOMAIN rest
          PROVE  k + Len(list) \in DOMAIN new /\ new[k + Len(list)] = rest[k]
        <3>1. k \in 1..n /\ k + Len(list) \in 1..(Len(list) + n)
            BY <1>1, <1>2, <1>7
        <3>2. ~(k + Len(list) <= Len(list)) /\ k + Len(list) - Len(list) = k
            BY <1>1, <1>2, <3>1
        <3> QED BY <1>11, <2>1, <3>1, <3>2
    <2> QED BY <2>1, <2>2, <2>3, <2>4, <2>5
<1>13. Shown(new) = Shown(list) \cup Shown(rest)
    <2>1. ASSUME NEW i \in Shown(new) PROVE i \in Shown(list) \cup Shown(rest)
        BY <1>12 DEF Shown
    <2>2. ASSUME NEW i \in Shown(list) PROVE i \in Shown(new)
        BY <1>12 DEF Shown
    <2>3. ASSUME NEW i \in Shown(rest) PROVE i \in Shown(new)
        BY <1>12 DEF Shown
    <2> QED BY <2>1, <2>2, <2>3
<1>14. Once(new)
    <2> SUFFICES ASSUME NEW j \in DOMAIN new, NEW k \in DOMAIN new, new[j].id = new[k].id
                 PROVE  j = k
        BY DEF Once
    <2>1. \A x \in DOMAIN list, y \in DOMAIN rest : list[x].id # rest[y].id
        BY <1>6, <1>7 DEF Shown
    <2>2. CASE j \in DOMAIN list /\ k \in DOMAIN list
        BY <1>12, <2>2 DEF Once
    <2>3. CASE j \notin DOMAIN list /\ k \notin DOMAIN list
        <3>1. j - Len(list) = k - Len(list)
            BY <1>9, <1>12, <2>3 DEF Once
        <3> QED BY <1>1, <1>12, <2>3, <3>1
    <2>4. CASE (j \in DOMAIN list) # (k \in DOMAIN list)
        BY <1>12, <2>1, <2>4
    <2> QED BY <2>2, <2>3, <2>4
<1>15. \A k \in DOMAIN new : \/ \E j \in DOMAIN list : new[k] = list[j]
                             \/ \E j \in DOMAIN rows : new[k] = rows[j]
    BY <1>7, <1>8, <1>12
<1> QED BY <1>10, <1>11, <1>13, <1>14, <1>15 DEF new

-----------------------------------------------------------------------------
(* Types and the list.  Whatever answer is applied to whatever list, each  *)
(* of them has each row once.                                              *)

AnswersOnce == \A s \in Slots : req[s] # Idle /\ req[s].rows # None => Once(req[s].rows)

ListInv == HistoryTypeOK /\ Once(view.list) /\ AnswersOnce

\* The page's half of it, which the table has no part in.
PageInv == PageTypeOK /\ Once(view.list) /\ AnswersOnce

\* A broadcast shows a row at most once.
LEMMA BroadcastList ==
    ASSUME PageInv, NEW e \in Entries, Broadcast(e), UNCHANGED <<sock, crowded, lapsed, req>>
    PROVE  PageInv'
<1>1. view.list \in Seq(Entries) /\ Once(view.list)
    BY DEF PageInv, PageTypeOK, View
<1>2. Received(view.list, e) \in Seq(Entries) /\ Once(Received(view.list, e))
    BY <1>1, ReceivedRows
<1>3. view' \in {view, [view EXCEPT !.list = Received(view.list, e)]}
    BY DEF Broadcast
<1>4. view' \in View /\ Once(view'.list)
    BY <1>1, <1>2, <1>3 DEF PageInv, PageTypeOK, View
<1>5. raced' \in BOOLEAN
    BY DEF Broadcast, PageInv, PageTypeOK
<1> QED BY <1>4, <1>5 DEF PageInv, PageTypeOK, AnswersOnce

\* A request that is sent has no answer yet.
LEMMA FetchList ==
    ASSUME PageInv, NEW page \in Nat \ {0}, NEW append \in BOOLEAN, NEW filter \in Filters,
           Fetch(page, append, filter)
    PROVE  req' \in [Slots -> {Idle} \cup Request] /\ AnswersOnce'
<1>1. PICK s \in Slots : req' = [req EXCEPT ![s] = Ask(page, append, filter)]
    BY DEF Fetch
<1>2. Ask(page, append, filter) \in Request /\ Ask(page, append, filter).rows = None
    BY DEF Ask, Request
<1>3. req' \in [Slots -> {Idle} \cup Request]
    BY <1>1, <1>2 DEF PageInv, PageTypeOK
<1>4. \A t \in Slots : req'[t] = req[t] \/ req'[t] = Ask(page, append, filter)
    BY <1>1 DEF PageInv, PageTypeOK
<1> QED BY <1>2, <1>3, <1>4 DEF PageInv, AnswersOnce

\* A refresh of the page changes its filter and shows that it loads.
LEMMA RefreshList ==
    ASSUME PageInv, NEW filter \in Filters, Refresh(filter), UNCHANGED <<crowded, lapsed>>,
           sock' \in {"down", "opened", "up"}
    PROVE  PageInv'
<1>1. req' \in [Slots -> {Idle} \cup Request] /\ AnswersOnce'
    <2>1. Fetch(1, FALSE, filter)
        BY DEF Refresh
    <2>2. 1 \in Nat \ {0}
        OBVIOUS
    <2> QED BY <2>1, <2>2, FetchList
<1>2. view' \in View /\ view'.list = view.list /\ raced' \in BOOLEAN
    BY DEF Refresh, Races, PageInv, PageTypeOK, View
<1> QED BY <1>1, <1>2 DEF PageInv, PageTypeOK

\* What changes neither the list nor the requests.
LEMMA QuietList ==
    ASSUME PageInv, UNCHANGED <<view, req>>, sock' \in {"down", "opened", "up"},
           raced' \in BOOLEAN, crowded' \in BOOLEAN, lapsed' \in BOOLEAN
    PROVE  PageInv'
    BY DEF PageInv, PageTypeOK, AnswersOnce

\* The initial page has its first request under way.
LEMMA ListInit == Init => ListInv
<1> SUFFICES ASSUME Init PROVE ListInv
    OBVIOUS
<1>1. row \in [Ids -> Row \cup {None}] /\ recorded \in Old..(Old + New)
      /\ saving \in [Ids -> {Done} \cup Saver] /\ telling = {} /\ call \in [Ids -> Ids]
    BY HistoryAssumption DEF Init, Ids, Row
<1>2. view \in View /\ view.list = <<>>
    BY DEF Init, View, Filters
<1>3. Ask(1, FALSE, None) \in Request /\ Ask(1, FALSE, None).rows = None
    BY DEF Ask, Request, Filters
<1>4. \A s \in Slots : req[s] \in {Idle, Ask(1, FALSE, None)}
    BY DEF Init
<1>5. req \in [Slots -> {Idle} \cup Request] /\ AnswersOnce
    <2>1. \E s \in Slots : req = [x \in Slots |-> IF x = s THEN Ask(1, FALSE, None) ELSE Idle]
        BY DEF Init
    <2>2. req \in [Slots -> {Idle} \cup Request]
        BY <1>3, <2>1
    <2>3. \A s \in Slots : req[s] = Idle \/ req[s].rows = None
        BY <1>3, <1>4
    <2> QED BY <2>2, <2>3 DEF AnswersOnce
<1>6. Once(view.list)
    BY <1>2 DEF Once
<1>7. lapsed \in BOOLEAN /\ raced \in BOOLEAN /\ crowded \in BOOLEAN /\ sock = "up"
    <2>1. lapsed = (Old > Cap)
        BY DEF Init
    <2>2. (Old > Cap) \in BOOLEAN
        OBVIOUS
    <2>3. lapsed \in BOOLEAN
        BY <2>1, <2>2, Zenon
    <2> QED BY <2>3 DEF Init
<1> QED BY <1>1, <1>2, <1>5, <1>6, <1>7 DEF ListInv, HistoryTypeOK, TableTypeOK, PageTypeOK

\* The queries of the service keep the tables well-typed.
LEMMA ServiceList ==
    ASSUME ListInv, Service PROVE ListInv'
<1>0. TableTypeOK /\ PageInv
    BY DEF ListInv, HistoryTypeOK, PageInv
<1>1. ASSUME NEW l \in Lines, Record(l) PROVE ListInv'
    <2>1. recorded + 1 \in Ids /\ recorded' = recorded + 1 /\ recorded' \in Old..(Old + New)
        BY <1>0, <1>1, HistoryAssumption DEF Record, Ids, TableTypeOK
    <2>2. [line |-> l, type |-> "INCOMING"] \in Row
        BY DEF Row
    <2>3. [at |-> "count", ids |-> {}, excess |-> 0] \in Saver
        BY DEF Saver
    <2>4. call' \in [Ids -> Ids]
        <3>1. Old + 1..recorded \subseteq Ids
            BY <1>0, HistoryAssumption DEF Ids, TableTypeOK
        <3>2. \E c \in {recorded + 1} \cup Again(l) : call' = [call EXCEPT ![recorded + 1] = c]
            BY <1>1 DEF Record
        <3>3. Again(l) \subseteq Ids
            BY <1>0, <3>1 DEF Again, TableTypeOK
        <3> QED BY <1>0, <2>1, <3>2, <3>3 DEF TableTypeOK
    <2>5. TableTypeOK'
        BY <1>0, <1>1, <2>1, <2>2, <2>3, <2>4 DEF Record, TableTypeOK
    <2>6. PageInv'
        BY <1>0, <1>1, QuietList DEF Record, PageInv, PageTypeOK
    <2> QED BY <2>5, <2>6 DEF ListInv, HistoryTypeOK, PageInv
<1>2. ASSUME NEW i \in Ids, CapCount(i) \/ CapSelect(i) \/ CapDelete(i) PROVE ListInv'
    <2>1. saving[i] \in Saver
        BY <1>0, <1>2 DEF CapCount, CapSelect, CapDelete, TableTypeOK, Done
    <2>2. Excess(Cardinality(Present)) \in Nat
        BY PresentFinite, FS_CardinalityType, HistoryAssumption DEF Excess
    <2>3. \A n : Oldest(n) \in SUBSET Ids
        BY PresentFinite DEF Oldest
    <2>4. row' \in [Ids -> Row \cup {None}]
        BY <1>0, <1>2 DEF CapCount, CapSelect, CapDelete, TableTypeOK
    <2>5. saving' \in [Ids -> {Done} \cup Saver]
        BY <1>0, <1>2, <2>1, <2>2, <2>3 DEF CapCount, CapSelect, CapDelete, TableTypeOK, Saver
    <2>6. TableTypeOK'
        BY <1>0, <1>2, <2>4, <2>5 DEF CapCount, CapSelect, CapDelete, TableTypeOK
    <2>7. PageInv'
        BY <1>0, <1>2, QuietList DEF CapCount, CapSelect, CapDelete, PageInv, PageTypeOK
    <2> QED BY <2>6, <2>7 DEF ListInv, HistoryTypeOK, PageInv
<1>3. ASSUME NEW i \in Ids, RecordTold(i) PROVE ListInv'
    <2>1. TableTypeOK'
        BY <1>0, <1>3 DEF RecordTold, TableTypeOK
    <2>2. [id |-> i, type |-> "INCOMING"] \in Entries
        BY DEF Entries
    <2>3. PageInv'
        BY <1>0, <1>3, <2>2, BroadcastList DEF RecordTold
    <2> QED BY <2>1, <2>3 DEF ListInv, HistoryTypeOK, PageInv
<1>4. ASSUME NEW c \in Ids, Update(c) PROVE ListInv'
    <2>1. Open(c) \subseteq Ids /\ \A i \in Open(c) : row[i] \in Row
        BY <1>0 DEF Open, Present, TableTypeOK
    <2>2. \A i \in Open(c) : [row[i] EXCEPT !.type = "MISSED"] \in Row
        BY <2>1 DEF Row
    <2>3. row' \in [Ids -> Row \cup {None}]
        BY <1>0, <1>4, <2>2 DEF Update, TableTypeOK
    <2>4. telling' \subseteq [id : Ids, type : {"MISSED"}]
        BY <1>0, <1>4, <2>1 DEF Update, TableTypeOK
    <2>5. TableTypeOK'
        BY <1>0, <1>4, <2>3, <2>4 DEF Update, TableTypeOK
    <2>6. PageInv'
        BY <1>0, <1>4, QuietList DEF Update, PageInv, PageTypeOK
    <2> QED BY <2>5, <2>6 DEF ListInv, HistoryTypeOK, PageInv
<1>5. ASSUME RecordFails PROVE ListInv'
    <2>1. TableTypeOK'
        BY <1>0, <1>5 DEF RecordFails, TableTypeOK
    <2>2. PICK i \in Failed : Broadcast([id |-> i, type |-> "BLOCKED"])
        BY <1>5 DEF RecordFails
    <2>3. [id |-> i, type |-> "BLOCKED"] \in Entries
        BY DEF Entries
    <2>4. PageInv'
        BY <1>0, <1>5, <2>2, <2>3, BroadcastList DEF RecordFails
    <2> QED BY <2>1, <2>4 DEF ListInv, HistoryTypeOK, PageInv
<1>6. ASSUME NEW e \in telling, UpdateTold(e) PROVE ListInv'
    <2>1. TableTypeOK'
        BY <1>0, <1>6 DEF UpdateTold, TableTypeOK
    <2>2. e \in Entries
        BY <1>0 DEF TableTypeOK, Entries
    <2>3. PageInv'
        BY <1>0, <1>6, <2>2, BroadcastList DEF UpdateTold
    <2> QED BY <2>1, <2>3 DEF ListInv, HistoryTypeOK, PageInv
<1>7. ASSUME NEW i \in Ids, CapRejects(i) PROVE ListInv'
    <2>1. TableTypeOK'
        BY <1>0, <1>7 DEF CapRejects, TableTypeOK
    <2>2. PageInv'
        BY <1>0, <1>7, QuietList DEF CapRejects, PageInv, PageTypeOK
    <2> QED BY <2>1, <2>2 DEF ListInv, HistoryTypeOK, PageInv
<1> QED BY <1>1, <1>2, <1>3, <1>4, <1>5, <1>6, <1>7 DEF Service

\* The page's requests and their answers keep the list well-typed and free of repeats.
LEMMA PageList ==
    ASSUME ListInv, Page PROVE ListInv'
<1>0. TableTypeOK /\ PageInv
    BY DEF ListInv, HistoryTypeOK, PageInv
<1>1. TableTypeOK'
    BY <1>0 DEF Page, Read, Respond, ResponseFails, LoadMore, SocketDown, SocketUp,
        SocketRegistered, FilterChange, TableTypeOK
<1>2. ASSUME NEW s \in Slots, Read(s) PROVE PageInv'
    <2>1. req[s] \in Request
        BY <1>0, <1>2 DEF Read, PageInv, PageTypeOK
    <2>2. PageOf(req[s]) \in Seq(Entries) /\ Once(PageOf(req[s]))
        BY <1>0, <2>1, PageRows DEF Once
    <2>3. Cardinality(Matches(req[s].filter)) \in Nat
        BY PresentFinite, FS_CardinalityType
    <2>4. req' = [req EXCEPT ![s] = [req[s] EXCEPT !.rows = PageOf(req[s]),
                                         !.total = Cardinality(Matches(req[s].filter))]]
        BY <1>0, <1>2 DEF Read, PageInv, PageTypeOK
    <2>5. /\ req'[s] \in Request /\ req'[s].rows = PageOf(req[s])
          /\ \A t \in Slots \ {s} : req'[t] = req[t]
        BY <1>0, <2>1, <2>2, <2>3, <2>4 DEF Request, PageInv, PageTypeOK
    <2>6. req' \in [Slots -> {Idle} \cup Request]
        BY <1>0, <2>4, <2>5 DEF PageInv, PageTypeOK
    <2>7. AnswersOnce'
        BY <1>0, <2>2, <2>5 DEF AnswersOnce, PageInv
    <2> QED BY <1>0, <1>2, <2>6, <2>7 DEF Read, PageInv, PageTypeOK
<1>3. ASSUME NEW s \in Slots, Respond(s) PROVE PageInv'
    <2>1. req[s] \in Request /\ req[s].rows \in Seq(Entries) /\ Once(req[s].rows)
        BY <1>0, <1>3 DEF Respond, PageInv, PageTypeOK, Request, AnswersOnce
    <2>2. view.list \in Seq(Entries) /\ Once(view.list)
        BY <1>0 DEF PageInv, PageTypeOK, View
    <2>3. Appended(view.list, req[s].rows) \in Seq(Entries) /\ Once(Appended(view.list, req[s].rows))
        BY <2>1, <2>2, AppendedRows
    <2>4. /\ view'.list \in {Appended(view.list, req[s].rows), req[s].rows}
          /\ view' = [view EXCEPT !.list = view'.list, !.page = req[s].page,
                 !.hasMore = req[s].page * PageSize < req[s].total,
                 !.loading = FALSE, !.loadingMore = FALSE]
        BY <1>0, <1>3 DEF Respond, PageInv, PageTypeOK, View
    <2>5. view' \in View /\ Once(view'.list)
        <3>1. view'.list \in Seq(Entries) /\ Once(view'.list)
            BY <2>1, <2>3, <2>4
        <3>2. (req[s].page * PageSize < req[s].total) \in BOOLEAN /\ req[s].page \in Nat \ {0}
            BY <2>1 DEF Request
        <3> QED BY <1>0, <2>4, <3>1, <3>2 DEF PageInv, PageTypeOK, View
    <2>6. req' \in [Slots -> {Idle} \cup Request] /\ AnswersOnce'
        BY <1>0, <1>3 DEF Respond, PageInv, PageTypeOK, AnswersOnce
    <2> QED BY <1>0, <1>3, <2>5, <2>6 DEF Respond, PageInv, PageTypeOK
<1>4. ASSUME NEW s \in Slots, ResponseFails(s) PROVE PageInv'
    <2>1. req' \in [Slots -> {Idle} \cup Request] /\ AnswersOnce'
        BY <1>0, <1>4 DEF ResponseFails, PageInv, PageTypeOK, AnswersOnce
    <2>2. view' \in View /\ view'.list = view.list
        BY <1>0, <1>4 DEF ResponseFails, PageInv, PageTypeOK, View
    <2>3. req[s].append \in BOOLEAN
        BY <1>0, <1>4 DEF ResponseFails, PageInv, PageTypeOK, Request
    <2> QED BY <1>0, <1>4, <2>1, <2>2, <2>3 DEF ResponseFails, PageInv, PageTypeOK
<1>5. ASSUME LoadMore PROVE PageInv'
    <2>1. view.page + 1 \in Nat \ {0} /\ view.filter \in Filters
        BY <1>0 DEF PageInv, PageTypeOK, View
    <2>2. req' \in [Slots -> {Idle} \cup Request] /\ AnswersOnce'
        BY <1>0, <1>5, <2>1, FetchList DEF LoadMore
    <2>3. view' \in View /\ view'.list = view.list
        BY <1>0, <1>5 DEF LoadMore, PageInv, PageTypeOK, View
    <2> QED BY <1>0, <1>5, <2>2, <2>3 DEF LoadMore, Races, PageInv, PageTypeOK
<1>6. ASSUME SocketDown PROVE PageInv'
    BY <1>0, <1>6, QuietList DEF SocketDown, PageInv, PageTypeOK
<1>7. ASSUME SocketUp PROVE PageInv'
    <2>1. view.filter \in Filters
        BY <1>0 DEF PageInv, PageTypeOK, View
    <2> QED BY <1>0, <1>7, <2>1, RefreshList DEF SocketUp
<1>8. ASSUME NEW f \in Filters, FilterChange(f) PROVE PageInv'
    BY <1>0, <1>8, RefreshList DEF FilterChange, PageInv, PageTypeOK
<1>9. ASSUME SocketRegistered PROVE PageInv'
    BY <1>0, <1>9, QuietList DEF SocketRegistered, PageInv, PageTypeOK
<1>10. PageInv'
    BY <1>2, <1>3, <1>4, <1>5, <1>6, <1>7, <1>8, <1>9 DEF Page, Filters
<1> QED BY <1>1, <1>10 DEF ListInv, HistoryTypeOK, PageInv

\* What is to be proved holds in every reachable state.
LEMMA ListInvariant == Spec => []ListInv
<1>1. ListInv /\ [Next]_vars => ListInv'
    <2> SUFFICES ASSUME ListInv, [Next]_vars PROVE ListInv'
        OBVIOUS
    <2>1. CASE UNCHANGED vars
        BY <2>1 DEF vars, ListInv, HistoryTypeOK, TableTypeOK, PageTypeOK, AnswersOnce
    <2> QED BY <2>1, ServiceList, PageList DEF Next
<1> QED BY <1>1, ListInit, PTL DEF Spec

\* The table, the recordings, the page and its requests stay well-typed.
THEOREM HistoryTypeCorrect == Spec => []HistoryTypeOK
<1>1. ListInv => HistoryTypeOK
    BY DEF ListInv
<1> QED BY <1>1, ListInvariant, PTL

\* The page lists no row twice, although pages shift while calls are recorded and
\* deleted and broadcasts and any number of requests overlap
\* (handleRealtimeUpdate, fetchHistory).
THEOREM ListsEachOnce == Spec => []ListedOnce
<1>1. ListInv => ListedOnce
    BY DEF ListInv, Once, ListedOnce
<1> QED BY <1>1, ListInvariant, PTL

-----------------------------------------------------------------------------
(* The cap.  Each recording counts, selects and deletes by queries of its  *)
(* own; whatever came between, the last that counts brings the table down. *)

Unsaved == {i \in Ids : saving[i] # Done}

Known ==
    /\ Present \subseteq 1..recorded /\ Unsaved \subseteq 1..recorded
    /\ \A e \in telling : e.id <= recorded

\* A delete takes the oldest rows, also when it runs later.
OldestGo ==
    \A i \in Ids : saving[i].at = "delete" =>
        /\ saving[i].ids \subseteq 1..recorded
        /\ \A x \in saving[i].ids, y \in Present : y < x => y \in saving[i].ids

\* As long as the table is above its cap, a recording is under way that is still
\* to count the rows or has its mind set on enough of them.
ExcessHandled ==
    \/ lapsed
    \/ Cardinality(Present) <= Cap
    \/ \E i \in Ids : saving[i].at = "count"
    \/ \E i \in Ids : saving[i].at = "select" /\ Cardinality(Present) - saving[i].excess <= Cap
    \/ \E i \in Ids : saving[i].at = "delete" /\ Cardinality(Present \ saving[i].ids) <= Cap

\* A single recording counts what is there, and selects none of the newest.
NewestStay ==
    ~crowded =>
        /\ \A i, j \in Unsaved : i = j
        /\ \A i \in 1..recorded : i > recorded - Cap => i \in Present
        /\ \A i \in Ids : saving[i].at = "select" => saving[i].excess <= Cardinality(Present) - Cap
        /\ \A i \in Ids, x \in Ids :
              saving[i].at = "delete" /\ x \in saving[i].ids => x <= recorded - Cap

CapInv == Known /\ OldestGo /\ ExcessHandled /\ NewestStay

\* Fewer rows are older than an older one.
LEMMA OlderRank ==
    /\ \A i \in Present : /\ IsFiniteSet(Older(i))
                          /\ Cardinality(Older(i)) \in 0..(Cardinality(Present) - 1)
    /\ \A i, j \in Present : i < j => Cardinality(Older(i)) < Cardinality(Older(j))
<1>1. Present \in SUBSET Nat /\ IsFiniteSet(Present)
    BY PresentFinite
<1>2. \A i \in Present : Older(i) \in SUBSET Present /\ i \notin Older(i)
    BY <1>1 DEF Older
<1>3. \A i \in Present : IsFiniteSet(Older(i)) /\ Cardinality(Older(i)) \in Nat
    BY <1>1, <1>2, FS_Subset, FS_CardinalityType
<1>4. ASSUME NEW i \in Present PROVE Cardinality(Older(i)) \in 0..(Cardinality(Present) - 1)
    <2>1. Older(i) # Present
        BY <1>2
    <2>2. Cardinality(Older(i)) <= Cardinality(Present) /\ Cardinality(Older(i)) # Cardinality(Present)
        BY <1>1, <1>2, <2>1, FS_Subset
    <2> QED BY <1>1, <1>3, <2>2, FS_CardinalityType
<1>5. ASSUME NEW i \in Present, NEW j \in Present, i < j
      PROVE  Cardinality(Older(i)) < Cardinality(Older(j))
    <2>1. Older(i) \in SUBSET Older(j)
        <3> SUFFICES ASSUME NEW x \in Older(i) PROVE x \in Older(j)
            OBVIOUS
        <3>1. x \in Present /\ x \in Nat /\ i \in Nat /\ j \in Nat /\ x < i
            BY <1>1 DEF Older
        <3> QED BY <1>5, <3>1 DEF Older
    <2>2. i \in Older(j) /\ i \notin Older(i)
        BY <1>2, <1>5 DEF Older
    <2>3. Cardinality(Older(i)) <= Cardinality(Older(j)) /\ Cardinality(Older(i)) # Cardinality(Older(j))
        BY <1>3, <2>1, <2>2, FS_Subset
    <2> QED BY <1>3, <2>3
<1> QED BY <1>3, <1>4, <1>5

\* Deleting the n oldest leaves n fewer, or none.
LEMMA OldestGone ==
    ASSUME NEW n \in Nat
    PROVE  Cardinality(Present \ Oldest(n)) <= Cardinality(Present) - n \/ Present \ Oldest(n) = {}
<1> DEFINE c == Cardinality(Present)
           rank == [i \in Present |-> Cardinality(Older(i))]
<1>1. IsFiniteSet(Present) /\ c \in Nat
    BY PresentFinite, FS_CardinalityType
<1>2. rank \in [Present -> 0..(c - 1)]
    BY OlderRank
<1>3. ASSUME NEW i \in Present, NEW j \in Present, rank[i] = rank[j] PROVE i = j
    <2>1. Cardinality(Older(i)) = Cardinality(Older(j)) /\ Cardinality(Older(i)) \in Int
        BY <1>3, OlderRank
    <2>2. i \in Nat /\ j \in Nat
        BY PresentFinite
    <2>3. ~(i < j) /\ ~(j < i)
        BY <2>1, OlderRank
    <2> QED BY <2>2, <2>3
<1>4. \A k \in 0..(c - 1) : \E i \in Present : Cardinality(Older(i)) = k
    <2>1. \A k \in 0..(c - 1) : \E i \in Present : rank[i] = k
        <3> HIDE DEF rank
        <3> QED BY <1>1, <1>2, <1>3, PlacesTaken
    <2> QED BY <2>1
<1>5. CASE n > c
    BY <1>1, <1>5, OlderRank DEF Oldest
<1>6. CASE n <= c
    <2> DEFINE f == [i \in Oldest(n) |-> Cardinality(Older(i))]
    <2>1. Oldest(n) \in SUBSET Present /\ IsFiniteSet(Oldest(n))
        BY <1>1, FS_Subset DEF Oldest
    <2>2. \A i \in Oldest(n) : f[i] \in 0..(n - 1)
        BY OlderRank DEF Oldest
    <2>3. \A k \in 0..(n - 1) : \E i \in Oldest(n) : f[i] = k
        <3> SUFFICES ASSUME NEW k \in 0..(n - 1) PROVE \E i \in Oldest(n) : f[i] = k
            OBVIOUS
        <3>1. k \in 0..(c - 1) /\ k < n
            BY <1>1, <1>6
        <3>2. PICK i \in Present : Cardinality(Older(i)) = k
            BY <1>4, <3>1
        <3>3. i \in Oldest(n)
            BY <3>1, <3>2 DEF Oldest
        <3> QED BY <3>2, <3>3
    <2>4. f \in Surjection(Oldest(n), 0..(n - 1))
        BY <2>2, <2>3 DEF Surjection
    <2>5. Cardinality(0..(n - 1)) = n
        BY FS_Interval
    <2>6. n <= Cardinality(Oldest(n)) /\ Cardinality(Oldest(n)) \in Nat
        <3> HIDE DEF f
        <3> QED BY <2>1, <2>4, <2>5, FS_Surjection, FS_CardinalityType
    <2>7. Present \cap Oldest(n) = Oldest(n)
        BY <2>1
    <2>8. Cardinality(Present \ Oldest(n)) = c - Cardinality(Oldest(n))
        BY <1>1, <2>7, FS_Difference
    <2> QED BY <1>1, <2>6, <2>8
<1> QED BY <1>1, <1>5, <1>6

\* A row with as many older ones as the table has above its cap is not one of the newest.
LEMMA OldestAreOld ==
    ASSUME Known, TableTypeOK, NEW x \in Present,
           Cardinality(Older(x)) < Cardinality(Present) - Cap
    PROVE  x <= recorded - Cap
<1> DEFINE rest == Present \ Older(x)
<1>1. /\ Present \subseteq Nat /\ IsFiniteSet(Present) /\ Cardinality(Present) \in Nat
      /\ x \in Nat /\ recorded \in Nat /\ Cap \in Nat
    BY PresentFinite, FS_CardinalityType, HistoryAssumption DEF TableTypeOK
<1>2. IsFiniteSet(Older(x)) /\ Cardinality(Older(x)) \in Nat /\ Older(x) \subseteq Present
    BY <1>1, OlderRank DEF Older
<1>3. Cardinality(rest) = Cardinality(Present) - Cardinality(Older(x))
    <2>1. Present \cap Older(x) = Older(x)
        BY <1>2
    <2> QED BY <1>1, <2>1, FS_Difference
<1>4. rest \in SUBSET (x..recorded)
    <2> SUFFICES ASSUME NEW y \in rest PROVE y \in x..recorded
        OBVIOUS
    <2>1. y \in Present /\ y \in Nat /\ ~(y < x)
        BY <1>1 DEF Older
    <2>2. y <= recorded
        BY <1>1, <2>1 DEF Known
    <2> QED BY <1>1, <2>1, <2>2
<1>5. IsFiniteSet(x..recorded) /\ Cardinality(x..recorded) = recorded - x + 1
    <2>1. x <= recorded /\ x \in Int /\ recorded \in Int
        BY <1>1 DEF Known
    <2>2. /\ IsFiniteSet(x..recorded)
          /\ Cardinality(x..recorded) = IF x > recorded THEN 0 ELSE recorded - x + 1
        BY <2>1, FS_Interval
    <2> QED BY <2>1, <2>2
<1>6. Cardinality(rest) <= recorded - x + 1
    BY <1>4, <1>5, FS_Subset
<1> QED BY <1>1, <1>2, <1>3, <1>6

capVars == <<row, recorded, saving, crowded, lapsed>>

\* A step that leaves the table and the recordings alone.
LEMMA CapQuiet ==
    ASSUME CapInv, UNCHANGED capVars, telling' \subseteq telling PROVE CapInv'
<1>1. UNCHANGED <<Present, Unsaved>>
    BY DEF capVars, Present, Unsaved
<1>2. Known' /\ OldestGo'
    BY <1>1 DEF capVars, CapInv, Known, OldestGo
<1>3. ExcessHandled'
    BY <1>1 DEF capVars, CapInv, ExcessHandled
<1>4. NewestStay'
    BY <1>1 DEF capVars, CapInv, NewestStay
<1> QED BY <1>2, <1>3, <1>4 DEF CapInv

\* A recording under way is one of those not saved, and its type is known.
LEMMA SaverUnsaved ==
    ASSUME TableTypeOK, NEW i \in Ids, saving[i].at # "done" PROVE i \in Unsaved /\ saving[i] \in Saver
    BY DEF TableTypeOK, Unsaved, Done

\* A new row is the newest of all.
LEMMA CapRecord ==
    ASSUME TableTypeOK, CapInv, NEW l \in Lines, Record(l) PROVE CapInv'
<1> DEFINE new == recorded + 1
<1>1. /\ new \in Ids /\ recorded' = new /\ recorded \in Nat /\ new = recorded + 1
      /\ row' = [row EXCEPT ![new] = [line |-> l, type |-> "INCOMING"]]
      /\ saving' = [saving EXCEPT ![new] = [at |-> "count", ids |-> {}, excess |-> 0]]
      /\ crowded' = (crowded \/ \E j \in Ids : saving[j] # Done)
      /\ UNCHANGED telling
    BY HistoryAssumption DEF Record, TableTypeOK
<1> HIDE DEF new
<1>2. [line |-> l, type |-> "INCOMING"] # None
    BY HistoryAssumption DEF Row
<1>3. Present' = Present \cup {new}
    BY <1>1, <1>2 DEF Present, TableTypeOK
<1>4. Unsaved' \subseteq Unsaved \cup {new}
    BY <1>1 DEF Unsaved, TableTypeOK
<1>5. saving'[new].at = "count" /\ \A i \in Ids \ {new} : saving'[i] = saving[i]
    BY <1>1 DEF TableTypeOK
<1>6. Known'
    <2>1. Present' \subseteq 1..new /\ Unsaved' \subseteq 1..new
        BY <1>1, <1>3, <1>4 DEF CapInv, Known
    <2>2. \A e \in telling : e.id <= new
        <3> SUFFICES ASSUME NEW e \in telling PROVE e.id <= new
            OBVIOUS
        <3>1. e.id \in Nat /\ e.id <= recorded
            BY PresentFinite DEF CapInv, Known, TableTypeOK
        <3> QED BY <1>1, <3>1
    <2> QED BY <1>1, <2>1, <2>2 DEF Known
<1>7. OldestGo'
    <2> SUFFICES ASSUME NEW i \in Ids, saving'[i].at = "delete"
                 PROVE  /\ saving'[i].ids \subseteq 1..new
                        /\ \A x \in saving'[i].ids, y \in Present' : y < x => y \in saving'[i].ids
        BY <1>1 DEF OldestGo
    <2>1. saving'[i] = saving[i]
        BY <1>5
    <2>2. /\ saving[i].ids \subseteq 1..recorded
          /\ \A x \in saving[i].ids, y \in Present : y < x => y \in saving[i].ids
        BY <2>1 DEF CapInv, OldestGo
    <2> QED BY <1>1, <1>3, <2>1, <2>2
<1>8. ExcessHandled'
    BY <1>1, <1>5 DEF ExcessHandled
<1>9. NewestStay'
    <2> SUFFICES ASSUME ~crowded'
                 PROVE  /\ \A i, j \in Unsaved' : i = j
                        /\ \A i \in 1..new : i > new - Cap => i \in Present'
                        /\ \A i \in Ids : saving'[i].at \notin {"select", "delete"}
        BY <1>1 DEF NewestStay
    <2>1. ~crowded /\ \A j \in Ids : saving[j] = Done
        BY <1>1
    <2>2. \A i \in Ids \ {new} : saving'[i] = Done
        BY <1>5, <2>1
    <2>3. \A i \in Unsaved' : i = new
        BY <2>2 DEF Unsaved
    <2>4. \A i \in Ids : saving'[i].at \notin {"select", "delete"}
        BY <1>5, <2>2 DEF Done
    <2>5. ASSUME NEW i \in 1..new, i > new - Cap PROVE i \in Present'
        <3>1. CASE i = new
            BY <1>3, <3>1
        <3>2. CASE i # new
            <4>1. i \in 1..recorded /\ i > recorded - Cap
                BY <1>1, <2>5, <3>2, HistoryAssumption
            <4> QED BY <1>3, <2>1, <4>1 DEF CapInv, NewestStay
        <3> QED BY <3>1, <3>2
    <2> QED BY <2>3, <2>4, <2>5
<1> QED BY <1>6, <1>7, <1>8, <1>9 DEF CapInv

\* A recording that counts the rows knows the excess, or that there is none.
LEMMA CapCounts ==
    ASSUME TableTypeOK, CapInv, NEW i \in Ids, CapCount(i) PROVE CapInv'
<1> DEFINE c == Cardinality(Present)
           n == Excess(c)
<1>1. c \in Nat /\ Cap \in Nat /\ n = (IF c > Cap THEN c - Cap ELSE 0) /\ n \in Nat
    BY PresentFinite, FS_CardinalityType, HistoryAssumption DEF Excess
<1> HIDE DEF n
<1>2. /\ saving[i].at = "count" /\ saving[i] \in Saver /\ i \in Unsaved
      /\ UNCHANGED <<row, recorded, crowded, telling>>
    BY SaverUnsaved DEF CapCount
<1>3. saving' = [saving EXCEPT ![i].at = IF n > 0 THEN "select" ELSE "tell", ![i].excess = n]
    BY DEF CapCount, n
<1>4. /\ saving'[i].at = IF n > 0 THEN "select" ELSE "tell"
      /\ saving'[i].excess = n
      /\ \A j \in Ids \ {i} : saving'[j] = saving[j]
    BY <1>2, <1>3 DEF TableTypeOK, Saver
<1>5. UNCHANGED Present /\ Unsaved' \subseteq Unsaved
    BY <1>2, <1>4 DEF Present, Unsaved
<1>6. Known'
    BY <1>2, <1>5 DEF CapInv, Known
<1>7. OldestGo'
    BY <1>2, <1>4, <1>5 DEF CapInv, OldestGo
<1>8. ExcessHandled'
    <2>1. CASE c <= Cap
        BY <1>5, <2>1 DEF ExcessHandled
    <2>2. CASE c > Cap
        <3>1. saving'[i].at = "select" /\ c - saving'[i].excess <= Cap
            BY <1>1, <1>4, <2>2
        <3> QED BY <1>5, <3>1 DEF ExcessHandled
    <2> QED BY <1>1, <2>1, <2>2
<1>9. NewestStay'
    <2>1. saving'[i].at = "select" => saving'[i].excess <= c - Cap
        BY <1>1, <1>4
    <2>2. \A j \in Ids : saving'[j].at = "select" => j = i \/ saving'[j] = saving[j]
        BY <1>4
    <2>3. \A j \in Ids : saving'[j].at = "delete" => saving'[j] = saving[j]
        BY <1>4
    <2> QED BY <1>2, <1>5, <2>1, <2>2, <2>3 DEF CapInv, NewestStay
<1> QED BY <1>6, <1>7, <1>8, <1>9 DEF CapInv

\* What is selected are the oldest rows, as many as there were too many.
LEMMA CapSelects ==
    ASSUME TableTypeOK, CapInv, NEW i \in Ids, CapSelect(i) PROVE CapInv'
<1> DEFINE n == saving[i].excess
<1>1. /\ saving[i].at = "select" /\ saving[i] \in Saver /\ i \in Unsaved
      /\ UNCHANGED <<row, recorded, crowded, lapsed, telling>> /\ n \in Nat
    BY SaverUnsaved DEF CapSelect, Saver
<1>2. saving' = [saving EXCEPT ![i] = [at |-> "delete", ids |-> Oldest(n), excess |-> 0]]
    BY DEF CapSelect
<1>3. /\ saving'[i].at = "delete" /\ saving'[i].ids = Oldest(n)
      /\ \A j \in Ids \ {i} : saving'[j] = saving[j]
    BY <1>1, <1>2 DEF TableTypeOK, Saver
<1>4. UNCHANGED Present /\ Unsaved' \subseteq Unsaved
    BY <1>1, <1>3 DEF Present, Unsaved
<1>5. Oldest(n) \subseteq Present
    BY DEF Oldest
<1>6. Known'
    BY <1>1, <1>4 DEF CapInv, Known
<1>7. OldestGo'
    <2>1. Oldest(n) \subseteq 1..recorded
        BY <1>5 DEF CapInv, Known
    <2>2. ASSUME NEW x \in Oldest(n), NEW y \in Present, y < x PROVE y \in Oldest(n)
        <3>1. /\ x \in Present /\ Cardinality(Older(x)) < n
              /\ Cardinality(Older(y)) < Cardinality(Older(x))
            BY <1>5, <2>2, OlderRank DEF Oldest
        <3>2. Cardinality(Older(y)) \in Int /\ Cardinality(Older(x)) \in Int
            BY <3>1, OlderRank
        <3> QED BY <1>1, <3>1, <3>2 DEF Oldest
    <2> QED BY <1>1, <1>3, <1>4, <2>1, <2>2 DEF CapInv, OldestGo
<1>8. ExcessHandled'
    <2>1. CASE Cardinality(Present) - n <= Cap
        <3>1. Cardinality(Present \ Oldest(n)) <= Cap
            <4>1. Cardinality(Present) \in Nat /\ Cardinality(Present \ Oldest(n)) \in Nat
                BY PresentFinite, FS_Difference, FS_CardinalityType
            <4>2. CASE Present \ Oldest(n) = {}
                BY <4>2, FS_EmptySet, HistoryAssumption
            <4>3. CASE Cardinality(Present \ Oldest(n)) <= Cardinality(Present) - n
                BY <1>1, <2>1, <4>1, <4>3, HistoryAssumption
            <4> QED BY <1>1, <4>2, <4>3, OldestGone
        <3> QED BY <1>3, <1>4, <3>1 DEF ExcessHandled
    <2>2. CASE ~(Cardinality(Present) - n <= Cap)
        <3>1. \A j \in Ids : saving[j].at = "select" /\ Cardinality(Present) - saving[j].excess <= Cap
                  => saving'[j] = saving[j]
            BY <1>3, <2>2
        <3>2. \A j \in Ids : saving[j].at \in {"count", "delete"} => saving'[j] = saving[j]
            BY <1>1, <1>3
        <3> QED BY <1>1, <1>4, <3>1, <3>2 DEF CapInv, ExcessHandled
    <2> QED BY <2>1, <2>2
<1>9. NewestStay'
    <2>1. ASSUME ~crowded, NEW x \in Oldest(n) PROVE x <= recorded - Cap
        <3>1. n <= Cardinality(Present) - Cap
            BY <1>1, <2>1 DEF CapInv, NewestStay
        <3>2. x \in Present /\ Cardinality(Older(x)) < n
            BY DEF Oldest
        <3>3. Cardinality(Older(x)) \in Int /\ Cardinality(Present) \in Int /\ Cap \in Int
            BY <3>2, OlderRank, PresentFinite, FS_CardinalityType, HistoryAssumption
        <3>4. Cardinality(Older(x)) < Cardinality(Present) - Cap
            BY <1>1, <3>1, <3>2, <3>3
        <3> QED BY <3>2, <3>4, OldestAreOld DEF CapInv
    <2>2. \A j \in Ids : saving'[j].at = "select" => saving'[j] = saving[j]
        BY <1>3
    <2>3. \A j \in Ids : saving'[j].at = "delete" => j = i \/ saving'[j] = saving[j]
        BY <1>3
    <2> QED BY <1>1, <1>3, <1>4, <2>1, <2>2, <2>3 DEF CapInv, NewestStay
<1> QED BY <1>6, <1>7, <1>8, <1>9 DEF CapInv

\* The delete takes what was selected.
LEMMA CapDeletes ==
    ASSUME TableTypeOK, CapInv, NEW i \in Ids, CapDelete(i) PROVE CapInv'
<1> DEFINE gone == saving[i].ids
<1>1. /\ saving[i].at = "delete" /\ saving[i] \in Saver /\ i \in Unsaved
      /\ UNCHANGED <<recorded, crowded, lapsed, telling>>
      /\ row' = [j \in Ids |-> IF j \in gone THEN None ELSE row[j]]
    BY SaverUnsaved DEF CapDelete
<1>2. saving' = [saving EXCEPT ![i] = [at |-> "tell", ids |-> {}, excess |-> 0]]
    BY DEF CapDelete
<1>3. saving'[i].at = "tell" /\ \A j \in Ids \ {i} : saving'[j] = saving[j]
    BY <1>1, <1>2 DEF TableTypeOK, Saver
<1> HIDE DEF gone
<1>4. Present' = Present \ gone /\ Unsaved' \subseteq Unsaved
    BY <1>1, <1>3 DEF Present, Unsaved
<1>5. \A j \in Ids : saving'[j].at \in {"count", "select", "delete"} => j # i /\ saving'[j] = saving[j]
    BY <1>3
<1>6. Known'
    BY <1>1, <1>4 DEF CapInv, Known
<1>7. OldestGo'
    BY <1>1, <1>4, <1>5 DEF CapInv, OldestGo
<1>8. ExcessHandled'
    <2>1. /\ IsFiniteSet(Present) /\ Cardinality(Present) \in Nat
          /\ IsFiniteSet(Present') /\ Cardinality(Present') \in Nat
          /\ Cardinality(Present') <= Cardinality(Present)
        BY <1>4, PresentFinite, FS_Subset, FS_CardinalityType
    <2>2. CASE Cardinality(Present) <= Cap
        BY <2>1, <2>2, HistoryAssumption DEF ExcessHandled
    <2>3. ASSUME NEW j \in Ids, saving[j].at = "count" PROVE ExcessHandled'
        BY <1>1, <1>3, <2>3 DEF ExcessHandled
    <2>4. ASSUME NEW j \in Ids, saving[j].at = "select", Cardinality(Present) - saving[j].excess <= Cap
          PROVE  ExcessHandled'
        <3>1. saving'[j] = saving[j] /\ saving[j].excess \in Nat
            BY <1>1, <1>3, <2>4, SaverUnsaved DEF Saver
        <3>2. Cardinality(Present') - saving[j].excess <= Cap
            BY <2>1, <2>4, <3>1, HistoryAssumption
        <3> QED BY <2>4, <3>1, <3>2 DEF ExcessHandled
    <2>5. ASSUME NEW j \in Ids, saving[j].at = "delete", Cardinality(Present \ saving[j].ids) <= Cap
          PROVE  ExcessHandled'
        <3>1. CASE j = i
            BY <1>4, <2>5, <3>1 DEF ExcessHandled, gone
        <3>2. CASE j # i
            <4>1. Present' \ saving[j].ids \in SUBSET (Present \ saving[j].ids)
                BY <1>4
            <4>2. IsFiniteSet(Present \ saving[j].ids)
                BY <2>1, FS_Difference
            <4>3. /\ Cardinality(Present' \ saving[j].ids) <= Cardinality(Present \ saving[j].ids)
                  /\ Cardinality(Present' \ saving[j].ids) \in Nat
                  /\ Cardinality(Present \ saving[j].ids) \in Nat
                BY <4>1, <4>2, FS_Subset, FS_CardinalityType
            <4>4. Cardinality(Present' \ saving[j].ids) <= Cap
                BY <2>5, <4>3, HistoryAssumption
            <4> QED BY <1>3, <2>5, <3>2, <4>4 DEF ExcessHandled
        <3> QED BY <3>1, <3>2
    <2> QED BY <1>1, <2>2, <2>3, <2>4, <2>5 DEF CapInv, ExcessHandled
<1>9. NewestStay'
    <2> SUFFICES ASSUME ~crowded PROVE NewestStay'
        BY <1>1 DEF NewestStay
    <2>1. /\ \A j, k \in Unsaved : j = k
          /\ \A j \in 1..recorded : j > recorded - Cap => j \in Present
          /\ \A x \in Ids : x \in gone => x <= recorded - Cap
        BY <1>1 DEF CapInv, NewestStay, gone
    <2>2. \A j \in Ids : saving'[j].at \notin {"select", "delete"}
        <3> SUFFICES ASSUME NEW j \in Ids, saving'[j].at \in {"select", "delete"} PROVE FALSE
            OBVIOUS
        <3>1. j # i /\ j \in Unsaved
            BY <1>5, SaverUnsaved
        <3> QED BY <1>1, <2>1, <3>1
    <2>3. \A j \in 1..recorded : j > recorded - Cap => j \in Present'
        <3> SUFFICES ASSUME NEW j \in 1..recorded, j > recorded - Cap PROVE j \notin gone
            BY <1>4, <2>1
        <3>1. j \in Ids /\ j \in Int /\ recorded - Cap \in Int
            BY <2>1, PresentFinite, HistoryAssumption DEF TableTypeOK
        <3> QED BY <2>1, <3>1
    <2> QED BY <1>1, <1>4, <2>1, <2>2, <2>3 DEF NewestStay
<1> QED BY <1>6, <1>7, <1>8, <1>9 DEF CapInv

\* A recording ends when its row is broadcast.
LEMMA CapTold ==
    ASSUME TableTypeOK, CapInv, NEW i \in Ids, RecordTold(i) PROVE CapInv'
<1>1. /\ saving[i].at = "tell" /\ i \in Unsaved
      /\ UNCHANGED <<row, recorded, crowded, lapsed, telling>>
      /\ saving' = [saving EXCEPT ![i] = Done]
    BY SaverUnsaved DEF RecordTold
<1>2. saving'[i] = Done /\ \A j \in Ids \ {i} : saving'[j] = saving[j]
    BY <1>1 DEF TableTypeOK
<1>3. UNCHANGED Present /\ Unsaved' \subseteq Unsaved
    BY <1>1, <1>2 DEF Present, Unsaved
<1>4. /\ \A j \in Ids : saving'[j].at \in {"select", "delete"} => saving'[j] = saving[j]
      /\ \A j \in Ids : saving[j].at \in {"count", "select", "delete"} => saving'[j] = saving[j]
    BY <1>1, <1>2 DEF Done
<1>5. Known' /\ OldestGo'
    BY <1>1, <1>3, <1>4 DEF CapInv, Known, OldestGo
<1>6. ExcessHandled'
    BY <1>1, <1>3, <1>4 DEF CapInv, ExcessHandled
<1>7. NewestStay'
    BY <1>1, <1>3, <1>4 DEF CapInv, NewestStay
<1> QED BY <1>5, <1>6, <1>7 DEF CapInv

\* One that ends because a query rejects leaves its row, and what it knew of the
\* excess is gone unless the cap was through.
LEMMA CapRejected ==
    ASSUME TableTypeOK, CapInv, NEW i \in Ids, CapRejects(i) PROVE CapInv'
<1>1. /\ saving[i] # Done /\ i \in Unsaved
      /\ UNCHANGED <<row, recorded, crowded, telling>>
      /\ saving' = [saving EXCEPT ![i] = Done]
      /\ lapsed' = (lapsed \/ saving[i].at # "tell")
    BY DEF CapRejects, Unsaved
<1>2. saving'[i] = Done /\ \A j \in Ids \ {i} : saving'[j] = saving[j]
    BY <1>1 DEF TableTypeOK
<1>3. UNCHANGED Present /\ Unsaved' \subseteq Unsaved
    BY <1>1, <1>2 DEF Present, Unsaved
<1>4. \A j \in Ids : saving'[j].at \in {"select", "delete"} => saving'[j] = saving[j]
    BY <1>2 DEF Done
<1>5. Known' /\ OldestGo'
    BY <1>1, <1>3, <1>4 DEF CapInv, Known, OldestGo
<1>6. ExcessHandled'
    <2>1. CASE lapsed'
        BY <2>1 DEF ExcessHandled
    <2>2. CASE ~lapsed'
        <3>1. \A j \in Ids : saving[j].at \in {"count", "select", "delete"} => saving'[j] = saving[j]
            BY <1>1, <1>2, <2>2
        <3> QED BY <1>1, <1>3, <2>2, <3>1 DEF CapInv, ExcessHandled
    <2> QED BY <2>1, <2>2
<1>7. NewestStay'
    BY <1>1, <1>3, <1>4 DEF CapInv, NewestStay
<1> QED BY <1>5, <1>6, <1>7 DEF CapInv

\* An update changes what a row says, not whether it is there.
LEMMA UpdateKeepsRows ==
    ASSUME TableTypeOK, NEW c \in Ids, Update(c)
    PROVE  /\ Open(c) \subseteq Present /\ Present' = Present
           /\ \A i \in Open(c) : row[i].type = "INCOMING" /\ row'[i].type = "MISSED"
           /\ \A f : Matches(f)' = Matches(f)
           /\ \A j \in Ids \ Open(c) : row'[j] = row[j]
<1>1. /\ Open(c) \subseteq Ids /\ Open(c) \subseteq Present
      /\ \A i \in Open(c) : row[i] \in Row /\ row[i].type = "INCOMING"
    BY DEF Open, Present, TableTypeOK
<1>2. row' = [i \in Ids |-> IF i \in Open(c) THEN [row[i] EXCEPT !.type = "MISSED"] ELSE row[i]]
    BY DEF Update
<1>3. \A i \in Open(c) : row'[i] \in Row /\ row'[i].type = "MISSED" /\ row'[i].line = row[i].line
    BY <1>1, <1>2 DEF Row
<1>4. \A j \in Ids \ Open(c) : row'[j] = row[j]
    BY <1>2
<1>5. Present' = Present
    BY <1>1, <1>3, <1>4, HistoryAssumption DEF Present
<1>6. \A f : Matches(f)' = Matches(f)
    <2>1. \A j \in Present : row'[j].line = row[j].line
        BY <1>3, <1>4, PresentFinite
    <2> QED BY <1>5, <2>1 DEF Matches
<1> QED BY <1>1, <1>3, <1>4, <1>5, <1>6

\* The cap counts rows, which an update leaves alone.
LEMMA CapUpdate ==
    ASSUME TableTypeOK, CapInv, NEW c \in Ids, Update(c) PROVE CapInv'
<1>1. Present' = Present /\ Open(c) \subseteq Present /\ UNCHANGED <<recorded, saving, crowded, lapsed>>
    BY UpdateKeepsRows DEF Update
<1>2. Unsaved' = Unsaved
    BY <1>1 DEF Unsaved
<1>3. Known'
    <2>1. PICK i \in Open(c) : telling' = telling \cup {[id |-> i, type |-> "MISSED"]}
        BY DEF Update
    <2>2. i \in 1..recorded
        BY <1>1 DEF CapInv, Known
    <2>3. \A e \in telling' : e \in telling \/ e.id = i
        BY <2>1
    <2> QED BY <1>1, <1>2, <2>2, <2>3 DEF CapInv, Known
<1>4. OldestGo' /\ ExcessHandled' /\ NewestStay'
    BY <1>1, <1>2 DEF CapInv, OldestGo, ExcessHandled, NewestStay
<1> QED BY <1>3, <1>4 DEF CapInv

\* The table starts with its old rows, none of them being recorded.
LEMMA CapInit == Init => CapInv
<1> SUFFICES ASSUME Init PROVE CapInv
    OBVIOUS
<1>1. /\ \A i \in Ids : i <= Old => row[i] # None
      /\ \A i \in Ids : i > Old => row[i] = None
      /\ recorded = Old /\ telling = {} /\ \A i \in Ids : saving[i] = Done
    <2>1. PICK l \in [1..Old -> Lines] :
              row = [i \in Ids |-> IF i <= Old THEN [line |-> l[i], type |-> "MISSED"] ELSE None]
        BY DEF Init
    <2>2. \A i \in Ids : i <= Old => i \in 1..Old /\ row[i] = [line |-> l[i], type |-> "MISSED"]
        BY <2>1, HistoryAssumption DEF Ids
    <2>3. \A i \in Ids : i <= Old => row[i] \in Row
        <3>1. \A i \in 1..Old : l[i] \in Lines
            BY <2>1
        <3>2. \A x \in Lines : [line |-> x, type |-> "MISSED"] \in Row
            BY DEF Row
        <3> QED BY <2>2, <3>1, <3>2
    <2>4. \A i \in Ids : i > Old => row[i] = None
        BY <2>1, HistoryAssumption DEF Ids
    <2> QED BY <2>3, <2>4, HistoryAssumption DEF Init
<1>2. Present = 1..Old
    BY <1>1, HistoryAssumption DEF Present, Ids
<1>3. Cardinality(Present) = Old
    BY <1>2, FS_Interval, HistoryAssumption
<1>4. Unsaved = {} /\ \A i \in Ids : saving[i].at = "done"
    BY <1>1 DEF Unsaved, Done
<1>5. Known /\ OldestGo
    BY <1>1, <1>2, <1>4 DEF Known, OldestGo
<1>6. ExcessHandled
    <2>1. CASE Old > Cap
        <3>1. lapsed = (Old > Cap)
            BY DEF Init
        <3>2. lapsed
            BY <2>1, <3>1, Zenon
        <3> QED BY <3>2 DEF ExcessHandled
    <2>2. CASE ~(Old > Cap)
        BY <1>3, <2>2, HistoryAssumption DEF ExcessHandled
    <2> QED BY <2>1, <2>2
<1>7. NewestStay
    BY <1>1, <1>2, <1>4 DEF NewestStay
<1> QED BY <1>5, <1>6, <1>7 DEF CapInv

\* Every step of the service keeps the cap's invariant; the page touches no row.
LEMMA CapNext ==
    ASSUME TableTypeOK, CapInv, [Next]_vars PROVE CapInv'
<1>1. CASE UNCHANGED vars
    BY <1>1, CapQuiet DEF vars, capVars
<1>2. CASE Page
    BY <1>2, CapQuiet DEF Page, Read, Respond, ResponseFails, LoadMore, SocketDown, SocketUp,
        SocketRegistered, FilterChange, capVars
<1>3. CASE Service
    <2>1. CASE RecordFails \/ \E e \in telling : UpdateTold(e)
        BY <2>1, CapQuiet DEF RecordFails, UpdateTold, capVars
    <2>2. CASE \E l \in Lines : Record(l)
        BY <2>2, CapRecord
    <2>3. CASE \E i \in Ids : CapCount(i) \/ CapSelect(i) \/ CapDelete(i)
        BY <2>3, CapCounts, CapSelects, CapDeletes
    <2>4. CASE \E i \in Ids : CapRejects(i) \/ RecordTold(i) \/ Update(i)
        BY <2>4, CapRejected, CapTold, CapUpdate
    <2> QED BY <1>3, <2>1, <2>2, <2>3, <2>4 DEF Service
<1> QED BY <1>1, <1>2, <1>3 DEF Next

\* What the cap rests on holds in every reachable state.
LEMMA CapInvariant == Spec => []CapInv
<1>1. ListInv => TableTypeOK
    BY DEF ListInv, HistoryTypeOK
<1> QED BY <1>1, ListInvariant, CapInit, CapNext, PTL DEF Spec

\* Once no recording is under way the table is within its cap, however many
\* recordings overlapped, if the last to count was not one that rejected, and
\* unless they overlapped it is the oldest rows that went (enforceEntryCap).
THEOREM CapHolds == Spec => []CapKept
<1>1. ListInv /\ CapInv => CapKept
    <2> SUFFICES ASSUME ListInv, CapInv, \A i \in Ids : saving[i] = Done PROVE CapKept
        BY DEF CapKept
    <2>1. \A i \in Ids : saving[i].at = "done"
        BY DEF Done
    <2>2. ~lapsed => Cardinality(Present) <= Cap
        BY <2>1 DEF CapInv, ExcessHandled
    <2>3. ~crowded => \A i \in 1..recorded : i > recorded - Cap => i \in Present
        BY DEF CapInv, NewestStay
    <2> QED BY <2>2, <2>3 DEF CapKept
<1> QED BY <1>1, ListInvariant, CapInvariant, PTL

-----------------------------------------------------------------------------
(* The list is current.  Unless changes and requests overlapped (raced),   *)
(* an answer is a page of the table as it is, and the list has all that    *)
(* its pages covered: what is recorded since is broadcast, and what is     *)
(* deleted was the oldest.                                                 *)

\* An update still to be broadcast says what the row says.
UpdatesRight == \A e \in telling : e.id \in Present => row[e.id].type = e.type

\* A row is not updated before it is broadcast.
SavedOpen == \A i \in Unsaved : i \in Present => row[i].type = "INCOMING"

\* Nothing changes while a request is outstanding, and its answer is up to date.
RequestsFresh ==
    \A s \in Outstanding :
        /\ telling = {} /\ Unsaved = {} /\ \A t \in Outstanding : t = s
        /\ req[s].filter = view.filter
        /\ req[s].page = IF req[s].append THEN view.page + 1 ELSE 1
        /\ req[s].rows # None => /\ req[s].rows = PageOf(req[s])
                                 /\ req[s].total = Cardinality(Matches(view.filter))

\* The list says of a row what the table does, or an update will.
Typed ==
    \A k \in DOMAIN view.list :
        LET i == view.list[k].id IN
        i \in Present /\ Alone(i) =>
                         \/ view.list[k].type = row[i].type
                         \/ [id |-> i, type |-> row[i].type] \in telling

\* The list has the rows that its pages loaded: all of them when it offers no more.
Loaded ==
    \A i \in Matches(view.filter) \ Unsaved :
        ~view.hasMore \/ Cardinality(Newer(Matches(view.filter), i)) < view.page * PageSize
            => i \in Shown(view.list)

ShownKnown == \A i \in Shown(view.list) : i <= recorded

\* The page hears of changes, and is not about to be replaced.
Listening == sock # "down" /\ \A s \in Outstanding : req[s].append

Current ==
    ~raced => /\ SavedOpen /\ RequestsFresh
              /\ Listening => Typed /\ Loaded /\ ShownKnown

CurrentInv == UpdatesRight /\ Current

\* A page has the rows of its filter from the first place it is asked for to the last.
LEMMA PageCovers ==
    ASSUME TableTypeOK, NEW r \in Request
    PROVE  /\ \A k \in DOMAIN PageOf(r) : /\ PageOf(r)[k].id \in Matches(r.filter)
                                          /\ PageOf(r)[k].type = row[PageOf(r)[k].id].type
           /\ \A i \in Matches(r.filter) :
                 LET place == Cardinality(Newer(Matches(r.filter), i)) IN
                 (r.page - 1) * PageSize <= place /\ place < r.page * PageSize
                     => i \in Shown(PageOf(r))
           /\ Cardinality(Matches(r.filter)) \in Nat
           /\ \A i \in Matches(r.filter) :
                 Cardinality(Newer(Matches(r.filter), i)) \in 0..(Cardinality(Matches(r.filter)) - 1)
<1> DEFINE all == Matches(r.filter)
           skipped == (r.page - 1) * PageSize
           left == Cardinality(all) - skipped
           n == IF left < PageSize THEN left ELSE PageSize
<1>1. all \in SUBSET Int /\ IsFiniteSet(all) /\ Cardinality(all) \in Nat
    <2>1. all \in SUBSET Present /\ IsFiniteSet(all)
        BY PresentFinite
    <2>2. Present \in SUBSET Int
        BY PresentFinite
    <2> HIDE DEF all
    <2> QED BY <2>1, <2>2, FS_CardinalityType
<1>2. skipped \in Nat /\ n \in Int /\ PageSize \in Nat
    BY <1>1, HistoryAssumption DEF Request
<1>3. \A k \in 1..n : skipped + k \in 1..Cardinality(all)
    BY <1>1, <1>2, HistoryAssumption
<1>4. PageOf(r) = [k \in 1..n |-> Entry(Nth(all, skipped + k))]
    BY DEF PageOf
<1>5. r.page * PageSize = skipped + PageSize
    BY HistoryAssumption DEF Request
<1>6. \A m \in Nat : skipped < m /\ m <= skipped + PageSize /\ m <= Cardinality(all)
          => m - skipped \in 1..n
    BY <1>1, <1>2
<1> HIDE DEF all, skipped, n
<1>7. \A k \in 1..n : Nth(all, skipped + k) \in all
    BY <1>1, <1>3, NthRank
<1>8. \A k \in DOMAIN PageOf(r) : PageOf(r)[k].id \in all /\ PageOf(r)[k].type = row[PageOf(r)[k].id].type
    BY <1>4, <1>7 DEF Entry
<1>9. ASSUME NEW i \in all, skipped <= Cardinality(Newer(all, i)),
             Cardinality(Newer(all, i)) < r.page * PageSize
      PROVE  i \in Shown(PageOf(r))
    <2> DEFINE m == Cardinality(Newer(all, i)) + 1
    <2>1. m \in 1..Cardinality(all) /\ i = Nth(all, m)
        BY <1>1, NthAll
    <2>2. skipped < m /\ m <= skipped + PageSize
        <3>1. Cardinality(Newer(all, i)) \in Nat
            BY <1>1, NewerRank
        <3> QED BY <1>2, <1>5, <1>9, <3>1
    <2> HIDE DEF m
    <2>3. m - skipped \in 1..n /\ skipped + (m - skipped) = m
        BY <1>1, <1>2, <1>6, <2>1, <2>2
    <2>4. m - skipped \in DOMAIN PageOf(r) /\ PageOf(r)[m - skipped] = Entry(i)
        BY <1>4, <2>1, <2>3
    <2> QED BY <2>4 DEF Shown, Entry
<1>10. \A i \in all : Cardinality(Newer(all, i)) \in 0..(Cardinality(all) - 1)
    BY <1>1, NewerRank
<1> QED BY <1>1, <1>8, <1>9, <1>10 DEF all, skipped

\* No update is broadcast that the table does not bear out.
LEMMA UpdatesNext ==
    ASSUME TableTypeOK, CapInv, UpdatesRight, [Next]_vars PROVE UpdatesRight'
<1>1. CASE UNCHANGED row /\ telling' \subseteq telling
    BY <1>1 DEF UpdatesRight, Present
<1>2. ASSUME NEW l \in Lines, Record(l) PROVE UpdatesRight'
    <2>1. \A e \in telling : e.id \in Ids /\ e.id # recorded + 1
        <3>1. recorded \in Int
            BY HistoryAssumption DEF TableTypeOK
        <3>2. \A e \in telling : e.id \in Ids
            BY DEF TableTypeOK
        <3>3. \A e \in telling : e.id <= recorded
            BY DEF CapInv, Known
        <3> QED BY <3>1, <3>2, <3>3, PresentFinite
    <2>2. \A e \in telling : row'[e.id] = row[e.id]
        BY <1>2, <2>1 DEF Record, TableTypeOK
    <2> QED BY <1>2, <2>1, <2>2 DEF Record, UpdatesRight, Present
<1>3. ASSUME NEW i \in Ids, CapDelete(i) PROVE UpdatesRight'
    <2>1. \A j \in Present' : j \in Present /\ row'[j] = row[j]
        BY <1>3 DEF CapDelete, Present
    <2> QED BY <1>3, <2>1 DEF CapDelete, UpdatesRight
<1>4. ASSUME NEW c \in Ids, Update(c) PROVE UpdatesRight'
    <2>1. /\ Present' = Present /\ Open(c) \subseteq Present
          /\ \A i \in Open(c) : row'[i].type = "MISSED"
          /\ \A j \in Ids \ Open(c) : row'[j] = row[j]
        BY <1>4, UpdateKeepsRows
    <2>2. PICK i \in Open(c) : telling' = telling \cup {[id |-> i, type |-> "MISSED"]}
        BY <1>4 DEF Update
    <2>3. i \in Ids
        BY DEF Open, Present
    <2>4. \A e \in telling : e.id \in Ids /\ e.type = "MISSED"
        BY DEF TableTypeOK
    <2>5. \A e \in telling' : e \in telling \/ (e.id = i /\ e.type = "MISSED")
        BY <2>2
    <2> QED BY <2>1, <2>3, <2>4, <2>5 DEF UpdatesRight
<1>5. CASE Page
    BY <1>1, <1>5 DEF Page, Read, Respond, ResponseFails, LoadMore, SocketDown, SocketUp,
        SocketRegistered, FilterChange
<1>6. CASE Service
    <2>1. CASE RecordFails \/ \E e \in telling : UpdateTold(e)
        BY <1>1, <2>1 DEF RecordFails, UpdateTold
    <2>2. CASE \E i \in Ids : CapCount(i) \/ CapSelect(i) \/ CapRejects(i) \/ RecordTold(i)
        BY <1>1, <2>2 DEF CapCount, CapSelect, CapRejects, RecordTold
    <2> QED BY <1>2, <1>3, <1>4, <1>6, <2>1, <2>2 DEF Service
<1>7. CASE UNCHANGED vars
    BY <1>1, <1>7 DEF vars
<1> QED BY <1>5, <1>6, <1>7 DEF Next

\* A request that is sent is the only one outstanding, if none was.
LEMMA FetchAlone ==
    ASSUME PageTypeOK, Outstanding = {}, NEW page, NEW append, NEW filter,
           Fetch(page, append, filter)
    PROVE  \E s \in Slots : Outstanding' = {s} /\ req'[s] = Ask(page, append, filter)
<1>1. PICK s \in Slots : req' = [req EXCEPT ![s] = Ask(page, append, filter)]
    BY DEF Fetch
<1>2. Ask(page, append, filter) # Idle
    <2>1. Ask(page, append, filter).at = "sent" /\ Idle.at = "idle"
        BY DEF Ask, Idle
    <2> QED BY <2>1
<1>3. req'[s] = Ask(page, append, filter) /\ \A t \in Slots \ {s} : req'[t] = Idle
    BY <1>1 DEF PageTypeOK, Outstanding
<1>4. Outstanding' = {s}
    BY <1>2, <1>3 DEF Outstanding
<1> QED BY <1>3, <1>4

\* What the page asks for anew replaces the list.
LEMMA CurrentRefresh ==
    ASSUME ListInv, Current, NEW filter \in Filters, Refresh(filter),
           UNCHANGED <<row, saving, telling>>
    PROVE  Current'
<1> SUFFICES ASSUME ~raced' PROVE SavedOpen' /\ RequestsFresh' /\ ~Listening'
    BY DEF Current
<1>1. ~raced /\ Outstanding = {} /\ telling = {} /\ \A i \in Ids : saving[i] = Done
    BY DEF Refresh, Races
<1>2. Fetch(1, FALSE, filter)
    BY DEF Refresh
<1>3. PICK s \in Slots : Outstanding' = {s} /\ req'[s] = Ask(1, FALSE, filter)
    <2>1. PageTypeOK
        BY DEF ListInv, HistoryTypeOK
    <2> QED BY <1>1, <1>2, <2>1, FetchAlone
<1>4. Unsaved' = {} /\ telling' = {}
    BY <1>1 DEF Unsaved
<1>5. SavedOpen'
    BY <1>4 DEF SavedOpen
<1>6. view'.filter = filter
    BY DEF Refresh, ListInv, HistoryTypeOK, PageTypeOK, View
<1>7. req'[s].filter = filter /\ req'[s].page = 1 /\ ~req'[s].append /\ req'[s].rows = None
    BY <1>3 DEF Ask
<1>8. RequestsFresh'
    BY <1>3, <1>4, <1>6, <1>7 DEF RequestsFresh
<1>9. ~Listening'
    BY <1>3, <1>7 DEF Listening
<1> QED BY <1>5, <1>8, <1>9

\* A new row is one of those not saved, until it is broadcast.
LEMMA CurrentRecord ==
    ASSUME ListInv, CapInv, Current, NEW l \in Lines, Record(l)
    PROVE  Current'
<1> SUFFICES ASSUME ~raced'
             PROVE  SavedOpen' /\ RequestsFresh' /\ (Listening' => Typed' /\ Loaded' /\ ShownKnown')
    BY DEF Current
<1> DEFINE new == recorded + 1
           f == view.filter
<1>0. TableTypeOK
    BY DEF ListInv, HistoryTypeOK
<1>1. /\ new \in Ids /\ recorded' = new /\ recorded \in Nat /\ new = recorded + 1
      /\ row' = [row EXCEPT ![new] = [line |-> l, type |-> "INCOMING"]]
      /\ saving' = [saving EXCEPT ![new] = [at |-> "count", ids |-> {}, excess |-> 0]]
      /\ ~raced /\ Outstanding = {}
      /\ UNCHANGED <<telling, sock, view, req>> /\ \A i \in Ids \ {new} : call'[i] = call[i]
    <2>1. recorded \in Nat
        BY <1>0, HistoryAssumption DEF TableTypeOK
    <2>2. ~raced /\ Outstanding = {}
        BY DEF Record
    <2>3. \E c : call' = [call EXCEPT ![new] = c]
        BY DEF Record
    <2>4. \A i \in Ids \ {new} : call'[i] = call[i]
        BY <1>0, <2>3 DEF TableTypeOK
    <2> QED BY <2>1, <2>2, <2>4 DEF Record
<1> HIDE DEF new
<1>2. row'[new].type = "INCOMING" /\ \A i \in Ids \ {new} : row'[i] = row[i]
    BY <1>0, <1>1 DEF TableTypeOK
<1>3. Present \subseteq Present' /\ Present' \subseteq Present \cup {new} /\ Present' \subseteq Ids
    <2>1. [line |-> l, type |-> "INCOMING"] # None
        BY HistoryAssumption DEF Row
    <2> QED BY <1>0, <1>1, <2>1 DEF Present, TableTypeOK
<1>4. new \in Unsaved' /\ Unsaved \subseteq Unsaved' /\ Unsaved' \subseteq Unsaved \cup {new}
    <2>1. saving'[new].at = "count" /\ \A i \in Ids \ {new} : saving'[i] = saving[i]
        BY <1>0, <1>1 DEF TableTypeOK
    <2> QED BY <1>1, <2>1 DEF Unsaved, Done
<1>5. Outstanding' = {}
    BY <1>1 DEF Outstanding
<1>6. SavedOpen'
    BY <1>1, <1>2, <1>3, <1>4 DEF Current, SavedOpen, Unsaved
<1>7. RequestsFresh'
    BY <1>5 DEF RequestsFresh
<1>8. ASSUME Listening' PROVE Typed' /\ Loaded' /\ ShownKnown'
    <2>1. Typed /\ Loaded /\ ShownKnown
        BY <1>1, <1>8 DEF Current, Listening
    <2>2. new \notin Shown(view.list)
        BY <1>1, <2>1 DEF ShownKnown
    <2>3. Typed'
        <3> SUFFICES ASSUME NEW k \in DOMAIN view.list, view.list[k].id \in Present',
                            Alone(view.list[k].id)'
                     PROVE  \/ view.list[k].type = row'[view.list[k].id].type
                            \/ [id |-> view.list[k].id, type |-> row'[view.list[k].id].type] \in telling
            BY <1>1 DEF Typed
        <3>1. view.list[k].id # new
            BY <2>2 DEF Shown
        <3>2. view.list[k].id \in Present /\ row'[view.list[k].id] = row[view.list[k].id]
            BY <1>2, <1>3, <3>1
        <3>3. Alone(view.list[k].id)
            <4> SUFFICES ASSUME NEW j \in 1..recorded, call[j] = call[view.list[k].id]
                         PROVE  j = view.list[k].id
                BY DEF Alone
            <4>1. j \in Ids /\ j # new /\ j \in 1..recorded' /\ view.list[k].id \in Ids
                BY <1>0, <1>1, <3>2, HistoryAssumption DEF Ids, Present, TableTypeOK
            <4>2. call'[j] = call'[view.list[k].id] /\ view'.list[k] = view.list[k]
                BY <1>1, <3>1, <4>1
            <4> QED BY <1>1, <4>1, <4>2 DEF Alone
        <3> QED BY <2>1, <3>2, <3>3 DEF Typed
    <2>4. ShownKnown'
        <3>1. \A i \in Ids \cup Failed : i \in Int
            BY HistoryAssumption DEF Ids, Failed
        <3>2. \A k \in DOMAIN view.list : view.list[k] \in Entries
            BY DEF ListInv, HistoryTypeOK, PageTypeOK, View
        <3>3. \A i \in Shown(view.list) : i \in Int
            BY <3>1, <3>2 DEF Shown, Entries
        <3>4. view'.list = view.list /\ recorded' = recorded + 1 /\ recorded \in Int
            BY <1>0, <1>1, HistoryAssumption DEF TableTypeOK
        <3>5. \A i \in Shown(view.list) : i <= recorded + 1
            BY <2>1, <3>3, <3>4 DEF ShownKnown
        <3> QED BY <3>4, <3>5 DEF ShownKnown, Shown
    <2>5. Loaded'
        <3> SUFFICES ASSUME NEW i \in Matches(f)' \ Unsaved',
                            ~view.hasMore \/ Cardinality(Newer(Matches(f)', i)) < view.page * PageSize
                     PROVE  i \in Shown(view.list)
            BY <1>1 DEF Loaded, Newer, Shown
        <3>0. /\ Matches(f)' = {j \in Present' : f = None \/ row'[j].line = f}
              /\ Matches(f) = {j \in Present : f = None \/ row[j].line = f}
            BY <1>1 DEF Matches
        <3> HIDE DEF f
        <3>1. Matches(f) \subseteq Matches(f)'
            <4>1. \A j \in Present : j # new
                BY <1>1 DEF CapInv, Known
            <4> QED BY <1>2, <1>3, <3>0, <4>1, PresentFinite
        <3>2. i \in Matches(f) \ Unsaved
            BY <1>2, <1>3, <1>4, <3>0
        <3>3. Newer(Matches(f), i) \in SUBSET Newer(Matches(f)', i)
            BY <3>1 DEF Newer
        <3>4. IsFiniteSet(Matches(f)') /\ IsFiniteSet(Matches(f))
            <4>1. IsFiniteSet(Ids)
                BY HistoryAssumption, FS_Interval DEF Ids
            <4>2. Matches(f)' \in SUBSET Ids
                BY <1>3, <3>0
            <4> QED BY <4>1, <4>2, FS_Subset, PresentFinite
        <3>5. /\ Cardinality(Newer(Matches(f), i)) <= Cardinality(Newer(Matches(f)', i))
              /\ Cardinality(Newer(Matches(f), i)) \in Nat
              /\ Cardinality(Newer(Matches(f)', i)) \in Nat
            <4>1. IsFiniteSet(Newer(Matches(f)', i)) /\ IsFiniteSet(Newer(Matches(f), i))
                BY <3>4, FS_Subset DEF Newer
            <4> QED BY <3>3, <4>1, FS_Subset, FS_CardinalityType
        <3>6. view.page * PageSize \in Int
            BY HistoryAssumption DEF ListInv, HistoryTypeOK, PageTypeOK, View
        <3>7. ~view.hasMore \/ Cardinality(Newer(Matches(f), i)) < view.page * PageSize
            BY <3>5, <3>6
        <3> QED BY <2>1, <3>2, <3>7 DEF Loaded, f
    <2> QED BY <2>3, <2>4, <2>5
<1> QED BY <1>6, <1>7, <1>8

\* Counting and selecting change nothing that is shown.
LEMMA CurrentCap ==
    ASSUME ListInv, Current, NEW i \in Ids, CapCount(i) \/ CapSelect(i)
    PROVE  Current'
<1>0. TableTypeOK
    BY DEF ListInv, HistoryTypeOK
<1>1. UNCHANGED <<row, call, recorded, telling, sock, view, req, raced>> /\ i \in Unsaved
    BY <1>0, SaverUnsaved DEF CapCount, CapSelect
<1>2. Unsaved' = Unsaved
    <2>1. saving'[i].at # "done" /\ \A j \in Ids \ {i} : saving'[j] = saving[j]
        BY <1>0, <1>1, SaverUnsaved DEF CapCount, CapSelect, TableTypeOK, Saver
    <2> QED BY <1>1, <2>1 DEF Unsaved, Done
<1>3. UNCHANGED <<Present, Outstanding>> /\ \A f : Matches(f)' = Matches(f)
    BY <1>1 DEF Present, Outstanding, Matches
<1>4. SavedOpen' = SavedOpen /\ Typed' = Typed /\ ShownKnown' = ShownKnown /\ Listening' = Listening
    BY <1>1, <1>2, <1>3 DEF SavedOpen, Typed, Alone, ShownKnown, Listening, Shown
<1>5. Loaded' = Loaded
    BY <1>1, <1>2, <1>3 DEF Loaded, Newer, Shown
<1>6. RequestsFresh => RequestsFresh'
    BY <1>1, <1>2, <1>3 DEF RequestsFresh
<1> QED BY <1>1, <1>4, <1>5, <1>6 DEF Current

\* What is deleted are the oldest rows: the place of those that stay is the same.
LEMMA CurrentDelete ==
    ASSUME ListInv, CapInv, Current, NEW i \in Ids, CapDelete(i)
    PROVE  Current'
<1> SUFFICES ASSUME ~raced'
             PROVE  SavedOpen' /\ RequestsFresh' /\ (Listening' => Typed' /\ Loaded' /\ ShownKnown')
    BY DEF Current
<1> DEFINE gone == saving[i].ids
           f == view.filter
<1>0. TableTypeOK
    BY DEF ListInv, HistoryTypeOK
<1>1. /\ row' = [j \in Ids |-> IF j \in gone THEN None ELSE row[j]]
      /\ ~raced /\ Outstanding = {} /\ i \in Unsaved /\ saving[i].at = "delete"
      /\ UNCHANGED <<telling, sock, view, req, call, recorded>>
    BY <1>0, SaverUnsaved DEF CapDelete
<1>2. Unsaved' = Unsaved
    <2>1. saving'[i].at = "tell" /\ \A j \in Ids \ {i} : saving'[j] = saving[j]
        BY <1>0, <1>1, SaverUnsaved DEF CapDelete, TableTypeOK, Saver
    <2> QED BY <1>1, <2>1 DEF Unsaved, Done
<1>3. Outstanding' = {}
    BY <1>1 DEF Outstanding
<1>4. \A j \in Present' : j \in Present /\ row'[j] = row[j] /\ j \notin gone
    BY <1>1 DEF Present
<1>5. SavedOpen' /\ RequestsFresh'
    BY <1>1, <1>2, <1>3, <1>4 DEF Current, SavedOpen, RequestsFresh
<1>6. Listening' => Listening
    BY <1>1 DEF Listening
<1>7. ASSUME Listening PROVE Typed' /\ Loaded' /\ ShownKnown'
    <2>1. Typed /\ Loaded /\ ShownKnown
        BY <1>1, <1>7 DEF Current
    <2>2. Typed'
        BY <1>1, <1>4, <2>1 DEF Typed, Alone
    <2>3. ShownKnown'
        BY <1>1, <2>1 DEF ShownKnown, Shown
    <2>4. Loaded'
        <3> SUFFICES ASSUME NEW j \in Matches(f)' \ Unsaved,
                            ~view.hasMore \/ Cardinality(Newer(Matches(f)', j)) < view.page * PageSize
                     PROVE  j \in Shown(view.list)
            BY <1>1, <1>2 DEF Loaded, Newer, Shown
        <3>0. /\ Matches(f)' = {x \in Present' : f = None \/ row'[x].line = f}
              /\ Matches(f) = {x \in Present : f = None \/ row[x].line = f}
            BY <1>1 DEF Matches
        <3> HIDE DEF f
        <3>1. j \in Matches(f) /\ j \in Present'
            BY <1>4, <3>0
        <3>2. \A y \in Matches(f) : y > j => y \in Matches(f)'
            <4> SUFFICES ASSUME NEW y \in Matches(f), y > j PROVE y \in Matches(f)'
                OBVIOUS
            <4>1. y \in Present /\ y \in Nat /\ j \in Nat /\ j \in Present /\ j \notin gone
                BY <1>4, <3>0, <3>1, PresentFinite
            <4>2. y \notin gone
                BY <1>1, <4>1 DEF CapInv, OldestGo
            <4>3. row'[y] = row[y] /\ y \in Present'
                BY <1>1, <4>1, <4>2, PresentFinite DEF Present
            <4> QED BY <3>0, <4>3
        <3>3. Newer(Matches(f)', j) = Newer(Matches(f), j)
            <4>1. Matches(f)' \subseteq Matches(f)
                BY <1>4, <3>0
            <4> QED BY <3>2, <4>1 DEF Newer
        <3> QED BY <2>1, <3>1, <3>3 DEF Loaded, f
    <2> QED BY <2>2, <2>3, <2>4
<1> QED BY <1>5, <1>6, <1>7

\* A broadcast of what the table says.
LEMMA CurrentBroadcast ==
    ASSUME ListInv, CapInv, Current, NEW e \in Entries, Broadcast(e),
           e.id \in Present => e.type = row[e.id].type,
           e.id <= recorded,
           Unsaved' \subseteq Unsaved, Unsaved \subseteq Unsaved' \cup {e.id},
           telling' \subseteq telling, \A x \in telling \ telling' : x.id = e.id,
           UNCHANGED <<row, call, recorded, sock, req>>
    PROVE  Current'
<1> SUFFICES ASSUME ~raced'
             PROVE  SavedOpen' /\ RequestsFresh' /\ (Listening' => Typed' /\ Loaded' /\ ShownKnown')
    BY DEF Current
<1> DEFINE list == view.list
           new == Received(list, e)
<1>1. ~raced /\ Outstanding = {} /\ Outstanding' = {} /\ sock # "opened"
    BY DEF Broadcast, Outstanding
<1>2. UNCHANGED Present /\ \A f : Matches(f)' = Matches(f)
    BY DEF Present, Matches
<1>3. SavedOpen' /\ RequestsFresh'
    BY <1>1, <1>2 DEF Current, SavedOpen, RequestsFresh
<1>4. ASSUME Listening' PROVE Typed' /\ Loaded' /\ ShownKnown'
    <2>1. sock = "up" /\ Listening
        BY <1>1, <1>4 DEF Listening, ListInv, HistoryTypeOK, PageTypeOK
    <2>2. Typed /\ Loaded /\ ShownKnown
        BY <1>1, <2>1 DEF Current
    <2>3. list \in Seq(Entries) /\ Once(list) /\ view \in View
        BY DEF ListInv, HistoryTypeOK, PageTypeOK, View
    <2>4. view' = [view EXCEPT !.list = new]
        BY <2>1 DEF Broadcast
    <2>5. /\ view'.list = new /\ view'.filter = view.filter /\ view'.page = view.page
          /\ view'.hasMore = view.hasMore
        <3> HIDE DEF new
        <3> QED BY <2>3, <2>4 DEF View
    <2>6. /\ Shown(new) = Shown(list) \cup {e.id}
          /\ \A k \in DOMAIN new :
                \/ new[k] = e
                \/ new[k].id # e.id /\ \E j \in DOMAIN list : new[k] = list[j]
        BY <2>3, ReceivedRows
    <2> HIDE DEF new
    <2>7. Typed'
        <3> SUFFICES ASSUME NEW k \in DOMAIN new, new[k].id \in Present, Alone(new[k].id)
                     PROVE  \/ new[k].type = row[new[k].id].type
                            \/ [id |-> new[k].id, type |-> row[new[k].id].type] \in telling'
            BY <1>2, <2>5 DEF Typed, Alone
        <3>1. CASE new[k] = e
            BY <3>1
        <3>2. CASE new[k].id # e.id /\ \E j \in DOMAIN list : new[k] = list[j]
            <4>1. \/ new[k].type = row[new[k].id].type
                  \/ [id |-> new[k].id, type |-> row[new[k].id].type] \in telling
                BY <2>2, <3>2 DEF Typed
            <4> QED BY <3>2, <4>1
        <3> QED BY <2>6, <3>1, <3>2
    <2>8. ShownKnown'
        BY <2>2, <2>5, <2>6 DEF ShownKnown
    <2>9. Loaded'
        <3> SUFFICES ASSUME NEW i \in Matches(view.filter) \ Unsaved',
                            ~view.hasMore \/ Cardinality(Newer(Matches(view.filter), i)) < view.page * PageSize
                     PROVE  i \in Shown(new)
            BY <1>2, <2>5 DEF Loaded, Newer
        <3> QED BY <2>2, <2>6 DEF Loaded
    <2> QED BY <2>7, <2>8, <2>9
<1> QED BY <1>3, <1>4

\* The broadcasts of a recorded row, of one that could not be, and of an update.
LEMMA CurrentTold ==
    ASSUME ListInv, CapInv, CurrentInv,
           \/ \E i \in Ids : RecordTold(i)
           \/ RecordFails
           \/ \E e \in telling : UpdateTold(e)
    PROVE  Current'
<1>0. TableTypeOK
    BY DEF ListInv, HistoryTypeOK
<1>1. ASSUME NEW i \in Ids, RecordTold(i) PROVE Current'
    <2> DEFINE e == [id |-> i, type |-> "INCOMING"]
    <2>1. e \in Entries /\ e.id = i /\ e.type = "INCOMING"
        BY DEF Entries
    <2> HIDE DEF e
    <2>2. Broadcast(e) /\ i \in Unsaved
        BY <1>0, <1>1, SaverUnsaved DEF RecordTold, e
    <2>3. UNCHANGED <<row, call, recorded, sock, req, telling>>
        BY <1>1 DEF RecordTold
    <2>4. Unsaved' \subseteq Unsaved /\ Unsaved \subseteq Unsaved' \cup {i}
        <3>1. \A j \in Ids \ {i} : saving'[j] = saving[j]
            BY <1>0, <1>1 DEF RecordTold, TableTypeOK
        <3> QED BY <2>2, <3>1 DEF Unsaved
    <2>5. i <= recorded
        BY <2>2, HistoryAssumption DEF CapInv, Known
    <2>6. CASE raced
        BY <2>2, <2>6 DEF Broadcast, Current
    <2>7. CASE ~raced
        <3>1. i \in Present => row[i].type = "INCOMING"
            BY <2>2, <2>7 DEF CurrentInv, Current, SavedOpen
        <3> QED BY <2>1, <2>2, <2>3, <2>4, <2>5, <3>1, CurrentBroadcast DEF CurrentInv
    <2> QED BY <2>6, <2>7
<1>2. ASSUME RecordFails PROVE Current'
    <2>0. PICK i \in Failed : Broadcast([id |-> i, type |-> "BLOCKED"])
        BY <1>2 DEF RecordFails
    <2> DEFINE e == [id |-> i, type |-> "BLOCKED"]
    <2>1. e \in Entries /\ e.id <= recorded /\ e.id \notin Present
        <3>1. e \in Entries /\ e.id = i
            BY DEF Entries
        <3>2. i \in Int /\ i < 0
            BY HistoryAssumption DEF Failed
        <3>3. recorded \in Nat
            BY <1>0, HistoryAssumption DEF TableTypeOK
        <3>4. \A j \in Present : j > 0
            BY DEF Present, Ids
        <3> HIDE DEF e
        <3> QED BY <3>1, <3>2, <3>3, <3>4
    <2> HIDE DEF e
    <2>2. Broadcast(e) /\ UNCHANGED <<row, call, recorded, sock, req, telling, saving>>
        BY <1>2, <2>0 DEF RecordFails, e
    <2>3. Unsaved' = Unsaved
        BY <2>2 DEF Unsaved
    <2> QED BY <2>1, <2>2, <2>3, CurrentBroadcast DEF CurrentInv
<1>3. ASSUME NEW e \in telling, UpdateTold(e) PROVE Current'
    <2>1. e \in Entries /\ e.id <= recorded /\ (e.id \in Present => e.type = row[e.id].type)
        BY <1>0 DEF TableTypeOK, Entries, CapInv, Known, CurrentInv, UpdatesRight
    <2>2. Broadcast(e) /\ telling' = telling \ {e} /\ UNCHANGED <<row, call, recorded, sock, req, saving>>
        BY <1>3 DEF UpdateTold
    <2>3. Unsaved' = Unsaved
        BY <2>2 DEF Unsaved
    <2> QED BY <2>1, <2>2, <2>3, CurrentBroadcast DEF CurrentInv
<1> QED BY <1>1, <1>2, <1>3

\* An update is to be broadcast, and shown meanwhile as the row was.
LEMMA CurrentUpdate ==
    ASSUME ListInv, CapInv, Current, NEW c \in Ids, Update(c)
    PROVE  Current'
<1> SUFFICES ASSUME ~raced'
             PROVE  SavedOpen' /\ RequestsFresh' /\ (Listening' => Typed' /\ Loaded' /\ ShownKnown')
    BY DEF Current
<1>0. TableTypeOK
    BY DEF ListInv, HistoryTypeOK
<1>1. /\ ~raced /\ Outstanding = {} /\ \A i \in Open(c) : saving[i] = Done
      /\ UNCHANGED <<call, recorded, saving, sock, view, req>>
    BY DEF Update
<1>2. /\ Present' = Present /\ Open(c) \subseteq Present
      /\ \A i \in Open(c) : row'[i].type = "MISSED"
      /\ \A f : Matches(f)' = Matches(f)
      /\ \A j \in Ids \ Open(c) : row'[j] = row[j]
    BY <1>0, UpdateKeepsRows
<1>3. Unsaved' = Unsaved /\ (\A i \in Open(c) : i \notin Unsaved) /\ Outstanding' = {}
    BY <1>1 DEF Unsaved, Outstanding
<1>4. PICK told \in Open(c) : telling' = telling \cup {[id |-> told, type |-> "MISSED"]}
    BY DEF Update
<1>5. SavedOpen' /\ RequestsFresh'
    BY <1>1, <1>2, <1>3 DEF Current, SavedOpen, RequestsFresh, Unsaved
<1>6. ASSUME Listening' PROVE Typed' /\ Loaded' /\ ShownKnown'
    <2>1. Typed /\ Loaded /\ ShownKnown
        BY <1>1, <1>6 DEF Current, Listening
    <2>2. Typed'
        <3> SUFFICES ASSUME NEW k \in DOMAIN view.list, view.list[k].id \in Present,
                            Alone(view.list[k].id)
                     PROVE  \/ view.list[k].type = row'[view.list[k].id].type
                            \/ [id |-> view.list[k].id, type |-> row'[view.list[k].id].type] \in telling'
            BY <1>1, <1>2 DEF Typed, Alone
        <3>1. CASE view.list[k].id \in Open(c)
            <4>1. told \in 1..recorded /\ call[told] = call[view.list[k].id]
                BY <1>2, <3>1 DEF CapInv, Known, Open
            <4>2. view.list[k].id = told
                BY <4>1 DEF Alone
            <4> QED BY <1>2, <1>4, <4>2
        <3>2. CASE view.list[k].id \notin Open(c)
            <4>1. row'[view.list[k].id] = row[view.list[k].id]
                BY <1>2, <3>2, PresentFinite
            <4> QED BY <1>4, <2>1, <4>1 DEF Typed
        <3> QED BY <3>1, <3>2
    <2>3. Loaded' /\ ShownKnown'
        BY <1>1, <1>2, <1>3, <2>1 DEF Loaded, ShownKnown, Newer, Shown
    <2> QED BY <2>2, <2>3
<1> QED BY <1>5, <1>6

\* A request is answered with the table as it is.
LEMMA CurrentRead ==
    ASSUME ListInv, Current, NEW s \in Slots, Read(s)
    PROVE  Current'
<1>1. /\ UNCHANGED <<row, call, recorded, saving, telling, sock, view, raced>>
      /\ req' = [req EXCEPT ![s].rows = PageOf(req[s]),
                            ![s].total = Cardinality(Matches(req[s].filter))]
      /\ req[s] \in Request
    BY DEF Read, ListInv, HistoryTypeOK, PageTypeOK
<1>2. /\ \A t \in Slots \ {s} : req'[t] = req[t]
      /\ req'[s].at = req[s].at /\ req'[s].append = req[s].append
      /\ req'[s].page = req[s].page /\ req'[s].filter = req[s].filter
      /\ req'[s].rows = PageOf(req[s]) /\ req'[s].total = Cardinality(Matches(req[s].filter))
    BY <1>1 DEF ListInv, HistoryTypeOK, PageTypeOK, Request
<1>3. Outstanding' = Outstanding
    <2>1. req'[s].at = "sent" /\ req[s].at = "sent" /\ Idle.at = "idle"
        BY <1>1, <1>2 DEF Request, Idle
    <2>2. req'[s] # Idle /\ req[s] # Idle
        BY <2>1
    <2> QED BY <1>2, <2>2 DEF Outstanding
<1>4. UNCHANGED <<Present, Unsaved>> /\ \A f : Matches(f)' = Matches(f)
    BY <1>1 DEF Present, Matches, Unsaved
<1>5. \A t \in Slots : PageOf(req[t])' = PageOf(req[t])
    <2> SUFFICES ASSUME NEW t \in Slots PROVE PageOf(req[t])' = PageOf(req[t])
        OBVIOUS
    <2>1. req'[t].filter = req[t].filter /\ req'[t].page = req[t].page
        BY <1>2
    <2>2. Matches(req[t].filter)' = Matches(req[t].filter)
        BY <1>1, <2>1 DEF Matches, Present
    <2> QED BY <1>1, <2>1, <2>2 DEF PageOf, Entry, Nth, Newer
<1>6. SavedOpen' = SavedOpen /\ Typed' = Typed /\ ShownKnown' = ShownKnown
    BY <1>1, <1>4 DEF SavedOpen, Typed, Alone, ShownKnown, Shown
<1>7. Loaded' = Loaded
    BY <1>1, <1>4 DEF Loaded, Newer, Shown, Matches
<1>8. \A t \in Slots : req'[t].append = req[t].append
    BY <1>2
<1>9. Listening' = Listening
    BY <1>1, <1>3, <1>8 DEF Listening, Outstanding
<1>10. RequestsFresh => RequestsFresh'
    <2> SUFFICES ASSUME RequestsFresh PROVE RequestsFresh'
        OBVIOUS
    <2>1. s \in Outstanding
        BY DEF Read, Outstanding
    <2>2. /\ telling = {} /\ Unsaved = {} /\ \A t \in Outstanding : t = s
          /\ req[s].filter = view.filter
          /\ req[s].page = IF req[s].append THEN view.page + 1 ELSE 1
        BY <2>1 DEF RequestsFresh
    <2>3. telling' = {} /\ Unsaved' = {} /\ \A t \in Outstanding' : t = s
        BY <1>1, <1>3, <1>4, <2>2
    <2>4. /\ req'[s].filter = view'.filter
          /\ req'[s].page = IF req'[s].append THEN view'.page + 1 ELSE 1
        BY <1>1, <1>2, <2>2
    <2>5. req'[s].rows = PageOf(req[s])'
        BY <1>2, <1>5
    <2>6. Matches(view.filter)' = Matches(req[s].filter)
        BY <1>1, <2>2 DEF Matches, Present
    <2>7. req'[s].total = Cardinality(Matches(view.filter)')
        BY <1>2, <2>6
    <2>8. \A t \in Outstanding' :
            /\ telling' = {} /\ Unsaved' = {} /\ \A x \in Outstanding' : x = t
            /\ req'[t].filter = view'.filter
            /\ req'[t].page = IF req'[t].append THEN view'.page + 1 ELSE 1
            /\ req'[t].rows # None => /\ req'[t].rows = PageOf(req[t])'
                                      /\ req'[t].total = Cardinality(Matches(view.filter)')
        <3> SUFFICES ASSUME NEW t \in Outstanding'
                     PROVE  /\ telling' = {} /\ Unsaved' = {} /\ \A x \in Outstanding' : x = t
                            /\ req'[t].filter = view'.filter
                            /\ req'[t].page = IF req'[t].append THEN view'.page + 1 ELSE 1
                            /\ req'[t].rows # None => /\ req'[t].rows = PageOf(req[t])'
                                                      /\ req'[t].total = Cardinality(Matches(view.filter)')
            OBVIOUS
        <3>1. t = s
            BY <2>3
        <3> QED BY <2>3, <2>4, <2>5, <2>7, <3>1
    <2> QED BY <2>8 DEF RequestsFresh
<1> QED BY <1>1, <1>6, <1>7, <1>9, <1>10 DEF Current

\* An answer is applied to the list it was asked for.
LEMMA CurrentRespond ==
    ASSUME ListInv, CapInv, Current, NEW s \in Slots, Respond(s)
    PROVE  Current'
<1> SUFFICES ASSUME ~raced'
             PROVE  SavedOpen' /\ RequestsFresh' /\ (Listening' => Typed' /\ Loaded' /\ ShownKnown')
    BY DEF Current
<1> DEFINE r == req[s]
           f == view.filter
           list == view.list
<1>0. TableTypeOK /\ PageTypeOK
    BY DEF ListInv, HistoryTypeOK
<1>1. /\ ~raced /\ s \in Outstanding /\ r \in Request /\ r.rows # None
      /\ req' = [req EXCEPT ![s] = Idle]
      /\ UNCHANGED <<row, call, recorded, saving, telling, sock>>
    BY <1>0 DEF Respond, Outstanding, PageTypeOK
<1>2. RequestsFresh /\ SavedOpen
    BY <1>1 DEF Current
<1>3. /\ telling = {} /\ Unsaved = {} /\ \A t \in Outstanding : t = s
      /\ r.filter = f /\ r.page = (IF r.append THEN view.page + 1 ELSE 1)
      /\ r.rows = PageOf(r) /\ r.total = Cardinality(Matches(f))
    BY <1>1, <1>2 DEF RequestsFresh
<1>4. /\ view'.list = (IF r.append THEN Appended(list, r.rows) ELSE r.rows)
      /\ view'.page = r.page /\ view'.filter = f
      /\ view'.hasMore = (r.page * PageSize < r.total)
    BY <1>0 DEF Respond, PageTypeOK, View
<1>5. Outstanding' = {}
    BY <1>0, <1>1, <1>3 DEF Outstanding, PageTypeOK
<1>6. Present' = Present /\ Unsaved' = {} /\ Matches(f)' = {i \in Present : f' = None \/ row[i].line = f'}
    BY <1>1, <1>3 DEF Present, Unsaved, Matches
<1>7. f' = f /\ Matches(view.filter)' = Matches(view.filter)
    BY <1>1, <1>4, <1>6 DEF Matches
<1>8. SavedOpen' /\ RequestsFresh'
    BY <1>5, <1>6 DEF SavedOpen, RequestsFresh
<1>9. ASSUME Listening' PROVE Typed' /\ Loaded' /\ ShownKnown'
    <2> DEFINE all == Matches(f)
               place(i) == Cardinality(Newer(all, i))
    <2>1. r.append => Typed /\ Loaded /\ ShownKnown
        BY <1>1, <1>3, <1>9 DEF Current, Listening
    <2>2. list \in Seq(Entries) /\ Once(list) /\ r.rows \in Seq(Entries) /\ Once(r.rows)
        BY <1>1, <1>0 DEF ListInv, AnswersOnce, PageTypeOK, View, Outstanding, Request
    <2>3. /\ \A k \in DOMAIN r.rows : r.rows[k].id \in all /\ r.rows[k].type = row[r.rows[k].id].type
          /\ \A i \in all : (r.page - 1) * PageSize <= place(i) /\ place(i) < r.page * PageSize
                  => i \in Shown(r.rows)
          /\ Cardinality(all) \in Nat
          /\ \A i \in all : place(i) \in 0..(Cardinality(all) - 1)
        BY <1>0, <1>1, <1>3, PageCovers
    <2>4. /\ Shown(view'.list) = (IF r.append THEN Shown(list) \cup Shown(r.rows) ELSE Shown(r.rows))
          /\ \A k \in DOMAIN view'.list :
                \/ r.append /\ \E j \in DOMAIN list : view'.list[k] = list[j]
                \/ \E j \in DOMAIN r.rows : view'.list[k] = r.rows[j]
        <3>1. CASE r.append
            BY <1>4, <2>2, <3>1, AppendedRows
        <3>2. CASE ~r.append
            BY <1>4, <3>2
        <3> QED BY <3>1, <3>2
    <2>5. \A i \in Shown(r.rows) : i <= recorded
        <3>1. \A i \in all : i \in Present
            BY DEF Matches
        <3>2. \A i \in Present : i <= recorded
            BY <1>0, HistoryAssumption DEF CapInv, Known, TableTypeOK
        <3> QED BY <2>3, <3>1, <3>2 DEF Shown
    <2>6. ShownKnown'
        BY <1>1, <2>1, <2>4, <2>5 DEF ShownKnown
    <2>7. Typed'
        <3> SUFFICES ASSUME NEW k \in DOMAIN view'.list, view'.list[k].id \in Present,
                            Alone(view'.list[k].id)
                     PROVE  view'.list[k].type = row[view'.list[k].id].type
            BY <1>1, <1>3, <1>6 DEF Typed, Alone
        <3>1. CASE \E j \in DOMAIN r.rows : view'.list[k] = r.rows[j]
            BY <2>3, <3>1
        <3>2. CASE r.append /\ \E j \in DOMAIN list : view'.list[k] = list[j]
            BY <1>3, <2>1, <3>2 DEF Typed
        <3> QED BY <2>4, <3>1, <3>2
    <2>8. Loaded'
        <3> SUFFICES ASSUME NEW i \in all,
                            ~(r.page * PageSize < r.total) \/ place(i) < r.page * PageSize
                     PROVE  i \in Shown(view'.list)
            BY <1>4, <1>6, <1>7 DEF Loaded, Newer
        <3>1. place(i) \in Nat /\ place(i) < Cardinality(all) /\ Cardinality(all) \in Nat
            BY <2>3
        <3>2. r.page * PageSize \in Nat /\ (r.page - 1) * PageSize \in Nat
            BY <1>1, HistoryAssumption DEF Request
        <3>3. place(i) < r.page * PageSize
            BY <1>3, <3>1, <3>2
        <3>4. CASE (r.page - 1) * PageSize <= place(i)
            BY <2>3, <2>4, <3>3, <3>4
        <3>5. CASE ~((r.page - 1) * PageSize <= place(i))
            <4>1. r.append
                <5> SUFFICES ASSUME ~r.append PROVE FALSE
                    OBVIOUS
                <5>1. r.page - 1 = 0
                    BY <1>3
                <5>2. (r.page - 1) * PageSize = 0
                    BY <5>1, HistoryAssumption
                <5> QED BY <3>1, <3>5, <5>2
            <4>2. r.page - 1 = view.page
                BY <1>0, <1>3, <4>1 DEF PageTypeOK, View
            <4>3. place(i) < view.page * PageSize
                BY <3>1, <3>2, <3>5, <4>2
            <4>4. i \in Shown(list)
                BY <1>3, <2>1, <4>1, <4>3 DEF Loaded
            <4> QED BY <2>4, <4>1, <4>4
        <3> QED BY <3>4, <3>5
    <2> QED BY <2>6, <2>7, <2>8
<1> QED BY <1>8, <1>9

\* A request that fails leaves the list; if it was to replace it, changes were missed.
LEMMA CurrentFails ==
    ASSUME ListInv, Current, NEW s \in Slots, ResponseFails(s)
    PROVE  Current'
<1> SUFFICES ASSUME ~raced'
             PROVE  SavedOpen' /\ RequestsFresh' /\ (Listening' => Typed' /\ Loaded' /\ ShownKnown')
    BY DEF Current
<1>0. PageTypeOK
    BY DEF ListInv, HistoryTypeOK
<1>1. /\ ~raced /\ req[s].append /\ s \in Outstanding
      /\ req' = [req EXCEPT ![s] = Idle]
      /\ UNCHANGED <<row, call, recorded, saving, telling, sock>>
    BY DEF ResponseFails, Outstanding
<1>2. RequestsFresh /\ SavedOpen
    BY <1>1 DEF Current
<1>3. \A t \in Outstanding : t = s
    BY <1>1, <1>2 DEF RequestsFresh
<1>4. Outstanding' = {}
    BY <1>0, <1>1, <1>3 DEF Outstanding, PageTypeOK
<1>5. /\ view'.list = view.list /\ view'.filter = view.filter
      /\ view'.page = view.page /\ view'.hasMore = view.hasMore
    BY <1>0 DEF ResponseFails, PageTypeOK, View
<1>6. Present' = Present /\ Unsaved' = Unsaved /\ Matches(view.filter)' = Matches(view.filter)
    BY <1>1, <1>5 DEF Present, Unsaved, Matches
<1>7. SavedOpen' /\ RequestsFresh'
    BY <1>1, <1>2, <1>4, <1>6 DEF SavedOpen, RequestsFresh
<1>8. ASSUME Listening' PROVE Typed' /\ Loaded' /\ ShownKnown'
    <2>1. Typed /\ Loaded /\ ShownKnown
        BY <1>1, <1>3, <1>8 DEF Current, Listening
    <2> QED BY <1>1, <1>5, <1>6, <2>1 DEF Typed, Alone, Loaded, ShownKnown, Shown, Newer
<1> QED BY <1>7, <1>8

\* The next page is asked for below what is loaded.
LEMMA CurrentMore ==
    ASSUME ListInv, Current, LoadMore
    PROVE  Current'
<1> SUFFICES ASSUME ~raced'
             PROVE  SavedOpen' /\ RequestsFresh' /\ (Listening' => Typed' /\ Loaded' /\ ShownKnown')
    BY DEF Current
<1>0. PageTypeOK
    BY DEF ListInv, HistoryTypeOK
<1>1. /\ ~raced /\ Outstanding = {} /\ telling = {} /\ \A i \in Ids : saving[i] = Done
      /\ UNCHANGED <<row, call, recorded, saving, telling, sock>>
    BY DEF LoadMore, Races
<1>2. Fetch(view.page + 1, TRUE, view.filter)
    BY DEF LoadMore
<1>3. PICK s \in Slots : Outstanding' = {s} /\ req'[s] = Ask(view.page + 1, TRUE, view.filter)
    <2> DEFINE page == view.page + 1
               filter == view.filter
    <2>1. Fetch(page, TRUE, filter)
        BY <1>2
    <2> HIDE DEF page, filter
    <2>2. \E s \in Slots : Outstanding' = {s} /\ req'[s] = Ask(page, TRUE, filter)
        BY <1>0, <1>1, <2>1, FetchAlone
    <2> QED BY <2>2 DEF page, filter
<1>4. /\ view'.list = view.list /\ view'.filter = view.filter
      /\ view'.page = view.page /\ view'.hasMore = view.hasMore
    BY <1>0 DEF LoadMore, PageTypeOK, View
<1>5. Unsaved = {} /\ Unsaved' = {} /\ telling' = {} /\ Present' = Present
    BY <1>1 DEF Unsaved, Present
<1>6. Matches(view.filter)' = Matches(view.filter)
    BY <1>1, <1>4 DEF Matches, Present
<1>7. /\ req'[s].filter = view.filter /\ req'[s].page = view.page + 1
      /\ req'[s].append /\ req'[s].rows = None
    BY <1>3 DEF Ask
<1>8. SavedOpen' /\ RequestsFresh'
    BY <1>3, <1>4, <1>5, <1>7 DEF SavedOpen, RequestsFresh
<1>9. ASSUME Listening' PROVE Typed' /\ Loaded' /\ ShownKnown'
    <2>1. Typed /\ Loaded /\ ShownKnown
        BY <1>1, <1>9 DEF Current, Listening
    <2> QED BY <1>1, <1>4, <1>5, <1>6, <2>1 DEF Typed, Alone, Loaded, ShownKnown, Shown, Newer
<1> QED BY <1>8, <1>9

\* The first page is asked for with nothing to be broadcast.
LEMMA CurrentInit == Init => CurrentInv
<1> SUFFICES ASSUME Init PROVE CurrentInv
    OBVIOUS
<1>1. telling = {} /\ Unsaved = {} /\ view.filter = None
    BY DEF Init, Unsaved
<1>2. PICK s \in Slots : req = [x \in Slots |-> IF x = s THEN Ask(1, FALSE, None) ELSE Idle]
    BY DEF Init
<1>3. /\ req[s].filter = None /\ req[s].page = 1 /\ ~req[s].append /\ req[s].rows = None
      /\ req[s] # Idle /\ \A t \in Slots \ {s} : req[t] = Idle
    BY <1>2 DEF Ask, Idle
<1>4. Outstanding = {s}
    BY <1>3 DEF Outstanding
<1>5. RequestsFresh /\ ~Listening
    BY <1>1, <1>3, <1>4 DEF RequestsFresh, Listening
<1>6. UpdatesRight /\ SavedOpen
    BY <1>1 DEF UpdatesRight, SavedOpen
<1> QED BY <1>5, <1>6 DEF CurrentInv, Current

\* Every step keeps what the list rests on.
LEMMA CurrentNext ==
    ASSUME ListInv, CapInv, CurrentInv, [Next]_vars PROVE CurrentInv'
<1>0. UpdatesRight'
    BY UpdatesNext DEF ListInv, HistoryTypeOK, CurrentInv
<1>1. CASE UNCHANGED vars
    <2>1. UNCHANGED <<Present, Unsaved, Outstanding>> /\ \A f : Matches(f)' = Matches(f)
        BY <1>1 DEF vars, Present, Unsaved, Outstanding, Matches
    <2>2. SavedOpen' = SavedOpen /\ Typed' = Typed /\ ShownKnown' = ShownKnown /\ Listening' = Listening
        BY <1>1, <2>1 DEF vars, SavedOpen, Typed, Alone, ShownKnown, Shown, Listening
    <2>3. Loaded' = Loaded
        BY <1>1, <2>1 DEF vars, Loaded, Newer, Shown, Matches, Present
    <2>4. RequestsFresh' = RequestsFresh
        BY <1>1 DEF vars, RequestsFresh, Outstanding, Unsaved, PageOf, Entry, Nth, Newer, Matches, Present
    <2> QED BY <1>0, <1>1, <2>2, <2>3, <2>4 DEF vars, CurrentInv, Current
<1>2. CASE Service
    <2>0. Current
        BY DEF CurrentInv
    <2>1. ASSUME NEW l \in Lines, Record(l) PROVE Current'
        BY <2>0, <2>1, CurrentRecord
    <2>2. ASSUME NEW i \in Ids, CapCount(i) \/ CapSelect(i) PROVE Current'
        BY <2>0, <2>2, CurrentCap
    <2>3. ASSUME NEW i \in Ids, CapDelete(i) PROVE Current'
        BY <2>0, <2>3, CurrentDelete
    <2>4. ASSUME (\E i \in Ids : RecordTold(i)) \/ RecordFails \/ \E e \in telling : UpdateTold(e)
          PROVE  Current'
        BY <2>4, CurrentTold
    <2>5. ASSUME NEW c \in Ids, Update(c) PROVE Current'
        BY <2>0, <2>5, CurrentUpdate
    <2>6. ASSUME NEW i \in Ids, CapRejects(i) PROVE Current'
        BY <2>6 DEF CapRejects, Current
    <2>7. Current'
        BY <1>2, <2>1, <2>2, <2>3, <2>4, <2>5, <2>6 DEF Service
    <2> QED BY <1>0, <2>7 DEF CurrentInv
<1>3. CASE Page
    <2>0. Current
        BY DEF CurrentInv
    <2>1. ASSUME NEW s \in Slots, Read(s) PROVE Current'
        BY <2>0, <2>1, CurrentRead
    <2>2. ASSUME NEW s \in Slots, Respond(s) PROVE Current'
        BY <2>0, <2>2, CurrentRespond
    <2>3. ASSUME NEW s \in Slots, ResponseFails(s) PROVE Current'
        BY <2>0, <2>3, CurrentFails
    <2>4. ASSUME LoadMore PROVE Current'
        BY <2>0, <2>4, CurrentMore
    <2>5. ASSUME SocketDown PROVE Current'
        <3>1. /\ sock' = "down" /\ UNCHANGED <<row, recorded, saving, telling, view, req, raced>>
            BY <2>5 DEF SocketDown
        <3>2. ~Listening'
            BY <3>1 DEF Listening
        <3>3. SavedOpen' = SavedOpen
            BY <3>1 DEF SavedOpen, Unsaved, Present
        <3>4. RequestsFresh' = RequestsFresh
            BY <3>1 DEF RequestsFresh, Outstanding, Unsaved, PageOf, Entry, Nth, Newer, Matches, Present
        <3> QED BY <2>0, <3>1, <3>2, <3>3, <3>4 DEF Current
    <2>6. ASSUME NEW f \in Filters, Refresh(f), UNCHANGED <<row, saving, telling>> PROVE Current'
        BY <2>0, <2>6, CurrentRefresh
    <2>7. ASSUME SocketUp PROVE Current'
        <3>1. view.filter \in Filters
            BY DEF ListInv, HistoryTypeOK, PageTypeOK, View
        <3> QED BY <2>6, <2>7, <3>1 DEF SocketUp
    <2>8. ASSUME NEW f \in Lines \cup {None}, FilterChange(f) PROVE Current'
        <3>1. f \in Filters
            BY DEF Filters
        <3> QED BY <2>6, <2>8, <3>1 DEF FilterChange
    <2>9. ASSUME SocketRegistered PROVE Current'
        <3>1. /\ sock = "opened" /\ sock' = "up"
              /\ UNCHANGED <<row, call, recorded, saving, telling, view, req, raced>>
            BY <2>9 DEF SocketRegistered
        <3>2. UNCHANGED <<Present, Unsaved, Outstanding>> /\ \A f : Matches(f)' = Matches(f)
            BY <3>1 DEF Present, Unsaved, Outstanding, Matches
        <3>3. SavedOpen' = SavedOpen /\ Typed' = Typed /\ ShownKnown' = ShownKnown /\ Listening' = Listening
            BY <3>1, <3>2 DEF SavedOpen, Typed, Alone, ShownKnown, Shown, Listening
        <3>4. Loaded' = Loaded
            BY <3>1, <3>2 DEF Loaded, Newer, Shown, Matches, Present
        <3>5. RequestsFresh' = RequestsFresh
            BY <3>1 DEF RequestsFresh, Outstanding, Unsaved, PageOf, Entry, Nth, Newer, Matches, Present
        <3> QED BY <2>0, <3>1, <3>3, <3>4, <3>5 DEF Current
    <2>10. Current'
        BY <1>3, <2>1, <2>2, <2>3, <2>4, <2>5, <2>7, <2>8, <2>9 DEF Page
    <2> QED BY <1>0, <2>10 DEF CurrentInv
<1> QED BY <1>1, <1>2, <1>3 DEF Next

\* What the list rests on holds in every reachable state.
LEMMA CurrentInvariant == Spec => []CurrentInv
    BY ListInvariant, CapInvariant, CurrentInit, CurrentNext, PTL DEF Spec

\* Once things are quiet, and unless changes and requests overlapped or a change
\* was broadcast before the server had registered the page's socket, the list has
\* every row that its pages loaded, each as it is (of a call recorded twice, what
\* it was), whatever broadcasts, shifted
\* pages, filters and reconnects came before (handleRealtimeUpdate, fetchHistory).
THEOREM ListCurrent == Spec => []ListIsCurrent
<1>1. CurrentInv => ListIsCurrent
    <2> SUFFICES ASSUME CurrentInv, Quiet, ~raced, sock # "down" PROVE ListIsCurrent
        BY DEF ListIsCurrent
    <2>1. telling = {} /\ Unsaved = {} /\ Listening
        BY DEF Quiet, Unsaved, Listening
    <2>2. Typed /\ Loaded
        BY <2>1 DEF CurrentInv, Current
    <2>3. \A k \in DOMAIN view.list :
              view.list[k].id \in Present /\ Alone(view.list[k].id) =>
                  view.list[k].type = row[view.list[k].id].type
        BY <2>1, <2>2 DEF Typed
    <2>4. \A i \in Matches(view.filter) :
              ~view.hasMore \/ Cardinality(Newer(Matches(view.filter), i)) < view.page * PageSize
                  => i \in Shown(view.list)
        BY <2>1, <2>2 DEF Loaded
    <2> QED BY <2>3, <2>4 DEF ListIsCurrent
<1> QED BY <1>1, CurrentInvariant, PTL

=============================================================================
