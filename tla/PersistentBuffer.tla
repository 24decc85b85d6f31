-------------------------- MODULE PersistentBuffer --------------------------
(***************************************************************************)
(* buffer.PersistentBuffer of the modem gateway: a keyed FIFO kept in      *)
(* memory and in a file of lines.  An entry stands for its key.  "torn"    *)
(* says that the file ends in a line that was written only in part.        *)
(*                                                                         *)
(* Push and RemoveAll are the sets of possible outcomes: memory is changed *)
(* before the file, and if the disk fails the file is left behind and an   *)
(* error returned.                                                         *)
(***************************************************************************)
EXTENDS SequencesExt

CONSTANT Capacity           \* entries a buffer holds (DefaultCapacity is 1000)

ASSUME BufferAssumption == Capacity \in Nat \ {0}

Buffer(Items) == [mem : Seq(Items), file : Seq(Items), torn : BOOLEAN]

EmptyBuffer == [mem |-> <<>>, file |-> <<>>, torn |-> FALSE]

Outcome(b, ok) == [buf |-> b, ok |-> ok]

\* The new file replaces the old one by a rename, so it is there or it is not.
RewriteFile(b, fails) ==
    {Outcome([b EXCEPT !.file = b.mem, !.torn = FALSE], TRUE)}
    \cup IF fails THEN {Outcome(b, FALSE)} ELSE {}

\* A line appended to a torn one is a part of it, and load skips the whole.
Line(b, x) == IF b.torn THEN <<>> ELSE <<x>>

\* A write fails before the line, within it, or in the final sync.
AppendLine(b, x, fails) ==
    LET written == [b EXCEPT !.file = @ \o Line(b, x), !.torn = FALSE]
        unfinished == {b, [b EXCEPT !.torn = TRUE], written}
    IN  {Outcome(written, TRUE)} \cup IF fails THEN {Outcome(a, FALSE) : a \in unfinished}
                                               ELSE {}

Push(b, x, fails) ==
    IF Contains(b.mem, x) THEN {Outcome(b, TRUE)}
    ELSE IF Len(b.mem) >= Capacity
         THEN RewriteFile([b EXCEPT !.mem = Append(Tail(@), x)], fails)
         ELSE AppendLine([b EXCEPT !.mem = Append(@, x)], x, fails)

\* What is left of s without the entries of T, in its order.
Without(s, T) ==
    LET kept == {k \in DOMAIN s : s[k] \notin T}
        Nth(n) == CHOOSE k \in kept : Cardinality({j \in kept : j < k}) = n - 1
    IN  [n \in 1..Cardinality(kept) |-> s[Nth(n)]]

\* Remove for each key of S, in some order, each with a rewrite of its own that
\* the later ones make up for; a key that is not there costs none.
RemoveAll(b, S, fails) ==
    LET gone == S \cap ToSet(b.mem)
        left == Without(b.mem, gone)
        rewritten(T) == [mem |-> left, file |-> Without(b.mem, T), torn |-> FALSE]
    IN  IF gone = {} THEN {Outcome(b, TRUE)}
        ELSE {Outcome(rewritten(gone), TRUE)}
             \cup IF fails THEN {Outcome([b EXCEPT !.mem = left], FALSE)}
                                \cup {Outcome(rewritten(T), FALSE) : T \in SUBSET gone \ {{}}}
                           ELSE {}

\* What a new process finds: the last Capacity entries of the file.
Load(b) ==
    LET excess == Max({0, Len(b.file) - Capacity})
    IN [b EXCEPT !.mem = SubSeq(b.file, excess + 1, Len(b.file))]
=============================================================================
