------------------------------ MODULE TailCache ------------------------------
(***************************************************************************)
(* The unsealed tail of a read: Buffer.rows_from and the cache behind it   *)
(* (_buffer.py).  A read asks for the buffered rows from `start` up, where *)
(* `start` is the end of the staging table, or 0 while there is none.  The *)
(* rows it returned last time are kept, sliced by COUNT from `start`, and  *)
(* completed with the rows fetched since.                                  *)
(*                                                                         *)
(* Rows are offsets.  What may move under the cache: appends and           *)
(* reservations take offsets above every one issued, eviction removes a    *)
(* range.  The declared schema is written once, at creation, so the       *)
(* discard on a schema change (1052-1056) never comes into play.           *)
(***************************************************************************)
EXTENDS BufferRows

VARIABLE cache    \* _tail, _tail_start, _tail_end and _tail_complete_from

tailVars == <<seq, buffer, cache>>

NoCache == [has |-> FALSE, rows |-> <<>>, start |-> 0, end |-> 0, from |-> 0]

RowsIn(s) == {s[i] : i \in DOMAIN s}
Increasing(s) == \A i, j \in DOMAIN s : i < j => s[i] < s[j]

\* Buffer._rows: a set of rows, in offset order.
Ordered(S) == {s \in [1..Cardinality(S) -> S] : Increasing(s) /\ RowsIn(s) = S}

TailInit == seq = 0 /\ buffer = {} /\ cache = NoCache

\* _reusable slices the cached rows by arithmetic, as though the offsets from
\* _tail_start up had no hole.
Base(start) == IF start >= cache.start THEN start ELSE cache.start
Kept(start) == SubSeq(cache.rows, Base(start) - cache.start + 1, Len(cache.rows))

\* Mutant of Reusable: the slice is not checked.
Mut_ReusableUnchecked(start) ==
    cache.has /\ cache.from <= start /\ start <= cache.end

\* ... and then checks the slice: its first row is the one asked for, and it
\* is empty only if no cached row qualifies.
Reusable(start) ==
    /\ cache.has /\ cache.from <= start /\ start <= cache.end
    /\ IF Kept(start) # <<>> THEN Kept(start)[1] = Base(start) ELSE cache.end <= start

\* What is kept of an answer.  The ends come from its rows, not from `start`.
CacheOf(start, rows) ==
    [has |-> TRUE, rows |-> rows, from |-> start,
     start |-> IF rows = <<>> THEN start ELSE rows[1],
     end |-> IF rows = <<>> THEN start ELSE rows[Len(rows)] + 1]

\* rows_from fetches once: everything, or what is above the cached rows.
Answers(start) ==
    IF Reusable(start)
    THEN {Kept(start) \o fresh : fresh \in Ordered(From(cache.end))}
    ELSE Ordered(From(start))

\* Buffer.rows_from, under _tail_lock: the answer is the table the cache keeps.
RowsFrom(start) ==
    /\ \E rows \in Answers(start) : cache' = CacheOf(start, rows)
    /\ UNCHANGED <<seq, buffer>>

TailNext ==
    \/ \E k \in 1..MaxBatch : (AppendRows(k) \/ Reserve(k)) /\ UNCHANGED cache
    \/ \E a, b \in 1..seq + 1 : EvictRows(a, b) /\ UNCHANGED cache
    \/ \E start \in 0..seq + 1 : RowsFrom(start)

TailSpec == TailInit /\ [][TailNext]_tailVars

-----------------------------------------------------------------------------

TailTypeOK ==
    /\ seq \in Nat /\ buffer \subseteq 1..seq
    /\ cache.has \in BOOLEAN /\ cache.rows \in Seq(1..seq)
    /\ cache.start \in 0..seq + 1 /\ cache.end \in 0..seq + 1 /\ cache.from \in 0..seq + 1

\* Every answer of rows_from is in offset order, repeats nothing, holds
\* nothing below the offset asked for and misses no buffered row from it up,
\* whatever holes ingest and restore reserved and whatever eviction removed
\* since the cache was filled.
TailAnswers ==
    \A start \in 0..seq + 1 : \A rows \in Answers(start) :
        /\ Increasing(rows)
        /\ From(start) \subseteq RowsIn(rows)
        /\ \A o \in RowsIn(rows) : start <= o /\ o <= seq

\* The invariant behind it: the cache is in order, its ends are its rows' or
\* meet, and between where it is complete from and where it ends it misses no
\* buffered row.
CacheSound ==
    cache.has =>
        /\ Increasing(cache.rows)
        /\ cache.rows # <<>> => /\ cache.start = cache.rows[1]
                                /\ cache.end = cache.rows[Len(cache.rows)] + 1
        /\ cache.rows = <<>> => cache.start = cache.end /\ cache.start = cache.from
        /\ \A o \in buffer : cache.from <= o /\ o < cache.end => o \in RowsIn(cache.rows)

=============================================================================
