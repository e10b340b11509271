----------------------------- MODULE BufferRows -----------------------------
(***************************************************************************)
(* The buffer table and the sequence that numbers its rows (_buffer.py,    *)
(* _sqlite.py): what may happen to the offsets in it.  Rows are offsets.   *)
(***************************************************************************)
EXTENDS Integers, Sequences, FiniteSets

CONSTANTS
    MaxOffset,  \* bound: offsets issued
    MaxBatch    \* bound: rows of one append, offsets of one reservation

ASSUME RowsAssumption == MaxOffset \in Nat /\ MaxBatch \in Nat \ {0}

VARIABLES
    seq,     \* sqlite_sequence: the highest offset issued
    buffer   \* offsets of the rows in the buffer table

From(o) == {r \in buffer : r >= o}

\* Buffer.append: k rows take the next offsets.
AppendRows(k) ==
    /\ seq + k <= MaxOffset
    /\ seq' = seq + k
    /\ buffer' = buffer \cup (seq + 1 .. seq + k)

\* SqliteBackend.floor: the sequence and every buffered row are at most this.
Floor == CHOOSE m \in {seq} \cup buffer : \A o \in {seq} \cup buffer : m >= o

\* Mutant of Reserve: the sequence stops one short of the last offset taken.
Mut_ReserveShort(n) ==
    /\ Floor + n <= MaxOffset
    /\ seq' = Floor + n - 1
    /\ UNCHANGED buffer

\* Buffer.reserve, SqliteBackend.advance: offsets are taken, no row is written.
Reserve(n) ==
    /\ Floor + n <= MaxOffset
    /\ seq' = Floor + n
    /\ UNCHANGED buffer

\* Buffer.evict_rows: the rows of [a, b) go; a caller that chunks an eviction may
\* take them from the middle.
EvictRows(a, b) ==
    /\ buffer' = {r \in buffer : r < a \/ r >= b}
    /\ UNCHANGED seq

=============================================================================
