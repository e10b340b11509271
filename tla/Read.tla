-------------------------------- MODULE Read --------------------------------
(***************************************************************************)
(* A query (Reader.query, _read.py) against the moving tiers of module     *)
(* Tiers: it reads the buffer, the staging table, the tier rows and the    *)
(* published table one after the other, with no claim, and unions what it  *)
(* saw.  A query is followed through one offset, which its predicate may   *)
(* name (then the tiers are pruned with it) or not.                        *)
(***************************************************************************)
EXTENDS Tiers

VARIABLES
    rpc,    \* what the query does next
    row,    \* the offset it is followed through
    named,  \* whether its predicate is on the offset
    bottom, \* the staging end it first saw, 0 with nothing staged
    tail,   \* whether the rows it took from the buffer hold the offset
    snap,   \* the staging snapshot of its union
    count   \* how many times the union returns the offset

rvars == <<rpc, row, named, bottom, tail, snap, count>>
allvars == <<vars, rvars>>

ReadInit ==
    /\ Init
    /\ rpc = "idle" /\ row = 0 /\ named = FALSE /\ bottom = 0
    /\ tail = FALSE /\ snap = {} /\ count = 0

QueryStart(o, onOffset) ==
    /\ rpc = "idle"
    /\ row' = o /\ named' = onOffset
    /\ bottom' = SpanEnd
    /\ rpc' = "lowest"
    /\ UNCHANGED <<vars, tail, snap, count>>

\* _buffer_could_match: ruled out by the lowest buffered offset, for a
\* predicate on the offset; an empty buffer rules out nothing.
BufferCouldMatch == ~named \/ buffer = {} \/ row >= Max({Min(buffer), bottom})

QueryLowest ==
    /\ rpc = "lowest"
    /\ rpc' = IF BufferCouldMatch THEN "tail" ELSE "staging"
    /\ UNCHANGED <<vars, row, named, bottom, tail, snap, count>>

\* rows_from: the buffered rows from the staging end up.
QueryTail ==
    /\ rpc = "tail"
    /\ tail' = (row \in buffer /\ row >= bottom)
    /\ rpc' = "staging"
    /\ UNCHANGED <<vars, row, named, bottom, snap, count>>

\* The staging table again: this snapshot is the one the union reads.
QueryStaging ==
    /\ rpc = "staging"
    /\ snap' = staging
    /\ rpc' = "tiers"
    /\ UNCHANGED <<vars, row, named, bottom, tail, count>>

\* _tiers and prune: the published table is needed unless its row says that
\* it holds no row, or none the predicate matches.
PublishedNeeded ==
    tier.has => tier.start < tier.end /\ (named => tier.start <= row /\ row < tier.end)

\* Times(files): how often the union's scan of a table returns the offset.
Times(files) == Cardinality({f \in files : row \in Span(f)})
One(b) == IF b THEN 1 ELSE 0

\* Mutant of CountLocal: the first staging end bounds the buffer's rows.
Mut_CountBottom == Times(snap) + One(tail)

\* _union without the published leg: it is not needed, or holds nothing.
CountLocal == Times(snap) + One(tail /\ (snap = {} \/ row >= ReachOf(snap)))

\* _union with it: below the staging snapshot, or, with nothing staged, whole,
\* and the buffer from where it ends.
CountAll ==
    IF snap = {}
    THEN Times(published) + One(tail /\ row >= PublishedEnd)
    ELSE CountLocal + One(row < First(snap).start) * Times(published)

QueryTiers ==
    /\ rpc = "tiers"
    /\ IF PublishedNeeded
       THEN rpc' = "published" /\ UNCHANGED count
       ELSE rpc' = "done" /\ count' = CountLocal
    /\ UNCHANGED <<vars, row, named, bottom, tail, snap>>

\* The published table last, as it is now.
QueryPublished ==
    /\ rpc = "published"
    /\ count' = IF published = {} THEN CountLocal ELSE CountAll
    /\ rpc' = "done"
    /\ UNCHANGED <<vars, row, named, bottom, tail, snap>>

QueryEnd ==
    /\ rpc = "done"
    /\ rpc' = "idle" /\ row' = 0 /\ named' = FALSE /\ bottom' = 0
    /\ tail' = FALSE /\ snap' = {} /\ count' = 0
    /\ UNCHANGED vars

Query ==
    \/ \E o \in 1..MaxOffset, onOffset \in BOOLEAN : QueryStart(o, onOffset)
    \/ QueryLowest \/ QueryTail \/ QueryStaging \/ QueryTiers \/ QueryPublished \/ QueryEnd

ReadNext == (Next /\ UNCHANGED rvars) \/ Query
ReadSpec == ReadInit /\ [][ReadNext]_allvars

-----------------------------------------------------------------------------

ReadTypeOK ==
    /\ rpc \in {"idle", "lowest", "tail", "staging", "tiers", "published", "done"}
    /\ row \in 0..MaxOffset /\ named \in BOOLEAN /\ bottom \in 0..MaxOffset + 1
    /\ tail \in BOOLEAN /\ snap \subseteq File /\ count \in Nat

\* Every acknowledged row is in the answer of every query exactly once,
\* however seals, merges, pushes, swaps and evictions land between its reads.
ReadsOnce == rpc = "done" => count = 1

=============================================================================
