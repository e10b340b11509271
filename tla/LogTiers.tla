------------------------------ MODULE LogTiers ------------------------------
(***************************************************************************)
(* The three tiers of one log, with every routine one step: what the       *)
(* whole-log operations of modules Retire and Restore run beside.  Modules *)
(* Seal, Ingest and Tiers take the same routines apart under range claims; *)
(* here a routine runs to its end and only the whole-log claim of a        *)
(* truncate keeps it out.  A file has a range, from its lowest row to its  *)
(* highest (data_files), and rows: all of the range, but for offsets that  *)
(* a restore has skipped.                                                  *)
(***************************************************************************)
EXTENDS CompactionPolicy

CONSTANTS
    MaxOffset,      \* bound: rows appended
    EvictInOrder    \* TRUE: the staging table gives up no row the buffer holds

ASSUME LogTiersAssumption == MaxOffset \in Nat /\ EvictInOrder \in BOOLEAN

VARIABLES
    seq,        \* the last offset issued
    cut,        \* where the rows not sealed yet start
    buffer,     \* offsets of the rows in the buffer table
    staging,    \* files of the staging table
    published,  \* files of the published table
    through,    \* meta published_through, 0 if nothing is published
    owed,       \* awaiting_swap: merged files owed a swap
    tier,       \* the published table's tier row: [has, start, end]
    closed,     \* the buffer's tier row: the end it was given, 0 while it has none
    holder      \* who holds the whole-log claim, "none" if nobody

tables == <<buffer, staging, published>>
meta == <<through, owed, tier>>
tvars == <<seq, cut, tables, meta, closed, holder>>

SpanEnd == ReachOf(staging)
PublishedEnd == ReachOf(published)
Landed == {[start |-> 0, end |-> through + 1]}
Free == holder = "none"

-----------------------------------------------------------------------------
(***************************************************************************)
(* What a read of the whole log returns, as module Read shows each query   *)
(* does: from the published table below the staging table if the tier row  *)
(* names any row there, and from the buffer above the last table it reads. *)
(***************************************************************************)

FileOf(rows) == [start |-> Min(rows), end |-> Max(rows) + 1, rows |-> rows]
Times(files, o) == Cardinality({f \in files : o \in f.rows})
One(b) == IF b THEN 1 ELSE 0
PublishedNeeded == published # {} /\ (tier.has => tier.start < tier.end)

Served(o) ==
    LET tail(end) == One(o \in buffer /\ o >= end)
    IN  IF staging # {}
        THEN Times(staging, o) + tail(SpanEnd)
               + (IF PublishedNeeded /\ o < First(staging).start THEN Times(published, o) ELSE 0)
        ELSE IF PublishedNeeded THEN Times(published, o) + tail(PublishedEnd)
        ELSE One(o \in buffer)

-----------------------------------------------------------------------------

LocalInit ==
    /\ seq = 0 /\ cut = 1
    /\ buffer = {} /\ staging = {}
    /\ through = 0 /\ owed = {}
    /\ tier = [has |-> FALSE, start |-> 0, end |-> 0]
    /\ closed = 0 /\ holder = "none"

TiersInit == LocalInit /\ published = {}

\* Mutant of AppendRow: the handle, not the buffer, refuses a closed log.
Mut_AppendClosed ==
    /\ seq < MaxOffset
    /\ seq' = seq + 1 /\ buffer' = buffer \cup {seq'}
    /\ UNCHANGED <<cut, staging, published, meta, closed, holder>>

\* Buffer.append: the trigger of a closed buffer refuses the row.
AppendRow ==
    /\ seq < MaxOffset
    /\ closed = 0
    /\ seq' = seq + 1 /\ buffer' = buffer \cup {seq'}
    /\ UNCHANGED <<cut, staging, published, meta, closed, holder>>

\* seal(flush=True): what is buffered and not in a file becomes one.
\* A range that is already published is declined (register).
Unfiled == {o \in buffer : o >= cut}
SealRows ==
    /\ staging' = staging \cup {f \in {FileOf(Unfiled)} : through + 1 < f.end}
    /\ cut' = seq + 1
    /\ UNCHANGED <<seq, buffer, published, meta, closed, holder>>

Seal == Free /\ Unfiled # {} /\ SealRows

\* compact: a run of the policy becomes one file, owed a swap if a part of it
\* is published.
CompactRun(flush) ==
    \E run \in Runs(staging \ Settled(staging), through + 1, flush) :
        LET out == FileOf(UNION {f.rows : f \in run})
        IN  /\ staging' = (staging \ run) \cup {out}
            /\ owed' = (owed \ run) \cup {f \in {out} : f.start <= through}
            /\ UNCHANGED <<seq, cut, buffer, published, through, tier, closed, holder>>

Compact == Free /\ CompactRun(FALSE)

\* _push: the row of a first publish is exact; then the merged files that are
\* final, or that a flush needs, are swapped in, with `finish` any that is
\* owed; and then what is pending goes up, in order.
Exact(remote, local) ==
    LET below == {f \in remote : local = {} \/ f.start < First(local).start}
    IN  IF below = {} THEN [has |-> TRUE, start |-> 0, end |-> 0]
        ELSE [has |-> TRUE, start |-> First(below).start, end |-> ReachOf(below)]

Push(flush, finish) ==
    LET final == Settled(staging)
        straddles(f) == f.start < PublishedEnd /\ PublishedEnd < f.end
        inside(f) == {p \in published : Span(p) \cap Span(f) # {}}
        linesUp(f) == inside(f) # {} /\ \A p \in inside(f) : Span(p) \subseteq Span(f)
        swapped == {f \in staging :
                      /\ f \in owed \/ straddles(f)
                      /\ f \in final \/ finish \/ (flush /\ straddles(f))
                      /\ linesUp(f) /\ f \notin published}
        kept == (published \ UNION {inside(f) : f \in swapped}) \cup swapped
        pending == {f \in staging : f.start >= ReachOf(kept)}
        pushed == {f \in pending : flush \/ f \in final}
    IN  /\ published' = kept \cup pushed
        /\ owed' = owed \ swapped
        /\ through' = Max({through, ReachOf(published') - 1})
        /\ tier' = IF tier.has THEN tier ELSE Exact(published, staging)
        /\ UNCHANGED <<seq, cut, buffer, staging, closed, holder>>

Publish == Free /\ \E flush \in BOOLEAN : Push(flush, FALSE)

\* evict_buffer takes no claim: rows below the published staging prefix, in the
\* caller's chunks.
EvictRows(lo, hi) ==
    LET limit == Min({hi, ReachOf(CoveredPrefix(staging, Landed))})
    IN  buffer' = {o \in buffer : o < lo \/ o >= limit}
EvictBuffer ==
    /\ \E lo, hi \in buffer : EvictRows(lo, hi + 1)
    /\ UNCHANGED <<seq, cut, staging, published, meta, closed, holder>>

\* PublishedTier.widen: nothing is recorded while there is no row.
Widened(files) ==
    IF ~tier.has THEN tier
    ELSE IF tier.end <= tier.start
    THEN [tier EXCEPT !.start = First(files).start, !.end = ReachOf(files)]
    ELSE [tier EXCEPT !.start = Min({@, First(files).start}), !.end = Max({@, ReachOf(files)})]

\* evict: a published prefix of the staging table, up to what the retention or
\* the caller allows, widening the row first; unless `everything`, below what
\* may still be merged or is owed a swap.
EvictFiles(everything, top) ==
    LET keep == IF everything THEN {} ELSE (staging \ Settled(staging)) \cup (owed \cap staging)
        limit == Min({top, ReachOf(CoveredPrefix(staging, Landed))} \cup {f.start : f \in keep})
        gone == {f \in staging : f.end <= limit}
    IN  /\ staging' = staging \ gone
        /\ tier' = IF gone = {} THEN tier ELSE Widened(gone)
        /\ UNCHANGED <<seq, cut, buffer, published, through, owed, closed, holder>>

Evict ==
    /\ Free
    /\ \E f \in staging : EvictFiles(FALSE, f.end)
    /\ EvictInOrder => buffer \cap Rows(staging \ staging') = {}

Maintain == AppendRow \/ Seal \/ Compact \/ Publish \/ EvictBuffer \/ Evict

=============================================================================
