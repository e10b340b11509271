------------------------------ MODULE Restore -------------------------------
(***************************************************************************)
(* WriteHandle.restore: a machine has died, and its log is put together    *)
(* again elsewhere from what it left: the published table, and a copy of   *)
(* buffer.db from some earlier moment, if it was replicated at all.  The   *)
(* disaster is the initial state.  The restore may stop after any step and *)
(* is called again, unless the staging table exists: that is the commit    *)
(* point, and from then on the log can be opened and worked on (module     *)
(* LogTiers, whose variables are the new machine's: published is the table *)
(* as the row of its published.db names it, {} while there is no row).     *)
(***************************************************************************)
EXTENDS LogTiers

CONSTANTS
    MaxOld,            \* bound: rows the lost machine appended
    ReplicaReserve,    \* replica_reserve
    PublishedReserve,  \* published_reserve
    MaxFresh,          \* bound: rows appended to the restored log
    MaxStops,          \* bound: restores that stop half way
    StopsAnywhere      \* FALSE: no restore stops between its two reserves

ASSUME RestoreAssumption ==
    /\ MaxOld \in Nat /\ ReplicaReserve \in Nat /\ PublishedReserve \in Nat
    /\ MaxFresh \in Nat /\ MaxStops \in Nat /\ StopsAnywhere \in BOOLEAN

VARIABLES
    old,      \* the last offset the lost machine issued
    remote,   \* the files of the published table it left
    issued,   \* litelink.issued_through of its last push
    replica,  \* its replicated buffer.db
    pc,       \* what the restore does next
    known,    \* the end of what the database on disk records as issued
    fresh,    \* offsets of the rows appended since
    stops

lost == <<old, remote, issued, replica>>
restoring == <<pc, known, stops>>
allvars == <<tvars, lost, restoring, fresh>>

\* The phases in which the root holds a log that open() accepts.
Openable == {"tail", "drop", "backfill", "done", "opened", "adopt"}

\* What there is to recover.
Left == (UNION {f.rows : f \in remote}) \cup replica.buffer

-----------------------------------------------------------------------------
(***************************************************************************)
(* The disaster.  Every push stamps the published table with what the log  *)
(* had issued.  A replica is older than that or newer; its buffer holds at *)
(* least what was not published then; its tier row describes what the lost *)
(* staging table had given up.  Each reserve covers what was issued after  *)
(* its record, where that record is the fresher one.                       *)
(***************************************************************************)

NoReplica == [has |-> FALSE, seq |-> 0, through |-> 0, buffer |-> {},
              tier |-> [has |-> FALSE, start |-> 0, end |-> 0]]

TableOf(n) ==
    IF n = 0 THEN {{}}
    ELSE {{FileOf(1..n)}} \cup {{FileOf(1..k), FileOf(k + 1..n)} : k \in 1..n - 1}

Replicas(n, p) ==
    LET row(t) == {NoReplica.tier} \cup {[has |-> TRUE, start |-> 1, end |-> e] : e \in {1, t + 1}}
    IN  {NoReplica} \cup
        UNION {{[has |-> TRUE, seq |-> r, through |-> t, buffer |-> lo..r, tier |-> w] :
                  r \in t..n, lo \in 1..t + 1, w \in row(t)} : t \in 0..p}

Possible(rep) ==
    rep.has =>
        /\ rep.through > 0 \/ ~rep.tier.has
        /\ issued <= rep.seq => old <= rep.seq + ReplicaReserve

\* Databases put back by hand may bring a row of published.db that names an
\* earlier state of the table.
StaleRows == {{}} \cup {{f \in remote : f.end <= e} : e \in {f.end : f \in remote}}

RestoreInit ==
    /\ LocalInit
    /\ old \in 1..MaxOld
    /\ \E p \in 0..old :
        /\ remote \in TableOf(p)
        /\ issued \in p..old
        /\ p = 0 => issued = 0
        /\ replica \in Replicas(old, p)
    /\ Possible(replica)
    /\ published \in IF replica.has THEN StaleRows ELSE {{}}
    /\ ~replica.has \/ issued > replica.seq => old <= issued + PublishedReserve
    /\ pc = "start" /\ known = 0 /\ fresh = {} /\ stops = 0

-----------------------------------------------------------------------------

Then(label) == pc' = label /\ UNCHANGED <<lost, known, fresh, stops>>

\* restore_database writes the replica out, and nothing if there is none.
RestoreDatabase ==
    /\ replica.has
    /\ seq' = replica.seq /\ through' = replica.through /\ buffer' = replica.buffer
    /\ tier' = replica.tier
    /\ UNCHANGED <<cut, staging, published, owed, closed, holder>>

\* With no replica the log is rebuilt from the published table, if that holds
\* anything.
Pull ==
    /\ pc = "start"
    /\ \/ RestoreDatabase /\ Then("forget")
       \/ ~replica.has /\ remote # {} /\ Then("rebuild") /\ UNCHANGED tvars
       \/ ~replica.has /\ remote = {} /\ Then("nothing") /\ UNCHANGED tvars

\* Mutant of Forget: the row stays, and wins over the hint.
Mut_RowKept == pc = "forget" /\ Then("strip") /\ UNCHANGED tvars

\* forget_published_entry: a row that survived goes, so the next open adopts.
Forget ==
    /\ pc = "forget"
    /\ published' = {}
    /\ Then("strip")
    /\ UNCHANGED <<seq, cut, buffer, staging, meta, closed, holder>>

\* _published_location: the version hint beside the table names its last commit.
Hinted == remote

\* open_published, repairing: the row if there is one, or the hint's table.
Adopted == IF published # {} THEN published ELSE Hinted

\* _seed_group: the open group starts at the lowest buffered row above what is
\* published, or with the next append.
SeedGroup(rows, covered) ==
    LET above == {o \in rows : o >= covered}
    IN  IF above = {} THEN covered ELSE Min(above)

\* strip_local_state: extents and swaps of the lost machine go, the sequence is
\* raised by the reserve, and the group is seeded.
Strip ==
    /\ pc = "strip"
    /\ owed' = {}
    /\ seq' = seq + ReplicaReserve
    /\ known' = seq + 1
    /\ cut' = SeedGroup(buffer, through + 1)
    /\ pc' = "reconcile"
    /\ UNCHANGED <<tables, through, tier, closed, holder, lost, fresh, stops>>

\* Mutant of Reconcile: the replica is taken at its word.
Mut_ReconcileNone ==
    /\ pc = "reconcile"
    /\ published' = Adopted
    /\ Then("reserve")
    /\ UNCHANGED <<seq, cut, buffer, staging, meta, closed, holder>>

\* The published table is adopted; what it holds leaves the buffer, and the
\* group is seeded again.
Reconcile ==
    /\ pc = "reconcile"
    /\ published' = Adopted
    /\ buffer' = {o \in buffer : o >= ReachOf(Adopted)}
    /\ cut' = SeedGroup(buffer', through + 1)
    /\ Then("reserve")
    /\ UNCHANGED <<seq, staging, meta, closed, holder>>

\* Mutant of Reserve: above the published table, by the replica's reserve.
Mut_ReserveReplica ==
    /\ pc = "reserve"
    /\ seq' = Max({seq, Max({issued + 1, known}) + ReplicaReserve - 1})
    /\ Then("create")
    /\ UNCHANGED <<cut, tables, meta, closed, holder>>

\* The fresher of the two records decides, by its own reserve.
Reserve ==
    /\ pc = "reserve"
    /\ LET wanted == IF issued + 1 > known THEN issued + 1 + PublishedReserve
                     ELSE known + ReplicaReserve
       IN  seq' = Max({seq, wanted - 1})
    /\ Then("create")
    /\ UNCHANGED <<cut, tables, meta, closed, holder>>

\* LogTable.create: the root is a log.
Create ==
    /\ pc = "create"
    /\ Then("tail")
    /\ UNCHANGED tvars

\* _create: a log whose first row takes offset first, published below end.
CreateLog(first, end) ==
    /\ seq' = first - 1
    /\ cut' = first
    /\ through' = end - 1

\* published_span: where the published table ends, by its hint alone.
PublishedSpanEnd == ReachOf(Hinted)

\* _restore_published: the first offset is above the reserve, and the tier table
\* has no row.
Rebuild ==
    /\ pc = "rebuild"
    /\ CreateLog(issued + 1 + PublishedReserve, PublishedSpanEnd)
    /\ Then("adopt")
    /\ UNCHANGED <<tables, owed, tier, closed, holder>>

Adopt ==
    /\ pc = "adopt"
    /\ published' = Adopted
    /\ Then("tail")
    /\ UNCHANGED <<seq, cut, buffer, staging, meta, closed, holder>>

\* _restore_tail: the published files after the last full one come back into
\* the staging table, which may decline them; or a download fails, once they
\* are confirmed as published or before.
RestoreTail ==
    LET full == {f \in published : Full(f)}
        tail == {f \in published : full = {} \/ f.start >= ReachOf(full)}
    IN  /\ pc = "tail"
        /\ \/ /\ tail # {}
              /\ through' = Max({through, PublishedEnd - 1})
              /\ staging' \in {staging, IF SpanEnd >= ReachOf(tail) THEN staging ELSE staging \cup tail}
           \/ UNCHANGED <<through, staging>>
        /\ Then(IF replica.has THEN "drop" ELSE "done")
        /\ UNCHANGED <<seq, cut, buffer, published, owed, tier, closed, holder>>

\* Once the tail is back, the published table's row is taken afresh.
DropRow ==
    /\ pc = "drop"
    /\ tier' = NoReplica.tier
    /\ Then("backfill")
    /\ UNCHANGED <<seq, cut, tables, through, owed, closed, holder>>

\* _backfill_manifest: exact, or left for the next publish.
Backfill ==
    /\ pc = "backfill"
    /\ tier' \in {tier, IF tier.has THEN tier ELSE Exact(published, staging)}
    /\ Then("done")
    /\ UNCHANGED <<seq, cut, tables, through, owed, closed, holder>>

\* The restore stops.  With no staging table it is called again, from the
\* database on disk; with one, it is refused and the log is opened as it is.
Stop ==
    /\ stops < MaxStops
    /\ pc \notin {"start", "nothing", "done", "opened"}
    /\ StopsAnywhere \/ pc \notin {"reconcile", "reserve"}
    /\ stops' = stops + 1
    /\ pc' = IF pc \in Openable THEN "opened" ELSE IF pc = "rebuild" THEN "start" ELSE "forget"
    /\ UNCHANGED <<tvars, lost, known, fresh>>

\* A publish finds no row and adopts.
AdoptLate ==
    /\ pc = "opened" /\ published = {} /\ remote # {}
    /\ published' = Adopted
    /\ UNCHANGED <<seq, cut, buffer, staging, meta, closed, holder, lost, restoring, fresh>>

\* The new log takes rows and is maintained; nothing is published or evicted
\* before the published table is adopted.
Work ==
    /\ pc \in Openable
    /\ IF published = {} /\ remote # {} THEN AppendRow \/ Seal \/ Compact ELSE Maintain
    /\ fresh' = fresh \cup (buffer' \ buffer)
    /\ Cardinality(fresh') <= MaxFresh
    /\ UNCHANGED <<lost, restoring>>

RestoreNext ==
    \/ Pull \/ Forget \/ Strip \/ Reconcile \/ Reserve \/ Create \/ Rebuild \/ Adopt
    \/ RestoreTail \/ DropRow \/ Backfill \/ Stop \/ AdoptLate \/ Work

RestoreSpec == RestoreInit /\ [][RestoreNext]_allvars

-----------------------------------------------------------------------------

\* No offset that the lost machine gave a row names another row: the restored
\* log issues only offsets above every one the old log issued.
NeverReissued == \A o \in fresh : o > old

AllServed == \A o \in Left \cup fresh : Served(o) = 1

\* Once restore has returned, every row that the published table or the replica
\* still had, and every row appended since, is read exactly once, whatever
\* else runs.
RestoredWhole == pc = "done" => AllServed

\* A published file lies inside one staging file or outside all of them: no
\* file reaches across the published end, where it would stop every publish.
NoStraddler ==
    \A f \in staging, p \in published :
        Span(f) \cap Span(p) # {} => Span(p) \subseteq Span(f)

\* "Everything ahead of it is repeatable, and a root without it cannot be
\* opened by anything": from a replica, a root that can be opened serves all
\* that was left.  Not so before the replica's tier row is dropped (README,
\* section 4).
OpenableWhole == replica.has /\ pc \in Openable => AllServed

=============================================================================
