------------------------------- MODULE Ingest -------------------------------
(***************************************************************************)
(* Bulk ingest (WriteHandle.ingest, _handle.py): the writer reserves       *)
(* offsets, writes Parquet and registers it, without a row ever being in   *)
(* the buffer.  It runs beside the sealers, evictions, recoveries and      *)
(* drains of other processes, which it shuts out with one claim on the     *)
(* whole log for the whole load.  Appends stay out by contract: ingest is  *)
(* called by the single writer.                                            *)
(*                                                                         *)
(* Sealing, publishing and eviction are here the commits that ingest can   *)
(* see; modules Seal and Tiers have their steps.                           *)
(***************************************************************************)
EXTENDS BufferRows, ClaimTable, FiniteSetsExt

CONSTANTS
    MaxGroups,     \* bound: row groups of one load
    MaxLoads,      \* bound: loads started
    IngestBatch,   \* _INGEST_BATCH: files registered in one commit
    Paths,         \* bound: file names in use at once
    Owners,        \* bound: claim owners in use at once
    MaxLapses,     \* bound: claims that outlive their TTL
    MaxFailures,   \* bound: failures and kills of a load
    CutBesideLoad  \* TRUE: another process may cut the open group during a load

ASSUME IngestAssumption ==
    /\ MaxGroups \in Nat /\ MaxLoads \in Nat /\ IngestBatch \in Nat \ {0}
    /\ Paths \subseteq Nat \ {0} /\ Owners \subseteq Nat \ {0}
    /\ MaxLapses \in Nat /\ MaxFailures \in Nat /\ CutBesideLoad \in BOOLEAN

VARIABLES
    open,        \* start_offset of the open extent group, 0 while it is empty
    extent,      \* closed groups and named files: [start, end, path], path 0 until named
    sealing,     \* the `sealing` row, a set of at most one [start, end, path]
    compacting,  \* output names recorded before their files exist
    queue,       \* pending_delete
    claims,      \* the claim table; expires is 1 while live and 0 once lapsed
    disk,        \* names of the Parquet files on disk
    table,       \* files of the staging table's snapshot: [path, start, end]
    through,     \* meta published_through
    doomed,      \* names the running drain has decided to unlink
    pc, load,    \* the writer inside ingest: what it does next, and its locals
    sealer,      \* a sealer at work: [owner, start, end, path], owner 0 when none is
    rescuer,     \* a recovery of interrupted outputs: [owner, outputs, queued]
    acked,       \* offsets the writer was told are in the log
    loads, lapses, failures

rows == <<seq, buffer>>
rest == <<open, extent, sealing, compacting, queue, disk, table, through, doomed>>
local == <<pc, load>>
others == <<sealer, rescuer>>
bounds == <<loads, lapses, failures>>
vars == <<rows, rest, claims, local, others, acked, bounds>>

Everything == [start |-> 0, end |-> MaxOffset + 10]
NoLoad == [owner |-> 0, group |-> <<>>, left |-> 0, path |-> 0, start |-> 0, end |-> 0,
           staged |-> <<>>, filed |-> {}, first |-> 0, last |-> 0]
NoSealer == [owner |-> 0, start |-> 0, end |-> 0, path |-> 0]
NoRescuer == [owner |-> 0, outputs |-> {}, queued |-> FALSE]

Pending == {g \in extent : g.path = 0}
Named(p) == \E f \in table : f.path = p
SpanEnd == Max({0} \cup {f.end : f \in table})
StagedPaths == {load.staged[i].path : i \in DOMAIN load.staged}

UsedPaths ==
    disk \cup {f.path : f \in table \cup extent \cup sealing} \cup compacting \cup queue \cup doomed
        \cup StagedPaths \cup {load.path, sealer.path} \cup rescuer.outputs
UsedOwners == {r.owner : r \in claims} \cup {load.owner, sealer.owner, rescuer.owner}
FreshPath == Min(Paths \ UsedPaths)
FreshOwner == Min(Owners \ UsedOwners)

CanClaim(d) == ~Clash(claims, 0, d, 0)
Claimed(o, d) == Acquired(claims, o, d, 0, 1)

Init ==
    /\ seq = 0 /\ buffer = {}
    /\ open = 0 /\ extent = {} /\ sealing = {} /\ compacting = {} /\ queue = {}
    /\ claims = {} /\ disk = {} /\ table = {} /\ through = 0 /\ doomed = {}
    /\ pc = "idle" /\ load = NoLoad /\ sealer = NoSealer /\ rescuer = NoRescuer
    /\ acked = {} /\ loads = 0 /\ lapses = 0 /\ failures = 0

(***************************************************************************)
(* The writer outside a load.                                              *)
(***************************************************************************)

\* extend (Buffer.append): the batch may or may not close its group (module Seal has
\* the rule of the cut).
Extend(k) ==
    /\ pc = "idle"
    /\ AppendRows(k)
    /\ LET start == IF open = 0 THEN seq + 1 ELSE open
       IN  \/ open' = start /\ UNCHANGED extent
           \/ /\ open' = 0
              /\ extent' = extent \cup {[start |-> start, end |-> seq + k + 1, path |-> 0]}
    /\ acked' = acked \cup (seq + 1 .. seq + k)
    /\ UNCHANGED <<sealing, compacting, queue, disk, table, through, doomed,
                   claims, local, others, bounds>>

\* close_open_group, which seal(flush=True) and advance(flush=True) call in
\* any process, with no claim.
CloseOpenGroup ==
    /\ open # 0 /\ From(open) # {}
    /\ CutBesideLoad \/ pc = "idle"
    /\ extent' = extent \cup {[start |-> open, end |-> Max(buffer) + 1, path |-> 0]}
    /\ open' = 0
    /\ UNCHANGED <<rows, sealing, compacting, queue, disk, table, through, doomed,
                   claims, local, others, acked, bounds>>

(***************************************************************************)
(* A load.  load.group is the reserved row group not yet written, <<>> at  *)
(* the source's end; load.path the open file, which holds [start, end).    *)
(***************************************************************************)

Go(label) == pc' = label

\* ingest: the claim on the whole log; refused, the call raises.
StartLoad ==
    /\ pc = "idle" /\ loads < MaxLoads
    /\ Owners \ UsedOwners # {}
    /\ CanClaim(Everything)
    /\ loads' = loads + 1
    /\ claims' = Claimed(FreshOwner, Everything)
    /\ \E n \in 1..MaxGroups :
          load' = [NoLoad EXCEPT !.owner = FreshOwner, !.left = n]
    /\ Go("queued")
    /\ UNCHANGED <<rows, rest, others, acked, lapses, failures>>

\* _refuse_unfiled_rows: three reads, each of which refuses ...
Refuse(unfiled, next) ==
    /\ Go(IF unfiled THEN "release" ELSE next)
    /\ UNCHANGED <<rows, rest, claims, load, others, acked, bounds>>

\* Mutant of RefuseQueued: the open group is asked, the queue is not.
Mut_QueueUnread == pc = "queued" /\ Refuse(FALSE, "sealing")

\* ... of the seal queue, of the seal in flight and of the open group.
RefuseQueued == pc = "queued" /\ Refuse(Pending # {}, "sealing")
RefuseSealing == pc = "sealing" /\ Refuse(sealing # {}, "open")
RefuseOpen == pc = "open" /\ Refuse(open # 0, "reserve")

\* prepared(): the next row group takes offsets, or the source is at its end.
\* A first row group opens a file, a later one goes on with the open file or
\* finds it closed at its target size (the choice in CloseFile).
NextGroup ==
    /\ pc = "reserve"
    /\ IF load.left = 0
       THEN load' = [load EXCEPT !.group = <<>>] /\ UNCHANGED <<seq, buffer>>
       ELSE \E n \in 1..MaxBatch :
              /\ Reserve(n)
              /\ load' = [load EXCEPT !.group = <<Floor + 1, Floor + n + 1>>, !.left = @ - 1]
    /\ Go("next")
    /\ UNCHANGED <<rest, claims, others, acked, bounds>>

\* I2: claim_output names the file before it exists.
OpenFile ==
    /\ pc = "next" /\ load.path = 0 /\ load.group # <<>>
    /\ Paths \ UsedPaths # {}
    /\ compacting' = compacting \cup {FreshPath}
    /\ load' = [load EXCEPT !.path = FreshPath, !.start = load.group[1], !.end = load.group[1]]
    /\ Go("write")
    /\ UNCHANGED <<rows, open, extent, sealing, queue, disk, table, through, doomed,
                   claims, others, acked, bounds>>

\* The file under its target goes on with the next row group.
GrowFile ==
    /\ pc = "next" /\ load.path # 0 /\ load.group # <<>>
    /\ Go("write")
    /\ UNCHANGED <<rows, rest, claims, load, others, acked, bounds>>

WriteGroup ==
    /\ pc = "write"
    /\ disk' = disk \cup {load.path}
    /\ load' = [load EXCEPT !.end = load.group[2]]
    /\ Go("renew")
    /\ UNCHANGED <<rows, open, extent, sealing, compacting, queue, table, through, doomed,
                   claims, others, acked, bounds>>

\* checkpoint: renew, or give the load up because another owner has the range.
Checkpoint(next) ==
    /\ IF HasRow(claims, load.owner)
       THEN claims' = Renewed(claims, load.owner, 0, 1) /\ Go(next)
       ELSE Go("abandon") /\ UNCHANGED claims
    /\ UNCHANGED <<rows, rest, load, others, acked, bounds>>

RenewGroup == pc = "renew" /\ Checkpoint("reserve")

\* The file reached its target, or the source its end: it joins the batch.
CloseFile ==
    /\ pc = "next" /\ load.path # 0
    /\ LET file == [path |-> load.path, start |-> load.start, end |-> load.end]
           staged == load.staged \o <<file>>
       IN  /\ load' = [load EXCEPT !.path = 0, !.staged = staged,
                                   !.first = IF @ = 0 THEN load.start ELSE @, !.last = load.end]
           /\ Go(IF load.group = <<>> \/ Len(staged) >= IngestBatch THEN "commit" ELSE "next")
    /\ UNCHANGED <<rows, rest, claims, others, acked, bounds>>

\* _commit_staged: the checkpoint before the commit, ...
RenewCommit == pc = "commit" /\ Checkpoint("register")

\* ... LogTable.register with the batch's range, which declines a range the
\* table or the watermark covers and refuses one that straddles, ...
BatchStart == load.staged[1].start
BatchEnd == load.staged[Len(load.staged)].end
Covered == (table # {} /\ SpanEnd >= BatchEnd) \/ through + 1 >= BatchEnd
Straddles == table # {} /\ BatchStart < SpanEnd
StagedFiles == {load.staged[i] : i \in DOMAIN load.staged}

RegisterBatch ==
    /\ pc = "register"
    /\ IF Covered \/ Straddles
       THEN Go("declined") /\ UNCHANGED table
       ELSE Go("record") /\ table' = table \cup StagedFiles
    /\ UNCHANGED <<rows, open, extent, sealing, compacting, queue, disk, through, doomed,
                   claims, load, others, acked, bounds>>

\* record_file and clear_compaction, file by file, in transactions of their own;
\* load.filed are the files of the batch that are done.
RecordFile ==
    /\ pc = "record"
    /\ extent' = extent \cup {Head(load.staged)}
    /\ Go("unclaim")
    /\ UNCHANGED <<rows, open, sealing, compacting, queue, disk, table, through, doomed,
                   claims, load, others, acked, bounds>>

UnclaimFile ==
    /\ pc = "unclaim"
    /\ compacting' = compacting \ {Head(load.staged).path}
    /\ load' = [load EXCEPT !.staged = Tail(@),
                            !.filed = IF Len(load.staged) > 1 THEN @ \cup {Head(load.staged).path} ELSE {}]
    /\ Go(IF Len(load.staged) > 1 THEN "record" ELSE IF load.group = <<>> THEN "loaded" ELSE "next")
    /\ UNCHANGED <<rows, open, extent, sealing, queue, disk, table, through, doomed,
                   claims, others, acked, bounds>>

\* The load's range is returned: the caller takes its rows for stored.
Loaded ==
    /\ pc = "loaded"
    /\ acked' = acked \cup (load.first .. load.last - 1)
    /\ Go("release")
    /\ UNCHANGED <<rows, rest, claims, load, others, bounds>>

\* A read of the source, a write, a commit or a record of it raises; a commit
\* may have landed.
FailLoad ==
    /\ pc \in {"reserve", "write", "register", "record", "unclaim"} /\ failures < MaxFailures
    /\ failures' = failures + 1
    /\ table' \in {table} \cup
          (IF pc = "register" /\ ~Covered /\ ~Straddles THEN {table \cup StagedFiles} ELSE {})
    /\ disk' \in {disk} \cup (IF pc = "write" THEN {disk \cup {load.path}} ELSE {})
    /\ Go("abandon")
    /\ UNCHANGED <<rows, open, extent, sealing, compacting, queue, through, doomed,
                   claims, load, others, acked, loads, lapses>>

\* The exception, of a decline too: _abandon.  The files of the batch are queued,
\* those in the table too, and then the claims that are left are cleared.  The
\* file still open keeps its claim for recovery.
Abandon ==
    /\ pc \in {"abandon", "declined"}
    /\ queue' = queue \cup StagedPaths \cup load.filed
    /\ Go("clear")
    /\ UNCHANGED <<rows, open, extent, sealing, compacting, disk, table, through, doomed,
                   claims, load, others, acked, bounds>>

ClearAbandoned ==
    /\ pc = "clear"
    /\ compacting' = compacting \ StagedPaths
    /\ Go("release")
    /\ UNCHANGED <<rows, open, extent, sealing, queue, disk, table, through, doomed,
                   claims, load, others, acked, bounds>>

ReleaseLoad ==
    /\ pc = "release"
    /\ claims' = Released(claims, load.owner)
    /\ load' = NoLoad
    /\ Go("idle")
    /\ UNCHANGED <<rows, rest, others, acked, bounds>>

\* The writer's process dies, its claim with it once the TTL has run out.
KillLoad ==
    /\ pc # "idle" /\ failures < MaxFailures
    /\ failures' = failures + 1
    /\ load' = NoLoad
    /\ Go("idle")
    /\ UNCHANGED <<rows, rest, claims, others, acked, loads, lapses>>

LoadStep ==
    \/ StartLoad \/ RefuseQueued \/ RefuseSealing \/ RefuseOpen \/ NextGroup \/ OpenFile
    \/ GrowFile \/ WriteGroup \/ RenewGroup \/ CloseFile \/ RenewCommit \/ RegisterBatch
    \/ RecordFile \/ UnclaimFile \/ Loaded \/ FailLoad \/ Abandon \/ ClearAbandoned
    \/ ReleaseLoad \/ KillLoad

(***************************************************************************)
(* The other processes.                                                    *)
(***************************************************************************)

\* A sealer takes the oldest closed group: claim, intent, file (Seal's steps
\* from PickGroup to WriteFile).  An intent left by a dead sealer is queued.
SealBegin ==
    /\ sealer.owner = 0 /\ Pending # {}
    /\ Paths \ UsedPaths # {} /\ Owners \ UsedOwners # {}
    /\ LET g == CHOOSE g \in Pending : \A h \in Pending : g.start <= h.start
           d == [start |-> g.start, end |-> g.end]
       IN  /\ CanClaim(d)
           /\ claims' = Claimed(FreshOwner, d)
           /\ sealer' = [owner |-> FreshOwner, start |-> g.start, end |-> g.end, path |-> FreshPath]
           /\ sealing' = {[g EXCEPT !.path = FreshPath]}
           /\ queue' = queue \cup {i.path : i \in sealing}
           /\ disk' = disk \cup {FreshPath}
    /\ UNCHANGED <<rows, open, extent, compacting, table, through, doomed, local, rescuer,
                   acked, bounds>>

\* It lost its range: the file is queued and the group stays.
SealLost ==
    /\ sealer.owner # 0 /\ ~HasRow(claims, sealer.owner)
    /\ queue' = queue \cup {sealer.path}
    /\ sealer' = NoSealer
    /\ UNCHANGED <<rows, open, extent, sealing, compacting, disk, table, through, doomed,
                   claims, local, rescuer, acked, bounds>>

\* It commits: register, which declines a covered range and then queues the
\* file, and finish_seal, which names the group.
SealEnd ==
    /\ sealer.owner # 0 /\ HasRow(claims, sealer.owner)
    /\ LET file == [path |-> sealer.path, start |-> sealer.start, end |-> sealer.end]
       IN  /\ IF (table # {} /\ SpanEnd >= sealer.end) \/ through + 1 >= sealer.end
              THEN queue' = queue \cup {sealer.path} /\ UNCHANGED table
              ELSE table' = table \cup {file} /\ UNCHANGED queue
           /\ extent' = {g \in extent : g.path # 0 \/ g.end > sealer.end} \cup {file}
    /\ sealing' = {}
    /\ claims' = Released(claims, sealer.owner)
    /\ sealer' = NoSealer
    /\ UNCHANGED <<rows, open, compacting, disk, through, doomed, local, rescuer, acked, bounds>>

\* recover, at every open: under the whole log's claim, _recover_compaction
\* reads the outputs that are claimed, ...
RecoverRead ==
    /\ rescuer.owner = 0 /\ compacting # {}
    /\ Owners \ UsedOwners # {} /\ CanClaim(Everything)
    /\ claims' = Claimed(FreshOwner, Everything)
    /\ rescuer' = [owner |-> FreshOwner, outputs |-> compacting, queued |-> FALSE]
    /\ UNCHANGED <<rows, rest, local, sealer, acked, bounds>>

\* ... queues them all, ...
RecoverQueue ==
    /\ rescuer.owner # 0 /\ ~rescuer.queued
    /\ queue' = queue \cup rescuer.outputs
    /\ rescuer' = [rescuer EXCEPT !.queued = TRUE]
    /\ UNCHANGED <<rows, open, extent, sealing, compacting, disk, table, through, doomed,
                   claims, local, sealer, acked, bounds>>

\* Mutant of RecoverClear: every claim goes, not only those read.
Mut_ClearEvery ==
    /\ rescuer.owner # 0 /\ rescuer.queued
    /\ compacting' = {}
    /\ claims' = Released(claims, rescuer.owner)
    /\ rescuer' = NoRescuer
    /\ UNCHANGED <<rows, open, extent, sealing, queue, disk, table, through, doomed,
                   local, sealer, acked, bounds>>

\* ... and clears the claims it read.
RecoverClear ==
    /\ rescuer.owner # 0 /\ rescuer.queued
    /\ compacting' = compacting \ rescuer.outputs
    /\ claims' = Released(claims, rescuer.owner)
    /\ rescuer' = NoRescuer
    /\ UNCHANGED <<rows, open, extent, sealing, queue, disk, table, through, doomed,
                   local, sealer, acked, bounds>>

\* publish pushed the staging files up to one of them.
Publish ==
    /\ \E f \in table :
        LET d == [start |-> through + 1, end |-> f.end]
        IN  /\ f.start > through /\ CanClaim(d)
            /\ claims' = Swept(claims, d, 0)
            /\ through' = f.end - 1
    /\ UNCHANGED <<rows, open, extent, sealing, compacting, queue, disk, table, doomed,
                   local, others, acked, bounds>>

\* evict_buffer: buffered rows that are published go, in the caller's chunks.
EvictBuffer ==
    /\ \E a, b \in 1..through + 1 : EvictRows(a, b)
    /\ buffer' # buffer
    /\ UNCHANGED <<rest, claims, local, others, acked, bounds>>

\* drain looks which queued files no snapshot names, and unlinks those.  An
\* attempt that is still going to commit a name ends before the name is due.
Due(p) == p \notin StagedPaths \cup {load.path, sealer.path}

\* Mutant of DrainLook: the veto of referenced files is missing.
Mut_DrainUnvetoed ==
    /\ doomed = {}
    /\ doomed' = {p \in queue : Due(p)}
    /\ doomed' # {}
    /\ UNCHANGED <<rows, open, extent, sealing, compacting, queue, disk, table, through,
                   claims, local, others, acked, bounds>>

DrainLook ==
    /\ doomed = {}
    /\ doomed' = {p \in queue : ~Named(p) /\ Due(p)}
    /\ doomed' # {}
    /\ UNCHANGED <<rows, open, extent, sealing, compacting, queue, disk, table, through,
                   claims, local, others, acked, bounds>>

DrainUnlink ==
    /\ doomed # {}
    /\ disk' = disk \ doomed
    /\ queue' = queue \ doomed
    /\ extent' = {g \in extent : g.path \notin doomed}
    /\ doomed' = {}
    /\ UNCHANGED <<rows, open, sealing, compacting, table, through,
                   claims, local, others, acked, bounds>>

\* A holder outlives its TTL, or is dead.
Lapse ==
    /\ \E r \in claims :
        /\ r.expires = 1
        /\ claims' = (claims \ {r}) \cup {[r EXCEPT !.expires = 0]}
        /\ IF r.owner \in {load.owner, sealer.owner, rescuer.owner}
           THEN lapses < MaxLapses /\ lapses' = lapses + 1
           ELSE UNCHANGED lapses
    /\ UNCHANGED <<rows, rest, local, others, acked, loads, failures>>

OtherStep ==
    \/ CloseOpenGroup \/ SealBegin \/ SealLost \/ SealEnd
    \/ RecoverRead \/ RecoverQueue \/ RecoverClear
    \/ Publish \/ EvictBuffer \/ DrainLook \/ DrainUnlink \/ Lapse

Next == (\E k \in 1..MaxBatch : Extend(k)) \/ LoadStep \/ OtherStep

Spec == Init /\ [][Next]_vars

-----------------------------------------------------------------------------

File == [path : Paths \cup {0}, start : 1..MaxOffset, end : 1..MaxOffset + 1]
PC == {"idle", "queued", "sealing", "open", "reserve", "next", "write", "renew", "commit",
       "register", "declined", "record", "unclaim", "loaded", "abandon", "clear", "release"}

IngestTypeOK ==
    /\ seq \in 0..MaxOffset /\ buffer \subseteq 1..seq
    /\ open \in 0..seq /\ through \in 0..seq /\ acked \subseteq 1..seq
    /\ extent \cup sealing \cup table \subseteq File /\ Cardinality(sealing) <= 1
    /\ compacting \cup queue \cup disk \cup doomed \subseteq Paths
    /\ claims \subseteq [owner : Owners, expires : {0, 1}, start : Nat, end : Nat]
    /\ pc \in PC /\ StagedFiles \subseteq File

\* How often a read of the log returns an offset: from the files of the
\* staging table, and from the buffer above them.
Served ==
    [o \in 1..MaxOffset |->
        Cardinality({f \in table : f.start <= o /\ o < f.end})
          + (IF o \in buffer /\ o >= SpanEnd THEN 1 ELSE 0)]

\* The log under bulk loads is still the append-only log of module Log: rows
\* come into view above all others, at once for a whole batch of files, and
\* none is hidden, repeated or lost by a load, however it ends and whatever
\* seals, lapses, recoveries and evictions run beside it.
AbstractLog == INSTANCE Log WITH Offsets <- 1..MaxOffset, served <- Served
IngestIsALog == AbstractLog!LogSpec

\* What the writer was told is in the log can be read: a load that returned
\* has every one of its rows in the table (_handle.py 2776-2783).
AckedServed == \A o \in acked : Served[o] = 1

\* I2: every file on disk is in the table, claimed, queued or intended.
OutputsNamed ==
    \A p \in disk :
        \/ Named(p) \/ p \in compacting \cup queue \cup doomed
        \/ p \in {i.path : i \in sealing} \cup {sealer.path}

\* No file a snapshot names is unlinked, though an abandoned or recovered
\* output is queued whether or not its commit landed.
NoTableFileLost == \A f \in table : f.path \in disk

=============================================================================
