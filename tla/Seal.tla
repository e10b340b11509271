-------------------------------- MODULE Seal --------------------------------
(***************************************************************************)
(* From buffer to staging table: appends cut the log into groups (extent), *)
(* sealers write a closed group to one Parquet file and register it in the *)
(* staging table, and whoever opens the log recovers what a killed sealer  *)
(* left.  Sources: Buffer (_buffer.py), WriteHandle's seal and recover       *)
(* (_handle.py), LogTable.register (_table.py), Maintenance.drain      *)
(* (_maintenance.py).                                                      *)
(*                                                                         *)
(* Every SQLite transaction, file write and catalog commit is one step;    *)
(* between any two of them another process runs, a claim lapses, or the    *)
(* process dies.  Offsets start at 1 and a row is its offset: offsets are  *)
(* never reused (I9), so nothing else about a row matters here.            *)
(*                                                                         *)
(* What later tiers do to this one is kept as the commits sealing can see: *)
(* the published watermark rising, buffer rows and staging files leaving.  *)
(***************************************************************************)
EXTENDS ClaimTable, FiniteSets, FiniteSetsExt

CONSTANTS
    Sealers,       \* processes and threads that call seal, advance or open
    MaxOffset,     \* bound: offsets issued
    MaxBatch,      \* bound: rows of one append
    TargetRows,    \* config.target_seal_rows
    Paths,         \* bound: file names in use at once
    Owners,        \* bound: claim owners in use at once
    MaxCrashes,    \* bound: processes killed
    MaxLapses,     \* bound: claims that outlive their TTL
    BoundedStall   \* TRUE: no seal attempt outlasts a retention (see Due)

ASSUME SealersAssumption == IsFiniteSet(Sealers)
ASSUME BoundsAssumption ==
    /\ MaxOffset \in Nat /\ MaxBatch \in Nat \ {0} /\ TargetRows \in Nat \ {0}
    /\ MaxCrashes \in Nat /\ MaxLapses \in Nat
    /\ Paths \subseteq Nat \ {0} /\ Owners \subseteq Nat \ {0}
    /\ BoundedStall \in BOOLEAN

VARIABLES
    seq,        \* sqlite_sequence: the highest offset issued
    buffer,     \* offsets of the rows in the buffer table
    open,       \* start_offset of the open extent group, 0 while it is empty
    extent,     \* closed groups: [start, end, path], path 0 until named
    sealing,    \* the `sealing` row, a set of at most one [start, end, path]
    queue,      \* pending_delete: file names waiting to be unlinked
    claims,     \* the claim table; expires is 1 while live and 0 once lapsed
    disk,       \* Parquet files on disk: [path, rows]
    table,      \* files of the staging table's snapshot: [path, start, end]
    through,    \* meta published_through, 0 if nothing is published
    published,  \* offsets the published table holds
    doomed,     \* file names the running drain has decided to unlink
    pc,         \* what each sealer does next
    job,        \* its locals
    crashes,
    lapses

db == <<seq, buffer, open, extent, sealing, queue, through>>
files == <<disk, table, published, doomed>>
bounds == <<crashes, lapses>>
vars == <<db, files, claims, pc, job, bounds>>

Everything == MaxOffset + 10          \* above every offset (_claim.EVERYTHING)
NoJob == [owner |-> 0, start |-> 0, end |-> 0, path |-> 0, thr |-> 0]

-----------------------------------------------------------------------------
(***************************************************************************)
(* Reads of the database and of the table.                                 *)
(***************************************************************************)

\* Oldest closed group that no file is named for.
Pending == {g \in extent : g.path = 0}
PendingGroup == CHOOSE g \in Pending : \A h \in Pending : g.start <= h.start

Named(p) == \E f \in table : f.path = p
SpanEnd == Max({0} \cup {f.end : f \in table})
RowsOf(p) == UNION {f.rows : f \in {f \in disk : f.path = p}}

\* Names remembered somewhere.  A fresh uuid is a name remembered nowhere.
UsedPaths ==
    {f.path : f \in disk} \cup {f.path : f \in table} \cup {g.path : g \in extent}
        \cup {s.path : s \in sealing} \cup queue \cup doomed
        \cup {job[s].path : s \in Sealers}
UsedOwners == {r.owner : r \in claims} \cup {job[s].owner : s \in Sealers}
FreshPath == Min(Paths \ UsedPaths)
FreshOwner == Min(Owners \ UsedOwners)

(***************************************************************************)
(* The claim table with time left out: a row lapses when its TTL runs out, *)
(* at any moment, and renewing makes it live again.  Module Claims shows   *)
(* that nothing but the row decides.                                       *)
(***************************************************************************)

CanClaim(d) == ~Clash(claims, 0, d, 0)
Claimed(o, d) == Acquired(claims, o, d, 0, 1)
Held(s) == HasRow(claims, job[s].owner)

-----------------------------------------------------------------------------

Init ==
    /\ seq = 0 /\ buffer = {} /\ open = 0 /\ extent = {} /\ sealing = {} /\ queue = {}
    /\ claims = {}
    /\ disk = {} /\ table = {} /\ through = 0 /\ published = {} /\ doomed = {}
    /\ pc = [s \in Sealers |-> "idle"]
    /\ job = [s \in Sealers |-> NoJob]
    /\ crashes = 0 /\ lapses = 0

(***************************************************************************)
(* Appends.                                                                *)
(***************************************************************************)

\* Where the group that row o joins starts, given the rows that ended one.
GroupStart(cuts, o) ==
    LET before == {c \in cuts : c < o}
    IN  IF before # {} THEN Max(before) + 1
        ELSE IF open = 0 THEN seq + 1 ELSE open

\* Buffer.append: a batch in one transaction.  A row ends its group when the
\* group reaches target_seal_rows, or when its measured bytes reach
\* target_seal_size, which may be any row.
Append(k) ==
    /\ seq + k <= MaxOffset
    /\ \E cuts \in SUBSET (seq + 1 .. seq + k) :
        /\ \A o \in seq + 1 .. seq + k : o - GroupStart(cuts, o) + 1 >= TargetRows => o \in cuts
        /\ extent' = extent \cup
              {[start |-> GroupStart(cuts, c), end |-> c + 1, path |-> 0] : c \in cuts}
        /\ open' = IF seq + k \in cuts THEN 0 ELSE GroupStart(cuts, seq + k)
    /\ seq' = seq + k
    /\ buffer' = buffer \cup (seq + 1 .. seq + k)
    /\ UNCHANGED <<sealing, queue, through, files, claims, pc, job, bounds>>

\* Buffer.close_open_group, which seal(flush=True) calls first.
CloseOpenGroup ==
    /\ open # 0
    /\ \E o \in buffer : o >= open
    /\ extent' = extent \cup {[start |-> open, end |-> Max(buffer) + 1, path |-> 0]}
    /\ open' = 0
    /\ UNCHANGED <<seq, buffer, sealing, queue, through, files, claims, pc, job, bounds>>

(***************************************************************************)
(* A sealer.  job.start and job.end are the range it claims, then the      *)
(* group it is writing, to job.path; job.thr is the watermark it has read. *)
(***************************************************************************)

Go(s, label) == pc' = [pc EXCEPT ![s] = label]

\* To the `finally` that releases the claim: by return or by exception.
Leave(s) ==
    /\ Go(s, "release")
    /\ job' = [job EXCEPT ![s] = [NoJob EXCEPT !.owner = job[s].owner]]

\* _seal_queued reads the oldest closed group and mints an owner for it.
PickGroup(s) ==
    /\ pc[s] = "idle"
    /\ Pending # {}
    /\ Owners \ UsedOwners # {}
    /\ job' = [job EXCEPT ![s] = [NoJob EXCEPT !.owner = FreshOwner,
                                               !.start = PendingGroup.start,
                                               !.end = PendingGroup.end]]
    /\ Go(s, "acquire")
    /\ UNCHANGED <<db, files, claims, bounds>>

\* recover, on every open of the log: the whole log under the seal role.
PickRecover(s) ==
    /\ pc[s] = "idle"
    /\ sealing # {}
    /\ Owners \ UsedOwners # {}
    /\ job' = [job EXCEPT ![s] = [NoJob EXCEPT !.owner = FreshOwner, !.end = Everything]]
    /\ Go(s, "acquire")
    /\ UNCHANGED <<db, files, claims, bounds>>

\* Claim.acquire: refused, or in.
Acquire(s) ==
    /\ pc[s] = "acquire"
    /\ \/ /\ ~CanClaim(job[s])
          /\ Go(s, "idle")
          /\ job' = [job EXCEPT ![s] = NoJob]
          /\ UNCHANGED claims
       \/ /\ CanClaim(job[s])
          /\ claims' = Claimed(job[s].owner, job[s])
          /\ Go(s, IF job[s].end = Everything THEN "recover" ELSE "recheck")
          /\ UNCHANGED job
    /\ UNCHANGED <<db, files, bounds>>

\* Under the claim: the group must still be the oldest unnamed one.
Recheck(s) ==
    /\ pc[s] = "recheck"
    /\ IF \E g \in Pending : g = PendingGroup /\ g.start = job[s].start /\ g.end = job[s].end
       THEN Go(s, "intent") /\ UNCHANGED job
       ELSE Leave(s)
    /\ UNCHANGED <<db, files, claims, bounds>>

\* Mutant of LookForIntent: an intent for this group is left to its owner.
Mut_LookForIntentSkip(s) ==
    /\ pc[s] = "intent"
    /\ IF \E i \in sealing : i.end = job[s].end
       THEN Leave(s)
       ELSE /\ Paths \ UsedPaths # {}
            /\ job' = [job EXCEPT ![s].path = FreshPath]
            /\ Go(s, "claimseal")
    /\ UNCHANGED <<db, files, claims, bounds>>

\* pending_seal: an intent that ends where this group ends belongs to it, and
\* is recovered rather than replaced.
LookForIntent(s) ==
    /\ pc[s] = "intent"
    /\ IF \E i \in sealing : i.end = job[s].end
       THEN Go(s, "recover") /\ UNCHANGED job
       ELSE /\ Paths \ UsedPaths # {}
            /\ job' = [job EXCEPT ![s].path = FreshPath]
            /\ Go(s, "claimseal")
    /\ UNCHANGED <<db, files, claims, bounds>>

\* Buffer.claim_seal: the intent replaces whatever row is there.
ReplaceIntent(s) == sealing' = {[start |-> job[s].start, end |-> job[s].end, path |-> job[s].path]}

ClaimSeal(s) ==
    /\ pc[s] = "claimseal"
    /\ ReplaceIntent(s)
    /\ Go(s, "renew")
    /\ UNCHANGED <<seq, buffer, open, extent, queue, through, files, claims, job, bounds>>

\* The claim is renewed before the write.  Without it the seal raises, and
\* releases on the way out.
RenewBeforeWrite(s) ==
    /\ pc[s] = "renew"
    /\ claims' = Renewed(claims, job[s].owner, 0, 1)
    /\ IF Held(s) THEN Go(s, "write") /\ UNCHANGED job ELSE Leave(s)
    /\ UNCHANGED <<db, files, bounds>>

\* rows_between and write_parquet: the rows of the group that are still in
\* the buffer, fsynced under the intended name.
WriteFile(s) ==
    /\ pc[s] = "write"
    /\ disk' = disk \cup {[path |-> job[s].path,
                           rows |-> buffer \cap (job[s].start .. job[s].end - 1)]}
    /\ Go(s, "fence")
    /\ UNCHANGED <<db, table, published, doomed, claims, job, bounds>>

\* Mutant of RenewBeforeCommit: straight to register, with neither fence.
Mut_NoFence(s) ==
    /\ pc[s] = "fence"
    /\ Go(s, "register")
    /\ UNCHANGED <<db, files, claims, job, bounds>>

\* The claim is renewed again before the commit; a file that lost its claim
\* is queued for deletion.
RenewBeforeCommit(s) ==
    /\ pc[s] = "fence"
    /\ claims' = Renewed(claims, job[s].owner, 0, 1)
    /\ Go(s, IF Held(s) THEN "watermark" ELSE "lost")
    /\ UNCHANGED <<db, files, job, bounds>>

QueueLostFile(s) ==
    /\ pc[s] = "lost"
    /\ queue' = queue \cup {job[s].path}
    /\ Leave(s)
    /\ UNCHANGED <<seq, buffer, open, extent, sealing, through, files, claims, bounds>>

\* published_through is read once, as an argument of register.
ReadWatermark(s) ==
    /\ pc[s] = "watermark"
    /\ job' = [job EXCEPT ![s].thr = through]
    /\ Go(s, "register")
    /\ UNCHANGED <<db, files, claims, bounds>>

\* Mutant of Declines: only the published table is asked.
Mut_DeclinesPublished(s) == job[s].thr + 1 >= job[s].end

\* register declines a range that the staging table or the published table,
\* as far as the caller knows, already covers.
Declines(s) == SpanEnd >= job[s].end \/ job[s].thr + 1 >= job[s].end

\* One compare-and-swap on the catalog: the check is repeated on every
\* attempt, so it holds of the snapshot the commit replaces.  add_files reads
\* the file's footer: its range is that of the rows in it, and a file that is
\* no longer on disk raises.
Register(s) ==
    /\ pc[s] = "register"
    /\ \/ /\ Declines(s)
          /\ Go(s, "declined") /\ job' = [job EXCEPT ![s].thr = 0]
          /\ UNCHANGED table
       \/ /\ ~Declines(s)
          /\ RowsOf(job[s].path) # {}
          /\ table' = table \cup {[path |-> job[s].path,
                                   start |-> Min(RowsOf(job[s].path)),
                                   end |-> Max(RowsOf(job[s].path)) + 1]}
          /\ Go(s, "finish") /\ job' = [job EXCEPT ![s].thr = 0]
       \/ /\ ~Declines(s)
          /\ RowsOf(job[s].path) = {}
          /\ Leave(s)
          /\ UNCHANGED table
    /\ UNCHANGED <<db, disk, published, doomed, claims, bounds>>

QueueDeclinedFile(s) ==
    /\ pc[s] = "declined"
    /\ queue' = queue \cup {job[s].path}
    /\ Go(s, "finish")
    /\ UNCHANGED <<seq, buffer, open, extent, sealing, through, files, claims, job, bounds>>

\* Buffer.finish_seal: only the intent with this name is removed, and only
\* then is the group named; otherwise another sealer has taken the group over.
FinishSeal(s) ==
    /\ pc[s] = "finish"
    /\ IF \E i \in sealing : i.path = job[s].path
       THEN /\ sealing' = {}
            /\ extent' = {IF g.end = job[s].end /\ g.path = 0
                          THEN [g EXCEPT !.path = job[s].path] ELSE g : g \in extent}
       ELSE UNCHANGED <<sealing, extent>>
    /\ Leave(s)
    /\ UNCHANGED <<seq, buffer, open, queue, through, files, claims, bounds>>

ReleaseClaim(s) ==
    /\ pc[s] = "release"
    /\ claims' = Released(claims, job[s].owner)
    /\ job' = [job EXCEPT ![s] = NoJob]
    /\ Go(s, "idle")
    /\ UNCHANGED <<db, files, bounds>>

(***************************************************************************)
(* _recover_seal, from recover or from _seal_queued: finish what landed,   *)
(* else queue the half-done file and write the group under a new name.     *)
(***************************************************************************)

ReadIntent(s) ==
    /\ pc[s] = "recover"
    /\ IF sealing = {}
       THEN Leave(s)
       ELSE \E i \in sealing :
              /\ job' = [job EXCEPT ![s].start = i.start, ![s].end = i.end, ![s].path = i.path]
              /\ Go(s, "landed")
    /\ UNCHANGED <<db, files, claims, bounds>>

\* Mutant of LookForLanded: a file on disk is taken for a commit that landed.
Mut_LookOnDisk(s) ==
    /\ pc[s] = "landed"
    /\ Go(s, IF RowsOf(job[s].path) # {} THEN "finish" ELSE "abandon")
    /\ UNCHANGED <<db, files, claims, job, bounds>>

LookForLanded(s) ==
    /\ pc[s] = "landed"
    /\ Go(s, IF Named(job[s].path) THEN "finish" ELSE "abandon")
    /\ UNCHANGED <<db, files, claims, job, bounds>>

\* Mutant of QueueAbandoned: the retry reuses the name that was queued.
Mut_RetrySameName(s) ==
    /\ pc[s] = "abandon"
    /\ queue' = queue \cup {job[s].path}
    /\ Go(s, "reclaim")
    /\ UNCHANGED <<seq, buffer, open, extent, sealing, through, files, claims, job, bounds>>

QueueAbandoned(s) ==
    /\ pc[s] = "abandon"
    /\ Paths \ UsedPaths # {}
    /\ queue' = queue \cup {job[s].path}
    /\ job' = [job EXCEPT ![s].path = FreshPath]
    /\ Go(s, "reclaim")
    /\ UNCHANGED <<seq, buffer, open, extent, sealing, through, files, claims, bounds>>

ClaimRetry(s) ==
    /\ pc[s] = "reclaim"
    /\ ReplaceIntent(s)
    /\ Go(s, "write")
    /\ UNCHANGED <<seq, buffer, open, extent, queue, through, files, claims, job, bounds>>

SealStep(s) ==
    \/ PickGroup(s) \/ PickRecover(s) \/ Acquire(s) \/ Recheck(s) \/ LookForIntent(s)
    \/ ClaimSeal(s) \/ RenewBeforeWrite(s) \/ WriteFile(s) \/ RenewBeforeCommit(s)
    \/ QueueLostFile(s) \/ ReadWatermark(s) \/ Register(s) \/ QueueDeclinedFile(s)
    \/ FinishSeal(s) \/ ReleaseClaim(s)
    \/ ReadIntent(s) \/ LookForLanded(s) \/ QueueAbandoned(s) \/ ClaimRetry(s)

(***************************************************************************)
(* What goes wrong.                                                        *)
(***************************************************************************)

\* The process dies.  SQLite, the disk and the catalog keep what committed.
Crash(s) ==
    /\ pc[s] # "idle"
    /\ crashes < MaxCrashes
    /\ crashes' = crashes + 1
    /\ Go(s, "idle")
    /\ job' = [job EXCEPT ![s] = NoJob]
    /\ UNCHANGED <<db, files, claims, lapses>>

\* A claim outlives its TTL: its holder is slow or stopped ...
Expire(r) == r.expires = 1 /\ claims' = (claims \ {r}) \cup {[r EXCEPT !.expires = 0]}
LiveOwners == {job[s].owner : s \in Sealers}

Lapse ==
    /\ lapses < MaxLapses
    /\ lapses' = lapses + 1
    /\ \E r \in claims : r.owner \in LiveOwners /\ Expire(r)
    /\ UNCHANGED <<db, files, pc, job, crashes>>

\* ... or dead.
LapseOrphan ==
    /\ \E r \in claims : r.owner \notin LiveOwners /\ Expire(r)
    /\ UNCHANGED <<db, files, pc, job, bounds>>

(***************************************************************************)
(* The tiers below and the reclaimer, as the commits that sealing can see. *)
(***************************************************************************)

\* With BoundedStall a seal attempt, slow as it may be against the 30 s TTL,
\* ends before a retention does: staging files of a range being committed do
\* not age out of the table (staging_retention), nor does a file that an
\* attempt is still working on come due (staging_snapshot_retention, 15 min).
RangesSettled == BoundedStall => \A s \in Sealers : pc[s] \notin {"watermark", "register"}
Due(p) == BoundedStall => \A s \in Sealers : job[s].path # p

\* publish pushed and confirmed a prefix of the staging files, under a claim
\* from the watermark to the end of the last one.  It uploads the files it
\* registers, so they are on disk.
Publish ==
    /\ \E f \in table :
        LET landed == {g \in table : g.start > through /\ g.end <= f.end}
            d == [start |-> through + 1, end |-> f.end]
        IN  /\ f \in landed
            /\ \A g \in landed : RowsOf(g.path) # {}
            /\ CanClaim(d)
            /\ claims' = Swept(claims, d, 0)
            /\ through' = f.end - 1
            /\ published' = published \cup UNION {RowsOf(g.path) : g \in landed}
    /\ UNCHANGED <<seq, buffer, open, extent, sealing, queue, disk, table, doomed,
                   pc, job, bounds>>

\* evict_buffer: rows below the published prefix of the staging files.
PublishedPrefix ==
    Max({0} \cup {f.end : f \in {f \in table : \A g \in table : g.end <= f.end => g.end <= through + 1}})

EvictBuffer ==
    /\ \E lo, hi \in 1 .. PublishedPrefix :    \* the caller's chunk
        LET gone == {o \in buffer : lo <= o /\ o < hi}
        IN  gone # {} /\ buffer' = buffer \ gone
    /\ UNCHANGED <<seq, open, extent, sealing, queue, through, files, claims, pc, job, bounds>>

\* evict: staging files the published table holds leave the snapshot, under a
\* claim on everything below them, and are queued.
EvictStaging ==
    /\ \E f \in table :
        /\ f.end <= PublishedPrefix
        /\ RangesSettled
        /\ CanClaim([start |-> 0, end |-> f.end])
        /\ claims' = Swept(claims, [start |-> 0, end |-> f.end], 0)
        /\ queue' = queue \cup {g.path : g \in {g \in table : g.end <= f.end}}
        /\ table' = {g \in table : g.end > f.end}
    /\ UNCHANGED <<seq, buffer, open, extent, sealing, through, disk, published, doomed,
                   pc, job, bounds>>

\* Mutant of DrainLook: the veto of referenced files is missing.
Mut_DrainUnvetoed ==
    /\ doomed = {}
    /\ doomed' = {p \in queue : Due(p)}
    /\ doomed' # {}
    /\ UNCHANGED <<db, disk, table, published, claims, pc, job, bounds>>

\* drain looks which due files the table references, with no claim ...
DrainLook ==
    /\ doomed = {}
    /\ doomed' = {p \in queue : ~Named(p) /\ Due(p)}
    /\ doomed' # {}
    /\ UNCHANGED <<db, disk, table, published, claims, pc, job, bounds>>

\* ... and then unlinks them and forgets the queue row and the extent row.
DrainUnlink ==
    /\ \E p \in doomed :
        /\ disk' = {f \in disk : f.path # p}
        /\ queue' = queue \ {p}
        /\ extent' = {g \in extent : g.path # p}
        /\ doomed' = doomed \ {p}
    /\ UNCHANGED <<seq, buffer, open, sealing, through, table, published, claims, pc, job, bounds>>

Next ==
    \/ \E k \in 1..MaxBatch : Append(k)
    \/ CloseOpenGroup
    \/ \E s \in Sealers : SealStep(s) \/ Crash(s)
    \/ Lapse \/ LapseOrphan
    \/ Publish \/ EvictBuffer \/ EvictStaging
    \/ DrainLook \/ DrainUnlink

Spec == Init /\ [][Next]_vars

-----------------------------------------------------------------------------
(***************************************************************************)
(* Properties.                                                             *)
(***************************************************************************)

PC == {"idle", "acquire", "recheck", "intent", "claimseal", "renew", "write", "fence",
       "lost", "watermark", "register", "declined", "finish", "release",
       "recover", "landed", "abandon", "reclaim"}
Group == [start : 1..MaxOffset, end : 2..MaxOffset + 1, path : Paths \cup {0}]

TypeOK ==
    /\ seq \in 0..MaxOffset
    /\ buffer \subseteq 1..seq /\ published \subseteq 1..seq
    /\ open \in 0..seq /\ through \in 0..seq
    /\ extent \subseteq Group
    /\ sealing \subseteq Group /\ Cardinality(sealing) <= 1
    /\ queue \subseteq Paths /\ doomed \subseteq Paths
    /\ claims \subseteq [owner : Owners, expires : {0, 1}, start : Nat, end : Nat]
    /\ disk \subseteq [path : Paths, rows : SUBSET (1..seq)]
    /\ table \subseteq Group
    /\ pc \in [Sealers -> PC]
    /\ job \in [Sealers -> [owner : Owners \cup {0}, start : Nat, end : Nat,
                            path : Paths \cup {0}, thr : Nat]]
    /\ crashes \in 0..MaxCrashes /\ lapses \in 0..MaxLapses

Span(f) == f.start .. f.end - 1
Staged == UNION {Span(f) : f \in table}

\* A row in no file yet is in a group that some seal will still write: no
\* group is named, and none dropped, before its rows are in a table.
NothingForgotten ==
    \A o \in 1..seq :
        \/ o \in published \cup Staged
        \/ \E g \in Pending : o \in Span(g)
        \/ open # 0 /\ o >= open

\* A query takes the rows below the staging table from the published table,
\* the staging table whole, and the rest from the buffer (Reader._union); with
\* staging empty, what the published table has not got comes from the buffer.
PublishedEnd == Max({0} \cup published) + 1
SpanStart == Min({f.start : f \in table})
ServedByPublished(o) == o \in published /\ (table = {} \/ o < SpanStart)
ServedByBuffer(o) == o \in buffer /\ o >= (IF table = {} THEN PublishedEnd ELSE SpanEnd)

\* A query returns every appended row exactly once: two owners of a group
\* never both land, staging starts where the published table can take over,
\* and the buffer still has what lies above.
ReadsExactlyOnce ==
    \A o \in 1..seq :
        Cardinality({f \in table : o \in Span(f)})
            + (IF ServedByPublished(o) THEN 1 ELSE 0)
            + (IF ServedByBuffer(o) THEN 1 ELSE 0) = 1

\* A commit never re-adds to staging a range that the published table already
\* holds: a stalled sealer resuming after its range was sealed by another
\* owner, published and evicted is declined (_table.py, LogTable._covers).
NeverReAdds ==
    [][\A f \in table' \ table : f.end > through + 1]_vars

\* What drain takes no claim for: a name that is due and unreferenced stays
\* unreferenced (_maintenance.py, Maintenance.drain).
DoomedStaysOut ==
    [][\A p \in doomed : ~Named(p) => ~Named(p)']_vars

\* I6: the staging table never names a file that was unlinked.
NoDanglingFile ==
    \A f \in table : \E g \in disk : g.path = f.path

\* I2: "No file can exist that this database cannot name": each file on disk
\* is in the table, intended, queued, or held by a running sealer.  Not so once
\* a sealer has outlived its claim (README, section 4).
EveryFileNamed ==
    \A f \in disk :
        \/ Named(f.path) \/ f.path \in queue
        \/ \E i \in sealing : i.path = f.path
        \/ \E g \in extent : g.path = f.path
        \/ \E s \in Sealers : job[s].path = f.path

\* A sealer with a closed group to seal takes its next step, and a dead
\* process's claim runs out.
Fairness ==
    /\ \A s \in Sealers : WF_vars(SealStep(s))
    /\ WF_vars(LapseOrphan)

FairSpec == Spec /\ Fairness

\* The seal queue drains: after any number of kills and lapses, every closed
\* group is in the end named.
QueueDrains == []<>(Pending = {})

=============================================================================
