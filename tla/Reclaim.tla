------------------------------ MODULE Reclaim ------------------------------
(***************************************************************************)
(* How a table's files leave the disk (_maintenance.py, _table.py): the    *)
(* deletion queue and its grace period, snapshot expiry, the drain and the *)
(* sweep of stranded metadata, beside a process that commits and a reader  *)
(* that holds a snapshot.  None of the three takes a claim.                *)
(*                                                                         *)
(* One table, staging or published: both take the same steps, with their   *)
(* own retention, and Batched tells them apart where they differ.  A       *)
(* commit writes a data file, a manifest and a manifest list; one that     *)
(* rewrites the manifests also writes one it folds away, which no snapshot *)
(* ever lists.  metadata.json files, which pyiceberg prunes itself, are    *)
(* left out.  Another process's commits are seen by this one at a reload.  *)
(***************************************************************************)
EXTENDS Integers, FiniteSets, Functions

CONSTANTS
    Retention,    \* the table's snapshot retention, which is also the grace
    MinAge,       \* max(retention, SWEEP_MIN_AGE)
    Slack,        \* a quarter of the retention
    Batched,      \* the published table outside retire: an expiry has to be worth a commit
    StampsKept,   \* no crash comes between a commit and the restamp after it
    MaxTime,      \* bound: clock ticks
    MaxCommits,   \* bound: commits attempted, but for the last that is lost and retried
    MaxCrashes,   \* bound: crashes of the committing, expiring or draining thread
    MaxLooks      \* bound: listings of the sweep, which are hours apart, and reads

ASSUME ReclaimAssumption ==
    /\ Retention \in Nat /\ Slack \in Nat /\ MinAge \in Nat /\ MinAge >= Retention
    /\ Batched \in BOOLEAN /\ StampsKept \in BOOLEAN
    /\ MaxTime \in Nat /\ MaxCommits \in Nat /\ MaxCrashes \in Nat /\ MaxLooks \in Nat

VARIABLES
    now,       \* the wall clock
    catalog,   \* what the catalog row names: live snapshots and the current one
    mem,       \* the process's loaded copy of it, LogTable._table
    disk,      \* file -> when it was written, kept for the metadata
    queue,     \* pending_delete: file -> superseded_at
    writer,    \* the committing thread
    expirer,   \* the expiring thread
    due,       \* files the drain has read as due
    doomed,    \* files the drain has decided to unlink
    missed,    \* history: what an expiry dropped without having queued it
    sweep,     \* the sweep's listing and its backlog
    reader,    \* a reader and the snapshot it resolved
    looks,     \* listings and reads so far
    commits,   \* commits attempted
    crashes

vars == <<now, catalog, mem, disk, queue, writer, expirer, due, doomed, missed, sweep, reader, looks, commits, crashes>>

Kinds == {"data", "man", "list", "m0"}
File == (1..MaxCommits + 2) \X Kinds
IsMetadata(f) == f[2] # "data"

NoFiles == [f \in {} |-> 0]
NoSnapshot == [id |-> 0, at |-> 0, folded |-> FALSE, files |-> {}]
IdleWriter == [pc |-> "idle", old |-> {}, id |-> 0, out |-> <<0, "data">>, base |-> 0, snap |-> NoSnapshot]
IdleExpirer == [pc |-> "idle", cutoff |-> 0, paths |-> {}]
IdleSweep == [pc |-> "idle", files |-> {}]
NoReader == [at |-> 0, files |-> {}]

Snap(view, id) == CHOOSE s \in view.snaps : s.id = id
Current(view) == Snap(view, view.head)
\* LogTable.referenced_paths: data and metadata of every live snapshot.
Referenced(view) == UNION {s.files : s \in view.snaps}

\* LogTable.snapshots_older_than.
OlderThan(view, cutoff) == {s \in view.snaps : s.at < cutoff /\ s.id # view.head}

\* LogTable.expiring_paths: what the snapshots name of the table's metadata, and
\* the manifests their commits folded away, found by their number.
ExpiringPaths(snaps) ==
    {f \in UNION {s.files : s \in snaps} : IsMetadata(f)}
      \cup {<<s.id, "m0">> : s \in {t \in snaps : t.folded}}

\* Buffer.enqueue_deletions keeps the first stamp; restamp_deletions updates.
Enqueued(q, files) == [f \in DOMAIN q \cup files |-> IF f \in DOMAIN q THEN q[f] ELSE now]
Restamped(q, files) == [f \in DOMAIN q |-> IF f \in files THEN now ELSE q[f]]

Written(new) == [f \in DOMAIN disk \cup new |-> IF f \notin new THEN disk[f] ELSE IF IsMetadata(f) THEN now ELSE 0]

First == [id |-> 1, at |-> 0, folded |-> FALSE, files |-> {1} \X {"data", "man", "list"}]

Init ==
    /\ now = Retention
    /\ catalog = [snaps |-> {First}, head |-> 1]
    /\ mem = catalog
    /\ disk = [f \in First.files |-> 0]
    /\ queue = NoFiles
    /\ writer = IdleWriter /\ expirer = IdleExpirer
    /\ due = {} /\ doomed = {} /\ missed = {} /\ sweep = IdleSweep /\ reader = NoReader
    /\ looks = 0 /\ commits = 1 /\ crashes = 0

\* A commit reaches its swap within the age the sweep spares; the swap takes
\* seconds, the age is hours.  A read that outlives the retention has nothing
\* to expect.
Tick ==
    /\ now < MaxTime
    /\ writer.pc = "written" => now + 1 - writer.snap.at <= MinAge
    /\ now' = now + 1
    /\ reader' = IF now + 1 - reader.at >= Retention THEN NoReader ELSE reader
    /\ UNCHANGED <<catalog, mem, disk, queue, writer, expirer, due, doomed, missed, sweep, looks, commits, crashes>>

-----------------------------------------------------------------------------
\* The committing thread: a compaction, a swap or an eviction queues what it
\* supersedes, commits, and re-dates what it queued.  A seal supersedes nothing.

\* The output is written under the name the operation's claim records, and
\* what it supersedes is queued (Maintenance._enqueue), before the commit.
Supersede ==
    /\ writer.pc = "idle" /\ commits < MaxCommits
    /\ LET id == commits + 1
           out == <<id, "data">>
       IN  \E old \in {{}, {f \in Current(catalog).files : ~IsMetadata(f)}} :
              /\ writer' = [IdleWriter EXCEPT !.pc = "queued", !.id = id, !.old = old, !.out = out]
              /\ queue' = Enqueued(queue, old)
              /\ disk' = Written({out})
    /\ commits' = commits + 1
    /\ UNCHANGED <<now, catalog, mem, expirer, due, doomed, missed, sweep, reader, looks, crashes>>

\* The snapshot an attempt builds on the current one.  One that supersedes
\* files rewrites the manifests; one that only adds inherits them.
Built(id, out, old) ==
    LET base == Current(catalog)
        kept == IF old = {} THEN {f \in base.files : f[2] # "list"}
                ELSE {f \in base.files : ~IsMetadata(f)} \ old
    IN  [id |-> id, at |-> now, folded |-> old # {},
         files |-> kept \cup {out, <<id, "man">>, <<id, "list">>}]

\* The attempt's metadata reaches the disk before the catalog names it.
WriteCommit ==
    /\ writer.pc = "queued"
    /\ LET s == Built(writer.id, writer.out, writer.old)
       IN  /\ writer' = [writer EXCEPT !.pc = "written", !.base = catalog.head, !.snap = s]
           /\ disk' = Written(ExpiringPaths({s}) \ DOMAIN disk)
    /\ UNCHANGED <<now, catalog, mem, queue, expirer, due, doomed, missed, sweep, reader, looks, commits, crashes>>

\* LogTable._commit: the swap lands if the branch has not moved.  A commit of
\* this process is in its copy at once.
Land ==
    /\ writer.pc = "written" /\ writer.base = catalog.head
    /\ catalog' = [head |-> writer.snap.id, snaps |-> catalog.snaps \cup {writer.snap}]
    /\ mem' \in {mem, catalog'}
    /\ writer' = IF writer.old = {} THEN IdleWriter ELSE [writer EXCEPT !.pc = "landed", !.snap = NoSnapshot]
    /\ UNCHANGED <<now, disk, queue, expirer, due, doomed, missed, sweep, reader, looks, commits, crashes>>

\* A seal of another process moves the branch first.  The metadata the loser
\* wrote stays behind under names nothing records; the loser reloads and tries
\* again.
Lose ==
    /\ writer.pc = "written" /\ commits <= MaxCommits
    /\ LET id == commits + 1
           s == Built(id, <<id, "data">>, {})
       IN  /\ catalog' = [head |-> id, snaps |-> catalog.snaps \cup {s}]
           /\ disk' = Written(s.files \ DOMAIN disk)
    /\ commits' = commits + 2
    /\ mem' = catalog'
    /\ writer' = [writer EXCEPT !.pc = "queued", !.id = commits + 2]
    /\ UNCHANGED <<now, queue, expirer, due, doomed, missed, sweep, reader, looks, crashes>>

\* Mutant of Restamp: the queue keeps the stamps from before the commit.
Mut_RestampNone ==
    /\ writer.pc = "landed"
    /\ writer' = IdleWriter
    /\ UNCHANGED <<now, catalog, mem, disk, queue, expirer, due, doomed, missed, sweep, reader, looks, commits, crashes>>

\* Buffer.restamp_deletions after the commit.
Restamp ==
    /\ writer.pc = "landed"
    /\ queue' = Restamped(queue, writer.old)
    /\ writer' = IdleWriter
    /\ UNCHANGED <<now, catalog, mem, disk, expirer, due, doomed, missed, sweep, reader, looks, commits, crashes>>

\* The process dies.  The data file it was writing is named by the operation's
\* claim, and recovery queues it (enqueue_recovered), landed or not.
Crash ==
    /\ crashes < MaxCrashes
    /\ writer.pc \in {"queued", "written"} \/ (writer.pc = "landed" /\ ~StampsKept)
    /\ crashes' = crashes + 1
    /\ queue' = Enqueued(queue, {writer.out})
    /\ writer' = IdleWriter
    /\ UNCHANGED <<now, catalog, mem, disk, expirer, due, doomed, missed, sweep, reader, looks, commits>>

-----------------------------------------------------------------------------
\* Maintenance.expire and expire_published.

\* What expires is collected from the process's copy and queued first.  The
\* published table's expiry waits until its oldest snapshot is a quarter of the
\* retention past due.
ExpireLook ==
    /\ expirer.pc = "idle"
    /\ LET cutoff == now - Retention
           old == OlderThan(mem, cutoff)
       IN  /\ Batched => \E s \in old : s.at < cutoff - Slack
           /\ expirer' = [pc |-> "queued", cutoff |-> cutoff, paths |-> ExpiringPaths(old)]
           /\ queue' = Enqueued(queue, ExpiringPaths(old))
    /\ UNCHANGED <<now, catalog, mem, disk, writer, due, doomed, missed, sweep, reader, looks, commits, crashes>>

\* LogTable.expire_snapshots_older_than looks again, at the copy as it is by
\* now or, after a lost swap, at the table; nothing to expire commits nothing.
ExpireCommit ==
    /\ expirer.pc = "queued"
    /\ \E view \in {mem, catalog} :
          LET gone == {s.id : s \in OlderThan(view, expirer.cutoff)}
              dropped == {s \in catalog.snaps : s.id \in gone}
          IN  /\ catalog' = [catalog EXCEPT !.snaps = @ \ dropped]
              /\ missed' = missed \cup (ExpiringPaths(dropped) \ (expirer.paths \cup Referenced(catalog')))
    /\ mem' = catalog'
    /\ expirer' = [expirer EXCEPT !.pc = "expired", !.cutoff = 0]
    /\ UNCHANGED <<now, disk, queue, writer, due, doomed, sweep, reader, looks, commits, crashes>>

\* Mutant of ExpireRestamp: an expiry leaves the stamps of its queueing.
Mut_ExpireRestampNone ==
    /\ expirer.pc = "expired"
    /\ expirer' = IdleExpirer
    /\ UNCHANGED <<now, catalog, mem, disk, queue, writer, due, doomed, missed, sweep, reader, looks, commits, crashes>>

\* Maintenance.expire: what it queued is dated anew after the commit.
ExpireRestamp ==
    /\ expirer.pc = "expired"
    /\ queue' = Restamped(queue, expirer.paths)
    /\ expirer' = IdleExpirer
    /\ UNCHANGED <<now, catalog, mem, disk, writer, due, doomed, missed, sweep, reader, looks, commits, crashes>>

\* The expiring thread fails: the queue was written, the snapshots are there or
\* gone, the stamps are the old ones.
ExpireFail ==
    /\ crashes < MaxCrashes
    /\ expirer.pc = "queued" \/ (expirer.pc = "expired" /\ ~StampsKept)
    /\ crashes' = crashes + 1
    /\ expirer' = IdleExpirer
    /\ UNCHANGED <<now, catalog, mem, disk, queue, writer, due, doomed, missed, sweep, reader, looks, commits>>

-----------------------------------------------------------------------------
\* Maintenance.drain and _drain_published.

\* The queued files whose grace has passed are read before anything else.
DrainDue ==
    /\ due = {} /\ doomed = {}
    /\ due' = {f \in DOMAIN queue : queue[f] <= now - Retention}
    /\ due' # {}
    /\ UNCHANGED <<now, catalog, mem, disk, queue, writer, expirer, doomed, missed, sweep, reader, looks, commits, crashes>>

\* Mutant of DrainVeto: the veto asks the process's copy, not a fresh one.
Mut_DrainStale ==
    /\ due # {} /\ due' = {}
    /\ doomed' = due \ Referenced(mem)
    /\ UNCHANGED <<now, catalog, mem, disk, queue, writer, expirer, missed, sweep, reader, looks, commits, crashes>>

\* The veto: less those a live snapshot of the table, reloaded now, needs.  The
\* queue is not read again.
DrainVeto ==
    /\ due # {} /\ due' = {}
    /\ doomed' = due \ Referenced(catalog)
    /\ mem' = catalog
    /\ UNCHANGED <<now, catalog, disk, queue, writer, expirer, missed, sweep, reader, looks, commits, crashes>>

\* Mutant of DrainUnlink: forget first, unlink second.
Mut_DrainForgetFirst ==
    /\ doomed # {}
    /\ LET f == CHOOSE g \in doomed : TRUE
       IN  /\ queue' = Restrict(queue, DOMAIN queue \ {f})
           /\ \/ disk' = Restrict(disk, DOMAIN disk \ {f}) /\ doomed' = doomed \ {f} /\ crashes' = crashes
              \/ disk' = disk /\ doomed' = {} /\ crashes < MaxCrashes /\ crashes' = crashes + 1
    /\ UNCHANGED <<now, catalog, mem, writer, expirer, due, missed, sweep, reader, looks, commits>>

\* Unlink first, forget second; a crash between the two leaves the row.  The
\* files go one by one, in some fixed order.
DrainUnlink ==
    /\ doomed # {}
    /\ LET f == CHOOSE g \in doomed : TRUE
       IN  /\ disk' = Restrict(disk, DOMAIN disk \ {f})
           /\ \/ queue' = Restrict(queue, DOMAIN queue \ {f}) /\ doomed' = doomed \ {f} /\ crashes' = crashes
              \/ queue' = queue /\ doomed' = {} /\ crashes < MaxCrashes /\ crashes' = crashes + 1
    /\ UNCHANGED <<now, catalog, mem, writer, expirer, due, missed, sweep, reader, looks, commits>>

-----------------------------------------------------------------------------
\* Maintenance._sweep, sweep_everything and _stranded.

\* The directory is listed, metadata only, with the age of each file.
SweepList ==
    /\ sweep = IdleSweep /\ looks < MaxLooks /\ looks' = looks + 1
    /\ sweep' = [pc |-> "listed", files |-> {f \in DOMAIN disk : IsMetadata(f)}]
    /\ mem' = catalog
    /\ UNCHANGED <<now, catalog, disk, queue, writer, expirer, due, doomed, missed, reader, commits, crashes>>

\* What is live is read after the listing, so a commit in between counts.  The
\* queue is read last; what leaves it meanwhile has left the disk.
SweepLive ==
    /\ sweep.pc = "listed"
    /\ sweep' = [pc |-> "backlog",
                 files |-> {f \in sweep.files \cap DOMAIN disk : disk[f] < now - MinAge}
                              \ (Referenced(catalog) \cup DOMAIN queue)]
    /\ mem' = catalog
    /\ UNCHANGED <<now, catalog, disk, queue, writer, expirer, due, doomed, missed, reader, looks, commits, crashes>>

SweepRemove ==
    /\ sweep.pc = "backlog" /\ sweep.files # {}
    /\ LET f == CHOOSE g \in sweep.files : TRUE
       IN  /\ sweep' = [sweep EXCEPT !.files = @ \ {f}]
           /\ disk' = Restrict(disk, DOMAIN disk \ {f})
    /\ UNCHANGED <<now, catalog, mem, queue, writer, expirer, due, doomed, missed, reader, looks, commits, crashes>>

\* The backlog is worked down, or a failure is logged and the rest left for the
\* next listing.
SweepEnd ==
    /\ sweep.pc = "backlog"
    /\ sweep' = IdleSweep
    /\ UNCHANGED <<now, catalog, mem, disk, queue, writer, expirer, due, doomed, missed, reader, looks, commits, crashes>>

-----------------------------------------------------------------------------
\* A read resolves the current snapshot, reads its metadata when the query is
\* bound, and then streams its data files.

Resolve ==
    /\ reader = NoReader /\ looks < MaxLooks /\ looks' = looks + 1
    /\ reader' = [at |-> now, files |-> Current(catalog).files]
    /\ UNCHANGED <<now, catalog, mem, disk, queue, writer, expirer, due, doomed, missed, sweep, commits, crashes>>

Next ==
    \/ Tick
    \/ Supersede \/ WriteCommit \/ Land \/ Lose \/ Restamp \/ Crash
    \/ ExpireLook \/ ExpireCommit \/ ExpireRestamp \/ ExpireFail
    \/ DrainDue \/ DrainVeto \/ DrainUnlink
    \/ SweepList \/ SweepLive \/ SweepRemove \/ SweepEnd
    \/ Resolve

Spec == Init /\ [][Next]_vars

-----------------------------------------------------------------------------

TypeOK ==
    /\ now \in 0..MaxTime
    /\ DOMAIN disk \subseteq File /\ DOMAIN queue \subseteq File
    /\ catalog.head \in {s.id : s \in catalog.snaps}
    /\ commits \in 1..MaxCommits + 2 /\ crashes \in 0..MaxCrashes

\* Nothing a live snapshot names is ever deleted, whatever the drain and the
\* sweep do beside commits, expiries and each other, with no claim between them.
LiveOnDisk == Referenced(catalog) \subseteq DOMAIN disk

\* A scan that resolved the current snapshot keeps its data files for a whole
\* retention.  The code has gaps: see DrainSparesReaders, which says which.
ReaderKeepsFiles ==
    now - reader.at < Retention => {f \in reader.files : ~IsMetadata(f)} \subseteq DOMAIN disk

\* A file of a scan within the retention is up for deletion only if its row in
\* the queue says so as it stands.  The drain does not look at the row again.
DeletedByDueRow ==
    now - reader.at < Retention => \A f \in reader.files \cap doomed : queue[f] <= now - Retention

\* What has left the table and waits for its new stamp.
Undated ==
    (IF writer.pc = "landed" THEN writer.old ELSE {})
      \cup (IF expirer.pc = "expired" THEN expirer.paths ELSE {})

\* Within the retention, the drain goes for a file of a scan, data or metadata,
\* only by a row older than the one the queue has by now (it read the queue
\* before a commit and its restamp, and the references after), or is about to
\* have, or if an expiry dropped the file without having queued it.  Otherwise
\* the scan keeps all it resolved, however long the commit that superseded it
\* took, however often it was tried, and even if the snapshot was past its own
\* retention by then.
DrainSparesReaders ==
    now - reader.at < Retention =>
       \A f \in reader.files \cap doomed :
          queue[f] > now - Retention \/ f \in Undated \cup missed

\* A data file on disk is named by a snapshot, by the queue or by the commit
\* that is writing it: none is left for a listing to find.
DataNamed ==
    \A f \in DOMAIN disk :
        IsMetadata(f) \/ f \in Referenced(catalog) \cup DOMAIN queue
           \/ (writer.pc # "idle" /\ f = writer.out)

=============================================================================
