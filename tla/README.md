# litelink: TLA+ models and proofs

litelink is an append-only log kept in a SQLite buffer, a local Iceberg table
of Parquet files (*staging*) and, optionally, a remote Iceberg table
(*published*). Any number of threads and processes append, seal, compact,
publish, evict and read at once. The library owns no threads: all of this runs
when a caller calls it. This directory models the parts of the library that
keep those callers from losing, doubling or hiding a row, checks them with TLC
on small instances, and proves with TLAPS, for every size, the safety of the claims,
the lease, sealing, transactions, ingest, reclamation, truncate and retire, and the
offsets of a restore.

Paths below are relative to `src/src/litelink/` unless they say otherwise.

## 1. The system

| Component | Code | State it keeps | Operations | What makes it correct |
|---|---|---|---|---|
| Range claims | `_claim.py` | `claim` rows: owner, range, expiry | acquire, renew, held, release | claims never overlap; a renewal that succeeds proves nobody was given the range |
| Buffer | `_buffer.py` | `buffer` rows, `extent` groups, the `sealing` row, `meta` watermark, `pending_delete`, intents | append, close_open_group, claim_seal, finish_seal, confirm_published, ... | every row is in one group, every group is sealed once |
| Seal and recover | `_handle.py` | locals of a running seal | seal, recover | the group lands in staging exactly once whoever is killed or overtaken |
| Staging and published table | `_table.py` | a snapshot: files with offset ranges | register, replace_range, drop_below | offsets contiguous, each in one file |
| Compaction | `_maintenance.py` | - | compact | the same rows before and after; published copies keep lining up |
| Publish | `_handle.py`, `_buffer.py` | `extent_intent`, `awaiting_swap`, `published_through` | publish: reconcile, swap, upload, register, confirm | published rows exact, no push refused for ever, nothing evicted before it landed |
| Eviction | `_maintenance.py` | - | evict, evict_buffer | a row leaves a tier only after the next one has it |
| Tier rows | `_tiers.py` | the range and bounds of the published rows a read may need | replace, widen | never narrower than what staging no longer holds |
| Reader | `_read.py` | one query's locals | query | each acknowledged row once |
| Deletion queue | `_maintenance.py`, `_buffer.py` | `pending_delete` | enqueue, drain, restamp | no file is unlinked that a snapshot names |
| Location lease | `_lease.py`, `_lease_store.py` | one record in a file or object | acquire, renew, release | at most one handle with authority |
| Tail cache | `_buffer.py` | the last rows read | rows_from | an answer misses no buffered row |
| Ingest | `_handle.py` | reserved offsets, `compacting` outputs | ingest, reserve | offsets filed in order, no unfiled rows below, every output named |
| Expiry and sweep | `_maintenance.py` | snapshots, listings | expire, sweep | a reader's snapshot keeps its files |
| Truncate, retire, retired logs | `_maintenance.py`, `_handle.py`, `_retired.py` | lifecycle marks | truncate, retire, delete | resumable at every step |
| Replication and restore | `_replication.py`, `_handle.py` | a copy of the buffer | restore | no offset is issued twice |
| Published open and repair | `_published.py`, `_handle.py` | catalog entry | open, adopt, re-point | the catalog names the log's own prefix |
| Transactions, write lock | `_transaction.py`, `_sqlite.py` | one writer | acquire, hold, admit | a rolled-back transaction is never reported committed; the lock comes free |
| Config, layout, types, statistics, pruning, preflight, I/O | the other files | - | - | data and I/O; see section 7 |

How they interact. Everything local goes through one SQLite database with one
writer at a time, so a write transaction is atomic. A catalog commit is a
compare-and-swap that is retried. A Parquet file is written before the commit
that names it. None of the three is atomic with another. A *claim* on a range of
offsets excludes passes from each other. It lasts 30 s, is renewed at
checkpoints, and can lapse under a worker that is merely slow. Readers take no
claim at all.

What is hard: steps of two workers between a checkpoint and a commit; a killed
or slow sealer and whoever takes over from it; values read before a claim and
used under it; a commit that landed unacknowledged; a query that reads four
tiers at four moments; a restore from records of different ages; operations of
many steps that are stopped and called again; clocks that disagree. `PROJECT.json` lists these hazards
at their lines with the properties that would catch them.

## 2. Modules

| Module | Models | Uses |
|---|---|---|
| `ClaimTable` | the `claim` table's statements as operators on a set of rows | - |
| `Claims` | the claim protocol, with clocks and unknown COMMITs | `ClaimTable` |
| `Claims_proofs` | TLAPS proofs about `Claims` | `Claims` |
| `Seal` | append, groups, seal, recover, drain | `ClaimTable` |
| `Seal_proofs` | TLAPS proofs about `Seal` | `Seal` |
| `BufferRows` | the buffer table and its sequence: append, reserve, evict | - |
| `TailCache` | rows_from and the cached tail | `BufferRows` |
| `Transaction` | the write lock, appends, a caller's transaction | `TailCache` |
| `Transaction_proofs` | TLAPS proofs about `TailCache` and `Transaction` | `Transaction` |
| `Log` | abstract: what a log promises its readers | - |
| `Ingest` | bulk loads on reserved offsets | `BufferRows`, `ClaimTable`, `Log` |
| `Ingest_proofs` | TLAPS proofs about `Ingest` | `Ingest` |
| `CompactionPolicy` | what compaction may merge and what is final | - |
| `Tiers` | compact, publish, swap, evict, the tier row | `CompactionPolicy`, `ClaimTable` |
| `Read` | one query beside everything `Tiers` does | `Tiers` |
| `Read_proofs` | TLAPS proofs about `Tiers` and `Read` | `Read` |
| `Reclaim` | snapshots, expiry, the drain, the sweep, a reader | - |
| `Reclaim_proofs` | TLAPS proofs about `Reclaim` | `Reclaim` |
| `LogTiers` | all three tiers with every routine one step | `CompactionPolicy` |
| `Retire` | truncate and retire | `LogTiers`, `Log` |
| `Retired` | what is done to a retired log | `Retire` |
| `Restore` | restore after the loss of the machine | `LogTiers` |
| `LogTiers_proofs` | TLAPS proofs about `LogTiers`, `Retire`, `Retired` and `Restore` | `Retired`, `Restore` |
| `Lease` | the lease on a published location | - |
| `Lease_proofs` | TLAPS proofs about `Lease` | `Lease` |
| `MC*` | symmetry and ranges for TLC | the module named |

### Claims

`rows` is the table. A worker reads the clock (`Ask`), then runs acquire's single
transaction with that possibly stale stamp: refused, committed and acknowledged,
committed and *not* acknowledged, or rolled back. The last two go to the
best-effort cleanup, which may itself fail. `Renew` and `Release` are one
transaction each. The clock runs on and may be set back; a worker may die
anywhere. `overtaken` is a history variable: another owner was given an
overlapping range since this worker's own acquire.

`Seal` and `Tiers` use the same `ClaimTable` operators with time removed: a row's
`expires` is 1 while it is live and 0 once it has lapsed, and lapsing is an action
of its own. That is sound because `Claims` shows that nothing but the row decides
and `Renewed` revives an expired row nobody has taken.

### Seal

State: the buffer rows, the open and closed groups, the `sealing` row, the
deletion queue, the files on disk, the staging snapshot, the watermark.
A sealer's program counter goes through `_seal_queued`, `_write_and_commit` and
`_recover_seal` with one step per transaction, file write, table commit or read
that decides something. Append cuts groups at the row target, and at any row for
the byte target. Publishing and eviction appear as the commits sealing can see.
`Crash` kills a sealer and `Lapse` lets the claim of a running one run out.

`BoundedStall = TRUE` says that a seal attempt does not outlast a *retention*
(15 minutes for a queued file, `staging_retention` for a staged one); it may well
outlast its claim. Section 4 says what happens without it.

### Tiers, CompactionPolicy

Rows `1..MaxOffset` are appended from the start and a seal is the commit `Seal`
shows it to be. A worker starts a pass (`PickRun`, `PickPush`, `PickBoundary`)
from what it reads without a claim, claims the range, and goes through the steps of
`compact`, `publish` or `evict`. `Fail` kills a worker or ends its pass by an
exception at any step, `Lapse` outlives its claim. A delete by offset rewrites
files that reach across the range (`Without`), which is what the tables do when
a late commit meets files it did not expect. `CompactionPolicy` has the
choice of runs, the settled prefix and where a merge may cut its outputs, with
every row of size 1.

A publish's reconciliation (`Reconcile`) is one step, though the code confirms what it
finds and then forgets the rest in a transaction each (`_handle.py:3808`). Between the
two the intents of landed files are gone and those of files that never landed are
still there; the next reconciliation starts from just that and does the rest.

`PromptCommit = TRUE` says that no claim lapses between a checkpoint and the
commit right after it, for which the checkpoint has just renewed 30 s. The code
has no fence inside the commits, so the assumption is needed: with
`PromptCommit = FALSE` in `TiersStall.cfg` TLC finds a push refused because its
first file straddles the published end (`NeverRefused`), and, checked alone, a
tier row narrowed under rows that were evicted meanwhile (`TierCovers`).

### Read

`Read` adds one query to `Tiers`: the staging end, whether the buffer can match,
the buffer's rows, the staging snapshot, the tier row, the published table, each
at its own moment. The query is followed through one offset, which its predicate
may name or not, and counts how often the union returns it.

### Lease

One record replaced by compare-and-swap on its version. Handles have clocks
within `Skew` of the time of day that run unevenly and are not set back. Reading
the clock, stamping the deadline, sending, landing and being answered are separate
steps. A write whose caller gave up stays in `late` and may land at any time or
never. *Authority* is a lease in time by the handle's own clock that it has not
begun to release.

### BufferRows, TailCache, Transaction

`BufferRows` has the three things that happen to the rows' offsets: an append
takes the next ones, a reservation skips some, an eviction removes a range of them,
since the caller of `evict_buffer` may take it in chunks.
`TailCache` adds `rows_from`: the rows returned last time are sliced by count, as if
their offsets had no hole, checked, and completed with what is above them.
`Transaction` runs it beside threads that share one write connection. A thread
takes the lock, begins, inserts, commits or rolls back, and lets go; or opens a
block, which holds the lock while its own appends join it under savepoints. SQLite
may roll the block's transaction back by itself (a full disk), after which the
block's code may go on. Another process appends, reserves and evicts.

### Ingest

The writer's load goes through its refusals (queued, sealing, open group), then
per row group: name and reserve, write, renew; files are registered in batches
and recorded; an error, also one after the commit, abandons the batch, a kill leaves
it to recovery. Sealers, recoveries, publish, eviction and the drain of other processes
run beside it. `Log` is the abstract specification: rows come into view in
batches above all others, each is returned once, and stays. `IngestIsALog` is the
refinement: what a read of both tiers returns, offset by offset, is such a log.
The writer does not append during its own load (it is one caller).
`CutBesideLoad = FALSE` says that no other process calls `seal()` during a load.

### Reclaim

One table, staging or published. A commit queues what it supersedes, writes a
data file, a manifest and a manifest list, lands by compare-and-swap or loses and
tries again, and restamps the queue; a process may crash in between and recovery
queues its output. Expiry, the drain and the sweep run without any claim, each in
steps: the drain reads which rows of the queue are due (`DrainDue`), later reloads the
table and takes out what a snapshot references (`DrainVeto`), and then unlinks file by
file. It does not read the queue a second time. A reader resolves the current
snapshot, data and metadata, at any time. `due` and `doomed` are the drain's locals;
`missed` is a history variable: what an expiry dropped although its own look, earlier,
had not queued it.

Time passes in ticks. A commit is assumed to land within the sweep's minimum age after
its files were written (`SWEEP_MIN_AGE`, an hour). A read is followed until the
retention has passed; later it has nothing to expect. `StampsKept = TRUE` says that no
crash comes between a commit and the restamp after it; a drain may. `MaxLooks` bounds
listings and reads together. With 1 a behaviour has a listing of the sweep or a read,
not both: they meet only in that a listing reloads the process's copy of the table,
which other steps do too, and that the sweep unlinks metadata.
`DrainSparesReaders` is about the drain alone.

### LogTiers, Retire, Retired, Restore

`LogTiers` has the whole log with every routine one step: append, seal, compact,
publish, evict the buffer, evict staging, and `Served`, what a read returns. An
eviction may stop short of what is published: at a retention, at the caller's bounds.
`Retire` takes truncate and retire apart: one step per tier or routine, either
stopped anywhere and called again. `Retired` goes on from there: the cut of a
retired log's history and its deletion, object class by object class. It starts with
the files of the current snapshot and with any that a swap had taken out of it and a
snapshot within the retention still names.
`EvictInOrder = TRUE` says that staging gives up no row the buffer still holds, the
order `advance` uses. `IsACutLog` shows that the log, as read, refines `Log` with
cuts: a truncate takes rows from below only and none comes back.

`Restore` starts from a disaster: any published table, any stamp of what it had
issued, any older or newer replica or none, and maybe a catalog row that was put
back by hand and names an older table. It is taken step by step up to the
creation of the staging table, the commit point, and beyond, where the log is
already open to work. It may be stopped and called again; the tail's confirmation may
be all that is left of a tail that failed. Each reserve is assumed
to cover what was issued after its own record, where that is the fresher one, and
the version hint to name the table's last commit. `StopsAnywhere = FALSE` leaves out
a stop between the two reserves.

## 3. Runs

| Run | Instance | Distinct states | Shows |
|---|---|---|---|
| `claims` | 2 workers, 2 overlapping ranges and the whole log, 3 attempts, TTL 2, clock to 3 | 618 k | claims stay disjoint, renewals are sound fences, no claim is lost without a taker |
| `seal_takeover` | 2 sealers, 2 rows, one lapse | 2.0 M | a slow sealer and its successor: nothing doubled, lost from view, re-added or unlinked |
| `seal_live` | 2 sealers, 2 rows, one crash, fairness | 280 k | a kill at any step: no row forgotten, every closed group sealed in the end |
| `tiers_fail` | 1 worker, 4 rows, 4 passes, one failure | 1.1 M | compaction, publish, swap and eviction in any order, stopped at any step: files keep lining up, no push is refused |
| `tiers_stall` | 2 workers, 2 rows, 4 passes, one failure, one lapse | 2.1 M | both tables exact, rows handed over before they leave, the tier row wide enough |
| `read` | a query beside 5 passes, 2 rows | 393 k | each row exactly once |
| `lease` | 2 handles, TTL 2, skew 1, 3 writes | 1.8 M | one authority, and it is on record |
| `ingest` | 3 offsets, 2 loads of up to 2 row groups, one failure, one lapse | 347 k | loaded rows served once, outputs named, nothing live unlinked, refinement of `Log` |
| `transaction` | 2 threads, 3 offsets, 2 errors, fairness | 96 k | tail answers right, acknowledged rows durable, blocks whole, the lock comes free |
| `reclaim` | 3 commits and one lost and retried, retention 1, 3 moments, one crash, a listing or a scan | 7.7 M | what is live stays, data files stay named, a scan loses files to the drain only in three named gaps |
| `retire` | 3 rows, 2 truncates, one stop, fairness | 201 k | truncate, retire, cut and delete resume; refinement of `Log` with cuts |
| `restore` | 3 old rows, reserves 1 and 2, a new row, two stops | 612 k | no offset twice, everything left is served once, no straddler |

Why the bounds are enough for the cases in mind. Two workers and one lapse give
an owner and a successor, which is every takeover, and a second lapse repeats it.
Two rows with groups of one or two give one group with another behind it. Four
rows with files of one or two and `CompactSize = 3` give merges that do and do not
reach full size, cuts inside a merge, pushes of in-progress files and their later
swap. Three owners and three claim attempts let a lapsed claim be taken and the
taker be asked for again. `Paths` is large enough that names are never short
where it matters, since a name nothing remembers is reused. In `lease`, TTL 2 and
skew 1 are the smallest values with skew below the TTL. Three writes let one be
late, one land in between and one follow. In `ingest`, two loads of two groups
give a batch of two files, a load after an abandoned one, and an append between.
In `reclaim`, three commits give a snapshot superseded twice. The table is a retention
old at the start and the clock passes the retention twice more, so a manifest that two
snapshots inherited comes due, stays for the one, is dated anew and comes due again.
In `retire`, three rows give
a full and a growing file and a floor inside either. In `restore`, a table of one
or two files, a replica behind, at or ahead of it and reserves of different size
tell apart which record decides; two stops let a restore be repeated twice, and one
new row is the one whose offset could be taken and which seals and merges with what
was recovered.

The type invariants (`TypeOK`, `TransactionTypeOK`, ...) are stated in the modules
and used by the proofs; the runs list the properties that say more.

`CHECK_DEADLOCK FALSE`: the library acts only when called. With no group to seal,
no pass to run and the bounds used up, nothing is enabled, as it should be.

Fairness.

- `seal_live`: each sealer takes its next step (`WF(SealStep(s))`): callers run `seal`
  or `advance` in a loop, and the code waits for nobody in between, since a refused
  claim returns. And the claim of a dead process expires (`WF(LapseOrphan)`): its TTL
  runs out. Without the second, the queue of a killed sealer's log would wait for
  ever; without lapses of live sealers, as in that run, no sealer is starved.
- `transaction`: a thread inside the library takes its next step
  (`WF(Inside(t))`), and a caller's block ends (`SF(EndBlock(t))`): the lock is held
  for as long as the caller's own code runs, which the library cannot shorten.
- `retire`: a truncate that was started goes on (`WF(Truncate)`), and a log that is
  retiring has `retire` called again and run on (`WF(Resume)`, `WF(RetireClose)` once
  closed), which is what the docstring asks of the caller.

Each property has a mutant: a definition `Mut_...` next to the action it replaces,
which changes the model the way a plausible slip in the code would, and for which
TLC reports the property violated.

## 4. Where code and text disagree

The runs above keep to the assumptions section 2 names. Each of these holds in
operation but is nowhere enforced, and dropping it, by the constants given here in
the run's configuration, makes TLC show what the code then does. Where a formula named
here belongs to no run (`Seal!EveryFileNamed`, `Tiers!IntentsOutlastPush`,
`Reclaim!ReaderKeepsFiles` and others), it goes into that configuration as its only
invariant. The two of `Reclaim` need no assumption dropped.

- `Seal!EveryFileNamed` (`SealTakeover.cfg` with `MaxOffset = 1`, `MaxCrashes = 1`):
  `claim_seal` (`_buffer.py:1330`) replaces whatever intent is there. A sealer whose
  claim lapsed after it recorded its intent, and which is killed after it wrote its
  file, leaves a file no row names. `docs/SPEC.md:1924`: "No file can exist that this
  database cannot name." Only the sweep of stranded files finds it.
- `NeverReAdds` with `BoundedStall = FALSE`: the watermark that `register` consults is
  read once, before the commit (`_handle.py:3375`). A sealer stalled there for as long
  as staging takes to be published and evicted re-adds its file, the case
  `LogTable._covers` (`_table.py:2058`) describes as excluded.
- `DoomedStaysOut` with `BoundedStall = FALSE`: `drain` looks and then unlinks
  (`_maintenance.py:1394`). A sealer that recovery took for dead can register its file
  in between when it stalled past the retention; line 1384: "an entry that is due and
  unreferenced stays unreferenced."
- `NeverRefused`, `TierCovers` with `PromptCommit = FALSE` (`TiersStall.cfg`): a claim
  that lapses between a checkpoint and its commit lets a push straddle the published
  end, or an eviction's widening be overwritten.
- `Tiers!IntentsOutlastPush` (`TiersStall.cfg` with no failures, no lapses and
  `Kinds = {"publish"}`): two publishers and nothing failing. `_publish_lease`
  (`_handle.py:3638`) reads the published end before it has the claim, so a second
  publisher's range need not overlap the first one's, and its reconciliation forgets
  intents of files being uploaded. Line 3605: "Two publishes still exclude each
  other." The published table stays exact all the same (`PublishedAlwaysExact`).
- `PublishedLinesUp` with two workers (`TiersFail.cfg` with `Workers = {w1, w2}`,
  `MaxLapses = 1`, `MaxJobs = 3` and `Kinds = {"compact", "publish"}`): the same, one
  failure later. A publisher whose claim lapsed before its reconciliation, which nothing
  fences, forgets the intent of a file its successor has uploaded. The successor
  registers the file and dies before it confirms; nothing is left to tell that the
  watermark is behind, and a compaction that goes by the watermark cuts its outputs
  inside a published file. The rows stay exact in both tables. `tiers_fail` therefore
  has one worker.
- `AckedServed` with `CutBesideLoad = TRUE` (`Ingest.cfg` with `MaxOffset = 4`, six
  paths): `close_open_group` (`_buffer.py:1261`) takes no claim. Another process's
  `seal()` that cuts the writer's open group between the check of the queue and the
  check of the open group lets the load start above rows that are in no file, which
  `_refuse_unfiled_rows` (`_handle.py:2854`) is there to refuse.
- `Reclaim!ReaderKeepsFiles` (`Reclaim.cfg` with `MaxCommits = 2`, `MaxCrashes = 0`): the
  stamp of a superseded file is set anew by `restamp_deletions` (`_maintenance.py:837`),
  in a transaction after the commit. After a slow merge the stamp of the queueing is
  spent, and a drain between the two takes the file from a scan that resolved its
  snapshot a moment before, as that method's docstring (`_buffer.py:2394`) says it must
  not; `README.md:68`: the file "waits out its table's snapshot retention first, so a
  scan already reading it can finish".
- `Reclaim!DeletedByDueRow` (the same configuration): the drain reads the due rows
  (`_maintenance.py:1365`) before it reloads the table (line 1393). A merge that commits
  and restamps in between, and an expiry, leave it with a list by the old stamps and
  references without the files. `docs/SPEC.md:787`: "a queued name can never become
  referenced again, so the veto and the grace period suffice"; the name need not become
  referenced again, it is enough that its grace begins again.
- `DrainSparesReaders` with `StampsKept = FALSE` and `MaxCrashes = 1`: a crash between the
  commit and the restamp makes the first window last.
- An expiry queues what its own look finds (`_maintenance.py:1218`), and
  `expire_snapshots_older_than` looks again (`_table.py:2111`). If the copy was reloaded
  in between, it drops snapshots whose metadata has no new stamp, or no row at all. A
  row left by an earlier expiry that failed may then be due at once. This is what
  `missed` stands for in `DrainSparesReaders`.
- `RetireFinishes` with `EvictInOrder = FALSE`: when staging has given up files whose
  rows the buffer still holds, `evict_buffer` finds no file that proves them published
  and its boundary is 0. `retire` raises for ever; `_handle.py:4424`: "calling this
  again finishes it".
- `NeverReissued` with `StopsAnywhere = TRUE`: `strip_local_state` raises the sequence
  by the replica's reserve. A restore that stops before the second reserve and is
  called again takes the raised sequence for what the replica recorded
  (`_handle.py:2116`), finds it ahead of the published record, and leaves the
  published reserve out. `_handle.py:1770`: "everything before that write is
  repeatable, and the reserve simply skips another window".
- `Restore!OpenableWhole`: the replica's tier row is dropped (`_handle.py:2168`) after
  the root has become openable. Stopped in between, the log opens with a row that
  describes the lost staging table and hides published rows from reads until the next
  publish; the comment at `_handle.py:1991` orders "every other durable write first".
- `_restore_published`, the path without a replica, does not forget a surviving
  catalog row as the other path does. The model gives it none.

## 5. Proofs

`Claims_proofs`, for any workers, ranges, TTL and clock (set back or not), from
`RangesAssumption`, `TTLAssumption` and `BoundsAssumption`:

- `TypeCorrect`, `ClaimsDisjoint`, `ClaimsOvertaken`, `ClaimsLossIsReal`,
  `ClaimsFence`: the type invariant and the run's four properties.
- The invariant. `Disjoint` alone is not inductive: a commit's sweep removes rows
  by expiry and overlap and its insert adds one row, which is disjoint from the
  remaining ones only because the check and the sweep leave no overlapping row of
  *another owner*. Hence `IInv` says that owners are minted fresh
  (`OwnersMinted`, `OwnersDistinct`), that an attempt not yet committed has no row
  (`AskedHasNoRow`), that an owner has at most one row (`OneRowEach`) and that it
  carries the range its holder acquired (`RowIsRange`). The fence rests on
  `RowUnlessOvertaken`: a holder has lost its row exactly when it was overtaken.
  The clock occurs nowhere in it, which is why clocks may do what they like.

`Lease_proofs`, for any handles, any TTL and any skew below it, any delay of any
write, from `LeaseAssumption`:

- `LeaseTypeCorrect`, `LeaseRecorded`, `LeaseSole`: the type invariant and the run's
  two properties.
- The invariant. What a handle holds is on record under its name with a deadline
  no earlier, or past its deadline by the time of day (`AllCovered`); then its own
  clock, at most the skew behind, has reached the point where it stops. Only a
  write that lands can break this, so `AllJustified` says what each write on its
  way may assume of the record it expects: an acquire, that its deadline has passed;
  a renewal, that the record is its writer's own and gets no shorter; a release, that
  it is the writer's own (with `GivenUp` for releases that land late). `Fresh` and
  `Minted` make a version identify a record, `Stamped` and `Clocks` bound deadlines
  by the clocks, `Known` ties what a handle read to the record of that version.
- The assumption the code cannot check: clocks stay within the skew and are never
  set back.

`Transaction_proofs`, for every number of threads, rows and batches, from
`RowsAssumption` and the module's own assumptions:

- About `TailCache` by itself: `CacheStaysSound`, `TailAlwaysAnswers`, the run's
  `TailAnswers`. The invariant is `CacheSound`: the cache is in order, its ends are
  those of its rows, and between where it is complete from and where it ends it misses
  no buffered row. `TailAnswers` is not inductive: it says nothing of a cache that is not
  reusable now but may be for another start. The slice by count is right although
  offsets have holes because of the check behind it: rows are increasing, so if the
  first kept row is the one asked for, no earlier one qualifies (`KeptRows`,
  `AnswerExact`).
- About `Transaction`: `WriteLockExcludes`, `AcknowledgedStays` (`AckedDurable`),
  `BlocksAreAtomic` (`NothingAlone`) and `TailAnswersUnderBlocks`. An acknowledged row
  is durable because an acknowledgement follows a commit made *by that thread*, so the
  invariant has to say at each label who holds the RLock and how deeply (`LockInv`),
  and what of the uncommitted view is this thread's (`SqlInv`).

`Seal_proofs`, for any sealers, rows, crashes and lapsed claims, assuming
`BoundedStall`:

- `NoRowForgotten`, `StagedFilesExist`, `QueriesReadOnce`, and the action properties
  `NothingReAdded` and `DrainStaysRight`: all safety properties of the two runs.
- The claims are not part of the argument; with two sealers on one group everything
  still holds. The invariant (`SealInv`) says that the ranges of groups, intents, files
  and attempts are cut from one sequence of groups, so that two are equal or apart and
  the published watermark falls inside none (`Aligned`); that what an attempt may still
  commit starts no higher than the table's end allows (`Low`); and what an attempt
  knows at each of its steps (`Fits`). Then the one check in `LogTable.register`
  suffices (`RegisterIsWhole`).

`Ingest_proofs`, for every number of rows, row groups, names and crashes:

- `NamesHold`, `LoadedFilesStay` (`NoTableFileLost`), `EveryOutputNamed`
  (`OutputsNamed`), with no assumption on other processes. `NameInv` follows each name
  through the load and needs neither offsets nor claims; it rests on the timing fact
  in the model's `Due`, that a queued name is not due while an attempt may commit it.
- Assuming `~CutBesideLoad`: `AcknowledgedIsServed` (`AckedServed`) and
  `LoadsKeepTheLog`, the refinement `IngestIsALog` of `Log`. `RangeInv` adds the ranges:
  files apart, waiting groups above them, the open group above those, a load's
  reservation above all. Without the assumption it is false; section 4 has the case.

`Reclaim_proofs`, for any retention, number of commits, ticks and crashes:

- `NothingLiveDeleted` (`LiveOnDisk`), `NoDataStranded` (`DataNamed`), the action property
  `ExpirySparesCurrent`, and `ReadersAreSpared` (`DrainSparesReaders`): as long as
  `StampsKept`, a reader within the retention loses a file to the drain only in the
  gaps that section 4 lists.
- The invariant (`ReclaimInv`) numbers files by the commit that wrote them, so that
  what is being written is told apart from all that any snapshot or queue names;
  what the drain and the sweep have decided on is unreferenced when they act on it; and
  data only older snapshots name is queued. For readers, `Served` says of each file a
  reader resolved, however old the reader is, that it is the current snapshot's, or
  metadata of some live one, or waits for its stamp, or was missed, or has a stamp no
  older than the reader. It does not mention the drain, whose veto has just looked.

`LogTiers_proofs` about `Retire` and `Retired`, for any number of rows, truncates and failures, any policy sizes,
and either value of `EvictInOrder`:

- `HistoryOnly` (`OnlyHistoryGoes`), `ClearedStaysClear` (`ClearedBelow`),
  `RetiredIsWhole` (`RetiredWhole`) and `LogOnlyCut`, the refinement `IsACutLog`.
- The geometry under them is a theory of files: `Tiles` (one table's files are
  apart with no hole up to its end) and `Lined` (two tables: each published file inside
  a staged one or apart from all, and what is staged below the published end
  published too). `LinedSeal`, `LinedMerge`, `PushTiles`, `LinedDropStaging` and
  `LinedDropPublished` show that seal, merge, push and the two drops keep it; for a merge
  this needs that the runs of `CompactionPolicy` are runs of neighbours (`RunsConvex`),
  for a push that the settled files are a prefix (`SettledPrefix`).
- None of the run's properties is inductive: whether a row is read depends on which
  tiers a query joins. `ServedIs` shows that a read returns exactly the rows above
  `published_through` and those in the published table, from `Geometry`, whose part
  `Rowed` says that an empty tier row hides nothing. Then each step shows one row more
  or drops all below a boundary (`LogInvStep`). `Truncating` carries, step by step,
  which tiers are already cut at the floor and that no file reaches across it;
  `Retiring` that a closed log gets no rows and an emptied one no files.
- `CutFilesNamed` (`RetiredFilesNamed`) and `DeleteIsResumed` (`DeleteResumes`), from
  `PrefixInv`: three sets of files in step, and what a delete leaves at each step.

`LogTiers_proofs` about `Restore`, for every disaster, reserve and number of stopped
restores:

- `NoOffsetTwice` (`NeverReissued`), assuming `~StopsAnywhere`. The invariant
  (`OffsetInv`) keeps the replica's own record apart from the sequence that the first
  reserve raises, so that the second reserve still tells which record is the fresher.
- `RestoredLogWhole` (`RestoredWhole`) and `NothingStraddles` (`NoStraddler`), wherever
  restores stop, between the reserves too. A disaster leaves offsets that name no row, so
  the geometry of the first part does not apply: files are compared with the rows there
  are. `InPlace` says that a file has all the rows of its range and ends on rows, that
  the rows below the published end are published and those above are staged or in the
  buffer only, none missing in between, and that a published file is inside a staged
  one or apart from all. `PlaceSeal`, `PlaceMerge`, `PlaceTail`, `PlacePush` and their
  like show that each commit keeps it. The invariant (`RestoreInv`) has what the disaster
  left and never changes (`Disaster`), the database before the root is a log
  (`Database`), and `InPlace` from then on (`Serving`), over the published table the log
  has adopted or will adopt by its hint. That a read returns each row once follows only
  at the end of the restore: before, the replica's tier row may hide published rows
  (`OpenableWhole`, section 4), so `Names` is asked for only once it was dropped.

`Read_proofs`, for any number of workers, rows, names, failures and lapsed claims,
assuming `PromptCommit`:

- `PublishedAlwaysExact`, `StagingAlwaysExact`, `NothingLostBetweenTiers` (`HandedOver`),
  `TierRowNeverTooNarrow` (`TierCovers`), all properties of the run `tiers_stall`;
  `EndsNeverGoBack`; and `EveryQueryReadsOnce` (`ReadsOnce`).
- Here every routine is taken apart under claims and a delete by offset may rewrite a
  file at any row, so nothing is said here of where files are cut. A table is a tiling:
  staging of `Lo..Hi`, published of `1..Pub`, with `Lo <= Pub <= Hi`, the watermark below
  `Pub` and the buffer whole from `Pub` up (`Geometry`). Each commit replaces a part of a
  tiling by one of the same range, extends it, or drops a prefix (`TiledReplace`,
  `TiledJoin`, `TiledDrop`).
- Whether a commit does that depends on what its worker read many steps ago. Two reasons
  keep it right. What was true of the ends stays true, because they only move up
  (`JobsLast`); so a stale worker may register or drop what was decided before. What
  concerns single files is true because the claim is live and no other overlaps
  it (`Fenced`), and that is where `PromptCommit` is used: the commit after a checkpoint
  runs on the claim the checkpoint renewed. The rest of the invariant (`TiersInv`) is the
  claim table (`Claimed`) and the tier row (`Rowed`).
- A query reads four things at four moments. `ReadInv` says after each one what is still
  to be found: the offset is in the rows or the snapshot already read, or below the
  snapshot and then published for good, since `Lo` and `Pub` never go back.

And for one worker (`Alone`), with any passes that fail or die and any claims that lapse:

- `PublishedLinesUpAlone` and `NeverRefusedAlone`, the properties of `tiers_fail`, and
  `IntentsOutlastPushAlone`, which section 4 shows false for two publishers.
- The invariant (`AloneInv`, over `TiersInv`) says that no end of a staged file is inside
  a published one (`CutsOutside`), so that a delete by offset rewrites no file
  (`CleanWithout`). A merge decides on its cuts from the watermark, which a pass that
  died may have left behind the published end. Then `Announced` says that what is
  published above the watermark is covered by intents, and compaction keeps away from it
  (`CandidatesAbove`). A push uploads only what starts at the published end or above,
  because every file across that end, if it is final or forced, was swapped before
  (`SwapAlone`), and one that is not cannot be pushed (`NotFrozen`). A swap is skipped
  when the table already has a file of that name, so names must differ (`OneName`), which
  rests on the names of a merge's outputs being new and distinct (`FreshIs`, `RankIs`);
  this is why `Tiers` assumes finitely many names.

The assumptions `BoundedStall`, `StampsKept`, `~CutBesideLoad`, `~StopsAnywhere` and
`PromptCommit` speak of CONSTANTS of the modules, and hold in the passing runs. Each is
one the code does not enforce; section 4 says what TLC finds without it.

Only model-checked:

- `PublishedLinesUp` and `NeverRefused` for more than one worker: with two the first is
  false (section 4). With one, both are theorems.
- Liveness (`RetireFinishes`, `QueueDrains`, `LockComesFree`), which this prover does not do
  under fairness. What a recursive definition computes for every input, and induction
  over data in general, is out of its reach too, so no module here is recursive.

## 6. Plan

Built, in this order: `ClaimTable`, `Claims`, `Seal`, `CompactionPolicy`,
`Tiers`, `Read`, `Lease`, the proofs of `Claims` and `Lease`; then `BufferRows`,
`TailCache` and its proofs, `Transaction`, `Ingest` with `Log`, `Reclaim`, `LogTiers`,
`Retire`, `Retired`, `Restore`; then the proofs of `Transaction`, `Seal`, `Ingest`,
`Reclaim`, `Retired` and of the offsets of `Restore`; then those of `Tiers`, `Read` and the
rows of `Restore`, and last what holds of a single worker. What would come next: the
re-pointing of the published table, with the displaced catalog entry.

## 7. Not modelled

- Of restore: the refusal of a retired log and of another log's replica, and a crash
  inside `_create`, which leaves a root that `open` refuses. Of retire: a load in
  flight. Of ingest: the compaction and publish that may follow a load (`Tiers` has
  them) and the discard of the tail cache on a schema change, which no caller can
  bring about. Of the published table: re-pointing to another prefix. Of reclaim:
  `metadata.json` files, which pyiceberg prunes itself, and `VACUUM`.
- Data rather than control: types, schema changes, sort order, column statistics,
  manifest encoding and pruning by columns, which user statements a transaction
  denies. The models assume the tier row's column bounds cover the rows its range
  covers.
- I/O and wiring: SQLite, S3 and file drivers, litestream, preflight probes, layout of
  directories, assembly, the command line. A transaction, a file write and a catalog
  commit are atomic steps whose outcome may be unknown where the code handles that.
- Validation of configuration: checks of single values.
