-------------------------------- MODULE Tiers --------------------------------
(***************************************************************************)
(* From the staging table to the published table: workers compact runs of  *)
(* staging files, publish them, swap a merged file in for the published    *)
(* copies of its inputs, and evict what is published.  Sources:            *)
(* Maintenance (_maintenance.py), WriteHandle.publish (_handle.py), Buffer   *)
(* (_buffer.py), PublishedTier (_tiers.py), LogTable (_table.py).          *)
(*                                                                         *)
(* Rows 1..MaxOffset are appended and acknowledged from the start; sealing *)
(* is the commit that module Seal shows it to be.  Every transaction,      *)
(* table commit and read that decides something is one step, and a worker  *)
(* may stall, fail or die between any two.  The deletion queue is left     *)
(* out: nothing here reads it, and module Seal has it.                     *)
(***************************************************************************)
EXTENDS CompactionPolicy, ClaimTable

CONSTANTS
    Workers,       \* threads and processes that call compact, publish, evict
    MaxOffset,     \* bound: rows appended
    MaxSealRows,   \* bound: rows of a sealed file
    Paths,         \* bound: file names in use at once
    Owners,        \* bound: claim owners in use at once
    MaxFailures,   \* bound: workers killed, or stopped by an exception
    MaxLapses,     \* bound: claims of running workers that outlive their TTL
    MaxJobs,       \* bound: passes started
    PromptCommit,  \* TRUE: no claim lapses between a checkpoint and its commit
    Kinds          \* bound: which passes run, a subset of {"compact", "publish", "evict"}

ASSUME TiersAssumption ==
    /\ IsFiniteSet(Workers) /\ IsFiniteSet(Paths)
    /\ MaxOffset \in Nat /\ MaxSealRows \in Nat \ {0}
    /\ MaxFailures \in Nat /\ MaxLapses \in Nat /\ MaxJobs \in Nat
    /\ Paths \subseteq Nat \ {0} /\ Owners \subseteq Nat \ {0}
    /\ Kinds \subseteq {"compact", "publish", "evict"} /\ PromptCommit \in BOOLEAN

VARIABLES
    buffer,     \* offsets of the rows in the buffer table
    staging,    \* files of the staging table's snapshot
    published,  \* files of the published table's snapshot
    through,    \* meta published_through, 0 if nothing is published
    intents,    \* extent_intent: the files a push is about to register
    owed,       \* awaiting_swap: names of merged files owed a swap
    tier,       \* the published table's tier row: [has, start, end]
    claims,     \* the claim table; expires is 1 while live and 0 once lapsed
    pc,         \* what each worker does next
    job,        \* its locals
    failures,
    lapses,
    jobs

meta == <<through, intents, owed, tier>>
tables == <<buffer, staging, published>>
bounds == <<failures, lapses, jobs>>
vars == <<tables, meta, claims, pc, job, bounds>>

Everything == MaxOffset + 10
NoJob == [owner |-> 0, start |-> 0, end |-> 0, force |-> FALSE, bound |-> 0, floor |-> 0,
          seen |-> {}, held |-> {}, todo |-> {}, outs |-> {}]

-----------------------------------------------------------------------------
(***************************************************************************)
(* Reads.                                                                  *)
(***************************************************************************)

SpanEnd == ReachOf(staging)
PublishedEnd == ReachOf(published)

\* Buffer.published_ranges: the watermark's range, and with intents what a
\* push may be registering.
Landed == {[start |-> 0, end |-> through + 1]}
Intended(f) == intents \cup {f}
LandedOrIntended == Landed \cup {[start |-> i.start, end |-> i.end] : i \in intents}

\* Mutant of Candidates: a push in flight is ignored.
Mut_CandidatesLanded == staging \ Settled(staging)

\* merge_candidates: past the settled prefix, and, when a push is in flight,
\* past all that it may register.
Candidates ==
    LET landed == ReachOf(CoveredPrefix(staging, Landed))
        claimed == ReachOf(CoveredPrefix(staging, LandedOrIntended))
    IN  {f \in staging \ Settled(staging) : claimed > landed => f.start >= claimed}

\* WriteHandle._settled: the leading pending files that a push may upload.
Pushable(files, pending, flush) ==
    LET limit == {f.start : f \in files \ Settled(files)}
        frozen == ReachOf(CoveredPrefix(pending, LandedOrIntended))
        ok(f) == f.end <= frozen \/ limit = {} \/ f.end <= Min(limit)
    IN  {f \in pending : flush \/ \A g \in pending : g.start <= f.start => ok(g)}

UsedPaths ==
    {f.path : f \in staging \cup published \cup intents} \cup owed
        \cup UNION {{f.path : f \in job[w].seen \cup job[w].held \cup job[w].todo \cup job[w].outs}
                    : w \in Workers}
Fresh(k) == CHOOSE p \in Paths \ UsedPaths : Cardinality({q \in Paths \ UsedPaths : q <= p}) = k
CanName(k) == Cardinality(Paths \ UsedPaths) >= k
UsedOwners == {r.owner : r \in claims} \cup {job[w].owner : w \in Workers}
FreshOwner == Min(Owners \ UsedOwners)

\* A commit that deletes by offset, [lo, hi).  Iceberg drops the files inside
\* and rewrites, under a name of its own, one that reaches across an end.
Without(files, lo, hi) ==
    {f \in files : f.end <= lo \/ f.start >= hi}
        \cup {[start |-> f.start, end |-> lo, path |-> Fresh(1)]
              : f \in {f \in files : f.start < lo /\ f.end > lo}}
        \cup {[start |-> hi, end |-> f.end, path |-> Fresh(2)]
              : f \in {f \in files : f.start < hi /\ f.end > hi}}

\* The claim table with time left out, as in module Seal.
CanClaim(d) == ~Clash(claims, 0, d, 0)
Held(w) == HasRow(claims, job[w].owner)

-----------------------------------------------------------------------------

Init ==
    /\ buffer = 1..MaxOffset /\ staging = {} /\ published = {}
    /\ through = 0 /\ intents = {} /\ owed = {}
    /\ tier = [has |-> FALSE, start |-> 0, end |-> 0]
    /\ claims = {}
    /\ pc = [w \in Workers |-> "idle"]
    /\ job = [w \in Workers |-> NoJob]
    /\ failures = 0 /\ lapses = 0 /\ jobs = 0

\* A sealed group lands above everything staged or published.
SealFile(k) ==
    LET lo == Max({1, SpanEnd, PublishedEnd})
        d == [start |-> lo, end |-> lo + k]
    IN  /\ lo + k - 1 <= MaxOffset
        /\ CanName(1)
        /\ CanClaim(d)
        /\ claims' = Swept(claims, d, 0)
        /\ staging' = staging \cup {[start |-> lo, end |-> lo + k, path |-> Fresh(1)]}
        /\ UNCHANGED <<buffer, published, meta, pc, job, bounds>>

Go(w, label) == pc' = [pc EXCEPT ![w] = label]

\* To the `finally` that releases the claim: by return or by exception.
Leave(w) ==
    /\ Go(w, "release")
    /\ job' = [job EXCEPT ![w] = [NoJob EXCEPT !.owner = job[w].owner]]

\* A pass starts: it has chosen a range and minted an owner.
Begin(w, kind, d, fields) ==
    /\ pc[w] = "idle"
    /\ kind \in Kinds
    /\ jobs < MaxJobs
    /\ Owners \ UsedOwners # {}
    /\ jobs' = jobs + 1
    /\ job' = [job EXCEPT ![w] = [fields EXCEPT !.owner = FreshOwner, !.start = d.start, !.end = d.end]]
    /\ Go(w, kind)
    /\ UNCHANGED <<tables, meta, claims, failures, lapses>>

\* Claim.acquire, and where each kind of pass goes on.
Entry == [compact |-> "recheck", publish |-> "reload", evict |-> "decide"]

Acquire(w) ==
    /\ pc[w] \in {"compact", "publish", "evict"}
    /\ IF CanClaim(job[w])
       THEN /\ claims' = Acquired(claims, job[w].owner, job[w], 0, 1)
            /\ Go(w, Entry[pc[w]])
            /\ UNCHANGED job
       ELSE /\ Go(w, "idle")
            /\ job' = [job EXCEPT ![w] = NoJob]
            /\ UNCHANGED claims
    /\ UNCHANGED <<tables, meta, bounds>>

\* checkpoint(renew): the pass raises if its claim was taken.
Checkpoint(w, label) ==
    /\ claims' = Renewed(claims, job[w].owner, 0, 1)
    /\ IF Held(w) THEN Go(w, label) /\ UNCHANGED job ELSE Leave(w)

Release(w) ==
    /\ pc[w] = "release"
    /\ claims' = Released(claims, job[w].owner)
    /\ job' = [job EXCEPT ![w] = NoJob]
    /\ Go(w, "idle")
    /\ UNCHANGED <<tables, meta, bounds>>

(***************************************************************************)
(* Compaction.  seen is the run, outs the files written.                   *)
(***************************************************************************)

PickRun(w, flush) ==
    \E run \in Runs(Candidates, through + 1, flush) :
        Begin(w, "compact", [start |-> First(run).start, end |-> Last(run).end],
              [NoJob EXCEPT !.seen = run])

\* Under the claim: every file of the run is live and still a candidate.
RecheckRun(w) ==
    /\ pc[w] = "recheck"
    /\ IF job[w].seen \subseteq Candidates THEN Go(w, "merge") /\ UNCHANGED job ELSE Leave(w)
    /\ UNCHANGED <<tables, meta, claims, bounds>>

\* _write_merge, each output under a new name.
WriteMerge(w) ==
    /\ pc[w] = "merge"
    /\ claims' = Renewed(claims, job[w].owner, 0, 1)
    /\ IF ~Held(w) THEN Leave(w)
       ELSE \E c \in Cuts(job[w].seen, through + 1) :
              LET starts == {job[w].start} \cup c
                  rank(x) == Cardinality({y \in starts : y <= x})
              IN  /\ CanName(Cardinality(starts))
                  /\ job' = [job EXCEPT ![w].outs =
                       {[start |-> x,
                         end |-> Min({job[w].end} \cup {y \in c : y > x}),
                         path |-> Fresh(rank(x))] : x \in starts}]
                  /\ Go(w, "mergefence")
    /\ UNCHANGED <<tables, meta, bounds>>

FenceMerge(w) ==
    /\ pc[w] = "mergefence"
    /\ Checkpoint(w, "mergecommit")
    /\ UNCHANGED <<tables, meta, bounds>>

\* Mutant of CommitMerge: the run is left in the table.
Mut_CommitMergeAdds(w) ==
    /\ pc[w] = "mergecommit"
    /\ staging' = staging \cup job[w].outs
    /\ Go(w, "mergeread")
    /\ UNCHANGED <<buffer, published, meta, claims, job, bounds>>

\* replace_range on the staging table: nothing but the range is checked.
CommitMerge(w) ==
    /\ pc[w] = "mergecommit"
    /\ CanName(2)
    /\ staging' = Without(staging, job[w].start, job[w].end) \cup job[w].outs
    /\ Go(w, "mergeread")
    /\ UNCHANGED <<buffer, published, meta, claims, job, bounds>>

ReadThrough(w) ==
    /\ pc[w] = "mergeread"
    /\ job' = [job EXCEPT ![w].floor = through]
    /\ Go(w, "mergerecord")
    /\ UNCHANGED <<tables, meta, claims, bounds>>

\* record_merge: an output with published rows is owed a swap.
RecordMerge(w) ==
    /\ pc[w] = "mergerecord"
    /\ owed' = (owed \ {f.path : f \in job[w].seen})
                 \cup {f.path : f \in {f \in job[w].outs : f.start <= job[w].floor}}
    /\ Leave(w)
    /\ UNCHANGED <<tables, through, intents, tier, claims, bounds>>

(***************************************************************************)
(* Publishing.  seen and held are the staging and the published files at   *)
(* the last reload, floor the published end, todo the files to swap and    *)
(* then to push, outs the ones uploaded.                                   *)
(***************************************************************************)

\* _publish_lease: from the published end to the end of what would be pushed;
\* the whole log while the tier row is missing.
PickPush(w, flush) ==
    LET floor == PublishedEnd
        pending == {f \in staging : f.end > floor}
        push == Pushable(staging, pending, flush)
        end == Max({IF push = {} THEN floor + 1 ELSE ReachOf(push)}
                     \cup {f.end : f \in {f \in pending : f.start < floor}})
    IN  IF tier.has
        THEN Begin(w, "publish", [start |-> floor, end |-> Max({end, floor + 1})],
                   [NoJob EXCEPT !.force = flush, !.bound = end])
        ELSE Begin(w, "publish", [start |-> 0, end |-> Everything],
                   [NoJob EXCEPT !.force = flush, !.bound = Everything])

\* Mutant of ReloadTables: the watermark is taken for the published end.
Mut_ReloadFloor(w) ==
    /\ pc[w] = "reload"
    /\ job' = [job EXCEPT ![w].seen = staging, ![w].held = published, ![w].floor = through + 1]
    /\ Go(w, IF tier.has THEN "reconcile" ELSE "row")
    /\ UNCHANGED <<tables, meta, claims, bounds>>

\* _push reloads both tables.
ReloadTables(w) ==
    /\ pc[w] = "reload"
    /\ job' = [job EXCEPT ![w].seen = staging, ![w].held = published, ![w].floor = PublishedEnd]
    /\ Go(w, IF tier.has THEN "reconcile" ELSE "row")
    /\ UNCHANGED <<tables, meta, claims, bounds>>

\* _record_published_row: renew, then read where the staging table starts ...
ReadRow(w) ==
    /\ pc[w] = "row"
    /\ claims' = Renewed(claims, job[w].owner, 0, 1)
    /\ IF Held(w)
       THEN Go(w, "rowwrite") /\ job' = [job EXCEPT ![w].seen = staging]
       ELSE Leave(w)
    /\ UNCHANGED <<tables, meta, bounds>>

\* ... and make the row exactly the published files that start below that.
WriteRow(w) ==
    LET below == {f \in job[w].held : job[w].seen = {} \/ f.start < First(job[w].seen).start}
    IN  /\ pc[w] = "rowwrite"
        /\ tier' = IF below = {} THEN [has |-> TRUE, start |-> 0, end |-> 0]
                   ELSE [has |-> TRUE, start |-> First(below).start, end |-> ReachOf(below)]
        /\ Go(w, "reconcile")
        /\ UNCHANGED <<tables, through, intents, owed, claims, job, bounds>>

\* The watermark catches up with the published end.  The intents whose files
\* the published table holds are confirmed with it and the others forgotten.
\* Then _swap_merged picks the merged files to swap: owed one, or reaching
\* across the published end, and final (or the flush needs its rows).
Reconcile(w) ==
    LET straddles(f) == f.start < job[w].floor /\ job[w].floor < f.end
    IN  /\ pc[w] = "reconcile"
        /\ through' = Max({through, job[w].floor - 1})
        /\ intents' = {}
        /\ job' = [job EXCEPT ![w].todo =
             {f \in job[w].seen :
                /\ f.path \in owed \/ straddles(f)
                /\ f \in Settled(job[w].seen) \/ (job[w].force /\ straddles(f))}]
        /\ Go(w, "swap")
        /\ UNCHANGED <<tables, owed, tier, claims, bounds>>

Merged(w) == First(job[w].todo)
Replaced(w) == {f \in job[w].held : f.end > Merged(w).start /\ f.start < Merged(w).end}
LinesUp(w) ==
    /\ Replaced(w) # {}
    /\ \A f \in Replaced(w) : f.start >= Merged(w).start /\ f.end <= Merged(w).end

\* Already swapped, or cut by another writer: owed nothing.
SkipSwap(w) ==
    /\ pc[w] = "swap"
    /\ job[w].todo # {}
    /\ Merged(w).path \in {f.path : f \in Replaced(w)} \/ ~LinesUp(w)
    /\ owed' = owed \ {Merged(w).path}
    /\ job' = [job EXCEPT ![w].todo = @ \ {Merged(w)}]
    /\ UNCHANGED <<tables, through, intents, tier, claims, pc, bounds>>

IntendSwap(w) ==
    /\ pc[w] = "swap"
    /\ job[w].todo # {}
    /\ Merged(w).path \notin {f.path : f \in Replaced(w)} /\ LinesUp(w)
    /\ Checkpoint(w, "swapfence")
    /\ intents' = IF Held(w) THEN Intended(Merged(w)) ELSE intents
    /\ UNCHANGED <<tables, through, owed, tier, bounds>>

FenceSwap(w) ==
    /\ pc[w] = "swapfence"
    /\ Checkpoint(w, "swapcommit")
    /\ UNCHANGED <<tables, meta, bounds>>

\* Mutant of CommitSwap: the early copies stay.
Mut_CommitSwapAdds(w) ==
    /\ pc[w] = "swapcommit"
    /\ published' = published \cup {Merged(w)}
    /\ Go(w, "swapconfirm")
    /\ UNCHANGED <<buffer, staging, meta, claims, job, bounds>>

CommitSwap(w) ==
    /\ pc[w] = "swapcommit"
    /\ CanName(2)
    /\ published' = Without(published, Merged(w).start, Merged(w).end) \cup {Merged(w)}
    /\ Go(w, "swapconfirm")
    /\ UNCHANGED <<buffer, staging, meta, claims, job, bounds>>

ConfirmSwap(w) ==
    /\ pc[w] = "swapconfirm"
    /\ through' = Max({through, Merged(w).end - 1})
    /\ intents' = {i \in intents : i.path # Merged(w).path}
    /\ Go(w, "swapclear")
    /\ UNCHANGED <<tables, owed, tier, claims, job, bounds>>

ClearSwap(w) ==
    /\ pc[w] = "swapclear"
    /\ owed' = owed \ {Merged(w).path}
    /\ job' = [job EXCEPT ![w].todo = @ \ {Merged(w)},
                          ![w].floor = Max({@, Merged(w).end})]
    /\ Go(w, "swap")
    /\ UNCHANGED <<tables, through, intents, tier, claims, bounds>>

\* What is left to push, within the range claimed.
PickPending(w) ==
    LET pending == {f \in job[w].seen : f.end > job[w].floor}
        push == {f \in Pushable(job[w].seen, pending, job[w].force) :
                    \A g \in pending : g.start <= f.start => g.end <= job[w].bound}
    IN  /\ pc[w] = "swap"
        /\ job[w].todo = {}
        /\ IF push = {} THEN Leave(w)
           ELSE /\ job' = [job EXCEPT ![w].todo = push, ![w].seen = {}, ![w].held = {}]
                /\ Go(w, "upload")
        /\ UNCHANGED <<tables, meta, claims, bounds>>

\* Renew, record the intent, upload: file by file.
Upload(w) ==
    /\ pc[w] = "upload"
    /\ job[w].todo # {}
    /\ claims' = Renewed(claims, job[w].owner, 0, 1)
    /\ IF Held(w)
       THEN /\ intents' = Intended(First(job[w].todo))
            /\ job' = [job EXCEPT ![w].todo = @ \ {First(@)}, ![w].outs = @ \cup {Merged(w)}]
            /\ UNCHANGED pc
       ELSE Leave(w) /\ UNCHANGED intents
    /\ UNCHANGED <<tables, through, owed, tier, bounds>>

FencePush(w) ==
    /\ pc[w] = "upload"
    /\ job[w].todo = {}
    /\ Checkpoint(w, "register")
    /\ UNCHANGED <<tables, meta, bounds>>

\* register on the published table: a batch it covers is declined, one that
\* starts inside it refused (_refuse_straddle), and either way the pass ends.
Refused(w) ==
    /\ PublishedEnd < Last(job[w].outs).end
    /\ First(job[w].outs).start < PublishedEnd

RegisterPush(w) ==
    /\ pc[w] = "register"
    /\ IF PublishedEnd >= Last(job[w].outs).end \/ Refused(w)
       THEN Leave(w) /\ UNCHANGED published
       ELSE /\ published' = published \cup job[w].outs
            /\ Go(w, "confirm")
            /\ UNCHANGED job
    /\ UNCHANGED <<buffer, staging, meta, claims, bounds>>

ConfirmPush(w) ==
    /\ pc[w] = "confirm"
    /\ through' = Max({through, Last(job[w].outs).end - 1})
    /\ intents' = {i \in intents : i.path \notin {f.path : f \in job[w].outs}}
    /\ Leave(w)
    /\ UNCHANGED <<tables, owed, tier, claims, bounds>>

(***************************************************************************)
(* Eviction.  force is `everything`; floor is the boundary.                *)
(***************************************************************************)

\* _retention_boundary: age and size limits reach some file's end.
RetentionBoundaries == {f.end : f \in staging}

\* Retention, or a caller's end_offset, picks the boundary to claim up to.
PickBoundary(w, everything) ==
    \E e \in RetentionBoundaries :
        Begin(w, "evict", [start |-> 0, end |-> e], [NoJob EXCEPT !.force = everything])

\* Mutant of DecideEvict: an intended copy is taken for a published one.
Mut_DecideIntended(w) ==
    LET limit == Min({job[w].end, ReachOf(CoveredPrefix(staging, LandedOrIntended))})
        boundary == ReachOf({f \in staging : f.end <= limit})
    IN  /\ pc[w] = "decide"
        /\ IF boundary = 0 THEN Leave(w)
           ELSE /\ job' = [job EXCEPT ![w].floor = boundary,
                                      ![w].seen = {f \in staging : f.end <= boundary}]
                /\ Go(w, "widen")
        /\ UNCHANGED <<tables, meta, claims, bounds>>

\* Under the claim: only what the watermark covers (I4), and, unless the log
\* is being retired, nothing that may still be merged or is owed a swap.
DecideEvict(w) ==
    LET keep == IF job[w].force THEN {}
                ELSE (staging \ Settled(staging)) \cup {f \in staging : f.path \in owed}
        limit == Min({job[w].end, ReachOf(CoveredPrefix(staging, Landed))}
                       \cup {f.start : f \in keep})
        boundary == ReachOf({f \in staging : f.end <= limit})
    IN  /\ pc[w] = "decide"
        /\ IF boundary = 0 THEN Leave(w)
           ELSE /\ job' = [job EXCEPT ![w].floor = boundary,
                                      ![w].seen = {f \in staging : f.end <= boundary}]
                /\ Go(w, "widen")
        /\ UNCHANGED <<tables, meta, claims, bounds>>

\* Mutant of WidenTier: the row is left to the next publish.
Mut_NoWiden(w) ==
    /\ pc[w] = "widen"
    /\ Checkpoint(w, "evictcommit")
    /\ UNCHANGED <<tables, meta, bounds>>

\* Renew, and widen the tier row over the files before they leave.
WidenTier(w) ==
    LET lo == First(job[w].seen).start
        hi == ReachOf(job[w].seen)
    IN  /\ pc[w] = "widen"
        /\ Checkpoint(w, "evictcommit")
        /\ tier' = IF ~Held(w) \/ ~tier.has THEN tier
                   ELSE IF tier.end <= tier.start THEN [tier EXCEPT !.start = lo, !.end = hi]
                   ELSE [tier EXCEPT !.start = Min({@, lo}), !.end = Max({@, hi})]
        /\ UNCHANGED <<tables, through, intents, owed, bounds>>

CommitEvict(w) ==
    /\ pc[w] = "evictcommit"
    /\ CanName(2)
    /\ staging' = Without(staging, 0, job[w].floor)
    /\ Leave(w)
    /\ UNCHANGED <<buffer, published, meta, claims, bounds>>

\* evict_buffer takes no claim: rows below the published prefix of staging, in
\* the caller's chunks.
EvictBuffer ==
    /\ \E lo, hi \in 1 .. ReachOf(CoveredPrefix(staging, Landed)) :
        LET gone == {o \in buffer : lo <= o /\ o < hi}
        IN  gone # {} /\ buffer' = buffer \ gone
    /\ UNCHANGED <<staging, published, meta, claims, pc, job, bounds>>

-----------------------------------------------------------------------------

Work(w) ==
    \/ Acquire(w) \/ Release(w)
    \/ RecheckRun(w) \/ WriteMerge(w) \/ FenceMerge(w) \/ CommitMerge(w) \/ ReadThrough(w)
    \/ RecordMerge(w)
    \/ ReloadTables(w) \/ ReadRow(w) \/ WriteRow(w) \/ Reconcile(w) \/ SkipSwap(w)
    \/ IntendSwap(w) \/ FenceSwap(w) \/ CommitSwap(w) \/ ConfirmSwap(w) \/ ClearSwap(w)
    \/ PickPending(w) \/ Upload(w) \/ FencePush(w) \/ RegisterPush(w) \/ ConfirmPush(w)
    \/ DecideEvict(w) \/ WidenTier(w) \/ CommitEvict(w)

Start(w) ==
    \E force \in BOOLEAN : PickRun(w, force) \/ PickPush(w, force) \/ PickBoundary(w, force)

\* A worker is killed, or an error of the disk, the object store or a catalog
\* ends its pass through the `finally`.
Fail(w) ==
    /\ pc[w] \notin {"idle", "release"}
    /\ failures < MaxFailures
    /\ failures' = failures + 1
    /\ \/ Go(w, "idle") /\ job' = [job EXCEPT ![w] = NoJob]
       \/ Leave(w)
    /\ UNCHANGED <<tables, meta, claims, lapses, jobs>>

\* A claim outlives its TTL: its holder is slow or stopped, or dead.  With
\* PromptCommit the commit that follows a checkpoint lands within the 30 s
\* that the checkpoint has just renewed.
Expire(r) == r.expires = 1 /\ claims' = (claims \ {r}) \cup {[r EXCEPT !.expires = 0]}
LiveOwners == {job[w].owner : w \in Workers}
Committing == {"rowwrite", "mergecommit", "swapcommit", "register", "evictcommit"}

Lapse ==
    /\ lapses < MaxLapses
    /\ lapses' = lapses + 1
    /\ \E w \in Workers : \E r \in claims :
        /\ r.owner = job[w].owner
        /\ PromptCommit => pc[w] \notin Committing
        /\ Expire(r)
    /\ UNCHANGED <<tables, meta, pc, job, failures, jobs>>

LapseOrphan ==
    /\ \E r \in claims : r.owner \notin LiveOwners /\ Expire(r)
    /\ UNCHANGED <<tables, meta, pc, job, bounds>>

Next ==
    \/ \E k \in 1..MaxSealRows : SealFile(k)
    \/ \E w \in Workers : Work(w) \/ Start(w) \/ Fail(w)
    \/ Lapse \/ LapseOrphan \/ EvictBuffer

Spec == Init /\ [][Next]_vars

-----------------------------------------------------------------------------

PC == {"idle", "compact", "publish", "evict", "release", "recheck", "merge", "mergefence",
       "mergecommit", "mergeread", "mergerecord", "reload", "row", "rowwrite", "reconcile",
       "swap", "swapfence", "swapcommit", "swapconfirm", "swapclear", "upload", "register",
       "confirm", "decide", "widen", "evictcommit"}
File == [start : 1..MaxOffset, end : 2..MaxOffset + 1, path : Paths]

TypeOK ==
    /\ buffer \subseteq 1..MaxOffset
    /\ staging \subseteq File /\ published \subseteq File /\ intents \subseteq File
    /\ through \in 0..MaxOffset
    /\ owed \subseteq Paths
    /\ tier \in [has : BOOLEAN, start : Nat, end : Nat]
    /\ claims \subseteq [owner : Owners, expires : {0, 1}, start : Nat, end : Nat]
    /\ pc \in [Workers -> PC]
    /\ \A w \in Workers :
        /\ job[w].owner \in Owners \cup {0} /\ job[w].force \in BOOLEAN
        /\ {job[w].start, job[w].end, job[w].bound, job[w].floor} \subseteq Nat
        /\ job[w].seen \cup job[w].held \cup job[w].todo \cup job[w].outs \subseteq File
    /\ failures \in 0..MaxFailures /\ lapses \in 0..MaxLapses /\ jobs \in 0..MaxJobs

\* Offset o is in exactly one file.
Once(files, o) == Cardinality({f \in files : o \in Span(f)}) = 1

\* The published table holds every offset below its end exactly once: no
\* push, swap, retry or late commit leaves a gap or a second copy.
PublishedExact == \A o \in 1 .. PublishedEnd - 1 : Once(published, o)

\* The staging table is one stretch of offsets, each in one file, whatever
\* compactions and evictions cross.
StagingExact ==
    staging # {} => \A o \in First(staging).start .. SpanEnd - 1 : Once(staging, o)

\* I4: what the buffer and the staging table have given up, and what the
\* watermark promises, the published table holds.
HandedOver ==
    LET gone == (1..MaxOffset \ buffer)
                  \cup (IF staging = {} THEN {} ELSE 1 .. First(staging).start - 1)
    IN  gone \cup 1..through \subseteq Rows(published)

\* The tier row never rules out a published row that the staging table no
\* longer has: a read that trusts the row would not see it at all.
TierCovers ==
    tier.has =>
        \A o \in Rows(published) \ Rows(staging) : tier.start <= o /\ o < tier.end

\* A published file lies inside one staging file or outside all of them: a
\* swap always lines up, and no push is ever refused for straddling.
PublishedLinesUp ==
    \A f \in staging, p \in published :
        Span(f) \cap Span(p) # {} => Span(p) \subseteq Span(f)

\* "Everything upstream is arranged so this cannot arise": a push is never
\* refused because its first file reaches into the published table.
NeverRefused == \A w \in Workers : pc[w] = "register" => ~Refused(w)

\* "Two publishes still exclude each other", so that no other push forgets the
\* intents of the files this one is uploading (_handle.py, _publish_lease).  They
\* do not always (README, section 4).
IntentsOutlastPush ==
    \A w \in Workers : pc[w] \in {"upload", "register"} => job[w].outs \subseteq intents

=============================================================================
