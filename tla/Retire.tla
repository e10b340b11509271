------------------------------- MODULE Retire -------------------------------
(***************************************************************************)
(* The two operations that end a log, or a part of it, beside its ordinary *)
(* work (module LogTiers): Maintenance.truncate under WriteHandle.truncate,*)
(* which drops history tier by tier under the whole-log claim, and         *)
(* WriteHandle.retire, a sequence of routines that each take a claim of    *)
(* their own.  Either may die, or lose its claim, between any two of its   *)
(* steps, and is called again.  What retire reclaims and sweeps is in      *)
(* module Reclaim; nothing here reads it.                                  *)
(***************************************************************************)
EXTENDS LogTiers

CONSTANTS
    MaxTruncates,   \* bound: truncates called
    MaxFailures     \* bound: truncates and retires that stop half way

ASSUME RetireAssumption == MaxTruncates \in Nat /\ MaxFailures \in Nat

VARIABLES
    tpc,        \* what the truncate does next
    floor,      \* where it cuts the log
    asked,      \* the highest offset any truncate was asked to cut below
    cleared,    \* the floor of the last truncate that returned
    rpc,        \* what the retire does next
    retired,    \* litelink.retired on the published table: [is, through]
    empty,      \* the buffer's range is [end, end): the log reads as retired
    truncates,
    failures

truncating == <<tpc, floor, asked, cleared, truncates>>
retiring == <<rpc, retired, empty>>
vars == <<tvars, truncating, retiring, failures>>

Init ==
    /\ TiersInit
    /\ tpc = "idle" /\ floor = 0 /\ asked = 0 /\ cleared = 0 /\ truncates = 0
    /\ rpc = "idle" /\ retired = [is |-> FALSE, through |-> 0] /\ empty = FALSE
    /\ failures = 0

-----------------------------------------------------------------------------
(***************************************************************************)
(* Truncate.                                                               *)
(***************************************************************************)

\* The highest boundary of the files at or below an offset: each file that
\* reaches across it moves it down to the file's start, until none does.
Boundaries(files, top) == {b \in 0..top : \A f \in files : ~(f.start < b /\ b < f.end)}
Snapped(files, top) == Max(Boundaries(files, top))

\* Mutant of Floor: only the staging table is asked.
Mut_FloorLocal(below) == Snapped(staging, Min({below, through + 1}))

\* Mutant of Floor: rows that are not published count as history.
Mut_FloorUnclamped(below) == Snapped(staging \cup published, below)

Floor(below) == Snapped(staging \cup published, Min({below, through + 1}))

\* The whole-log claim, and the floor from both tables as they then are.
TruncateLook(below) ==
    /\ tpc = "idle" /\ truncates < MaxTruncates
    /\ Free /\ holder' = "truncate"
    /\ floor' = Floor(below)
    /\ asked' = Max({asked, below})
    /\ truncates' = truncates + 1
    /\ tpc' = "buffer"
    /\ UNCHANGED <<seq, cut, tables, meta, closed, cleared, retiring, failures>>

TruncateBuffer ==
    /\ tpc = "buffer"
    /\ buffer' = {o \in buffer : o >= floor}
    /\ tpc' = "staging"
    /\ UNCHANGED <<seq, cut, staging, published, meta, closed, holder, floor, asked, cleared,
                   truncates, retiring, failures>>

\* Mutant of TruncateStaging: the row is left to the narrowing at the end.
Mut_TruncateUnwidened ==
    LET gone == {f \in staging : f.end <= floor}
    IN  /\ tpc = "staging"
        /\ staging' = staging \ gone
        /\ owed' = owed \ gone
        /\ tpc' = "published"
        /\ UNCHANGED <<seq, cut, buffer, published, through, tier, closed, holder, floor, asked,
                       cleared, truncates, retiring, failures>>

\* The row is widened, the files leave, and a swap they were owed with them.
TruncateStaging ==
    LET gone == {f \in staging : f.end <= floor}
    IN  /\ tpc = "staging"
        /\ tier' = IF gone = {} THEN tier ELSE Widened(gone)
        /\ staging' = staging \ gone
        /\ owed' = owed \ gone
        /\ tpc' = "published"
        /\ UNCHANGED <<seq, cut, buffer, published, through, closed, holder, floor, asked,
                       cleared, truncates, retiring, failures>>

TruncatePublished ==
    /\ tpc = "published"
    /\ published' = {f \in published : f.end > floor}
    /\ tpc' = "row"
    /\ UNCHANGED <<seq, cut, buffer, staging, meta, closed, holder, floor, asked, cleared,
                   truncates, retiring, failures>>

\* _record_published_row, exactly, and the claim is released.
TruncateRow ==
    /\ tpc = "row"
    /\ tier' = IF published = {} /\ ~tier.has THEN tier ELSE Exact(published, staging)
    /\ cleared' = Max({cleared, floor})
    /\ holder' = "none" /\ tpc' = "idle" /\ floor' = 0
    /\ UNCHANGED <<seq, cut, tables, through, owed, closed, asked, truncates, retiring, failures>>

\* It dies and its claim lapses, or a checkpoint finds the claim gone.
TruncateStop ==
    /\ tpc # "idle" /\ failures < MaxFailures
    /\ failures' = failures + 1
    /\ holder' = "none" /\ tpc' = "idle" /\ floor' = 0
    /\ UNCHANGED <<seq, cut, tables, meta, closed, asked, cleared, truncates, retiring>>

Truncate == TruncateBuffer \/ TruncateStaging \/ TruncatePublished \/ TruncateRow

-----------------------------------------------------------------------------
(***************************************************************************)
(* Retire.  A routine refused its claim raises (publish, the last push,    *)
(* the property) or does nothing (seal, compact, evict).                   *)
(***************************************************************************)

Goto(label) == rpc' = label /\ UNCHANGED <<truncating, retired, empty, failures>>
Raise == Goto("idle") /\ UNCHANGED tvars
Skip(label) == Goto(label) /\ UNCHANGED tvars

\* close_buffer, unless the log is retired; a no-op when the buffer is closed.
RetireClose ==
    /\ rpc = "idle" /\ ~empty
    /\ closed' = IF closed = 0 THEN seq + 1 ELSE closed
    /\ Goto("seal")
    /\ UNCHANGED <<seq, cut, tables, meta, holder>>

RetireSeal ==
    /\ rpc = "seal"
    /\ \/ Unfiled = {} /\ Skip("publish")
       \/ Unfiled # {} /\ ~Free /\ Raise
       \/ Unfiled # {} /\ Free /\ SealRows /\ Goto("seal")

RetirePublish ==
    /\ rpc = "publish"
    /\ \/ ~Free /\ Raise
       \/ Free /\ Push(TRUE, FALSE) /\ Goto("compact")

RetireCompact ==
    /\ rpc = "compact"
    /\ \/ Free /\ CompactRun(TRUE) /\ Goto("push")
       \/ Skip("push")

RetirePush ==
    /\ rpc = "push"
    /\ \/ ~Free /\ Raise
       \/ Free /\ Push(TRUE, TRUE) /\ Goto("evictbuffer")

\* Mutant of RetireEvictBuffer: the staging table goes first.
Mut_EvictBufferLast ==
    /\ rpc = "evictbuffer"
    /\ IF Free THEN EvictFiles(TRUE, seq + 1) ELSE UNCHANGED tvars
    /\ Goto("evict")

RetireEvictBuffer ==
    /\ rpc = "evictbuffer"
    /\ EvictRows(1, seq + 1)
    /\ Goto("evict")
    /\ UNCHANGED <<seq, cut, staging, published, meta, closed, holder>>

RetireEvict ==
    /\ rpc = "evict"
    /\ IF Free THEN EvictFiles(TRUE, seq + 1) ELSE UNCHANGED tvars
    /\ Goto("check")

RetireCheck ==
    /\ rpc = "check"
    /\ IF staging # {} \/ buffer # {} THEN Raise ELSE Skip("property")

\* The property records the last offset the published table holds.
RetireProperty ==
    /\ rpc = "property"
    /\ \/ ~Free /\ Raise
       \/ /\ Free
          /\ retired' = [is |-> TRUE, through |-> IF published = {} THEN 0 ELSE PublishedEnd - 1]
          /\ rpc' = "empty"
          /\ UNCHANGED <<tvars, truncating, empty, failures>>

\* empty_buffer_range.
RetireEmpty ==
    /\ rpc = "empty"
    /\ empty' = TRUE /\ rpc' = "idle"
    /\ UNCHANGED <<tvars, truncating, retired, failures>>

RetireStop ==
    /\ rpc # "idle" /\ failures < MaxFailures
    /\ failures' = failures + 1
    /\ rpc' = "idle"
    /\ UNCHANGED <<tvars, truncating, retired, empty>>

Resume ==
    \/ RetireSeal \/ RetirePublish \/ RetireCompact \/ RetirePush \/ RetireEvictBuffer
    \/ RetireEvict \/ RetireCheck \/ RetireProperty \/ RetireEmpty

-----------------------------------------------------------------------------

Next ==
    \/ Maintain /\ UNCHANGED <<truncating, retiring, failures>>
    \/ \E below \in 1..MaxOffset + 1 : TruncateLook(below)
    \/ Truncate \/ TruncateStop
    \/ RetireClose \/ Resume \/ RetireStop

Spec == Init /\ [][Next]_vars

\* A process that has begun a truncate or a retire goes on with it, and one
\* that finds the log retiring calls retire again.
FairSpec ==
    /\ Spec
    /\ WF_vars(Truncate)
    /\ WF_vars(Resume)
    /\ WF_vars(closed # 0 /\ RetireClose)

-----------------------------------------------------------------------------

\* Only history is dropped, whatever stops half way: a row that no read
\* returns was below an offset some truncate was asked for, and published;
\* every other row is returned exactly once, also between two steps.
OnlyHistoryGoes ==
    \A o \in 1..seq : Served(o) = 1 \/ (Served(o) = 0 /\ o < asked /\ o <= through)

\* "Returns the floor reached: no row below it remains", and none comes back
\* from another tier later.
ClearedBelow == \A o \in 1..cleared - 1 : Served(o) = 0

\* A retired log took its last row before its buffer was closed, and all its
\* rows are in the published table, which says where it ended.
RetiredWhole ==
    empty =>
        /\ seq = closed - 1
        /\ staging = {} /\ buffer = {}
        /\ retired.is
        /\ \A o \in Rows(published) : o <= seq
        /\ retired.through \in {0, seq}
        /\ 1..seq \subseteq Rows(published) \cup 0..asked - 1

\* To a reader the log is only ever appended to, or cut: no step of a
\* truncate, a retire or the work beside them takes a row from the middle,
\* shows one twice, or brings one back (module Log).
View == INSTANCE Log WITH
    Offsets <- 1..MaxOffset,
    served <- [o \in 1..MaxOffset |-> IF o <= seq /\ Served(o) = 0 THEN -1 ELSE Served(o)]
IsACutLog == View!CutLogSpec

\* "Calling this again finishes it": a log that is retiring becomes retired.
RetireFinishes == closed # 0 ~> empty

=============================================================================
