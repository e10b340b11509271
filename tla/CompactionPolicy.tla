-------------------------- MODULE CompactionPolicy --------------------------
(***************************************************************************)
(* What compaction may merge and what is final (_maintenance.py), on the   *)
(* set of files of a table: [start, end, path] with disjoint ranges.  The  *)
(* code walks the files in offset order; here a walk is a quantifier over  *)
(* the files before or after.  Every row has size 1, so a file's size on   *)
(* disk is its number of rows.                                             *)
(***************************************************************************)
EXTENDS Integers, FiniteSets, FiniteSetsExt

CONSTANTS
    CompactSize,   \* config.compact_size: a file this big is full
    CompactStep,   \* config.compact_step: what makes the open stretch grow
    MinFiles       \* config.compact_min_files

ASSUME PolicyAssumption ==
    /\ CompactSize \in Nat \ {0} /\ CompactStep \in Nat \ {0}
    /\ MinFiles \in Nat /\ MinFiles >= 2

Span(f) == f.start .. f.end - 1
Rows(files) == UNION {Span(f) : f \in files}
TotalSize(files) == Cardinality(Rows(files))
Full(f) == f.end - f.start >= CompactSize
First(files) == CHOOSE f \in files : \A g \in files : f.start <= g.start
Last(files) == CHOOSE f \in files : \A g \in files : f.end >= g.end

\* stretches: a full file is alone; the others form maximal stretches with no
\* full file between.  The last one, with nothing full after it, is open.
Between(f, g, h) == f.start <= g.start /\ g.start <= h.start
Stretch(files, f) ==
    IF Full(f) THEN {f}
    ELSE {g \in files : ~ \E h \in files : Full(h) /\ (Between(f, h, g) \/ Between(g, h, f))}
Open(files, f) == \A h \in files : h.start >= f.start => ~Full(h)

\* stable_prefix: the files before the first stretch that is open or long
\* enough to be merged.
Settled(files) ==
    LET loose == {g \in files : Open(files, g) \/ Cardinality(Stretch(files, g)) >= MinFiles}
    IN  {f \in files : \A g \in loose : f.start < g.start}

\* _grows: the in-progress file absorbs the files after it.
Grows(files, flush) ==
    /\ Cardinality(files) >= 2
    /\ flush \/ TotalSize(files \ {First(files)}) >= CompactStep

\* merges: the runs to merge now.  An open stretch that starts below the
\* floor, the first offset not published, grows from published files only.
Runs(files, floor, flush) ==
    LET runs(f) ==
          LET s == Stretch(files, f)
              published == {g \in s : g.end <= floor}
              after == {g \in s : g.start >= floor}
          IN  IF ~Open(files, f)
              THEN {r \in {s} : Cardinality(r) >= MinFiles}
              ELSE IF First(s).start >= floor
              THEN {r \in {s} : Grows(r, flush)}
              ELSE {r \in {published} : Grows(r, flush)}
                     \cup {r \in {after} : Cardinality(r) >= 2 /\ TotalSize(r) >= CompactSize}
    IN  UNION {runs(f) : f \in files}

\* Where _write_merge may end an output and start the next: every output but
\* the last is full, and below the floor outputs end where an input does.
Cuts(run, floor) ==
    LET lo == First(run).start
        hi == Last(run).end
        ends == {f.end : f \in run}
        ok(c) == \A x \in c : /\ x >= floor \/ x \in ends
                              /\ x - Max({lo} \cup {y \in c : y < x}) >= CompactSize
    IN  {c \in SUBSET (lo + 1 .. hi - 1) : ok(c)}

\* _covered: a range inside the union of ranges; adjacent ones join.
Covered(ranges, f) == Span(f) \subseteq Rows(ranges)

\* The leading files that the ranges cover, and where the last of them ends.
CoveredPrefix(files, ranges) ==
    {f \in files : \A g \in files : g.start <= f.start => Covered(ranges, g)}
ReachOf(files) == Max({0} \cup {f.end : f \in files})

=============================================================================
