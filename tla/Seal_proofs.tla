----------------------------- MODULE Seal_proofs -----------------------------
(***************************************************************************)
(* What sealing and recovery keep, for any number of sealers, rows, names, *)
(* crashes and lapsed claims, as long as no seal attempt outlasts a        *)
(* retention (BoundedStall).                                               *)
(*                                                                         *)
(* The claims are not part of the argument: with two sealers on one group  *)
(* everything below still holds.  What it rests on is (1) Aligned: the     *)
(* ranges of groups, intents, staging files and attempts are cut from one  *)
(* sequence of groups, so two of them are equal or apart, and the          *)
(* published watermark never falls inside one; (2) Low: whatever an        *)
(* attempt may commit starts above only what a table already holds; and    *)
(* (3) Fits: what an attempt knows of its file and of the watermark at     *)
(* each of its steps.  With them the one check of LogTable.register is     *)
(* enough: what it lets through is the whole group, just above the table   *)
(* (RegisterIsWhole).                                                      *)
(***************************************************************************)
EXTENDS Seal, WellFoundedInduction, FiniteSetTheorems, TLAPS

\* A non-empty set of naturals has a least element, and Min picks it.
LEMMA MinOfNaturals ==
    ASSUME NEW S, S \subseteq Nat, S # {}
    PROVE  Min(S) \in S /\ \A y \in S : Min(S) <= y
<1>1. IsWellFoundedOn({p \in Nat \X Nat : p[1] < p[2]}, Nat)
  BY NatLessThanWellFounded, Zenon DEF OpToRel
<1>2. PICK x \in S : \A y \in S : ~(<<y, x>> \in {p \in Nat \X Nat : p[1] < p[2]})
  BY <1>1, WFMin
<1>3. \A y \in S : x <= y
  <2> SUFFICES ASSUME NEW y \in S PROVE x <= y
    OBVIOUS
  <2>1. y \in Nat /\ x \in Nat
    OBVIOUS
  <2>2. ~(y < x)
    BY <1>2, <2>1
  <2> QED
    BY <2>1, <2>2
<1>4. QED
  BY <1>3 DEF Min

\* A non-empty bounded one has a greatest, and Max picks it.
LEMMA MaxOfNaturals ==
    ASSUME NEW S, NEW n \in Nat, S \subseteq 0..n, S # {}
    PROVE  Max(S) \in S /\ \A y \in S : y <= Max(S)
<1>1. PICK T : T = {n - x : x \in S}
  OBVIOUS
<1>2. T \subseteq Nat
  <2> SUFFICES ASSUME NEW x \in S PROVE n - x \in Nat
    BY <1>1
  <2>1. x \in 0..n
    OBVIOUS
  <2> QED
    BY <2>1
<1>a. T # {}
  BY <1>1
<1>3. PICK t \in T : \A u \in T : t <= u
  BY <1>2, <1>a, MinOfNaturals
<1>4. PICK m \in S : t = n - m
  BY <1>1, <1>3
<1>5. \A y \in S : m >= y
  BY <1>1, <1>3, <1>4
<1>6. QED
  BY <1>5 DEF Max

-----------------------------------------------------------------------------

(***************************************************************************)
(* Where a sealer is in an attempt: it has a fresh name and no file yet;   *)
(* it has written the file; no one else uses its name; its job has a name; *)
(* its job has a range.                                                    *)
(***************************************************************************)

NamingAt == {"claimseal", "renew", "write", "reclaim"}
WrittenAt == {"fence", "watermark", "register"}
OwnedAt == NamingAt \cup WrittenAt
NamedAt == OwnedAt \cup {"declined", "finish", "landed", "abandon"}
RangedAt == NamedAt \cup {"intent"}

\* Everything that has a range, and everything that has a range and a name.
Jobs == {job[s] : s \in {t \in Sealers : pc[t] \in RangedAt}}
NamedJobs == {job[s] : s \in {t \in Sealers : pc[t] \in NamedAt}}
Ranged == extent \cup sealing \cup table \cup Jobs
Names == sealing \cup table \cup NamedJobs
SameRange(x, y) == x.start = y.start /\ x.end = y.end

\* The first offset that is in no closed group; the rows in a table.
Top == IF open = 0 THEN seq + 1 ELSE open
InTable(o) == \E f \in table : f.start <= o /\ o < f.end
Covered(o) == o <= through \/ InTable(o)

GroupType == [start : Nat, end : Nat, path : Nat]
FileType == [start : Nat, end : Nat, path : Paths]
JobType == [owner : Nat, start : Nat, end : Nat, path : Nat, thr : Nat]

Shapes ==
    /\ seq \in Nat /\ through \in Nat /\ open \in Nat /\ open <= seq
    /\ buffer \subseteq 1..seq
    /\ extent \subseteq GroupType /\ sealing \subseteq FileType /\ table \subseteq FileType
    /\ queue \subseteq Paths /\ doomed \subseteq Paths
    /\ pc \in [Sealers -> PC] /\ job \in [Sealers -> JobType]

\* One range, and two of them.
Bounded(x) ==
    /\ x.start \in Nat /\ x.end \in Nat
    /\ 1 <= x.start /\ x.start < x.end /\ x.end <= Top
    /\ x.end <= through + 1 \/ through + 1 <= x.start
Apart(x, y) == SameRange(x, y) \/ x.end <= y.start \/ y.end <= x.start

Aligned ==
    /\ through + 1 <= Top
    /\ \A x \in Ranged : Bounded(x)
    /\ \A x, y \in Ranged : Apart(x, y)

\* A file name belongs to one range; below a range everything is in a table.
OneName == \A x, y \in Names : x.path = y.path => SameRange(x, y)
Low(x) == \A o \in Nat : 1 <= o /\ o < x.start => Covered(o)

\* The tables: the published one is a prefix, the buffer has the rest, a
\* staging file holds its range, staging reaches the watermark, has no hole,
\* holds no range twice, and names nothing the running drain will unlink.
Published == published = 1..through
Buffered == \A o \in 1..seq : o \in buffer \/ o <= through
OnDisk == \A f \in table : RowsOf(f.path) = Span(f)
Ahead == table # {} => \E f \in table : f.end >= through + 1
Contig == \A f, g \in table : \A o \in Nat : f.start <= o /\ o < g.end => InTable(o)
Distinct == \A f, g \in table : f.end = g.end => f = g
DoomOut == \A p \in doomed : ~Named(p)

\* Two attempts never share a file name.
Own == \A s, t \in Sealers :
    s # t /\ pc[s] \in OwnedAt /\ pc[t] \in OwnedAt => job[s].path # job[t].path

\* What a job j must meet at label l: see the actions that lead there.
Fits(l, j) ==
    /\ l \in RangedAt => Low(j)
    /\ l \in NamedAt \cup {"lost"} => j.path \in Paths
    /\ l \in OwnedAt => j.path \notin doomed
    /\ l \in NamingAt => RowsOf(j.path) = {} /\ ~Named(j.path)
    /\ l \in WrittenAt =>
           /\ RowsOf(j.path) \subseteq Span(j)
           /\ \A o \in Span(j) : o \in RowsOf(j.path) \/ o <= through
    /\ l = "register" =>
           /\ j.thr <= through
           /\ j.thr = through \/ \E f \in table : f.end >= through + 1
    /\ l \in {"declined", "finish"} => \A o \in Span(j) : Covered(o)

Staging == Published /\ Buffered /\ OnDisk /\ Ahead /\ Contig /\ Distinct /\ DoomOut
Core ==
    /\ Shapes /\ Aligned /\ OneName
    /\ \A x \in sealing \cup table : Low(x)
    /\ Staging
    /\ Own
    /\ \A s \in Sealers : Fits(pc[s], job[s])

\* NothingForgotten, in the terms above.
Waiting(o) ==
    \/ \E g \in extent : g.path = 0 /\ g.start <= o /\ o < g.end
    \/ open # 0 /\ o >= open
Accounted == \A o \in 1..seq : Covered(o) \/ Waiting(o)

SealInv == Core /\ Accounted

-----------------------------------------------------------------------------
\* Ranges that are copies of aligned ranges are aligned.
LEMMA AlignedFollows ==
    ASSUME Aligned, UNCHANGED <<seq, open, through>>,
           \A x \in Ranged' : \E y \in Ranged : SameRange(x, y)
    PROVE  Aligned'
<1>1. Top' = Top
  BY DEF Top
<1>2. \A x \in Ranged' : Bounded(x)'
  BY <1>1 DEF Aligned, Bounded, SameRange
<1>3. \A x, y \in Ranged' : Apart(x, y)
  BY DEF Aligned, Apart, SameRange
<1>4. QED
  BY <1>1, <1>2, <1>3 DEF Aligned, Apart, SameRange

\* A step of one sealer that leaves the table, the disk and the log's rows
\* alone keeps the invariant if the sealer's new job meets what its label asks.
LEMMA SealerMoves ==
    ASSUME Core, NEW s \in Sealers, NEW l \in PC, NEW j \in JobType,
           pc' = [pc EXCEPT ![s] = l], job' = [job EXCEPT ![s] = j],
           UNCHANGED <<seq, buffer, open, through, disk, table, published, doomed>>,
           queue' \subseteq Paths,
           extent' \subseteq GroupType,
           \A x \in extent' : \E y \in extent : SameRange(x, y),
           sealing' \subseteq FileType,
           \A x \in sealing' :
               x \in sealing \/ (l \in NamedAt /\ SameRange(x, j) /\ x.path = j.path),
           l \in RangedAt => \E y \in Ranged : SameRange(j, y),
           l \in NamedAt => \A x \in Names : x.path = j.path => SameRange(x, j),
           l \in OwnedAt =>
               \A t \in Sealers \ {s} : pc[t] \in OwnedAt => job[t].path # j.path,
           Fits(l, j)
    PROVE  Core'
<1>1. Shapes'
  BY DEF Core, Shapes
<1>2. \A t \in Sealers : /\ pc'[t] = IF t = s THEN l ELSE pc[t]
                         /\ job'[t] = IF t = s THEN j ELSE job[t]
  BY DEF Core, Shapes
<1>4. \A x \in Ranged' : \E y \in Ranged : SameRange(x, y)
  <2> SUFFICES ASSUME NEW x \in Ranged' PROVE \E y \in Ranged : SameRange(x, y)
    OBVIOUS
  <2>1. CASE x \in extent'
    BY <2>1 DEF Ranged
  <2>2. CASE x \in table'
    BY <2>2 DEF Ranged, SameRange
  <2>3. CASE x \in sealing'
    <3>1. CASE x \in sealing
      BY <3>1 DEF Ranged, SameRange
    <3>2. CASE l \in NamedAt /\ SameRange(x, j)
      BY <3>2 DEF SameRange, RangedAt
    <3>3. QED
      BY <2>3, <3>1, <3>2
  <2>4. CASE x \in Jobs'
    <3>1. PICK t \in Sealers : x = job'[t] /\ pc'[t] \in RangedAt
      BY <2>4 DEF Jobs
    <3>2. CASE t = s
      BY <1>2, <3>1, <3>2
    <3>3. CASE t # s
      BY <1>2, <3>1, <3>3 DEF Ranged, Jobs, SameRange
    <3>4. QED
      BY <3>2, <3>3
  <2>5. QED
    BY <2>1, <2>2, <2>3, <2>4 DEF Ranged
<1>5. Aligned'
  BY <1>4, AlignedFollows DEF Core
<1>6. OneName'
  <2>1. \A x \in Names' : x \in Names \/ (l \in NamedAt /\ SameRange(x, j) /\ x.path = j.path)
    <3> SUFFICES ASSUME NEW x \in Names'
                 PROVE  x \in Names \/ (l \in NamedAt /\ SameRange(x, j) /\ x.path = j.path)
      OBVIOUS
    <3>1. CASE x \in sealing' \cup table'
      BY <3>1 DEF Names
    <3>2. CASE x \in NamedJobs'
      <4>1. PICK t \in Sealers : x = job'[t] /\ pc'[t] \in NamedAt
        BY <3>2 DEF NamedJobs
      <4>2. CASE t = s
        BY <1>2, <4>1, <4>2 DEF SameRange
      <4>3. CASE t # s
        BY <1>2, <4>1, <4>3 DEF Names, NamedJobs
      <4>4. QED
        BY <4>2, <4>3
    <3>3. QED
      BY <3>1, <3>2 DEF Names
  <2>2. QED
    BY <2>1 DEF Core, OneName, SameRange
<1>7. \A x : Low(x) => Low(x)'
  BY DEF Low, Covered, InTable
<1>8. \A x \in (sealing \cup table)' : Low(x)'
  <2>1. \A x \in sealing \cup table : Low(x)
    BY DEF Core
  <2>2. \A x \in sealing' : x \in sealing \/ (l \in RangedAt /\ x.start = j.start)
    BY DEF SameRange, RangedAt
  <2>3. \A x \in sealing' : Low(x)
    BY <2>1, <2>2 DEF Fits, Low
  <2>4. QED
    BY <1>7, <2>1, <2>3
<1>9. Staging'
  BY DEF Core, Staging, Published, Buffered, OnDisk, Ahead, Contig, Distinct, DoomOut,
         InTable, Named, RowsOf, Span
<1>10. Own'
  <2>1. Own
    BY DEF Core
  <2>2. QED
    BY <1>2, <2>1 DEF Own
<1>11. \A t \in Sealers : Fits(pc[t], job[t])' 
  <2> SUFFICES ASSUME NEW t \in Sealers PROVE Fits(pc[t], job[t])'
    OBVIOUS
  <2>1. \A k, i : Fits(k, i) => Fits(k, i)'
    BY <1>7 DEF Fits, RowsOf, Named, Span, Covered, InTable
  <2>2. Fits(pc'[t], job'[t])
    BY <1>2 DEF Core
  <2>3. QED
    BY <2>1, <2>2 DEF Fits
<1>12. QED
  BY <1>1, <1>5, <1>6, <1>8, <1>9, <1>10, <1>11 DEF Core

\* Rows, groups and tables untouched: no row is forgotten.
LEMMA AccountedKept ==
    ASSUME Accounted, UNCHANGED <<seq, open, extent, through, table>>
    PROVE  Accounted'
  BY DEF Accounted, Covered, InTable, Waiting

\* A sealer that ends, gives up or has not begun an attempt.
LEMMA Retreats ==
    ASSUME SealInv, NEW s \in Sealers, NEW l \in PC, NEW j \in JobType,
           l \notin RangedAt \cup {"lost"},
           pc' = [pc EXCEPT ![s] = l], job' = [job EXCEPT ![s] = j],
           UNCHANGED <<seq, buffer, open, extent, sealing, through, files>>,
           queue' \subseteq Paths
    PROVE  SealInv'
<1>1. l \notin RangedAt /\ l \notin NamedAt /\ l \notin OwnedAt /\ l \notin NamingAt
      /\ l \notin WrittenAt /\ l \notin {"register", "declined", "finish", "lost"}
  BY DEF RangedAt, NamedAt, OwnedAt, NamingAt, WrittenAt
<1>2. Fits(l, j)
  BY <1>1 DEF Fits
<1>3. extent' \subseteq GroupType /\ sealing' \subseteq FileType
  BY DEF SealInv, Core, Shapes
<1>4. \A x \in extent' : \E y \in extent : SameRange(x, y)
  BY DEF SameRange
<1>5. Core'
  BY <1>1, <1>2, <1>3, <1>4, SealerMoves DEF SealInv, files
<1>6. QED
  BY <1>5, AccountedKept DEF SealInv, files

\* A sealer that changes nothing but its own job and the queue.
LEMMA Advances ==
    ASSUME SealInv, NEW s \in Sealers, NEW l \in PC, NEW j \in JobType,
           pc' = [pc EXCEPT ![s] = l], job' = [job EXCEPT ![s] = j],
           UNCHANGED <<seq, buffer, open, extent, sealing, through, files>>,
           queue' \subseteq Paths,
           l \in RangedAt => \E y \in Ranged : SameRange(j, y),
           l \in NamedAt => \A x \in Names : x.path = j.path => SameRange(x, j),
           l \in OwnedAt =>
               \A t \in Sealers \ {s} : pc[t] \in OwnedAt => job[t].path # j.path,
           Fits(l, j)
    PROVE  SealInv'
<1>1. extent' \subseteq GroupType /\ sealing' \subseteq FileType
  BY DEF SealInv, Core, Shapes
<1>2. \A x \in extent' : \E y \in extent : SameRange(x, y)
  BY DEF SameRange
<1>3. Core'
  BY <1>1, <1>2, SealerMoves DEF SealInv, files
<1>4. QED
  BY <1>3, AccountedKept DEF SealInv, files

\* What a job that keeps its range and its name hands on to its next label.
LEMMA Carries ==
    ASSUME SealInv, NEW s \in Sealers, NEW l, NEW j,
           pc[s] \in NamedAt, SameRange(j, job[s]), j.path = job[s].path,
           l \in OwnedAt => pc[s] \in OwnedAt
    PROVE  /\ \E y \in Ranged : SameRange(j, y)
           /\ \A x \in Names : x.path = j.path => SameRange(x, j)
           /\ l \in OwnedAt =>
                  \A t \in Sealers \ {s} : pc[t] \in OwnedAt => job[t].path # j.path
           /\ Low(j) /\ j.path \in Paths
           /\ pc[s] \in OwnedAt => j.path \notin doomed
<1>1. job[s] \in Ranged /\ job[s] \in Names
  BY DEF Ranged, Jobs, Names, NamedJobs, RangedAt
<1>2. \A x \in Names : x.path = job[s].path => SameRange(x, job[s])
  BY <1>1 DEF SealInv, Core, OneName
<1>3. Fits(pc[s], job[s])
  BY DEF SealInv, Core
<1>4. QED
  BY <1>1, <1>2, <1>3 DEF SealInv, Core, Own, SameRange, Fits, Low, RangedAt

\* The labels at which a sealer owes nothing.
LEMMA AwayLabels ==
    \A l \in {"idle", "acquire", "recheck", "recover", "release"} :
        l \in PC /\ l \notin RangedAt \cup {"lost"}
<1>1. \A l \in {"idle", "acquire", "recheck", "recover", "release"} : l \in PC
  BY DEF PC
<1>2. \A l \in {"idle", "acquire", "recheck", "recover", "release"} :
          l \notin RangedAt \cup {"lost"}
  BY DEF RangedAt, NamedAt, OwnedAt, NamingAt, WrittenAt
<1>3. QED
  BY <1>1, <1>2

\* To the release of the claim, with the job forgotten.
LEMMA LeavesAre ==
    ASSUME Shapes, NEW s \in Sealers, Leave(s)
    PROVE  \E j \in JobType : /\ pc' = [pc EXCEPT ![s] = "release"]
                              /\ job' = [job EXCEPT ![s] = j]
  BY DEF Leave, Go, NoJob, Shapes, JobType

\* A fresh claim owner is a number ...
LEMMA FreshOwners ==
    ASSUME Owners \ UsedOwners # {}
    PROVE  FreshOwner \in Nat
<1>1. Owners \ UsedOwners \subseteq Nat
  BY BoundsAssumption
<1>2. FreshOwner \in Owners \ UsedOwners
  BY <1>1, MinOfNaturals DEF FreshOwner
<1>3. QED
  BY <1>1, <1>2

\* ... and a fresh name is one no one remembers.
LEMMA FreshPaths ==
    ASSUME Paths \ UsedPaths # {}
    PROVE  FreshPath \in Paths \ UsedPaths
<1>1. Paths \ UsedPaths \subseteq Nat
  BY BoundsAssumption
<1>2. QED
  BY <1>1, MinOfNaturals DEF FreshPath

\* PendingGroup is a pending group that starts no later than any other.
LEMMA PendingIsOldest ==
    ASSUME Shapes, Pending # {}
    PROVE  PendingGroup \in Pending /\ \A h \in Pending : PendingGroup.start <= h.start
<1>1. PICK S : S = {g.start : g \in Pending}
  OBVIOUS
<1>2. S \subseteq Nat
  BY <1>1 DEF Shapes, Pending, GroupType
<1>3. S # {}
  BY <1>1
<1>4. PICK m \in S : \A y \in S : m <= y
  BY <1>2, <1>3, MinOfNaturals
<1>5. \E g \in Pending : \A h \in Pending : g.start <= h.start
  BY <1>1, <1>4
<1>6. QED
  BY <1>5 DEF PendingGroup

-----------------------------------------------------------------------------
\* PickGroup: the read before the claim promises nothing yet.
LEMMA PickGroupKeeps ==
    ASSUME SealInv, NEW s \in Sealers, PickGroup(s)
    PROVE  SealInv'
<1>1. PendingGroup \in GroupType
  BY PendingIsOldest DEF PickGroup, SealInv, Core, Shapes, Pending
<1>2. PICK j : j = [NoJob EXCEPT !.owner = FreshOwner, !.start = PendingGroup.start,
                                  !.end = PendingGroup.end]
  OBVIOUS
<1>3. j \in JobType
  BY <1>1, <1>2, FreshOwners DEF PickGroup, JobType, GroupType, NoJob
<1>4. job' = [job EXCEPT ![s] = j] /\ pc' = [pc EXCEPT ![s] = "acquire"]
  BY <1>2 DEF PickGroup, Go
<1>5. UNCHANGED <<seq, buffer, open, extent, sealing, through, files>> /\ queue' \subseteq Paths
  BY DEF PickGroup, SealInv, Core, Shapes, db
<1>6. QED
  BY <1>3, <1>4, <1>5, Retreats, AwayLabels

\* PickRecover.
LEMMA PickRecoverKeeps ==
    ASSUME SealInv, NEW s \in Sealers, PickRecover(s)
    PROVE  SealInv'
<1>1. PICK j : j = [NoJob EXCEPT !.owner = FreshOwner, !.end = Everything]
  OBVIOUS
<1>a. Everything \in Nat
  BY BoundsAssumption DEF Everything
<1>2. j \in JobType
  BY <1>1, <1>a, FreshOwners DEF PickRecover, JobType, NoJob
<1>3. job' = [job EXCEPT ![s] = j] /\ pc' = [pc EXCEPT ![s] = "acquire"]
  BY <1>1 DEF PickRecover, Go
<1>4. UNCHANGED <<seq, buffer, open, extent, sealing, through, files>> /\ queue' \subseteq Paths
  BY DEF PickRecover, SealInv, Core, Shapes, db
<1>5. QED
  BY <1>2, <1>3, <1>4, Retreats, AwayLabels

\* Acquire, refused or in.
LEMMA AcquireKeeps ==
    ASSUME SealInv, NEW s \in Sealers, Acquire(s)
    PROVE  SealInv'
<1>1. UNCHANGED <<seq, buffer, open, extent, sealing, through, files>> /\ queue' \subseteq Paths
  BY DEF Acquire, SealInv, Core, Shapes, db
<1>2. job[s] \in JobType /\ job \in [Sealers -> JobType] /\ NoJob \in JobType
  BY DEF SealInv, Core, Shapes, NoJob, JobType
<1>3. CASE /\ pc' = [pc EXCEPT ![s] = "idle"]
           /\ job' = [job EXCEPT ![s] = NoJob]
  BY <1>1, <1>2, <1>3, Retreats, AwayLabels
<1>4. CASE job' = job /\ Go(s, IF job[s].end = Everything THEN "recover" ELSE "recheck")
  <2>1. PICK j \in JobType : j = job[s]
    BY <1>2
  <2>2. job' = [job EXCEPT ![s] = j]
    BY <1>2, <1>4, <2>1
  <2>3. PICK l \in {"recover", "recheck"} : pc' = [pc EXCEPT ![s] = l]
    BY <1>4 DEF Go
  <2>4. QED
    BY <1>1, <2>2, <2>3, Retreats, AwayLabels
<1>5. QED
  BY <1>3, <1>4 DEF Acquire, Go

\* ReleaseClaim and Crash: what committed stays, the locals go.
LEMMA ReleaseKeeps ==
    ASSUME SealInv, NEW s \in Sealers, ReleaseClaim(s) \/ Crash(s)
    PROVE  SealInv'
<1>1. UNCHANGED <<seq, buffer, open, extent, sealing, through, files>> /\ queue' \subseteq Paths
  BY DEF ReleaseClaim, Crash, SealInv, Core, Shapes, db
<1>2. /\ pc' = [pc EXCEPT ![s] = "idle"]
      /\ job' = [job EXCEPT ![s] = NoJob]
  BY DEF ReleaseClaim, Crash, Go
<1>3. NoJob \in JobType
  BY DEF NoJob, JobType
<1>4. QED
  BY <1>1, <1>2, <1>3, Retreats, AwayLabels

\* Leave, from wherever the attempt ends.
LEMMA LeaveKeeps ==
    ASSUME SealInv, NEW s \in Sealers, Leave(s),
           UNCHANGED <<seq, buffer, open, extent, sealing, through, files>>,
           queue' \subseteq Paths
    PROVE  SealInv'
<1>1. PICK j \in JobType : /\ pc' = [pc EXCEPT ![s] = "release"]
                           /\ job' = [job EXCEPT ![s] = j]
  BY LeavesAre DEF SealInv, Core
<1>2. QED
  BY <1>1, Retreats, AwayLabels

\* Recheck: the oldest pending group has only covered rows below it.
LEMMA RecheckKeeps ==
    ASSUME SealInv, NEW s \in Sealers, Recheck(s)
    PROVE  SealInv'
<1>1. UNCHANGED <<seq, buffer, open, extent, sealing, through, files>> /\ queue' \subseteq Paths
  BY DEF Recheck, SealInv, Core, Shapes, db
<1>2. CASE Leave(s)
  BY <1>1, <1>2, LeaveKeeps
<1>3. CASE /\ Go(s, "intent") /\ UNCHANGED job
           /\ \E g \in Pending : /\ g = PendingGroup
                                 /\ g.start = job[s].start /\ g.end = job[s].end
  <2>1. PICK j \in JobType : j = job[s]
    BY DEF SealInv, Core, Shapes
  <2>2. job' = [job EXCEPT ![s] = j] /\ pc' = [pc EXCEPT ![s] = "intent"]
    BY <1>3, <2>1 DEF Go, SealInv, Core, Shapes
  <2>3. PICK g \in Pending : g = PendingGroup /\ g.start = j.start /\ g.end = j.end
    BY <1>3, <2>1
  <2>4. g \in extent /\ g.path = 0
    BY <2>3 DEF Pending
  <2>5. \E y \in Ranged : SameRange(j, y)
    BY <2>3, <2>4 DEF Ranged, SameRange
  <2>6. Low(j)
    <3> SUFFICES ASSUME NEW o \in Nat, 1 <= o, o < j.start PROVE Covered(o)
      BY DEF Low
    <3>1. Bounded(g)
      BY <2>4 DEF SealInv, Core, Aligned, Ranged
    <3>2. Top <= seq + 1 /\ seq \in Nat /\ open \in Nat
      BY DEF Top, SealInv, Core, Shapes
    <3>3. o \in 1..seq
      BY <2>3, <3>1, <3>2 DEF Bounded, Top
    <3>4. CASE \E h \in extent : h.path = 0 /\ h.start <= o /\ o < h.end
      <4>1. PICK h \in Pending : h.start <= o
        BY <3>4 DEF Pending
      <4>2. g.start <= h.start
        BY <2>3, <4>1, PendingIsOldest DEF SealInv, Core
      <4>3. g.start \in Nat /\ h.start \in Nat
        BY <4>1, <2>4 DEF Pending, SealInv, Core, Shapes, GroupType
      <4>4. QED
        BY <2>3, <4>1, <4>2, <4>3
    <3>5. CASE open # 0 /\ o >= open
      BY <2>3, <3>1, <3>2, <3>5 DEF Bounded, Top
    <3>6. QED
      BY <3>3, <3>4, <3>5 DEF SealInv, Accounted, Waiting
  <2>7. Fits("intent", j)
    BY <2>6 DEF Fits, RangedAt, NamedAt, OwnedAt, NamingAt, WrittenAt
  <2>8. "intent" \notin NamedAt /\ "intent" \notin OwnedAt /\ "intent" \in PC
    BY DEF PC, RangedAt, NamedAt, OwnedAt, NamingAt, WrittenAt
  <2>9. QED
    BY <1>1, <2>2, <2>5, <2>7, <2>8, Advances
<1>4. QED
  BY <1>2, <1>3 DEF Recheck

\* A name no one remembers is no one's: not on disk, not in the table, not
\* doomed, and no other sealer's.
LEMMA FreshIsFree ==
    ASSUME SealInv, Paths \ UsedPaths # {}, NEW p, p = FreshPath
    PROVE  /\ p \in Paths /\ p \in Nat /\ p \notin doomed
           /\ RowsOf(p) = {} /\ ~Named(p)
           /\ \A x \in Names : x.path # p
           /\ \A t \in Sealers : job[t].path # p
<1>1. p \in Paths \ UsedPaths
  BY FreshPaths
<1>2. p \in Nat
  BY <1>1, BoundsAssumption
<1>3. p \notin doomed /\ ~Named(p) /\ (\A t \in Sealers : job[t].path # p)
  BY <1>1 DEF UsedPaths, Named
<1>4. \A f \in disk : f.path # p
  BY <1>1 DEF UsedPaths
<1>5. RowsOf(p) = {}
  BY <1>4 DEF RowsOf
<1>6. \A x \in Names : x.path # p
  BY <1>1 DEF UsedPaths, Names, NamedJobs
<1>7. QED
  BY <1>1, <1>2, <1>3, <1>5, <1>6

\* LookForIntent: a group without an intent gets a fresh name.
LEMMA LookForIntentKeeps ==
    ASSUME SealInv, NEW s \in Sealers, LookForIntent(s)
    PROVE  SealInv'
<1>1. UNCHANGED <<seq, buffer, open, extent, sealing, through, files>> /\ queue' \subseteq Paths
  BY DEF LookForIntent, SealInv, Core, Shapes, db
<1>2. job \in [Sealers -> JobType]
  BY DEF SealInv, Core, Shapes
<1>3. CASE Go(s, "recover") /\ UNCHANGED job
  <2>1. PICK j \in JobType : j = job[s]
    BY <1>2
  <2>2. job' = [job EXCEPT ![s] = j] /\ pc' = [pc EXCEPT ![s] = "recover"]
    BY <1>2, <1>3, <2>1 DEF Go
  <2>3. QED
    BY <1>1, <2>2, Retreats, AwayLabels
<1>4. CASE /\ Paths \ UsedPaths # {}
           /\ job' = [job EXCEPT ![s].path = FreshPath]
           /\ Go(s, "claimseal")
  <2>1. PICK p : p = FreshPath
    OBVIOUS
  <2>2. PICK j : j = [job[s] EXCEPT !.path = p]
    OBVIOUS
  <2>3. p \in Nat
    BY <1>4, <2>1, FreshIsFree
  <2>4. j \in JobType /\ j.path = p /\ SameRange(j, job[s])
    BY <1>2, <2>2, <2>3 DEF JobType, SameRange
  <2>5. job' = [job EXCEPT ![s] = j] /\ pc' = [pc EXCEPT ![s] = "claimseal"]
    BY <1>4, <2>1, <2>2 DEF Go
  <2>6. pc[s] \in RangedAt
    BY DEF LookForIntent, RangedAt, NamedAt, OwnedAt, NamingAt, WrittenAt
  <2>7. job[s] \in Ranged /\ Low(job[s])
    BY <2>6 DEF Ranged, Jobs, SealInv, Core, Fits
  <2>8. Fits("claimseal", j)
    BY <1>4, <2>1, <2>4, <2>7, FreshIsFree DEF Fits, Low, SameRange, RangedAt, NamedAt, OwnedAt, NamingAt, WrittenAt
  <2>9. /\ \E y \in Ranged : SameRange(j, y)
        /\ \A x \in Names : x.path # j.path
        /\ \A t \in Sealers : job[t].path # j.path
    BY <1>4, <2>1, <2>4, <2>7, FreshIsFree
  <2>10. "claimseal" \in PC
    BY DEF PC
  <2>11. QED
    BY <1>1, <2>4, <2>5, <2>8, <2>9, <2>10, Advances
<1>5. QED
  BY <1>3, <1>4 DEF LookForIntent

\* QueueAbandoned: the retry gets a fresh name too.
LEMMA QueueAbandonedKeeps ==
    ASSUME SealInv, NEW s \in Sealers, QueueAbandoned(s)
    PROVE  SealInv'
<1>1. UNCHANGED <<seq, buffer, open, extent, sealing, through, files>>
  BY DEF QueueAbandoned
<1>2. job \in [Sealers -> JobType]
  BY DEF SealInv, Core, Shapes
<1>3. pc[s] \in NamedAt
  BY DEF QueueAbandoned, RangedAt, NamedAt, OwnedAt, NamingAt, WrittenAt
<1>4. queue' \subseteq Paths
  BY <1>3 DEF QueueAbandoned, SealInv, Core, Shapes, Fits
<1>5. PICK p : p = FreshPath
  OBVIOUS
<1>6. PICK j : j = [job[s] EXCEPT !.path = p]
  OBVIOUS
<1>7. Paths \ UsedPaths # {}
  BY DEF QueueAbandoned
<1>8. p \in Nat
  BY <1>5, <1>7, FreshIsFree
<1>9. j \in JobType /\ j.path = p /\ SameRange(j, job[s])
  BY <1>2, <1>6, <1>8 DEF JobType, SameRange
<1>10. job' = [job EXCEPT ![s] = j] /\ pc' = [pc EXCEPT ![s] = "reclaim"]
  BY <1>5, <1>6 DEF Go, QueueAbandoned
<1>11. job[s] \in Ranged /\ Low(job[s])
  BY <1>3 DEF Ranged, Jobs, RangedAt, SealInv, Core, Fits
<1>12. Fits("reclaim", j)
  BY <1>5, <1>7, <1>9, <1>11, FreshIsFree DEF Fits, Low, SameRange, RangedAt, NamedAt, OwnedAt, NamingAt, WrittenAt
<1>13. /\ \E y \in Ranged : SameRange(j, y)
       /\ \A x \in Names : x.path # j.path
       /\ \A t \in Sealers : job[t].path # j.path
  BY <1>5, <1>7, <1>9, <1>11, FreshIsFree
<1>14. "reclaim" \in PC
  BY DEF PC
<1>15. QED
  BY <1>1, <1>4, <1>9, <1>10, <1>12, <1>13, <1>14, Advances

\* claim_seal, at the first attempt and at a retry.
LEMMA IntentKeeps ==
    ASSUME SealInv, NEW s \in Sealers, NEW l \in {"renew", "write"},
           pc[s] \in NamingAt, ReplaceIntent(s), Go(s, l), UNCHANGED job,
           UNCHANGED <<seq, buffer, open, extent, queue, through, files>>
    PROVE  SealInv'
<1>1. PICK j \in JobType : j = job[s]
  BY DEF SealInv, Core, Shapes
<1>2. job' = [job EXCEPT ![s] = j] /\ pc' = [pc EXCEPT ![s] = l]
  BY <1>1 DEF Go, SealInv, Core, Shapes
<1>3. l \in NamingAt /\ l \in NamedAt /\ l \in RangedAt /\ l \in PC
  BY DEF PC, RangedAt, NamedAt, OwnedAt, NamingAt, WrittenAt
<1>4. pc[s] \in NamedAt /\ pc[s] \in OwnedAt
  BY DEF RangedAt, NamedAt, OwnedAt, NamingAt, WrittenAt
<1>5. /\ \E y \in Ranged : SameRange(j, y)
      /\ \A x \in Names : x.path = j.path => SameRange(x, j)
      /\ \A t \in Sealers \ {s} : pc[t] \in OwnedAt => job[t].path # j.path
      /\ Low(j) /\ j.path \in Paths /\ j.path \notin doomed
  <2>1. SameRange(j, job[s]) /\ j.path = job[s].path
    BY <1>1 DEF SameRange
  <2>2. QED
    BY <1>4, <2>1, Carries
<1>6. Fits(l, j)
  <2>1. RowsOf(j.path) = {} /\ ~Named(j.path)
    BY <1>1 DEF SealInv, Core, Fits
  <2>2. QED
    BY <1>5, <2>1 DEF Fits, RangedAt, NamedAt, OwnedAt, NamingAt, WrittenAt
<1>7. sealing' = {[start |-> j.start, end |-> j.end, path |-> j.path]}
  BY <1>1 DEF ReplaceIntent
<1>8. /\ sealing' \subseteq FileType
      /\ \A x \in sealing' : SameRange(x, j) /\ x.path = j.path
  BY <1>5, <1>7 DEF FileType, JobType, SameRange
<1>9. extent' \subseteq GroupType /\ queue' \subseteq Paths
  BY DEF SealInv, Core, Shapes
<1>10. \A x \in extent' : \E y \in extent : SameRange(x, y)
  BY DEF SameRange
<1>11. Core'
  BY <1>2, <1>3, <1>5, <1>6, <1>8, <1>9, <1>10, SealerMoves DEF SealInv, files
<1>12. QED
  BY <1>11, AccountedKept DEF SealInv, files

\* A sealer that keeps its range and its name and moves to a label whose
\* obligations its job meets.
LEMMA CarriedKeeps ==
    ASSUME SealInv, NEW s \in Sealers, NEW l \in PC, NEW j \in JobType,
           pc' = [pc EXCEPT ![s] = l], job' = [job EXCEPT ![s] = j],
           UNCHANGED <<seq, buffer, open, extent, sealing, through, files>>,
           queue' \subseteq Paths,
           pc[s] \in NamedAt, SameRange(j, job[s]), j.path = job[s].path,
           l \in OwnedAt => pc[s] \in OwnedAt,
           Fits(l, j)
    PROVE  SealInv'
<1>1. /\ \E y \in Ranged : SameRange(j, y)
      /\ \A x \in Names : x.path = j.path => SameRange(x, j)
      /\ l \in OwnedAt =>
             \A t \in Sealers \ {s} : pc[t] \in OwnedAt => job[t].path # j.path
  BY Carries
<1>2. QED
  BY <1>1, Advances

\* RenewBeforeWrite.
LEMMA RenewBeforeWriteKeeps ==
    ASSUME SealInv, NEW s \in Sealers, RenewBeforeWrite(s)
    PROVE  SealInv'
<1>1. UNCHANGED <<seq, buffer, open, extent, sealing, through, files>> /\ queue' \subseteq Paths
  BY DEF RenewBeforeWrite, SealInv, Core, Shapes, db
<1>2. CASE Leave(s)
  BY <1>1, <1>2, LeaveKeeps
<1>3. CASE Go(s, "write") /\ UNCHANGED job
  <2>1. PICK j \in JobType : j = job[s]
    BY DEF SealInv, Core, Shapes
  <2>2. job' = [job EXCEPT ![s] = j] /\ pc' = [pc EXCEPT ![s] = "write"]
    BY <1>3, <2>1 DEF Go, SealInv, Core, Shapes
  <2>3. pc[s] = "renew" /\ pc[s] \in NamedAt /\ pc[s] \in OwnedAt /\ "write" \in PC
    BY DEF RenewBeforeWrite, PC, RangedAt, NamedAt, OwnedAt, NamingAt, WrittenAt
  <2>4. Fits("renew", j)
    BY <2>1, <2>3 DEF SealInv, Core
  <2>5. Fits("write", j)
    BY <2>4 DEF Fits, RangedAt, NamedAt, OwnedAt, NamingAt, WrittenAt
  <2>6. QED
    BY <1>1, <2>1, <2>2, <2>3, <2>5, CarriedKeeps DEF SameRange
<1>4. QED
  BY <1>2, <1>3 DEF RenewBeforeWrite

\* RenewBeforeCommit.
LEMMA RenewBeforeCommitKeeps ==
    ASSUME SealInv, NEW s \in Sealers, RenewBeforeCommit(s)
    PROVE  SealInv'
<1>1. UNCHANGED <<seq, buffer, open, extent, sealing, through, files>> /\ queue' \subseteq Paths
  BY DEF RenewBeforeCommit, SealInv, Core, Shapes, db
<1>2. PICK j \in JobType : j = job[s]
  BY DEF SealInv, Core, Shapes
<1>3. PICK l \in {"watermark", "lost"} : pc' = [pc EXCEPT ![s] = l]
  BY DEF RenewBeforeCommit, Go
<1>4. job' = [job EXCEPT ![s] = j]
  BY <1>2 DEF RenewBeforeCommit, SealInv, Core, Shapes
<1>5. pc[s] = "fence" /\ pc[s] \in NamedAt /\ pc[s] \in OwnedAt /\ l \in PC
  BY DEF RenewBeforeCommit, PC, RangedAt, NamedAt, OwnedAt, NamingAt, WrittenAt
<1>6. Fits("fence", j)
  BY <1>2, <1>5 DEF SealInv, Core
<1>7. Fits(l, j)
  BY <1>6 DEF Fits, RangedAt, NamedAt, OwnedAt, NamingAt, WrittenAt
<1>8. QED
  BY <1>1, <1>2, <1>3, <1>4, <1>5, <1>7, CarriedKeeps DEF SameRange

\* QueueLostFile.
LEMMA QueueLostFileKeeps ==
    ASSUME SealInv, NEW s \in Sealers, QueueLostFile(s)
    PROVE  SealInv'
<1>1. UNCHANGED <<seq, buffer, open, extent, sealing, through, files>>
  BY DEF QueueLostFile
<1>2. queue' \subseteq Paths
  BY DEF QueueLostFile, SealInv, Core, Shapes, Fits
<1>3. QED
  BY <1>1, <1>2, LeaveKeeps DEF QueueLostFile

\* ReadWatermark: what register is told was true when it was read.
LEMMA ReadWatermarkKeeps ==
    ASSUME SealInv, NEW s \in Sealers, ReadWatermark(s)
    PROVE  SealInv'
<1>1. UNCHANGED <<seq, buffer, open, extent, sealing, through, files>> /\ queue' \subseteq Paths
  BY DEF ReadWatermark, SealInv, Core, Shapes, db
<1>2. PICK j : j = [job[s] EXCEPT !.thr = through]
  OBVIOUS
<1>3. j \in JobType /\ SameRange(j, job[s]) /\ j.path = job[s].path /\ j.thr = through
  BY <1>2 DEF SealInv, Core, Shapes, JobType, SameRange
<1>4. job' = [job EXCEPT ![s] = j] /\ pc' = [pc EXCEPT ![s] = "register"]
  BY <1>2 DEF ReadWatermark, Go
<1>5. pc[s] = "watermark" /\ pc[s] \in NamedAt /\ pc[s] \in OwnedAt /\ "register" \in PC
  BY DEF ReadWatermark, PC, RangedAt, NamedAt, OwnedAt, NamingAt, WrittenAt
<1>6. Fits("watermark", job[s])
  BY <1>5 DEF SealInv, Core
<1>7. Fits("register", j)
  <2>1. through \in Nat
    BY DEF SealInv, Core, Shapes
  <2>2. Low(j) /\ Span(j) = Span(job[s])
    BY <1>3, <1>6 DEF Fits, Low, Span, SameRange, RangedAt, NamedAt, OwnedAt, NamingAt, WrittenAt
  <2>3. QED
    BY <1>3, <1>6, <2>1, <2>2 DEF Fits, RangedAt, NamedAt, OwnedAt, NamingAt, WrittenAt
<1>8. QED
  BY <1>1, <1>3, <1>4, <1>5, <1>7, CarriedKeeps

\* QueueDeclinedFile.
LEMMA QueueDeclinedFileKeeps ==
    ASSUME SealInv, NEW s \in Sealers, QueueDeclinedFile(s)
    PROVE  SealInv'
<1>1. UNCHANGED <<seq, buffer, open, extent, sealing, through, files>>
  BY DEF QueueDeclinedFile
<1>2. PICK j \in JobType : j = job[s]
  BY DEF SealInv, Core, Shapes
<1>3. job' = [job EXCEPT ![s] = j] /\ pc' = [pc EXCEPT ![s] = "finish"]
  BY <1>2 DEF QueueDeclinedFile, Go, SealInv, Core, Shapes
<1>4. pc[s] = "declined" /\ pc[s] \in NamedAt /\ "finish" \in PC /\ "finish" \notin OwnedAt
  BY DEF QueueDeclinedFile, PC, RangedAt, NamedAt, OwnedAt, NamingAt, WrittenAt
<1>5. Fits("declined", j)
  BY <1>2, <1>4 DEF SealInv, Core
<1>6. Fits("finish", j)
  BY <1>5 DEF Fits, RangedAt, NamedAt, OwnedAt, NamingAt, WrittenAt
<1>7. queue' \subseteq Paths
  BY <1>2, <1>4, <1>5 DEF QueueDeclinedFile, SealInv, Core, Shapes, Fits
<1>8. QED
  BY <1>1, <1>2, <1>3, <1>4, <1>6, <1>7, CarriedKeeps DEF SameRange

\* ReadIntent: recovery takes the range and the name of the intent.
LEMMA ReadIntentKeeps ==
    ASSUME SealInv, NEW s \in Sealers, ReadIntent(s)
    PROVE  SealInv'
<1>1. UNCHANGED <<seq, buffer, open, extent, sealing, through, files>> /\ queue' \subseteq Paths
  BY DEF ReadIntent, SealInv, Core, Shapes, db
<1>2. CASE Leave(s)
  BY <1>1, <1>2, LeaveKeeps
<1>3. CASE \E i \in sealing :
              /\ job' = [job EXCEPT ![s].start = i.start, ![s].end = i.end, ![s].path = i.path]
              /\ Go(s, "landed")
  <2>1. PICK i \in sealing :
              /\ job' = [job EXCEPT ![s].start = i.start, ![s].end = i.end, ![s].path = i.path]
              /\ Go(s, "landed")
    BY <1>3
  <2>2. i \in FileType /\ i.path \in Paths /\ i.path \in Nat /\ job \in [Sealers -> JobType]
    BY BoundsAssumption DEF SealInv, Core, Shapes, FileType
  <2>3. PICK j : j = [job[s] EXCEPT !.start = i.start, !.end = i.end, !.path = i.path]
    OBVIOUS
  <2>4. j \in JobType /\ SameRange(j, i) /\ j.path = i.path
    BY <2>2, <2>3 DEF JobType, FileType, SameRange
  <2>5. job' = [job EXCEPT ![s] = j] /\ pc' = [pc EXCEPT ![s] = "landed"]
    BY <2>1, <2>2, <2>3 DEF Go
  <2>6. i \in Ranged /\ i \in Names
    BY DEF Ranged, Names
  <2>7. \A x \in Names : x.path = j.path => SameRange(x, j)
    BY <2>4, <2>6 DEF SealInv, Core, OneName, SameRange
  <2>8. Low(j)
    BY <2>4 DEF SealInv, Core, Low, SameRange
  <2>9. Fits("landed", j)
    BY <2>2, <2>4, <2>8 DEF Fits, RangedAt, NamedAt, OwnedAt, NamingAt, WrittenAt
  <2>10. "landed" \in PC /\ "landed" \notin OwnedAt
    BY DEF PC, RangedAt, NamedAt, OwnedAt, NamingAt, WrittenAt
  <2>11. QED
    BY <1>1, <2>4, <2>5, <2>6, <2>7, <2>9, <2>10, Advances
<1>4. QED
  BY <1>2, <1>3 DEF ReadIntent

\* LookForLanded: a name in the table covers the range of its intent.
LEMMA LookForLandedKeeps ==
    ASSUME SealInv, NEW s \in Sealers, LookForLanded(s)
    PROVE  SealInv'
<1>1. UNCHANGED <<seq, buffer, open, extent, sealing, through, files>> /\ queue' \subseteq Paths
  BY DEF LookForLanded, SealInv, Core, Shapes, db
<1>2. PICK j \in JobType : j = job[s]
  BY DEF SealInv, Core, Shapes
<1>3. PICK l \in {"finish", "abandon"} :
          pc' = [pc EXCEPT ![s] = l] /\ (l = "finish" => Named(j.path))
  BY <1>2 DEF LookForLanded, Go
<1>4. job' = [job EXCEPT ![s] = j]
  BY <1>2 DEF LookForLanded, SealInv, Core, Shapes
<1>5. pc[s] = "landed" /\ pc[s] \in NamedAt /\ l \in PC /\ l \notin OwnedAt
  BY DEF LookForLanded, PC, RangedAt, NamedAt, OwnedAt, NamingAt, WrittenAt
<1>6. Fits("landed", j)
  BY <1>2, <1>5 DEF SealInv, Core
<1>7. l = "finish" => \A o \in Span(j) : Covered(o)
  <2> SUFFICES ASSUME l = "finish", NEW o \in Span(j) PROVE Covered(o)
    OBVIOUS
  <2>1. PICK f \in table : f.path = j.path
    BY <1>3 DEF Named
  <2>2. f \in Names /\ j \in Names
    BY <1>2, <1>5 DEF Names, NamedJobs
  <2>3. SameRange(f, j)
    BY <2>1, <2>2 DEF SealInv, Core, OneName
  <2>4. QED
    BY <2>3 DEF SameRange, Span, Covered, InTable, JobType
<1>8. Fits(l, j)
  BY <1>6, <1>7 DEF Fits, RangedAt, NamedAt, OwnedAt, NamingAt, WrittenAt
<1>9. QED
  BY <1>1, <1>2, <1>3, <1>4, <1>5, <1>8, CarriedKeeps DEF SameRange

\* FinishSeal: the group it names is covered, so no row is forgotten.
LEMMA FinishSealKeeps ==
    ASSUME SealInv, NEW s \in Sealers, FinishSeal(s)
    PROVE  SealInv'
<1>1. UNCHANGED <<seq, buffer, open, queue, through, files>> /\ queue' \subseteq Paths
  BY DEF FinishSeal, SealInv, Core, Shapes
<1>2. CASE UNCHANGED <<sealing, extent>>
  BY <1>1, <1>2, LeaveKeeps DEF FinishSeal
<1>3. CASE /\ sealing' = {}
           /\ extent' = {IF g.end = job[s].end /\ g.path = 0
                         THEN [g EXCEPT !.path = job[s].path] ELSE g : g \in extent}
  <2>1. PICK j \in JobType : /\ pc' = [pc EXCEPT ![s] = "release"]
                             /\ job' = [job EXCEPT ![s] = j]
    BY LeavesAre DEF FinishSeal, SealInv, Core
  <2>2. "release" \in PC /\ "release" \notin RangedAt /\ "release" \notin NamedAt
        /\ "release" \notin OwnedAt
    BY DEF PC, RangedAt, NamedAt, OwnedAt, NamingAt, WrittenAt
  <2>3. Fits("release", j)
    BY DEF Fits, RangedAt, NamedAt, OwnedAt, NamingAt, WrittenAt
  <2>4. job[s] \in JobType /\ extent \subseteq GroupType
    BY DEF SealInv, Core, Shapes
  <2>5. \A x \in extent' : \E g \in extent : 
            /\ x = IF g.end = job[s].end /\ g.path = 0
                   THEN [g EXCEPT !.path = job[s].path] ELSE g
            /\ x \in GroupType /\ SameRange(x, g)
    BY <1>3, <2>4 DEF GroupType, JobType, SameRange
  <2>6. extent' \subseteq GroupType /\ \A x \in extent' : \E y \in extent : SameRange(x, y)
    BY <2>5
  <2>7. Core'
    BY <1>1, <1>3, <2>1, <2>2, <2>3, <2>6, SealerMoves DEF SealInv, files
  <2>8. Accounted'
    <3>1. job[s] \in Ranged /\ Fits("finish", job[s])
      BY DEF FinishSeal, SealInv, Core, Ranged, Jobs, RangedAt, NamedAt, OwnedAt, NamingAt, WrittenAt
    <3>2. \A o \in Span(job[s]) : Covered(o)
      BY <3>1 DEF Fits
    <3> SUFFICES ASSUME NEW o \in 1..seq PROVE Covered(o)' \/ Waiting(o)'
      BY <1>1 DEF Accounted
    <3>3. Covered(o) => Covered(o)'
      BY <1>1 DEF Covered, InTable, files
    <3>4. CASE open # 0 /\ o >= open
      BY <1>1, <3>4 DEF Waiting
    <3>5. ASSUME NEW g \in extent, g.path = 0, g.start <= o, o < g.end
          PROVE  Covered(o)' \/ Waiting(o)'
      <4>1. CASE g.end = job[s].end
        <5>1. g \in Ranged
          BY DEF Ranged
        <5>2. Bounded(g) /\ Bounded(job[s]) /\ Apart(g, job[s])
          BY <3>1, <5>1 DEF SealInv, Core, Aligned
        <5>3. o \in Span(job[s])
          BY <3>5, <4>1, <5>2 DEF Bounded, Apart, SameRange, Span
        <5>4. QED
          BY <3>2, <3>3, <5>3
      <4>2. CASE g.end # job[s].end
        <5>1. g \in extent'
          BY <1>3, <4>2
        <5>2. QED
          BY <3>5, <5>1 DEF Waiting
      <4>3. QED
        BY <4>1, <4>2
    <3>6. QED
      BY <3>3, <3>4, <3>5 DEF SealInv, Accounted, Waiting
  <2>9. QED
    BY <2>7, <2>8 DEF SealInv
<1>4. QED
  BY <1>2, <1>3 DEF FinishSeal

\* What a name holds once one more file is written ...
LEMMA RowsAfterWrite ==
    ASSUME NEW q, NEW R, NEW p, disk' = disk \cup {[path |-> q, rows |-> R]}
    PROVE  RowsOf(p)' = IF p = q THEN RowsOf(p) \cup R ELSE RowsOf(p)
<1>1. \A o : o \in RowsOf(p)' <=> \E f \in disk' : f.path = p /\ o \in f.rows
  BY DEF RowsOf
<1>2. \A o : o \in RowsOf(p) <=> \E f \in disk : f.path = p /\ o \in f.rows
  BY DEF RowsOf
<1>a. PICK n : n = [path |-> q, rows |-> R]
  OBVIOUS
<1>b. n.path = q /\ n.rows = R /\ disk' = disk \cup {n}
  BY <1>a
<1>3. \A o : o \in RowsOf(p)' <=> (o \in RowsOf(p) \/ (p = q /\ o \in R))
  BY <1>1, <1>2, <1>b
<1>4. CASE p = q
  <2>1. \A o : o \in RowsOf(p)' <=> o \in RowsOf(p) \cup R
    BY <1>3, <1>4
  <2>2. QED
    BY <1>4, <2>1
<1>5. CASE p # q
  <2>1. \A o : o \in RowsOf(p)' <=> o \in RowsOf(p)
    BY <1>3, <1>5
  <2>2. QED
    BY <1>5, <2>1
<1>6. QED
  BY <1>4, <1>5

\* ... and once another name is unlinked.
LEMMA RowsAfterUnlink ==
    ASSUME NEW q, NEW p, disk' = {f \in disk : f.path # q}, p # q
    PROVE  RowsOf(p)' = RowsOf(p)
<1>1. {f \in disk : f.path = p}' = {f \in disk : f.path = p}
  OBVIOUS
<1>2. QED
  BY <1>1 DEF RowsOf

\* WriteFile: the rows of the group, but for published ones that left.
LEMMA WriteFileKeeps ==
    ASSUME SealInv, NEW s \in Sealers, WriteFile(s)
    PROVE  SealInv'
<1>1. UNCHANGED <<seq, buffer, open, extent, sealing, queue, through, table, published,
                  doomed, job>>
  BY DEF WriteFile, db
<1>2. pc[s] = "write" /\ pc' = [pc EXCEPT ![s] = "fence"]
  BY DEF WriteFile, Go
<1>3. Shapes'
  BY <1>1, <1>2 DEF SealInv, Core, Shapes, PC
<1>4. \A t \in Sealers : pc'[t] = IF t = s THEN "fence" ELSE pc[t]
  BY <1>2 DEF SealInv, Core, Shapes
<1>5. \A t \in Sealers : /\ pc'[t] \in RangedAt <=> pc[t] \in RangedAt
                         /\ pc'[t] \in NamedAt <=> pc[t] \in NamedAt
                         /\ pc'[t] \in OwnedAt <=> pc[t] \in OwnedAt
  BY <1>2, <1>4 DEF RangedAt, NamedAt, OwnedAt, NamingAt, WrittenAt
<1>6. Ranged' = Ranged /\ Names' = Names
  BY <1>1, <1>5 DEF Ranged, Names, Jobs, NamedJobs
<1>7. Aligned'
  BY <1>1, <1>6, AlignedFollows DEF SealInv, Core, SameRange
<1>8. OneName' /\ Own'
  BY <1>1, <1>5, <1>6 DEF SealInv, Core, OneName, Own, SameRange
<1>9. \A x : Low(x) => Low(x)'
  BY <1>1 DEF Low, Covered, InTable
<1>10. \A x \in (sealing \cup table)' : Low(x)'
  BY <1>1, <1>9 DEF SealInv, Core
<1>11. PICK R : R = buffer \cap (job[s].start .. job[s].end - 1)
  OBVIOUS
<1>12. PICK q : q = job[s].path
  OBVIOUS
<1>13. disk' = disk \cup {[path |-> q, rows |-> R]}
  BY <1>11, <1>12 DEF WriteFile
<1>14. \A p : RowsOf(p)' = IF p = q THEN RowsOf(p) \cup R ELSE RowsOf(p)
  BY <1>13, RowsAfterWrite
<1>15. Fits("write", job[s]) /\ pc[s] \in OwnedAt /\ pc[s] \in RangedAt
  BY <1>2 DEF SealInv, Core, RangedAt, NamedAt, OwnedAt, NamingAt, WrittenAt
<1>16. RowsOf(q) = {} /\ ~Named(q)
  BY <1>12, <1>15 DEF Fits, NamingAt
<1>17. Staging'
  <2>1. Published' /\ Buffered' /\ Ahead' /\ Contig' /\ Distinct' /\ DoomOut'
    BY <1>1 DEF SealInv, Core, Staging, Published, Buffered, Ahead, Contig, Distinct,
                DoomOut, InTable, Named
  <2>2. OnDisk'
    BY <1>1, <1>14, <1>16 DEF SealInv, Core, Staging, OnDisk, Named, Span
  <2>3. QED
    BY <2>1, <2>2 DEF Staging
<1>18. \A t \in Sealers : Fits(pc[t], job[t])'
  <2> SUFFICES ASSUME NEW t \in Sealers PROVE Fits(pc[t], job[t])'
    OBVIOUS
  <2>1. CASE t = s
    <3>1. RowsOf(job[s].path)' = R
      BY <1>1, <1>12, <1>14, <1>16
    <3>2. job[s] \in Ranged
      BY <1>15 DEF Ranged, Jobs
    <3>3. Bounded(job[s]) /\ seq \in Nat /\ open \in Nat /\ open <= seq
      BY <3>2 DEF SealInv, Core, Aligned, Shapes
    <3>4. R \subseteq Span(job[s])
      BY <1>11 DEF Span
    <3>5. \A o \in Span(job[s]) : o \in R \/ o <= through
      <4> SUFFICES ASSUME NEW o \in Span(job[s]), o \notin R PROVE o <= through
        OBVIOUS
      <4>1. o \in 1..seq
        BY <3>3 DEF Bounded, Span, Top
      <4>2. o \notin buffer
        BY <1>11 DEF Span
      <4>3. QED
        BY <4>1, <4>2 DEF SealInv, Core, Staging, Buffered
    <3>6. Fits("fence", job[s])'
      BY <1>1, <1>9, <1>15, <3>1, <3>4, <3>5 DEF Fits, Span, RangedAt, NamedAt, OwnedAt, NamingAt, WrittenAt
    <3>7. QED
      BY <1>1, <1>4, <2>1, <3>6
  <2>2. CASE t # s
    <3>1. Fits(pc[t], job[t])
      BY DEF SealInv, Core
    <3>2. pc[t] \in OwnedAt => job[t].path # q
      BY <1>12, <1>15, <2>2 DEF SealInv, Core, Own
    <3>3. pc[t] \in OwnedAt => RowsOf(job[t].path)' = RowsOf(job[t].path)
      BY <1>1, <1>14, <3>2
    <3>4. pc'[t] = pc[t] /\ job'[t] = job[t]
      BY <1>1, <1>4, <2>2
    <3>5. pc[t] \in NamingAt \cup WrittenAt => pc[t] \in OwnedAt
      BY DEF OwnedAt
    <3>6. \A o : Covered(o)' <=> Covered(o)
      BY <1>1 DEF Covered, InTable
    <3>7. QED
      BY <1>1, <1>9, <3>1, <3>3, <3>4, <3>5, <3>6 DEF Fits, Named, Span
  <2>3. QED
    BY <2>1, <2>2
<1>19. Core'
  BY <1>3, <1>7, <1>8, <1>10, <1>17, <1>18 DEF Core
<1>20. QED
  BY <1>1, <1>19, AccountedKept DEF SealInv

\* SpanEnd is the largest end of a staging file.
LEMMA SpanEndIs ==
    ASSUME Core
    PROVE  /\ SpanEnd \in Nat
           /\ \A f \in table : f.end <= SpanEnd
           /\ SpanEnd = 0 \/ \E f \in table : f.end = SpanEnd
<1>1. Top \in Nat
  BY DEF Top, Core, Shapes
<1>2. PICK E : E = {0} \cup {f.end : f \in table}
  OBVIOUS
<1>3. \A f \in table : f.end \in Nat /\ f.end <= Top
  BY DEF Core, Aligned, Ranged, Bounded
<1>4. E \subseteq 0..Top /\ E # {}
  BY <1>1, <1>2, <1>3
<1>5. SpanEnd = Max(E)
  BY <1>2 DEF SpanEnd
<1>6. Max(E) \in E /\ \A y \in E : y <= Max(E)
  BY <1>1, <1>4, MaxOfNaturals
<1>7. SpanEnd \in Nat
  <2>1. \A f \in table : f.end \in Nat
    BY <1>3
  <2>2. E \subseteq Nat
    BY <1>2, <2>1
  <2>3. QED
    BY <1>5, <1>6, <2>2
<1>8. \A f \in table : f.end <= SpanEnd
  BY <1>2, <1>5, <1>6
<1>9. SpanEnd = 0 \/ \E f \in table : f.end = SpanEnd
  BY <1>2, <1>5, <1>6
<1>10. QED
  BY <1>7, <1>8, <1>9

\* The least and the greatest row of a range.
LEMMA SpanIsRange ==
    ASSUME NEW S, NEW a \in Nat, NEW b \in Nat, a < b, S = a .. b - 1
    PROVE  Min(S) = a /\ Max(S) = b - 1
<1>1. S # {} /\ S \subseteq 0..b
  BY SMT
<1>2. Min(S) \in S /\ \A y \in S : Min(S) <= y
  <2>1. S \subseteq Nat
    OBVIOUS
  <2>2. QED
    BY <1>1, <2>1, MinOfNaturals
<1>3. Max(S) \in S /\ \A y \in S : y <= Max(S)
  BY <1>1, MaxOfNaturals
<1>4. a \in S /\ b - 1 \in S
  OBVIOUS
<1>5. QED
  BY <1>2, <1>3, <1>4

\* What register commits, when it does: the whole group, above everything the
\* staging table and the published table hold.
LEMMA RegisterIsWhole ==
    ASSUME SealInv, NEW s \in Sealers, pc[s] = "register", ~Declines(s)
    PROVE  /\ RowsOf(job[s].path) = Span(job[s])
           /\ Min(RowsOf(job[s].path)) = job[s].start
           /\ Max(RowsOf(job[s].path)) + 1 = job[s].end
           /\ through + 1 <= job[s].start
           /\ \A f \in table : f.end <= job[s].start
<1>1. Fits("register", job[s]) /\ job[s] \in Ranged
  BY DEF SealInv, Core, Ranged, Jobs, RangedAt, NamedAt, OwnedAt, NamingAt, WrittenAt
<1>2. Bounded(job[s]) /\ job[s] \in JobType /\ through \in Nat
  BY <1>1 DEF SealInv, Core, Aligned, Shapes
<1>3. SpanEnd \in Nat /\ \A f \in table : f.end <= SpanEnd
  BY SpanEndIs DEF SealInv
<1>4. SpanEnd < job[s].end /\ job[s].thr + 1 < job[s].end
  BY <1>2, <1>3 DEF Declines, JobType
<1>5. \A f \in table : Bounded(f) /\ Apart(f, job[s])
  BY <1>1 DEF SealInv, Core, Aligned, Ranged
<1>6. through + 1 <= job[s].start
  <2> SUFFICES ASSUME job[s].end <= through + 1 PROVE FALSE
    BY <1>2 DEF Bounded
  <2>1. CASE job[s].thr = through
    BY <1>2, <1>4, <2>1 DEF Bounded
  <2>2. ASSUME NEW f \in table, f.end >= through + 1 PROVE FALSE
    BY <1>2, <1>3, <1>4, <1>5, <2>2 DEF Bounded
  <2>3. QED
    BY <1>1, <2>1, <2>2 DEF Fits
<1>7. \A f \in table : f.end <= job[s].start
  BY <1>2, <1>3, <1>4, <1>5 DEF Bounded, Apart, SameRange
<1>8. RowsOf(job[s].path) = Span(job[s])
  <2>1. RowsOf(job[s].path) \subseteq Span(job[s])
    BY <1>1 DEF Fits, WrittenAt
  <2>2. \A o \in Span(job[s]) : o \in RowsOf(job[s].path) \/ o <= through
    BY <1>1 DEF Fits, WrittenAt
  <2>3. \A o \in Span(job[s]) : ~(o <= through)
    BY <1>2, <1>6 DEF Span, Bounded
  <2>4. QED
    BY <2>1, <2>2, <2>3
<1>9. /\ Min(RowsOf(job[s].path)) = job[s].start
      /\ Max(RowsOf(job[s].path)) = job[s].end - 1
  BY <1>2, <1>8, SpanIsRange DEF Span, Bounded
<1>10. QED
  BY <1>2, <1>6, <1>7, <1>8, <1>9 DEF Bounded

\* Register declines only what the tables cover.
LEMMA RegisterDeclinedKeeps ==
    ASSUME SealInv, NEW s \in Sealers, pc[s] = "register", Declines(s),
           Go(s, "declined"), job' = [job EXCEPT ![s].thr = 0],
           UNCHANGED <<seq, buffer, open, extent, sealing, through, files>>, queue' = queue
    PROVE  SealInv'
<1>1. queue' \subseteq Paths
  BY DEF SealInv, Core, Shapes
<1>2. PICK j : j = [job[s] EXCEPT !.thr = 0]
  OBVIOUS
<1>3. j \in JobType /\ SameRange(j, job[s]) /\ j.path = job[s].path
  BY <1>2 DEF SealInv, Core, Shapes, JobType, SameRange
<1>4. job' = [job EXCEPT ![s] = j] /\ pc' = [pc EXCEPT ![s] = "declined"]
  BY <1>2 DEF Go
<1>5. pc[s] \in NamedAt /\ pc[s] \in RangedAt /\ "declined" \in PC /\ "declined" \notin OwnedAt
  BY DEF PC, RangedAt, NamedAt, OwnedAt, NamingAt, WrittenAt
<1>6. Fits("register", job[s]) /\ job[s] \in Ranged
  BY <1>5 DEF SealInv, Core, Ranged, Jobs
<1>7. Bounded(job[s]) /\ job[s] \in JobType /\ through \in Nat
  BY <1>6 DEF SealInv, Core, Aligned, Shapes
<1>8. \A o \in Span(job[s]) : Covered(o)
  <2> SUFFICES ASSUME NEW o \in Span(job[s]) PROVE Covered(o)
    OBVIOUS
  <2>1. o \in Nat /\ job[s].start <= o /\ o < job[s].end /\ 1 <= o
    BY <1>7 DEF Span, Bounded
  <2>2. CASE SpanEnd >= job[s].end
    <3>1. SpanEnd # 0
      BY <1>7, <2>2 DEF Bounded
    <3>2. PICK f \in table : f.end = SpanEnd
      BY <3>1, SpanEndIs DEF SealInv
    <3>3. Bounded(f) /\ Apart(f, job[s]) /\ Low(f)
      BY <1>6 DEF SealInv, Core, Aligned, Ranged
    <3>4. CASE f.start <= o
      BY <1>7, <2>1, <2>2, <3>2, <3>3, <3>4 DEF Covered, InTable, Bounded
    <3>5. CASE o < f.start
      BY <2>1, <3>3, <3>5 DEF Low
    <3>6. QED
      BY <2>1, <3>3, <3>4, <3>5 DEF Bounded
  <2>3. CASE job[s].thr + 1 >= job[s].end
    BY <1>6, <1>7, <2>1, <2>3 DEF Fits, Covered, JobType
  <2>4. QED
    BY <2>2, <2>3 DEF Declines
<1>9. Fits("declined", j)
  <2>1. Low(j) /\ Span(j) = Span(job[s])
    BY <1>3, <1>6 DEF Fits, Low, Span, SameRange, RangedAt, NamedAt, OwnedAt, NamingAt, WrittenAt
  <2>2. QED
    BY <1>3, <1>6, <1>8, <2>1 DEF Fits, RangedAt, NamedAt, OwnedAt, NamingAt, WrittenAt
<1>10. QED
  BY <1>1, <1>3, <1>4, <1>5, <1>9, CarriedKeeps

\* Register adds the whole group, so the staging table stays one run.
LEMMA RegisterAddsKeeps ==
    ASSUME SealInv, NEW s \in Sealers, pc[s] = "register", ~Declines(s),
           table' = table \cup {[path |-> job[s].path,
                                 start |-> Min(RowsOf(job[s].path)),
                                 end |-> Max(RowsOf(job[s].path)) + 1]},
           Go(s, "finish"), job' = [job EXCEPT ![s].thr = 0],
           UNCHANGED <<db, disk, published, doomed>>
    PROVE  SealInv'
<1>1. UNCHANGED <<seq, buffer, open, extent, sealing, queue, through, disk, published, doomed>>
  BY DEF db
<1>2. PICK n : n = [path |-> job[s].path, start |-> job[s].start, end |-> job[s].end]
  OBVIOUS
<1>3. n.path = job[s].path /\ SameRange(n, job[s])
  BY <1>2 DEF SameRange
<1>4. table' = table \cup {n}
  BY <1>2, RegisterIsWhole
<1>5. pc[s] \in WrittenAt /\ pc[s] \in OwnedAt /\ pc[s] \in NamedAt /\ pc[s] \in RangedAt
  BY DEF RangedAt, NamedAt, OwnedAt, NamingAt, WrittenAt
<1>6. Fits("register", job[s]) /\ job[s] \in Ranged /\ job[s] \in Names /\ job[s] \in JobType
  BY <1>5 DEF SealInv, Core, Shapes, Ranged, Jobs, Names, NamedJobs
<1>7. job[s].path \in Paths /\ job[s].path \notin doomed /\ Low(job[s])
  BY <1>5, <1>6 DEF Fits
<1>8. n \in FileType
  BY <1>2, <1>6, <1>7 DEF FileType, JobType
<1>9. PICK j : j = [job[s] EXCEPT !.thr = 0]
  OBVIOUS
<1>10. j \in JobType /\ SameRange(j, job[s]) /\ j.path = job[s].path
  BY <1>6, <1>9 DEF JobType, SameRange
<1>11. \A t \in Sealers : /\ pc'[t] = IF t = s THEN "finish" ELSE pc[t]
                          /\ job'[t] = IF t = s THEN j ELSE job[t]
  BY <1>9 DEF Go, SealInv, Core, Shapes
<1>12. Shapes'
  <2>1. pc' \in [Sealers -> PC]
    BY DEF Go, SealInv, Core, Shapes, PC
  <2>2. job' \in [Sealers -> JobType]
    BY <1>9, <1>10 DEF SealInv, Core, Shapes
  <2>3. QED
    BY <1>1, <1>4, <1>8, <2>1, <2>2 DEF SealInv, Core, Shapes
<1>13. Bounded(n) /\ Bounded(job[s]) /\ through \in Nat
  BY <1>3, <1>6 DEF SealInv, Core, Aligned, Bounded, SameRange, Shapes
<1>14. through + 1 <= n.start /\ (\A f \in table : f.end <= n.start) /\ RowsOf(n.path) = Span(n)
  BY <1>3, RegisterIsWhole DEF SameRange, Span
<1>15. \A f \in table : Bounded(f) /\ f.end < n.end
  BY <1>13, <1>14 DEF SealInv, Core, Aligned, Ranged, Bounded
<1>16. \A x \in Ranged' : \E y \in Ranged : SameRange(x, y)
  <2> SUFFICES ASSUME NEW x \in Ranged' PROVE \E y \in Ranged : SameRange(x, y)
    OBVIOUS
  <2>1. CASE x \in extent \cup sealing \cup table
    BY <2>1 DEF Ranged, SameRange
  <2>2. CASE x = n
    BY <1>3, <1>6, <2>2
  <2>3. CASE x \in Jobs'
    <3>1. PICK t \in Sealers : x = job'[t] /\ pc'[t] \in RangedAt
      BY <2>3 DEF Jobs
    <3>2. CASE t = s
      BY <1>6, <1>10, <1>11, <3>1, <3>2
    <3>3. CASE t # s
      BY <1>11, <3>1, <3>3 DEF Ranged, Jobs, SameRange
    <3>4. QED
      BY <3>2, <3>3
  <2>4. QED
    BY <1>1, <1>4, <2>1, <2>2, <2>3 DEF Ranged
<1>17. Aligned'
  BY <1>1, <1>16, AlignedFollows DEF SealInv, Core
<1>18. OneName'
  <2>1. \A x \in Names' : \E y \in Names : SameRange(x, y) /\ x.path = y.path
    <3> SUFFICES ASSUME NEW x \in Names' PROVE \E y \in Names : SameRange(x, y) /\ x.path = y.path
      OBVIOUS
    <3>1. CASE x \in sealing \cup table
      BY <3>1 DEF Names, SameRange
    <3>2. CASE x = n
      BY <1>3, <1>6, <3>2
    <3>3. CASE x \in NamedJobs'
      <4>1. PICK t \in Sealers : x = job'[t] /\ pc'[t] \in NamedAt
        BY <3>3 DEF NamedJobs
      <4>2. CASE t = s
        BY <1>6, <1>10, <1>11, <4>1, <4>2
      <4>3. CASE t # s
        BY <1>11, <4>1, <4>3 DEF Names, NamedJobs, SameRange
      <4>4. QED
        BY <4>2, <4>3
    <3>4. QED
      BY <1>1, <1>4, <3>1, <3>2, <3>3 DEF Names
  <2>2. QED
    BY <2>1 DEF SealInv, Core, OneName, SameRange
<1>19. \A o : /\ InTable(o) => InTable(o)'
              /\ Covered(o) => Covered(o)'
  BY <1>1, <1>4 DEF Covered, InTable
<1>20. \A x : Low(x) => Low(x)'
  BY <1>19 DEF Low
<1>21. \A x \in (sealing \cup table)' : Low(x)'
  <2>1. Low(n)
    BY <1>3, <1>7 DEF Low, SameRange
  <2>2. QED
    BY <1>1, <1>4, <1>20, <2>1 DEF SealInv, Core
<1>22. Staging'
  <2>1. Published' /\ Buffered'
    BY <1>1 DEF SealInv, Core, Staging, Published, Buffered
  <2>2. OnDisk'
    BY <1>1, <1>4, <1>14 DEF SealInv, Core, Staging, OnDisk, RowsOf, Span
  <2>3. Ahead'
    BY <1>1, <1>4, <1>13, <1>14 DEF Ahead, Bounded
  <2>4. Distinct'
    BY <1>4, <1>13, <1>15 DEF SealInv, Core, Staging, Distinct, Bounded
  <2>5. DoomOut'
    BY <1>1, <1>3, <1>4, <1>7 DEF SealInv, Core, Staging, DoomOut, Named
  <2>6. Contig'
    <3> SUFFICES ASSUME NEW f \in table', NEW g \in table', NEW o \in Nat, f.start <= o, o < g.end
                 PROVE  InTable(o)'
      BY DEF Contig
    <3>1. CASE n.start <= o
      <4>1. o < n.end
        BY <1>4, <1>13, <1>15 DEF Bounded
      <4>2. QED
        BY <1>4, <3>1, <4>1 DEF InTable
    <3>2. CASE o < n.start /\ f \in table
      <4>1. Bounded(f)
        BY <3>2, <1>15
      <4>2. CASE InTable(o)
        BY <1>19, <4>2
      <4>3. CASE o <= through
        <5>1. PICK e \in table : e.end >= through + 1
          BY <3>2 DEF SealInv, Core, Staging, Ahead
        <5>2. o < e.end
          BY <1>13, <1>15, <4>3, <5>1 DEF Bounded
        <5>3. QED
          BY <1>19, <3>2, <5>2 DEF SealInv, Core, Staging, Contig
      <4>4. Covered(o)
        BY <1>3, <1>7, <3>2, <4>1 DEF Low, SameRange, Bounded
      <4>5. QED
        BY <4>2, <4>3, <4>4 DEF Covered
    <3>3. CASE o < n.start /\ f = n
      BY <1>13, <3>3 DEF Bounded
    <3>4. QED
      BY <1>4, <1>13, <3>1, <3>2, <3>3 DEF Bounded
  <2>7. QED
    BY <2>1, <2>2, <2>3, <2>4, <2>5, <2>6 DEF Staging
<1>23. Own'
  BY <1>11 DEF SealInv, Core, Own, RangedAt, NamedAt, OwnedAt, NamingAt, WrittenAt
<1>24. \A t \in Sealers : Fits(pc[t], job[t])'
  <2> SUFFICES ASSUME NEW t \in Sealers PROVE Fits(pc[t], job[t])'
    OBVIOUS
  <2>1. CASE t = s
    <3>1. Low(j)' /\ \A o \in Span(j) : Covered(o)'
      <4>1. Low(j)
        BY <1>7, <1>10 DEF Low, SameRange
      <4>2. \A o \in Span(j) : InTable(o)'
        BY <1>3, <1>4, <1>10 DEF InTable, Span, SameRange, JobType
      <4>3. QED
        BY <1>20, <4>1, <4>2 DEF Covered
    <3>2. Fits("finish", j)'
      BY <1>7, <1>10, <3>1 DEF Fits, Span, RangedAt, NamedAt, OwnedAt, NamingAt, WrittenAt
    <3>3. QED
      BY <1>11, <2>1, <3>2
  <2>2. CASE t # s
    <3>1. Fits(pc[t], job[t])
      BY DEF SealInv, Core
    <3>2. pc[t] \in OwnedAt => job[t].path # n.path
      BY <1>3, <1>5, <2>2 DEF SealInv, Core, Own
    <3>3. pc[t] \in OwnedAt => (Named(job[t].path)' <=> Named(job[t].path))
      BY <1>4, <1>11, <2>2, <3>2 DEF Named
    <3>4. pc'[t] = pc[t] /\ job'[t] = job[t]
      BY <1>11, <2>2
    <3>5. pc[t] \in NamingAt => pc[t] \in OwnedAt
      BY DEF OwnedAt
    <3>6. RowsOf(job[t].path)' = RowsOf(job[t].path) /\ Span(job[t])' = Span(job[t])
      BY <1>1, <3>4 DEF RowsOf, Span
    <3>7. (\E f \in table : f.end >= through + 1) => (\E f \in table : f.end >= through + 1)'
      BY <1>1, <1>4
    <3>8. QED
      BY <1>1, <1>19, <1>20, <3>1, <3>3, <3>4, <3>5, <3>6, <3>7 DEF Fits
  <2>3. QED
    BY <2>1, <2>2
<1>25. Accounted'
  <2>1. \A o : Waiting(o)' <=> Waiting(o)
    BY <1>1 DEF Waiting
  <2>2. QED
    BY <1>1, <1>19, <2>1 DEF SealInv, Accounted
<1>26. QED
  BY <1>12, <1>17, <1>18, <1>21, <1>22, <1>23, <1>24, <1>25 DEF SealInv, Core

\* Register, all three ways out.
LEMMA RegisterKeeps ==
    ASSUME SealInv, NEW s \in Sealers, Register(s)
    PROVE  SealInv'
<1>1. UNCHANGED <<db, disk, published, doomed>> /\ pc[s] = "register"
  BY DEF Register
<1>2. CASE Declines(s) /\ Go(s, "declined") /\ job' = [job EXCEPT ![s].thr = 0] /\ UNCHANGED table
  BY <1>1, <1>2, RegisterDeclinedKeeps DEF db, files
<1>3. CASE /\ ~Declines(s)
           /\ table' = table \cup {[path |-> job[s].path,
                                    start |-> Min(RowsOf(job[s].path)),
                                    end |-> Max(RowsOf(job[s].path)) + 1]}
           /\ Go(s, "finish") /\ job' = [job EXCEPT ![s].thr = 0]
  BY <1>1, <1>3, RegisterAddsKeeps
<1>4. CASE Leave(s) /\ UNCHANGED table
  BY <1>1, <1>4, LeaveKeeps DEF db, files, SealInv, Core, Shapes
<1>5. QED
  BY <1>2, <1>3, <1>4 DEF Register

-----------------------------------------------------------------------------
\* What eviction may take is published.
LEMMA PrefixIsPublished ==
    ASSUME Core
    PROVE  PublishedPrefix \in Nat /\ PublishedPrefix <= through + 1
<1>1. PICK P : P = {f \in table : \A g \in table : g.end <= f.end => g.end <= through + 1}
  OBVIOUS
<1>2. PICK E : E = {0} \cup {f.end : f \in P}
  OBVIOUS
<1>3. through \in Nat /\ \A f \in table : f.end \in Nat
  BY DEF Core, Shapes, FileType
<1>4. \A f \in P : f.end \in Nat /\ f.end <= through + 1
  BY <1>1, <1>3
<1>5. \A e \in E : e \in Nat /\ e <= through + 1
  BY <1>2, <1>3, <1>4
<1>a. PICK n \in Nat : n = through + 1
  BY <1>3
<1>6. E \subseteq 0..n /\ E # {}
  <2>1. \A e \in E : e \in 0..n
    BY <1>5, <1>a
  <2>2. QED
    BY <1>2, <2>1
<1>7. Max(E) \in E
  BY <1>6, MaxOfNaturals
<1>8. PublishedPrefix = Max(E)
  BY <1>1, <1>2 DEF PublishedPrefix
<1>9. QED
  BY <1>5, <1>7, <1>8

\* EvictBuffer.
LEMMA EvictBufferKeeps ==
    ASSUME SealInv, EvictBuffer
    PROVE  SealInv'
<1>1. UNCHANGED <<seq, open, extent, sealing, queue, through, disk, table, published, doomed, pc, job>>
  BY DEF EvictBuffer, files
<1>2. PICK lo, hi \in 1 .. PublishedPrefix : buffer' = buffer \ {o \in buffer : lo <= o /\ o < hi}
  BY DEF EvictBuffer
<1>3. \A o \in buffer : o \in buffer' \/ o <= through
  <2>1. PublishedPrefix \in Nat /\ PublishedPrefix <= through + 1
    BY PrefixIsPublished DEF SealInv
  <2>2. through \in Nat /\ \A o \in buffer : o \in Nat
    BY DEF SealInv, Core, Shapes
  <2>3. QED
    BY <1>2, <2>1, <2>2
<1>4. Shapes'
  BY <1>1, <1>2 DEF SealInv, Core, Shapes
<1>5. Aligned' /\ OneName'
  BY <1>1 DEF SealInv, Core, Aligned, OneName, Ranged, Names, Jobs, NamedJobs, Top, Bounded,
              Apart, SameRange
<1>6. \A o : Covered(o)' <=> Covered(o)
  BY <1>1 DEF Covered, InTable
<1>7. \A x : Low(x) => Low(x)'
  BY <1>6 DEF Low
<1>8. Staging'
  <2>1. Published' /\ OnDisk' /\ Ahead' /\ Contig' /\ Distinct' /\ DoomOut'
    BY <1>1 DEF SealInv, Core, Staging, Published, OnDisk, Ahead, Contig, Distinct, DoomOut,
                InTable, Named, RowsOf, Span
  <2>2. Buffered'
    BY <1>1, <1>3 DEF SealInv, Core, Staging, Buffered
  <2>3. QED
    BY <2>1, <2>2 DEF Staging
<1>9. Own' /\ \A x \in (sealing \cup table)' : Low(x)'
  BY <1>1, <1>7 DEF SealInv, Core, Own
<1>10. \A t \in Sealers : Fits(pc[t], job[t])'
  BY <1>1, <1>6, <1>7 DEF SealInv, Core, Fits, RowsOf, Named, Span
<1>11. QED
  BY <1>1, <1>4, <1>5, <1>8, <1>9, <1>10, AccountedKept DEF SealInv, Core

\* DrainLook: what it dooms is in no table and no attempt works on it.
LEMMA DrainLookKeeps ==
    ASSUME SealInv, BoundedStall, DrainLook
    PROVE  SealInv'
<1>1. UNCHANGED <<seq, buffer, open, extent, sealing, queue, through, disk, table, published, pc, job>>
  BY DEF DrainLook, db
<1>2. doomed' \subseteq queue /\ \A p \in doomed' : ~Named(p) /\ \A s \in Sealers : job[s].path # p
  BY DEF DrainLook, Due
<1>3. Shapes'
  BY <1>1, <1>2 DEF SealInv, Core, Shapes
<1>4. Aligned' /\ OneName'
  BY <1>1 DEF SealInv, Core, Aligned, OneName, Ranged, Names, Jobs, NamedJobs, Top, Bounded,
              Apart, SameRange
<1>5. \A o : Covered(o)' <=> Covered(o)
  BY <1>1 DEF Covered, InTable
<1>6. \A x : Low(x) => Low(x)'
  BY <1>5 DEF Low
<1>7. Staging'
  <2>1. Published' /\ Buffered' /\ OnDisk' /\ Ahead' /\ Contig' /\ Distinct'
    BY <1>1 DEF SealInv, Core, Staging, Published, Buffered, OnDisk, Ahead, Contig, Distinct,
                InTable, Named, RowsOf, Span
  <2>2. DoomOut'
    BY <1>1, <1>2 DEF DoomOut, Named
  <2>3. QED
    BY <2>1, <2>2 DEF Staging
<1>8. Own' /\ \A x \in (sealing \cup table)' : Low(x)'
  BY <1>1, <1>6 DEF SealInv, Core, Own
<1>9. \A t \in Sealers : Fits(pc[t], job[t])'
  BY <1>1, <1>2, <1>5, <1>6 DEF SealInv, Core, Fits, RowsOf, Named, Span
<1>10. QED
  BY <1>1, <1>3, <1>4, <1>7, <1>8, <1>9, AccountedKept DEF SealInv, Core

\* DrainUnlink: no table, no attempt and no pending group loses its file.
LEMMA DrainUnlinkKeeps ==
    ASSUME SealInv, DrainUnlink
    PROVE  SealInv'
<1>1. UNCHANGED <<seq, buffer, open, sealing, through, table, published, pc, job>>
  BY DEF DrainUnlink
<1>2. PICK q \in doomed : /\ disk' = {f \in disk : f.path # q}
                          /\ queue' = queue \ {q}
                          /\ extent' = {g \in extent : g.path # q}
                          /\ doomed' = doomed \ {q}
  BY DEF DrainUnlink
<1>3. Shapes'
  BY <1>1, <1>2 DEF SealInv, Core, Shapes
<1>4. ~Named(q) /\ q # 0 /\ \A s \in Sealers : pc[s] \in OwnedAt => job[s].path # q
  BY BoundsAssumption DEF SealInv, Core, Shapes, Staging, DoomOut, Fits
<1>5. \A p : p # q => RowsOf(p)' = RowsOf(p)
  BY <1>2, RowsAfterUnlink
<1>6. Ranged' \subseteq Ranged /\ Names' = Names
  BY <1>1, <1>2 DEF Ranged, Names, Jobs, NamedJobs
<1>7. Aligned'
  BY <1>1, <1>6, AlignedFollows DEF SealInv, Core, SameRange
<1>8. OneName' /\ Own'
  BY <1>1, <1>6 DEF SealInv, Core, OneName, Own, SameRange
<1>9. \A o : Covered(o)' <=> Covered(o)
  BY <1>1 DEF Covered, InTable
<1>10. \A x : Low(x) => Low(x)'
  BY <1>9 DEF Low
<1>11. Staging'
  <2>1. Published' /\ Buffered' /\ Ahead' /\ Contig' /\ Distinct' /\ DoomOut'
    BY <1>1, <1>2 DEF SealInv, Core, Staging, Published, Buffered, Ahead, Contig, Distinct,
                      DoomOut, InTable, Named
  <2>2. OnDisk'
    BY <1>1, <1>4, <1>5 DEF SealInv, Core, Staging, OnDisk, Named, Span
  <2>3. QED
    BY <2>1, <2>2 DEF Staging
<1>12. \A x \in (sealing \cup table)' : Low(x)'
  BY <1>1, <1>10 DEF SealInv, Core
<1>13. \A t \in Sealers : Fits(pc[t], job[t])'
  <2> SUFFICES ASSUME NEW t \in Sealers PROVE Fits(pc[t], job[t])'
    OBVIOUS
  <2>1. Fits(pc[t], job[t])
    BY DEF SealInv, Core
  <2>2. pc[t] \in OwnedAt => RowsOf(job[t].path)' = RowsOf(job[t].path)
    BY <1>1, <1>4, <1>5
  <2>3. pc[t] \in NamingAt \cup WrittenAt => pc[t] \in OwnedAt
    BY DEF OwnedAt
  <2>4. QED
    BY <1>1, <1>2, <1>9, <1>10, <2>1, <2>2, <2>3 DEF Fits, Named, Span
<1>14. Accounted'
  <2>1. \A o : Waiting(o) => Waiting(o)'
    BY <1>1, <1>2, <1>4 DEF Waiting
  <2>2. QED
    BY <1>1, <1>9, <2>1 DEF SealInv, Accounted
<1>15. QED
  BY <1>3, <1>7, <1>8, <1>11, <1>12, <1>13, <1>14 DEF SealInv, Core

\* EvictStaging: a published prefix goes, the rest is still one run.
LEMMA EvictStagingKeeps ==
    ASSUME SealInv, BoundedStall, EvictStaging
    PROVE  SealInv'
<1>1. UNCHANGED <<seq, buffer, open, extent, sealing, through, disk, published, doomed, pc, job>>
  BY DEF EvictStaging
<1>2. PICK c \in table : /\ c.end <= PublishedPrefix
                         /\ RangesSettled
                         /\ queue' = queue \cup {g.path : g \in {g \in table : g.end <= c.end}}
                         /\ table' = {g \in table : g.end > c.end}
  BY DEF EvictStaging
<1>3. through \in Nat /\ c.end \in Nat /\ \A f \in table : f.start \in Nat /\ f.end \in Nat
  BY DEF SealInv, Core, Shapes, FileType
<1>4. c.end <= through + 1
  BY <1>2, <1>3, PrefixIsPublished DEF SealInv
<1>5. table' \subseteq table /\ \A f \in table : f \notin table' => f.end <= through + 1
  BY <1>2, <1>3, <1>4
<1>6. Shapes'
  <2>1. queue' \subseteq Paths
    BY <1>2 DEF SealInv, Core, Shapes, FileType
  <2>2. QED
    BY <1>1, <1>5, <2>1 DEF SealInv, Core, Shapes
<1>7. Ranged' \subseteq Ranged /\ Names' \subseteq Names
  BY <1>1, <1>5 DEF Ranged, Names, Jobs, NamedJobs
<1>8. Aligned'
  BY <1>1, <1>7, AlignedFollows DEF SealInv, Core, SameRange
<1>9. OneName' /\ Own'
  BY <1>1, <1>7 DEF SealInv, Core, OneName, Own, SameRange
<1>10. \A o \in Nat : Covered(o) => Covered(o)'
  <2> SUFFICES ASSUME NEW o \in Nat, Covered(o) PROVE Covered(o)'
    OBVIOUS
  <2>1. CASE o <= through
    BY <1>1, <2>1 DEF Covered
  <2>2. ASSUME NEW f \in table, f.start <= o, o < f.end PROVE Covered(o)'
    <3>1. CASE f \in table'
      BY <2>2, <3>1 DEF Covered, InTable
    <3>2. CASE f \notin table'
      BY <1>1, <1>3, <1>5, <2>2, <3>2 DEF Covered
    <3>3. QED
      BY <3>1, <3>2
  <2>3. QED
    BY <2>1, <2>2 DEF Covered, InTable
<1>11. \A x : Low(x) => Low(x)'
  BY <1>10 DEF Low
<1>12. \A x \in (sealing \cup table)' : Low(x)'
  BY <1>1, <1>5, <1>11 DEF SealInv, Core
<1>13. Staging'
  <2>1. Published' /\ Buffered'
    BY <1>1 DEF SealInv, Core, Staging, Published, Buffered
  <2>2. OnDisk' /\ Distinct' /\ DoomOut'
    BY <1>1, <1>5 DEF SealInv, Core, Staging, OnDisk, Distinct, DoomOut, Named, RowsOf, Span
  <2>3. Ahead'
    <3> SUFFICES ASSUME NEW g \in table' PROVE \E f \in table' : f.end >= through + 1
      BY <1>1 DEF Ahead
    <3>1. PICK e \in table : e.end >= through + 1
      BY <1>5 DEF SealInv, Core, Staging, Ahead
    <3>2. CASE e \in table'
      BY <3>1, <3>2
    <3>3. CASE e \notin table'
      BY <1>2, <1>3, <1>4, <3>1, <3>3
    <3>4. QED
      BY <3>2, <3>3
  <2>4. Contig'
    <3> SUFFICES ASSUME NEW f \in table', NEW g \in table', NEW o \in Nat, f.start <= o, o < g.end
                 PROVE  InTable(o)'
      BY DEF Contig
    <3>1. PICK h \in table : h.start <= o /\ o < h.end
      BY <1>5 DEF SealInv, Core, Staging, Contig, InTable
    <3>2. h \in table'
      <4>1. Bounded(h) /\ Bounded(f) /\ Apart(h, f)
        BY <1>5 DEF SealInv, Core, Aligned, Ranged
      <4>2. f.end > c.end
        BY <1>2
      <4>3. h.end > c.end
        BY <1>3, <3>1, <4>1, <4>2 DEF Bounded, Apart, SameRange
      <4>4. QED
        BY <1>2, <4>3
    <3>3. QED
      BY <3>1, <3>2 DEF InTable
  <2>5. QED
    BY <2>1, <2>2, <2>3, <2>4 DEF Staging
<1>14. \A t \in Sealers : Fits(pc[t], job[t])'
  <2> SUFFICES ASSUME NEW t \in Sealers PROVE Fits(pc[t], job[t])'
    OBVIOUS
  <2>1. Fits(pc[t], job[t])
    BY DEF SealInv, Core
  <2>2. pc[t] # "register"
    BY <1>2 DEF RangesSettled
  <2>3. \A p : Named(p)' => Named(p)
    BY <1>5 DEF Named
  <2>4. \A o \in Span(job[t]) : o \in Nat
    BY DEF SealInv, Core, Shapes, JobType, Span
  <2>5. pc[t] \in {"declined", "finish"} => \A o \in Span(job[t]) : Covered(o)'
    BY <1>10, <2>1, <2>4 DEF Fits
  <2>6. QED
    BY <1>1, <1>11, <2>1, <2>2, <2>3, <2>5 DEF Fits, RowsOf, Span
<1>15. Accounted'
  <2>1. \A o : Waiting(o)' <=> Waiting(o)
    BY <1>1 DEF Waiting
  <2>2. QED
    BY <1>1, <1>10, <2>1 DEF SealInv, Accounted
<1>16. QED
  BY <1>6, <1>8, <1>9, <1>12, <1>13, <1>14, <1>15 DEF SealInv, Core

\* Publish: the prefix it lands is whole, up to the end of a group.
LEMMA PublishKeeps ==
    ASSUME SealInv, Publish
    PROVE  SealInv'
<1>1. UNCHANGED <<seq, buffer, open, extent, sealing, queue, disk, table, doomed, pc, job>>
  BY DEF Publish
<1>2. PICK f \in table :
          /\ f.start > through
          /\ through' = f.end - 1
          /\ published' = published \cup
                 UNION {RowsOf(g.path) : g \in {g \in table : g.start > through /\ g.end <= f.end}}
  BY DEF Publish
<1>3. through \in Nat /\ \A g \in table : g.start \in Nat /\ g.end \in Nat
  BY DEF SealInv, Core, Shapes, FileType
<1>4. f \in Ranged /\ Bounded(f) /\ Low(f) /\ Top' = Top
  BY <1>1 DEF SealInv, Core, Aligned, Ranged, Top
<1>5. through' \in Nat /\ through < through' /\ through' + 1 = f.end
  BY <1>2, <1>3, <1>4 DEF Bounded
<1>6. Shapes'
  BY <1>1, <1>5 DEF SealInv, Core, Shapes
<1>7. Ranged' = Ranged /\ Names' = Names
  BY <1>1 DEF Ranged, Names, Jobs, NamedJobs
<1>8. Aligned'
  <2>1. \A x \in Ranged : Bounded(x)'
    <3> SUFFICES ASSUME NEW x \in Ranged PROVE Bounded(x)'
      OBVIOUS
    <3>1. Bounded(x) /\ Apart(x, f)
      BY <1>4 DEF SealInv, Core, Aligned
    <3>2. QED
      BY <1>4, <1>5, <3>1 DEF Bounded, Apart, SameRange
  <2>2. (through + 1 <= Top)'
    BY <1>4, <1>5 DEF Bounded
  <2>3. QED
    BY <1>7, <2>1, <2>2 DEF SealInv, Core, Aligned, Apart, SameRange
<1>9. OneName' /\ Own'
  BY <1>1, <1>7 DEF SealInv, Core, OneName, Own, SameRange
<1>10. \A o \in Nat : Covered(o) => Covered(o)'
  BY <1>1, <1>3, <1>5 DEF Covered, InTable
<1>11. \A x : Low(x) => Low(x)'
  BY <1>10 DEF Low
<1>12. \A x \in (sealing \cup table)' : Low(x)'
  BY <1>1, <1>11 DEF SealInv, Core
<1>13. Published'
  <2>1. \A o : o \in published' <=>
            (o \in published \/ \E g \in table : g.start > through /\ g.end <= f.end /\ o \in RowsOf(g.path))
    BY <1>2
  <2>2. published = 1..through /\ \A g \in table : RowsOf(g.path) = g.start .. g.end - 1
    BY DEF SealInv, Core, Staging, Published, OnDisk, Span
  <2>3. \A o : o \in published' => o \in 1..through'
    <3> SUFFICES ASSUME NEW o, o \in published' PROVE o \in 1..through'
      OBVIOUS
    <3>1. CASE o \in published
      BY <1>3, <1>5, <2>2, <3>1
    <3>2. ASSUME NEW g \in table, g.start > through, g.end <= f.end, o \in RowsOf(g.path)
          PROVE  o \in 1..through'
      <4>1. o \in g.start .. g.end - 1
        BY <2>2, <3>2
      <4>2. QED
        BY <1>3, <1>5, <3>2, <4>1
    <3>3. QED
      BY <2>1, <3>1, <3>2
  <2>4. \A o : o \in 1..through' => o \in published'
    <3> SUFFICES ASSUME NEW o \in 1..through' PROVE o \in published'
      OBVIOUS
    <3>1. CASE o <= through
      BY <1>3, <1>5, <2>1, <2>2, <3>1
    <3>2. CASE o > through
      <4>1. PICK g \in table : g.start <= o /\ o < g.end
        <5>1. CASE o < f.start
          BY <1>3, <1>4, <1>5, <3>2, <5>1 DEF Low, Covered, InTable
        <5>2. CASE f.start <= o
          BY <1>3, <1>5, <5>2
        <5>3. QED
          BY <1>3, <1>5, <5>1, <5>2
      <4>2. Bounded(g) /\ Apart(g, f)
        BY <1>4 DEF SealInv, Core, Aligned, Ranged
      <4>3. g.start > through /\ g.end <= f.end
        BY <1>3, <1>4, <1>5, <3>2, <4>1, <4>2 DEF Bounded, Apart, SameRange
      <4>4. o \in RowsOf(g.path)
        BY <1>3, <1>5, <2>2, <4>1
      <4>5. QED
        BY <2>1, <4>3, <4>4
    <3>3. QED
      BY <1>3, <1>5, <3>1, <3>2
  <2>5. published' = 1..through'
    BY <2>3, <2>4
  <2>6. QED
    BY <2>5 DEF Published
<1>14. Staging'
  <2>1. Buffered'
    BY <1>1, <1>3, <1>5 DEF SealInv, Core, Staging, Buffered, Shapes
  <2>2. OnDisk' /\ Distinct' /\ DoomOut' /\ Contig'
    BY <1>1 DEF SealInv, Core, Staging, OnDisk, Distinct, DoomOut, Contig, InTable, Named,
                RowsOf, Span
  <2>3. Ahead'
    BY <1>1, <1>3, <1>5 DEF Ahead
  <2>4. QED
    BY <1>13, <2>1, <2>2, <2>3 DEF Staging
<1>15. \A t \in Sealers : Fits(pc[t], job[t])'
  <2> SUFFICES ASSUME NEW t \in Sealers PROVE Fits(pc[t], job[t])'
    OBVIOUS
  <2>1. Fits(pc[t], job[t]) /\ job[t] \in JobType
    BY DEF SealInv, Core, Shapes
  <2>2. \A o \in Span(job[t]) : o \in Nat
    BY <2>1 DEF JobType, Span
  <2>3. pc[t] \in {"declined", "finish"} => \A o \in Span(job[t]) : Covered(o)'
    BY <1>10, <2>1, <2>2 DEF Fits
  <2>4. pc[t] \in WrittenAt => \A o \in Span(job[t]) : o \in RowsOf(job[t].path) \/ o <= through'
    BY <1>3, <1>5, <2>1, <2>2 DEF Fits
  <2>5. pc[t] = "register" => job[t].thr <= through' /\ \E g \in table : g.end >= through' + 1
    BY <1>3, <1>5, <2>1 DEF Fits, JobType
  <2>6. RowsOf(job[t].path)' = RowsOf(job[t].path) /\ Span(job[t])' = Span(job[t])
        /\ (Named(job[t].path)' <=> Named(job[t].path))
    BY <1>1 DEF RowsOf, Span, Named
  <2>7. QED
    BY <1>1, <1>11, <2>1, <2>3, <2>4, <2>5, <2>6 DEF Fits
<1>16. Accounted'
  <2>1. \A o : Waiting(o)' <=> Waiting(o)
    BY <1>1 DEF Waiting
  <2>2. QED
    BY <1>1, <1>10, <2>1 DEF SealInv, Accounted
<1>17. QED
  BY <1>6, <1>8, <1>9, <1>12, <1>14, <1>15, <1>16 DEF SealInv, Core

-----------------------------------------------------------------------------
\* Where a row's group starts: at the open group or after the last cut.
LEMMA GroupStartIs ==
    ASSUME Shapes, NEW k \in Nat, NEW cuts, cuts \subseteq seq + 1 .. seq + k, NEW o \in Nat
    PROVE  /\ GroupStart(cuts, o) \in Nat /\ Top <= GroupStart(cuts, o)
           /\ \A c \in cuts : c < o => c + 1 <= GroupStart(cuts, o)
           /\ \/ GroupStart(cuts, o) = Top
              \/ \E c \in cuts : c < o /\ GroupStart(cuts, o) = c + 1
<1>1. seq \in Nat /\ open \in Nat /\ open <= seq /\ Top \in Nat /\ Top <= seq + 1
  BY DEF Shapes, Top
<1>2. \A c \in cuts : c \in Nat /\ seq + 1 <= c
  BY <1>1
<1>3. PICK before : before = {c \in cuts : c < o}
  OBVIOUS
<1>4. CASE before = {}
  <2>1. GroupStart(cuts, o) = Top
    BY <1>3, <1>4 DEF GroupStart, Top
  <2>2. QED
    BY <1>1, <1>3, <1>4, <2>1
<1>5. CASE before # {}
  <2>1. before \subseteq 0..o
    <3> SUFFICES ASSUME NEW c \in before PROVE c \in 0..o
      OBVIOUS
    <3>1. c \in Nat /\ c < o
      BY <1>2, <1>3
    <3>2. QED
      BY <3>1
  <2>2. PICK m : m = Max(before)
    OBVIOUS
  <2>3. m \in before /\ \A y \in before : y <= m
    BY <1>5, <2>1, <2>2, MaxOfNaturals
  <2>4. GroupStart(cuts, o) = m + 1
    BY <1>3, <1>5, <2>2 DEF GroupStart
  <2>5. m \in cuts /\ m < o /\ m \in Nat /\ seq + 1 <= m
    BY <1>2, <1>3, <2>3
  <2>6. \A c \in cuts : c < o => c <= m
    BY <1>3, <2>3
  <2>7. QED
    BY <1>1, <1>2, <2>4, <2>5, <2>6
<1>6. QED
  BY <1>4, <1>5

\* Top after a step.
LEMMA TopIsNat ==
    ASSUME seq' \in Nat, open' \in Nat
    PROVE  Top' \in Nat
<1>1. PICK a \in Nat, b \in Nat : a = seq' /\ b = open'
  OBVIOUS
<1>2. PICK t : t = Top'
  OBVIOUS
<1>3. t = IF b = 0 THEN a + 1 ELSE b
  BY <1>1, <1>2 DEF Top
<1>4. t \in Nat
  BY <1>3
<1>5. QED
  BY <1>2, <1>4

\* What a growing log leaves alone: everything that is not in the open group.
LEMMA GrowthKeeps ==
    ASSUME SealInv,
           seq' \in Nat, seq <= seq', open' \in Nat, open' <= seq', Top <= Top',
           buffer' = buffer \cup (seq + 1 .. seq'),
           NEW New, New \subseteq GroupType, extent' = extent \cup New,
           \A x \in New : Top <= x.start /\ x.start < x.end /\ x.end <= Top',
           \A x, y \in New : Apart(x, y),
           \A o \in Nat : Top <= o /\ o <= seq' => Waiting(o)',
           UNCHANGED <<sealing, queue, through, files, pc, job>>
    PROVE  SealInv'
<1>1. UNCHANGED <<sealing, queue, through, disk, table, published, doomed, pc, job>>
  BY DEF files
<1>a. seq \in Nat /\ open \in Nat /\ open <= seq /\ through \in Nat
  BY DEF SealInv, Core, Shapes
<1>b. Top \in Nat /\ Top <= seq + 1
  BY <1>a DEF Top
<1>c. Top' \in Nat
  BY TopIsNat
<1>2. seq \in Nat /\ open \in Nat /\ Top \in Nat /\ Top' \in Nat /\ through \in Nat
      /\ Top <= seq + 1
  BY <1>a, <1>b, <1>c
<1>3. Shapes'
  BY <1>1, <1>2 DEF SealInv, Core, Shapes
<1>4. Ranged' = Ranged \cup New /\ Names' = Names
  BY <1>1 DEF Ranged, Names, Jobs, NamedJobs
<1>5. Aligned'
  <2>1. through + 1 <= Top /\ (\A x \in Ranged : Bounded(x)) /\ \A x, y \in Ranged : Apart(x, y)
    BY DEF SealInv, Core, Aligned
  <2>2. \A x \in New : x.start \in Nat /\ x.end \in Nat
    BY DEF GroupType
  <2>3. \A x \in Ranged : Bounded(x)'
    BY <1>1, <1>2, <2>1 DEF Bounded
  <2>4. 1 <= Top
    BY <1>2 DEF Top
  <2>5. \A x \in New : Bounded(x)'
    BY <1>1, <1>2, <2>1, <2>2, <2>4 DEF Bounded
  <2>6. \A x \in Ranged, y \in New : Apart(x, y) /\ Apart(y, x)
    BY <1>2, <2>1, <2>2 DEF Bounded, Apart
  <2>7. \A x, y \in Ranged' : Apart(x, y)
    BY <1>4, <2>1, <2>6
  <2>8. (through + 1 <= Top)'
    BY <1>1, <1>2, <2>1
  <2>9. QED
    BY <1>4, <2>3, <2>5, <2>7, <2>8 DEF Aligned, Apart, SameRange
<1>6. OneName' /\ Own'
  BY <1>1, <1>4 DEF SealInv, Core, OneName, Own, SameRange
<1>7. \A o : Covered(o)' <=> Covered(o)
  BY <1>1 DEF Covered, InTable
<1>8. \A x : Low(x) => Low(x)'
  BY <1>7 DEF Low
<1>9. \A x \in (sealing \cup table)' : Low(x)'
  BY <1>1, <1>8 DEF SealInv, Core
<1>10. Staging'
  <2>1. Published' /\ OnDisk' /\ Ahead' /\ Contig' /\ Distinct' /\ DoomOut'
    BY <1>1 DEF SealInv, Core, Staging, Published, OnDisk, Ahead, Contig, Distinct, DoomOut,
                InTable, Named, RowsOf, Span
  <2>2. Buffered'
    BY <1>1, <1>2 DEF SealInv, Core, Staging, Buffered
  <2>3. QED
    BY <2>1, <2>2 DEF Staging
<1>11. \A t \in Sealers : Fits(pc[t], job[t])'
  BY <1>1, <1>7, <1>8 DEF SealInv, Core, Fits, RowsOf, Named, Span
<1>12. Accounted'
  <2> SUFFICES ASSUME NEW o \in 1..seq' PROVE Covered(o)' \/ Waiting(o)'
    BY DEF Accounted
  <2>1. CASE o < Top
    <3>1. o \in 1..seq
      BY <1>2, <2>1
    <3>2. Covered(o) \/ \E g \in extent : g.path = 0 /\ g.start <= o /\ o < g.end
      <4>1. o \in Nat /\ ~(open # 0 /\ o >= open)
        BY <1>2, <2>1, <3>1 DEF Top
      <4>2. QED
        BY <3>1, <4>1 DEF SealInv, Accounted, Waiting
    <3>3. QED
      BY <1>7, <3>2 DEF Waiting
  <2>2. CASE Top <= o
    BY <2>2
  <2>3. QED
    BY <1>2, <2>1, <2>2
<1>13. QED
  BY <1>3, <1>5, <1>6, <1>9, <1>10, <1>11, <1>12 DEF SealInv, Core

\* Append: the cuts split the new rows into groups, one after the other.
LEMMA AppendKeeps ==
    ASSUME SealInv, NEW k \in 1..MaxBatch, Append(k)
    PROVE  SealInv'
<1>1. k \in Nat /\ 1 <= k
  BY BoundsAssumption
<1>2. Shapes /\ seq \in Nat /\ open \in Nat /\ open <= seq
      /\ Top \in Nat /\ Top <= seq + 1 /\ 1 <= Top
  BY DEF SealInv, Core, Shapes, Top
<1>3. PICK cuts \in SUBSET (seq + 1 .. seq + k) :
          /\ extent' = extent \cup
                {[start |-> GroupStart(cuts, c), end |-> c + 1, path |-> 0] : c \in cuts}
          /\ open' = IF seq + k \in cuts THEN 0 ELSE GroupStart(cuts, seq + k)
  BY DEF Append
<1>4. seq' = seq + k /\ buffer' = buffer \cup (seq + 1 .. seq')
      /\ UNCHANGED <<sealing, queue, through, files, pc, job>>
  BY DEF Append
<1>5. \A c \in cuts : c \in Nat /\ seq + 1 <= c /\ c <= seq'
  BY <1>1, <1>2, <1>4
<1>6. \A o \in Nat :
          /\ GroupStart(cuts, o) \in Nat /\ Top <= GroupStart(cuts, o)
          /\ \A c \in cuts : c < o => c + 1 <= GroupStart(cuts, o)
          /\ \/ GroupStart(cuts, o) = Top
             \/ \E c \in cuts : c < o /\ GroupStart(cuts, o) = c + 1
  <2>1. cuts \subseteq seq + 1 .. seq + k
    BY <1>3
  <2>2. Shapes
    BY <1>2
  <2> HIDE <1>2
  <2>3. QED
    BY <1>1, <2>1, <2>2, GroupStartIs
<1>7. PICK New : New = {[start |-> GroupStart(cuts, c), end |-> c + 1, path |-> 0] : c \in cuts}
  OBVIOUS
<1>8. \A x \in New : \E c \in cuts : x.start = GroupStart(cuts, c) /\ x.end = c + 1 /\ x.path = 0
  BY <1>7
<1>9. \A c \in cuts : \E x \in New : x.start = GroupStart(cuts, c) /\ x.end = c + 1 /\ x.path = 0
  <2> SUFFICES ASSUME NEW c \in cuts
               PROVE  \E x \in New : x.start = GroupStart(cuts, c) /\ x.end = c + 1 /\ x.path = 0
    OBVIOUS
  <2>1. PICK x : x = [start |-> GroupStart(cuts, c), end |-> c + 1, path |-> 0]
    OBVIOUS
  <2>2. x \in New
    BY <1>7, <2>1
  <2>3. x.start = GroupStart(cuts, c) /\ x.end = c + 1 /\ x.path = 0
    BY <2>1
  <2>4. QED
    BY <2>2, <2>3
<1>10. New \subseteq GroupType
  BY <1>5, <1>6, <1>7 DEF GroupType
<1>11. \A c \in cuts : GroupStart(cuts, c) <= c
  BY <1>2, <1>5, <1>6
<1>12. seq' \in Nat /\ seq <= seq'
  BY <1>1, <1>2, <1>4
<1>13. /\ open' \in Nat /\ open' <= seq' /\ Top <= Top'
       /\ \A c \in cuts : c + 1 <= Top'
       /\ seq' \notin cuts => open' = GroupStart(cuts, seq') /\ open' # 0
  <2>1. CASE seq' \in cuts
    <3>1. open' = 0
      BY <1>3, <1>4, <2>1
    <3>2. Top' = seq' + 1
      BY <3>1 DEF Top
    <3>a. Top <= Top'
      BY <1>1, <1>2, <1>4, <3>2
    <3>b. \A c \in cuts : c + 1 <= Top'
      BY <1>1, <1>2, <3>2, <1>4
    <3>3. Top <= Top' /\ \A c \in cuts : c + 1 <= Top'
      BY <3>a, <3>b
    <3>4. QED
      BY <1>12, <2>1, <3>1, <3>3
  <2>2. CASE seq' \notin cuts
    <3>1. open' = GroupStart(cuts, seq')
      BY <1>3, <1>4, <2>2
    <3>2. open' \in Nat /\ Top <= open' /\ \A c \in cuts : c < seq' => c + 1 <= open'
      BY <1>6, <1>12, <3>1
    <3>3. open' <= seq'
      BY <1>1, <1>2, <1>4, <1>5, <1>6, <1>12, <3>1
    <3>4. Top' = open' /\ open' # 0
      BY <1>2, <3>2 DEF Top
    <3>5. \A c \in cuts : c < seq'
      BY <1>5, <1>12, <2>2
    <3>6. QED
      BY <2>2, <3>1, <3>2, <3>3, <3>4, <3>5
  <2>3. QED
    BY <2>1, <2>2
<1>14. \A x \in New : Top <= x.start /\ x.start < x.end /\ x.end <= Top'
  <2> SUFFICES ASSUME NEW x \in New PROVE Top <= x.start /\ x.start < x.end /\ x.end <= Top'
    OBVIOUS
  <2>1. PICK c \in cuts : x.start = GroupStart(cuts, c) /\ x.end = c + 1
    BY <1>8
  <2>2. QED
    BY <1>5, <1>6, <1>11, <1>13, <2>1
<1>15. \A x, y \in New : Apart(x, y)
  <2> SUFFICES ASSUME NEW x \in New, NEW y \in New PROVE Apart(x, y)
    OBVIOUS
  <2>1. PICK c \in cuts : x.start = GroupStart(cuts, c) /\ x.end = c + 1
    BY <1>8
  <2>2. PICK d \in cuts : y.start = GroupStart(cuts, d) /\ y.end = d + 1
    BY <1>8
  <2>3. CASE c = d
    BY <2>1, <2>2, <2>3 DEF Apart, SameRange
  <2>4. CASE c < d
    BY <1>5, <1>6, <2>1, <2>2, <2>4 DEF Apart
  <2>5. CASE d < c
    BY <1>5, <1>6, <2>1, <2>2, <2>5 DEF Apart
  <2>6. QED
    BY <1>5, <2>3, <2>4, <2>5
<1>16. \A o \in Nat : Top <= o /\ o <= seq' => Waiting(o)'
  <2> SUFFICES ASSUME NEW o \in Nat, Top <= o, o <= seq' PROVE Waiting(o)'
    OBVIOUS
  <2>1. PICK After : After = {c \in cuts : o <= c}
    OBVIOUS
  <2>2. CASE After # {}
    <3>1. After \subseteq Nat
      BY <1>5, <2>1
    <3>2. PICK c \in After : \A d \in After : c <= d
      BY <2>2, <3>1, MinOfNaturals
    <3>3. c \in cuts /\ o <= c /\ c \in Nat
      BY <1>5, <2>1, <3>2
    <3>4. GroupStart(cuts, c) <= o
      <4>1. CASE GroupStart(cuts, c) = Top
        BY <4>1
      <4>2. ASSUME NEW d \in cuts, d < c, GroupStart(cuts, c) = d + 1
            PROVE  GroupStart(cuts, c) <= o
        <5>1. d \notin After
          BY <1>5, <3>2, <3>3, <4>2
        <5>2. QED
          BY <1>5, <2>1, <4>2, <5>1
      <4>3. QED
        BY <1>6, <3>3, <4>1, <4>2
    <3>5. PICK x \in New : x.start = GroupStart(cuts, c) /\ x.end = c + 1 /\ x.path = 0
      BY <1>9, <3>3
    <3>6. x \in extent' /\ x.start <= o /\ o < x.end
      BY <1>3, <1>7, <3>3, <3>4, <3>5
    <3>7. QED
      BY <3>5, <3>6 DEF Waiting
  <2>3. CASE After = {}
    <3>1. \A c \in cuts : c < o
      BY <1>5, <2>1, <2>3
    <3>2. seq' \notin cuts
      BY <1>12, <3>1
    <3>3. open' = GroupStart(cuts, seq') /\ open' # 0
      BY <1>13, <3>2
    <3>4. open' <= o
      <4>1. CASE open' = Top
        BY <4>1
      <4>2. ASSUME NEW c \in cuts, open' = c + 1 PROVE open' <= o
        BY <1>5, <3>1, <4>2
      <4>3. QED
        BY <1>6, <1>12, <3>3, <4>1, <4>2
    <3>5. QED
      BY <1>13, <3>3, <3>4 DEF Waiting
  <2>4. QED
    BY <2>2, <2>3
<1>17. QED
  BY <1>3, <1>4, <1>7, <1>10, <1>12, <1>13, <1>14, <1>15, <1>16, GrowthKeeps

\* CloseOpenGroup: the open group ends at the last row issued.
LEMMA CloseOpenGroupKeeps ==
    ASSUME SealInv, CloseOpenGroup
    PROVE  SealInv'
<1>1. /\ open # 0 /\ open' = 0 /\ seq' = seq /\ buffer' = buffer
      /\ extent' = extent \cup {[start |-> open, end |-> Max(buffer) + 1, path |-> 0]}
      /\ UNCHANGED <<sealing, queue, through, files, pc, job>>
  BY DEF CloseOpenGroup
<1>2. seq \in Nat /\ open \in Nat /\ open <= seq /\ through \in Nat /\ buffer \subseteq 1..seq
  BY DEF SealInv, Core, Shapes
<1>3. Top = open /\ Top' = seq + 1 /\ through < open
  BY <1>1, <1>2 DEF Top, SealInv, Core, Aligned
<1>4. seq \in buffer
  BY <1>1, <1>2, <1>3 DEF SealInv, Core, Staging, Buffered
<1>5. Max(buffer) = seq
  <2>1. buffer \subseteq 0..seq /\ buffer # {}
    BY <1>2, <1>4
  <2>2. Max(buffer) \in buffer /\ \A y \in buffer : y <= Max(buffer)
    BY <1>2, <2>1, MaxOfNaturals
  <2>3. PICK m : m = Max(buffer)
    OBVIOUS
  <2>4. m \in 1..seq /\ seq <= m
    BY <1>2, <1>4, <2>2, <2>3
  <2>5. QED
    BY <1>2, <2>3, <2>4
<1>6. PICK n : n = [start |-> open, end |-> seq + 1, path |-> 0]
  OBVIOUS
<1>7. n \in GroupType /\ n.start = open /\ n.end = seq + 1 /\ n.path = 0
  BY <1>2, <1>6 DEF GroupType
<1>8. extent' = extent \cup {n}
  BY <1>1, <1>5, <1>6
<1>9. \A o \in Nat : Top <= o /\ o <= seq' => Waiting(o)'
  BY <1>1, <1>2, <1>3, <1>7, <1>8 DEF Waiting
<1>10. PICK New : New = {n}
  OBVIOUS
<1>11. /\ New \subseteq GroupType /\ extent' = extent \cup New
       /\ \A x, y \in New : Apart(x, y)
       /\ \A x \in New : Top <= x.start /\ x.start < x.end /\ x.end <= Top'
  BY <1>2, <1>3, <1>7, <1>8, <1>10 DEF Apart, SameRange
<1>12. buffer' = buffer \cup (seq + 1 .. seq')
  BY <1>1, <1>2
<1>13. seq' \in Nat /\ seq <= seq' /\ open' \in Nat /\ open' <= seq' /\ Top <= Top'
  BY <1>1, <1>2, <1>3
<1>14. QED
  BY <1>1, <1>9, <1>11, <1>12, <1>13, GrowthKeeps

-----------------------------------------------------------------------------
\* An empty log.
LEMMA InitHolds ==
    ASSUME Init
    PROVE  SealInv
<1>1. Shapes
  BY DEF Init, Shapes, NoJob, JobType, PC
<1>2. Ranged = {} /\ Names = {}
  BY DEF Init, Ranged, Names, Jobs, NamedJobs, RangedAt, NamedAt, OwnedAt, NamingAt, WrittenAt
<1>3. Aligned /\ OneName
  BY <1>2 DEF Init, Aligned, OneName, Top
<1>4. Staging
  BY DEF Init, Staging, Published, Buffered, OnDisk, Ahead, Contig, Distinct, DoomOut
<1>5. Own /\ \A s \in Sealers : Fits(pc[s], job[s])
  BY DEF Init, Own, Fits, RangedAt, NamedAt, OwnedAt, NamingAt, WrittenAt
<1>6. Accounted
  BY DEF Init, Accounted
<1>7. QED
  BY <1>1, <1>3, <1>4, <1>5, <1>6 DEF Init, SealInv, Core

\* Steps that touch only claims and bounds.
LEMMA StutterKeeps ==
    ASSUME SealInv, UNCHANGED <<db, files, pc, job>>
    PROVE  SealInv'
<1>1. UNCHANGED <<seq, buffer, open, extent, sealing, queue, through, disk, table, published,
                  doomed, pc, job>>
  BY DEF db, files
<1>2. \A o : (Covered(o)' <=> Covered(o)) /\ (Waiting(o)' <=> Waiting(o))
  BY <1>1 DEF Covered, InTable, Waiting
<1>3. Shapes' /\ Aligned' /\ OneName' /\ Own'
  BY <1>1 DEF SealInv, Core, Shapes, Aligned, OneName, Own, Ranged, Names, Jobs, NamedJobs, Top,
              Bounded, Apart, SameRange
<1>4. Staging'
  BY <1>1 DEF SealInv, Core, Staging, Published, Buffered, OnDisk, Ahead, Contig, Distinct,
              DoomOut, InTable, Named, RowsOf, Span
<1>5. \A x : Low(x)' <=> Low(x)
  BY <1>2 DEF Low
<1>6. \A s \in Sealers : Fits(pc[s], job[s])'
  BY <1>1, <1>2, <1>5 DEF SealInv, Core, Fits, RowsOf, Named, Span
<1>7. QED
  BY <1>1, <1>2, <1>3, <1>4, <1>5, <1>6 DEF SealInv, Core, Accounted

\* Every step of a sealer.
LEMMA SealStepKeeps ==
    ASSUME SealInv, NEW s \in Sealers, SealStep(s)
    PROVE  SealInv'
<1>1. CASE ClaimSeal(s)
  <2>1. pc[s] \in NamingAt
    BY <1>1 DEF ClaimSeal, NamingAt
  <2>2. QED
    BY <1>1, <2>1, IntentKeeps DEF ClaimSeal
<1>2. CASE ClaimRetry(s)
  <2>1. pc[s] \in NamingAt
    BY <1>2 DEF ClaimRetry, NamingAt
  <2>2. QED
    BY <1>2, <2>1, IntentKeeps DEF ClaimRetry
<1>3. QED
  BY <1>1, <1>2, PickGroupKeeps, PickRecoverKeeps, AcquireKeeps, RecheckKeeps,
     LookForIntentKeeps, RenewBeforeWriteKeeps, WriteFileKeeps, RenewBeforeCommitKeeps,
     QueueLostFileKeeps, ReadWatermarkKeeps, RegisterKeeps, QueueDeclinedFileKeeps,
     FinishSealKeeps, ReleaseKeeps, ReadIntentKeeps, LookForLandedKeeps, QueueAbandonedKeeps
  DEF SealStep

\* Every step.
LEMMA StepKeeps ==
    ASSUME BoundedStall, SealInv, [Next]_vars
    PROVE  SealInv'
<1>1. CASE UNCHANGED vars
  BY <1>1, StutterKeeps DEF vars
<1>2. CASE Lapse \/ LapseOrphan
  BY <1>2, StutterKeeps DEF Lapse, LapseOrphan
<1>3. CASE \E k \in 1..MaxBatch : Append(k)
  BY <1>3, AppendKeeps
<1>4. CASE \E s \in Sealers : SealStep(s) \/ Crash(s)
  BY <1>4, SealStepKeeps, ReleaseKeeps
<1>5. QED
  BY <1>1, <1>2, <1>3, <1>4, CloseOpenGroupKeeps, PublishKeeps, EvictBufferKeeps,
     EvictStagingKeeps, DrainLookKeeps, DrainUnlinkKeeps
  DEF Next

\* SealInv is an invariant of the specification.
LEMMA InvariantHolds ==
    ASSUME BoundedStall
    PROVE  Spec => []SealInv
  BY InitHolds, StepKeeps, PTL DEF Spec

-----------------------------------------------------------------------------

\* No group is named and none dropped before its rows are in a table
\* (Buffer.finish_seal, Maintenance.drain): every row ever appended is
\* published, staged, in a group a seal will still write, or in the open one.
THEOREM NoRowForgotten ==
    ASSUME BoundedStall
    PROVE  Spec => []NothingForgotten
<1>1. SealInv => NothingForgotten
  <2> SUFFICES ASSUME SealInv, NEW o \in 1..seq, ~(open # 0 /\ o >= open),
                      ~(\E g \in Pending : o \in Span(g))
               PROVE  o \in published \cup Staged
    BY DEF NothingForgotten
  <2>1. o \in Nat /\ 1 <= o /\ through \in Nat
    BY DEF SealInv, Core, Shapes
  <2>2. \A g \in extent : g.start \in Nat /\ g.end \in Nat
    BY DEF SealInv, Core, Shapes, GroupType
  <2>3. \A f \in table : f.start \in Nat /\ f.end \in Nat
    BY DEF SealInv, Core, Shapes, FileType
  <2>4. ~Waiting(o)
    BY <2>1, <2>2 DEF Waiting, Pending, Span
  <2>5. Covered(o)
    BY <2>4 DEF SealInv, Accounted
  <2>6. CASE o <= through
    BY <2>1, <2>6 DEF SealInv, Core, Staging, Published
  <2>7. ASSUME NEW f \in table, f.start <= o, o < f.end PROVE o \in Staged
    <3>1. o \in Span(f)
      BY <2>1, <2>3, <2>7 DEF Span
    <3>2. QED
      BY <3>1 DEF Staged
  <2>8. QED
    BY <2>5, <2>6, <2>7 DEF Covered, InTable
<1>2. QED
  BY <1>1, InvariantHolds, PTL

\* I6: the staging table never names a file that drain has unlinked.
THEOREM StagedFilesExist ==
    ASSUME BoundedStall
    PROVE  Spec => []NoDanglingFile
<1>1. SealInv => NoDanglingFile
  <2> SUFFICES ASSUME SealInv, NEW f \in table PROVE \E g \in disk : g.path = f.path
    BY DEF NoDanglingFile
  <2>1. RowsOf(f.path) = f.start .. f.end - 1 /\ Bounded(f)
    BY DEF SealInv, Core, Staging, OnDisk, Span, Aligned, Ranged
  <2>2. f.start \in RowsOf(f.path)
    BY <2>1 DEF Bounded
  <2>3. QED
    BY <2>2 DEF RowsOf
<1>2. QED
  BY <1>1, InvariantHolds, PTL

\* SpanStart is the smallest start of a staging file.
LEMMA SpanStartIs ==
    ASSUME Core, table # {}
    PROVE  /\ SpanStart \in Nat
           /\ \A f \in table : SpanStart <= f.start
           /\ \E f \in table : f.start = SpanStart
<1>1. PICK S : S = {f.start : f \in table}
  OBVIOUS
<1>2. S \subseteq Nat
  BY <1>1 DEF Core, Shapes, FileType
<1>3. S # {}
  BY <1>1
<1>4. Min(S) \in S /\ \A y \in S : Min(S) <= y
  BY <1>2, <1>3, MinOfNaturals
<1>5. SpanStart = Min(S)
  BY <1>1 DEF SpanStart
<1>6. QED
  BY <1>1, <1>2, <1>4, <1>5

\* The published table ends at the watermark.
LEMMA PublishedEndIs ==
    ASSUME Core
    PROVE  PublishedEnd = through + 1
<1>1. through \in Nat /\ published = 1..through
  BY DEF Core, Shapes, Staging, Published
<1>2. PICK S : S = {0} \cup published
  OBVIOUS
<1>3. S \subseteq 0..through /\ S # {} /\ through \in S
  BY <1>1, <1>2
<1>4. PICK m : m = Max(S)
  OBVIOUS
<1>5. m \in S /\ \A y \in S : y <= m
  BY <1>1, <1>3, <1>4, MaxOfNaturals
<1>6. m \in 0..through /\ through <= m
  BY <1>3, <1>5
<1>7. m = through
  BY <1>1, <1>6
<1>8. QED
  BY <1>2, <1>4, <1>7 DEF PublishedEnd

\* Below, inside and above the staging table: one source each.
LEMMA ServedOnce ==
    ASSUME Core, NEW o \in 1..seq
    PROVE  Cardinality({f \in table : o \in Span(f)})
               + (IF ServedByPublished(o) THEN 1 ELSE 0)
               + (IF ServedByBuffer(o) THEN 1 ELSE 0) = 1
<1>1. o \in Nat /\ 1 <= o /\ through \in Nat
  BY DEF Core, Shapes
<1>2. /\ o \in published <=> o <= through
      /\ o \in buffer \/ o <= through
  BY <1>1 DEF Core, Staging, Published, Buffered
<1>3. \A f \in table : /\ f.start \in Nat /\ f.end \in Nat
                       /\ o \in Span(f) <=> f.start <= o /\ o < f.end
  BY <1>1 DEF Core, Shapes, FileType, Span
<1>4. PICK H : H = {f \in table : o \in Span(f)}
  OBVIOUS
<1>5. CASE table = {}
  <2>1. Cardinality(H) = 0
    BY <1>4, <1>5, FS_EmptySet
  <2>2. ServedByPublished(o) <=> o <= through
    BY <1>2, <1>5 DEF ServedByPublished
  <2>3. ServedByBuffer(o) <=> o > through
    BY <1>1, <1>2, <1>5, PublishedEndIs DEF ServedByBuffer
  <2>4. QED
    BY <1>1, <1>4, <2>1, <2>2, <2>3
<1>6. CASE table # {}
  <2>1. /\ SpanStart \in Nat /\ \A f \in table : SpanStart <= f.start
        /\ \E f \in table : f.start = SpanStart
    BY <1>6, SpanStartIs
  <2>2. SpanEnd \in Nat /\ \A f \in table : f.end <= SpanEnd
    BY SpanEndIs
  <2>3. PICK a \in table : a.start = SpanStart
    BY <2>1
  <2>4. \A f \in table : Bounded(f)
    BY DEF Core, Aligned, Ranged
  <2>5. PICK b \in table : b.end = SpanEnd
    <3>1. SpanEnd # 0
      BY <1>3, <2>2, <2>3, <2>4 DEF Bounded
    <3>2. QED
      BY <3>1, SpanEndIs
  <2>6. through + 1 <= SpanEnd
    <3>1. PICK e \in table : e.end >= through + 1
      BY <1>6 DEF Core, Staging, Ahead
    <3>2. QED
      BY <1>1, <1>3, <2>2, <3>1
  <2>7. ServedByPublished(o) <=> (o <= through /\ o < SpanStart)
    BY <1>2, <1>6 DEF ServedByPublished
  <2>8. ServedByBuffer(o) <=> o >= SpanEnd
    <3>1. o >= SpanEnd => o \in buffer
      BY <1>1, <1>2, <2>2, <2>6
    <3>2. QED
      BY <1>6, <3>1 DEF ServedByBuffer
  <2>9. SpanStart < SpanEnd
    BY <1>3, <2>1, <2>2, <2>3, <2>4 DEF Bounded
  <2>10. CASE o < SpanStart
    <3>1. H = {}
      BY <1>1, <1>3, <1>4, <2>1, <2>10
    <3>2. o <= through
      <4>1. Covered(o)
        BY <1>1, <2>3, <2>10 DEF Core, Low
      <4>2. ~InTable(o)
        BY <1>3, <1>4, <3>1 DEF InTable
      <4>3. QED
        BY <4>1, <4>2 DEF Covered
    <3>3. Cardinality(H) = 0
      BY <3>1, FS_EmptySet
    <3>4. ServedByPublished(o) /\ ~ServedByBuffer(o)
      BY <1>1, <2>1, <2>2, <2>7, <2>8, <2>9, <2>10, <3>2
    <3>5. QED
      BY <1>4, <3>3, <3>4
  <2>11. CASE SpanStart <= o /\ o < SpanEnd
    <3>1. InTable(o)
      BY <1>1, <2>3, <2>5, <2>11 DEF Core, Staging, Contig
    <3>2. PICK f \in table : f.start <= o /\ o < f.end
      BY <3>1 DEF InTable
    <3>3. ASSUME NEW g \in H PROVE g = f
      <4>1. g \in table /\ g.start <= o /\ o < g.end
        BY <1>3, <1>4
      <4>2. Apart(f, g)
        BY <4>1 DEF Core, Aligned, Ranged
      <4>3. f.end = g.end
        BY <1>1, <1>3, <3>2, <4>1, <4>2 DEF Apart, SameRange
      <4>4. QED
        BY <4>1, <4>3 DEF Core, Staging, Distinct
    <3>4. H = {f}
      BY <1>3, <1>4, <3>2, <3>3
    <3>5. Cardinality(H) = 1
      BY <3>4, FS_Singleton
    <3>6. ~ServedByPublished(o) /\ ~ServedByBuffer(o)
      BY <1>1, <2>1, <2>2, <2>7, <2>8, <2>11
    <3>7. QED
      BY <1>4, <3>5, <3>6
  <2>12. CASE o >= SpanEnd
    <3>1. H = {}
      BY <1>1, <1>3, <1>4, <2>2, <2>12
    <3>2. Cardinality(H) = 0
      BY <3>1, FS_EmptySet
    <3>3. ~ServedByPublished(o) /\ ServedByBuffer(o)
      BY <1>1, <2>1, <2>2, <2>7, <2>8, <2>9, <2>12
    <3>4. QED
      BY <1>4, <3>2, <3>3
  <2>13. QED
    BY <1>1, <2>1, <2>2, <2>10, <2>11, <2>12
<1>7. QED
  BY <1>5, <1>6

\* A query returns every appended row exactly once (Reader._union over what
\* seal, recover, publish and evict leave), whoever stalls, dies or takes over.
THEOREM QueriesReadOnce ==
    ASSUME BoundedStall
    PROVE  Spec => []ReadsExactlyOnce
<1>1. SealInv => ReadsExactlyOnce
  BY ServedOnce DEF SealInv, ReadsExactlyOnce
<1>2. QED
  BY <1>1, InvariantHolds, PTL

\* Only register adds to the staging table, and only what it does not decline.
LEMMA OnlyRegisterAdds ==
    ASSUME [Next]_vars
    PROVE  \/ table' \subseteq table
           \/ \E s \in Sealers :
                 /\ pc[s] = "register" /\ ~Declines(s)
                 /\ table' = table \cup {[path |-> job[s].path,
                                          start |-> Min(RowsOf(job[s].path)),
                                          end |-> Max(RowsOf(job[s].path)) + 1]}
<1>1. CASE UNCHANGED vars
  BY <1>1 DEF vars, files
<1>2. CASE \E s \in Sealers : Crash(s)
  BY <1>2 DEF Crash, files
<1>3. CASE (\E k \in 1..MaxBatch : Append(k)) \/ CloseOpenGroup \/ Lapse \/ LapseOrphan
           \/ Publish \/ EvictBuffer \/ DrainLook \/ DrainUnlink
  BY <1>3 DEF Append, CloseOpenGroup, Lapse, LapseOrphan, Publish, EvictBuffer, DrainLook,
              DrainUnlink, files
<1>4. CASE EvictStaging
  BY <1>4 DEF EvictStaging
<1>5. ASSUME NEW s \in Sealers, SealStep(s), ~Register(s) PROVE table' = table
  BY <1>5 DEF SealStep, PickGroup, PickRecover, Acquire, Recheck, LookForIntent, ClaimSeal,
     RenewBeforeWrite, WriteFile, RenewBeforeCommit, QueueLostFile, ReadWatermark,
     QueueDeclinedFile, FinishSeal, ReleaseClaim, ReadIntent, LookForLanded, QueueAbandoned,
     ClaimRetry, files
<1>6. ASSUME NEW s \in Sealers, Register(s)
      PROVE  \/ table' = table
             \/ /\ pc[s] = "register" /\ ~Declines(s)
                /\ table' = table \cup {[path |-> job[s].path,
                                         start |-> Min(RowsOf(job[s].path)),
                                         end |-> Max(RowsOf(job[s].path)) + 1]}
  BY <1>6 DEF Register
<1>7. QED
  BY <1>1, <1>2, <1>3, <1>4, <1>5, <1>6 DEF Next

\* LogTable.register never commits a range the published table already holds:
\* a sealer that wakes after its range was sealed, published and evicted by
\* others is declined (LogTable._covers).
THEOREM NothingReAdded ==
    ASSUME BoundedStall
    PROVE  Spec => NeverReAdds
<1>1. SealInv /\ [Next]_vars => [\A f \in table' \ table : f.end > through + 1]_vars
  <2> SUFFICES ASSUME SealInv, [Next]_vars, NEW f \in table' \ table PROVE f.end > through + 1
    OBVIOUS
  <2>1. PICK s \in Sealers :
                 /\ pc[s] = "register" /\ ~Declines(s)
                 /\ table' = table \cup {[path |-> job[s].path,
                                          start |-> Min(RowsOf(job[s].path)),
                                          end |-> Max(RowsOf(job[s].path)) + 1]}
    BY OnlyRegisterAdds
  <2>2. f.end = job[s].end /\ through + 1 <= job[s].start
    BY <2>1, RegisterIsWhole
  <2>3. Bounded(job[s])
    <3>1. job[s] \in Ranged
      BY <2>1 DEF Ranged, Jobs, RangedAt, NamedAt, OwnedAt, NamingAt, WrittenAt
    <3>2. QED
      BY <3>1 DEF SealInv, Core, Aligned
  <2>4. through \in Nat
    BY DEF SealInv, Core, Shapes
  <2>5. QED
    BY <2>2, <2>3, <2>4 DEF Bounded
<1>2. QED
  BY <1>1, InvariantHolds, PTL DEF Spec, NeverReAdds

\* Maintenance.drain looks, lets go of the database, and unlinks later, with no
\* claim: no register between the two ever names a file it decided to unlink.
THEOREM DrainStaysRight ==
    ASSUME BoundedStall
    PROVE  Spec => DoomedStaysOut
<1>1. SealInv /\ [Next]_vars => [\A p \in doomed : ~Named(p) => ~Named(p)']_vars
  <2> SUFFICES ASSUME SealInv, [Next]_vars, NEW p \in doomed, ~Named(p) PROVE ~Named(p)'
    OBVIOUS
  <2>1. CASE table' \subseteq table
    BY <2>1 DEF Named
  <2>2. ASSUME NEW s \in Sealers, pc[s] = "register",
               table' = table \cup {[path |-> job[s].path,
                                     start |-> Min(RowsOf(job[s].path)),
                                     end |-> Max(RowsOf(job[s].path)) + 1]}
        PROVE  ~Named(p)'
    <3>1. job[s].path \notin doomed
      <4>1. pc[s] \in OwnedAt /\ Fits(pc[s], job[s])
        BY <2>2 DEF SealInv, Core, OwnedAt, WrittenAt
      <4>2. QED
        BY <4>1 DEF Fits
    <3>2. QED
      BY <2>2, <3>1 DEF Named
  <2>3. QED
    BY <2>1, <2>2, OnlyRegisterAdds
<1>2. QED
  BY <1>1, InvariantHolds, PTL DEF Spec, DoomedStaysOut
=============================================================================
