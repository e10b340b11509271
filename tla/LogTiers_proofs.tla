-------------------------- MODULE LogTiers_proofs ---------------------------
(***************************************************************************)
(* A log of three tiers under every routine, truncate and retire, and what *)
(* is left of it once it is retired.                                       *)
(*                                                                         *)
(* The first part is about files: a table's files tile a range, and the    *)
(* staging and published tables are in line (Lined): no hole in either,    *)
(* each published file inside a staged one or apart from all, and what is  *)
(* staged below the published end also published.  Seal, merge, push and   *)
(* the two ways to drop files keep them so.                                *)
(*                                                                         *)
(* The second part is the log's invariant: the tiers in line, the tier row *)
(* not hiding a published file (Rowed), what is missing asked for          *)
(* (History), and how far a truncate and a retire have come.  From it each *)
(* row is read as often as it is shown, and a step shows one more row or   *)
(* none below a boundary.                                                  *)
(*                                                                         *)
(* The third part is the prefix of a retired log, however often a cut or a *)
(* delete of it dies and is called again.  A cut keeps three sets in step: *)
(* the files of the current snapshot, the files that only superseded       *)
(* snapshots name, and the files on disk; a delete keeps, until the last   *)
(* object, enough of the metadata to be told apart from any other prefix.  *)
(*                                                                         *)
(* The fourth and fifth parts are the log restored after its machine is    *)
(* lost: it issues no offset twice, and it serves whatever was left, from  *)
(* the moment the restore returns, in files no publish can stumble on.     *)
(***************************************************************************)
EXTENDS Retired, Restore, WellFoundedInduction, FiniteSetTheorems, TLAPS

\* A non-empty set of naturals has a least element, and Min picks it.
LEMMA MinOfNaturals ==
    ASSUME NEW S, S \subseteq Nat, S # {}
    PROVE  Min(S) \in S /\ \A y \in S : Min(S) <= y
<1>1. IsWellFoundedOn({p \in Nat \X Nat : p[1] < p[2]}, Nat)
  BY NatLessThanWellFounded, Zenon DEF OpToRel
<1>2. PICK x \in S : \A y \in S : ~(<<y, x>> \in {p \in Nat \X Nat : p[1] < p[2]})
  BY <1>1, WFMin
<1>3. \A y \in S : x <= y
  <2> SUFFICES ASSUME NEW y \in S PROVE x <= y
    OBVIOUS
  <2>1. y \in Nat /\ x \in Nat
    OBVIOUS
  <2>2. ~(y < x)
    BY <1>2, <2>1
  <2> QED
    BY <2>1, <2>2
<1>4. QED
  BY <1>3 DEF Min

\* A non-empty bounded one has a greatest, and Max picks it.
LEMMA MaxOfNaturals ==
    ASSUME NEW S, NEW n \in Nat, S \subseteq 0..n, S # {}
    PROVE  Max(S) \in S /\ \A y \in S : y <= Max(S)
<1>1. PICK T : T = {n - x : x \in S}
  OBVIOUS
<1>2. T \subseteq Nat
  <2> SUFFICES ASSUME NEW x \in S PROVE n - x \in Nat
    BY <1>1
  <2>1. x \in 0..n
    OBVIOUS
  <2> QED
    BY <2>1
<1>a. T # {}
  BY <1>1
<1>3. PICK t \in T : \A u \in T : t <= u
  BY <1>2, <1>a, MinOfNaturals
<1>4. PICK m \in S : t = n - m
  BY <1>1, <1>3
<1>5. \A y \in S : m >= y
  BY <1>1, <1>3, <1>4
<1>6. QED
  BY <1>5 DEF Max

-----------------------------------------------------------------------------

\* A row lies in some file; files that do not meet; a file inside another.
Holds(files, o) == \E f \in files : o \in Span(f)
Apart(f, g) == f.end <= g.start \/ g.end <= f.start
Inside(f, g) == g.start <= f.start /\ f.end <= g.end

\* A file with all the rows of its range.
Whole(f) ==
    /\ f.start \in Nat /\ f.end \in Nat /\ 1 <= f.start /\ f.start < f.end
    /\ f.rows = Span(f)

\* The files of a table: whole, apart, and without a hole up to `end`.
Tiles(files, end) ==
    /\ \A f \in files : Whole(f) /\ f.end <= end
    /\ \A f, g \in files : f = g \/ Apart(f, g)
    /\ \A f \in files : \A o \in f.start .. end - 1 : Holds(files, o)

\* Files dropped up to an offset leave the rest without a hole.
LEMMA TilesDrop ==
    ASSUME NEW S, NEW e \in Nat, Tiles(S, e), NEW l \in Nat, NEW T, T = {f \in S : f.end > l}
    PROVE  /\ Tiles(T, e)
           /\ \A o \in Nat : l <= o /\ Holds(S, o) => Holds(T, o)
           /\ \A o \in Nat : Holds(T, o) => Holds(S, o)
<1>1. \A f \in T : Whole(f) /\ f.end <= e
  BY DEF Tiles
<1>2. \A f, g \in T : f = g \/ Apart(f, g)
  BY DEF Tiles
<1>3. ASSUME NEW f \in T, NEW o \in f.start .. e - 1 PROVE Holds(T, o)
  <2>1. PICK g \in S : o \in Span(g)
    BY DEF Tiles, Holds
  <2>2. /\ f = g \/ Apart(f, g)
        /\ f.start \in Nat /\ f.end \in Nat /\ g.start \in Nat /\ g.end \in Nat
        /\ f.end > l /\ f.start < f.end
    BY DEF Tiles, Whole
  <2>3. g.end > l
    BY <2>1, <2>2 DEF Span, Apart
  <2> QED
    BY <2>1, <2>3 DEF Holds
<1>4. ASSUME NEW o \in Nat, l <= o, Holds(S, o) PROVE Holds(T, o)
  <2>1. PICK g \in S : o \in Span(g)
    BY <1>4 DEF Holds
  <2>2. g.start \in Nat /\ g.end \in Nat
    BY DEF Tiles, Whole
  <2>3. g.end > l
    BY <1>4, <2>1, <2>2 DEF Span
  <2> QED
    BY <2>1, <2>3 DEF Holds
<1>5. \A o \in Nat : Holds(T, o) => Holds(S, o)
  BY DEF Holds
<1>6. Tiles(T, e)
  BY <1>1, <1>2, <1>3 DEF Tiles
<1> QED
  BY <1>4, <1>5, <1>6

\* A row is in no file, or in one.
LEMMA TimesIs ==
    ASSUME NEW S, NEW e \in Nat, Tiles(S, e), NEW o \in Nat
    PROVE  Times(S, o) = One(Holds(S, o))
<1>1. PICK F : F = {f \in S : o \in f.rows}
  OBVIOUS
<1>2. F = {f \in S : o \in Span(f)}
  BY <1>1 DEF Tiles, Whole
<1>3. CASE Holds(S, o)
  <2>1. PICK f \in S : o \in Span(f)
    BY <1>3 DEF Holds
  <2>2. ASSUME NEW g \in F PROVE g = f
    <3>1. g \in S /\ o \in Span(g)
      BY <1>2
    <3>2. /\ f = g \/ Apart(f, g)
          /\ f.start \in Nat /\ f.end \in Nat /\ g.start \in Nat /\ g.end \in Nat
      BY <3>1 DEF Tiles, Whole
    <3> QED
      BY <2>1, <3>1, <3>2 DEF Apart, Span
  <2>3. F = {f}
    BY <1>2, <2>1, <2>2
  <2>4. Cardinality(F) = 1
    BY <2>3, FS_Singleton
  <2> QED
    BY <1>1, <1>3, <2>4 DEF Times, One
<1>4. CASE ~Holds(S, o)
  <2>1. F = {}
    BY <1>2, <1>4 DEF Holds
  <2>2. Cardinality(F) = 0
    BY <2>1, FS_EmptySet
  <2> QED
    BY <1>1, <1>4, <2>2 DEF Times, One
<1> QED
  BY <1>3, <1>4

\* Where files reach: an end of one of them, above no other.
LEMMA ReachFacts ==
    ASSUME NEW S, NEW e \in Nat, \A f \in S : f.end \in Nat /\ f.end <= e,
           NEW r, r = ReachOf(S)
    PROVE  /\ r \in Nat /\ r <= e
           /\ \A f \in S : f.end <= r
           /\ r # 0 => \E f \in S : f.end = r
<1>1. PICK R : R = {0} \cup {f.end : f \in S}
  OBVIOUS
<1>2. R \subseteq 0..e /\ R # {}
  BY <1>1
<1>3. r \in R /\ \A y \in R : y <= r
  BY <1>1, <1>2, MaxOfNaturals DEF ReachOf
<1> QED
  BY <1>1, <1>2, <1>3

\* The files of a table that has any reach up to where it ends.
LEMMA TilesReach ==
    ASSUME NEW S, NEW e \in Nat, Tiles(S, e), NEW f \in S
    PROVE  ReachOf(S) = e
<1>1. \A g \in S : g.end \in Nat /\ g.end <= e /\ g.start \in Nat /\ g.start < g.end /\ 1 <= g.start
  BY DEF Tiles, Whole
<1>2. PICK r : r = ReachOf(S)
  OBVIOUS
<1>3. r \in Nat /\ r <= e /\ \A g \in S : g.end <= r
  BY <1>1, <1>2, ReachFacts
<1>4. PICK x \in Nat : x = e - 1 /\ x >= f.start
  BY <1>1
<1>5. Holds(S, x)
  BY <1>1, <1>4 DEF Tiles
<1>6. PICK g \in S : x \in Span(g)
  BY <1>5 DEF Holds
<1>7. g.end <= r /\ x <= g.end - 1
  BY <1>3, <1>6 DEF Span
<1> QED
  BY <1>1, <1>2, <1>3, <1>4, <1>7

\* The first of some files.
LEMMA FirstIs ==
    ASSUME NEW S, S # {}, \A f \in S : f.start \in Nat
    PROVE  First(S) \in S /\ \A g \in S : First(S).start <= g.start
<1>1. PICK T : T = {f.start : f \in S}
  OBVIOUS
<1>2. T \subseteq Nat /\ T # {}
  BY <1>1
<1>3. PICK m \in T : \A y \in T : m <= y
  BY <1>2, MinOfNaturals
<1>4. PICK f \in S : m = f.start
  BY <1>1, <1>3
<1>5. \A g \in S : f.start <= g.start
  BY <1>1, <1>3, <1>4
<1> QED
  BY <1>5 DEF First

\* Settled files are a prefix.
LEMMA SettledPrefix ==
    ASSUME NEW S, \A f \in S : f.start \in Nat, NEW f \in Settled(S), NEW g \in S,
           g.start <= f.start
    PROVE  g \in Settled(S)
BY DEF Settled

\* What may be merged is a run of neighbours.
Convex(run, S) ==
    \A g, h \in run, k \in S : g.start <= k.start /\ k.start <= h.start => k \in run

\* The lesser and the greater of two naturals.
LEMMA TwoBetween ==
    ASSUME NEW a \in Nat, NEW b \in Nat
    PROVE  /\ Min({a, b}) = IF a <= b THEN a ELSE b
           /\ Max({a, b}) = IF a <= b THEN b ELSE a
<1>1. Min({a, b}) \in {a, b} /\ \A y \in {a, b} : Min({a, b}) <= y
  BY MinOfNaturals
<1>2. PICK n \in Nat : n >= a /\ n >= b
  OBVIOUS
<1>3. {a, b} \subseteq 0..n
  BY <1>2
<1>4. Max({a, b}) \in {a, b} /\ \A y \in {a, b} : y <= Max({a, b})
  BY <1>3, MaxOfNaturals
<1> QED
  BY <1>1, <1>4

\* A stretch of the policy leaves out no file between two of its own.
LEMMA StretchConvex ==
    ASSUME NEW S, \A f \in S : f.start \in Nat, NEW f \in S, ~Full(f)
    PROVE  Convex(Stretch(S, f), S)
<1> SUFFICES ASSUME NEW g \in Stretch(S, f), NEW h \in Stretch(S, f), NEW k \in S,
                    g.start <= k.start, k.start <= h.start
             PROVE  k \in Stretch(S, f)
  BY DEF Convex
<1>1. g \in S /\ h \in S
  BY DEF Stretch
<1>2. f.start \in Nat /\ g.start \in Nat /\ h.start \in Nat /\ k.start \in Nat
  BY <1>1
<1> SUFFICES ASSUME NEW x \in S, Full(x), Between(f, x, k) \/ Between(k, x, f)
             PROVE  FALSE
  BY DEF Stretch
<1>3. x.start \in Nat
  OBVIOUS
<1>4. ~Between(f, x, g) /\ ~Between(g, x, f) /\ ~Between(f, x, h) /\ ~Between(h, x, f)
  BY DEF Stretch
<1> QED
  BY <1>2, <1>3, <1>4 DEF Between

\* Nor does a run that compact may merge, once what is settled is set aside.
LEMMA RunsConvex ==
    ASSUME NEW S, \A f \in S : f.start \in Nat /\ f.end \in Nat /\ f.start < f.end,
           \A f, g \in S : f = g \/ Apart(f, g),
           NEW T, T = S \ Settled(S), NEW n \in Nat, NEW flush \in BOOLEAN, NEW run \in Runs(T, n, flush)
    PROVE  run \subseteq S /\ run # {} /\ Convex(run, S)
<1>1. PICK f \in T : LET s == Stretch(T, f)
                         before == {g \in s : g.end <= n}
                         after == {g \in s : g.start >= n}
                     IN  run \in IF ~Open(T, f)
                                 THEN {r \in {s} : Cardinality(r) >= MinFiles}
                                 ELSE IF First(s).start >= n
                                 THEN {r \in {s} : Grows(r, flush)}
                                 ELSE {r \in {before} : Grows(r, flush)}
                                        \cup {r \in {after} : Cardinality(r) >= 2 /\ TotalSize(r) >= CompactSize}
  BY DEF Runs
<1>2. PICK s : s = Stretch(T, f)
  OBVIOUS
<1>3. /\ Cardinality(run) >= MinFiles \/ Cardinality(run) >= 2
      /\ run \in {s, {g \in s : g.end <= n}, {g \in s : g.start >= n}}
  BY <1>1, <1>2 DEF Grows
<1>4. run # {}
  <2>1. Cardinality({}) = 0
    BY FS_EmptySet
  <2> QED
    BY <1>3, <2>1, PolicyAssumption
<1>5. s \subseteq T
  BY <1>2 DEF Stretch
<1>6. T \subseteq S /\ \A x \in T : x.start \in Nat /\ x.end \in Nat /\ x.start < x.end
  OBVIOUS
<1>7. Convex(s, T)
  <2>1. CASE Full(f)
    <3>1. s = {f}
      BY <1>2, <2>1 DEF Stretch
    <3>2. ASSUME NEW k \in T, f.start <= k.start, k.start <= f.start PROVE k = f
      BY <1>6, <3>2 DEF Apart
    <3> QED
      BY <3>1, <3>2 DEF Convex
  <2>2. CASE ~Full(f)
    BY <1>2, <1>6, <2>2, StretchConvex
  <2> QED
    BY <2>1, <2>2
<1>8. Convex(run, T)
  <2> SUFFICES ASSUME NEW g \in run, NEW h \in run, NEW k \in T, g.start <= k.start, k.start <= h.start
               PROVE  k \in run
    BY DEF Convex
  <2>1. g \in s /\ h \in s /\ g \in T /\ h \in T
    BY <1>3, <1>5
  <2>2. k \in s
    BY <1>7, <2>1 DEF Convex
  <2>3. /\ g.start \in Nat /\ h.start \in Nat /\ k.start \in Nat /\ k.end \in Nat /\ h.end \in Nat
        /\ k.start < k.end /\ h.start < h.end
    BY <1>6, <2>1
  <2>4. k = h \/ k.end <= h.start \/ h.end <= k.start
    BY <1>6, <2>1 DEF Apart
  <2>5. CASE run = s
    BY <2>2, <2>5
  <2>6. CASE run = {x \in s : x.end <= n}
    <3>1. h.end <= n
      BY <2>6
    <3>2. k.end <= n
      BY <2>3, <2>4, <3>1
    <3> QED
      BY <2>2, <2>6, <3>2
  <2>7. CASE run = {x \in s : x.start >= n}
    <3>1. g.start >= n
      BY <2>7
    <3> QED
      BY <2>2, <2>3, <2>7, <3>1
  <2> QED
    BY <1>3, <2>5, <2>6, <2>7
<1>9. run \subseteq T
  BY <1>3, <1>5
<1>10. Convex(run, S)
  <2> SUFFICES ASSUME NEW g \in run, NEW h \in run, NEW k \in S, g.start <= k.start, k.start <= h.start
               PROVE  k \in run
    BY DEF Convex
  <2>1. g \in S /\ g \notin Settled(S)
    BY <1>9
  <2>2. k \notin Settled(S)
    BY <2>1, SettledPrefix
  <2> QED
    BY <1>8, <2>2 DEF Convex
<1> QED
  BY <1>4, <1>6, <1>9, <1>10

\* Neighbours become one file with the rows of all.
Joined(run) == UNION {f.rows : f \in run}
\* Published files lie inside staged ones, or apart from them.
Aligned(P, S) ==
    /\ \A p \in P : p.start \in Nat /\ p.end \in Nat /\ p.start < p.end
    /\ \A p \in P, f \in S : Apart(p, f) \/ Inside(p, f)

\* A run of neighbours merged into one file: the same rows, still no hole, and
\* no published file that reaches across the new one.
LEMMA MergeTiles ==
    ASSUME NEW S, NEW e \in Nat, Tiles(S, e), NEW run, run \subseteq S, run # {}, Convex(run, S),
           NEW out, out = FileOf(Joined(run)),
           NEW T, T = (S \ run) \cup {out},
           NEW P, Aligned(P, S)
    PROVE  /\ Tiles(T, e)
           /\ \A o \in Nat : Holds(T, o) <=> Holds(S, o)
           /\ \A f \in run : Inside(f, out)
           /\ \A p \in P : Apart(p, out) \/ Inside(p, out)
<1>1. PICK R : R = Joined(run) /\ R = UNION {f.rows : f \in run}
  BY DEF Joined
<1>2. \A f \in S : /\ f.start \in Nat /\ f.end \in Nat /\ 1 <= f.start /\ f.start < f.end /\ f.end <= e
                   /\ f.rows = f.start .. f.end - 1
  BY DEF Tiles, Whole, Span
<1>3. R \subseteq Nat /\ R \subseteq 0..e
  BY <1>1, <1>2
<1>4. R # {}
  <2>1. PICK f \in run : TRUE
    OBVIOUS
  <2>2. f.start \in f.rows
    BY <1>2
  <2> QED
    BY <1>1, <2>2
<1>5. PICK lo \in R : lo = Min(R) /\ \A y \in R : lo <= y
  BY <1>3, <1>4, MinOfNaturals
<1>6. PICK hi \in R : hi = Max(R) /\ \A y \in R : y <= hi
  BY <1>3, <1>4, MaxOfNaturals
<1>7. /\ lo \in Nat /\ hi \in Nat /\ lo <= hi
      /\ out = [start |-> lo, end |-> hi + 1, rows |-> R]
  BY <1>1, <1>3, <1>5, <1>6 DEF FileOf
<1>8. out.start = lo /\ out.end = hi + 1 /\ out.rows = R
  BY <1>7
<1>9. PICK a \in run, b \in run : lo \in a.rows /\ hi \in b.rows
  BY <1>1
<1>10. ASSUME NEW k \in S, NEW o \in Nat, lo <= o, o <= hi, o \in Span(k) PROVE k \in run
  <2>1. /\ a \in S /\ b \in S
        /\ a = k \/ Apart(a, k)
        /\ b = k \/ Apart(b, k)
    BY DEF Tiles
  <2>2. /\ a.start <= lo /\ lo < a.end /\ b.start <= hi /\ hi < b.end
        /\ k.start <= o /\ o < k.end
    <3>1. a.rows = a.start .. a.end - 1 /\ b.rows = b.start .. b.end - 1
      BY <1>2, <2>1
    <3>2. /\ a.start \in Nat /\ a.end \in Nat /\ b.start \in Nat /\ b.end \in Nat
          /\ k.start \in Nat /\ k.end \in Nat
      BY <1>2, <2>1
    <3>3. lo \in a.start .. a.end - 1 /\ hi \in b.start .. b.end - 1
      BY <1>9, <3>1
    <3>4. o \in k.start .. k.end - 1
      BY <1>10 DEF Span
    <3> QED
      BY <3>2, <3>3, <3>4
  <2>3. /\ a.start \in Nat /\ a.end \in Nat /\ b.start \in Nat /\ b.end \in Nat
        /\ k.start \in Nat /\ k.end \in Nat
    BY <1>2, <2>1
  <2>4. a.start <= k.start
    BY <1>7, <1>10, <2>1, <2>2, <2>3 DEF Apart
  <2>5. k.start <= b.start
    BY <1>7, <1>10, <2>1, <2>2, <2>3 DEF Apart
  <2> QED
    BY <2>4, <2>5 DEF Convex
<1>11. ASSUME NEW o \in Nat, lo <= o, o <= hi PROVE o \in R
  <2>0. /\ a \in S /\ b \in S /\ a.start \in Nat /\ b.end \in Nat
        /\ lo \in a.start .. a.end - 1 /\ hi \in b.start .. b.end - 1
    BY <1>2, <1>9
  <2>1. /\ a \in S /\ a.start <= lo /\ b \in S /\ hi < b.end
    BY <1>7, <2>0
  <2>2. o \in a.start .. e - 1
    BY <1>2, <1>7, <1>11, <2>1
  <2>3. PICK k \in S : o \in Span(k)
    BY <2>1, <2>2 DEF Tiles, Holds
  <2>4. k \in run
    BY <1>10, <1>11, <2>3
  <2> QED
    BY <1>1, <1>2, <2>3, <2>4 DEF Span
<1>12. R = lo .. hi
  <2>1. \A o \in R : o \in lo .. hi
    BY <1>3, <1>5, <1>6, <1>7
  <2>2. \A o \in lo .. hi : o \in Nat /\ lo <= o /\ o <= hi
    BY <1>7
  <2> QED
    BY <1>11, <2>1, <2>2
<1>13. Whole(out) /\ out.end <= e
  <2>1. hi + 1 <= e
    BY <1>2, <1>7, <1>9
  <2>2. 1 <= lo
    BY <1>2, <1>7, <1>9
  <2>3. Span(out) = lo .. hi
    BY <1>7, <1>8 DEF Span
  <2> QED
    BY <1>7, <1>8, <1>12, <2>1, <2>2, <2>3 DEF Whole
<1>14. ASSUME NEW f \in run PROVE Inside(f, out)
  <2>1. f.start \in R /\ f.end - 1 \in R
    <3>1. f.start \in f.rows /\ f.end - 1 \in f.rows
      BY <1>2
    <3> QED
      BY <1>1, <3>1
  <2>2. lo <= f.start /\ f.end - 1 <= hi
    BY <1>5, <1>6, <2>1
  <2> QED
    BY <1>2, <1>7, <1>8, <2>2 DEF Inside
<1>15. ASSUME NEW g \in S \ run PROVE Apart(g, out)
  <2>1. CASE g.end <= lo \/ hi < g.start
    BY <1>2, <1>7, <1>8, <2>1 DEF Apart
  <2>2. CASE lo < g.end /\ g.start <= hi
    <3>1. PICK o \in Nat : lo <= o /\ o <= hi /\ o \in Span(g)
      <4>1. CASE g.start <= lo
        BY <1>2, <1>7, <2>2, <4>1 DEF Span
      <4>2. CASE lo < g.start
        BY <1>2, <1>7, <2>2, <4>2 DEF Span
      <4> QED
        BY <1>2, <1>7, <4>1, <4>2
    <3> QED
      BY <1>10, <3>1
  <2> QED
    BY <1>2, <1>7, <2>1, <2>2
<1>16. ASSUME NEW o \in Nat PROVE Holds(T, o) <=> Holds(S, o)
  <2>1. ASSUME NEW f \in T, o \in Span(f) PROVE Holds(S, o)
    <3>1. CASE f \in S
      BY <2>1, <3>1 DEF Holds
    <3>2. CASE f = out
      <4>1. o \in R
        BY <1>13, <1>8, <2>1, <3>2 DEF Whole
      <4>2. PICK g \in run : o \in g.rows
        BY <1>1, <4>1
      <4> QED
        BY <1>2, <4>2 DEF Holds, Span
    <3> QED
      BY <3>1, <3>2
  <2>2. ASSUME NEW f \in S, o \in Span(f) PROVE Holds(T, o)
    <3>1. CASE f \in run
      <4>1. o \in Span(out)
        BY <1>2, <1>7, <1>8, <1>14, <2>2, <3>1 DEF Span, Inside
      <4> QED
        BY <4>1 DEF Holds
    <3>2. CASE f \notin run
      BY <2>2, <3>2 DEF Holds
    <3> QED
      BY <3>1, <3>2
  <2> QED
    BY <2>1, <2>2 DEF Holds
<1>17. Tiles(T, e)
  <2>1. \A f \in T : Whole(f) /\ f.end <= e
    BY <1>13 DEF Tiles
  <2>2. \A f, g \in T : f = g \/ Apart(f, g)
    BY <1>15 DEF Tiles, Apart
  <2>3. ASSUME NEW f \in T, NEW o \in f.start .. e - 1 PROVE Holds(T, o)
    <3>1. PICK g \in S : g.start <= f.start
      <4>1. CASE f \in S
        BY <1>2, <4>1
      <4>2. CASE f = out
        BY <1>2, <1>7, <1>8, <1>9, <4>2
      <4> QED
        BY <4>1, <4>2
    <3>2. f.start \in Nat
      BY <2>1 DEF Whole
    <3>3. o \in Nat /\ o \in g.start .. e - 1
      BY <1>2, <3>1, <3>2
    <3>4. Holds(S, o)
      BY <3>3 DEF Tiles
    <3> QED
      BY <1>16, <3>3, <3>4
  <2> QED
    BY <2>1, <2>2, <2>3 DEF Tiles
<1>18. ASSUME NEW p \in P PROVE Apart(p, out) \/ Inside(p, out)
  <2>0. /\ p.start \in Nat /\ p.end \in Nat /\ p.start < p.end
        /\ \A f \in S : Apart(p, f) \/ Inside(p, f)
    BY DEF Aligned
  <2>1. CASE p.end <= lo \/ hi < p.start
    BY <1>7, <1>8, <2>0, <2>1 DEF Apart
  <2>2. CASE lo < p.end /\ p.start <= hi
    <3>1. PICK o \in Nat : lo <= o /\ o <= hi /\ p.start <= o /\ o < p.end
      <4>1. CASE p.start <= lo
        BY <1>7, <2>2, <4>1
      <4>2. CASE lo < p.start
        BY <1>7, <2>0, <2>2, <4>2
      <4> QED
        BY <1>7, <2>0, <4>1, <4>2
    <3>2. PICK f \in run : o \in f.rows
      BY <1>1, <1>11, <3>1
    <3>3. f \in S /\ f.start <= o /\ o < f.end
      BY <1>2, <3>2
    <3>4. ~Apart(p, f)
      BY <1>2, <2>0, <3>1, <3>3 DEF Apart
    <3>5. Inside(p, f)
      BY <2>0, <3>3, <3>4
    <3> QED
      BY <1>2, <1>7, <1>8, <1>14, <2>0, <3>2, <3>3, <3>5 DEF Inside
  <2> QED
    BY <1>7, <2>0, <2>1, <2>2
<1> QED
  BY <1>14, <1>16, <1>17, <1>18

\* What is pushed leaves no hole, shows no row that the table had not, and
\* keeps the tables in line.  W are the merged files swapped in, K the table
\* with them, U the files that go up.
Meets(p, f) == Span(p) \cap Span(f) # {}

\* A published file that meets a staged one lies inside it.
LEMMA MeetsIs ==
    ASSUME NEW p, NEW f, p.start \in Nat, p.end \in Nat, p.start < p.end,
           f.start \in Nat, f.end \in Nat, f.start < f.end
    PROVE  Meets(p, f) <=> ~Apart(p, f)
<1>1. ASSUME Meets(p, f) PROVE ~Apart(p, f)
  <2>1. PICK o : o \in Span(p) /\ o \in Span(f)
    BY <1>1 DEF Meets
  <2> QED
    BY <2>1 DEF Apart, Span
<1>2. ASSUME ~Apart(p, f) PROVE Meets(p, f)
  <2>1. CASE p.start <= f.start
    <3>1. f.start \in Span(p) /\ f.start \in Span(f)
      BY <1>2, <2>1 DEF Span, Apart
    <3> QED
      BY <3>1 DEF Meets
  <2>2. CASE f.start <= p.start
    <3>1. p.start \in Span(p) /\ p.start \in Span(f)
      BY <1>2, <2>2 DEF Span, Apart
    <3> QED
      BY <3>1 DEF Meets
  <2> QED
    BY <2>1, <2>2
<1> QED
  BY <1>1, <1>2

\* Staging and published files, as a push finds them.
Lined(S, c, P, t) ==
    /\ t + 1 <= c
    /\ Tiles(S, c) /\ \A o \in t + 1 .. c - 1 : Holds(S, o)
    /\ Tiles(P, t + 1)
    /\ \A p \in P, f \in S : Apart(p, f) \/ Inside(p, f)
    /\ \A o \in 1..t : Holds(S, o) => Holds(P, o)

\* The published files with those that meet a merged file replaced by it.
Swap(P, W) == {p \in P : ~ \E f \in W : Meets(p, f)} \cup W

\* The ranges of files that are in line.
LEMMA LinedTypes ==
    ASSUME NEW S, NEW c \in Nat, NEW P, NEW t \in Nat, Lined(S, c, P, t)
    PROVE  /\ \A f \in S \cup P : /\ f.start \in Nat /\ f.end \in Nat /\ 1 <= f.start
                                  /\ f.start < f.end /\ f.end <= c
           /\ \A p \in P : p.end <= t + 1
<1>1. \A f \in S : /\ f.start \in Nat /\ f.end \in Nat /\ 1 <= f.start
                   /\ f.start < f.end /\ f.end <= c
  BY DEF Lined, Tiles, Whole
<1>2. \A f \in P : /\ f.start \in Nat /\ f.end \in Nat /\ 1 <= f.start
                   /\ f.start < f.end /\ f.end <= t + 1
  BY DEF Lined, Tiles, Whole
<1>3. t + 1 <= c
  BY DEF Lined
<1> QED
  BY <1>1, <1>2, <1>3

\* A swap takes no row away.
LEMMA SwapHolds ==
    ASSUME NEW S, NEW c \in Nat, NEW P, NEW t \in Nat, Lined(S, c, P, t),
           NEW W, W \subseteq S, NEW o \in Nat, Holds(P, o)
    PROVE  Holds(Swap(P, W), o)
<1>1. PICK p \in P : o \in Span(p)
  BY DEF Holds
<1>2. CASE \E f \in W : Meets(p, f)
  <2>1. PICK f \in W : Meets(p, f)
    BY <1>2
  <2>2. /\ f.start \in Nat /\ f.end \in Nat /\ f.start < f.end
        /\ p.start \in Nat /\ p.end \in Nat /\ p.start < p.end
    BY LinedTypes
  <2>3. Inside(p, f)
    BY <2>1, <2>2, MeetsIs DEF Lined
  <2>4. o \in Span(f)
    BY <1>1, <2>2, <2>3 DEF Span, Inside
  <2> QED
    BY <2>4 DEF Holds, Swap
<1>3. CASE ~ \E f \in W : Meets(p, f)
  BY <1>1, <1>3 DEF Holds, Swap
<1> QED
  BY <1>2, <1>3

\* Only what meets a published file is swapped in; all that lies before a file
\* that goes up goes up too, or is swapped in if it is partly published.
InOrder(S, P, t, W, r, U) ==
    /\ W \subseteq S /\ \A f \in W : \E p \in P : Meets(p, f)
    /\ U \subseteq S /\ \A f \in U : f.start >= r
    /\ \A f \in U, g \in S : r <= g.start /\ g.start <= f.start => g \in U
    /\ U # {} => \A g \in S : g.start <= t /\ t + 1 < g.end => g \in W

\* What published_through becomes.
Reached(t, Q) == Max({t, ReachOf(Q) - 1})

\* A push leaves the tables in line, further up; what it adds is all there is
\* to add, and below nothing comes or goes.
LEMMA PushTiles ==
    ASSUME NEW S, NEW c \in Nat, NEW P, NEW t \in Nat, Lined(S, c, P, t),
           NEW W, NEW K, K = Swap(P, W), NEW r, r = ReachOf(K),
           NEW U, InOrder(S, P, t, W, r, U),
           NEW Q, Q = K \cup U, NEW n, n = Reached(t, Q)
    PROVE  /\ n \in Nat /\ t <= n /\ Lined(S, c, Q, n)
           /\ \A o \in t + 1 .. n : Holds(Q, o)
           /\ \A o \in 1..t : Holds(Q, o) <=> Holds(P, o)
<1> USE DEF InOrder, Reached
<1>1. \A f \in S : /\ f.start \in Nat /\ f.end \in Nat /\ 1 <= f.start
                   /\ f.start < f.end /\ f.end <= c
  BY LinedTypes
<1>2. \A p \in P : /\ p.start \in Nat /\ p.end \in Nat /\ 1 <= p.start
                   /\ p.start < p.end /\ p.end <= c /\ p.end <= t + 1
  BY LinedTypes
<1>3. K \subseteq P \cup S /\ Q \subseteq P \cup S
  BY DEF Swap
<1>4. \A f \in Q : f.start \in Nat /\ f.end \in Nat /\ 1 <= f.start /\ f.start < f.end /\ f.end <= c
  BY <1>1, <1>2, <1>3
<1>5. /\ r \in Nat /\ \A f \in K : f.end <= r
      /\ r # 0 => \E f \in K : f.end = r
  BY <1>4, ReachFacts
<1>6. PICK q : q = ReachOf(Q)
  OBVIOUS
<1>7. /\ q \in Nat /\ q <= c /\ \A f \in Q : f.end <= q
      /\ q # 0 => \E f \in Q : f.end = q
  BY <1>4, <1>6, ReachFacts
<1>8. n \in Nat /\ t <= n /\ q <= n + 1 /\ n + 1 <= c /\ (n = t \/ q = n + 1)
  <2>1. CASE q = 0
    <3>1. {t, q - 1} = {t, -1}
      BY <2>1
    <3>2. n = t
      <4>1. \A y \in {t, -1} : y <= t
        OBVIOUS
      <4>2. n \in {t, -1} /\ \A y \in {t, -1} : y <= n
        BY <1>6, <3>1, <4>1 DEF Max
      <4> QED
        BY <4>2
    <3> QED
      BY <2>1, <3>2 DEF Lined
  <2>2. CASE q # 0
    <3>1. PICK m \in Nat : m = q - 1
      BY <1>7, <2>2
    <3>2. n = IF t <= m THEN m ELSE t
      BY <1>6, <3>1, TwoBetween
    <3> QED
      BY <1>7, <3>1, <3>2 DEF Lined
  <2> QED
    BY <2>1, <2>2
<1>9. ASSUME NEW o \in t + 1 .. n PROVE Holds(Q, o)
  <2>1. q = n + 1 /\ q # 0 /\ o \in Nat /\ t < o /\ o < q /\ o < c
    BY <1>8
  <2>2. PICK z \in Q : z.end = q
    BY <1>7, <2>1
  <2>3. z \in S /\ z \notin P
    BY <1>2, <1>3, <2>1, <2>2
  <2>4. CASE z \in W
    <3>1. PICK p \in P : Meets(p, z)
      BY <2>4
    <3>2. ~Apart(p, z)
      BY <1>1, <1>2, <2>3, <3>1, MeetsIs
    <3>3. z.start <= t
      BY <1>1, <1>2, <2>3, <3>2 DEF Apart
    <3>4. o \in Span(z)
      BY <1>1, <2>1, <2>2, <2>3, <3>3 DEF Span
    <3> QED
      BY <3>4 DEF Holds
  <2>5. CASE z \notin W
    <3>1. z \in U
      BY <2>3, <2>5 DEF Swap
    <3>2. PICK k \in S : o \in Span(k)
      BY <2>1 DEF Lined, Holds
    <3>3. k.start <= o /\ o < k.end
      BY <1>1, <3>2 DEF Span
    <3>4. k.start <= z.start
      <4>1. k = z \/ Apart(k, z)
        BY <2>3 DEF Lined, Tiles
      <4> QED
        BY <1>1, <2>1, <2>2, <2>3, <3>3, <4>1 DEF Apart
    <3>5. CASE r <= k.start
      BY <3>1, <3>2, <3>4, <3>5 DEF Holds
    <3>6. CASE k.start < r
      <4>1. PICK e \in K : e.end = r
        BY <1>1, <1>5, <3>6
      <4>2. CASE e \in P
        <5>1. (k.start <= t /\ t + 1 < k.end) \/ k.end = t + 1
          BY <1>1, <1>2, <2>1, <3>3, <3>6, <4>1, <4>2
        <5>2. k \in W
          BY <1>1, <2>1, <3>1, <3>3, <5>1
        <5> QED
          BY <3>2, <5>2 DEF Holds, Swap
      <4>3. CASE e \in W
        <5>1. PICK p \in P : Meets(p, e)
          BY <4>3
        <5>2. e \in S /\ ~Apart(p, e)
          BY <1>1, <1>2, <4>3, <5>1, MeetsIs
        <5>3. e.start <= t
          BY <1>1, <1>2, <5>2 DEF Apart
        <5>4. k = e \/ Apart(k, e)
          BY <5>2 DEF Lined, Tiles
        <5>5. k = e
          BY <1>1, <2>1, <3>3, <3>6, <4>1, <5>2, <5>3, <5>4 DEF Apart
        <5> QED
          BY <3>2, <4>1, <5>5 DEF Holds
      <4> QED
        BY <4>1, <4>2, <4>3 DEF Swap
    <3> QED
      BY <1>1, <1>5, <3>5, <3>6
  <2> QED
    BY <2>4, <2>5
<1>10. ASSUME NEW o \in 1..t PROVE Holds(Q, o) <=> Holds(P, o)
  <2>1. ASSUME Holds(P, o) PROVE Holds(Q, o)
    <3>1. Holds(K, o)
      BY <2>1, SwapHolds
    <3> QED
      BY <3>1 DEF Holds
  <2>2. ASSUME Holds(Q, o) PROVE Holds(P, o)
    <3>1. PICK f \in Q : o \in Span(f)
      BY <2>2 DEF Holds
    <3>2. CASE f \in P
      BY <3>1, <3>2 DEF Holds
    <3>3. CASE f \in S
      <4>1. Holds(S, o)
        BY <3>1, <3>3 DEF Holds
      <4> QED
        BY <4>1 DEF Lined
    <3> QED
      BY <1>3, <3>1, <3>2, <3>3
  <2> QED
    BY <2>1, <2>2
<1>11. ASSUME NEW f \in Q, NEW g \in Q PROVE f = g \/ Apart(f, g)
  <2>1. ASSUME NEW x \in K, NEW y \in U PROVE x = y \/ Apart(x, y)
    <3>1. x.end <= r /\ r <= y.start
      BY <1>5
    <3>2. x.end \in Nat /\ y.start \in Nat
      BY <1>4
    <3> QED
      BY <1>5, <3>1, <3>2 DEF Apart
  <2>2. ASSUME NEW x \in K, NEW y \in K PROVE x = y \/ Apart(x, y)
    <3>1. ASSUME NEW u \in P, NEW v \in W, ~Meets(u, v) PROVE Apart(u, v)
      BY <1>1, <1>2, <3>1, MeetsIs
    <3>2. CASE x \in W /\ y \in W
      BY <3>2 DEF Lined, Tiles
    <3>3. CASE x \in W /\ y \notin W
      <4>1. y \in P /\ ~Meets(y, x)
        BY <3>3 DEF Swap
      <4> QED
        BY <3>1, <3>3, <4>1 DEF Apart
    <3>4. CASE x \notin W /\ y \in W
      <4>1. x \in P /\ ~Meets(x, y)
        BY <3>4 DEF Swap
      <4> QED
        BY <3>1, <3>4, <4>1 DEF Apart
    <3>5. CASE x \notin W /\ y \notin W
      <4>1. x \in P /\ y \in P
        BY <3>5 DEF Swap
      <4> QED
        BY <4>1 DEF Lined, Tiles
    <3> QED
      BY <3>2, <3>3, <3>4, <3>5
  <2>3. CASE f \in K /\ g \in K
    BY <2>2, <2>3
  <2>4. CASE f \in K /\ g \in U
    BY <2>1, <2>4
  <2>5. CASE f \in U /\ g \in K
    BY <2>1, <2>5 DEF Apart
  <2>6. CASE f \in U /\ g \in U
    BY <2>6 DEF Lined, Tiles
  <2> QED
    BY <2>3, <2>4, <2>5, <2>6
<1>12. ASSUME NEW f \in Q, NEW o \in f.start .. n PROVE Holds(Q, o)
  <2>0. o \in Nat /\ f.start \in Nat /\ 1 <= f.start /\ f.start <= o /\ o <= n
    BY <1>4, <1>8
  <2>1. CASE t < o
    <3>1. o \in t + 1 .. n
      BY <2>0, <2>1
    <3> QED
      BY <1>9, <3>1
  <2>2. CASE o <= t
    <3>1. PICK p \in P : p.start <= f.start
      <4>1. CASE f \in P
        BY <1>2, <4>1
      <4>2. CASE f \in S
        <5>1. f.start \in Span(f) /\ f.start \in 1..t
          BY <1>1, <2>0, <2>2, <4>2 DEF Span
        <5>2. Holds(S, f.start)
          BY <4>2, <5>1 DEF Holds
        <5>3. Holds(P, f.start)
          BY <5>1, <5>2 DEF Lined
        <5> QED
          BY <1>2, <2>0, <5>3 DEF Holds, Span
      <4> QED
        BY <1>3, <4>1, <4>2
    <3>2. o \in p.start .. t + 1 - 1 /\ o \in 1..t
      BY <1>2, <2>0, <2>2, <3>1
    <3>3. Holds(P, o)
      BY <3>2 DEF Lined, Tiles
    <3> QED
      BY <1>10, <3>2, <3>3
  <2> QED
    BY <2>0, <2>1, <2>2
<1>13. Tiles(Q, n + 1)
  <2>1. PICK m \in Nat : m = n + 1
    BY <1>8
  <2>2. \A f \in Q : Whole(f)
    BY <1>3 DEF Lined, Tiles
  <2>3. \A f \in Q : f.end <= m
    BY <1>4, <1>7, <1>8, <2>1
  <2>4. \A f, g \in Q : f = g \/ Apart(f, g)
    BY <1>11
  <2>5. \A f \in Q : \A o \in f.start .. m - 1 : Holds(Q, o)
    <3>1. n = m - 1
      BY <1>8, <2>1
    <3> QED
      BY <1>12, <3>1, Zenon
  <2>6. Tiles(Q, m)
    BY <2>2, <2>3, <2>4, <2>5, Zenon DEF Tiles
  <2> QED
    BY <2>1, <2>6
<1>14. ASSUME NEW p \in Q, NEW f \in S PROVE Apart(p, f) \/ Inside(p, f)
  <2>1. CASE p \in P
    BY <2>1 DEF Lined
  <2>2. CASE p \in S
    <3>1. p = f \/ Apart(p, f)
      BY <2>2 DEF Lined, Tiles
    <3> QED
      BY <1>1, <3>1 DEF Inside
  <2> QED
    BY <1>3, <2>1, <2>2
<1>15. ASSUME NEW o \in 1..n, Holds(S, o) PROVE Holds(Q, o)
  <2>1. CASE o <= t
    <3>1. o \in 1..t
      BY <1>8, <2>1
    <3> QED
      BY <1>10, <1>15, <3>1 DEF Lined
  <2>2. CASE t < o
    <3>1. o \in t + 1 .. n
      BY <1>8, <2>2
    <3> QED
      BY <1>9, <3>1
  <2> QED
    BY <1>8, <2>1, <2>2
<1>16. \A o \in n + 1 .. c - 1 : Holds(S, o)
  <2>1. \A o \in n + 1 .. c - 1 : o \in t + 1 .. c - 1
    BY <1>8
  <2> QED
    BY <2>1 DEF Lined
<1>17. Tiles(S, c)
  BY DEF Lined
<1> QED
  BY <1>8, <1>9, <1>10, <1>13, <1>14, <1>15, <1>16, <1>17 DEF Lined

\* The row recorded for a first publish, and after a truncate, names the
\* published rows below the staging table, if there are any.
LEMMA ExactCovers ==
    ASSUME NEW S, NEW P, NEW e \in Nat,
           \A f \in S \cup P : f.start \in Nat /\ f.end \in Nat /\ f.start < f.end /\ f.end <= e,
           NEW x, x = Exact(P, S)
    PROVE  /\ x \in [has : BOOLEAN, start : Nat, end : Nat]
           /\ x.end <= x.start => \A p \in P : \E f \in S : f.start <= p.start
<1>1. PICK B : B = {f \in P : S = {} \/ f.start < First(S).start}
  OBVIOUS
<1>2. CASE B = {}
  <2>1. x = [has |-> TRUE, start |-> 0, end |-> 0]
    BY <1>1, <1>2 DEF Exact
  <2>2. ASSUME NEW p \in P PROVE \E f \in S : f.start <= p.start
    <3>1. S # {} /\ ~(p.start < First(S).start)
      BY <1>1, <1>2
    <3>2. First(S) \in S
      BY <3>1, FirstIs
    <3>3. First(S).start \in Nat /\ p.start \in Nat
      BY <3>2
    <3> QED
      BY <3>1, <3>2, <3>3
  <2> QED
    BY <2>1, <2>2
<1>3. CASE B # {}
  <2>1. PICK b \in B : b = First(B)
    <3>1. \A f \in B : f.start \in Nat
      BY <1>1
    <3> QED
      BY <1>3, <3>1, FirstIs
  <2>2. PICK r : r = ReachOf(B)
    OBVIOUS
  <2>3. \A f \in B : f.end \in Nat /\ f.end <= e /\ f.start \in Nat /\ f.start < f.end
    BY <1>1
  <2>4. r \in Nat /\ b.end <= r
    BY <2>2, <2>3, ReachFacts
  <2>5. x = [has |-> TRUE, start |-> b.start, end |-> r]
    BY <1>1, <1>3, <2>1, <2>2 DEF Exact
  <2>6. b.start \in Nat /\ b.start < r
    BY <2>3, <2>4
  <2>7. x.start = b.start /\ x.end = r
    BY <2>5
  <2> QED
    BY <2>4, <2>5, <2>6, <2>7
<1> QED
  BY <1>2, <1>3

\* The row widened over files names at least their rows.
LEMMA WidenedNames ==
    ASSUME tier \in [has : BOOLEAN, start : Nat, end : Nat],
           NEW G, G # {}, NEW e \in Nat,
           \A f \in G : f.start \in Nat /\ f.end \in Nat /\ f.start < f.end /\ f.end <= e,
           NEW x, x = Widened(G)
    PROVE  /\ x \in [has : BOOLEAN, start : Nat, end : Nat]
           /\ x.has => x.start < x.end
<1>1. PICK a \in G : a = First(G)
  BY FirstIs
<1>2. PICK r : r = ReachOf(G)
  OBVIOUS
<1>3. r \in Nat /\ a.end <= r
  BY <1>2, ReachFacts
<1>4. a.start \in Nat /\ a.start < r
  BY <1>3
<1>5. PICK u \in Nat, v \in Nat : tier.start = u /\ tier.end = v
  OBVIOUS
<1>6. CASE ~tier.has
  BY <1>6 DEF Widened
<1>7. CASE tier.has /\ v <= u
  <2>1. x = [tier EXCEPT !.start = a.start, !.end = r]
    BY <1>1, <1>2, <1>5, <1>7 DEF Widened
  <2>2. x.start = a.start /\ x.end = r /\ x \in [has : BOOLEAN, start : Nat, end : Nat]
    BY <1>3, <1>4, <2>1
  <2> QED
    BY <1>4, <2>2
<1>8. CASE tier.has /\ u < v
  <2>1. PICK m \in Nat : m = Min({u, a.start}) /\ m <= u
    BY <1>4, TwoBetween
  <2>2. PICK w \in Nat : w = Max({v, r}) /\ v <= w
    <3>1. Max({v, r}) = IF v <= r THEN r ELSE v
      BY <1>3, TwoBetween
    <3> QED
      BY <1>3, <3>1
  <2>3. x = [tier EXCEPT !.start = m, !.end = w]
    <3>1. x = [tier EXCEPT !.start = Min({@, First(G).start}), !.end = Max({@, ReachOf(G)})]
      BY <1>5, <1>8 DEF Widened
    <3> QED
      BY <1>1, <1>2, <1>5, <2>1, <2>2, <3>1
  <2>4. x.start = m /\ x.end = w /\ x \in [has : BOOLEAN, start : Nat, end : Nat]
    BY <2>3
  <2> QED
    BY <1>8, <2>1, <2>2, <2>4
<1> QED
  BY <1>6, <1>7, <1>8

-----------------------------------------------------------------------------
\* The routines keep the tables in line.

\* What TilesDrop says of the files that end above an offset.
Later(S, l) == {f \in S : f.end > l}
DropsTo(S, T, e, l) ==
    /\ Tiles(T, e)
    /\ \A o \in Nat : l <= o /\ Holds(S, o) => Holds(T, o)
    /\ \A o \in Nat : Holds(T, o) => Holds(S, o)

\* What evicting below an offset leaves, in those words.
LEMMA TilesLater ==
    ASSUME NEW S, NEW e \in Nat, Tiles(S, e), NEW l \in Nat
    PROVE  DropsTo(S, Later(S, l), e, l)
BY TilesDrop DEF Later, DropsTo

\* Published files may leave the staging table from below ...
LEMMA LinedDropStaging ==
    ASSUME NEW S, NEW c \in Nat, NEW P, NEW t \in Nat, Lined(S, c, P, t),
           NEW l \in Nat, l <= t + 1, NEW T, T = {f \in S : f.end > l}
    PROVE  Lined(T, c, P, t)
<1>1. /\ Tiles(T, c)
      /\ \A o \in Nat : l <= o /\ Holds(S, o) => Holds(T, o)
      /\ \A o \in Nat : Holds(T, o) => Holds(S, o)
  <2>1. Tiles(S, c)
    BY DEF Lined
  <2>2. DropsTo(S, Later(S, l), c, l)
    BY <2>1, TilesLater
  <2>3. T = Later(S, l)
    BY DEF Later
  <2> QED
    BY <2>2, <2>3 DEF DropsTo
<1>2. \A o \in t + 1 .. c - 1 : Holds(T, o)
  <2>1. \A o \in t + 1 .. c - 1 : o \in Nat /\ l <= o
    OBVIOUS
  <2> QED
    BY <1>1, <2>1 DEF Lined
<1> QED
  BY <1>1, <1>2 DEF Lined

\* ... and after that files may leave the published table.
LEMMA LinedDropPublished ==
    ASSUME NEW S, NEW c \in Nat, NEW P, NEW t \in Nat, Lined(S, c, P, t),
           NEW l \in Nat, l <= t + 1, \A f \in S : l <= f.start,
           NEW Q, Q = {f \in P : f.end > l}
    PROVE  Lined(S, c, Q, t)
<1>0. t + 1 \in Nat /\ Tiles(P, t + 1)
  BY DEF Lined
<1>1. /\ Tiles(Q, t + 1)
      /\ \A o \in Nat : l <= o /\ Holds(P, o) => Holds(Q, o)
  <2>1. DropsTo(P, Later(P, l), t + 1, l)
    BY <1>0, TilesLater
  <2>2. Q = Later(P, l)
    BY DEF Later
  <2> QED
    BY <2>1, <2>2 DEF DropsTo
<1>2. ASSUME NEW o \in 1..t, Holds(S, o) PROVE Holds(Q, o)
  <2>1. PICK f \in S : o \in Span(f)
    BY <1>2 DEF Holds
  <2>2. f.start \in Nat /\ f.end \in Nat
    BY LinedTypes
  <2>3. l <= o
    BY <2>1, <2>2 DEF Span
  <2> QED
    BY <1>1, <1>2, <2>3 DEF Lined
<1> QED
  BY <1>1, <1>2 DEF Lined

\* A sealed file takes its place above all others.
LEMMA LinedSeal ==
    ASSUME NEW S, NEW c \in Nat, NEW P, NEW t \in Nat, Lined(S, c, P, t),
           NEW s \in Nat, c <= s, NEW f, f.start = c, f.end = s + 1, f.rows = c..s,
           NEW T, T = S \cup {f}
    PROVE  Lined(T, s + 1, P, t)
<1>1. \A g \in S : g.start \in Nat /\ g.end \in Nat /\ 1 <= g.start /\ g.start < g.end /\ g.end <= c
  BY LinedTypes
<1>2. \A p \in P : p.start \in Nat /\ p.end \in Nat /\ p.end <= t + 1
  BY LinedTypes
<1>3. t + 1 <= c
  BY DEF Lined
<1>4. Span(f) = c..s
  BY DEF Span
<1>5. Whole(f)
  BY <1>3, <1>4 DEF Whole
<1>6. PICK e \in Nat : e = s + 1
  OBVIOUS
<1>7. \A o \in c..s : Holds(T, o)
  BY <1>4 DEF Holds
<1>8. \A o : Holds(S, o) => Holds(T, o)
  BY DEF Holds
<1>9. Tiles(T, e)
  <2>1. \A g \in T : Whole(g) /\ g.end <= e
    <3>1. \A g \in S : Whole(g)
      BY DEF Lined, Tiles
    <3> QED
      BY <1>1, <1>5, <1>6, <3>1
  <2>2. \A g, h \in T : g = h \/ Apart(g, h)
    <3>1. \A g \in S : Apart(g, f) /\ Apart(f, g)
      BY <1>1 DEF Apart
    <3> QED
      BY <3>1 DEF Lined, Tiles
  <2>3. ASSUME NEW g \in T, NEW o \in g.start .. e - 1 PROVE Holds(T, o)
    <3>1. o \in Nat /\ g.start <= o /\ o <= s /\ g.start \in Nat
      BY <1>1, <1>6
    <3>2. CASE c <= o
      <4>1. o \in c..s
        BY <3>1, <3>2
      <4> QED
        BY <1>7, <4>1
    <3>3. CASE o < c
      <4>1. g \in S
        BY <3>1, <3>3
      <4>2. o \in g.start .. c - 1
        BY <3>1, <3>3
      <4> QED
        BY <1>8, <4>1, <4>2 DEF Lined, Tiles
    <3> QED
      BY <3>1, <3>2, <3>3
  <2> QED
    BY <2>1, <2>2, <2>3 DEF Tiles
<1>10. ASSUME NEW o \in t + 1 .. e - 1 PROVE Holds(T, o)
  <2>1. CASE c <= o
    <3>1. o \in c..s
      BY <1>6, <2>1
    <3> QED
      BY <1>7, <3>1
  <2>2. CASE o < c
    <3>1. o \in t + 1 .. c - 1
      BY <2>2
    <3> QED
      BY <1>8, <3>1 DEF Lined
  <2> QED
    BY <2>1, <2>2
<1>11. ASSUME NEW p \in P, NEW g \in T PROVE Apart(p, g) \/ Inside(p, g)
  <2>1. Apart(p, f)
    BY <1>2, <1>3 DEF Apart
  <2> QED
    BY <2>1 DEF Lined
<1>12. ASSUME NEW o \in 1..t, Holds(T, o) PROVE Holds(P, o)
  <2>1. o \notin Span(f)
    BY <1>3, <1>4
  <2>2. Holds(S, o)
    BY <1>12, <2>1 DEF Holds
  <2> QED
    BY <2>2 DEF Lined
<1>13. t + 1 <= e /\ Tiles(P, t + 1)
  BY <1>3, <1>6 DEF Lined
<1>14. Lined(T, e, P, t)
  BY <1>9, <1>10, <1>11, <1>12, <1>13 DEF Lined
<1> QED
  BY <1>6, <1>14

\* A merge keeps the tables in line.
LEMMA LinedMerge ==
    ASSUME NEW S, NEW c \in Nat, NEW P, NEW t \in Nat, Lined(S, c, P, t),
           NEW n \in Nat, NEW flush \in BOOLEAN, NEW run \in Runs(S \ Settled(S), n, flush),
           NEW out, out = FileOf(Joined(run)),
           NEW T, T = (S \ run) \cup {out}
    PROVE  /\ Lined(T, c, P, t)
           /\ \A f \in S : \E g \in T : g.start <= f.start
           /\ S # {}
<1>1. \A f \in S : f.start \in Nat /\ f.end \in Nat /\ 1 <= f.start /\ f.start < f.end /\ f.end <= c
  BY LinedTypes
<1>2. \A p \in P : p.start \in Nat /\ p.end \in Nat /\ p.start < p.end
  BY LinedTypes
<1>3. \A f, g \in S : f = g \/ Apart(f, g)
  BY DEF Lined, Tiles
<1>4. run \subseteq S /\ run # {} /\ Convex(run, S)
  BY <1>1, <1>3, RunsConvex
<1>5. /\ Tiles(T, c)
      /\ \A o \in Nat : Holds(T, o) <=> Holds(S, o)
      /\ \A f \in run : Inside(f, out)
      /\ \A p \in P : Apart(p, out) \/ Inside(p, out)
  <2>1. Tiles(S, c) /\ Aligned(P, S)
    BY <1>2 DEF Lined, Aligned
  <2> QED
    BY <1>4, <2>1, MergeTiles
<1>6. ASSUME NEW p \in P, NEW f \in T PROVE Apart(p, f) \/ Inside(p, f)
  <2>1. CASE f = out
    BY <1>2, <1>5, <2>1 DEF Lined
  <2>2. CASE f \in S
    BY <2>2 DEF Lined
  <2> QED
    BY <2>1, <2>2
<1>7. Lined(T, c, P, t)
  <2>1. \A o \in t + 1 .. c - 1 : Holds(T, o)
    <3>1. \A o \in t + 1 .. c - 1 : o \in Nat
      OBVIOUS
    <3> QED
      BY <1>5, <3>1 DEF Lined
  <2>2. \A o \in 1..t : Holds(T, o) => Holds(P, o)
    BY <1>5 DEF Lined
  <2> QED
    BY <1>5, <1>6, <2>1, <2>2 DEF Lined
<1>8. ASSUME NEW f \in S PROVE \E g \in T : g.start <= f.start
  <2>1. CASE f \in run
    BY <1>5, <2>1 DEF Inside
  <2>2. CASE f \notin run
    BY <1>1, <2>2
  <2> QED
    BY <2>1, <2>2
<1> QED
  BY <1>4, <1>7, <1>8

-----------------------------------------------------------------------------
\* The state of the log.

\* The offsets in order, and what is not sealed yet in the buffer.
Ordered ==
    /\ seq \in Nat /\ cut \in Nat /\ through \in Nat /\ asked \in Nat /\ cleared \in Nat
    /\ seq <= MaxOffset /\ cut <= seq + 1
    /\ buffer \subseteq 1..seq /\ \A o \in cut..seq : o \in buffer

\* The tables are in line, and what the buffer still has of published rows
\* the published table has too.
Lines ==
    /\ Lined(staging, cut, published, through)
    /\ \A o \in 1..through : o \in buffer => Holds(published, o)

\* A row that names nothing says that no published row lies below staging.
Rowed ==
    /\ tier \in [has : BOOLEAN, start : Nat, end : Nat]
    /\ tier.has /\ tier.end <= tier.start => \A p \in published : \E f \in staging : f.start <= p.start

\* Published rows that are gone were asked for, and what was cleared is gone.
History ==
    /\ \A o \in 1..through : Holds(published, o) \/ o < asked
    /\ \A o \in 1..cleared - 1 : o <= through /\ ~Holds(published, o)

\* What every routine keeps of the three tiers.
Geometry == Ordered /\ Lines /\ Rowed /\ History

\* What a read returns: all that is not published yet, and the published table.
Shown(o) == o \in 1..seq /\ (through < o \/ Holds(published, o))

\* The facts of it that most steps need.
LEMMA GeometryFacts ==
    ASSUME Geometry
    PROVE  /\ seq \in Nat /\ cut \in Nat /\ through \in Nat /\ asked \in Nat /\ cleared \in Nat
           /\ through + 1 <= cut /\ cut <= seq + 1
           /\ Lined(staging, cut, published, through)
           /\ \A f \in staging \cup published :
                /\ f.start \in Nat /\ f.end \in Nat /\ 1 <= f.start /\ f.start < f.end /\ f.end <= cut
           /\ \A p \in published : p.end <= through + 1
<1>1. Lined(staging, cut, published, through) /\ cut \in Nat /\ through \in Nat
  BY DEF Geometry, Lines, Ordered
<1>2. through + 1 <= cut
  BY <1>1 DEF Lined
<1> QED
  BY <1>1, <1>2, LinedTypes DEF Geometry, Ordered

\* Buffer.append.
LEMMA AppendGeometry ==
    ASSUME Geometry, AppendRow, UNCHANGED <<asked, cleared>>
    PROVE  Geometry'
<1>1. /\ seq < MaxOffset /\ seq' = seq + 1 /\ buffer' = buffer \cup {seq + 1}
      /\ UNCHANGED <<cut, staging, published, through, owed, tier>>
  BY DEF AppendRow, meta
<1>2. /\ seq \in Nat /\ cut \in Nat /\ through \in Nat /\ cut <= seq + 1 /\ through + 1 <= cut
      /\ buffer \subseteq 1..seq /\ \A o \in cut..seq : o \in buffer
  BY GeometryFacts DEF Geometry, Ordered
<1>3. PICK s \in Nat : s = seq + 1
  BY <1>2
<1>4. s <= MaxOffset /\ cut <= s + 1 /\ buffer' \subseteq 1..s /\ \A o \in cut..s : o \in buffer'
  <2>1. s <= MaxOffset
    BY <1>1, <1>2, <1>3, LogTiersAssumption
  <2>2. cut <= s + 1
    BY <1>2, <1>3
  <2>3. buffer' \subseteq 1..s
    BY <1>1, <1>2, <1>3
  <2>4. ASSUME NEW o \in cut..s PROVE o \in buffer'
    BY <1>1, <1>2, <1>3
  <2> QED
    BY <2>1, <2>2, <2>3, <2>4
<1>5. Ordered'
  BY <1>1, <1>3, <1>4 DEF Geometry, Ordered
<1>6. Lines'
  <2>1. \A o \in 1..through : o # seq + 1
    BY <1>2
  <2> QED
    BY <1>1, <2>1 DEF Geometry, Lines
<1>7. Rowed' /\ History'
  BY <1>1 DEF Geometry, Rowed, History
<1> QED
  BY <1>5, <1>6, <1>7 DEF Geometry

\* seal: what is buffered and not in a file becomes one.
LEMMA SealGeometry ==
    ASSUME Geometry, Unfiled # {}, SealRows, UNCHANGED <<asked, cleared>>
    PROVE  Geometry' /\ buffer # {}
<1>1. /\ staging' = staging \cup {f \in {FileOf(Unfiled)} : through + 1 < f.end}
      /\ cut' = seq + 1
      /\ UNCHANGED <<seq, buffer, published, through, owed, tier>>
  BY DEF SealRows, meta
<1>2. /\ seq \in Nat /\ cut \in Nat /\ through \in Nat /\ cut <= seq + 1 /\ through + 1 <= cut
      /\ buffer \subseteq 1..seq /\ \A o \in cut..seq : o \in buffer
  BY GeometryFacts DEF Geometry, Ordered
<1>3. PICK U : U = Unfiled
  OBVIOUS
<1>4. U = cut..seq /\ U # {} /\ U \subseteq Nat /\ U \subseteq 0..seq
  <2>1. \A o \in U : o \in cut..seq
    BY <1>2, <1>3 DEF Unfiled
  <2>2. \A o \in cut..seq : o \in U
    BY <1>2, <1>3 DEF Unfiled
  <2>3. U = cut..seq
    BY <2>1, <2>2
  <2>4. U # {}
    BY <1>3
  <2>5. \A o \in cut..seq : o \in Nat /\ o \in 0..seq
    BY <1>2
  <2> QED
    BY <2>3, <2>4, <2>5
<1>5. cut <= seq
  BY <1>2, <1>4
<1>6. Min(U) = cut /\ Max(U) = seq
  <2>1. Min(U) \in U /\ \A y \in U : Min(U) <= y
    BY <1>4, MinOfNaturals
  <2>2. Max(U) \in U /\ \A y \in U : y <= Max(U)
    BY <1>2, <1>4, MaxOfNaturals
  <2>3. cut \in U /\ seq \in U
    BY <1>2, <1>4, <1>5
  <2>4. Min(U) \in Nat /\ Max(U) \in Nat
    BY <1>4, <2>1, <2>2
  <2>5. cut <= Min(U) /\ Max(U) <= seq
    BY <1>2, <1>4, <2>1, <2>2
  <2> QED
    BY <1>2, <2>1, <2>2, <2>3, <2>4, <2>5
<1>7. PICK f : f = [start |-> cut, end |-> seq + 1, rows |-> cut..seq]
  OBVIOUS
<1>8. f = FileOf(Unfiled) /\ f.start = cut /\ f.end = seq + 1 /\ f.rows = cut..seq
  BY <1>3, <1>4, <1>6, <1>7 DEF FileOf
<1>9. PICK T : T = staging \cup {f}
  OBVIOUS
<1>10. staging' = T
  BY <1>1, <1>2, <1>5, <1>8, <1>9
<1>11. Lined(T, seq + 1, published, through)
  BY <1>2, <1>5, <1>8, <1>9, LinedSeal, GeometryFacts
<1>12. Ordered'
  <2>1. \A o \in seq + 1 .. seq : o \in buffer
    BY <1>2
  <2>2. seq + 1 \in Nat /\ seq + 1 <= seq + 1
    BY <1>2
  <2> QED
    BY <1>1, <2>1, <2>2 DEF Geometry, Ordered
<1>13. Lines'
  BY <1>1, <1>10, <1>11 DEF Geometry, Lines
<1>14. Rowed'
  BY <1>1, <1>9, <1>10 DEF Geometry, Rowed
<1>15. History'
  BY <1>1 DEF Geometry, History
<1>16. buffer # {}
  BY DEF Unfiled
<1> QED
  BY <1>12, <1>13, <1>14, <1>15, <1>16 DEF Geometry

\* compact.
LEMMA CompactGeometry ==
    ASSUME Geometry, NEW flush \in BOOLEAN, CompactRun(flush), UNCHANGED <<asked, cleared>>
    PROVE  Geometry' /\ staging # {} /\ UNCHANGED <<seq, buffer, published, through, closed, holder>>
<1>1. PICK run \in Runs(staging \ Settled(staging), through + 1, flush) :
        staging' = (staging \ run) \cup {FileOf(UNION {f.rows : f \in run})}
  BY DEF CompactRun
<1>2. UNCHANGED <<seq, cut, buffer, published, through, tier, closed, holder>>
  BY DEF CompactRun
<1>3. PICK out : out = FileOf(Joined(run))
  OBVIOUS
<1>4. PICK T : T = (staging \ run) \cup {out}
  OBVIOUS
<1>5. staging' = T
  BY <1>1, <1>3, <1>4 DEF Joined
<1>6. /\ through + 1 \in Nat /\ cut \in Nat /\ through \in Nat
      /\ Lined(staging, cut, published, through)
  BY GeometryFacts
<1>7. /\ Lined(T, cut, published, through) /\ staging # {}
      /\ \A f \in staging : \E g \in T : g.start <= f.start
  BY <1>3, <1>4, <1>6, LinedMerge
<1>8. Ordered'
  BY <1>2 DEF Geometry, Ordered
<1>9. Lines'
  BY <1>2, <1>5, <1>7 DEF Geometry, Lines
<1>10. Rowed'
  <2>1. tier' = tier /\ published' = published
    BY <1>2
  <2>2. ASSUME tier.has, tier.end <= tier.start, NEW p \in published
        PROVE  \E g \in T : g.start <= p.start
    <3>1. PICK f \in staging : f.start <= p.start
      BY <2>2 DEF Geometry, Rowed
    <3>2. PICK g \in T : g.start <= f.start
      BY <1>7
    <3>3. g.start \in Nat
      BY <1>7 DEF Lined, Tiles, Whole
    <3>4. f.start \in Nat /\ p.start \in Nat
      BY GeometryFacts
    <3> QED
      BY <3>1, <3>2, <3>3, <3>4
  <2> QED
    BY <1>5, <2>1, <2>2 DEF Geometry, Rowed
<1>11. History'
  BY <1>2 DEF Geometry, History
<1> QED
  BY <1>2, <1>7, <1>8, <1>9, <1>10, <1>11 DEF Geometry

\* The merged files a push swaps in.
Straddles(f) == f.start < PublishedEnd /\ PublishedEnd < f.end
Within(f) == {p \in published : Span(p) \cap Span(f) # {}}
LinesUp(f) == Within(f) # {} /\ \A p \in Within(f) : Span(p) \subseteq Span(f)
Swapped(flush, finish) ==
    {f \in staging :
        /\ f \in owed \/ Straddles(f)
        /\ f \in Settled(staging) \/ finish \/ (flush /\ Straddles(f))
        /\ LinesUp(f) /\ f \notin published}
Held(W) == (published \ UNION {Within(f) : f \in W}) \cup W
Waiting(K) == {f \in staging : f.start >= ReachOf(K)}
Going(K, flush) == {f \in Waiting(K) : flush \/ f \in Settled(staging)}

\* A push, by the sets it swaps, keeps and adds.
LEMMA PushIs ==
    ASSUME NEW flush, NEW finish, Push(flush, finish),
           NEW W, W = Swapped(flush, finish), NEW K, K = Held(W), NEW U, U = Going(K, flush)
    PROVE  /\ published' = K \cup U
           /\ through' = Max({through, ReachOf(published') - 1})
           /\ tier' = IF tier.has THEN tier ELSE Exact(published, staging)
           /\ UNCHANGED <<seq, cut, buffer, staging, closed, holder>>
BY Zenon DEF Push, Swapped, Held, Waiting, Going, Straddles, Within, LinesUp

\* What goes up is all that comes before it, too.
LEMMA PushInOrder ==
    ASSUME Geometry, NEW flush \in BOOLEAN, NEW finish \in BOOLEAN,
           NEW W, W = Swapped(flush, finish), NEW K, K = Swap(published, W),
           NEW U, U = Going(K, flush)
    PROVE  InOrder(staging, published, through, W, ReachOf(K), U)
<1>0. /\ through \in Nat /\ cut \in Nat /\ Lined(staging, cut, published, through)
      /\ \A f \in staging \cup published :
            /\ f.start \in Nat /\ f.end \in Nat /\ 1 <= f.start /\ f.start < f.end /\ f.end <= cut
  BY GeometryFacts
<1>1. W \subseteq staging /\ U \subseteq staging
  BY DEF Swapped, Going, Waiting
<1>2. \A f \in W : \E p \in published : Meets(p, f)
  BY DEF Swapped, LinesUp, Within, Meets
<1>3. \A f \in U : f.start >= ReachOf(K)
  BY DEF Going, Waiting
<1>4. ASSUME NEW f \in U, NEW g \in staging, ReachOf(K) <= g.start, g.start <= f.start
      PROVE  g \in U
  <2>1. g \in Waiting(K)
    <3>1. PICK r : r = ReachOf(K)
      OBVIOUS
    <3>2. K \subseteq staging \cup published
      BY <1>1 DEF Swap
    <3>3. r \in Nat
      BY <1>0, <3>1, <3>2, ReachFacts
    <3> QED
      BY <1>0, <1>4, <3>1, <3>3 DEF Waiting
  <2>2. CASE flush
    BY <2>1, <2>2 DEF Going
  <2>3. CASE ~flush
    <3>1. f \in Settled(staging)
      BY <2>3 DEF Going
    <3>2. g \in Settled(staging)
      BY <1>0, <1>4, <3>1, SettledPrefix
    <3> QED
      BY <2>1, <3>2 DEF Going
  <2> QED
    BY <2>2, <2>3
<1>5. ASSUME NEW f \in U, NEW g \in staging, g.start <= through, through + 1 < g.end
      PROVE  g \in W
  <2>1. /\ f \in staging /\ f.start \in Nat /\ f.end \in Nat /\ 1 <= f.start /\ f.start < f.end
        /\ g.start \in Nat /\ g.end \in Nat /\ 1 <= g.start /\ g.start < g.end
    BY <1>0, <1>1
  <2>2. g.start \in 1..through /\ g.start \in Span(g)
    BY <1>0, <1>5, <2>1 DEF Span
  <2>3. PICK p \in published : g.start \in Span(p)
    <3>1. Holds(staging, g.start)
      BY <2>2 DEF Holds
    <3>2. Holds(published, g.start)
      BY <1>0, <2>2, <3>1 DEF Lined
    <3> QED
      BY <3>2 DEF Holds
  <2>4. PublishedEnd = through + 1
    <3>1. Tiles(published, through + 1) /\ through + 1 \in Nat
      BY <1>0 DEF Lined
    <3> QED
      BY <3>1, TilesReach DEF PublishedEnd
  <2>5. Straddles(g)
    BY <1>0, <1>5, <2>1, <2>4 DEF Straddles
  <2>6. LinesUp(g)
    <3>1. p \in Within(g)
      BY <2>2, <2>3 DEF Within
    <3>2. ASSUME NEW x \in Within(g) PROVE Span(x) \subseteq Span(g)
      <4>1. x \in published /\ Meets(x, g)
        BY DEF Within, Meets
      <4>2. x.start \in Nat /\ x.end \in Nat /\ x.start < x.end
        BY <1>0, <4>1
      <4>3. Inside(x, g)
        BY <1>0, <2>1, <4>1, <4>2, MeetsIs DEF Lined
      <4> QED
        BY <2>1, <4>2, <4>3 DEF Span, Inside
    <3> QED
      BY <3>1, <3>2 DEF LinesUp
  <2>7. g \notin published
    <3>1. \A x \in published : x.end <= through + 1
      BY GeometryFacts
    <3> QED
      BY <1>0, <1>5, <2>1, <3>1
  <2>8. g \in Settled(staging) \/ flush
    <3>1. CASE flush
      BY <3>1
    <3>2. CASE ~flush
      <4>1. f \in Settled(staging)
        BY <3>2 DEF Going
      <4>2. through < f.start
        <5> SUFFICES ASSUME f.start <= through PROVE FALSE
          BY <1>0, <2>1
        <5>1. f.start \in 1..through /\ f.start \in Span(f)
          BY <1>0, <2>1 DEF Span
        <5>2. Holds(staging, f.start)
          BY <2>1, <5>1 DEF Holds
        <5>3. Holds(published, f.start)
          BY <1>0, <5>1, <5>2 DEF Lined
        <5>4. Holds(K, f.start)
          BY <1>0, <1>1, <2>1, <5>3, SwapHolds
        <5>5. PICK k \in K : f.start \in Span(k)
          BY <5>4 DEF Holds
        <5>6. K \subseteq staging \cup published
          BY <1>1 DEF Swap
        <5>7. PICK r : r = ReachOf(K)
          OBVIOUS
        <5>8. r \in Nat /\ k.end <= r
          BY <1>0, <5>6, <5>7, ReachFacts
        <5>9. f.start >= r /\ k.start \in Nat /\ k.end \in Nat
          BY <1>0, <1>3, <5>6, <5>7
        <5> QED
          BY <2>1, <5>5, <5>8, <5>9 DEF Span
      <4>3. g.start <= f.start
        BY <1>0, <1>5, <2>1, <4>2
      <4> QED
        BY <1>0, <4>1, <4>3, SettledPrefix
    <3> QED
      BY <3>1, <3>2
  <2> QED
    BY <2>5, <2>6, <2>7, <2>8 DEF Swapped
<1> QED
  BY <1>1, <1>2, <1>3, <1>4, <1>5 DEF InOrder

\* What PushTiles says of a push.
PushesTo(S, c, P, t, Q, n) ==
    /\ n \in Nat /\ t <= n /\ Lined(S, c, Q, n)
    /\ \A o \in t + 1 .. n : Holds(Q, o)
    /\ \A o \in 1..t : Holds(Q, o) <=> Holds(P, o)

\* A push takes a line of published files to a longer one.
LEMMA PushLines ==
    ASSUME NEW S, NEW c \in Nat, NEW P, NEW t \in Nat, Lined(S, c, P, t),
           NEW W, NEW U, InOrder(S, P, t, W, ReachOf(Swap(P, W)), U),
           NEW Q, Q = Swap(P, W) \cup U
    PROVE  PushesTo(S, c, P, t, Q, Reached(t, Q))
<1>1. PICK K : K = Swap(P, W)
  OBVIOUS
<1>2. PICK r : r = ReachOf(K)
  OBVIOUS
<1>3. PICK n : n = Reached(t, Q)
  OBVIOUS
<1>4. InOrder(S, P, t, W, r, U) /\ Q = K \cup U
  BY <1>1, <1>2
<1>5. n \in Nat /\ t <= n /\ Lined(S, c, Q, n)
  BY <1>1, <1>2, <1>3, <1>4, PushTiles
<1>6. \A o \in t + 1 .. n : Holds(Q, o)
  BY <1>1, <1>2, <1>3, <1>4, PushTiles
<1>7. \A o \in 1..t : Holds(Q, o) <=> Holds(P, o)
  BY <1>1, <1>2, <1>3, <1>4, PushTiles
<1> QED
  BY <1>3, <1>5, <1>6, <1>7 DEF PushesTo

\* _push: the read of every row stays as it was.
LEMMA PushGeometry ==
    ASSUME Geometry, NEW flush \in BOOLEAN, NEW finish \in BOOLEAN, Push(flush, finish),
           UNCHANGED <<asked, cleared>>
    PROVE  /\ Geometry' /\ UNCHANGED <<seq, cut, buffer, staging, closed, holder>>
           /\ \A o \in 1..seq : Shown(o)' <=> Shown(o)
<1>0. /\ through \in Nat /\ cut \in Nat /\ seq \in Nat /\ cut <= seq + 1
      /\ Lined(staging, cut, published, through)
      /\ \A f \in staging \cup published :
            /\ f.start \in Nat /\ f.end \in Nat /\ 1 <= f.start /\ f.start < f.end /\ f.end <= cut
  BY GeometryFacts
<1>1. PICK W : W = Swapped(flush, finish)
  OBVIOUS
<1>2. PICK K : K = Held(W)
  OBVIOUS
<1>3. K = Swap(published, W)
  <2>1. \A x : x \in Held(W) <=> x \in Swap(published, W)
    BY DEF Held, Swap, Within, Meets
  <2> QED
    BY <1>2, <2>1
<1>4. PICK U : U = Going(K, flush)
  OBVIOUS
<1>5. PICK Q : Q = K \cup U
  OBVIOUS
<1>6. PICK n : n = Reached(through, Q)
  OBVIOUS
<1>7. /\ published' = Q /\ through' = n
      /\ tier' = IF tier.has THEN tier ELSE Exact(published, staging)
      /\ UNCHANGED <<seq, cut, buffer, staging, closed, holder>>
  BY <1>1, <1>2, <1>4, <1>5, <1>6, PushIs DEF Reached
<1>8. PICK r : r = ReachOf(K)
  OBVIOUS
<1>9. InOrder(staging, published, through, W, r, U)
  BY <1>1, <1>3, <1>4, <1>8, PushInOrder
<1>10. /\ n \in Nat /\ through <= n /\ Lined(staging, cut, Q, n)
       /\ \A o \in through + 1 .. n : Holds(Q, o)
       /\ \A o \in 1..through : Holds(Q, o) <=> Holds(published, o)
  <2>1. cut \in Nat /\ through \in Nat /\ Lined(staging, cut, published, through)
    BY <1>0
  <2>2. InOrder(staging, published, through, W, ReachOf(Swap(published, W)), U)
    BY <1>3, <1>8, <1>9
  <2>3. Q = Swap(published, W) \cup U
    BY <1>3, <1>5
  <2>4. PushesTo(staging, cut, published, through, Q, Reached(through, Q))
    BY <2>1, <2>2, <2>3, PushLines
  <2> QED
    BY <1>6, <2>4 DEF PushesTo
<1>11. ASSUME NEW o \in 1..n, ~Holds(Q, o) PROVE o \in 1..through /\ ~Holds(published, o)
  <2>1. o \notin through + 1 .. n
    BY <1>10, <1>11
  <2>2. o \in 1..through
    BY <1>0, <1>10, <2>1
  <2> QED
    BY <1>10, <1>11, <2>2
<1>12. Ordered'
  BY <1>7, <1>10 DEF Geometry, Ordered
<1>13. Lines'
  <2>1. ASSUME NEW o \in 1..n, o \in buffer PROVE Holds(Q, o)
    BY <1>11, <2>1 DEF Geometry, Lines
  <2> QED
    BY <1>7, <1>10, <2>1 DEF Lines
<1>14. Rowed'
  <2>1. PICK x : x = Exact(published, staging)
    OBVIOUS
  <2>2. /\ x \in [has : BOOLEAN, start : Nat, end : Nat]
        /\ x.end <= x.start => \A p \in published : \E f \in staging : f.start <= p.start
    BY <1>0, <2>1, ExactCovers
  <2>3. PICK y : y = IF tier.has THEN tier ELSE x
    OBVIOUS
  <2>4. y \in [has : BOOLEAN, start : Nat, end : Nat]
    BY <2>2, <2>3 DEF Geometry, Rowed
  <2>5. y.has /\ y.end <= y.start => \A p \in published : \E f \in staging : f.start <= p.start
    BY <2>2, <2>3 DEF Geometry, Rowed
  <2>6. ASSUME y.has, y.end <= y.start, NEW p \in Q PROVE \E f \in staging : f.start <= p.start
    <3>1. p \in published \/ p \in staging
      BY <1>3, <1>5, <1>9 DEF Swap, InOrder
    <3> QED
      BY <1>0, <2>5, <2>6, <3>1
  <2>7. tier' = y
    BY <1>7, <2>1, <2>3
  <2> QED
    BY <1>7, <2>4, <2>6, <2>7 DEF Rowed
<1>15. History'
  <2>1. ASSUME NEW o \in 1..n PROVE Holds(Q, o) \/ o < asked
    BY <1>11 DEF Geometry, History
  <2>2. ASSUME NEW o \in 1..cleared - 1 PROVE o <= n /\ ~Holds(Q, o)
    <3>1. o <= through /\ ~Holds(published, o) /\ o \in Nat /\ 1 <= o
      BY GeometryFacts DEF Geometry, History
    <3>2. o \in 1..through
      BY <1>0, <3>1
    <3> QED
      BY <1>0, <1>10, <3>1, <3>2
  <2> QED
    BY <1>7, <2>1, <2>2 DEF History
<1>16. ASSUME NEW o \in 1..seq PROVE Shown(o)' <=> Shown(o)
  <2>1. Shown(o)' <=> (n < o \/ Holds(Q, o))
    BY <1>7 DEF Shown
  <2>2. Shown(o) <=> (through < o \/ Holds(published, o))
    BY DEF Shown
  <2>3. CASE o <= through
    <3>1. o \in 1..through
      BY <1>0, <2>3
    <3>2. ~(n < o) /\ ~(through < o)
      BY <1>0, <1>10, <2>3
    <3> QED
      BY <1>10, <2>1, <2>2, <3>1, <3>2
  <2>4. CASE through < o
    <3>1. CASE n < o
      BY <2>1, <2>2, <2>4, <3>1
    <3>2. CASE o <= n
      <4>1. o \in through + 1 .. n
        BY <1>0, <1>10, <2>4, <3>2
      <4> QED
        BY <1>10, <2>1, <2>2, <2>4, <4>1
    <3> QED
      BY <1>10, <3>1, <3>2
  <2> QED
    BY <1>0, <2>3, <2>4
<1> QED
  BY <1>7, <1>12, <1>13, <1>14, <1>15, <1>16 DEF Geometry

\* The files that lie below an offset.
Below(files, l) == {f \in files : f.end <= l}

\* No file reaches across an offset.
Parted(files, l) == \A f \in files : f.end <= l \/ l <= f.start

\* What a step may do to the rows a read returns: one more, or none below some
\* offset and all of the others.
Same == seq' = seq /\ \A o \in 1..seq : Shown(o)' <=> Shown(o)
More == seq' = seq + 1 /\ Shown(seq)' /\ \A o \in 1..seq : Shown(o)' <=> Shown(o)
Fewer == seq' = seq /\ \E l \in 1..seq + 1 : \A o \in 1..seq : Shown(o)' <=> Shown(o) /\ l <= o

\* A step that leaves the published table alone shows what was shown.
LEMMA SameIs ==
    ASSUME UNCHANGED <<seq, published, through>>
    PROVE  Same
BY DEF Same, Shown

\* Published rows leave the buffer.
LEMMA DropRows ==
    ASSUME Geometry, NEW l \in Nat, l <= through + 1,
           buffer' \subseteq buffer, \A o \in buffer : o >= l => o \in buffer',
           UNCHANGED <<seq, cut, staging, published, through, tier, asked, cleared>>
    PROVE  Geometry'
<1>1. seq \in Nat /\ cut \in Nat /\ through \in Nat /\ through + 1 <= cut
  BY GeometryFacts
<1>2. \A o \in cut..seq : o >= l
  BY <1>1
<1>3. Ordered'
  BY <1>2 DEF Geometry, Ordered
<1>4. Lines'
  BY DEF Geometry, Lines
<1>5. Rowed' /\ History'
  BY DEF Geometry, Rowed, History
<1> QED
  BY <1>3, <1>4, <1>5 DEF Geometry

\* Published files leave the staging table, and the row is widened.
LEMMA DropFiles ==
    ASSUME Geometry, NEW l \in Nat, l <= through + 1, NEW G, G = Below(staging, l),
           staging' = staging \ G, tier' = IF G = {} THEN tier ELSE Widened(G),
           UNCHANGED <<seq, cut, buffer, published, through, asked, cleared>>
    PROVE  Geometry'
<1>1. /\ cut \in Nat /\ through \in Nat /\ Lined(staging, cut, published, through)
      /\ \A f \in staging : f.start \in Nat /\ f.end \in Nat /\ f.start < f.end /\ f.end <= cut
  BY GeometryFacts
<1>2. PICK T : T = {f \in staging : f.end > l}
  OBVIOUS
<1>3. staging' = T
  <2>1. \A f \in staging : f \notin G <=> f.end > l
    BY <1>1 DEF Below
  <2> QED
    BY <1>2, <2>1
<1>4. Lined(T, cut, published, through)
  BY <1>1, <1>2, LinedDropStaging
<1>5. Lines'
  BY <1>3, <1>4 DEF Geometry, Lines
<1>6. Ordered' /\ History'
  BY DEF Geometry, Ordered, History
<1>7. Rowed'
  <2>1. CASE G = {}
    BY <2>1 DEF Geometry, Rowed
  <2>2. CASE G # {}
    <3>1. PICK x : x = Widened(G)
      OBVIOUS
    <3>2. \A f \in G : f.start \in Nat /\ f.end \in Nat /\ f.start < f.end /\ f.end <= cut
      BY <1>1 DEF Below
    <3>3. x \in [has : BOOLEAN, start : Nat, end : Nat] /\ (x.has => x.start < x.end)
      BY <1>1, <2>2, <3>1, <3>2, WidenedNames DEF Geometry, Rowed
    <3>4. ~(x.has /\ x.end <= x.start)
      BY <3>3
    <3>5. tier' = x
      BY <2>2, <3>1
    <3> QED
      BY <3>3, <3>4, <3>5 DEF Rowed
  <2> QED
    BY <2>1, <2>2
<1> QED
  BY <1>5, <1>6, <1>7 DEF Geometry

\* Files leave the published table below a boundary that was asked for, once
\* neither the staging table nor the buffer has anything below it.
LEMMA DropPublished ==
    ASSUME Geometry, NEW l \in Nat, l <= through + 1, l <= asked', asked <= asked', asked' \in Nat,
           \A f \in staging : l <= f.start, \A o \in buffer : l <= o, Parted(published, l),
           published' = {f \in published : f.end > l},
           UNCHANGED <<seq, cut, buffer, staging, through, tier, cleared>>
    PROVE  Geometry' /\ Fewer
<1>1. /\ cut \in Nat /\ through \in Nat /\ Lined(staging, cut, published, through)
      /\ seq \in Nat /\ cut <= seq + 1 /\ through + 1 <= cut /\ asked \in Nat /\ cleared \in Nat
  BY GeometryFacts
<1>2. PICK Q : Q = {f \in published : f.end > l}
  OBVIOUS
<1>3. published' = Q
  BY <1>2
<1>4. Lined(staging, cut, Q, through)
  BY <1>1, <1>2, LinedDropPublished
<1>5. /\ \A o \in Nat : l <= o /\ Holds(published, o) => Holds(Q, o)
      /\ \A o \in Nat : Holds(Q, o) => Holds(published, o)
  <2>1. through + 1 \in Nat /\ Tiles(published, through + 1)
    BY <1>1 DEF Lined
  <2>2. DropsTo(published, Later(published, l), through + 1, l)
    BY <2>1, TilesLater
  <2>3. Q = Later(published, l)
    BY <1>2 DEF Later
  <2> QED
    BY <2>2, <2>3 DEF DropsTo
<1>6. ASSUME NEW o \in Nat, Holds(Q, o) PROVE l <= o
  <2>1. PICK f \in Q : o \in Span(f)
    BY <1>6 DEF Holds
  <2>2. f.start \in Nat /\ f.end \in Nat
    BY <1>2, GeometryFacts
  <2>3. l <= f.start
    BY <1>2, <2>2 DEF Parted
  <2> QED
    BY <2>1, <2>2, <2>3 DEF Span
<1>7. Ordered'
  BY DEF Geometry, Ordered
<1>8. Lines'
  <2>1. ASSUME NEW o \in 1..through, o \in buffer PROVE Holds(Q, o)
    <3>1. Holds(published, o) /\ l <= o /\ o \in Nat
      BY <1>1, <2>1 DEF Geometry, Lines
    <3> QED
      BY <1>5, <3>1
  <2> QED
    BY <1>3, <1>4, <2>1 DEF Lines
<1>9. Rowed'
  <2>1. \A p \in Q : p \in published
    BY <1>2
  <2> QED
    BY <1>3, <2>1 DEF Geometry, Rowed
<1>10. History'
  <2>1. ASSUME NEW o \in 1..through PROVE Holds(Q, o) \/ o < asked'
    <3>1. o \in Nat /\ (Holds(published, o) \/ o < asked)
      BY <1>1 DEF Geometry, History
    <3> QED
      BY <1>1, <1>5, <3>1
  <2>2. ASSUME NEW o \in 1..cleared - 1 PROVE o <= through /\ ~Holds(Q, o)
    <3>1. o \in Nat /\ o <= through /\ ~Holds(published, o)
      BY <1>1 DEF Geometry, History
    <3> QED
      BY <1>5, <3>1
  <2> QED
    BY <1>3, <2>1, <2>2 DEF History
<1>11. Fewer
  <2>1. PICK k \in Nat : k = IF l = 0 THEN 1 ELSE l
    OBVIOUS
  <2>2. k \in 1..seq + 1
    BY <1>1, <2>1
  <2>3. ASSUME NEW o \in 1..seq PROVE Shown(o)' <=> Shown(o) /\ k <= o
    <3>1. o \in Nat /\ 1 <= o /\ (k <= o <=> l <= o)
      BY <1>1, <2>1
    <3>2. Shown(o)' <=> (through < o \/ Holds(Q, o))
      BY <1>3 DEF Shown
    <3>3. Shown(o) <=> (through < o \/ Holds(published, o))
      BY DEF Shown
    <3>4. through < o => l <= o
      BY <1>1, <3>1
    <3> QED
      BY <1>5, <1>6, <3>1, <3>2, <3>3, <3>4
  <2> QED
    BY <2>2, <2>3 DEF Fewer
<1> QED
  BY <1>7, <1>8, <1>9, <1>10, <1>11 DEF Geometry

\* The published prefix of the staging table ends where the publishing does.
LEMMA CoveredReach ==
    ASSUME Geometry, NEW r, r = ReachOf(CoveredPrefix(staging, Landed))
    PROVE  r \in Nat /\ r <= through + 1
<1>1. through \in Nat /\ through + 1 \in Nat
  BY GeometryFacts
<1>2. PICK C : C = CoveredPrefix(staging, Landed)
  OBVIOUS
<1>3. ASSUME NEW f \in C PROVE f.end \in Nat /\ f.end <= through + 1
  <2>1. f \in staging
    BY <1>2 DEF CoveredPrefix
  <2>2. f.start \in Nat /\ f.end \in Nat /\ f.start < f.end
    BY <2>1, GeometryFacts
  <2>3. Covered(Landed, f)
    BY <1>2, <2>1, <2>2 DEF CoveredPrefix
  <2>4. Rows(Landed) = 0 .. through
    <3>1. PICK x : x = [start |-> 0, end |-> through + 1]
      OBVIOUS
    <3>2. Span(x) = 0 .. through
      BY <1>1, <3>1 DEF Span
    <3>3. Landed = {x}
      BY <3>1 DEF Landed
    <3>4. Rows({x}) = Span(x)
      BY DEF Rows
    <3> QED
      BY <3>2, <3>3, <3>4
  <2>5. PICK e \in Nat : e = f.end - 1
    BY <2>2
  <2>6. e \in Span(f)
    BY <2>2, <2>5 DEF Span
  <2>7. e \in 0 .. through
    BY <2>3, <2>4, <2>6 DEF Covered
  <2> QED
    BY <1>1, <2>2, <2>5, <2>7
<1> QED
  BY <1>1, <1>2, <1>3, ReachFacts

\* evict_buffer.
LEMMA EvictRowsGeometry ==
    ASSUME Geometry, NEW lo \in Nat, NEW hi \in Nat, EvictRows(lo, hi), UNCHANGED <<seq, cut, staging, published, meta, asked, cleared>>
    PROVE  Geometry'
<1>1. PICK r : r = ReachOf(CoveredPrefix(staging, Landed))
  OBVIOUS
<1>2. r \in Nat /\ r <= through + 1
  BY <1>1, CoveredReach
<1>3. PICK l : l = Min({hi, r})
  OBVIOUS
<1>4. l <= r
  <2>1. PICK M : M = {hi, r}
    OBVIOUS
  <2>2. M \subseteq Nat /\ M # {} /\ r \in M
    BY <1>2, <2>1
  <2> QED
    BY <1>3, <2>1, <2>2, MinOfNaturals
<1>5. l \in Nat
  BY <1>2, <1>3, MinOfNaturals
<1>6. buffer' = {o \in buffer : o < lo \/ o >= l}
  BY <1>1, <1>3 DEF EvictRows
<1>7. l <= through + 1 /\ buffer' \subseteq buffer /\ \A o \in buffer : o >= l => o \in buffer'
  BY <1>2, <1>4, <1>5, <1>6, GeometryFacts
<1> QED
  BY <1>5, <1>7, DropRows DEF meta

\* evict, with or without what may still be merged or is owed a swap.
LEMMA EvictFilesGeometry ==
    ASSUME Geometry, NEW everything \in BOOLEAN, NEW top \in Nat, EvictFiles(everything, top),
           UNCHANGED <<asked, cleared>>
    PROVE  /\ Geometry' /\ staging' \subseteq staging
           /\ UNCHANGED <<seq, cut, buffer, published, through, owed, closed, holder>>
<1>1. PICK keep : keep = IF everything THEN {} ELSE (staging \ Settled(staging)) \cup (owed \cap staging)
  OBVIOUS
<1>2. PICK r : r = ReachOf(CoveredPrefix(staging, Landed))
  OBVIOUS
<1>3. PICK M : M = {top, r} \cup {f.start : f \in keep}
  OBVIOUS
<1>4. PICK l : l = Min(M)
  OBVIOUS
<1>5. PICK G : G = Below(staging, l)
  OBVIOUS
<1>6. /\ staging' = staging \ G /\ tier' = IF G = {} THEN tier ELSE Widened(G)
      /\ UNCHANGED <<seq, cut, buffer, published, through, owed, closed, holder>>
  BY <1>1, <1>2, <1>3, <1>4, <1>5 DEF EvictFiles, Below
<1>7. r \in Nat /\ r <= through + 1
  BY <1>2, CoveredReach
<1>8. keep \subseteq staging
  BY <1>1
<1>9. M \subseteq Nat /\ r \in M
  <2>1. \A f \in keep : f.start \in Nat
    BY <1>8, GeometryFacts
  <2> QED
    BY <1>3, <1>7, <2>1
<1>10. l \in Nat /\ l <= r
  BY <1>4, <1>9, MinOfNaturals
<1>11. l <= through + 1
  BY <1>7, <1>10, GeometryFacts
<1>12. Geometry'
  BY <1>5, <1>6, <1>10, <1>11, DropFiles
<1> QED
  BY <1>6, <1>12

\* A floor is a boundary of all the files it was taken from, at or below what
\* was asked ...
LEMMA SnappedIs ==
    ASSUME NEW F, \A f \in F : f.start \in Nat /\ f.end \in Nat, NEW m \in Nat,
           NEW l, l = Snapped(F, m)
    PROVE  l \in Nat /\ l <= m /\ Parted(F, l)
<1>1. PICK B : B = Boundaries(F, m)
  OBVIOUS
<1>2. B \subseteq 0..m /\ 0 \in B
  BY <1>1 DEF Boundaries
<1>3. l \in B
  BY <1>1, <1>2, MaxOfNaturals DEF Snapped
<1>4. l \in Nat /\ l <= m
  BY <1>2, <1>3
<1>5. \A f \in F : ~(f.start < l /\ l < f.end)
  BY <1>1, <1>3 DEF Boundaries
<1> QED
  BY <1>4, <1>5 DEF Parted

\* ... and that of a truncate is at or below what is published.
LEMMA FloorIs ==
    ASSUME Geometry, NEW below \in Nat, NEW l, l = Floor(below)
    PROVE  l \in Nat /\ l <= below /\ l <= through + 1 /\ Parted(staging \cup published, l)
<1>1. PICK b \in Nat : b = through + 1
  BY GeometryFacts
<1>2. PICK m : m = Min({below, b})
  OBVIOUS
<1>3. m \in Nat /\ m <= below /\ m <= b
  BY <1>2, TwoBetween
<1>4. l = Snapped(staging \cup published, m)
  BY <1>1, <1>2 DEF Floor
<1>5. \A f \in staging \cup published : f.start \in Nat /\ f.end \in Nat
  BY GeometryFacts
<1>6. l \in Nat /\ l <= m /\ Parted(staging \cup published, l)
  BY <1>3, <1>4, <1>5, SnappedIs
<1> QED
  BY <1>1, <1>3, <1>6

\* What a read of the whole log returns, from whichever tiers it reads, is each
\* row shown, once: the tiers that a query joins meet with no gap and no
\* overlap, and a tier row that sends it past the published table hides nothing.
LEMMA ServedIs ==
    ASSUME Geometry, NEW o \in 1..MaxOffset
    PROVE  Served(o) = One(Shown(o))
<1>1. /\ seq \in Nat /\ cut \in Nat /\ through \in Nat /\ through + 1 <= cut /\ cut <= seq + 1
      /\ Lined(staging, cut, published, through) /\ o \in Nat /\ 1 <= o
  BY GeometryFacts, LogTiersAssumption
<1>2. /\ Tiles(staging, cut) /\ Tiles(published, through + 1) /\ through + 1 \in Nat
      /\ \A x \in through + 1 .. cut - 1 : Holds(staging, x)
      /\ \A x \in 1..through : Holds(staging, x) => Holds(published, x)
  BY <1>1 DEF Lined
<1>3. Times(staging, o) = One(Holds(staging, o)) /\ Times(published, o) = One(Holds(published, o))
  BY <1>1, <1>2, TimesIs
<1>4. /\ o \in buffer => o <= seq
      /\ cut <= o /\ o <= seq => o \in buffer
      /\ o <= through /\ o \in buffer => Holds(published, o)
  <2>1. buffer \subseteq 1..seq /\ (\A x \in cut..seq : x \in buffer)
    BY DEF Geometry, Ordered
  <2>2. \A x \in 1..through : x \in buffer => Holds(published, x)
    BY DEF Geometry, Lines
  <2> QED
    BY <1>1, <2>1, <2>2
<1>5. ASSUME NEW f \in staging \cup published
      PROVE  f.start \in Nat /\ f.end \in Nat /\ f.end <= cut
  BY GeometryFacts
<1>6. Holds(staging, o) => o < cut
  <2>1. ASSUME NEW f \in staging, o \in Span(f) PROVE o < cut
    BY <1>1, <1>5, <2>1 DEF Span
  <2> QED
    BY <2>1 DEF Holds
<1>7. Holds(published, o) => o <= through
  <2>1. ASSUME NEW f \in published, o \in Span(f) PROVE o <= through
    <3>1. f.start \in Nat /\ f.end \in Nat /\ f.end <= through + 1
      BY GeometryFacts
    <3> QED
      BY <1>1, <2>1, <3>1 DEF Span
  <2> QED
    BY <2>1 DEF Holds
<1>8. Shown(o) <=> o <= seq /\ (through < o \/ Holds(published, o))
  BY <1>1 DEF Shown
<1>9. CASE staging # {}
  <2>1. PICK a \in Nat : a = First(staging).start
    BY <1>5, <1>9, FirstIs
  <2>2. First(staging) \in staging /\ \A g \in staging : a <= g.start
    BY <1>5, <1>9, <2>1, FirstIs
  <2>3. SpanEnd = cut
    BY <1>1, <1>2, <1>9, TilesReach DEF SpanEnd
  <2>4. Served(o) = One(Holds(staging, o)) + One(o \in buffer /\ o >= cut)
                      + (IF PublishedNeeded /\ o < a THEN One(Holds(published, o)) ELSE 0)
    BY <1>3, <1>9, <2>1, <2>3 DEF Served
  <2>5. a < cut
    BY <1>1, <2>1, <2>2, GeometryFacts
  <2>6. o < a => ~Holds(staging, o)
    <3>1. ASSUME NEW f \in staging, o \in Span(f) PROVE a <= o
      BY <1>5, <2>1, <2>2, <3>1 DEF Span
    <3> QED
      BY <1>1, <2>1, <3>1 DEF Holds
  <2>7. a <= o /\ o < cut => Holds(staging, o)
    <3>1. ASSUME a <= o, o < cut PROVE Holds(staging, o)
      <4>1. o \in First(staging).start .. cut - 1
        BY <1>1, <2>1, <3>1
      <4> QED
        BY <1>2, <2>2, <4>1 DEF Tiles
    <3> QED
      BY <3>1
  <2>8. CASE cut <= o
    <3>1. ~Holds(staging, o) /\ ~(o < a) /\ through < o /\ (o \in buffer <=> o <= seq)
      BY <1>1, <1>4, <1>6, <2>1, <2>5, <2>8
    <3> QED
      BY <1>8, <2>4, <2>8, <3>1 DEF One
  <2>9. CASE a <= o /\ o < cut
    <3>1. Holds(staging, o) /\ ~(o >= cut) /\ ~(o < a) /\ o <= seq
      BY <1>1, <2>1, <2>7, <2>9
    <3>2. through < o \/ Holds(published, o)
      <4>1. o <= through => o \in 1..through
        BY <1>1
      <4> QED
        BY <1>1, <1>2, <3>1, <4>1
    <3>3. Shown(o)
      BY <1>8, <3>1, <3>2
    <3> QED
      BY <2>4, <3>1, <3>3 DEF One
  <2>10. CASE o < a
    <3>1. ~Holds(staging, o) /\ ~(o >= cut) /\ o <= seq
      BY <1>1, <2>1, <2>5, <2>6, <2>10
    <3>2. o <= through
      <4>1. ~(o <= through) => o \in through + 1 .. cut - 1
        BY <1>1, <3>1
      <4> QED
        BY <1>2, <3>1, <4>1
    <3>3. Shown(o) <=> Holds(published, o)
      BY <1>1, <1>8, <3>1, <3>2
    <3>4. CASE PublishedNeeded
      BY <2>4, <2>10, <3>1, <3>3, <3>4 DEF One
    <3>5. CASE ~PublishedNeeded
      <4>1. ~Holds(published, o)
        <5> SUFFICES ASSUME NEW p \in published, o \in Span(p) PROVE FALSE
          BY DEF Holds
        <5>1. tier.has /\ tier.end <= tier.start
          BY <3>5 DEF PublishedNeeded, Geometry, Rowed
        <5>2. PICK f \in staging : f.start <= p.start
          BY <5>1 DEF Geometry, Rowed
        <5>3. p.start <= o /\ p.start \in Nat /\ f.start \in Nat
          BY <1>1, <1>5 DEF Span
        <5> QED
          BY <1>1, <2>1, <2>2, <2>10, <5>2, <5>3
      <4> QED
        BY <2>4, <3>1, <3>3, <3>5, <4>1 DEF One
    <3> QED
      BY <3>4, <3>5
  <2> QED
    BY <1>1, <2>1, <2>8, <2>9, <2>10
<1>10. CASE staging = {}
  <2>1. cut = through + 1
    <3> SUFFICES ASSUME through + 1 < cut PROVE FALSE
      BY <1>1
    <3>1. through + 1 \in through + 1 .. cut - 1
      BY <1>1
    <3>2. Holds(staging, through + 1)
      BY <1>2, <3>1
    <3> QED
      BY <1>10, <3>2 DEF Holds
  <2>2. CASE PublishedNeeded
    <3>1. PublishedEnd = through + 1
      BY <1>2, <2>2, TilesReach DEF PublishedEnd, PublishedNeeded
    <3>2. Served(o) = One(Holds(published, o)) + One(o \in buffer /\ o >= through + 1)
      BY <1>3, <1>10, <2>2, <3>1 DEF Served
    <3>3. CASE o <= through
      <4>1. ~(o >= through + 1) /\ o <= seq /\ ~(through < o)
        BY <1>1, <3>3
      <4> QED
        BY <1>8, <3>2, <4>1 DEF One
    <3>4. CASE ~(o <= through)
      <4>1. ~Holds(published, o) /\ o >= through + 1 /\ through < o /\ (o \in buffer <=> o <= seq)
        BY <1>1, <1>4, <1>7, <2>1, <3>4
      <4> QED
        BY <1>8, <3>2, <4>1 DEF One
    <3> QED
      BY <3>3, <3>4
  <2>3. CASE ~PublishedNeeded
    <3>1. Served(o) = One(o \in buffer)
      BY <1>10, <2>3 DEF Served
    <3>2. published = {}
      BY <1>10, <2>3 DEF PublishedNeeded, Geometry, Rowed
    <3>3. ~Holds(published, o)
      BY <3>2 DEF Holds
    <3>4. o \in buffer <=> o <= seq /\ through < o
      BY <1>1, <1>4, <2>1, <3>3
    <3> QED
      BY <1>8, <3>1, <3>3, <3>4 DEF One
  <2> QED
    BY <2>2, <2>3
<1> QED
  BY <1>9, <1>10

-----------------------------------------------------------------------------
\* The log's operations.

\* Where the floor lies, and which tiers have nothing below it any more.
Bounded == floor <= through + 1 /\ floor <= asked /\ Parted(staging \cup published, floor)
BufferCut == \A o \in buffer : floor <= o
StagingCut == \A f \in staging : floor <= f.start
PublishedCut == \A p \in published : floor <= p.start

\* A truncate under way, by the step it is at.
Truncating ==
    /\ tpc \in {"idle", "buffer", "staging", "published", "row"} /\ floor \in Nat
    /\ Free <=> tpc = "idle"
    /\ tpc # "idle" => Bounded
    /\ tpc \in {"staging", "published", "row"} => BufferCut
    /\ tpc \in {"published", "row"} => StagingCut
    /\ tpc = "row" => PublishedCut

\* A retire under way, and what a retired log is.
Retiring ==
    /\ closed \in Nat /\ (closed # 0 => closed = seq + 1)
    /\ rpc # "idle" \/ empty => closed # 0
    /\ rpc \in {"property", "empty"} \/ empty => staging = {} /\ buffer = {}
    /\ rpc = "empty" \/ empty => retired.is /\ retired.through \in {0, seq}

\* The inductive invariant of the live log.
RetireInv == Geometry /\ Truncating /\ Retiring

\* What ordinary work leaves alone.
Beside == UNCHANGED <<tpc, floor, asked, cleared, rpc, retired, empty>>

\* A step that finds the claim free, and leaves it free.
LEMMA FreeTruncating ==
    ASSUME Truncating, Free, UNCHANGED <<holder, tpc, floor>>
    PROVE  Truncating'
BY DEF Truncating, Free

\* The ordinary work beside a truncate and a retire.
LEMMA MaintainStep ==
    ASSUME RetireInv, Maintain, Beside
    PROVE  RetireInv' /\ (More \/ Same)
<1>1. Geometry /\ Truncating /\ Retiring /\ UNCHANGED <<asked, cleared>>
  BY DEF RetireInv, Beside
<1>2. CASE AppendRow
  <2>1. /\ seq' = seq + 1 /\ buffer' = buffer \cup {seq + 1} /\ closed = 0
        /\ UNCHANGED <<cut, staging, published, through, closed, holder>>
    BY <1>2 DEF AppendRow, meta
  <2>2. Geometry'
    BY <1>1, <1>2, AppendGeometry
  <2>3. seq \in Nat /\ through \in Nat /\ through + 1 <= seq + 1
    BY <1>1, GeometryFacts
  <2>4. Truncating'
    <3>1. tpc # "idle" /\ BufferCut => BufferCut'
      BY <1>1, <2>1, <2>3 DEF Truncating, BufferCut, Beside, Bounded
    <3> QED
      BY <1>1, <2>1, <3>1 DEF Truncating, Beside, Bounded, StagingCut, PublishedCut, Free
  <2>5. Retiring'
    BY <1>1, <2>1 DEF Retiring, Beside
  <2>6. More
    <3>1. Shown(seq)'
      <4>1. seq + 1 \in 1..seq + 1 /\ through < seq + 1
        BY <2>3
      <4> QED
        BY <2>1, <4>1 DEF Shown
    <3>2. ASSUME NEW o \in 1..seq PROVE Shown(o)' <=> Shown(o)
      <4>1. o \in 1..seq + 1
        BY <2>3
      <4> QED
        BY <2>1, <4>1 DEF Shown
    <3> QED
      BY <2>1, <3>1, <3>2 DEF More
  <2> QED
    BY <2>2, <2>4, <2>5, <2>6 DEF RetireInv
<1>3. CASE Seal
  <2>1. Unfiled # {} /\ SealRows /\ Free
    BY <1>3 DEF Seal
  <2>2. UNCHANGED <<seq, buffer, published, through, closed, holder>>
    BY <2>1 DEF SealRows, meta
  <2>3. Geometry' /\ buffer # {}
    BY <1>1, <2>1, SealGeometry
  <2>4. Truncating'
    BY <1>1, <2>1, <2>2, FreeTruncating DEF Beside
  <2>5. Retiring'
    BY <1>1, <2>2, <2>3 DEF Retiring, Beside
  <2> QED
    BY <2>2, <2>3, <2>4, <2>5, SameIs DEF RetireInv
<1>4. CASE Compact
  <2>1. Free /\ CompactRun(FALSE)
    BY <1>4 DEF Compact
  <2>2. Geometry' /\ staging # {} /\ UNCHANGED <<seq, buffer, published, through, closed, holder>>
    BY <1>1, <2>1, CompactGeometry
  <2>3. Truncating'
    BY <1>1, <2>1, <2>2, FreeTruncating DEF Beside
  <2>4. Retiring'
    BY <1>1, <2>2 DEF Retiring, Beside
  <2> QED
    BY <2>2, <2>3, <2>4, SameIs DEF RetireInv
<1>5. CASE Publish
  <2>1. Free /\ \E flush \in BOOLEAN : Push(flush, FALSE)
    BY <1>5 DEF Publish
  <2>2. PICK flush \in BOOLEAN : Push(flush, FALSE)
    BY <2>1
  <2>3. /\ Geometry' /\ UNCHANGED <<seq, cut, buffer, staging, closed, holder>>
        /\ \A o \in 1..seq : Shown(o)' <=> Shown(o)
    BY <1>1, <2>2, PushGeometry
  <2>4. Truncating'
    BY <1>1, <2>1, <2>3, FreeTruncating DEF Beside
  <2>5. Retiring'
    BY <1>1, <2>3 DEF Retiring, Beside
  <2> QED
    BY <2>3, <2>4, <2>5 DEF RetireInv, Same
<1>6. CASE EvictBuffer
  <2>1. PICK lo, hi \in buffer : EvictRows(lo, hi + 1)
    BY <1>6 DEF EvictBuffer
  <2>7. lo \in Nat /\ hi + 1 \in Nat /\ UNCHANGED <<seq, cut, staging, published, meta, closed, holder>>
    <3>1. buffer \subseteq 1..seq /\ seq \in Nat
      BY <1>1 DEF RetireInv, Geometry, Ordered
    <3> QED
      BY <1>6, <2>1, <3>1 DEF EvictBuffer
  <2>8. UNCHANGED <<asked, cleared>>
    BY <1>1 DEF Beside
  <2>2. Geometry'
    BY <1>1, <2>1, <2>7, <2>8, EvictRowsGeometry
  <2>3. buffer' \subseteq buffer
    BY <2>1 DEF EvictRows
  <2>4. UNCHANGED <<seq, staging, published, through, closed, holder>>
    BY <2>7 DEF meta
  <2>5. Truncating'
    BY <1>1, <2>3, <2>4 DEF Truncating, Beside, Bounded, BufferCut, StagingCut, PublishedCut, Free
  <2>6. Retiring'
    BY <1>1, <2>3, <2>4 DEF Retiring, Beside
  <2> QED
    BY <2>2, <2>4, <2>5, <2>6, SameIs DEF RetireInv
<1>7. CASE Evict
  <2>1. Free /\ \E f \in staging : EvictFiles(FALSE, f.end)
    BY <1>7 DEF Evict
  <2>6. PICK f \in staging : EvictFiles(FALSE, f.end)
    BY <2>1
  <2>5. f.end \in Nat
    BY <1>1, <2>6, GeometryFacts
  <2>2. /\ Geometry' /\ staging' \subseteq staging
        /\ UNCHANGED <<seq, cut, buffer, published, through, owed, closed, holder>>
    BY <1>1, <2>5, <2>6, EvictFilesGeometry DEF Beside
  <2>3. Truncating'
    BY <1>1, <2>1, <2>2, FreeTruncating DEF Beside
  <2>4. Retiring'
    BY <1>1, <2>2 DEF Retiring, Beside
  <2> QED
    BY <2>2, <2>3, <2>4, SameIs DEF RetireInv
<1> QED
  BY <1>2, <1>3, <1>4, <1>5, <1>6, <1>7 DEF Maintain

\* A step that hides nothing hides all below the first offset.
LEMMA SameIsFewer ==
    ASSUME Geometry, Same
    PROVE  Fewer
<1>1. seq \in Nat /\ 1 \in 1..seq + 1
  BY GeometryFacts
<1>2. \A o \in 1..seq : 1 <= o
  BY <1>1
<1> QED
  BY <1>1, <1>2 DEF Same, Fewer

\* A truncate takes its claim and its floor.
LEMMA TruncateLookStep ==
    ASSUME RetireInv, NEW below \in Nat, TruncateLook(below)
    PROVE  RetireInv' /\ Same
<1>1. Geometry /\ Truncating /\ Retiring
  BY DEF RetireInv
<1>2. /\ tpc' = "buffer" /\ floor' = Floor(below) /\ asked' = Max({asked, below}) /\ holder' = "truncate"
      /\ UNCHANGED <<seq, cut, buffer, staging, published, through, owed, tier, closed, cleared,
                     rpc, retired, empty>>
  BY DEF TruncateLook, tables, meta, retiring
<1>3. PICK l : l = Floor(below)
  OBVIOUS
<1>4. l \in Nat /\ l <= below /\ l <= through + 1 /\ Parted(staging \cup published, l)
  BY <1>1, <1>3, FloorIs
<1>5. PICK a : a = Max({asked, below})
  OBVIOUS
<1>6. asked \in Nat /\ through \in Nat
  BY <1>1, GeometryFacts
<1>7. a \in Nat /\ asked <= a /\ below <= a
  BY <1>5, <1>6, TwoBetween
<1>8. asked' = a /\ floor' = l
  BY <1>2, <1>3, <1>5
<1>9. Geometry'
  <2>1. Ordered'
    BY <1>1, <1>2, <1>7, <1>8 DEF Geometry, Ordered
  <2>2. Lines' /\ Rowed'
    BY <1>1, <1>2 DEF Geometry, Lines, Rowed
  <2>3. ASSUME NEW o \in 1..through PROVE Holds(published, o) \/ o < a
    <3>1. o \in Nat /\ (Holds(published, o) \/ o < asked)
      BY <1>1, <1>6 DEF Geometry, History
    <3> QED
      BY <1>6, <1>7, <3>1
  <2>4. History'
    BY <1>1, <1>2, <1>8, <2>3 DEF Geometry, History
  <2> QED
    BY <2>1, <2>2, <2>4 DEF Geometry
<1>10. Truncating'
  <2>1. Bounded'
    <3>1. l <= a
      BY <1>4, <1>7
    <3> QED
      BY <1>2, <1>4, <1>8, <3>1 DEF Bounded, Parted
  <2> QED
    BY <1>2, <1>4, <1>8, <2>1 DEF Truncating, Free
<1>11. Retiring'
  BY <1>1, <1>2 DEF Retiring
<1> QED
  BY <1>2, <1>9, <1>10, <1>11, SameIs DEF RetireInv

\* A truncate, tier by tier: what it hides it hides in one step, that of the
\* published table.
LEMMA TruncateStep ==
    ASSUME RetireInv, Truncate
    PROVE  RetireInv' /\ (Same \/ Fewer)
<1>1. Geometry /\ Truncating /\ Retiring /\ floor \in Nat /\ through \in Nat /\ asked \in Nat /\ cleared \in Nat
  BY GeometryFacts DEF RetireInv, Truncating
<1>2. CASE TruncateBuffer
  <2>1. /\ tpc = "buffer" /\ tpc' = "staging" /\ buffer' = {o \in buffer : o >= floor}
        /\ UNCHANGED <<seq, cut, staging, published, through, tier, closed, holder, floor, asked,
                       cleared, rpc, retired, empty>>
    BY <1>2 DEF TruncateBuffer, meta, retiring
  <2>2. Bounded
    BY <1>1, <2>1 DEF Truncating
  <2>3. Geometry'
    BY <1>1, <2>1, <2>2, DropRows DEF Bounded
  <2>4. Truncating'
    <3>1. BufferCut'
      <4>1. \A o \in buffer' : floor <= o
        <5>1. buffer \subseteq 1..seq /\ seq \in Nat
          BY <1>1 DEF Geometry, Ordered
        <5> QED
          BY <1>1, <2>1, <5>1
      <4> QED
        BY <2>1, <4>1 DEF BufferCut
    <3> QED
      BY <1>1, <2>1, <2>2, <3>1 DEF Truncating, Bounded, Free
  <2>5. Retiring'
    BY <1>1, <2>1 DEF Retiring
  <2> QED
    BY <2>1, <2>3, <2>4, <2>5, SameIs DEF RetireInv
<1>3. CASE TruncateStaging
  <2>0. PICK G : G = Below(staging, floor)
    OBVIOUS
  <2>1. /\ tpc = "staging" /\ tpc' = "published" /\ staging' = staging \ G
        /\ tier' = IF G = {} THEN tier ELSE Widened(G)
        /\ UNCHANGED <<seq, cut, buffer, published, through, closed, holder, floor, asked,
                       cleared, rpc, retired, empty>>
    BY <1>3, <2>0 DEF TruncateStaging, retiring, Below
  <2>2. Bounded /\ BufferCut
    BY <1>1, <2>1 DEF Truncating
  <2>3. Geometry'
    BY <1>1, <2>0, <2>1, <2>2, DropFiles DEF Bounded
  <2>4. Truncating'
    <3>1. StagingCut'
      <4>1. \A f \in staging' : floor <= f.start
        BY <2>0, <2>1, <2>2 DEF Bounded, Parted, Below
      <4> QED
        BY <2>1, <4>1 DEF StagingCut
    <3>2. Bounded' /\ BufferCut'
      BY <2>1, <2>2 DEF Bounded, Parted, BufferCut
    <3> QED
      BY <1>1, <2>1, <3>1, <3>2 DEF Truncating, Free
  <2>5. Retiring'
    BY <1>1, <2>1 DEF Retiring
  <2> QED
    BY <2>1, <2>3, <2>4, <2>5, SameIs DEF RetireInv
<1>4. CASE TruncatePublished
  <2>1. /\ tpc = "published" /\ tpc' = "row" /\ published' = {f \in published : f.end > floor}
        /\ UNCHANGED <<seq, cut, buffer, staging, through, tier, closed, holder, floor, asked,
                       cleared, rpc, retired, empty>>
    BY <1>4 DEF TruncatePublished, meta, retiring
  <2>2. Bounded /\ BufferCut /\ StagingCut
    BY <1>1, <2>1 DEF Truncating
  <2>3. Geometry' /\ Fewer
    <3>1. asked' = asked /\ floor <= asked' /\ asked <= asked' /\ asked' \in Nat
      BY <1>1, <2>1, <2>2 DEF Bounded
    <3>2. Parted(published, floor)
      BY <2>2 DEF Bounded, Parted
    <3> QED
      BY <1>1, <2>1, <2>2, <3>1, <3>2, DropPublished DEF Bounded, BufferCut, StagingCut
  <2>4. Truncating'
    <3>1. PublishedCut'
      <4>1. ASSUME NEW f \in published' PROVE floor <= f.start
        <5>1. f \in published /\ f.end > floor /\ f.end \in Nat
          BY <1>1, <2>1, GeometryFacts
        <5> QED
          BY <1>1, <2>2, <5>1 DEF Bounded, Parted
      <4> QED
        BY <2>1, <4>1 DEF PublishedCut
    <3>2. Bounded' /\ BufferCut' /\ StagingCut'
      BY <2>1, <2>2 DEF Bounded, Parted, BufferCut, StagingCut
    <3> QED
      BY <1>1, <2>1, <3>1, <3>2 DEF Truncating, Free
  <2>5. Retiring'
    BY <1>1, <2>1 DEF Retiring
  <2> QED
    BY <2>3, <2>4, <2>5 DEF RetireInv
<1>5. CASE TruncateRow
  <2>1. /\ tpc = "row" /\ tpc' = "idle" /\ holder' = "none" /\ floor' = 0
        /\ tier' = IF published = {} /\ ~tier.has THEN tier ELSE Exact(published, staging)
        /\ cleared' = Max({cleared, floor})
        /\ UNCHANGED <<seq, cut, buffer, staging, published, through, closed, asked, rpc, retired, empty>>
    BY <1>5 DEF TruncateRow, tables, retiring
  <2>2. Bounded /\ PublishedCut
    BY <1>1, <2>1 DEF Truncating
  <2>3. PICK m : m = Max({cleared, floor})
    OBVIOUS
  <2>4. m \in Nat /\ m \in {cleared, floor}
    BY <1>1, <2>3, TwoBetween
  <2>5. Ordered' /\ Lines'
    BY <1>1, <2>1, <2>3, <2>4 DEF Geometry, Ordered, Lines
  <2>6. Rowed'
    <3>1. PICK x : x = Exact(published, staging)
      OBVIOUS
    <3>2. \A f \in staging \cup published :
            f.start \in Nat /\ f.end \in Nat /\ f.start < f.end /\ f.end <= cut
      BY <1>1, GeometryFacts
    <3>3. cut \in Nat
      BY <1>1, GeometryFacts
    <3>4. /\ x \in [has : BOOLEAN, start : Nat, end : Nat]
          /\ x.end <= x.start => \A p \in published : \E f \in staging : f.start <= p.start
      BY <3>1, <3>2, <3>3, ExactCovers
    <3>5. tier' = tier \/ tier' = x
      BY <2>1, <3>1
    <3> QED
      BY <1>1, <2>1, <3>4, <3>5 DEF Geometry, Rowed
  <2>7. History'
    <3>1. ASSUME NEW o \in 1..m - 1 PROVE o <= through /\ ~Holds(published, o)
      <4>1. CASE m = cleared
        BY <1>1, <4>1 DEF Geometry, History
      <4>2. CASE m = floor
        <5>1. o \in Nat /\ o < floor /\ o <= through
          BY <1>1, <2>2, <2>4, <4>2 DEF Bounded
        <5>2. ASSUME NEW p \in published, o \in Span(p) PROVE FALSE
          <6>1. p.start \in Nat /\ p.end \in Nat /\ floor <= p.start
            BY <1>1, <2>2, GeometryFacts DEF PublishedCut
          <6> QED
            BY <1>1, <5>1, <5>2, <6>1 DEF Span
        <5> QED
          BY <5>1, <5>2 DEF Holds
      <4> QED
        BY <2>4, <4>1, <4>2
    <3> QED
      BY <1>1, <2>1, <2>3, <3>1 DEF Geometry, History
  <2>8. Truncating'
    BY <2>1 DEF Truncating, Free
  <2>9. Retiring'
    BY <1>1, <2>1 DEF Retiring
  <2> QED
    BY <2>1, <2>5, <2>6, <2>7, <2>8, <2>9, SameIs DEF RetireInv, Geometry
<1> QED
  BY <1>2, <1>3, <1>4, <1>5 DEF Truncate

\* What keeps the tables keeps the invariant of them.
LEMMA GeometryKept ==
    ASSUME Geometry, UNCHANGED <<seq, cut, buffer, staging, published, through, tier, asked, cleared>>
    PROVE  Geometry'
BY DEF Geometry, Ordered, Lines, Rowed, History

\* The same of a truncate under way.
LEMMA TruncatingKept ==
    ASSUME Truncating, UNCHANGED <<buffer, staging, published, through, holder, tpc, floor, asked>>
    PROVE  Truncating'
BY DEF Truncating, Bounded, BufferCut, StagingCut, PublishedCut, Free

\* A truncate that dies half way leaves the tiers in line.
LEMMA TruncateStopStep ==
    ASSUME RetireInv, TruncateStop
    PROVE  RetireInv' /\ Same
<1>1. /\ tpc' = "idle" /\ holder' = "none" /\ floor' = 0
      /\ UNCHANGED <<seq, cut, buffer, staging, published, through, tier, closed, asked, cleared,
                     rpc, retired, empty>>
  BY DEF TruncateStop, tables, meta, retiring
<1>2. Geometry'
  BY <1>1, GeometryKept DEF RetireInv
<1>3. Truncating'
  BY <1>1 DEF Truncating, Free
<1>4. Retiring'
  BY <1>1 DEF RetireInv, Retiring
<1> QED
  BY <1>1, <1>2, <1>3, <1>4, SameIs DEF RetireInv

\* The steps of a retire that only move it on.
LEMMA MovesOn ==
    ASSUME RetireInv, UNCHANGED <<tvars, truncating, retired, empty>>,
           rpc' # "idle" => closed # 0,
           rpc' \in {"property", "empty"} => staging = {} /\ buffer = {},
           rpc' = "empty" => rpc = "empty"
    PROVE  RetireInv' /\ Same
<1>1. UNCHANGED <<seq, cut, buffer, staging, published, through, tier, closed, holder, tpc, floor,
                  asked, cleared, retired, empty>>
  BY DEF tvars, tables, meta, truncating
<1>2. Geometry'
  BY <1>1, GeometryKept DEF RetireInv
<1>3. Truncating'
  BY <1>1, TruncatingKept DEF RetireInv
<1>4. Retiring'
  BY <1>1 DEF RetireInv, Retiring
<1> QED
  BY <1>1, <1>2, <1>3, <1>4, SameIs DEF RetireInv

\* A routine that a retire runs, and the step it goes on to.
LEMMA Routine ==
    ASSUME RetireInv, rpc # "idle", rpc \notin {"property", "empty"},
           rpc' \in {"seal", "compact", "push", "evictbuffer", "evict", "check"},
           UNCHANGED <<tpc, floor, asked, cleared, retired, empty, seq, closed, holder>>,
           staging' \subseteq staging \/ staging # {} \/ buffer # {},
           buffer' \subseteq buffer
    PROVE  Retiring'
BY DEF RetireInv, Retiring

\* With nothing staged or buffered every row was published.
LEMMA EmptyIsPublished ==
    ASSUME Geometry, staging = {}, buffer = {}
    PROVE  through = seq
<1>1. /\ seq \in Nat /\ cut \in Nat /\ through \in Nat /\ through + 1 <= cut /\ cut <= seq + 1
      /\ Lined(staging, cut, published, through)
  BY GeometryFacts
<1>2. ~(cut <= seq)
  <2> SUFFICES ASSUME cut <= seq PROVE FALSE
    OBVIOUS
  <2>1. cut \in cut..seq
    BY <1>1
  <2> QED
    BY <2>1 DEF Geometry, Ordered
<1>3. ~(through + 1 < cut)
  <2> SUFFICES ASSUME through + 1 < cut PROVE FALSE
    OBVIOUS
  <2>1. through + 1 \in through + 1 .. cut - 1
    BY <1>1
  <2>2. Holds(staging, through + 1)
    BY <1>1, <2>1 DEF Lined
  <2> QED
    BY <2>2 DEF Holds
<1> QED
  BY <1>1, <1>2, <1>3

\* A retire, routine by routine: none hides a row.
LEMMA ResumeStep ==
    ASSUME RetireInv, Resume
    PROVE  RetireInv' /\ Same
<1>1. Geometry /\ Truncating /\ Retiring
  BY DEF RetireInv
<1>2. ASSUME NEW x, Goto(x)
      PROVE  /\ rpc' = x /\ UNCHANGED <<truncating, retired, empty>>
             /\ UNCHANGED <<tpc, floor, asked, cleared>>
  BY <1>2 DEF Goto, truncating
<1>3. ASSUME Raise, rpc # "idle" PROVE RetireInv' /\ Same
  <2>1. rpc' = "idle" /\ UNCHANGED <<tvars, truncating, retired, empty>>
    BY <1>2, <1>3 DEF Raise
  <2> QED
    BY <2>1, MovesOn
<1>4. ASSUME NEW x, Skip(x), rpc # "idle", x \notin {"property", "empty"} PROVE RetireInv' /\ Same
  <2>1. rpc' = x /\ UNCHANGED <<tvars, truncating, retired, empty>>
    BY <1>2, <1>4 DEF Skip
  <2>2. closed # 0
    BY <1>1, <1>4 DEF Retiring
  <2> QED
    BY <1>4, <2>1, <2>2, MovesOn
<1>5. CASE RetireSeal
  <2>1. CASE Unfiled = {} /\ Skip("publish")
    BY <1>4, <1>5, <2>1 DEF RetireSeal
  <2>2. CASE Raise
    BY <1>3, <1>5, <2>2 DEF RetireSeal
  <2>3. CASE Unfiled # {} /\ Free /\ SealRows /\ Goto("seal")
    <3>1. rpc' = "seal" /\ rpc = "seal" /\ UNCHANGED <<tpc, floor, asked, cleared, retired, empty>>
      BY <1>2, <1>5, <2>3 DEF RetireSeal
    <3>2. Geometry' /\ buffer # {}
      BY <1>1, <2>3, <3>1, SealGeometry
    <3>3. UNCHANGED <<seq, buffer, published, through, closed, holder>>
      BY <2>3 DEF SealRows, meta
    <3>4. Truncating'
      BY <1>1, <2>3, <3>1, <3>3, FreeTruncating
    <3>5. Retiring'
      BY <3>1, <3>2, <3>3, Routine
    <3> QED
      BY <3>2, <3>3, <3>4, <3>5, SameIs DEF RetireInv
  <2> QED
    BY <1>5, <2>1, <2>2, <2>3 DEF RetireSeal
<1>6. ASSUME NEW finish \in BOOLEAN, NEW x, x \in {"compact", "evictbuffer"},
             rpc \in {"publish", "push"}, Free, Push(TRUE, finish), Goto(x)
      PROVE  RetireInv' /\ Same
  <2>1. rpc' = x /\ UNCHANGED <<tpc, floor, asked, cleared, retired, empty>>
    BY <1>2, <1>6
  <2>2. /\ Geometry' /\ UNCHANGED <<seq, cut, buffer, staging, closed, holder>>
        /\ \A o \in 1..seq : Shown(o)' <=> Shown(o)
    BY <1>1, <1>6, <2>1, PushGeometry
  <2>3. Truncating'
    BY <1>1, <1>6, <2>1, <2>2, FreeTruncating
  <2>4. Retiring'
    BY <1>6, <2>1, <2>2, Routine
  <2> QED
    BY <2>2, <2>3, <2>4 DEF RetireInv, Same
<1>7. CASE RetirePublish
  BY <1>3, <1>6, <1>7 DEF RetirePublish
<1>8. CASE RetireCompact
  <2>1. CASE Free /\ CompactRun(TRUE) /\ Goto("push")
    <3>1. rpc' = "push" /\ rpc = "compact" /\ UNCHANGED <<tpc, floor, asked, cleared, retired, empty>>
      BY <1>2, <1>8, <2>1 DEF RetireCompact
    <3>2. Geometry' /\ staging # {} /\ UNCHANGED <<seq, buffer, published, through, closed, holder>>
      BY <1>1, <2>1, <3>1, CompactGeometry
    <3>3. Truncating'
      BY <1>1, <2>1, <3>1, <3>2, FreeTruncating
    <3>4. Retiring'
      BY <3>1, <3>2, Routine
    <3> QED
      BY <3>2, <3>3, <3>4, SameIs DEF RetireInv
  <2>2. CASE Skip("push")
    BY <1>4, <1>8, <2>2 DEF RetireCompact
  <2> QED
    BY <1>8, <2>1, <2>2 DEF RetireCompact
<1>9. CASE RetirePush
  BY <1>3, <1>6, <1>9 DEF RetirePush
<1>10. CASE RetireEvictBuffer
  <2>1. /\ rpc = "evictbuffer" /\ rpc' = "evict" /\ EvictRows(1, seq + 1)
        /\ UNCHANGED <<seq, cut, staging, published, meta, closed, holder>>
        /\ UNCHANGED <<tpc, floor, asked, cleared, retired, empty>>
    BY <1>2, <1>10 DEF RetireEvictBuffer
  <2>2. Geometry'
    <3>1. seq + 1 \in Nat /\ 1 \in Nat
      BY <1>1, GeometryFacts
    <3> QED
      BY <1>1, <2>1, <3>1, EvictRowsGeometry
  <2>3. buffer' \subseteq buffer
    BY <2>1 DEF EvictRows
  <2>4. UNCHANGED <<seq, staging, published, through, closed, holder>>
    BY <2>1 DEF meta
  <2>5. Truncating'
    BY <1>1, <2>1, <2>3, <2>4 DEF Truncating, Bounded, BufferCut, StagingCut, PublishedCut, Free
  <2>6. Retiring'
    BY <2>1, <2>3, <2>4, Routine
  <2> QED
    BY <2>2, <2>4, <2>5, <2>6, SameIs DEF RetireInv
<1>11. CASE RetireEvict
  <2>1. CASE Free
    <3>1. /\ rpc = "evict" /\ rpc' = "check" /\ EvictFiles(TRUE, seq + 1)
          /\ UNCHANGED <<tpc, floor, asked, cleared, retired, empty>>
      BY <1>2, <1>11, <2>1 DEF RetireEvict
    <3>2. /\ Geometry' /\ staging' \subseteq staging
          /\ UNCHANGED <<seq, cut, buffer, published, through, owed, closed, holder>>
      <4>1. seq + 1 \in Nat
        BY <1>1, GeometryFacts
      <4> QED
        BY <1>1, <3>1, <4>1, EvictFilesGeometry
    <3>3. Truncating'
      BY <1>1, <2>1, <3>1, <3>2, FreeTruncating
    <3>4. Retiring'
      BY <3>1, <3>2, Routine
    <3> QED
      BY <3>2, <3>3, <3>4, SameIs DEF RetireInv
  <2>2. CASE ~Free
    <3>1. rpc = "evict" /\ Skip("check")
      BY <1>11, <2>2 DEF RetireEvict, Skip
    <3> QED
      BY <1>4, <3>1
  <2> QED
    BY <2>1, <2>2
<1>12. CASE RetireCheck
  <2>1. CASE Raise
    BY <1>3, <1>12, <2>1 DEF RetireCheck
  <2>2. CASE ~Raise
    <3>1. /\ rpc = "check" /\ rpc' = "property" /\ staging = {} /\ buffer = {}
          /\ UNCHANGED <<tvars, truncating, retired, empty>>
      BY <1>2, <1>12, <2>2 DEF RetireCheck, Skip
    <3>2. closed # 0
      BY <1>1, <3>1 DEF Retiring
    <3> QED
      BY <3>1, <3>2, MovesOn
  <2> QED
    BY <2>1, <2>2
<1>13. CASE RetireProperty
  <2>1. CASE Raise
    BY <1>3, <1>13, <2>1 DEF RetireProperty
  <2>2. CASE ~Raise
    <3>1. /\ rpc = "property" /\ rpc' = "empty"
          /\ retired' = [is |-> TRUE, through |-> IF published = {} THEN 0 ELSE PublishedEnd - 1]
          /\ UNCHANGED <<seq, cut, buffer, staging, published, through, tier, closed, holder, tpc,
                         floor, asked, cleared, empty>>
      BY <1>13, <2>2 DEF RetireProperty, tvars, tables, meta, truncating
    <3>2. staging = {} /\ buffer = {} /\ closed # 0
      BY <1>1, <3>1 DEF Retiring
    <3>3. PICK n : n = IF published = {} THEN 0 ELSE PublishedEnd - 1
      OBVIOUS
    <3>4. through = seq
      BY <1>1, <3>2, EmptyIsPublished
    <3>5. n \in {0, seq}
      <4>1. CASE published # {}
        <5>1. Tiles(published, through + 1) /\ through + 1 \in Nat /\ seq \in Nat
          BY <1>1, GeometryFacts DEF Lined
        <5>2. PublishedEnd = through + 1
          BY <4>1, <5>1, TilesReach DEF PublishedEnd
        <5> QED
          BY <3>3, <3>4, <4>1, <5>1, <5>2
      <4> QED
        BY <3>3, <4>1
    <3>6. retired'.is /\ retired'.through \in {0, seq}
      BY <3>1, <3>3, <3>5
    <3>7. Geometry'
      BY <1>1, <3>1, GeometryKept
    <3>8. Truncating'
      BY <1>1, <3>1, TruncatingKept
    <3>9. Retiring'
      BY <1>1, <3>1, <3>2, <3>6 DEF Retiring
    <3> QED
      BY <3>1, <3>7, <3>8, <3>9, SameIs DEF RetireInv
  <2> QED
    BY <2>1, <2>2
<1>14. CASE RetireEmpty
  <2>1. /\ rpc = "empty" /\ rpc' = "idle" /\ empty' = TRUE
        /\ UNCHANGED <<seq, cut, buffer, staging, published, through, tier, closed, holder, tpc,
                       floor, asked, cleared, retired>>
    BY <1>14 DEF RetireEmpty, tvars, tables, meta, truncating
  <2>2. Geometry'
    BY <1>1, <2>1, GeometryKept
  <2>3. Truncating'
    BY <1>1, <2>1, TruncatingKept
  <2>4. Retiring'
    BY <1>1, <2>1 DEF Retiring
  <2> QED
    BY <2>1, <2>2, <2>3, <2>4, SameIs DEF RetireInv
<1> QED
  BY <1>5, <1>7, <1>8, <1>9, <1>10, <1>11, <1>12, <1>13, <1>14 DEF Resume

\* Every step of the live log.
LEMMA RetireStep ==
    ASSUME RetireInv, Next
    PROVE  RetireInv' /\ (More \/ Fewer)
<1>1. Geometry /\ Truncating /\ Retiring
  BY DEF RetireInv
<1>2. CASE Maintain /\ UNCHANGED <<truncating, retiring, failures>>
  BY <1>1, <1>2, MaintainStep, SameIsFewer DEF Beside, truncating, retiring
<1>3. ASSUME NEW below \in 1..MaxOffset + 1, TruncateLook(below) PROVE RetireInv' /\ Same
  <2>1. below \in Nat
    BY LogTiersAssumption
  <2> QED
    BY <1>3, <2>1, TruncateLookStep
<1>4. CASE Truncate
  BY <1>1, <1>4, TruncateStep, SameIsFewer
<1>5. CASE TruncateStop
  BY <1>1, <1>5, TruncateStopStep, SameIsFewer
<1>6. CASE RetireClose
  <2>1. /\ rpc = "idle" /\ ~empty /\ rpc' = "seal"
        /\ closed' = IF closed = 0 THEN seq + 1 ELSE closed
        /\ UNCHANGED <<seq, cut, buffer, staging, published, through, tier, holder, tpc, floor,
                       asked, cleared, retired, empty>>
    BY <1>6 DEF RetireClose, Goto, tables, meta, truncating
  <2>2. seq \in Nat
    BY <1>1, GeometryFacts
  <2>3. Geometry'
    BY <1>1, <2>1, GeometryKept
  <2>4. Truncating'
    BY <1>1, <2>1, TruncatingKept
  <2>5. Retiring'
    BY <1>1, <2>1, <2>2 DEF Retiring
  <2> QED
    BY <1>1, <2>1, <2>3, <2>4, <2>5, SameIs, SameIsFewer DEF RetireInv
<1>7. CASE Resume
  BY <1>1, <1>7, ResumeStep, SameIsFewer
<1>8. CASE RetireStop
  <2>1. rpc' = "idle" /\ UNCHANGED <<tvars, truncating, retired, empty>>
    BY <1>8 DEF RetireStop
  <2> QED
    BY <1>1, <2>1, MovesOn, SameIsFewer
<1> QED
  BY <1>1, <1>2, <1>3, <1>4, <1>5, <1>6, <1>7, <1>8, SameIsFewer DEF Next

\* The inductive invariant of the log, live and retired.
LogInv == RetireInv /\ (dpc # "live" => empty)

\* A new log.
LEMMA LogInvInit == RetiredInit => LogInv
<1> SUFFICES ASSUME RetiredInit PROVE LogInv
  OBVIOUS
<1>1. /\ seq = 0 /\ cut = 1 /\ buffer = {} /\ staging = {} /\ published = {} /\ through = 0
      /\ tier = [has |-> FALSE, start |-> 0, end |-> 0] /\ closed = 0 /\ holder = "none"
      /\ tpc = "idle" /\ floor = 0 /\ asked = 0 /\ cleared = 0
      /\ rpc = "idle" /\ retired = [is |-> FALSE, through |-> 0] /\ empty = FALSE /\ dpc = "live"
  BY DEF RetiredInit, Init, TiersInit, LocalInit
<1>2. Ordered
  BY <1>1, LogTiersAssumption DEF Ordered
<1>3. Lines
  BY <1>1 DEF Lines, Lined, Tiles
<1>4. Rowed /\ History
  BY <1>1 DEF Rowed, History
<1>5. Truncating /\ Retiring
  BY <1>1 DEF Truncating, Retiring, Free
<1> QED
  BY <1>1, <1>2, <1>3, <1>4, <1>5 DEF LogInv, RetireInv, Geometry

\* A cut of a retired log, with all its rows in the published table.
LEMMA CutRetiredStep ==
    ASSUME LogInv, NEW below \in Nat, CutRetired(below)
    PROVE  LogInv' /\ Fewer
<1>1. Geometry /\ Truncating /\ Retiring /\ (dpc # "live" => empty)
  BY DEF LogInv, RetireInv
<1>2. PICK s : s = Snapped(published, below)
  OBVIOUS
<1>3. PICK a : a = Max({asked, below})
  OBVIOUS
<1>4. /\ dpc = "idle" /\ dpc' = "remove" /\ asked' = a
      /\ published' = published \ {f \in published : f.end <= s}
      /\ UNCHANGED <<seq, cut, buffer, staging, through, tier, closed, holder, tpc, floor, cleared,
                     rpc, retired, empty>>
  BY <1>2, <1>3 DEF CutRetired, meta, retiring
<1>5. empty /\ staging = {} /\ buffer = {}
  BY <1>1, <1>4 DEF Retiring
<1>6. \A f \in published : f.start \in Nat /\ f.end \in Nat /\ f.start < f.end /\ f.end <= through + 1
  BY <1>1, GeometryFacts
<1>7. s \in Nat /\ s <= below /\ Parted(published, s)
  BY <1>2, <1>6, SnappedIs
<1>8. through \in Nat /\ asked \in Nat
  BY <1>1, GeometryFacts
<1>9. a \in Nat /\ asked <= a /\ below <= a
  BY <1>3, <1>8, TwoBetween
<1>10. PICK l \in Nat : l = IF s <= through + 1 THEN s ELSE through + 1
  BY <1>7, <1>8
<1>11. l <= through + 1 /\ l <= s /\ l <= a
  BY <1>7, <1>8, <1>9, <1>10
<1>12. Parted(published, l)
  BY <1>6, <1>7, <1>8, <1>10 DEF Parted
<1>13. published' = {f \in published : f.end > l}
  <2>1. \A f \in published : ~(f.end <= s) <=> f.end > l
    BY <1>6, <1>7, <1>8, <1>10
  <2> QED
    BY <1>4, <2>1
<1>14. Geometry' /\ Fewer
  <2>1. asked' \in Nat /\ asked <= asked' /\ l <= asked'
    BY <1>4, <1>9, <1>11
  <2> QED
    BY <1>1, <1>4, <1>5, <1>11, <1>12, <1>13, <2>1, DropPublished
<1>15. Truncating'
  <2>1. CASE Free
    BY <1>1, <1>4, <2>1, FreeTruncating
  <2>2. CASE ~Free
    <3>1. tpc # "idle" /\ Bounded /\ floor \in Nat
      BY <1>1, <2>2 DEF Truncating
    <3>2. Bounded'
      <4>1. floor <= a
        BY <1>8, <1>9, <3>1 DEF Bounded
      <4>2. published' \subseteq published
        BY <1>4
      <4> QED
        BY <1>4, <3>1, <4>1, <4>2 DEF Bounded, Parted
    <3>3. published' \subseteq published
      BY <1>4
    <3> QED
      BY <1>1, <1>4, <3>2, <3>3 DEF Truncating, BufferCut, StagingCut, PublishedCut, Free
  <2> QED
    BY <2>1, <2>2
<1>16. Retiring'
  BY <1>1, <1>4 DEF Retiring
<1> QED
  BY <1>4, <1>5, <1>14, <1>15, <1>16 DEF LogInv, RetireInv

\* Every step keeps the invariant and shows one row more, or fewer from below.
LEMMA LogInvStep ==
    ASSUME LogInv, [RetiredNext]_rvars
    PROVE  LogInv' /\ (More \/ Fewer)
<1>1. ASSUME UNCHANGED tvars, UNCHANGED truncating, UNCHANGED retiring PROVE RetireInv' /\ Fewer
  <2>1. UNCHANGED <<seq, cut, buffer, staging, published, through, tier, closed, holder, tpc, floor,
                    asked, cleared, rpc, retired, empty>>
    BY <1>1 DEF tvars, tables, meta, truncating, retiring
  <2>2. Geometry'
    BY <2>1, GeometryKept DEF LogInv, RetireInv
  <2>3. Truncating'
    BY <2>1, TruncatingKept DEF LogInv, RetireInv
  <2>4. Retiring'
    BY <2>1 DEF LogInv, RetireInv, Retiring
  <2> QED
    BY <2>1, <2>2, <2>3, <2>4, SameIs, SameIsFewer DEF LogInv, RetireInv
<1>2. ASSUME UNCHANGED vars PROVE RetireInv' /\ Fewer
  BY <1>1, <1>2 DEF vars
<1>3. ASSUME UNCHANGED vars PROVE UNCHANGED empty
  BY <1>3 DEF vars, retiring
<1>4. CASE dpc = "live" /\ Next /\ UNCHANGED kept
  BY <1>4, RetireStep DEF LogInv, kept
<1>5. CASE RetiredBegin
  BY <1>2, <1>3, <1>5 DEF RetiredBegin, LogInv
<1>6. CASE \E below \in 1..MaxOffset + 1 : CutRetired(below)
  <2>1. PICK below \in 1..MaxOffset + 1 : CutRetired(below)
    BY <1>6
  <2>2. below \in Nat
    BY LogTiersAssumption
  <2> QED
    BY <2>1, <2>2, CutRetiredStep
<1>7. CASE RemovePast
  BY <1>2, <1>3, <1>7 DEF RemovePast, LogInv
<1>8. CASE ExpirePast
  BY <1>2, <1>3, <1>8 DEF ExpirePast, LogInv
<1>9. CASE DeleteBegin
  BY <1>2, <1>3, <1>9 DEF DeleteBegin, LogInv
<1>10. CASE DeleteOther
  BY <1>2, <1>3, <1>10 DEF DeleteOther, LogInv
<1>11. CASE DeleteHint
  BY <1>2, <1>3, <1>11 DEF DeleteHint, LogInv
<1>12. CASE DeleteLast
  BY <1>2, <1>3, <1>12 DEF DeleteLast, LogInv
<1>13. CASE RetiredStop
  <2>1. dpc # "live" /\ UNCHANGED tvars /\ UNCHANGED truncating /\ UNCHANGED retiring
    BY <1>13 DEF RetiredStop
  <2>2. UNCHANGED empty
    BY <2>1 DEF retiring
  <2> QED
    BY <1>1, <2>1, <2>2 DEF LogInv
<1>14. CASE UNCHANGED rvars
  BY <1>2, <1>3, <1>14 DEF rvars, kept, LogInv
<1> QED
  BY <1>4, <1>5, <1>6, <1>7, <1>8, <1>9, <1>10, <1>11, <1>12, <1>13, <1>14 DEF RetiredNext

\* The invariant holds.
LEMMA LogInvHolds == RetiredSpec => []LogInv
<1>1. LogInv /\ [RetiredNext]_rvars => LogInv'
  BY LogInvStep
<1> QED
  BY <1>1, LogInvInit, PTL DEF RetiredSpec

\* Whatever truncates and retires do, and wherever they stop, every row of the
\* log is read exactly once, but for published history below an offset that a
\* truncate was asked for.
THEOREM HistoryOnly == RetiredSpec => []OnlyHistoryGoes
<1>1. LogInv => OnlyHistoryGoes
  <2> SUFFICES ASSUME LogInv, NEW o \in 1..seq
               PROVE  Served(o) = 1 \/ (Served(o) = 0 /\ o < asked /\ o <= through)
    BY DEF OnlyHistoryGoes
  <2>1. Geometry /\ seq \in Nat /\ through \in Nat /\ seq <= MaxOffset
    BY GeometryFacts DEF LogInv, RetireInv, Geometry, Ordered
  <2>2. o \in 1..MaxOffset
    BY <2>1, LogTiersAssumption
  <2>3. Served(o) = One(Shown(o))
    BY <2>1, <2>2, ServedIs
  <2>4. CASE Shown(o)
    BY <2>3, <2>4 DEF One
  <2>5. CASE ~Shown(o)
    <3>1. o <= through /\ ~Holds(published, o)
      BY <2>1, <2>5 DEF Shown
    <3>2. o \in 1..through
      BY <2>1, <3>1
    <3>3. o < asked
      BY <2>1, <3>1, <3>2 DEF Geometry, History
    <3> QED
      BY <2>3, <2>5, <3>1, <3>3 DEF One
  <2> QED
    BY <2>4, <2>5
<1> QED
  BY <1>1, LogInvHolds, PTL

\* Below the floor that a truncate returned no row is read, then or later, from
\* any tier.
THEOREM ClearedStaysClear == RetiredSpec => []ClearedBelow
<1>1. LogInv => ClearedBelow
  <2> SUFFICES ASSUME LogInv, NEW o \in 1..cleared - 1 PROVE Served(o) = 0
    BY DEF ClearedBelow
  <2>1. /\ Geometry /\ seq \in Nat /\ through \in Nat /\ cleared \in Nat /\ seq <= MaxOffset
        /\ through + 1 <= seq + 1
    BY GeometryFacts DEF LogInv, RetireInv, Geometry, Ordered
  <2>2. o <= through /\ ~Holds(published, o)
    BY <2>1 DEF Geometry, History
  <2>3. o \in 1..MaxOffset /\ ~Shown(o)
    BY <2>1, <2>2, LogTiersAssumption DEF Shown
  <2> QED
    BY <2>1, <2>3, ServedIs DEF One
<1> QED
  BY <1>1, LogInvHolds, PTL

\* A log reads as retired only when no row is left outside its published table,
\* which holds all that was not cut and says where the log ended.
THEOREM RetiredIsWhole == RetiredSpec => []RetiredWhole
<1>1. LogInv => RetiredWhole
  <2> SUFFICES ASSUME LogInv, empty PROVE RetiredWhole
    BY DEF RetiredWhole
  <2>1. Geometry /\ Retiring /\ seq \in Nat /\ closed \in Nat /\ asked \in Nat
    BY GeometryFacts DEF LogInv, RetireInv, Retiring
  <2>2. closed = seq + 1 /\ staging = {} /\ buffer = {} /\ retired.is /\ retired.through \in {0, seq}
    BY <2>1 DEF Retiring
  <2>3. seq = closed - 1
    BY <2>1, <2>2
  <2>4. through = seq
    BY <2>1, <2>2, EmptyIsPublished
  <2>5. ASSUME NEW o \in Rows(published) PROVE o <= seq
    <3>1. PICK f \in published : o \in Span(f)
      BY DEF Rows
    <3>2. f.start \in Nat /\ f.end \in Nat /\ f.end <= through + 1
      BY <2>1, GeometryFacts
    <3> QED
      BY <2>1, <2>4, <3>1, <3>2 DEF Span
  <2>6. ASSUME NEW o \in 1..seq PROVE o \in Rows(published) \cup 0..asked - 1
    <3>1. Holds(published, o) \/ o < asked
      BY <2>1, <2>4 DEF Geometry, History
    <3> QED
      BY <2>1, <3>1 DEF Holds, Rows
  <2> QED
    BY <2>2, <2>3, <2>5, <2>6 DEF RetiredWhole
<1> QED
  BY <1>1, LogInvHolds, PTL

\* What a reader sees of an offset.
Seems(o) == IF o \notin 1..seq THEN 0 ELSE IF Shown(o) THEN 1 ELSE -1
Seeming == [o \in 1..MaxOffset |-> IF o <= seq /\ Served(o) = 0 THEN -1 ELSE Served(o)]

\* The reader of module Log, mapped.
LEMMA SeemingIs ==
    ASSUME Geometry, NEW o \in 1..MaxOffset
    PROVE  Seeming[o] = Seems(o)
<1>1. Served(o) = One(Shown(o)) /\ seq \in Nat /\ o \in Nat /\ 1 <= o
  BY ServedIs, GeometryFacts, LogTiersAssumption
<1>2. Seeming[o] = IF o <= seq /\ Served(o) = 0 THEN -1 ELSE Served(o)
  BY DEF Seeming
<1>3. Shown(o) => o <= seq
  BY <1>1 DEF Shown
<1>4. o \in 1..seq <=> o <= seq
  BY <1>1
<1> QED
  BY <1>1, <1>2, <1>3, <1>4 DEF Seems, One

\* The same, of every offset.
LEMMA SeemingAll == Geometry => \A o \in 1..MaxOffset : Seeming[o] = Seems(o)
BY SeemingIs

\* A row more is an append of module Log, fewer are a cut or nothing.
LEMMA SeemingStep ==
    ASSUME LogInv, LogInv', More \/ Fewer
    PROVE  [View!LogNext \/ View!LogCut]_Seeming
<1>1. Geometry /\ Geometry' /\ seq \in Nat /\ seq <= MaxOffset /\ MaxOffset \in Nat
  BY GeometryFacts, LogTiersAssumption DEF LogInv, RetireInv, Geometry, Ordered
<1>2. \A o \in 1..MaxOffset : Seeming[o] = Seems(o)
  BY <1>1, SeemingIs
<1>3. \A o \in 1..MaxOffset : Seeming'[o] = Seems(o)'
  <2>1. Geometry' => (\A o \in 1..MaxOffset : Seeming[o] = Seems(o))'
    BY SeemingAll, PTL
  <2> QED
    BY <1>1, <2>1
<1>4. Seeming = [o \in 1..MaxOffset |-> Seeming[o]] /\ Seeming' = [o \in 1..MaxOffset |-> Seeming'[o]]
  BY DEF Seeming
<1>5. CASE More
  <2>1. seq' = seq + 1 /\ Shown(seq)' /\ \A o \in 1..seq : Shown(o)' <=> Shown(o)
    BY <1>5 DEF More
  <2>2. ASSUME NEW o \in 1..MaxOffset, o # seq + 1 PROVE Seeming'[o] = Seeming[o]
    <3>1. o \in 1..seq' <=> o \in 1..seq
      BY <1>1, <2>1, <2>2
    <3>2. Seems(o)' = Seems(o)
      BY <2>1, <3>1 DEF Seems
    <3> QED
      BY <1>2, <1>3, <3>2
  <2>3. PICK s \in Nat : s = seq + 1
    BY <1>1
  <2>4. ASSUME s \in 1..MaxOffset PROVE Seeming'[s] = 1
    <3>1. s \in 1..seq' /\ Shown(s)'
      BY <2>1, <2>3 DEF Shown
    <3> QED
      BY <1>3, <2>4, <3>1 DEF Seems
  <2>5. ASSUME NEW p \in 1..MaxOffset, Seeming[p] # 0 PROVE p < s
    <3>1. p \in 1..seq
      BY <1>2, <2>5 DEF Seems
    <3> QED
      BY <1>1, <2>3, <3>1
  <2>6. PICK new : new = {o \in 1..MaxOffset : Seeming'[o] # Seeming[o]}
    OBVIOUS
  <2>7. \A o \in new : o = s
    BY <2>2, <2>3, <2>6
  <2>8. \A o \in new, p \in View!Seen : o > p
    BY <2>3, <2>5, <2>7 DEF View!Seen, Seeming
  <2>9. ASSUME NEW o \in 1..MaxOffset PROVE Seeming'[o] = IF o \in new THEN 1 ELSE Seeming[o]
    BY <2>4, <2>6, <2>7
  <2>10. Seeming' = [o \in 1..MaxOffset |-> IF o \in new THEN 1 ELSE Seeming[o]]
    BY <1>4, <2>9
  <2> QED
    BY <2>6, <2>8, <2>10 DEF View!LogNext, Seeming
<1>6. CASE Fewer
  <2>1. seq' = seq
    BY <1>6 DEF Fewer
  <2>2. PICK l \in 1..seq + 1 : \A o \in 1..seq : Shown(o)' <=> Shown(o) /\ l <= o
    BY <1>6 DEF Fewer
  <2>3. ASSUME NEW o \in 1..MaxOffset
        PROVE  Seeming'[o] = IF o < l /\ Seeming[o] # 0 THEN -1 ELSE Seeming[o]
    <3>1. CASE o \in 1..seq
      <4>1. Seems(o) = (IF Shown(o) THEN 1 ELSE -1) /\ Seems(o)' = (IF Shown(o)' THEN 1 ELSE -1)
        BY <2>1, <3>1 DEF Seems
      <4>2. l <= o <=> ~(o < l)
        BY <1>1, <3>1
      <4>3. Shown(o)' <=> Shown(o) /\ l <= o
        BY <2>2, <3>1
      <4> QED
        BY <1>2, <1>3, <4>1, <4>2, <4>3
    <3>2. CASE o \notin 1..seq
      <4>1. Seems(o) = 0 /\ Seems(o)' = 0
        BY <2>1, <3>2 DEF Seems
      <4> QED
        BY <1>2, <1>3, <4>1
    <3> QED
      BY <3>1, <3>2
  <2>4. CASE l = 1
    <3>1. \A o \in 1..MaxOffset : Seeming'[o] = Seeming[o]
      BY <1>1, <2>3, <2>4
    <3> QED
      BY <1>4, <3>1
  <2>5. CASE l # 1
    <3>1. PICK b \in 1..MaxOffset : b = l - 1
      BY <1>1, <2>2, <2>5
    <3>2. ASSUME NEW o \in 1..MaxOffset
          PROVE  Seeming'[o] = IF o <= b /\ o \in View!Seen THEN View!Gone ELSE Seeming[o]
      <4>1. o <= b <=> o < l
        BY <1>1, <2>2, <3>1
      <4>2. o \in View!Seen <=> Seeming[o] # 0
        BY DEF View!Seen, Seeming
      <4> QED
        BY <2>3, <4>1, <4>2 DEF View!Gone
    <3>3. Seeming' = [o \in 1..MaxOffset |-> IF o <= b /\ o \in View!Seen THEN View!Gone ELSE Seeming[o]]
      BY <1>4, <3>2
    <3> QED
      BY <3>1, <3>3 DEF View!LogCut, Seeming
  <2> QED
    BY <2>4, <2>5
<1> QED
  BY <1>5, <1>6

\* The three tiers under appends, seals, merges, pushes, evictions, truncates
\* and retires implement a log that is only appended to, or cut from below.
THEOREM LogOnlyCut == RetiredSpec => IsACutLog
<1>1. RetiredInit => View!LogInit
  <2> SUFFICES ASSUME RetiredInit PROVE View!LogInit
    OBVIOUS
  <2>1. LogInv /\ seq = 0
    BY LogInvInit DEF RetiredInit, Init, TiersInit, LocalInit
  <2>2. \A o \in 1..MaxOffset : Seeming[o] = 0
    <3>1. \A o : o \notin 1..seq
      BY <2>1
    <3> QED
      BY <2>1, <3>1, SeemingIs DEF LogInv, RetireInv, Seems
  <2>3. Seeming = [o \in 1..MaxOffset |-> Seeming[o]]
    BY DEF Seeming
  <2>4. Seeming = [o \in 1..MaxOffset |-> 0]
    BY <2>2, <2>3
  <2> QED
    BY <2>4 DEF View!LogInit, Seeming
<1>2. LogInv /\ LogInv' /\ [RetiredNext]_rvars => [View!LogNext \/ View!LogCut]_Seeming
  BY LogInvStep, SeemingStep
<1> QED
  BY <1>1, <1>2, LogInvHolds, PTL DEF RetiredSpec, IsACutLog, View!CutLogSpec, Seeming

-----------------------------------------------------------------------------
\* The prefix of a retired log.

\* Where a call on a retired log can be.
Steps == {"live", "idle", "remove", "expire", "delete", "hint", "last", "gone"}

\* The current files are on disk; what else is there a superseded snapshot
\* names, unless its removal has just been done.
CutInv ==
    /\ dpc = "live" => past = {}
    /\ dpc # "live" /\ objects = Objects =>
        /\ published \subseteq disk /\ disk \subseteq published \cup past
        /\ published \cap past = {}
        /\ dpc = "expire" => disk \cap past = {}

\* What a delete has left at each of its steps.
DeleteInv ==
    /\ objects \subseteq Objects
    /\ dpc # "live" /\ objects # {} => SaysRetired
    /\ dpc = "hint" => objects \subseteq {"hint", "current"}
    /\ dpc = "last" => objects \subseteq {"current"}

PrefixInv == dpc \in Steps /\ CutInv /\ DeleteInv

\* A log that is not retired has no prefix of its own to speak of.
LEMMA PrefixStart ==
    ASSUME RetiredInit
    PROVE  PrefixInv
BY DEF RetiredInit, PrefixInv, CutInv, DeleteInv, Steps

\* A cut, its removal and its expiry.
LEMMA CutStep ==
    ASSUME PrefixInv,
           (\E below \in 1..MaxOffset + 1 : CutRetired(below)) \/ RemovePast \/ ExpirePast
    PROVE  PrefixInv'
<1>1. UNCHANGED objects /\ dpc # "live" /\ dpc' \in {"remove", "expire", "idle"}
  BY DEF CutRetired, RemovePast, ExpirePast
<1>2. DeleteInv' /\ dpc' \in Steps
  BY <1>1 DEF PrefixInv, DeleteInv, SaysRetired, Steps
<1>3. CASE \E below \in 1..MaxOffset + 1 : CutRetired(below)
  <2>1. PICK gone : /\ gone \subseteq published /\ published' = published \ gone
                    /\ past' = past \cup gone /\ disk' = disk /\ dpc' = "remove"
    BY <1>3 DEF CutRetired
  <2>2. CutInv'
    BY <1>1, <2>1 DEF PrefixInv, CutInv
  <2> QED
    BY <1>2, <2>2 DEF PrefixInv
<1>4. CASE RemovePast
  <2>1. disk' = disk \ past /\ dpc' = "expire" /\ UNCHANGED <<past, published>>
    BY <1>4 DEF RemovePast, vars, tvars, tables
  <2>2. CutInv'
    BY <1>1, <2>1 DEF PrefixInv, CutInv
  <2> QED
    BY <1>2, <2>2 DEF PrefixInv
<1>5. CASE ExpirePast
  <2>1. past' = {} /\ dpc = "expire" /\ dpc' = "idle" /\ UNCHANGED <<disk, published>>
    BY <1>5 DEF ExpirePast, vars, tvars, tables
  <2>2. CutInv'
    BY <1>1, <2>1 DEF PrefixInv, CutInv
  <2> QED
    BY <1>2, <2>2 DEF PrefixInv
<1> QED
  BY <1>3, <1>4, <1>5

\* The steps of a delete.
LEMMA DeleteStep ==
    ASSUME PrefixInv, DeleteBegin \/ DeleteOther \/ DeleteHint \/ DeleteLast
    PROVE  PrefixInv'
<1>1. CASE DeleteBegin
  BY <1>1 DEF DeleteBegin, PrefixInv, CutInv, DeleteInv, SaysRetired, Steps, vars, tvars, tables
<1>2. CASE DeleteOther
  <2>1. objects \subseteq Objects /\ (objects # {} => SaysRetired)
    BY <1>2 DEF DeleteOther, PrefixInv, DeleteInv
  <2>2. CASE \E x \in objects \cap {"data1", "data2"} : objects' = objects \ {x} /\ dpc' = dpc
    <3>1. PICK x \in objects \cap {"data1", "data2"} : objects' = objects \ {x} /\ dpc' = dpc
      BY <2>2
    <3>2. objects' # Objects /\ objects' \subseteq Objects
      BY <2>1, <3>1 DEF Objects
    <3>3. "current" \in objects' /\ "hint" \in objects'
      BY <2>1, <3>1 DEF SaysRetired
    <3> QED
      BY <1>2, <3>1, <3>2, <3>3 DEF DeleteOther, PrefixInv, CutInv, DeleteInv, SaysRetired, Steps
  <2>3. CASE objects \cap {"data1", "data2"} = {} /\ objects' = objects \ {"superseded"} /\ dpc' = "hint"
    <3>1. objects' \subseteq {"hint", "current"} /\ objects' # Objects
      BY <2>1, <2>3 DEF Objects
    <3>2. objects' # {} => "current" \in objects'
      BY <2>1, <2>3 DEF SaysRetired
    <3> QED
      BY <2>3, <3>1, <3>2 DEF PrefixInv, CutInv, DeleteInv, SaysRetired, Steps, Objects
  <2> QED
    BY <1>2, <2>2, <2>3 DEF DeleteOther
<1>3. CASE DeleteHint
  <2>1. objects \subseteq {"hint", "current"} /\ objects' = objects \ {"hint"} /\ dpc' = "last"
    BY <1>3 DEF DeleteHint, PrefixInv, DeleteInv
  <2>2. objects' \subseteq {"current"} /\ objects' # Objects
    BY <2>1 DEF Objects
  <2> QED
    BY <2>1, <2>2 DEF PrefixInv, CutInv, DeleteInv, SaysRetired, Steps, Objects
<1>4. CASE DeleteLast
  BY <1>4 DEF DeleteLast, PrefixInv, CutInv, DeleteInv, SaysRetired, Steps, Objects
<1> QED
  BY <1>1, <1>2, <1>3, <1>4

\* Every step keeps the prefix: the log's own steps before its retirement, the
\* retirement, the cut and the delete, and a call that dies.
LEMMA PrefixStep ==
    ASSUME PrefixInv, [RetiredNext]_rvars
    PROVE  PrefixInv'
<1>1. CASE dpc = "live" /\ UNCHANGED kept
  BY <1>1 DEF kept, PrefixInv, CutInv, DeleteInv, Steps
<1>2. CASE RetiredBegin
  <2>1. /\ past' \cap published' = {} /\ disk' = published' \cup past'
        /\ objects' = Objects /\ dpc' = "idle"
    BY <1>2 DEF RetiredBegin, SwappedOut, vars, tvars, tables
  <2>2. CutInv'
    BY <2>1 DEF CutInv
  <2>3. DeleteInv'
    BY <2>1 DEF DeleteInv, SaysRetired, Objects
  <2> QED
    BY <2>1, <2>2, <2>3 DEF PrefixInv, Steps
<1>3. CASE RetiredStop
  BY <1>3 DEF RetiredStop, PrefixInv, CutInv, DeleteInv, SaysRetired, Steps, tvars, tables
<1>4. CASE UNCHANGED rvars
  BY <1>4 DEF rvars, kept, vars, tvars, tables, PrefixInv, CutInv, DeleteInv, SaysRetired
<1> QED
  BY <1>1, <1>2, <1>3, <1>4, CutStep, DeleteStep DEF RetiredNext

\* No data file of a retired log outlives the last snapshot that names it, and
\* none that the current one names is deleted, wherever a cut dies.
THEOREM CutFilesNamed == RetiredSpec => []RetiredFilesNamed
<1>1. PrefixInv => RetiredFilesNamed
  BY DEF PrefixInv, CutInv, RetiredFilesNamed
<1>2. RetiredSpec => []PrefixInv
  BY PrefixStart, PrefixStep, PTL DEF RetiredSpec
<1> QED
  BY <1>1, <1>2, PTL

\* Whatever a delete that died has left, the next one recognises as retired.
THEOREM DeleteIsResumed == RetiredSpec => []DeleteResumes
<1>1. PrefixInv => DeleteResumes
  BY DEF PrefixInv, DeleteInv, DeleteResumes
<1>2. RetiredSpec => []PrefixInv
  BY PrefixStart, PrefixStep, PTL DEF RetiredSpec
<1> QED
  BY <1>1, <1>2, PTL

-----------------------------------------------------------------------------
(***************************************************************************)
(* The offsets of a restored log.  It issues none twice, for every         *)
(* disaster, every reserve and any number of restores that stop half way,  *)
(* as long as none stops between its two reserves (StopsAnywhere).  The    *)
(* argument follows the sequence: the first reserve raises the replica's   *)
(* own record, which is kept aside (known), so that the second can still   *)
(* tell which of the two records of what was issued is the fresher.  A     *)
(* restore that stops earlier leaves the replica's sequence, one that      *)
(* stops later a sequence that is high enough already; either may be       *)
(* restored from again.                                                    *)
(***************************************************************************)

\* The lost machine's records are numbers, and each reserve covers what was
\* issued after the record it is for, where that is the fresher one.
Records ==
    /\ old \in Nat /\ issued \in Nat
    /\ replica.has \in BOOLEAN /\ replica.seq \in Nat
    /\ replica.has /\ issued <= replica.seq => old <= replica.seq + ReplicaReserve
    /\ ~replica.has \/ issued > replica.seq => old <= issued + PublishedReserve

\* The sequence is past every offset the old log issued.
High == seq >= old

\* What is known of the sequence at each step of the restore.
Recorded ==
    /\ pc \in {"start", "nothing", "forget", "strip", "reconcile", "reserve", "create", "rebuild",
               "adopt", "tail", "drop", "backfill", "done", "opened"}
    /\ seq \in Nat /\ known \in Nat
    /\ pc = "rebuild" => ~replica.has
    /\ pc \in {"forget", "strip"} => replica.has /\ (seq = replica.seq \/ High)
    /\ pc \in {"reconcile", "reserve"} => replica.has /\ (known = replica.seq + 1 \/ High)
    /\ pc = "create" => replica.has
    /\ pc = "create" \/ pc \in Openable => High

OffsetInv == Records /\ Recorded /\ NeverReissued

\* The greater of two numbers.
LEMMA MaxOfTwo ==
    ASSUME NEW a \in Int, NEW b \in Int
    PROVE  Max({a, b}) \in {a, b} /\ Max({a, b}) >= a /\ Max({a, b}) >= b
<1>1. PICK m \in {a, b} : \A y \in {a, b} : m >= y
  <2>1. CASE a >= b
    BY <2>1
  <2>2. CASE b >= a
    BY <2>2
  <2> QED
    BY <2>1, <2>2
<1> QED
  BY <1>1 DEF Max

\* What every disaster satisfies.
LEMMA RecordsStart ==
    ASSUME RestoreInit
    PROVE  Records
<1>1. old \in Nat
  BY RestoreAssumption DEF RestoreInit
<1>2. PICK p \in 0..old : issued \in p..old /\ replica \in Replicas(old, p)
  BY DEF RestoreInit
<1>3. p \in Nat /\ issued \in Nat
  BY <1>1, <1>2
<1>4. replica.has \in BOOLEAN /\ replica.seq \in Nat
  <2>1. CASE replica = NoReplica
    BY <2>1 DEF NoReplica
  <2>2. CASE replica # NoReplica
    <3>1. PICK t \in 0..p : \E r \in t..old, lo \in 1..t + 1 : \E w :
            replica = [has |-> TRUE, seq |-> r, through |-> t, buffer |-> lo..r, tier |-> w]
      BY <1>2, <2>2 DEF Replicas
    <3>2. t \in Nat
      BY <1>3
    <3>3. PICK r \in t..old : replica.has = TRUE /\ replica.seq = r
      BY <3>1
    <3>4. r \in Nat
      BY <1>1, <3>2
    <3>5. replica.seq \in Nat
      BY <3>3, <3>4
    <3>6. replica.has \in BOOLEAN
      BY <3>3
    <3> QED
      BY <3>5, <3>6
  <2> QED
    BY <2>1, <2>2
<1>5. replica.has /\ issued <= replica.seq => old <= replica.seq + ReplicaReserve
  BY DEF RestoreInit, Possible
<1>6. ~replica.has \/ issued > replica.seq => old <= issued + PublishedReserve
  BY DEF RestoreInit
<1> QED
  BY <1>1, <1>3, <1>4, <1>5, <1>6 DEF Records

\* A restore starts with offsets as they should be.
LEMMA OffsetStart ==
    ASSUME RestoreInit
    PROVE  OffsetInv
<1>1. Recorded /\ NeverReissued
  BY DEF RestoreInit, LocalInit, Recorded, NeverReissued, Openable
<1> QED
  BY <1>1, RecordsStart DEF OffsetInv

\* The step before the log exists that raises the sequence high enough: the
\* fresher record decides.
LEMMA ReserveIsHigh ==
    ASSUME OffsetInv, Reserve
    PROVE  seq' \in Nat /\ seq' >= old
<1>0. /\ old \in Nat /\ issued \in Nat /\ seq \in Nat /\ known \in Nat /\ replica.seq \in Nat
      /\ ReplicaReserve \in Nat /\ PublishedReserve \in Nat
      /\ replica.has /\ (known = replica.seq + 1 \/ seq >= old)
  BY RestoreAssumption DEF OffsetInv, Records, Recorded, High, Reserve
<1>1. PICK w \in Int : w = (IF issued + 1 > known THEN issued + 1 + PublishedReserve
                            ELSE known + ReplicaReserve)
  BY <1>0
<1>2. PICK v \in Int : v = w - 1
  OBVIOUS
<1>3. seq' = Max({seq, v})
  BY <1>1, <1>2 DEF Reserve
<1>4. seq' \in {seq, v} /\ seq' >= seq /\ seq' >= v
  <2>1. PICK a \in Int : a = seq
    BY <1>0
  <2>2. PICK m : m = Max({a, v})
    OBVIOUS
  <2>3. m \in {a, v} /\ m >= a /\ m >= v
    BY <2>2, MaxOfTwo
  <2>4. seq' = m
    BY <1>3, <2>1, <2>2
  <2> QED
    BY <2>1, <2>3, <2>4
<1>5. v \in Nat \/ seq' = seq
  BY <1>0, <1>4
<1>6. known = replica.seq + 1 => v >= old
  <2> SUFFICES ASSUME known = replica.seq + 1 PROVE v >= old
    OBVIOUS
  <2>1. CASE issued > replica.seq
    <3>1. old <= issued + PublishedReserve
      BY <2>1 DEF OffsetInv, Records
    <3> QED
      BY <1>0, <1>1, <1>2, <2>1, <3>1
  <2>2. CASE ~(issued > replica.seq)
    <3>1. old <= replica.seq + ReplicaReserve
      BY <1>0, <2>2 DEF OffsetInv, Records
    <3> QED
      BY <1>0, <1>1, <1>2, <2>2, <3>1
  <2> QED
    BY <2>1, <2>2
<1> QED
  BY <1>0, <1>4, <1>5, <1>6

\* With no replica, the new log starts above the published record's reserve.
LEMMA RebuildIsHigh ==
    ASSUME OffsetInv, Rebuild
    PROVE  seq' \in Nat /\ seq' >= old
<1>1. PICK n : n = issued + 1 + PublishedReserve
  OBVIOUS
<1>a. seq' = n - 1
  BY <1>1 DEF Rebuild, CreateLog
<1>2. ~replica.has /\ old \in Nat /\ issued \in Nat /\ PublishedReserve \in Nat
  BY RestoreAssumption DEF OffsetInv, Records, Recorded, Rebuild
<1>3. old <= issued + PublishedReserve
  BY <1>2 DEF OffsetInv, Records
<1> QED
  BY <1>1, <1>2, <1>3, <1>a

\* The work of an open log gives a row only the offset above the last one.
LEMMA WorkAppends ==
    ASSUME OffsetInv, Work
    PROVE  /\ seq' \in Nat /\ seq <= seq'
           /\ \A o \in buffer' \ buffer : o = seq + 1
<1>1. CASE AppendRow
  BY <1>1 DEF AppendRow, OffsetInv, Recorded
<1>2. CASE seq' = seq /\ buffer' \subseteq buffer
  BY <1>2 DEF OffsetInv, Recorded
<1> QED
  BY <1>1, <1>2 DEF Work, Maintain, Seal, SealRows, Compact, CompactRun, Publish, Push, EvictBuffer,
                    EvictRows, Evict, EvictFiles

\* And every step of it, or of the log it leaves, keeps them so.
LEMMA OffsetStep ==
    ASSUME ~StopsAnywhere, OffsetInv, [RestoreNext]_allvars
    PROVE  OffsetInv'
<1>0. /\ seq \in Nat /\ known \in Nat /\ old \in Nat /\ replica.seq \in Nat
      /\ ReplicaReserve \in Nat
  BY RestoreAssumption DEF OffsetInv, Records, Recorded
<1>1. CASE Pull
  <2>1. UNCHANGED <<lost, known, fresh>> /\ (pc' \in {"forget", "rebuild", "nothing"})
    BY <1>1 DEF Pull, Then
  <2>2. \/ pc' = "forget" /\ replica.has /\ seq' = replica.seq
        \/ pc' \in {"rebuild", "nothing"} /\ ~replica.has /\ seq' = seq
    BY <1>1 DEF Pull, Then, RestoreDatabase, tvars
  <2>3. Records' /\ NeverReissued'
    BY <2>1 DEF OffsetInv, Records, NeverReissued, lost
  <2>4. Recorded'
    BY <1>0, <2>1, <2>2 DEF OffsetInv, Recorded, High, Openable, lost
  <2> QED
    BY <2>3, <2>4 DEF OffsetInv
<1>2. CASE Forget
  <2>1. UNCHANGED <<lost, known, fresh, seq>> /\ pc = "forget" /\ pc' = "strip"
    BY <1>2 DEF Forget, Then
  <2> QED
    BY <2>1 DEF OffsetInv, Records, NeverReissued, Recorded, High, Openable, lost
<1>3. CASE Strip
  <2>1. /\ UNCHANGED <<lost, fresh>> /\ pc = "strip" /\ pc' = "reconcile"
        /\ seq' = seq + ReplicaReserve /\ known' = seq + 1
    BY <1>3 DEF Strip
  <2>2. Records' /\ NeverReissued'
    BY <2>1 DEF OffsetInv, Records, NeverReissued, lost
  <2>3. seq' \in Nat /\ known' \in Nat /\ (known' = replica.seq + 1 \/ seq' >= old) /\ replica.has
    BY <1>0, <2>1 DEF OffsetInv, Recorded, High
  <2>4. Recorded'
    BY <2>1, <2>3 DEF Recorded, High, Openable, lost
  <2> QED
    BY <2>2, <2>4 DEF OffsetInv
<1>4. CASE Reconcile
  <2>1. UNCHANGED <<lost, known, fresh, seq>> /\ pc = "reconcile" /\ pc' = "reserve"
    BY <1>4 DEF Reconcile, Then
  <2> QED
    BY <2>1 DEF OffsetInv, Records, NeverReissued, Recorded, High, Openable, lost
<1>5. CASE Reserve
  <2>1. UNCHANGED <<lost, known, fresh>> /\ pc' = "create"
    BY <1>5 DEF Reserve, Then
  <2>2. seq' \in Nat /\ seq' >= old
    BY <1>5, ReserveIsHigh
  <2>3. Records' /\ NeverReissued'
    BY <2>1 DEF OffsetInv, Records, NeverReissued, lost
  <2>4. Recorded'
    BY <1>0, <1>5, <2>1, <2>2 DEF OffsetInv, Recorded, Reserve, High, Openable, lost
  <2> QED
    BY <2>3, <2>4 DEF OffsetInv
<1>6. CASE Rebuild
  <2>1. UNCHANGED <<lost, known, fresh>> /\ pc' = "adopt"
    BY <1>6 DEF Rebuild, Then
  <2>2. seq' \in Nat /\ seq' >= old
    BY <1>6, RebuildIsHigh
  <2>3. Records' /\ NeverReissued'
    BY <2>1 DEF OffsetInv, Records, NeverReissued, lost
  <2>4. Recorded'
    BY <1>0, <2>1, <2>2 DEF Recorded, High, Openable, lost
  <2> QED
    BY <2>3, <2>4 DEF OffsetInv
<1>7. CASE Create \/ Adopt \/ RestoreTail \/ DropRow \/ Backfill
  <2>1. /\ UNCHANGED <<lost, known, fresh, seq>>
        /\ pc \in {"create", "adopt", "tail", "drop", "backfill"}
        /\ pc' \in {"tail", "drop", "backfill", "done"}
    BY <1>7 DEF Create, Adopt, RestoreTail, DropRow, Backfill, Then, tvars
  <2> QED
    BY <2>1 DEF OffsetInv, Records, NeverReissued, Recorded, High, Openable, lost
<1>8. CASE Stop
  <2>1. /\ UNCHANGED <<lost, known, fresh, seq>>
        /\ pc \notin {"start", "nothing", "done", "opened", "reconcile", "reserve"}
        /\ pc' = IF pc \in Openable THEN "opened" ELSE IF pc = "rebuild" THEN "start" ELSE "forget"
    BY <1>8 DEF Stop, tvars
  <2>2. pc \in Openable \/ pc \in {"forget", "strip", "create", "rebuild"}
    BY <2>1 DEF OffsetInv, Recorded, Openable
  <2> QED
    BY <2>1, <2>2 DEF OffsetInv, Records, NeverReissued, Recorded, High, Openable, lost
<1>9. CASE AdoptLate
  <2>1. UNCHANGED <<lost, known, fresh, seq, pc>>
    BY <1>9 DEF AdoptLate, restoring
  <2> QED
    BY <2>1 DEF OffsetInv, Records, NeverReissued, Recorded, High, lost
<1>10. CASE Work
  <2>1. /\ UNCHANGED <<lost, known, pc>> /\ pc \in Openable
        /\ fresh' = fresh \cup (buffer' \ buffer)
    BY <1>10 DEF Work, restoring
  <2>2. seq' \in Nat /\ seq <= seq' /\ \A o \in buffer' \ buffer : o = seq + 1
    BY <1>10, WorkAppends
  <2>3. seq >= old
    BY <2>1 DEF OffsetInv, Recorded, High
  <2>4. NeverReissued'
    BY <1>0, <2>1, <2>2, <2>3 DEF OffsetInv, NeverReissued, lost
  <2>5. Records'
    BY <2>1 DEF OffsetInv, Records, lost
  <2>6. Recorded'
    BY <1>0, <2>1, <2>2, <2>3 DEF OffsetInv, Recorded, High, Openable, lost
  <2> QED
    BY <2>4, <2>5, <2>6 DEF OffsetInv
<1>11. CASE UNCHANGED allvars
  BY <1>11 DEF OffsetInv, Records, NeverReissued, Recorded, High, allvars, tvars, lost, restoring
<1> QED
  BY <1>1, <1>2, <1>3, <1>4, <1>5, <1>6, <1>7, <1>8, <1>9, <1>10, <1>11 DEF RestoreNext

\* No offset that the lost machine gave a row names another row, whatever it
\* had issued since its last push and its last replica.
THEOREM NoOffsetTwice == ASSUME ~StopsAnywhere PROVE RestoreSpec => []NeverReissued
<1>1. OffsetInv => NeverReissued
  BY DEF OffsetInv
<1> QED
  BY <1>1, OffsetStart, OffsetStep, PTL DEF RestoreSpec

-----------------------------------------------------------------------------
(***************************************************************************)
(* The rows of a restored log.  What a disaster leaves has gaps: offsets   *)
(* that were issued and whose rows are gone, or never became durable.  So  *)
(* the tiers are in line here over the rows there are (InPlace), not over  *)
(* the offsets: a file has every row of its range, the files of a table    *)
(* are apart, and a published file is inside a staged one or apart from    *)
(* all of them.  Seal, merge, push, evict and append keep that, and so     *)
(* does each step of the restore once the root is a log; before that the   *)
(* database has the replica's rows, less the published ones (Database).    *)
(* Restores may stop anywhere and are run again.                           *)
(***************************************************************************)

\* A file of a log with rows R, which need not be every offset: it starts and
\* ends with a row, and has all the rows of its range.
FileIn(R, f) ==
    /\ f.start \in Nat /\ f.end \in Nat /\ 1 <= f.start /\ f.start < f.end
    /\ f.start \in R /\ f.end - 1 \in R /\ f.rows = Span(f) \cap R

\* A table of such files, no two of which meet.
TableIn(R, files) ==
    /\ \A f \in files : FileIn(R, f)
    /\ \A f, g \in files : f = g \/ Apart(f, g)

\* Every file ends below this offset.
Above(files, o) == \A f \in files : f.end <= o

\* Where the rows of a restored log are: below the published end all published,
\* above it staged or in no file yet (B); none missing between staged files; and
\* each published file inside a staged one or apart from all.
InPlace(R, B, S, P) ==
    /\ TableIn(R, S) /\ TableIn(R, P)
    /\ B \subseteq R /\ \A o \in B : Above(S \cup P, o)
    /\ \A o \in R : Holds(P, o) \/ (Above(P, o) /\ (o \in B \/ Holds(S, o)))
    /\ \A f \in S, o \in R : f.start <= o => o \in B \/ Holds(S, o)
    /\ \A p \in P, f \in S : Apart(p, f) \/ Inside(p, f)

\* Every file is one of the log.
LEMMA FilesIn ==
    ASSUME NEW R, NEW B, NEW S, NEW P, InPlace(R, B, S, P)
    PROVE  \A f \in S \cup P : FileIn(R, f)
BY DEF InPlace, TableIn

\* How the offsets of its files lie.
LEMMA PlaceSizes ==
    ASSUME NEW n \in Nat, NEW R, R \subseteq 1..n, NEW B, NEW S, NEW P, InPlace(R, B, S, P)
    PROVE  \A f \in S \cup P : /\ f.start \in Nat /\ f.end \in Nat /\ 1 <= f.start /\ f.start < f.end
                               /\ f.end <= n + 1
<1>1. \A f \in S \cup P : FileIn(R, f)
  BY FilesIn
<1>2. \A f \in S \cup P : /\ f.start \in Nat /\ f.end \in Nat /\ 1 <= f.start /\ f.start < f.end
                          /\ f.end - 1 \in 1..n
  BY <1>1 DEF FileIn
<1> QED
  BY <1>2

\* A row is in no file, or in one.
LEMMA TimesIn ==
    ASSUME NEW R, NEW S, TableIn(R, S), NEW o \in R, o \in Nat
    PROVE  Times(S, o) = One(Holds(S, o))
<1>1. PICK F : F = {f \in S : o \in f.rows}
  OBVIOUS
<1>2. F = {f \in S : o \in Span(f)}
  BY <1>1 DEF TableIn, FileIn
<1>3. CASE Holds(S, o)
  <2>1. PICK f \in S : o \in Span(f)
    BY <1>3 DEF Holds
  <2>2. ASSUME NEW g \in F PROVE g = f
    <3>1. g \in S /\ o \in Span(g)
      BY <1>2
    <3>2. /\ f = g \/ Apart(f, g)
          /\ f.start \in Nat /\ f.end \in Nat /\ g.start \in Nat /\ g.end \in Nat
      BY <3>1 DEF TableIn, FileIn
    <3> QED
      BY <2>1, <3>1, <3>2 DEF Apart, Span
  <2>3. F = {f}
    BY <1>2, <2>1, <2>2
  <2>4. Cardinality(F) = 1
    BY <2>3, FS_Singleton
  <2> QED
    BY <1>1, <1>3, <2>4 DEF Times, One
<1>4. CASE ~Holds(S, o)
  <2>1. F = {}
    BY <1>2, <1>4 DEF Holds
  <2>2. Cardinality(F) = 0
    BY <2>1, FS_EmptySet
  <2> QED
    BY <1>1, <1>4, <2>2 DEF Times, One
<1> QED
  BY <1>3, <1>4

\* A new row, above all others, is in no file yet.
LEMMA PlaceAppend ==
    ASSUME NEW n \in Nat, NEW R, R \subseteq 1..n, NEW B, NEW S, NEW P, InPlace(R, B, S, P),
           NEW m, m = n + 1
    PROVE  InPlace(R \cup {m}, B \cup {m}, S, P)
<1>1. \A f \in S \cup P : /\ f.start \in Nat /\ f.end \in Nat /\ 1 <= f.start /\ f.start < f.end
                          /\ f.end <= m
  BY PlaceSizes
<1>2. PICK Q : Q = R \cup {m}
  OBVIOUS
<1>3. ASSUME NEW f \in S \cup P PROVE FileIn(Q, f)
  <2>1. FileIn(R, f)
    BY DEF InPlace, TableIn
  <2>2. m \notin Span(f)
    BY <1>1 DEF Span
  <2>3. Span(f) \cap Q = Span(f) \cap R
    BY <1>2, <2>2
  <2> QED
    BY <1>2, <2>1, <2>3 DEF FileIn
<1>4. TableIn(Q, S) /\ TableIn(Q, P)
  BY <1>3 DEF InPlace, TableIn
<1>5. Above(S \cup P, m)
  BY <1>1 DEF Above
<1>6. Above(P, m)
  BY <1>1 DEF Above
<1>7. InPlace(Q, B \cup {m}, S, P)
  BY <1>2, <1>4, <1>5, <1>6, Zenon DEF InPlace
<1> QED
  BY <1>2, <1>7

\* What was in no file becomes one.
LEMMA PlaceSeal ==
    ASSUME NEW n \in Nat, NEW R, R \subseteq 1..n, NEW B, NEW S, NEW P, InPlace(R, B, S, P),
           B # {}, NEW f, f = FileOf(B)
    PROVE  InPlace(R, {}, S \cup {f}, P) /\ f.end \in Nat /\ 1 < f.end /\ Above(P, f.end)
<1>0. B \subseteq R /\ B \subseteq 0..n /\ B \subseteq Nat
  BY DEF InPlace
<1>1. PICK lo \in B : lo = Min(B) /\ \A y \in B : lo <= y
  BY <1>0, MinOfNaturals
<1>2. PICK hi \in B : hi = Max(B) /\ \A y \in B : y <= hi
  BY <1>0, MaxOfNaturals
<1>3. /\ f.start = lo /\ f.end = hi + 1 /\ f.rows = B
      /\ lo \in R /\ hi \in R /\ lo \in Nat /\ hi \in Nat /\ 1 <= lo /\ lo <= hi
  BY <1>0, <1>1, <1>2 DEF FileOf
<1>4. \A g \in S \cup P : /\ g.start \in Nat /\ g.end \in Nat /\ g.start < g.end /\ g.end <= lo
  <2>1. \A g \in S \cup P : g.end <= lo
    BY DEF InPlace, Above
  <2> QED
    BY <2>1, PlaceSizes
<1>5. ASSUME NEW o \in R, o \in Nat, lo <= o PROVE o \in B
  <2>1. ~Holds(S, o) /\ ~Holds(P, o)
    BY <1>3, <1>4, <1>5 DEF Holds, Span
  <2> QED
    BY <2>1 DEF InPlace
<1>6. Span(f) \cap R = B
  <2>1. Span(f) = lo..hi
    BY <1>3 DEF Span
  <2>2. \A o \in lo..hi : o \in Nat /\ lo <= o
    BY <1>3
  <2>3. \A o \in B : o \in R /\ o \in lo..hi
    BY <1>0, <1>1, <1>2
  <2> QED
    BY <1>5, <2>1, <2>2, <2>3
<1>7. FileIn(R, f)
  BY <1>3, <1>6 DEF FileIn
<1>8. \A g \in S : Apart(g, f) /\ Apart(f, g)
  BY <1>3, <1>4 DEF Apart
<1>9. TableIn(R, S \cup {f})
  BY <1>7, <1>8 DEF InPlace, TableIn
<1>10. \A o \in B : o \in Span(f)
  BY <1>6
<1>11. \A o \in R : o \in B \/ Holds(S, o) => Holds(S \cup {f}, o)
  BY <1>10 DEF Holds
<1>12. \A p \in P : Apart(p, f)
  BY <1>3, <1>4 DEF Apart
<1>13. ASSUME NEW o \in R, f.start <= o PROVE Holds(S \cup {f}, o)
  <2>1. o \in B
    BY <1>3, <1>5, <1>13
  <2> QED
    BY <1>11, <2>1
<1>14. InPlace(R, {}, S \cup {f}, P)
  <2>1. \A o \in R : Holds(P, o) \/ (Above(P, o) /\ Holds(S \cup {f}, o))
    BY <1>11 DEF InPlace
  <2>2. \A g \in S \cup {f}, o \in R : g.start <= o => Holds(S \cup {f}, o)
    BY <1>11, <1>13 DEF InPlace
  <2>3. \A p \in P, g \in S \cup {f} : Apart(p, g) \/ Inside(p, g)
    BY <1>12 DEF InPlace
  <2>4. TableIn(R, P)
    BY DEF InPlace
  <2> QED
    BY <1>9, <2>1, <2>2, <2>3, <2>4 DEF InPlace
<1>15. Above(P, f.end)
  <2> SUFFICES ASSUME NEW g \in P PROVE g.end <= f.end
    BY DEF Above
  <2>1. g.end \in Nat /\ g.end <= lo
    BY <1>4
  <2> QED
    BY <1>3, <2>1
<1> QED
  BY <1>3, <1>14, <1>15

\* Staged files go, up to a published row's offset.
LEMMA PlaceDrop ==
    ASSUME NEW n \in Nat, NEW R, R \subseteq 1..n, NEW B, NEW S, NEW P, InPlace(R, B, S, P),
           NEW l \in Nat, l <= 1 \/ \E p \in P : l <= p.end, NEW T, T = {f \in S : f.end > l}
    PROVE  InPlace(R, B, T, P)
<1>0. \A f \in S \cup P : FileIn(R, f)
  BY FilesIn
<1>1. \A f \in S \cup P : f.start \in Nat /\ f.end \in Nat /\ 1 <= f.start /\ f.start < f.end
  BY <1>0 DEF FileIn
<1>2. \A o \in R : o \in Nat
  OBVIOUS
<1>3. TableIn(R, T) /\ TableIn(R, P)
  BY DEF InPlace, TableIn
<1>4. ASSUME NEW o \in R, ~Holds(P, o) PROVE Above(P, o) /\ (o \in B \/ Holds(T, o))
  <2>1. Above(P, o) /\ (o \in B \/ Holds(S, o))
    BY <1>4 DEF InPlace
  <2>2. ASSUME NEW f \in S, o \in Span(f) PROVE f \in T
    <3>1. o < f.end /\ 1 < f.end
      BY <1>1, <1>2, <2>2 DEF Span
    <3>2. ASSUME NEW p \in P, l <= p.end PROVE f.end > l
      BY <1>1, <1>2, <2>1, <3>1, <3>2 DEF Above
    <3> QED
      BY <1>1, <3>1, <3>2
  <2> QED
    BY <2>1, <2>2 DEF Holds
<1>5. ASSUME NEW f \in T, NEW o \in R, f.start <= o, o \notin B PROVE Holds(T, o)
  <2>1. PICK g \in S : o \in Span(g)
    BY <1>5 DEF InPlace, Holds
  <2>2. f = g \/ Apart(f, g)
    BY DEF InPlace, TableIn
  <2>3. g.end > l
    BY <1>1, <1>2, <1>5, <2>1, <2>2 DEF Apart, Span
  <2> QED
    BY <2>1, <2>3 DEF Holds
<1>6. B \subseteq R /\ \A o \in B : Above(T \cup P, o)
  BY DEF InPlace, Above
<1>7. \A p \in P, f \in T : Apart(p, f) \/ Inside(p, f)
  BY DEF InPlace
<1> QED
  BY <1>3, <1>4, <1>5, <1>6, <1>7 DEF InPlace

\* A table with a run of files merged.
MergesTo(R, B, S, P, T) ==
    /\ InPlace(R, B, T, P)
    /\ \A f \in S : \E g \in T : g.start <= f.start

\* A run of neighbours merged into one file.
LEMMA PlaceMerge ==
    ASSUME NEW n \in Nat, NEW R, R \subseteq 1..n, NEW B, NEW S, NEW P, InPlace(R, B, S, P),
           NEW run, run \subseteq S, run # {}, Convex(run, S),
           NEW out, out = FileOf(Joined(run)), NEW T, T = (S \ run) \cup {out}
    PROVE  MergesTo(R, B, S, P, T)
<1>1. PICK J : J = Joined(run) /\ J = UNION {f.rows : f \in run}
  BY DEF Joined
<1>2. /\ \A f \in S \cup P : /\ f.start \in Nat /\ f.end \in Nat /\ 1 <= f.start /\ f.start < f.end
                             /\ f.start \in R /\ f.end - 1 \in R /\ f.rows = Span(f) \cap R
      /\ \A o \in R : o \in Nat
  <2>1. \A f \in S \cup P : FileIn(R, f)
    BY FilesIn
  <2>2. \A o \in R : o \in Nat
    OBVIOUS
  <2> QED
    BY <2>1, <2>2 DEF FileIn
<1>a. \A f \in run : f.start \in f.rows /\ f.end - 1 \in f.rows
  BY <1>2 DEF Span
<1>3. J \subseteq R /\ J \subseteq Nat /\ J \subseteq 0..n
  <2>1. \A f \in run : f.rows \subseteq R
    BY <1>2
  <2>2. J \subseteq R
    BY <1>1, <2>1
  <2> QED
    BY <2>2
<1>4. J # {}
  BY <1>1, <1>a
<1>5. PICK lo \in J : lo = Min(J) /\ \A y \in J : lo <= y
  BY <1>3, <1>4, MinOfNaturals
<1>6. PICK hi \in J : hi = Max(J) /\ \A y \in J : y <= hi
  BY <1>3, <1>4, MaxOfNaturals
<1>7. /\ out.start = lo /\ out.end = hi + 1 /\ out.rows = J
      /\ lo \in Nat /\ hi \in Nat /\ lo <= hi /\ lo \in R /\ hi \in R
  BY <1>1, <1>3, <1>5, <1>6 DEF FileOf
<1>8. PICK a \in run, b \in run : lo \in a.rows /\ hi \in b.rows
  BY <1>1
<1>9. /\ a \in S /\ b \in S /\ a.start <= lo /\ lo < a.end /\ b.start <= hi /\ hi < b.end
      /\ a.start = lo /\ b.end = hi + 1 /\ 1 <= lo
  <2>1. a \in S /\ b \in S
    OBVIOUS
  <2>2. lo \in Span(a) /\ hi \in Span(b)
    BY <1>2, <1>8, <2>1
  <2>3. a.start \in J /\ b.end - 1 \in J
    BY <1>1, <1>a
  <2>4. lo <= a.start /\ b.end - 1 <= hi
    BY <1>5, <1>6, <2>3
  <2> QED
    BY <1>2, <1>7, <2>1, <2>2, <2>4 DEF Span
<1>10. ASSUME NEW k \in S, NEW o \in Nat, lo <= o, o <= hi, o \in Span(k) PROVE k \in run
  <2>1. /\ a = k \/ Apart(a, k)
        /\ b = k \/ Apart(b, k)
    BY <1>9 DEF InPlace, TableIn
  <2>2. k.start <= o /\ o < k.end
    BY <1>2, <1>10 DEF Span
  <2>3. a.start <= k.start /\ k.start <= b.start
    BY <1>2, <1>7, <1>9, <1>10, <2>1, <2>2 DEF Apart
  <2> QED
    BY <2>3 DEF Convex
<1>11. ASSUME NEW f \in run PROVE Inside(f, out)
  <2>1. f.start \in J /\ f.end - 1 \in J
    BY <1>1, <1>a
  <2>2. lo <= f.start /\ f.end - 1 <= hi
    BY <1>5, <1>6, <2>1
  <2> QED
    BY <1>2, <1>7, <2>2 DEF Inside
<1>12. ASSUME NEW o \in R, lo <= o, o <= hi PROVE o \in J
  <2>1. o \notin B
    <3>1. o \in B => b.end <= o
      BY <1>9 DEF InPlace, Above
    <3> QED
      BY <1>2, <1>7, <1>9, <1>12, <3>1
  <2>2. PICK k \in S : o \in Span(k)
    BY <1>9, <1>12, <2>1 DEF InPlace, Holds
  <2>3. k \in run /\ o \in k.rows
    BY <1>2, <1>10, <1>12, <2>2
  <2> QED
    BY <1>1, <2>3
<1>13. FileIn(R, out)
  <2>1. Span(out) = lo..hi
    BY <1>7 DEF Span
  <2>2. \A o \in J : o \in R /\ o \in lo..hi
    BY <1>3, <1>5, <1>6, <1>7
  <2>3. \A o \in lo..hi : lo <= o /\ o <= hi
    BY <1>7
  <2>4. J = Span(out) \cap R
    BY <1>12, <2>1, <2>2, <2>3
  <2> QED
    BY <1>7, <1>9, <2>4 DEF FileIn
<1>14. ASSUME NEW g \in S \ run PROVE Apart(g, out) /\ Apart(out, g)
  <2>1. CASE g.end <= lo \/ hi < g.start
    BY <1>2, <1>7, <2>1 DEF Apart
  <2>2. CASE lo < g.end /\ g.start <= hi
    <3>1. PICK o \in Nat : lo <= o /\ o <= hi /\ o \in Span(g)
      <4>1. CASE g.start <= lo
        BY <1>2, <1>7, <2>2, <4>1 DEF Span
      <4>2. CASE lo < g.start
        BY <1>2, <1>7, <2>2, <4>2 DEF Span
      <4> QED
        BY <1>2, <1>7, <4>1, <4>2
    <3> QED
      BY <1>10, <3>1
  <2> QED
    BY <1>2, <1>7, <2>1, <2>2
<1>15. TableIn(R, T)
  BY <1>13, <1>14 DEF InPlace, TableIn
<1>16. ASSUME NEW o, Holds(S, o) PROVE Holds(T, o)
  <2>1. PICK f \in S : o \in Span(f)
    BY <1>16 DEF Holds
  <2>2. CASE f \in run
    <3>1. o \in Span(out)
      BY <1>2, <1>7, <1>11, <2>1, <2>2 DEF Span, Inside
    <3> QED
      BY <3>1 DEF Holds
  <2>3. CASE f \notin run
    BY <2>1, <2>3 DEF Holds
  <2> QED
    BY <2>2, <2>3
<1>17. ASSUME NEW f \in T, NEW o \in R, f.start <= o, o \notin B PROVE Holds(T, o)
  <2>1. PICK g \in S : g.start <= f.start /\ f.start \in Nat
    <3>1. CASE f = out
      BY <1>7, <1>9, <3>1
    <3>2. CASE f \in S
      BY <1>2, <3>2
    <3> QED
      BY <3>1, <3>2
  <2>2. Holds(S, o)
    BY <1>2, <1>17, <2>1 DEF InPlace
  <2> QED
    BY <1>16, <2>2
<1>18. ASSUME NEW o \in B PROVE Above(T \cup P, o)
  <2>1. Above(S \cup P, o) /\ o \in Nat
    BY <1>2 DEF InPlace
  <2>2. out.end <= o
    BY <1>7, <1>9, <2>1 DEF Above
  <2> QED
    BY <2>1, <2>2 DEF Above
<1>19. ASSUME NEW p \in P PROVE Apart(p, out) \/ Inside(p, out)
  <2>0. p.start \in Nat /\ p.end \in Nat /\ p.start < p.end /\ p.start \in R
    BY <1>2
  <2>1. CASE p.end <= lo \/ hi < p.start
    BY <1>7, <2>0, <2>1 DEF Apart
  <2>2. CASE lo < p.end /\ p.start <= lo
    <3>1. ~Apart(p, a)
      BY <1>2, <1>7, <1>9, <2>0, <2>2 DEF Apart
    <3>2. Inside(p, a)
      BY <1>9, <3>1 DEF InPlace
    <3> QED
      BY <1>2, <1>7, <1>9, <1>11, <2>0, <3>2 DEF Inside
  <2>3. CASE lo < p.start /\ p.start <= hi
    <3>1. p.start \notin B
      <4>1. p.start \in B => p.end <= p.start
        BY DEF InPlace, Above
      <4> QED
        BY <2>0, <4>1
    <3>2. PICK k \in S : p.start \in Span(k)
      BY <1>2, <1>7, <1>9, <2>0, <2>3, <3>1 DEF InPlace, Holds
    <3>3. k \in run
      BY <1>7, <1>10, <2>0, <2>3, <3>2
    <3>4. ~Apart(p, k)
      BY <1>2, <2>0, <3>2 DEF Apart, Span
    <3>5. Inside(p, k)
      BY <3>4 DEF InPlace
    <3> QED
      BY <1>2, <1>7, <1>11, <2>0, <3>3, <3>5 DEF Inside
  <2> QED
    BY <1>7, <2>0, <2>1, <2>2, <2>3
<1>20. InPlace(R, B, T, P)
  <2>1. \A o \in R : Holds(P, o) \/ (Above(P, o) /\ (o \in B \/ Holds(T, o)))
    BY <1>16 DEF InPlace
  <2>2. \A p \in P, f \in T : Apart(p, f) \/ Inside(p, f)
    BY <1>19 DEF InPlace
  <2>3. TableIn(R, P) /\ B \subseteq R
    BY DEF InPlace
  <2> QED
    BY <1>15, <1>17, <1>18, <2>1, <2>2, <2>3 DEF InPlace
<1>21. ASSUME NEW f \in S PROVE \E g \in T : g.start <= f.start
  <2>1. CASE f \in run
    BY <1>11, <2>1 DEF Inside
  <2>2. CASE f \notin run
    BY <1>2, <2>2
  <2> QED
    BY <2>1, <2>2
<1> QED
  BY <1>20, <1>21 DEF MergesTo

\* The files of a table from an offset on.
From(P, c) == {f \in P : f.start >= c}

\* The last published files are downloaded, if the staging table has none that
\* reaches as far: then it has none at all.
LEMMA PlaceTail ==
    ASSUME NEW n \in Nat, NEW R, R \subseteq 1..n, NEW B, NEW S, NEW P, InPlace(R, B, S, P),
           NEW c \in Nat, NEW T, T = From(P, c), T # {},
           ReachOf(S) < ReachOf(T)
    PROVE  S = {} /\ InPlace(R, B, T, P)
<1>1. /\ \A f \in S \cup P : /\ f.start \in Nat /\ f.end \in Nat /\ 1 <= f.start /\ f.start < f.end
                             /\ f.end <= n + 1 /\ f.start \in R /\ f.end - 1 \in R
      /\ \A o \in R : o \in Nat
      /\ \A f, g \in P : f = g \/ Apart(f, g)
  <2>1. \A f \in S \cup P : FileIn(R, f)
    BY FilesIn
  <2>2. ASSUME NEW f \in S \cup P
        PROVE  /\ f.start \in Nat /\ f.end \in Nat /\ 1 <= f.start /\ f.start < f.end
               /\ f.start \in R /\ f.end - 1 \in R
    BY <2>1 DEF FileIn
  <2>3. ASSUME NEW f \in S \cup P PROVE f.end <= n + 1
    <3>1. f.end \in Nat /\ f.end - 1 \in 1..n
      BY <2>2
    <3> QED
      BY <3>1
  <2>4. \A f, g \in P : f = g \/ Apart(f, g)
    BY DEF InPlace, TableIn
  <2>5. \A o \in R : o \in Nat
    OBVIOUS
  <2> QED
    BY <2>2, <2>3, <2>4, <2>5
<1>2. PICK m \in Nat : m = n + 1
  OBVIOUS
<1>3. PICK s : s = ReachOf(S)
  OBVIOUS
<1>4. PICK e : e = ReachOf(T)
  OBVIOUS
<1>5. s \in Nat /\ \A f \in S : f.end <= s
  BY <1>1, <1>2, <1>3, ReachFacts
<1>6. e \in Nat /\ (\A f \in T : f.end <= e) /\ (e # 0 => \E f \in T : f.end = e)
  BY <1>1, <1>2, <1>4, ReachFacts DEF From
<1>7. s < e
  BY <1>3, <1>4
<1>8. PICK z \in T : z.end = e
  BY <1>5, <1>6, <1>7
<1>9. S = {}
  <2> SUFFICES ASSUME NEW f \in S PROVE FALSE
    OBVIOUS
  <2>1. z \in P /\ f.end < z.end
    BY <1>1, <1>5, <1>6, <1>7, <1>8 DEF From
  <2>2. CASE f.start <= z.start
    <3>1. z.start \notin B
      <4>1. z.start \in B => z.end <= z.start
        BY <2>1 DEF InPlace, Above
      <4> QED
        BY <1>1, <2>1, <4>1
    <3>2. PICK k \in S : z.start \in Span(k)
      BY <1>1, <2>1, <2>2, <3>1 DEF InPlace, Holds
    <3>3. ~Apart(z, k)
      BY <1>1, <2>1, <3>2 DEF Apart, Span
    <3>4. Inside(z, k)
      BY <2>1, <3>3 DEF InPlace
    <3>5. k.end <= s /\ z.end <= k.end
      BY <1>5, <3>4 DEF Inside
    <3> QED
      BY <1>1, <1>5, <1>6, <1>7, <1>8, <3>5
  <2>3. CASE z.start < f.start
    <3>1. ~Apart(z, f) /\ ~Inside(z, f)
      BY <1>1, <2>1, <2>3 DEF Apart, Inside
    <3> QED
      BY <2>1, <3>1 DEF InPlace
  <2> QED
    BY <1>1, <2>1, <2>2, <2>3
<1>10. T \subseteq P
  BY DEF From
<1>11. \A o \in R : ~Holds(S, o)
  BY <1>9 DEF Holds
<1>12. ASSUME NEW f \in T, NEW o \in R, f.start <= o, o \notin B PROVE Holds(T, o)
  <2>1. PICK p \in P : o \in Span(p)
    BY <1>11, <1>12 DEF InPlace, Holds
  <2>2. p = f \/ Apart(p, f)
    BY <1>1, <1>10
  <2>3. p.start >= c
    BY <1>1, <1>10, <1>12, <2>1, <2>2 DEF Apart, Span, From
  <2> QED
    BY <2>1, <2>3 DEF Holds, From
<1>13. \A p \in P, f \in T : Apart(p, f) \/ Inside(p, f)
  BY <1>1, <1>10 DEF Inside
<1>14. TableIn(R, T) /\ TableIn(R, P)
  BY <1>10 DEF InPlace, TableIn
<1>15. B \subseteq R /\ \A o \in B : Above(T \cup P, o)
  BY <1>10 DEF InPlace, Above
<1>16. \A o \in R : Holds(P, o) \/ (Above(P, o) /\ (o \in B \/ Holds(T, o)))
  BY <1>11 DEF InPlace
<1> QED
  BY <1>9, <1>12, <1>13, <1>14, <1>15, <1>16 DEF InPlace

\* Every row is read once, if the tier row hides no published row.
LEMMA PlaceServed ==
    ASSUME NEW n \in Nat, NEW R, R \subseteq 1..n, InPlace(R, Unfiled, staging, published),
           tier \in [has : BOOLEAN, start : Nat, end : Nat],
           tier.has /\ tier.end <= tier.start => \A p \in published : \E f \in staging : f.start <= p.start,
           NEW o \in R
    PROVE  Served(o) = 1
<1>1. /\ \A f \in staging \cup published :
            f.start \in Nat /\ f.end \in Nat /\ 1 <= f.start /\ f.start < f.end /\ f.end <= n + 1
      /\ o \in Nat
  <2>1. \A f \in staging \cup published :
            f.start \in Nat /\ f.end \in Nat /\ 1 <= f.start /\ f.start < f.end /\ f.end <= n + 1
    BY PlaceSizes
  <2>2. o \in Nat
    OBVIOUS
  <2> QED
    BY <2>1, <2>2
<1>2. /\ Times(staging, o) = One(Holds(staging, o))
      /\ Times(published, o) = One(Holds(published, o))
  BY <1>1, TimesIn DEF InPlace
<1>3. PICK m \in Nat : m = n + 1
  OBVIOUS
<1>4. PICK s : s = ReachOf(staging)
  OBVIOUS
<1>5. PICK e : e = ReachOf(published)
  OBVIOUS
<1>6. /\ s \in Nat /\ (\A f \in staging : f.end <= s) /\ (s # 0 => \E f \in staging : f.end = s)
  BY <1>1, <1>3, <1>4, ReachFacts
<1>7. /\ e \in Nat /\ (\A f \in published : f.end <= e) /\ (e # 0 => \E f \in published : f.end = e)
  BY <1>1, <1>3, <1>5, ReachFacts
<1>8. o \in Unfiled => o \in buffer /\ s <= o /\ e <= o /\ ~Holds(staging, o) /\ ~Holds(published, o)
  <2> SUFFICES ASSUME o \in Unfiled
               PROVE  o \in buffer /\ s <= o /\ e <= o /\ ~Holds(staging, o) /\ ~Holds(published, o)
    OBVIOUS
  <2>1. \A f \in staging \cup published : f.end <= o
    BY DEF InPlace, Above
  <2>2. o \in buffer
    BY DEF Unfiled
  <2>3. ~Holds(staging, o) /\ ~Holds(published, o)
    BY <1>1, <2>1 DEF Holds, Span
  <2> QED
    BY <1>1, <1>6, <1>7, <2>1, <2>2, <2>3
<1>9. Holds(staging, o) => o < s
  BY <1>1, <1>6 DEF Holds, Span
<1>10. Holds(published, o) => o < e
  BY <1>1, <1>7 DEF Holds, Span
<1>11. CASE staging # {}
  <2>1. PICK a \in Nat : a = First(staging).start
    BY <1>1, <1>11, FirstIs
  <2>2. First(staging) \in staging /\ \A g \in staging : a <= g.start
    BY <1>1, <1>11, <2>1, FirstIs
  <2>3. Served(o) = One(Holds(staging, o)) + One(o \in buffer /\ o >= s)
                      + (IF PublishedNeeded /\ o < a THEN One(Holds(published, o)) ELSE 0)
    BY <1>2, <1>4, <1>11, <2>1 DEF Served, SpanEnd
  <2>4. a < s
    BY <1>1, <1>6, <2>1, <2>2
  <2>5. Holds(staging, o) => a <= o
    BY <1>1, <2>1, <2>2 DEF Holds, Span
  <2>6. a <= o => o \in Unfiled \/ Holds(staging, o)
    BY <2>1, <2>2 DEF InPlace
  <2>7. CASE o \in Unfiled
    BY <1>1, <1>6, <1>8, <2>1, <2>3, <2>4, <2>7 DEF One
  <2>8. CASE Holds(staging, o)
    <3>1. ~(o >= s) /\ ~(o < a)
      BY <1>1, <1>6, <1>9, <2>1, <2>5, <2>8
    <3> QED
      BY <2>3, <2>8, <3>1 DEF One
  <2>9. CASE o \notin Unfiled /\ ~Holds(staging, o)
    <3>1. o < a /\ ~(o >= s)
      BY <1>1, <1>6, <2>1, <2>4, <2>6, <2>9
    <3>2. Holds(published, o)
      BY <2>9 DEF InPlace
    <3>3. PICK p \in published : o \in Span(p)
      BY <3>2 DEF Holds
    <3>4. PublishedNeeded
      <4> SUFFICES ASSUME ~PublishedNeeded PROVE FALSE
        OBVIOUS
      <4>1. tier.has /\ tier.end <= tier.start
        BY <3>3 DEF PublishedNeeded
      <4>2. PICK f \in staging : f.start <= p.start
        BY <4>1
      <4>3. p.start <= o
        BY <1>1, <3>3 DEF Span
      <4> QED
        BY <1>1, <2>1, <2>2, <3>1, <4>2, <4>3
    <3> QED
      BY <2>3, <2>9, <3>1, <3>2, <3>4 DEF One
  <2> QED
    BY <2>7, <2>8, <2>9
<1>12. CASE staging = {}
  <2>1. ~Holds(staging, o)
    BY <1>12 DEF Holds
  <2>2. o \in Unfiled \/ Holds(published, o)
    BY <2>1 DEF InPlace
  <2>3. CASE PublishedNeeded
    <3>1. Served(o) = One(Holds(published, o)) + One(o \in buffer /\ o >= e)
      BY <1>2, <1>5, <1>12, <2>3 DEF Served, PublishedEnd
    <3>2. CASE o \in Unfiled
      BY <1>1, <1>7, <1>8, <3>1, <3>2 DEF One
    <3>3. CASE Holds(published, o)
      <4>1. ~(o >= e)
        BY <1>1, <1>7, <1>10, <3>3
      <4> QED
        BY <3>1, <3>3, <4>1 DEF One
    <3> QED
      BY <2>2, <3>2, <3>3
  <2>4. CASE ~PublishedNeeded
    <3>1. published = {}
      BY <1>12, <2>4 DEF PublishedNeeded
    <3>2. o \in buffer
      BY <1>8, <2>2, <3>1 DEF Holds
    <3>3. Served(o) = One(o \in buffer)
      BY <1>12, <2>4 DEF Served
    <3> QED
      BY <3>2, <3>3 DEF One
  <2> QED
    BY <2>3, <2>4
<1> QED
  BY <1>11, <1>12

\* What a push may do: the files of W are swapped in for those they meet, and
\* then U goes up, with nothing left out before it; unless U is empty, what is
\* only partly published is swapped in.
InTurn(S, P, W, U) ==
    /\ W \subseteq S /\ \A f \in W : \E p \in P : Meets(p, f)
    /\ U \subseteq S /\ \A f \in U : f.start >= ReachOf(Swap(P, W))
    /\ \A f \in U, g \in S : ReachOf(Swap(P, W)) <= g.start /\ g.start <= f.start => g \in U
    /\ U # {} => \A g \in S : g.start < ReachOf(P) /\ ReachOf(P) < g.end => g \in W

\* One table reaches at least as far as another.
AsFar(P, Q) == \A p \in P : \E q \in Q : p.end <= q.end

\* The published table after a push.
Pushed(P, W, U) == Swap(P, W) \cup U

\* A push keeps every row in its place.
LEMMA PlacePush ==
    ASSUME NEW n \in Nat, NEW R, R \subseteq 1..n, NEW B, NEW S, NEW P, InPlace(R, B, S, P),
           NEW W, NEW U, InTurn(S, P, W, U), NEW Q, Q = Pushed(P, W, U)
    PROVE  InPlace(R, B, S, Q) /\ AsFar(P, Q)
<1>a. PICK e : e = ReachOf(P)
  OBVIOUS
<1>b. PICK K : K = Swap(P, W)
  OBVIOUS
<1>c. PICK r : r = ReachOf(K)
  OBVIOUS
<1>d. /\ W \subseteq S /\ (\A f \in W : \E p \in P : Meets(p, f))
      /\ U \subseteq S /\ (\A f \in U : f.start >= r) /\ Q = K \cup U
      /\ \A f \in U, g \in S : r <= g.start /\ g.start <= f.start => g \in U
      /\ U # {} => \A g \in S : g.start < e /\ e < g.end => g \in W
  BY <1>a, <1>b, <1>c DEF InTurn, Pushed
<1>1. /\ \A f \in S \cup P : /\ f.start \in Nat /\ f.end \in Nat /\ 1 <= f.start /\ f.start < f.end
                             /\ f.end <= n + 1
      /\ \A o \in R : o \in Nat
      /\ \A f, g \in S : f = g \/ Apart(f, g)
      /\ \A f, g \in P : f = g \/ Apart(f, g)
  <2>1. \A f \in S \cup P : /\ f.start \in Nat /\ f.end \in Nat /\ 1 <= f.start /\ f.start < f.end
                             /\ f.end <= n + 1
    BY PlaceSizes
  <2>2. \A o \in R : o \in Nat
    OBVIOUS
  <2>3. \A f, g \in S : f = g \/ Apart(f, g)
    BY DEF InPlace, TableIn
  <2>4. \A f, g \in P : f = g \/ Apart(f, g)
    BY DEF InPlace, TableIn
  <2> QED
    BY <2>1, <2>2, <2>3, <2>4
<1>2. \A p \in P, f \in S : Apart(p, f) \/ Inside(p, f)
  BY DEF InPlace
<1>3. K \subseteq P \cup S /\ Q \subseteq P \cup S /\ W \subseteq K
  BY <1>b, <1>d DEF Swap
<1>4. PICK m \in Nat : m = n + 1
  OBVIOUS
<1>5. e \in Nat /\ (\A f \in P : f.end <= e) /\ (e # 0 => \E f \in P : f.end = e)
  BY <1>1, <1>4, <1>a, ReachFacts
<1>6. \A f \in K : f.end \in Nat /\ f.end <= m
  BY <1>1, <1>3, <1>4
<1>7. r \in Nat /\ (\A f \in K : f.end <= r) /\ (r # 0 => \E f \in K : f.end = r)
  BY <1>4, <1>6, <1>c, ReachFacts
<1>8. ASSUME NEW p \in P, NEW f \in S, Meets(p, f) PROVE Inside(p, f)
  BY <1>1, <1>2, <1>8, MeetsIs
<1>9. ASSUME NEW p \in P PROVE \E k \in K : Inside(p, k)
  <2>1. CASE \E f \in W : Meets(p, f)
    BY <1>3, <1>8, <1>d, <2>1
  <2>2. CASE ~ \E f \in W : Meets(p, f)
    <3>1. p \in K /\ Inside(p, p)
      BY <1>1, <1>b, <2>2 DEF Swap, Inside
    <3> QED
      BY <3>1
  <2> QED
    BY <2>1, <2>2
<1>10. ASSUME NEW o \in Nat, Holds(P, o) PROVE Holds(Q, o)
  <2>1. PICK p \in P : o \in Span(p)
    BY <1>10 DEF Holds
  <2>2. PICK k \in K : Inside(p, k)
    BY <1>9
  <2>3. o \in Span(k)
    BY <1>1, <1>3, <2>1, <2>2 DEF Span, Inside
  <2> QED
    BY <1>d, <2>3 DEF Holds
<1>11. AsFar(P, Q)
  BY <1>9, <1>d DEF Inside, AsFar
<1>12. ASSUME NEW f \in W PROVE f.start < e
  <2>1. PICK p \in P : Meets(p, f)
    BY <1>d
  <2>2. Inside(p, f) /\ p.end <= e
    BY <1>5, <1>8, <1>d, <2>1
  <2> QED
    BY <1>1, <1>5, <1>d, <2>2 DEF Inside
\* A row that a published file now lies above is published.
<1>13. ASSUME NEW o \in R, ~Holds(Q, o) PROVE Above(Q, o) /\ (o \in B \/ Holds(S, o))
  <2>1. Above(P, o) /\ (o \in B \/ Holds(S, o)) /\ o \in Nat
    BY <1>1, <1>10, <1>13 DEF InPlace
  <2>2. e <= o
    BY <1>5, <2>1 DEF Above
  <2>3. CASE o \in B
    <3>1. Above(S \cup P, o)
      BY <2>3 DEF InPlace
    <3> QED
      BY <1>3, <2>1, <3>1 DEF Above
  <2>4. CASE o \notin B
    <3>1. PICK k \in S : o \in Span(k)
      BY <2>1, <2>4 DEF Holds
    <3>2. k.start <= o /\ o < k.end /\ k \notin Q
      BY <1>1, <1>13, <2>1, <3>1 DEF Span, Holds
    <3>3. ASSUME NEW z \in Q PROVE z.end <= o
      <4>1. CASE z \in P
        BY <2>1, <4>1 DEF Above
      <4>2. CASE z \in W
        <5>1. z \in S /\ z.start < e /\ z # k
          BY <1>12, <1>3, <1>d, <3>2, <4>2
        <5>2. Apart(z, k)
          BY <1>1, <5>1
        <5> QED
          BY <1>1, <1>5, <2>1, <2>2, <3>2, <5>1, <5>2 DEF Apart
      <4>3. CASE z \in U
        <5>1. z \in S /\ z # k
          BY <1>d, <3>2, <4>3
        <5>2. Apart(z, k)
          BY <1>1, <5>1
        <5>3. CASE z.end <= k.start
          BY <1>1, <2>1, <3>2, <5>1, <5>3
        <5>4. CASE k.end <= z.start
          <6>1. k.start <= z.start
            BY <1>1, <5>1, <5>4
          <6>2. k \notin U /\ k \notin W
            BY <1>3, <1>d, <3>2
          <6>3. k.start < r
            BY <1>1, <1>7, <1>d, <4>3, <6>1, <6>2
          <6>4. PICK y \in K : y.end = r
            BY <1>1, <1>7, <6>3
          <6>5. CASE y \in P
            <7>1. k.start < e /\ e < k.end
              BY <1>1, <1>5, <1>7, <2>1, <2>2, <3>2, <6>3, <6>4, <6>5
            <7> QED
              BY <1>d, <4>3, <6>2, <7>1
          <6>6. CASE y \in W
            <7>1. y \in S /\ y # k /\ y.start < e
              BY <1>12, <1>d, <6>2, <6>6
            <7>2. Apart(y, k)
              BY <1>1, <7>1
            <7> QED
              BY <1>1, <1>5, <1>7, <2>1, <2>2, <3>2, <6>3, <6>4, <7>1, <7>2 DEF Apart
          <6> QED
            BY <1>b, <6>4, <6>5, <6>6 DEF Swap
        <5> QED
          BY <5>2, <5>3, <5>4 DEF Apart
      <4> QED
        BY <1>b, <1>d, <4>1, <4>2, <4>3 DEF Swap
    <3> QED
      BY <2>1, <3>3 DEF Above
  <2> QED
    BY <2>3, <2>4
<1>14. ASSUME NEW f \in Q, NEW g \in Q PROVE f = g \/ Apart(f, g)
  <2>1. ASSUME NEW x \in K, NEW y \in U PROVE Apart(x, y) /\ Apart(y, x)
    <3>1. x.end <= r /\ r <= y.start
      BY <1>7, <1>d
    <3>2. x.end \in Nat /\ y.start \in Nat
      BY <1>1, <1>3, <1>d
    <3> QED
      BY <1>7, <3>1, <3>2 DEF Apart
  <2>2. ASSUME NEW u \in P, NEW v \in W, ~Meets(u, v) PROVE Apart(u, v) /\ Apart(v, u)
    <3>1. Apart(u, v)
      BY <1>1, <1>d, <2>2, MeetsIs
    <3> QED
      BY <3>1 DEF Apart
  <2>3. ASSUME NEW x \in K, NEW y \in K PROVE x = y \/ Apart(x, y)
    <3>2. CASE x \in W /\ y \in W
      BY <1>1, <1>d, <3>2
    <3>3. CASE x \in W /\ y \notin W
      <4>1. y \in P /\ ~Meets(y, x)
        BY <1>b, <3>3 DEF Swap
      <4> QED
        BY <2>2, <3>3, <4>1
    <3>4. CASE x \notin W /\ y \in W
      <4>1. x \in P /\ ~Meets(x, y)
        BY <1>b, <3>4 DEF Swap
      <4> QED
        BY <2>2, <3>4, <4>1
    <3>5. CASE x \notin W /\ y \notin W
      BY <1>1, <1>b, <3>5 DEF Swap
    <3> QED
      BY <3>2, <3>3, <3>4, <3>5
  <2>4. CASE f \in K /\ g \in K
    BY <2>3, <2>4
  <2>5. CASE f \in K /\ g \in U
    BY <2>1, <2>5
  <2>6. CASE f \in U /\ g \in K
    BY <2>1, <2>6
  <2>7. CASE f \in U /\ g \in U
    BY <1>1, <1>d, <2>7
  <2> QED
    BY <1>d, <2>4, <2>5, <2>6, <2>7
<1>15. TableIn(R, S) /\ TableIn(R, Q)
  BY <1>3, <1>14 DEF InPlace, TableIn
<1>16. B \subseteq R /\ \A o \in B : Above(S \cup Q, o)
  BY <1>3 DEF InPlace, Above
<1>17. ASSUME NEW p \in Q, NEW f \in S PROVE Apart(p, f) \/ Inside(p, f)
  <2>1. CASE p \in P
    BY <1>2, <2>1
  <2>2. CASE p \in S
    BY <1>1, <2>2 DEF Inside
  <2> QED
    BY <1>3, <2>1, <2>2
<1>18. \A f \in S, o \in R : f.start <= o => o \in B \/ Holds(S, o)
  BY DEF InPlace
<1>19. InPlace(R, B, S, Q)
  BY <1>13, <1>15, <1>16, <1>17, <1>18 DEF InPlace
<1> QED
  BY <1>3, <1>11, <1>19

\* The rows there are.
There == Left \cup fresh

\* The restored log's rows are in place, in the published table it has adopted
\* or will adopt.
Placed ==
    /\ seq \in Nat /\ cut \in Nat /\ cut <= seq + 1 /\ through \in Nat
    /\ buffer \subseteq 1..seq /\ There \subseteq 1..seq
    /\ InPlace(There, Unfiled, staging, Adopted)
    /\ through = 0 \/ \E p \in Adopted : through < p.end
    /\ tier \in [has : BOOLEAN, start : Nat, end : Nat]

\* The published table is adopted, or there is none.
Adoption == published # {} \/ remote = {}

\* A tier row that names nothing hides no published row.
Names ==
    tier.has /\ tier.end <= tier.start => \A p \in Adopted : \E f \in staging : f.start <= p.start

\* What the work of an open log leaves alone, and what it keeps.
Besides == UNCHANGED lost /\ fresh' = fresh \cup (buffer' \ buffer)

\* What every step of the restored log keeps.
StillPlaced == Placed' /\ (Names => Names') /\ (Adoption => Adoption')

\* Once adopted, the published table is the one the log has.
LEMMA AdoptedIs ==
    ASSUME Adoption
    PROVE  Adopted = published
BY DEF Adoption, Adopted, Hinted

\* What Placed says of the sizes the helpers range over.
LEMMA PlacedFacts ==
    ASSUME Placed
    PROVE  /\ seq \in Nat /\ There \subseteq 1..seq
           /\ InPlace(There, Unfiled, staging, Adopted)
           /\ \A f \in staging \cup Adopted :
                /\ f.start \in Nat /\ f.end \in Nat /\ 1 <= f.start /\ f.start < f.end
                /\ f.end <= seq + 1
           /\ \A f, g \in staging : f = g \/ Apart(f, g)
<1>1. seq \in Nat /\ There \subseteq 1..seq /\ InPlace(There, Unfiled, staging, Adopted)
  BY DEF Placed
<1>2. \A f \in staging \cup Adopted : /\ f.start \in Nat /\ f.end \in Nat /\ 1 <= f.start
                                        /\ f.start < f.end /\ f.end <= seq + 1
  BY <1>1, PlaceSizes
<1>3. \A f, g \in staging : f = g \/ Apart(f, g)
  BY <1>1 DEF InPlace, TableIn
<1> QED
  BY <1>1, <1>2, <1>3

\* With nothing published yet, nothing is covered; else what is covered lies at
\* or below a published file's end.
LEMMA CoveredIs ==
    ASSUME Placed, NEW r, r = ReachOf(CoveredPrefix(staging, Landed))
    PROVE  r \in Nat /\ (r <= 1 \/ \E p \in Adopted : r <= p.end) /\ r <= ReachOf(staging)
<1>1. through \in Nat /\ through + 1 \in Nat /\ seq \in Nat /\ seq + 1 \in Nat
  BY DEF Placed
<1>2. PICK C : C = CoveredPrefix(staging, Landed)
  OBVIOUS
<1>3. ASSUME NEW f \in C PROVE f \in staging /\ f.end \in Nat /\ f.end <= through + 1
  <2>1. f \in staging
    BY <1>2 DEF CoveredPrefix
  <2>2. f.start \in Nat /\ f.end \in Nat /\ f.start < f.end
    BY <2>1, PlacedFacts
  <2>3. Covered(Landed, f)
    BY <1>2, <2>1, <2>2 DEF CoveredPrefix
  <2>4. Rows(Landed) = 0 .. through
    <3>1. PICK x : x = [start |-> 0, end |-> through + 1]
      OBVIOUS
    <3>2. Span(x) = 0 .. through
      BY <1>1, <3>1 DEF Span
    <3>3. Landed = {x}
      BY <3>1 DEF Landed
    <3>4. Rows({x}) = Span(x)
      BY DEF Rows
    <3> QED
      BY <3>2, <3>3, <3>4
  <2>5. PICK e \in Nat : e = f.end - 1
    BY <2>2
  <2>6. e \in Span(f)
    BY <2>2, <2>5 DEF Span
  <2>7. e \in 0 .. through
    BY <2>3, <2>4, <2>6 DEF Covered
  <2> QED
    BY <1>1, <2>1, <2>2, <2>5, <2>7
<1>4. r \in Nat /\ r <= through + 1 /\ (r # 0 => \E f \in C : f.end = r)
  BY <1>1, <1>2, <1>3, ReachFacts
<1>5. r <= 1 \/ \E p \in Adopted : r <= p.end
  <2>1. CASE through = 0
    BY <1>4, <2>1
  <2>2. CASE \E p \in Adopted : through < p.end
    <3>1. PICK p \in Adopted : through < p.end
      BY <2>2
    <3>2. p.end \in Nat
      BY <3>1, PlacedFacts
    <3>3. r <= p.end
      BY <1>1, <1>4, <3>1, <3>2
    <3> QED
      BY <3>1, <3>3
  <2> QED
    BY <2>1, <2>2 DEF Placed
<1>6. r <= ReachOf(staging)
  <2>1. PICK s : s = ReachOf(staging)
    OBVIOUS
  <2>2. s \in Nat /\ \A f \in staging : f.end <= s
    <3>1. \A f \in staging : f.end \in Nat /\ f.end <= seq + 1
      BY PlacedFacts
    <3> QED
      BY <1>1, <2>1, <3>1, ReachFacts
  <2> QED
    BY <1>3, <1>4, <2>1, <2>2
<1> QED
  BY <1>4, <1>5, <1>6

\* Buffer.append.
LEMMA AppendPlaced ==
    ASSUME Placed, AppendRow, Besides
    PROVE  StillPlaced
<1>1. /\ seq' = seq + 1 /\ buffer' = buffer \cup {seq + 1}
      /\ UNCHANGED <<cut, staging, published, through, owed, tier, lost>>
  BY DEF AppendRow, meta, Besides
<1>2. seq \in Nat /\ cut \in Nat /\ cut <= seq + 1 /\ buffer \subseteq 1..seq /\ There \subseteq 1..seq
  BY DEF Placed
<1>3. PICK m \in Nat : m = seq + 1
  BY <1>2
<1>4. Adopted' = Adopted /\ Left' = Left /\ remote' = remote
  BY <1>1 DEF Adopted, Hinted, Left, lost
<1>5. There' = There \cup {m}
  <2>1. buffer' \ buffer = {m}
    BY <1>1, <1>2, <1>3
  <2> QED
    BY <1>4, <2>1 DEF There, Besides
<1>6. Unfiled' = Unfiled \cup {m}
  BY <1>1, <1>2, <1>3 DEF Unfiled
<1>7. InPlace(There', Unfiled', staging, Adopted)
  <2>1. InPlace(There \cup {m}, Unfiled \cup {m}, staging, Adopted)
    BY <1>2, <1>3, PlaceAppend DEF Placed
  <2> QED
    BY <1>5, <1>6, <2>1
<1>8. seq' = m /\ buffer' \subseteq 1..m /\ There' \subseteq 1..m /\ cut <= m + 1
  BY <1>1, <1>2, <1>3, <1>5
<1>9. Placed'
  BY <1>1, <1>2, <1>3, <1>4, <1>7, <1>8 DEF Placed
<1> QED
  BY <1>1, <1>4, <1>9 DEF StillPlaced, Names, Adoption

\* A step that issues nothing, and leaves what is in no file in the buffer.
LEMMA NothingNew ==
    ASSUME Besides, buffer' \subseteq buffer
    PROVE  There' = There /\ Left' = Left /\ remote' = remote /\ fresh' = fresh
<1>1. fresh' = fresh
  BY DEF Besides
<1> QED
  BY <1>1 DEF Besides, There, Left, lost

\* seal.
LEMMA SealPlaced ==
    ASSUME Placed, Seal, Besides
    PROVE  StillPlaced
<1>1. /\ staging' = staging \cup {f \in {FileOf(Unfiled)} : through + 1 < f.end}
      /\ cut' = seq + 1 /\ Unfiled # {}
      /\ UNCHANGED <<seq, buffer, published, through, tier>>
  BY DEF Seal, SealRows, meta
<1>2. There' = There /\ Adopted' = Adopted /\ remote' = remote
  BY <1>1, NothingNew DEF Adopted, Hinted
<1>3. PICK f : f = FileOf(Unfiled)
  OBVIOUS
<1>4. /\ seq \in Nat /\ through \in Nat /\ buffer \subseteq 1..seq /\ There \subseteq 1..seq
      /\ InPlace(There, Unfiled, staging, Adopted)
      /\ through = 0 \/ \E p \in Adopted : through < p.end
  BY DEF Placed
<1>5. /\ InPlace(There, {}, staging \cup {f}, Adopted)
      /\ f.end \in Nat /\ 1 < f.end /\ Above(Adopted, f.end)
  BY <1>1, <1>3, <1>4, PlaceSeal
<1>a. Unfiled \subseteq buffer
  BY DEF Unfiled
<1>6. through + 1 < f.end
  <2>1. CASE through = 0
    BY <1>5, <2>1
  <2>2. CASE \E p \in Adopted : through < p.end
    <3>1. PICK p \in Adopted : through < p.end
      BY <2>2
    <3>2. p.end \in Nat /\ p.end <= f.end
      BY <1>5, <3>1, PlacedFacts DEF Above
    <3>3. p.end # f.end
      <4>1. PICK h : h = Max(Unfiled)
        OBVIOUS
      <4>2. Unfiled \subseteq 0..seq
        BY <1>4, <1>a
      <4>3. h \in Unfiled
        BY <1>1, <1>4, <4>1, <4>2, MaxOfNaturals
      <4>4. h \in Nat /\ p.end <= h
        BY <1>4, <4>2, <4>3 DEF InPlace, Above
      <4>5. f.end = h + 1
        BY <1>3, <4>1 DEF FileOf
      <4> QED
        BY <3>2, <4>4, <4>5
    <3> QED
      BY <1>4, <1>5, <3>1, <3>2, <3>3
  <2> QED
    BY <1>4, <2>1, <2>2
<1>7. staging' = staging \cup {f}
  BY <1>1, <1>3, <1>6
<1>8. Unfiled' = {}
  <2>1. \A o \in buffer : ~(o >= seq + 1)
    BY <1>4
  <2>2. Unfiled' = {o \in buffer : o >= seq + 1}
    BY <1>1 DEF Unfiled
  <2> QED
    BY <2>1, <2>2
<1>9. Placed'
  <2>1. InPlace(There', Unfiled', staging', Adopted')
    BY <1>2, <1>5, <1>7, <1>8
  <2>2. cut' \in Nat /\ cut' <= seq' + 1
    BY <1>1, <1>4
  <2> QED
    BY <1>1, <1>2, <2>1, <2>2 DEF Placed
<1> QED
  BY <1>1, <1>2, <1>7, <1>9 DEF StillPlaced, Names, Adoption

\* compact.
LEMMA CompactPlaced ==
    ASSUME Placed, Compact, Besides
    PROVE  StillPlaced
<1>1. PICK run \in Runs(staging \ Settled(staging), through + 1, FALSE) :
        /\ staging' = (staging \ run) \cup {FileOf(UNION {f.rows : f \in run})}
        /\ UNCHANGED <<seq, cut, buffer, published, through, tier>>
  BY DEF Compact, CompactRun
<1>2. There' = There /\ Adopted' = Adopted /\ remote' = remote
  BY <1>1, NothingNew DEF Adopted, Hinted
<1>3. PICK out : out = FileOf(Joined(run))
  OBVIOUS
<1>4. staging' = (staging \ run) \cup {out}
  BY <1>1, <1>3 DEF Joined
<1>5. run \subseteq staging /\ run # {} /\ Convex(run, staging)
  <2>1. PICK n \in Nat : n = through + 1
    BY DEF Placed
  <2>2. run \in Runs(staging \ Settled(staging), n, FALSE)
    BY <2>1
  <2> QED
    BY <2>1, <2>2, PlacedFacts, RunsConvex
<1>6. /\ InPlace(There, Unfiled, staging', Adopted)
      /\ \A f \in staging : \E g \in staging' : g.start <= f.start
  <2>1. seq \in Nat /\ There \subseteq 1..seq /\ InPlace(There, Unfiled, staging, Adopted)
    BY PlacedFacts
  <2>2. PICK T : T = (staging \ run) \cup {out}
    OBVIOUS
  <2>3. MergesTo(There, Unfiled, staging, Adopted, T)
    BY <1>3, <1>5, <2>1, <2>2, PlaceMerge
  <2> QED
    BY <1>4, <2>2, <2>3 DEF MergesTo
<1>7. Unfiled' = Unfiled
  BY <1>1 DEF Unfiled
<1>8. Placed'
  <2>1. InPlace(There', Unfiled', staging', Adopted')
    BY <1>2, <1>6, <1>7
  <2> QED
    BY <1>1, <1>2, <2>1 DEF Placed
<1>9. ASSUME Names PROVE Names'
  <2> SUFFICES ASSUME tier.has, tier.end <= tier.start, NEW p \in Adopted
               PROVE  \E f \in staging' : f.start <= p.start
    BY <1>1, <1>2 DEF Names
  <2>1. PICK f \in staging : f.start <= p.start
    BY <1>9 DEF Names
  <2>2. PICK g \in staging' : g.start <= f.start
    BY <1>6
  <2>3. g.start \in Nat /\ f.start \in Nat /\ p.start \in Nat
    <3>1. FileIn(There, g)
      BY <1>6 DEF InPlace, TableIn
    <3> QED
      BY <3>1, PlacedFacts DEF FileIn
  <2> QED
    BY <2>1, <2>2, <2>3
<1> QED
  BY <1>1, <1>2, <1>8, <1>9 DEF StillPlaced, Adoption

\* evict_buffer.
LEMMA EvictBufferPlaced ==
    ASSUME Placed, EvictBuffer, Besides
    PROVE  StillPlaced
<1>1. PICK r : r = ReachOf(CoveredPrefix(staging, Landed))
  OBVIOUS
<1>a. PICK lo, hi \in buffer : buffer' = {o \in buffer : o < lo \/ o >= Min({hi + 1, r})}
  BY <1>1 DEF EvictBuffer, EvictRows
<1>b. PICK l : l = Min({hi + 1, r})
  OBVIOUS
<1>2. /\ buffer' = {o \in buffer : o < lo \/ o >= l}
      /\ UNCHANGED <<seq, cut, staging, published, through, tier>>
  BY <1>a, <1>b DEF EvictBuffer, meta
<1>3. There' = There /\ Adopted' = Adopted /\ remote' = remote
  BY <1>2, NothingNew DEF Adopted, Hinted
<1>4. r \in Nat /\ r <= ReachOf(staging)
  BY <1>1, CoveredIs
<1>c. l \in Nat /\ l <= r
  <2>1. hi + 1 \in Nat
    BY DEF Placed
  <2>2. PICK M : M = {hi + 1, r}
    OBVIOUS
  <2>3. M \subseteq Nat /\ M # {} /\ r \in M
    BY <1>4, <2>1, <2>2
  <2> QED
    BY <1>b, <2>2, <2>3, MinOfNaturals
<1>5. ASSUME NEW o \in Unfiled PROVE o >= l
  <2>1. \A f \in staging : f.end <= o
    BY DEF Placed, InPlace, Above
  <2>2. o \in Nat
    BY DEF Placed, Unfiled
  <2>3. PICK s : s = ReachOf(staging)
    OBVIOUS
  <2>4. seq + 1 \in Nat /\ \A f \in staging : f.end \in Nat /\ f.end <= seq + 1
    BY PlacedFacts
  <2>5. s \in Nat /\ (s # 0 => \E f \in staging : f.end = s)
    BY <2>3, <2>4, ReachFacts
  <2> QED
    BY <1>4, <1>c, <2>1, <2>2, <2>3, <2>5
<1>6. Unfiled' = Unfiled
  BY <1>2, <1>5 DEF Unfiled
<1>7. Placed'
  <2>1. InPlace(There', Unfiled', staging', Adopted')
    BY <1>2, <1>3, <1>6 DEF Placed
  <2> QED
    BY <1>2, <1>3, <2>1 DEF Placed
<1> QED
  BY <1>2, <1>3, <1>7 DEF StillPlaced, Names, Adoption

\* evict.
LEMMA EvictPlaced ==
    ASSUME Placed, NEW top \in Nat, EvictFiles(FALSE, top), Besides
    PROVE  StillPlaced
<1>1. PICK keep : keep = (staging \ Settled(staging)) \cup (owed \cap staging)
  OBVIOUS
<1>2. PICK r : r = ReachOf(CoveredPrefix(staging, Landed))
  OBVIOUS
<1>3. PICK M : M = {top, r} \cup {f.start : f \in keep}
  OBVIOUS
<1>4. PICK l : l = Min(M)
  OBVIOUS
<1>5. PICK G : G = Below(staging, l)
  OBVIOUS
<1>6. /\ staging' = staging \ G /\ tier' = IF G = {} THEN tier ELSE Widened(G)
      /\ UNCHANGED <<seq, cut, buffer, published, through>>
  BY <1>1, <1>2, <1>3, <1>4, <1>5 DEF EvictFiles, Below
<1>7. There' = There /\ Adopted' = Adopted /\ remote' = remote
  BY <1>6, NothingNew DEF Adopted, Hinted
<1>8. r \in Nat /\ (r <= 1 \/ \E p \in Adopted : r <= p.end)
  BY <1>2, CoveredIs
<1>9. M \subseteq Nat /\ r \in M
  <2>1. \A f \in keep : f.start \in Nat
    BY <1>1, PlacedFacts
  <2> QED
    BY <1>3, <1>8, <2>1
<1>10. l \in Nat /\ l <= r
  BY <1>4, <1>9, MinOfNaturals
<1>11. l <= 1 \/ \E p \in Adopted : l <= p.end
  <2>1. \A p \in Adopted : p.end \in Nat
    BY PlacedFacts
  <2> QED
    BY <1>8, <1>10, <2>1
<1>12. staging' = {f \in staging : f.end > l}
  <2>1. \A f \in staging : f.end \in Nat
    BY PlacedFacts
  <2> QED
    BY <1>5, <1>6, <1>10, <2>1 DEF Below
<1>13. InPlace(There, Unfiled, staging', Adopted)
  BY <1>10, <1>11, <1>12, PlacedFacts, PlaceDrop
<1>14. Unfiled' = Unfiled
  BY <1>6 DEF Unfiled
<1>15. /\ tier' \in [has : BOOLEAN, start : Nat, end : Nat]
       /\ G = {} \/ (tier'.has => tier'.start < tier'.end)
  <2>1. CASE G = {}
    BY <1>6, <2>1 DEF Placed
  <2>2. CASE G # {}
    <3>1. PICK e \in Nat : e = seq + 1
      BY DEF Placed
    <3>2. \A f \in G : f.start \in Nat /\ f.end \in Nat /\ f.start < f.end /\ f.end <= e
      BY <1>5, <3>1, PlacedFacts DEF Below
    <3>3. tier \in [has : BOOLEAN, start : Nat, end : Nat]
      BY DEF Placed
    <3> QED
      BY <1>6, <2>2, <3>2, <3>3, WidenedNames
  <2> QED
    BY <2>1, <2>2
<1>16. Placed'
  <2>1. InPlace(There', Unfiled', staging', Adopted')
    BY <1>7, <1>13, <1>14
  <2> QED
    BY <1>6, <1>7, <1>15, <2>1 DEF Placed
<1>17. Names => Names'
  <2>1. CASE G = {}
    BY <1>6, <1>7, <2>1 DEF Names
  <2>2. CASE tier'.has => tier'.start < tier'.end
    BY <1>15, <2>2 DEF Names
  <2> QED
    BY <1>15, <2>1, <2>2
<1> QED
  BY <1>6, <1>7, <1>16, <1>17 DEF StillPlaced, Adoption

\* A push of the restored log swaps in and takes up what PlacePush asks for.
LEMMA PushPlaced ==
    ASSUME Placed, Adoption, NEW flush \in BOOLEAN, Push(flush, FALSE), Besides
    PROVE  StillPlaced
<1>1. PICK W : W = Swapped(flush, FALSE)
  OBVIOUS
<1>2. PICK K : K = Held(W)
  OBVIOUS
<1>3. PICK U : U = Going(K, flush)
  OBVIOUS
<1>4. /\ published' = K \cup U
      /\ through' = Max({through, ReachOf(published') - 1})
      /\ tier' = IF tier.has THEN tier ELSE Exact(published, staging)
      /\ UNCHANGED <<seq, cut, buffer, staging, closed, holder>>
  <2>1. PICK no : no = FALSE
    OBVIOUS
  <2>2. Push(flush, no) /\ W = Swapped(flush, no)
    BY <1>1, <2>1
  <2> QED
    BY <1>2, <1>3, <2>2, PushIs
<1>5. Adopted = published
  BY AdoptedIs
<1>6. There' = There /\ remote' = remote
  BY <1>4, NothingNew
<1>7. /\ seq \in Nat /\ There \subseteq 1..seq /\ through \in Nat
      /\ InPlace(There, Unfiled, staging, published)
      /\ tier \in [has : BOOLEAN, start : Nat, end : Nat]
      /\ through = 0 \/ \E p \in published : through < p.end
  BY <1>5 DEF Placed
<1>8. /\ \A f \in staging \cup published : /\ f.start \in Nat /\ f.end \in Nat /\ 1 <= f.start
                                           /\ f.start < f.end /\ f.end <= seq + 1
      /\ \A f, g \in staging : f = g \/ Apart(f, g)
  BY <1>5, PlacedFacts
<1>9. K = Swap(published, W)
  <2>1. \A f : Within(f) = {p \in published : Meets(p, f)}
    BY DEF Within, Meets
  <2> QED
    BY <1>2, <2>1 DEF Held, Swap
<1>10. PICK e : e = ReachOf(published)
  OBVIOUS
<1>11. PICK r : r = ReachOf(K)
  OBVIOUS
<1>12. W \subseteq staging /\ U \subseteq staging
  BY <1>1, <1>3 DEF Swapped, Going, Waiting
<1>13. \A f \in W : \E p \in published : Meets(p, f)
  BY <1>1 DEF Swapped, LinesUp, Within, Meets
<1>14. \A f \in U : f.start >= r
  BY <1>3, <1>11 DEF Going, Waiting
<1>15. PICK m \in Nat : m = seq + 1
  BY <1>7
<1>16. K \subseteq staging \cup published
  BY <1>9, <1>12 DEF Swap
<1>17. e \in Nat /\ (\A f \in published : f.end <= e) /\ (e # 0 => \E f \in published : f.end = e)
  BY <1>8, <1>10, <1>15, ReachFacts
<1>18. r \in Nat /\ (\A f \in K : f.end <= r)
  <2>1. \A f \in K : f.end \in Nat /\ f.end <= m
    BY <1>8, <1>15, <1>16
  <2> QED
    BY <1>11, <2>1, ReachFacts
<1>19. ASSUME NEW f \in U, NEW g \in staging, r <= g.start, g.start <= f.start PROVE g \in U
  <2>1. g \in Waiting(K)
    BY <1>8, <1>11, <1>18, <1>19 DEF Waiting
  <2>2. CASE flush
    BY <1>3, <2>1, <2>2 DEF Going
  <2>3. CASE ~flush
    <3>1. f \in Settled(staging)
      BY <1>3, <2>3 DEF Going
    <3>2. g \in Settled(staging)
      BY <1>8, <1>12, <1>19, <3>1, SettledPrefix
    <3> QED
      BY <1>3, <2>1, <3>2 DEF Going
  <2> QED
    BY <2>2, <2>3
<1>20. ASSUME NEW f \in U, NEW g \in staging, g.start < e, e < g.end PROVE g \in W
  <2>1. Straddles(g)
    BY <1>10, <1>20 DEF Straddles, PublishedEnd
  <2>2. PICK p \in published : p.end = e
    BY <1>8, <1>17, <1>20
  <2>3. ASSUME NEW x \in published, Meets(x, g) PROVE Span(x) \subseteq Span(g)
    <3>1. Inside(x, g)
      BY <1>7, <1>8, <2>3, MeetsIs DEF InPlace
    <3> QED
      BY <1>8, <3>1 DEF Span, Inside
  <2>4. Meets(p, g)
    <3>1. ~Apart(p, g)
      BY <1>8, <1>17, <1>20, <2>2 DEF Apart
    <3> QED
      BY <1>8, <3>1, MeetsIs
  <2>5. LinesUp(g)
    BY <2>3, <2>4 DEF LinesUp, Within, Meets
  <2>6. g \notin published
    BY <1>8, <1>17, <1>20
  <2>7. g \in Settled(staging) \/ flush
    <3>1. CASE flush
      BY <3>1
    <3>2. CASE ~flush
      <4>1. f \in Settled(staging) /\ f \in staging
        BY <1>3, <1>12, <3>2 DEF Going
      <4>2. e <= r
        <5>1. CASE \E w \in W : Meets(p, w)
          <6>1. PICK w \in W : Meets(p, w)
            BY <5>1
          <6>2. Inside(p, w)
            BY <1>7, <1>8, <1>12, <6>1, MeetsIs DEF InPlace
          <6>3. w \in K /\ w.end <= r
            BY <1>9, <1>18 DEF Swap
          <6> QED
            BY <1>8, <1>12, <1>17, <1>18, <2>2, <6>2, <6>3 DEF Inside
        <5>2. CASE ~ \E w \in W : Meets(p, w)
          <6>1. p \in K
            BY <1>9, <5>2 DEF Swap
          <6> QED
            BY <1>18, <2>2, <6>1
        <5> QED
          BY <5>1, <5>2
      <4>3. g.start <= f.start
        BY <1>8, <1>14, <1>17, <1>18, <1>20, <4>1, <4>2
      <4> QED
        BY <1>8, <4>1, <4>3, SettledPrefix
    <3> QED
      BY <3>1, <3>2
  <2> QED
    BY <1>1, <2>1, <2>5, <2>6, <2>7 DEF Swapped
<1>21. PICK Q : Q = K \cup U
  OBVIOUS
<1>22. InTurn(staging, published, W, U)
  BY <1>9, <1>10, <1>11, <1>12, <1>13, <1>14, <1>19, <1>20 DEF InTurn
<1>23. Q = Swap(published, W) \cup U
  BY <1>9, <1>21
<1>24. /\ InPlace(There, Unfiled, staging, Q) /\ Q \subseteq published \cup staging
       /\ \A p \in published : \E q \in Q : p.end <= q.end
  <2>1. Q = Pushed(published, W, U)
    BY <1>23 DEF Pushed
  <2>2. InPlace(There, Unfiled, staging, Q)
    BY <1>7, <1>22, <2>1, PlacePush
  <2>3. Q \subseteq published \cup staging
    BY <1>12, <1>16, <1>21
  <2>4. AsFar(published, Q)
    BY <1>7, <1>22, <2>1, PlacePush
  <2> QED
    BY <2>2, <2>3, <2>4 DEF AsFar
<1>25. published' = Q
  BY <1>4, <1>21
<1>26. Adoption' /\ Adopted' = Q
  <2>1. Q # {} \/ remote = {}
    BY <1>24 DEF Adoption
  <2> QED
    BY <1>6, <1>25, <2>1 DEF Adoption, Adopted, Hinted
<1>27. through' \in Nat /\ (through' = 0 \/ \E p \in Q : through' < p.end)
  <2>1. PICK q : q = ReachOf(Q)
    OBVIOUS
  <2>2. q \in Nat /\ (\A f \in Q : f.end <= q) /\ (q # 0 => \E f \in Q : f.end = q)
    <3>1. \A f \in Q : f.end \in Nat /\ f.end <= m
      BY <1>8, <1>15, <1>24
    <3> QED
      BY <2>1, <3>1, ReachFacts
  <2>3. PICK v \in Int : v = q - 1
    BY <2>2
  <2>4. through' = Max({through, v})
    BY <1>4, <1>25, <2>1, <2>3
  <2>5. PICK t \in Int : t = through
    BY <1>7
  <2>6. PICK h : h = Max({t, v})
    OBVIOUS
  <2>7. h \in {t, v} /\ h >= t /\ h >= v
    BY <2>6, MaxOfTwo
  <2>8. through' = h
    BY <2>4, <2>5, <2>6
  <2>9. h \in Nat
    BY <1>7, <2>2, <2>3, <2>5, <2>7
  <2>10. CASE h = t
    <3>1. CASE through = 0
      BY <2>5, <2>8, <2>10, <3>1
    <3>2. CASE \E p \in published : through < p.end
      <4>1. PICK p \in published : through < p.end
        BY <3>2
      <4>2. PICK x \in Q : p.end <= x.end
        BY <1>24
      <4>3. p.end \in Nat /\ x.end \in Nat
        BY <1>8, <1>24
      <4>4. through' < x.end
        BY <1>7, <2>5, <2>8, <2>10, <4>1, <4>2, <4>3
      <4> QED
        BY <2>8, <2>9, <4>4
    <3> QED
      BY <1>7, <2>8, <2>9, <3>1, <3>2
  <2>11. CASE h = v
    <3>1. PICK x \in Q : x.end = q
      BY <2>2, <2>3, <2>9, <2>11
    <3>2. through' < x.end
      BY <2>2, <2>3, <2>8, <2>11, <3>1
    <3> QED
      BY <2>8, <2>9, <3>2
  <2> QED
    BY <2>7, <2>10, <2>11
<1>28. PICK y : y = Exact(published, staging)
  OBVIOUS
<1>29. /\ y \in [has : BOOLEAN, start : Nat, end : Nat]
       /\ y.end <= y.start => \A p \in published : \E f \in staging : f.start <= p.start
  BY <1>8, <1>15, <1>28, ExactCovers
<1>30. tier' \in [has : BOOLEAN, start : Nat, end : Nat]
  BY <1>4, <1>7, <1>28, <1>29
<1>31. Unfiled' = Unfiled
  BY <1>4 DEF Unfiled
<1>32. Placed'
  <2>1. InPlace(There', Unfiled', staging', Adopted')
    BY <1>4, <1>6, <1>24, <1>26, <1>31
  <2>2. through' \in Nat /\ (through' = 0 \/ \E p \in Adopted' : through' < p.end)
    BY <1>26, <1>27
  <2> QED
    BY <1>4, <1>6, <1>30, <2>1, <2>2 DEF Placed
<1>33. ASSUME Names PROVE Names'
  <2> SUFFICES ASSUME tier'.has, tier'.end <= tier'.start, NEW q \in Q
               PROVE  \E f \in staging : f.start <= q.start
    BY <1>4, <1>26 DEF Names
  <2>1. CASE q \in staging
    BY <1>8, <2>1
  <2>2. CASE q \in published
    <3>1. CASE tier.has
      BY <1>4, <1>5, <1>33, <2>2, <3>1 DEF Names
    <3>2. CASE ~tier.has
      BY <1>4, <1>28, <1>29, <2>2, <3>2
    <3> QED
      BY <3>1, <3>2
  <2> QED
    BY <1>24, <2>1, <2>2
<1> QED
  BY <1>26, <1>32, <1>33 DEF StillPlaced

\* The work of a log that can be opened.
LEMMA WorkPlaced ==
    ASSUME Placed, Work
    PROVE  StillPlaced /\ UNCHANGED <<lost, pc, known>>
<1>1. Besides /\ UNCHANGED <<lost, pc, known>>
  BY DEF Work, Besides, restoring
<1>2. CASE AppendRow
  BY <1>1, <1>2, AppendPlaced
<1>3. CASE Seal
  BY <1>1, <1>3, SealPlaced
<1>4. CASE Compact
  BY <1>1, <1>4, CompactPlaced
<1>5. CASE Adoption /\ Publish
  BY <1>1, <1>5, PushPlaced DEF Publish
<1>6. CASE EvictBuffer
  BY <1>1, <1>6, EvictBufferPlaced
<1>7. CASE Evict
  <2>1. PICK f \in staging : EvictFiles(FALSE, f.end)
    BY <1>7 DEF Evict
  <2>2. f.end \in Nat
    BY <2>1, PlacedFacts
  <2> QED
    BY <1>1, <2>1, <2>2, EvictPlaced
<1> QED
  BY <1>1, <1>2, <1>3, <1>4, <1>5, <1>6, <1>7 DEF Work, Maintain, Adoption

\* What every disaster leaves: a published table without a hole, which what was
\* recorded as issued covers, and a replica whose buffer has the rows above it.
Disaster ==
    /\ issued \in Nat /\ TableIn(Left, remote)
    /\ \A f \in remote : f.end <= issued + 1
    /\ \A o \in Left : o \in Nat /\ 1 <= o
    /\ \A o \in Left : Holds(remote, o) \/ (Above(remote, o) /\ o \in replica.buffer)
    /\ replica.has \in BOOLEAN /\ replica.seq \in Nat /\ replica.through \in Nat
    /\ replica.through <= replica.seq
    /\ replica.through = 0 \/ \E p \in remote : replica.through < p.end
    /\ replica.buffer \subseteq 1..replica.seq
    /\ replica.tier \in [has : BOOLEAN, start : Nat, end : Nat]
    /\ ~replica.has => replica.buffer = {}

\* A file with all the rows from one offset to another.
LEMMA FileOfRange ==
    ASSUME NEW a \in Nat, NEW b \in Nat, a <= b, NEW f, f = FileOf(a..b)
    PROVE  f.start = a /\ f.end = b + 1 /\ f.rows = a..b /\ Span(f) = a..b
<1>1. a..b \subseteq Nat /\ a..b \subseteq 0..b /\ a \in a..b /\ b \in a..b
  OBVIOUS
<1>2. PICK lo : lo = Min(a..b)
  OBVIOUS
<1>3. PICK hi : hi = Max(a..b)
  OBVIOUS
<1>4. lo \in a..b /\ lo <= a
  BY <1>1, <1>2, MinOfNaturals
<1>5. hi \in a..b /\ b <= hi
  BY <1>1, <1>3, MaxOfNaturals
<1>6. lo = a /\ hi = b
  BY <1>4, <1>5
<1>7. f = [start |-> lo, end |-> hi + 1, rows |-> a..b]
  BY <1>2, <1>3 DEF FileOf
<1> QED
  BY <1>6, <1>7 DEF Span

\* The file of all the rows of a range.
RangeFile(f, a, b) ==
    f.start = a /\ f.end = b + 1 /\ f.rows = Span(f) /\ Span(f) = a..b

\* FileOf gives the rows of a range that file.
LEMMA RangeFileIs ==
    ASSUME NEW a \in Nat, NEW b \in Nat, a <= b
    PROVE  RangeFile(FileOf(a..b), a, b)
<1>1. PICK f : f = FileOf(a..b)
  OBVIOUS
<1>2. f.start = a /\ f.end = b + 1 /\ f.rows = a..b /\ Span(f) = a..b
  BY <1>1, FileOfRange
<1> QED
  BY <1>1, <1>2 DEF RangeFile

\* The published table of a lost machine.
LEMMA TableOfIs ==
    ASSUME NEW n \in Nat, NEW T \in TableOf(n)
    PROVE  /\ \A f \in T : /\ f.start \in Nat /\ f.end \in Nat /\ 1 <= f.start /\ f.start < f.end
                           /\ f.end <= n + 1 /\ f.rows = Span(f)
           /\ \A f, g \in T : f = g \/ Apart(f, g)
           /\ \A o \in 1..n : Holds(T, o)
           /\ n # 0 => \E f \in T : f.end = n + 1
<1>1. CASE n = 0
  BY <1>1 DEF TableOf
<1>2. CASE n # 0
  <2>1. T \in {{FileOf(1..n)}} \cup {{FileOf(1..k), FileOf(k + 1..n)} : k \in 1..n - 1}
    BY <1>2 DEF TableOf
  <2>2. CASE T = {FileOf(1..n)}
    <3>1. PICK f : f = FileOf(1..n)
      OBVIOUS
    <3>2. f.start = 1 /\ f.end = n + 1 /\ f.rows = Span(f) /\ Span(f) = 1..n
      BY <1>2, <3>1, FileOfRange
    <3>3. T = {f}
      BY <2>2, <3>1
    <3> QED
      BY <1>2, <3>2, <3>3 DEF Holds
  <2>3. CASE T # {FileOf(1..n)}
    <3>1. PICK k \in 1..n - 1 : T = {FileOf(1..k), FileOf(k + 1..n)}
      BY <2>1, <2>3
    <3>2. k \in Nat /\ k + 1 \in Nat /\ 1 <= k /\ k + 1 <= n
      BY <3>1
    <3>3. PICK f : f = FileOf(1..k)
      OBVIOUS
    <3>4. PICK g : g = FileOf(k + 1..n)
      OBVIOUS
    <3>5. f.start = 1 /\ f.end = k + 1 /\ f.rows = Span(f) /\ Span(f) = 1..k
      <4>1. RangeFile(FileOf(1..k), 1, k)
        BY <3>2, RangeFileIs
      <4> QED
        BY <3>3, <4>1 DEF RangeFile
    <3>6. g.start = k + 1 /\ g.end = n + 1 /\ g.rows = Span(g) /\ Span(g) = k + 1..n
      <4>1. RangeFile(FileOf(k + 1..n), k + 1, n)
        BY <3>2, RangeFileIs
      <4> QED
        BY <3>4, <4>1 DEF RangeFile
    <3>7. T = {f, g}
      BY <3>1, <3>3, <3>4
    <3>8. Apart(f, g) /\ Apart(g, f)
      BY <3>2, <3>5, <3>6 DEF Apart
    <3>9. ASSUME NEW o \in 1..n PROVE Holds(T, o)
      <4>1. o \in 1..k \/ o \in k + 1..n
        BY <3>2
      <4> QED
        BY <3>5, <3>6, <3>7, <4>1 DEF Holds
    <3>10. /\ f.start \in Nat /\ f.end \in Nat /\ 1 <= f.start /\ f.start < f.end
           /\ f.end <= n + 1 /\ f.rows = Span(f)
      BY <3>2, <3>5
    <3>11. /\ g.start \in Nat /\ g.end \in Nat /\ 1 <= g.start /\ g.start < g.end
           /\ g.end <= n + 1 /\ g.rows = Span(g) /\ g.end = n + 1
      BY <3>2, <3>6
    <3>12. \A x \in T : x = f \/ x = g
      BY <3>7
    <3>13. \A x, y \in T : x = y \/ Apart(x, y)
      BY <3>8, <3>12
    <3>14. g \in T
      BY <3>7
    <3> QED
      BY <3>9, <3>10, <3>11, <3>12, <3>13, <3>14, Zenon
  <2> QED
    BY <2>2, <2>3
<1> QED
  BY <1>1, <1>2

\* The replica of a lost machine that had published up to p.
LEMMA ReplicaIs ==
    ASSUME NEW n \in Nat, NEW p \in Nat, NEW x \in Replicas(n, p)
    PROVE  /\ x.has \in BOOLEAN /\ x.seq \in Nat /\ x.through \in Nat
           /\ x.through <= x.seq /\ x.through <= p
           /\ x.buffer \subseteq 1..x.seq
           /\ x.tier \in [has : BOOLEAN, start : Nat, end : Nat]
           /\ ~x.has => x.buffer = {}
<1>1. CASE x = NoReplica
  BY <1>1 DEF NoReplica
<1>2. CASE x # NoReplica
  <2>1. PICK t \in 0..p :
          \E r \in t..n, lo \in 1..t + 1 :
            \E w \in {NoReplica.tier} \cup {[has |-> TRUE, start |-> 1, end |-> e] : e \in {1, t + 1}} :
              x = [has |-> TRUE, seq |-> r, through |-> t, buffer |-> lo..r, tier |-> w]
    BY <1>2 DEF Replicas
  <2>2. PICK r \in t..n, lo \in 1..t + 1 :
          \E w \in {NoReplica.tier} \cup {[has |-> TRUE, start |-> 1, end |-> e] : e \in {1, t + 1}} :
            x = [has |-> TRUE, seq |-> r, through |-> t, buffer |-> lo..r, tier |-> w]
    BY <2>1
  <2>3. PICK w \in {NoReplica.tier} \cup {[has |-> TRUE, start |-> 1, end |-> e] : e \in {1, t + 1}} :
          x = [has |-> TRUE, seq |-> r, through |-> t, buffer |-> lo..r, tier |-> w]
    BY <2>2
  <2>4. x.has = TRUE /\ x.seq = r /\ x.through = t /\ x.buffer = lo..r /\ x.tier = w
    BY <2>3
  <2>5. t \in Nat /\ r \in Nat /\ lo \in Nat /\ 1 <= lo /\ t <= r /\ t <= p
    OBVIOUS
  <2>6. w \in [has : BOOLEAN, start : Nat, end : Nat]
    <3>1. CASE w = NoReplica.tier
      BY <3>1 DEF NoReplica
    <3>2. CASE w # NoReplica.tier
      <4>1. PICK e \in {1, t + 1} : w = [has |-> TRUE, start |-> 1, end |-> e]
        BY <3>2
      <4>2. e \in Nat
        BY <2>5
      <4> QED
        BY <4>1, <4>2
    <3> QED
      BY <3>1, <3>2
  <2>7. x.buffer \subseteq 1..x.seq
    BY <2>4, <2>5
  <2>8. x.has \in BOOLEAN /\ (~x.has => x.buffer = {})
    BY <2>4
  <2>9. x.seq \in Nat /\ x.through \in Nat /\ x.through <= x.seq /\ x.through <= p
    BY <2>4, <2>5
  <2>10. x.tier \in [has : BOOLEAN, start : Nat, end : Nat]
    BY <2>4, <2>6
  <2> QED
    BY <2>7, <2>8, <2>9, <2>10
<1> QED
  BY <1>1, <1>2

\* What every lost machine leaves.
LEMMA DisasterStart ==
    ASSUME RestoreInit
    PROVE  Disaster
<1>1. old \in Nat
  BY RestoreAssumption DEF RestoreInit
<1>2. PICK p \in 0..old : remote \in TableOf(p) /\ issued \in p..old /\ replica \in Replicas(old, p)
  BY DEF RestoreInit
<1>3. p \in Nat /\ issued \in Nat /\ p <= issued
  BY <1>1, <1>2
<1>4. /\ \A f \in remote : /\ f.start \in Nat /\ f.end \in Nat /\ 1 <= f.start /\ f.start < f.end
                           /\ f.end <= p + 1 /\ f.rows = Span(f)
      /\ \A f, g \in remote : f = g \/ Apart(f, g)
      /\ \A o \in 1..p : Holds(remote, o)
      /\ p # 0 => \E f \in remote : f.end = p + 1
  BY <1>2, <1>3, TableOfIs
<1>5. /\ replica.has \in BOOLEAN /\ replica.seq \in Nat /\ replica.through \in Nat
      /\ replica.through <= replica.seq /\ replica.through <= p
      /\ replica.buffer \subseteq 1..replica.seq
      /\ replica.tier \in [has : BOOLEAN, start : Nat, end : Nat]
      /\ ~replica.has => replica.buffer = {}
  BY <1>1, <1>2, <1>3, ReplicaIs
<1>6. ASSUME NEW f \in remote PROVE FileIn(Left, f)
  <2>1. Span(f) \subseteq Left
    BY <1>4 DEF Left
  <2>2. f.start \in Span(f) /\ f.end - 1 \in Span(f)
    BY <1>4 DEF Span
  <2>3. f.rows = Span(f) \cap Left
    BY <1>4, <2>1
  <2> QED
    BY <1>4, <2>1, <2>2, <2>3 DEF FileIn
<1>7. ASSUME NEW o \in Left
      PROVE  o \in Nat /\ 1 <= o /\ (Holds(remote, o) \/ (Above(remote, o) /\ o \in replica.buffer))
  <2>1. CASE \E f \in remote : o \in f.rows
    <3>1. PICK f \in remote : o \in Span(f)
      BY <1>4, <2>1
    <3>2. o \in Nat /\ 1 <= o
      BY <1>4, <3>1 DEF Span
    <3> QED
      BY <3>1, <3>2 DEF Holds
  <2>2. CASE o \in replica.buffer
    <3>1. o \in Nat /\ 1 <= o
      BY <1>5, <2>2
    <3>2. CASE o <= p
      BY <1>3, <1>4, <3>1, <3>2
    <3>3. CASE ~(o <= p)
      <4>1. Above(remote, o)
        BY <1>3, <1>4, <3>1, <3>3 DEF Above
      <4> QED
        BY <2>2, <3>1, <4>1
    <3> QED
      BY <3>1, <3>2, <3>3
  <2>3. (\E f \in remote : o \in f.rows) \/ o \in replica.buffer
    BY DEF Left
  <2> QED
    BY <2>1, <2>2, <2>3
<1>8. \A f \in remote : f.end <= issued + 1
  BY <1>3, <1>4
<1>9. replica.through = 0 \/ \E f \in remote : replica.through < f.end
  <2>1. CASE p = 0
    BY <1>5, <2>1
  <2>2. CASE p # 0
    BY <1>3, <1>4, <1>5, <2>2
  <2> QED
    BY <2>1, <2>2
<1>10. TableIn(Left, remote)
  BY <1>4, <1>6 DEF TableIn
<1> QED
  BY <1>3, <1>5, <1>7, <1>8, <1>9, <1>10 DEF Disaster

\* Where a restore can be.
RestoreSteps == {"start", "nothing", "forget", "strip", "reconcile", "reserve", "create", "rebuild"} \cup Openable

\* Before the root is a log: the database on disk has the replica's rows that
\* are not published, and at last no others.
Database ==
    /\ fresh = {} /\ staging = {} /\ seq \in Nat /\ known \in Nat
    /\ pc \in {"start", "rebuild", "nothing"} =>
         buffer = {} /\ tier = NoReplica.tier /\ (~replica.has => published = {})
    /\ pc = "rebuild" => ~replica.has /\ remote # {}
    /\ pc \in {"forget", "strip", "reconcile", "reserve", "create"} =>
         /\ replica.has /\ through = replica.through /\ tier = replica.tier /\ replica.seq <= seq
         /\ buffer \subseteq replica.buffer
         /\ \A o \in replica.buffer : Above(remote, o) => o \in buffer
    /\ pc \in {"strip", "reconcile"} => published = {}
    /\ pc \in {"reserve", "create"} =>
         /\ published = remote /\ \A o \in buffer : Above(remote, o)
         /\ cut \in Nat /\ cut <= seq + 1 /\ \A o \in buffer : cut <= o
    /\ pc = "create" => issued <= seq

\* And after: the rows are in place, the published table is adopted before the
\* tail comes back, and a replica's tier row is no more trusted once dropped.
Serving ==
    /\ Placed
    /\ pc \in {"tail", "drop", "backfill", "done"} => Adoption
    /\ ~replica.has \/ pc \in {"backfill", "done"} => Names

\* The inductive invariant: before the root is a log, and after.
RestoreInv ==
    /\ Disaster /\ pc \in RestoreSteps
    /\ pc \in Openable => Serving
    /\ pc \notin Openable => Database

\* It holds when the machine is lost.
LEMMA RestoreStart ==
    ASSUME RestoreInit
    PROVE  RestoreInv
<1>1. Disaster
  BY DisasterStart
<1>2. /\ seq = 0 /\ buffer = {} /\ staging = {} /\ tier = [has |-> FALSE, start |-> 0, end |-> 0]
      /\ pc = "start" /\ known = 0 /\ fresh = {} /\ (~replica.has => published = {})
  BY DEF RestoreInit, LocalInit
<1>3. Database
  BY <1>2 DEF Database, NoReplica
<1> QED
  BY <1>1, <1>2, <1>3 DEF RestoreInv, RestoreSteps, Openable

\* A step that leaves what was lost alone leaves Disaster.
LEMMA DisasterKept ==
    ASSUME Disaster, UNCHANGED lost
    PROVE  Disaster' /\ Left' = Left
BY DEF Disaster, lost, Left

\* Where the published table of the lost machine ends.
LEMMA RemoteReach ==
    ASSUME Disaster, NEW r, r = ReachOf(remote)
    PROVE  /\ r \in Nat /\ r <= issued + 1 /\ (remote # {} => \E f \in remote : f.end = r /\ 1 <= r)
           /\ \A o \in Nat : o >= r <=> Above(remote, o)
<1>1. /\ issued \in Nat /\ issued + 1 \in Nat
      /\ \A f \in remote : f.start \in Nat /\ f.end \in Nat /\ 1 <= f.start /\ f.start < f.end /\ f.end <= issued + 1
  BY DEF Disaster, TableIn, FileIn
<1>2. /\ r \in Nat /\ r <= issued + 1 /\ (\A f \in remote : f.end <= r)
      /\ r # 0 => \E f \in remote : f.end = r
  BY <1>1, ReachFacts
<1>3. ASSUME NEW o \in Nat PROVE o >= r <=> Above(remote, o)
  <2>1. o >= r => Above(remote, o)
    BY <1>1, <1>2 DEF Above
  <2>2. Above(remote, o) => o >= r
    BY <1>1, <1>2 DEF Above
  <2> QED
    BY <2>1, <2>2
<1>4. remote # {} => \E f \in remote : f.end = r /\ 1 <= r
  BY <1>1, <1>2
<1> QED
  BY <1>2, <1>3, <1>4

\* The replica is written out, or the log is to be rebuilt.
LEMMA PullStep ==
    ASSUME RestoreInv, Pull
    PROVE  RestoreInv'
<1>0. Disaster /\ Database /\ pc = "start"
  BY DEF RestoreInv, Pull, Openable
<1>1. UNCHANGED <<lost, known, fresh>> /\ staging' = staging
  BY DEF Pull, Then, RestoreDatabase, tvars, tables
<1>2. Disaster'
  BY <1>0, <1>1, DisasterKept
<1>3. CASE RestoreDatabase /\ Then("forget")
  <2>1. /\ seq' = replica.seq /\ through' = replica.through /\ buffer' = replica.buffer
        /\ tier' = replica.tier /\ pc' = "forget" /\ replica.has /\ replica' = replica /\ remote' = remote
    BY <1>1, <1>3 DEF RestoreDatabase, Then, lost
  <2>2. replica.seq \in Nat
    BY <1>0 DEF Disaster
  <2>3. Database'
    BY <1>0, <1>1, <2>1, <2>2 DEF Database
  <2> QED
    BY <1>2, <2>1, <2>3 DEF RestoreInv, RestoreSteps, Openable
<1>4. CASE ~replica.has /\ pc' \in {"rebuild", "nothing"} /\ (pc' = "rebuild" => remote # {}) /\ UNCHANGED tvars
  <2>1. Database'
    BY <1>0, <1>1, <1>4 DEF Database, tvars, tables, meta, lost
  <2> QED
    BY <1>2, <1>4, <2>1 DEF RestoreInv, RestoreSteps, Openable
<1> QED
  BY <1>3, <1>4 DEF Pull, Then

\* forget_published_entry and strip_local_state.
LEMMA ForgetStep ==
    ASSUME RestoreInv, Forget
    PROVE  RestoreInv'
<1>0. Disaster /\ Database /\ pc = "forget"
  BY DEF RestoreInv, Forget, Openable
<1>1. /\ published' = {} /\ pc' = "strip"
      /\ UNCHANGED <<lost, known, fresh, seq, cut, buffer, staging, through, tier>>
  BY DEF Forget, Then, meta
<1>2. Disaster'
  BY <1>0, <1>1, DisasterKept
<1>3. Database'
  BY <1>0, <1>1 DEF Database, lost
<1> QED
  BY <1>1, <1>2, <1>3 DEF RestoreInv, RestoreSteps, Openable

\* The published rows are taken out of the replica's buffer.
LEMMA StripStep ==
    ASSUME RestoreInv, Strip
    PROVE  RestoreInv'
<1>0. Disaster /\ Database /\ pc = "strip"
  BY DEF RestoreInv, Strip, Openable
<1>1. /\ seq' = seq + ReplicaReserve /\ known' = seq + 1 /\ pc' = "reconcile"
      /\ UNCHANGED <<lost, fresh, buffer, staging, published, through, tier>>
  BY DEF Strip, tables
<1>2. seq \in Nat /\ ReplicaReserve \in Nat /\ replica.seq \in Nat /\ replica.seq <= seq
  BY <1>0, RestoreAssumption DEF Database, Disaster
<1>3. seq' \in Nat /\ known' \in Nat /\ replica.seq <= seq'
  BY <1>1, <1>2
<1>4. Disaster'
  BY <1>0, <1>1, DisasterKept
<1>5. Database'
  BY <1>0, <1>1, <1>3 DEF Database, lost
<1> QED
  BY <1>1, <1>4, <1>5 DEF RestoreInv, RestoreSteps, Openable

\* The published table is adopted: only rows above it stay in the buffer.
LEMMA ReconcileStep ==
    ASSUME RestoreInv, Reconcile
    PROVE  RestoreInv'
<1>0. Disaster /\ Database /\ pc = "reconcile"
  BY DEF RestoreInv, Reconcile, Openable
<1>1. Adopted = remote
  BY <1>0 DEF Database, Adopted, Hinted
<1>2. PICK r : r = ReachOf(remote)
  OBVIOUS
<1>3. /\ published' = remote /\ buffer' = {o \in buffer : o >= r}
      /\ cut' = SeedGroup(buffer', through + 1) /\ pc' = "reserve"
      /\ UNCHANGED <<lost, known, fresh, seq, staging, through, tier>>
  BY <1>1, <1>2 DEF Reconcile, Then, meta
<1>4. /\ r \in Nat /\ (remote # {} => \E f \in remote : f.end = r)
      /\ \A o \in Nat : o >= r <=> Above(remote, o)
  BY <1>0, <1>2, RemoteReach
<1>5. /\ buffer \subseteq replica.buffer /\ replica.buffer \subseteq 1..replica.seq
      /\ replica.seq \in Nat /\ replica.seq <= seq /\ seq \in Nat
      /\ through = replica.through /\ through \in Nat /\ through <= seq
      /\ \A o \in replica.buffer : Above(remote, o) => o \in buffer
  BY <1>0 DEF Database, Disaster
<1>6. \A o \in buffer : o \in Nat /\ 1 <= o /\ o <= seq
  BY <1>5
<1>7. \A o \in buffer' : Above(remote, o) /\ o \in Nat /\ 1 <= o /\ o <= seq
  BY <1>3, <1>4, <1>6
<1>8. ASSUME NEW o \in buffer' PROVE through + 1 <= o
  <2>1. CASE through = 0
    BY <1>7, <2>1
  <2>2. CASE \E p \in remote : through < p.end
    <3>1. PICK p \in remote : through < p.end
      BY <2>2
    <3>2. p.end \in Nat /\ p.end <= o
      BY <1>0, <1>7 DEF Above, Disaster, TableIn, FileIn
    <3> QED
      BY <1>5, <1>7, <3>1, <3>2
  <2> QED
    BY <1>0, <1>5, <2>1, <2>2 DEF Disaster
<1>9. cut' \in Nat /\ cut' <= seq + 1 /\ \A o \in buffer' : cut' <= o
  <2>1. PICK A : A = {o \in buffer' : o >= through + 1}
    OBVIOUS
  <2>2. A = buffer'
    BY <1>5, <1>7, <1>8, <2>1
  <2>3. cut' = IF A = {} THEN through + 1 ELSE Min(A)
    BY <1>3, <2>1 DEF SeedGroup
  <2>4. CASE A = {}
    BY <1>5, <2>2, <2>3, <2>4
  <2>5. CASE A # {}
    <3>1. A \subseteq Nat
      BY <1>7, <2>2
    <3>2. Min(A) \in A /\ \A y \in A : Min(A) <= y
      BY <2>5, <3>1, MinOfNaturals
    <3> QED
      BY <1>5, <1>7, <2>2, <2>3, <2>5, <3>2
  <2> QED
    BY <2>4, <2>5
<1>10. ASSUME NEW o \in replica.buffer, Above(remote, o) PROVE o \in buffer'
  BY <1>3, <1>4, <1>5, <1>6, <1>10
<1>11. Disaster'
  BY <1>0, <1>3, DisasterKept
<1>12. Database'
  <2>1. /\ replica' = replica /\ remote' = remote /\ issued' = issued
        /\ replica.has /\ tier = replica.tier /\ known \in Nat /\ fresh = {} /\ staging = {}
    BY <1>0, <1>3 DEF Database, lost
  <2>2. buffer' \subseteq replica.buffer
    BY <1>3, <1>5
  <2> QED
    BY <1>3, <1>5, <1>7, <1>9, <1>10, <2>1, <2>2 DEF Database
<1> QED
  BY <1>3, <1>11, <1>12 DEF RestoreInv, RestoreSteps, Openable

\* The reserve: above both records.
LEMMA ReserveStep ==
    ASSUME RestoreInv, Reserve
    PROVE  RestoreInv'
<1>0. Disaster /\ Database /\ pc = "reserve"
  BY DEF RestoreInv, Reserve, Openable
<1>1. /\ seq \in Nat /\ known \in Nat /\ issued \in Nat /\ replica.seq \in Nat /\ replica.seq <= seq
      /\ ReplicaReserve \in Nat /\ PublishedReserve \in Nat /\ cut \in Nat /\ cut <= seq + 1
  BY <1>0, RestoreAssumption DEF Database, Disaster
<1>2. PICK w \in Int : w = (IF issued + 1 > known THEN issued + 1 + PublishedReserve
                            ELSE known + ReplicaReserve)
  BY <1>1
<1>3. PICK v \in Int : v = w - 1
  OBVIOUS
<1>4. PICK a \in Int : a = seq
  BY <1>1
<1>5. PICK m : m = Max({a, v})
  OBVIOUS
<1>6. m \in {a, v} /\ m >= a /\ m >= v
  BY <1>5, MaxOfTwo
<1>7. /\ seq' = m /\ pc' = "create"
      /\ UNCHANGED <<lost, known, fresh, cut, buffer, staging, published, through, tier>>
  BY <1>2, <1>3, <1>4, <1>5 DEF Reserve, Then, tables, meta
<1>8. v >= issued
  BY <1>1, <1>2, <1>3
<1>9. seq' \in Nat /\ issued <= seq' /\ replica.seq <= seq' /\ cut <= seq' + 1
  BY <1>1, <1>4, <1>6, <1>7, <1>8
<1>10. Disaster'
  BY <1>0, <1>7, DisasterKept
<1>11. Database'
  BY <1>0, <1>1, <1>7, <1>9 DEF Database, lost
<1> QED
  BY <1>7, <1>10, <1>11 DEF RestoreInv, RestoreSteps, Openable

\* LogTable.create: from here on the root can be opened.
LEMMA CreateStep ==
    ASSUME RestoreInv, Create
    PROVE  RestoreInv'
<1>0. Disaster /\ Database /\ pc = "create"
  BY DEF RestoreInv, Create, Openable
<1>1. pc' = "tail" /\ UNCHANGED <<lost, fresh, seq, cut, buffer, staging, published, through, tier>>
  BY DEF Create, Then, tvars, tables, meta
<1>2. Disaster' /\ Left' = Left /\ remote' = remote /\ replica' = replica
  BY <1>0, <1>1, DisasterKept DEF lost
<1>3. /\ published = remote /\ fresh = {} /\ staging = {} /\ seq \in Nat /\ issued <= seq
      /\ cut \in Nat /\ cut <= seq + 1 /\ (\A o \in buffer : cut <= o)
      /\ (\A o \in buffer : Above(remote, o)) /\ buffer \subseteq replica.buffer
      /\ (\A o \in replica.buffer : Above(remote, o) => o \in buffer)
      /\ through = replica.through /\ tier = replica.tier /\ replica.seq <= seq /\ replica.has
  BY <1>0 DEF Database
<1>4. Adopted = remote /\ There = Left
  BY <1>3 DEF Adopted, Hinted, There
<1>5. /\ TableIn(Left, remote) /\ (\A f \in remote : f.end <= issued + 1) /\ issued \in Nat
      /\ (\A o \in Left : o \in Nat /\ 1 <= o)
      /\ (\A o \in Left : Holds(remote, o) \/ (Above(remote, o) /\ o \in replica.buffer))
      /\ replica.buffer \subseteq 1..replica.seq /\ replica.seq \in Nat /\ replica.through \in Nat
      /\ replica.through = 0 \/ \E p \in remote : replica.through < p.end
      /\ replica.tier \in [has : BOOLEAN, start : Nat, end : Nat]
  BY <1>0 DEF Disaster
<1>6. replica.buffer \subseteq 1..seq
  BY <1>3, <1>5
<1>7. Left \subseteq 1..seq
  <2>1. ASSUME NEW o \in Left PROVE o <= seq
    <3>1. CASE Holds(remote, o)
      <4>1. PICK f \in remote : o \in Span(f)
        BY <3>1 DEF Holds
      <4>2. f.start \in Nat /\ f.end \in Nat /\ f.end <= issued + 1
        BY <1>5 DEF TableIn, FileIn
      <4> QED
        BY <1>3, <1>5, <4>1, <4>2 DEF Span
    <3>2. CASE o \in replica.buffer
      BY <1>3, <1>6, <3>2
    <3> QED
      BY <1>5, <3>1, <3>2
  <2> QED
    BY <1>3, <1>5, <2>1
<1>8. Unfiled = buffer
  <2>1. \A o \in buffer : o \in Nat
    BY <1>3, <1>6
  <2> QED
    BY <1>3, <2>1 DEF Unfiled
<1>9. InPlace(Left, buffer, {}, remote)
  <2>1. buffer \subseteq Left
    BY <1>3 DEF Left
  <2>2. \A o \in buffer : Above({} \cup remote, o)
    BY <1>3
  <2>3. \A o \in Left : Holds(remote, o) \/ (Above(remote, o) /\ (o \in buffer \/ Holds({}, o)))
    BY <1>3, <1>5
  <2>4. TableIn(Left, {})
    BY DEF TableIn
  <2> QED
    BY <1>5, <2>1, <2>2, <2>3, <2>4 DEF InPlace
<1>10. Placed
  <2>1. InPlace(There, Unfiled, staging, Adopted)
    BY <1>3, <1>4, <1>8, <1>9
  <2>2. through = 0 \/ \E p \in Adopted : through < p.end
    BY <1>3, <1>4, <1>5
  <2> QED
    BY <1>3, <1>4, <1>5, <1>6, <1>7, <2>1, <2>2 DEF Placed
<1>11. Placed'
  BY <1>1, <1>2, <1>10 DEF Placed, There, Unfiled, Adopted, Hinted
<1>12. Adoption'
  BY <1>1, <1>2, <1>3 DEF Adoption
<1> QED
  BY <1>1, <1>2, <1>3, <1>11, <1>12 DEF RestoreInv, Serving, RestoreSteps, Openable

\* A log rebuilt from the published table alone.
LEMMA RebuildStep ==
    ASSUME RestoreInv, Rebuild
    PROVE  RestoreInv'
<1>0. Disaster /\ Database /\ pc = "rebuild"
  BY DEF RestoreInv, Rebuild, Openable
<1>1. PICK r : r = ReachOf(remote)
  OBVIOUS
<1>2. PICK n : n = issued + 1 + PublishedReserve
  OBVIOUS
<1>3. /\ seq' = n - 1 /\ cut' = n /\ through' = r - 1 /\ pc' = "adopt"
      /\ UNCHANGED <<lost, fresh, buffer, staging, published, tier>>
  BY <1>1, <1>2 DEF Rebuild, CreateLog, PublishedSpanEnd, Hinted, Then, tables
<1>4. /\ fresh = {} /\ staging = {} /\ buffer = {} /\ published = {} /\ tier = NoReplica.tier
      /\ ~replica.has /\ remote # {}
  BY <1>0 DEF Database
<1>5. /\ TableIn(Left, remote) /\ (\A f \in remote : f.end <= issued + 1) /\ issued \in Nat
      /\ (\A o \in Left : o \in Nat /\ 1 <= o)
      /\ (\A o \in Left : Holds(remote, o)) /\ PublishedReserve \in Nat
  BY <1>0, <1>4, RestoreAssumption DEF Disaster
<1>6. r \in Nat /\ \E f \in remote : f.end = r /\ 1 <= r
  BY <1>0, <1>1, <1>4, RemoteReach
<1>7. PICK s \in Nat : s = n - 1 /\ n \in Nat /\ n <= s + 1 /\ issued <= s
  BY <1>2, <1>5
<1>8. Disaster' /\ Left' = Left /\ remote' = remote /\ replica' = replica
  BY <1>0, <1>3, DisasterKept DEF lost
<1>9. Left \subseteq 1..s
  <2>1. ASSUME NEW o \in Left PROVE o <= s
    <3>1. PICK f \in remote : o \in Span(f)
      BY <1>5 DEF Holds
    <3>2. f.start \in Nat /\ f.end \in Nat /\ f.end <= issued + 1
      BY <1>5 DEF TableIn, FileIn
    <3> QED
      BY <1>5, <1>7, <3>1, <3>2 DEF Span
  <2> QED
    BY <1>5, <2>1
<1>10. Adopted' = remote /\ There' = Left /\ Unfiled' = {}
  BY <1>3, <1>4, <1>8 DEF Adopted, Hinted, There, Unfiled
<1>11. InPlace(Left, {}, {}, remote)
  <2>1. TableIn(Left, {})
    BY DEF TableIn
  <2> QED
    BY <1>5, <2>1 DEF InPlace
<1>12. through' \in Nat /\ \E p \in remote : through' < p.end
  BY <1>3, <1>6
<1>13. tier' \in [has : BOOLEAN, start : Nat, end : Nat] /\ ~tier'.has
  BY <1>3, <1>4 DEF NoReplica
<1>14. Placed'
  <2>1. InPlace(There', Unfiled', staging', Adopted')
    BY <1>3, <1>4, <1>10, <1>11
  <2>2. seq' = s /\ cut' \in Nat /\ cut' <= s + 1 /\ There' \subseteq 1..s /\ buffer' \subseteq 1..s
    BY <1>3, <1>4, <1>7, <1>9, <1>10
  <2> QED
    BY <1>7, <1>10, <1>12, <1>13, <2>1, <2>2 DEF Placed
<1>15. Names'
  BY <1>13 DEF Names
<1> QED
  BY <1>3, <1>8, <1>14, <1>15 DEF RestoreInv, Serving, RestoreSteps, Openable

\* The published table is adopted, at once or by the first publish.
LEMMA AdoptStep ==
    ASSUME RestoreInv, Adopt \/ AdoptLate
    PROVE  RestoreInv'
<1>0. Disaster /\ Serving /\ pc \in Openable
  BY DEF RestoreInv, Adopt, AdoptLate, Openable
<1>1. /\ published' = Adopted /\ pc' \in {"tail", "opened"}
      /\ UNCHANGED <<lost, fresh, seq, cut, buffer, staging, through, tier>>
  BY DEF Adopt, AdoptLate, Then, meta, restoring
<1>2. Disaster' /\ Left' = Left /\ remote' = remote /\ replica' = replica
  BY <1>0, <1>1, DisasterKept DEF lost
<1>3. Adopted' = Adopted /\ Adoption'
  BY <1>1, <1>2 DEF Adopted, Hinted, Adoption
<1>4. Placed'
  BY <1>0, <1>1, <1>2, <1>3 DEF Serving, Placed, There, Unfiled
<1>5. Names => Names'
  BY <1>1, <1>3 DEF Names
<1>6. Serving'
  BY <1>0, <1>1, <1>2, <1>3, <1>4, <1>5 DEF Serving
<1> QED
  BY <1>1, <1>2, <1>6 DEF RestoreInv, RestoreSteps, Openable

\* _restore_tail.
LEMMA TailStep ==
    ASSUME RestoreInv, RestoreTail
    PROVE  RestoreInv'
<1>0. Disaster /\ Serving /\ pc = "tail" /\ Placed /\ Adoption
  BY DEF RestoreInv, Serving, RestoreTail, Openable
<1>1. Adopted = published
  BY <1>0, AdoptedIs
<1>2. PICK full : full = {f \in published : Full(f)}
  OBVIOUS
<1>3. PICK tail : tail = {f \in published : full = {} \/ f.start >= ReachOf(full)}
  OBVIOUS
<1>4. /\ \/ /\ tail # {}
            /\ through' = Max({through, PublishedEnd - 1})
            /\ staging' \in {staging, IF SpanEnd >= ReachOf(tail) THEN staging ELSE staging \cup tail}
         \/ UNCHANGED <<through, staging>>
      /\ pc' = IF replica.has THEN "drop" ELSE "done"
      /\ UNCHANGED <<lost, fresh, seq, cut, buffer, published, tier>>
  BY <1>2, <1>3, Zenon DEF RestoreTail, Then
<1>5. Disaster' /\ Left' = Left /\ remote' = remote /\ replica' = replica
  BY <1>0, <1>4, DisasterKept DEF lost
<1>6. Adopted' = Adopted /\ There' = There /\ Unfiled' = Unfiled /\ Adoption'
  BY <1>0, <1>4, <1>5 DEF Adopted, Hinted, There, Unfiled, Adoption
<1>7. /\ seq \in Nat /\ There \subseteq 1..seq /\ InPlace(There, Unfiled, staging, published)
      /\ through \in Nat /\ (through = 0 \/ \E p \in published : through < p.end)
  BY <1>0, <1>1 DEF Placed
<1>8. \A f \in staging \cup published : /\ f.start \in Nat /\ f.end \in Nat /\ 1 <= f.start
                                        /\ f.start < f.end /\ f.end <= seq + 1
  BY <1>0, <1>1, PlacedFacts
<1>9. PICK m \in Nat : m = seq + 1
  BY <1>7
<1>10. /\ staging \subseteq staging' /\ InPlace(There, Unfiled, staging', published)
       /\ through' \in Nat /\ (through' = 0 \/ \E p \in published : through' < p.end)
  <2>1. CASE UNCHANGED <<through, staging>>
    BY <1>7, <2>1
  <2>2. CASE /\ tail # {} /\ through' = Max({through, PublishedEnd - 1})
             /\ staging' \in {staging, IF SpanEnd >= ReachOf(tail) THEN staging ELSE staging \cup tail}
    <3>1. PICK c : c = IF full = {} THEN 0 ELSE ReachOf(full)
      OBVIOUS
    <3>2. c \in Nat
      <4>1. \A f \in full : f.end \in Nat /\ f.end <= m
        BY <1>2, <1>8, <1>9
      <4>2. PICK x : x = ReachOf(full)
        OBVIOUS
      <4>3. x \in Nat
        BY <4>1, <4>2, ReachFacts
      <4> QED
        BY <3>1, <4>2, <4>3
    <3>3. tail = From(published, c)
      BY <1>3, <1>8, <3>1 DEF From
    <3>4. InPlace(There, Unfiled, staging', published)
      <4>1. PICK s : s = ReachOf(staging)
        OBVIOUS
      <4>2. PICK e : e = ReachOf(tail)
        OBVIOUS
      <4>3. s \in Nat
        BY <1>8, <1>9, <4>1, ReachFacts
      <4>4. e \in Nat
        <5>1. \A f \in tail : f.end \in Nat /\ f.end <= m
          BY <1>3, <1>8, <1>9
        <5> QED
          BY <1>9, <4>2, <5>1, ReachFacts
      <4>5. CASE s >= e \/ staging' = staging
        BY <1>7, <2>2, <4>1, <4>2, <4>5 DEF SpanEnd
      <4>6. CASE ~(s >= e) /\ staging' # staging
        <5>1. staging' = staging \cup tail
          BY <2>2, <4>1, <4>2, <4>6 DEF SpanEnd
        <5>2. ReachOf(staging) < ReachOf(tail)
          BY <4>1, <4>2, <4>3, <4>4, <4>6
        <5>3. staging = {} /\ InPlace(There, Unfiled, tail, published)
          BY <1>7, <2>2, <3>2, <3>3, <5>2, PlaceTail
        <5>4. staging' = tail
          BY <5>1, <5>3
        <5> QED
          BY <5>3, <5>4
      <4> QED
        BY <4>5, <4>6
    <3>5. PICK q : q = ReachOf(published)
      OBVIOUS
    <3>6. q \in Nat /\ (\A f \in published : f.end <= q) /\ (q # 0 => \E f \in published : f.end = q)
      BY <1>8, <1>9, <3>5, ReachFacts
    <3>7. PICK v \in Int : v = q - 1
      BY <3>6
    <3>8. PICK t \in Int : t = through
      BY <1>7
    <3>9. PICK h : h = Max({t, v})
      OBVIOUS
    <3>10. h \in {t, v} /\ h >= t /\ h >= v
      BY <3>9, MaxOfTwo
    <3>11. through' = h
      BY <2>2, <3>5, <3>7, <3>8, <3>9 DEF PublishedEnd
    <3>12. h \in Nat
      BY <1>7, <3>6, <3>7, <3>8, <3>10
    <3>13. through' = 0 \/ \E p \in published : through' < p.end
      <4>1. CASE h = t
        BY <1>7, <3>8, <3>11, <4>1
      <4>2. CASE h = v
        <5>1. PICK x \in published : x.end = q
          BY <3>6, <3>7, <3>12, <4>2
        <5>2. through' < x.end
          BY <3>6, <3>7, <3>11, <4>2, <5>1
        <5> QED
          BY <5>2
      <4> QED
        BY <3>10, <4>1, <4>2
    <3> QED
      BY <2>2, <3>4, <3>11, <3>12, <3>13
  <2> QED
    BY <1>4, <2>1, <2>2
<1>11. Placed'
  <2>1. InPlace(There', Unfiled', staging', Adopted')
    BY <1>1, <1>6, <1>10
  <2>2. through' = 0 \/ \E p \in Adopted' : through' < p.end
    BY <1>1, <1>6, <1>10
  <2> QED
    BY <1>0, <1>4, <1>6, <1>10, <2>1, <2>2 DEF Placed
<1>12. Names => Names'
  BY <1>4, <1>6, <1>10 DEF Names
<1>13. Serving'
  BY <1>0, <1>4, <1>5, <1>6, <1>11, <1>12 DEF Serving
<1> QED
  BY <1>4, <1>5, <1>13 DEF RestoreInv, RestoreSteps, Openable

\* The tier row is taken afresh.
LEMMA RowStep ==
    ASSUME RestoreInv, DropRow \/ Backfill
    PROVE  RestoreInv'
<1>0. Disaster /\ Serving /\ pc \in {"drop", "backfill"} /\ Placed /\ Adoption
  BY DEF RestoreInv, Serving, DropRow, Backfill, Openable
<1>1. Adopted = published
  BY <1>0, AdoptedIs
<1>2. /\ pc' \in {"backfill", "done"}
      /\ UNCHANGED <<lost, fresh, seq, cut, buffer, staging, published, through>>
  BY DEF DropRow, Backfill, Then, tables
<1>3. Disaster' /\ Left' = Left /\ remote' = remote /\ replica' = replica
  BY <1>0, <1>2, DisasterKept DEF lost
<1>4. Adopted' = Adopted /\ There' = There /\ Unfiled' = Unfiled /\ Adoption'
  BY <1>0, <1>2, <1>3 DEF Adopted, Hinted, There, Unfiled, Adoption
<1>5. tier' \in [has : BOOLEAN, start : Nat, end : Nat] /\ Names'
  <2>1. CASE DropRow
    <3>1. tier' = [has |-> FALSE, start |-> 0, end |-> 0]
      BY <2>1 DEF DropRow, NoReplica
    <3> QED
      BY <3>1 DEF Names
  <2>2. CASE Backfill
    <3>1. pc = "backfill" /\ Names
      BY <1>0, <2>2 DEF Backfill, Serving
    <3>2. PICK y : y = Exact(published, staging)
      OBVIOUS
    <3>3. PICK m \in Nat : m = seq + 1
      BY <1>0 DEF Placed
    <3>4. \A f \in staging \cup published : f.start \in Nat /\ f.end \in Nat /\ f.start < f.end /\ f.end <= m
      BY <1>0, <1>1, <3>3, PlacedFacts
    <3>5. /\ y \in [has : BOOLEAN, start : Nat, end : Nat]
          /\ y.end <= y.start => \A p \in published : \E f \in staging : f.start <= p.start
      BY <3>2, <3>3, <3>4, ExactCovers
    <3>6. CASE tier' = tier
      BY <1>0, <1>2, <1>4, <3>1, <3>6 DEF Names, Placed
    <3>7. CASE tier' = y
      BY <1>1, <1>2, <1>4, <3>5, <3>7 DEF Names
    <3> QED
      BY <2>2, <3>2, <3>6, <3>7 DEF Backfill
  <2> QED
    BY <2>1, <2>2
<1>6. Placed'
  BY <1>0, <1>2, <1>4, <1>5 DEF Placed
<1>7. Serving'
  BY <1>4, <1>5, <1>6 DEF Serving
<1> QED
  BY <1>2, <1>3, <1>7 DEF RestoreInv, RestoreSteps, Openable

\* A restore that stops is called again, or its log is opened as it is.
LEMMA StopStep ==
    ASSUME RestoreInv, Stop
    PROVE  RestoreInv'
<1>1. /\ UNCHANGED <<lost, known, fresh, seq, cut, buffer, staging, published, through, tier>>
      /\ pc \notin {"start", "nothing", "done", "opened"}
      /\ pc' = IF pc \in Openable THEN "opened" ELSE IF pc = "rebuild" THEN "start" ELSE "forget"
  BY DEF Stop, tvars, tables, meta
<1>2. Disaster' /\ Left' = Left /\ remote' = remote /\ replica' = replica
  BY <1>1, DisasterKept DEF RestoreInv, lost
<1>3. CASE pc \in Openable
  <2>1. pc' = "opened" /\ Serving
    BY <1>1, <1>3 DEF RestoreInv
  <2>2. Adopted' = Adopted /\ There' = There /\ Unfiled' = Unfiled
    BY <1>1, <1>2 DEF Adopted, Hinted, There, Unfiled
  <2>3. Placed' /\ (Names => Names')
    BY <1>1, <2>1, <2>2 DEF Serving, Placed, Names
  <2>4. Serving'
    BY <1>2, <2>1, <2>3 DEF Serving
  <2> QED
    BY <1>2, <2>1, <2>4 DEF RestoreInv, RestoreSteps, Openable
<1>4. CASE pc \notin Openable
  <2>1. Database /\ pc \in {"forget", "strip", "reconcile", "reserve", "create", "rebuild"}
    BY <1>1, <1>4 DEF RestoreInv, RestoreSteps
  <2>2. CASE pc = "rebuild"
    <3>1. pc' = "start"
      BY <1>1, <1>4, <2>2
    <3>2. Database'
      BY <1>1, <1>2, <2>1, <2>2, <3>1 DEF Database
    <3> QED
      BY <1>2, <3>1, <3>2 DEF RestoreInv, RestoreSteps, Openable
  <2>3. CASE pc # "rebuild"
    <3>1. pc' = "forget"
      BY <1>1, <1>4, <2>3
    <3>2. Database'
      BY <1>1, <1>2, <2>1, <2>3, <3>1 DEF Database
    <3> QED
      BY <1>2, <3>1, <3>2 DEF RestoreInv, RestoreSteps, Openable
  <2> QED
    BY <2>2, <2>3
<1> QED
  BY <1>3, <1>4

\* Every step keeps it.
LEMMA RestoreInvStep ==
    ASSUME RestoreInv, [RestoreNext]_allvars
    PROVE  RestoreInv'
<1>1. CASE Work
  <2>1. pc \in Openable /\ Serving /\ Disaster /\ Placed
    BY <1>1 DEF RestoreInv, Serving, Work
  <2>2. StillPlaced /\ UNCHANGED <<lost, pc>>
    BY <1>1, <2>1, WorkPlaced
  <2>3. Disaster' /\ replica' = replica /\ pc' = pc
    BY <2>1, <2>2, DisasterKept DEF lost
  <2>4. Serving'
    BY <2>1, <2>2, <2>3 DEF Serving, StillPlaced
  <2> QED
    BY <2>1, <2>3, <2>4 DEF RestoreInv
<1>2. CASE UNCHANGED allvars
  BY <1>2 DEF RestoreInv, Disaster, Serving, Placed, Database, Adoption, Names, Left, There, Unfiled,
              Adopted, Hinted, allvars, tvars, tables, meta, lost, restoring
<1> QED
  BY <1>1, <1>2, PullStep, ForgetStep, StripStep, ReconcileStep, ReserveStep, CreateStep,
     RebuildStep, AdoptStep, TailStep, RowStep, StopStep DEF RestoreNext

\* After a restore that returned, every row that the published table or the
\* replica still had and every row appended since is read exactly once, for
\* every disaster, any number of restores that stopped anywhere before it, and
\* whatever routines run beside it.
THEOREM RestoredLogWhole == RestoreSpec => []RestoredWhole
<1>1. RestoreInv => RestoredWhole
  <2> SUFFICES ASSUME RestoreInv, pc = "done", NEW o \in Left \cup fresh PROVE Served(o) = 1
    BY DEF RestoredWhole, AllServed
  <2>1. Placed /\ Adoption /\ Names
    BY DEF RestoreInv, Serving, Openable
  <2>2. Adopted = published
    BY <2>1, AdoptedIs
  <2>3. /\ seq \in Nat /\ There \subseteq 1..seq /\ InPlace(There, Unfiled, staging, published)
        /\ tier \in [has : BOOLEAN, start : Nat, end : Nat] /\ o \in There
    BY <2>1, <2>2 DEF Placed, There
  <2>4. tier.has /\ tier.end <= tier.start => \A p \in published : \E f \in staging : f.start <= p.start
    BY <2>1, <2>2 DEF Names
  <2> QED
    BY <2>3, <2>4, PlaceServed
<1> QED
  BY <1>1, RestoreStart, RestoreInvStep, PTL DEF RestoreSpec

\* No staged file reaches across the published end, at any step of a restore
\* and of the work on its log.
THEOREM NothingStraddles == RestoreSpec => []NoStraddler
<1>1. RestoreInv => NoStraddler
  <2> SUFFICES ASSUME RestoreInv, NEW f \in staging, NEW p \in published, Meets(p, f)
               PROVE  Span(p) \subseteq Span(f)
    BY DEF NoStraddler, Meets
  <2>1. pc \in Openable /\ Placed
    BY DEF RestoreInv, Serving, Database
  <2>2. Adopted = published
    BY DEF Adopted
  <2>3. /\ p.start \in Nat /\ p.end \in Nat /\ p.start < p.end
        /\ f.start \in Nat /\ f.end \in Nat /\ f.start < f.end
    BY <2>1, <2>2, PlacedFacts
  <2>4. Apart(p, f) \/ Inside(p, f)
    BY <2>1, <2>2 DEF Placed, InPlace
  <2>5. Inside(p, f)
    BY <2>3, <2>4, MeetsIs
  <2> QED
    BY <2>3, <2>5 DEF Inside, Span
<1> QED
  BY <1>1, RestoreStart, RestoreInvStep, PTL DEF RestoreSpec

=============================================================================
