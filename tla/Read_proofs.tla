----------------------------- MODULE Read_proofs -----------------------------
(***************************************************************************)
(* The tables of module Tiers and the query of module Read, for any number *)
(* of workers, rows, names, failures and lapsed claims, as long as no      *)
(* claim lapses between a checkpoint and the commit that follows it        *)
(* (PromptCommit).                                                         *)
(*                                                                         *)
(* A table is looked at as a tiling: its files cut a range of offsets      *)
(* without gap or overlap (Tiled).  Geometry says that the staging table   *)
(* tiles Lo..Hi and the published one 1..Pub, with Lo <= Pub <= Hi, that   *)
(* the watermark is below Pub and that the buffer has all from Pub up.     *)
(* Each commit replaces a part of a tiling by another of the same range    *)
(* (TiledReplace), extends it (TiledJoin) or drops a prefix (TiledDrop);   *)
(* what its worker has in hand fits the table as it is then, because       *)
(* either the table only ever moved up since (JobsLast), or the worker     *)
(* holds a live claim and no other claim overlaps it (Fenced).  The ends   *)
(* never go back (Grown), which is all that a query needs: what it found   *)
(* below a snapshot stays published, and what it found at a tier's end     *)
(* stays below the next one's.  The last section is about a single worker. *)
(***************************************************************************)
EXTENDS Read, WellFoundedInduction, FiniteSetTheorems, TLAPS

-----------------------------------------------------------------------------
(***************************************************************************)
(* Sets of numbers and of files.                                           *)
(***************************************************************************)

\* A non-empty set of naturals has a least element, and Min picks it.
LEMMA MinOfNaturals ==
    ASSUME NEW S, S \subseteq Nat, S # {}
    PROVE  Min(S) \in S /\ \A y \in S : Min(S) <= y
<1>1. IsWellFoundedOn({p \in Nat \X Nat : p[1] < p[2]}, Nat)
  BY NatLessThanWellFounded, Zenon DEF OpToRel
<1>2. PICK x \in S : \A y \in S : ~(<<y, x>> \in {p \in Nat \X Nat : p[1] < p[2]})
  BY <1>1, WFMin
<1>3. \A y \in S : x <= y
  <2> SUFFICES ASSUME NEW y \in S PROVE x <= y
    OBVIOUS
  <2>1. y \in Nat /\ x \in Nat
    OBVIOUS
  <2>2. ~(y < x)
    BY <1>2, <2>1
  <2> QED
    BY <2>1, <2>2
<1>4. QED
  BY <1>3 DEF Min

\* A non-empty bounded one has a greatest, and Max picks it.
LEMMA MaxOfNaturals ==
    ASSUME NEW S, NEW n \in Nat, S \subseteq 0..n, S # {}
    PROVE  Max(S) \in S /\ \A y \in S : y <= Max(S)
<1>1. PICK T : T = {n - x : x \in S}
  OBVIOUS
<1>2. T \subseteq Nat
  <2> SUFFICES ASSUME NEW x \in S PROVE n - x \in Nat
    BY <1>1
  <2>1. x \in 0..n
    OBVIOUS
  <2> QED
    BY <2>1
<1>a. T # {}
  BY <1>1
<1>3. PICK t \in T : \A u \in T : t <= u
  BY <1>2, <1>a, MinOfNaturals
<1>4. PICK m \in S : t = n - m
  BY <1>1, <1>3
<1>5. \A y \in S : m >= y
  BY <1>1, <1>3, <1>4
<1>6. QED
  BY <1>5 DEF Max

\* The lesser and the greater of two naturals.
LEMMA TwoBetween ==
    ASSUME NEW a \in Nat, NEW b \in Nat
    PROVE  /\ Min({a, b}) = IF a <= b THEN a ELSE b
           /\ Max({a, b}) = IF a <= b THEN b ELSE a
<1>1. Min({a, b}) \in {a, b} /\ \A y \in {a, b} : Min({a, b}) <= y
  BY MinOfNaturals
<1>2. PICK n \in Nat : n >= a /\ n >= b
  OBVIOUS
<1>3. {a, b} \subseteq 0..n
  BY <1>2
<1>4. Max({a, b}) \in {a, b} /\ \A y \in {a, b} : y <= Max({a, b})
  BY <1>3, MaxOfNaturals
<1> QED
  BY <1>1, <1>4

\* Where files reach: an end of one of them, above no other.
LEMMA ReachFacts ==
    ASSUME NEW S, NEW e \in Nat, \A f \in S : f.end \in Nat /\ f.end <= e,
           NEW r, r = ReachOf(S)
    PROVE  /\ r \in Nat /\ r <= e
           /\ \A f \in S : f.end <= r
           /\ r # 0 => \E f \in S : f.end = r
<1>1. PICK R : R = {0} \cup {f.end : f \in S}
  OBVIOUS
<1>2. R \subseteq 0..e /\ R # {}
  BY <1>1
<1>3. r \in R /\ \A y \in R : y <= r
  BY <1>1, <1>2, MaxOfNaturals DEF ReachOf
<1> QED
  BY <1>1, <1>2, <1>3

\* The first of some files.
LEMMA FirstIs ==
    ASSUME NEW S, S # {}, \A f \in S : f.start \in Nat
    PROVE  First(S) \in S /\ \A g \in S : First(S).start <= g.start
<1>1. PICK T : T = {f.start : f \in S}
  OBVIOUS
<1>2. T \subseteq Nat /\ T # {}
  BY <1>1
<1>3. PICK m \in T : \A y \in T : m <= y
  BY <1>2, MinOfNaturals
<1>4. PICK f \in S : m = f.start
  BY <1>1, <1>3
<1>5. \A g \in S : f.start <= g.start
  BY <1>1, <1>3, <1>4
<1> QED
  BY <1>5 DEF First


\* The last of some files.
LEMMA LastIs ==
    ASSUME NEW S, S # {}, NEW e \in Nat, \A f \in S : f.end \in Nat /\ f.end <= e
    PROVE  Last(S) \in S /\ \A g \in S : g.end <= Last(S).end
<1>1. PICK T : T = {f.end : f \in S}
  OBVIOUS
<1>2. T \subseteq 0..e /\ T # {}
  BY <1>1
<1>3. PICK m \in T : \A y \in T : y <= m
  BY <1>2, MaxOfNaturals
<1>4. PICK f \in S : m = f.end
  BY <1>1, <1>3
<1>5. \A g \in S : f.end >= g.end
  BY <1>1, <1>2, <1>3, <1>4
<1>6. Last(S) \in S /\ \A g \in S : Last(S).end >= g.end
  BY <1>5 DEF Last
<1> QED
  BY <1>6

-----------------------------------------------------------------------------

\* Files that tile the offsets from a up to b: no gap, and none in two files.
Sized(F, a, b) ==
    \A f \in F : /\ f.start \in Nat /\ f.end \in Nat
                 /\ a <= f.start /\ f.start < f.end /\ f.end <= b
Disjoint(F) == \A f, g \in F : f = g \/ f.end <= g.start \/ g.end <= f.start
Filled(F, a, b) == \A o \in a..b - 1 : \E f \in F : o \in Span(f)
Tiled(F, a, b) ==
    /\ a \in Nat /\ b \in Nat /\ a <= b
    /\ Sized(F, a, b) /\ Disjoint(F) /\ Filled(F, a, b)

\* A row in a file.
LEMMA SpanIs ==
    ASSUME NEW f, f.start \in Nat, f.end \in Nat, NEW o \in Nat
    PROVE  o \in Span(f) <=> f.start <= o /\ o < f.end
BY DEF Span

\* No file tiles an empty range only.
LEMMA TiledEmpty ==
    ASSUME NEW a, NEW b, Tiled({}, a, b)
    PROVE  a = b
<1>1. a \in Nat /\ b \in Nat /\ a <= b /\ Filled({}, a, b)
  BY DEF Tiled
<1>2. ASSUME a < b PROVE FALSE
  <2>1. a \in a..b - 1
    BY <1>1, <1>2
  <2> QED
    BY <1>1, <2>1 DEF Filled
<1> QED
  BY <1>1, <1>2

\* ... and where there are files, the first starts it.
LEMMA TiledFirst ==
    ASSUME NEW F, NEW a, NEW b, Tiled(F, a, b), F # {}
    PROVE  /\ First(F) \in F /\ First(F).start = a /\ a < b
           /\ First(F).end \in Nat /\ a < First(F).end /\ First(F).end <= b
<1>1. a \in Nat /\ b \in Nat /\ Sized(F, a, b) /\ Filled(F, a, b)
  BY DEF Tiled
<1>2. First(F) \in F /\ \A g \in F : First(F).start <= g.start
  BY <1>1, FirstIs DEF Sized
<1>3. PICK h \in F : h = First(F)
  BY <1>2
<1>4. h.start \in Nat /\ h.end \in Nat /\ a <= h.start /\ h.start < h.end /\ h.end <= b
  BY <1>1 DEF Sized
<1>5. a \in a..b - 1
  BY <1>1, <1>4
<1>6. PICK g \in F : a \in Span(g)
  BY <1>1, <1>5 DEF Filled
<1>7. g.start \in Nat /\ g.end \in Nat
  BY <1>1 DEF Sized
<1>8. g.start <= a
  BY <1>1, <1>6, <1>7, SpanIs
<1> QED
  BY <1>1, <1>2, <1>3, <1>4, <1>7, <1>8

\* ... and they reach its end.
LEMMA TiledReach ==
    ASSUME NEW F, NEW a, NEW b, Tiled(F, a, b), F # {}
    PROVE  /\ ReachOf(F) = b
           /\ Last(F) \in F /\ Last(F).end = b
<1>1. a \in Nat /\ b \in Nat /\ Sized(F, a, b) /\ Filled(F, a, b)
  BY DEF Tiled
<1>2. \A f \in F : f.end \in Nat /\ f.end <= b
  BY <1>1 DEF Sized
<1>3. PICK r : r = ReachOf(F)
  OBVIOUS
<1>4. r \in Nat /\ r <= b /\ \A f \in F : f.end <= r
  BY <1>1, <1>2, <1>3, ReachFacts
<1>5. Last(F) \in F /\ \A g \in F : g.end <= Last(F).end
  BY <1>1, <1>2, LastIs
<1>6. a < b
  BY TiledFirst
<1>7. PICK x \in Nat : x = b - 1
  BY <1>1, <1>6
<1>8. x \in a..b - 1
  BY <1>1, <1>6, <1>7
<1>9. PICK g \in F : x \in Span(g)
  BY <1>1, <1>8 DEF Filled
<1>10. g.start \in Nat /\ g.end \in Nat /\ g.end <= b
  BY <1>1 DEF Sized
<1>11. x < g.end
  BY <1>7, <1>9, <1>10, SpanIs
<1>12. g.end = b
  BY <1>1, <1>7, <1>10, <1>11
<1>13. r = b
  BY <1>1, <1>4, <1>12
<1>14. Last(F).end \in Nat /\ Last(F).end <= b /\ b <= Last(F).end
  BY <1>2, <1>5, <1>12
<1> QED
  BY <1>1, <1>3, <1>5, <1>13, <1>14

\* A row is in one file, inside the range, and in none outside.
LEMMA TiledOnce ==
    ASSUME NEW F, NEW a, NEW b, Tiled(F, a, b), NEW o \in Nat
    PROVE  Cardinality({f \in F : o \in Span(f)}) = IF a <= o /\ o < b THEN 1 ELSE 0
<1>1. a \in Nat /\ b \in Nat /\ Sized(F, a, b) /\ Filled(F, a, b) /\ Disjoint(F)
  BY DEF Tiled
<1>2. PICK Q : Q = {f \in F : o \in Span(f)}
  OBVIOUS
<1>3. CASE a <= o /\ o < b
  <2>1. o \in a..b - 1
    BY <1>1, <1>3
  <2>2. PICK f \in F : o \in Span(f)
    BY <1>1, <2>1 DEF Filled
  <2>3. ASSUME NEW g \in Q PROVE g = f
    <3>1. g \in F /\ o \in Span(g)
      BY <1>2
    <3>2. /\ f.start \in Nat /\ f.end \in Nat /\ g.start \in Nat /\ g.end \in Nat
          /\ f = g \/ f.end <= g.start \/ g.end <= f.start
      BY <1>1, <3>1 DEF Sized, Disjoint
    <3>3. f.start <= o /\ o < f.end /\ g.start <= o /\ o < g.end
      BY <2>2, <3>1, <3>2, SpanIs
    <3> QED
      BY <3>2, <3>3
  <2>4. Q = {f}
    BY <1>2, <2>2, <2>3
  <2>5. Cardinality(Q) = 1
    BY <2>4, FS_Singleton
  <2> QED
    BY <1>2, <1>3, <2>5
<1>4. CASE ~(a <= o /\ o < b)
  <2>1. ASSUME NEW f \in F, o \in Span(f) PROVE FALSE
    <3>1. f.start \in Nat /\ f.end \in Nat /\ a <= f.start /\ f.end <= b
      BY <1>1 DEF Sized
    <3>2. f.start <= o /\ o < f.end
      BY <2>1, <3>1, SpanIs
    <3> QED
      BY <1>1, <1>4, <3>1, <3>2
  <2>2. Q = {}
    BY <1>2, <2>1
  <2>3. Cardinality(Q) = 0
    BY <2>2, FS_EmptySet
  <2> QED
    BY <1>2, <1>4, <2>3
<1> QED
  BY <1>3, <1>4

\* Two tilings that meet are one.
LEMMA TiledJoin ==
    ASSUME NEW F, NEW G, NEW a, NEW b, NEW c, Tiled(F, a, b), Tiled(G, b, c)
    PROVE  Tiled(F \cup G, a, c)
<1>1. /\ a \in Nat /\ b \in Nat /\ c \in Nat /\ a <= b /\ b <= c
      /\ Sized(F, a, b) /\ Disjoint(F) /\ Filled(F, a, b)
      /\ Sized(G, b, c) /\ Disjoint(G) /\ Filled(G, b, c)
  BY DEF Tiled
<1>2. Sized(F \cup G, a, c)
  BY <1>1 DEF Sized
<1>3. Disjoint(F \cup G)
  BY <1>1 DEF Sized, Disjoint
<1>4. Filled(F \cup G, a, c)
  <2> SUFFICES ASSUME NEW o \in a..c - 1 PROVE \E f \in F \cup G : o \in Span(f)
    BY DEF Filled
  <2>1. o \in a..b - 1 \/ o \in b..c - 1
    BY <1>1
  <2> QED
    BY <1>1, <2>1 DEF Filled
<1> QED
  BY <1>1, <1>2, <1>3, <1>4 DEF Tiled

\* A file tiles its own range.
LEMMA TiledOne ==
    ASSUME NEW f, f.start \in Nat, f.end \in Nat, f.start < f.end
    PROVE  Tiled({f}, f.start, f.end)
BY DEF Tiled, Sized, Disjoint, Filled, Span

\* Without its first file, a tiling starts where that one ended.
LEMMA TiledRest ==
    ASSUME NEW F, NEW a, NEW b, Tiled(F, a, b), F # {}
    PROVE  /\ Tiled({First(F)}, a, First(F).end)
           /\ Tiled(F \ {First(F)}, First(F).end, b)
<1>1. PICK h \in F : h = First(F)
  BY TiledFirst
<1>2. /\ a \in Nat /\ b \in Nat /\ h.start = a /\ h.end \in Nat /\ a < h.end /\ h.end <= b
      /\ Sized(F, a, b) /\ Disjoint(F) /\ Filled(F, a, b)
  BY <1>1, TiledFirst DEF Tiled
<1>3. PICK e \in Nat : e = h.end
  BY <1>2
<1>4. Tiled({h}, a, e)
  BY <1>2, <1>3, TiledOne
<1>5. PICK R : R = F \ {h}
  OBVIOUS
<1>6. Sized(R, e, b)
  <2> SUFFICES ASSUME NEW f \in R
               PROVE  /\ f.start \in Nat /\ f.end \in Nat
                      /\ e <= f.start /\ f.start < f.end /\ f.end <= b
    BY DEF Sized
  <2>1. f \in F /\ f # h
    BY <1>5
  <2>2. f.start \in Nat /\ f.end \in Nat /\ a <= f.start /\ f.start < f.end /\ f.end <= b
    BY <1>2, <2>1 DEF Sized
  <2>3. f.end <= h.start \/ h.end <= f.start
    BY <1>2, <2>1 DEF Disjoint
  <2> QED
    BY <1>2, <1>3, <2>2, <2>3
<1>7. Disjoint(R)
  BY <1>2, <1>5 DEF Disjoint
<1>8. Filled(R, e, b)
  <2> SUFFICES ASSUME NEW o \in e..b - 1 PROVE \E f \in R : o \in Span(f)
    BY DEF Filled
  <2>1. o \in a..b - 1
    BY <1>2, <1>3
  <2>2. PICK f \in F : o \in Span(f)
    BY <1>2, <2>1 DEF Filled
  <2>3. f # h
    BY <1>2, <1>3, <2>2 DEF Span
  <2> QED
    BY <1>5, <2>2, <2>3
<1> QED
  BY <1>1, <1>2, <1>3, <1>4, <1>5, <1>6, <1>7, <1>8 DEF Tiled

-----------------------------------------------------------------------------
(***************************************************************************)
(* Deletion by offset.                                                     *)
(***************************************************************************)

\* What a commit that deletes [lo, hi) leaves: the files outside, and of a file
\* across an end the part outside, under a name of its own.
Kept(F, lo, hi) == {f \in F : f.end <= lo \/ f.start >= hi}
LeftPart(F, lo, x) ==
    {[start |-> f.start, end |-> lo, path |-> x] : f \in {f \in F : f.start < lo /\ f.end > lo}}
RightPart(F, hi, y) ==
    {[start |-> hi, end |-> f.end, path |-> y] : f \in {f \in F : f.start < hi /\ f.end > hi}}

\* One thing left, and the file it is or was a part of.
PartOf(g, f, lo, hi) ==
    /\ g.start \in Nat /\ g.end \in Nat
    /\ f.start <= g.start /\ g.start < g.end /\ g.end <= f.end
    /\ g.end <= lo \/ hi <= g.start

Piece(g, f, F, lo, hi, x, y) ==
    /\ PartOf(g, f, lo, hi)
    /\ \/ g = f /\ g \in Kept(F, lo, hi)
       \/ f.start < lo /\ lo < f.end /\ g = [start |-> f.start, end |-> lo, path |-> x]
       \/ f.start < hi /\ hi < f.end /\ g = [start |-> hi, end |-> f.end, path |-> y]

\* Everything left is a part of a file ...
LEMMA LeftIsPart ==
    ASSUME NEW F, NEW a \in Nat, NEW b \in Nat, Sized(F, a, b),
           NEW lo \in Nat, NEW hi \in Nat, lo <= hi, NEW x, NEW y,
           NEW g \in Kept(F, lo, hi) \cup LeftPart(F, lo, x) \cup RightPart(F, hi, y)
    PROVE  \E f \in F : Piece(g, f, F, lo, hi, x, y)
<1> USE DEF Piece
<1>1. CASE g \in Kept(F, lo, hi)
  <2>1. g \in F /\ (g.end <= lo \/ g.start >= hi)
    BY <1>1 DEF Kept
  <2>2. g.start \in Nat /\ g.end \in Nat /\ g.start < g.end
    BY <2>1 DEF Sized
  <2>3. PartOf(g, g, lo, hi)
    BY <2>1, <2>2 DEF PartOf
  <2> QED
    BY <1>1, <2>1, <2>3
<1>2. CASE g \in LeftPart(F, lo, x)
  <2>1. PICK f \in F : f.start < lo /\ f.end > lo /\ g = [start |-> f.start, end |-> lo, path |-> x]
    BY <1>2 DEF LeftPart
  <2>2. f.start \in Nat /\ f.end \in Nat
    BY DEF Sized
  <2>3. g.start = f.start /\ g.end = lo
    BY <2>1
  <2>4. PartOf(g, f, lo, hi)
    BY <2>1, <2>2, <2>3 DEF PartOf
  <2> QED
    BY <2>1, <2>2, <2>4
<1>3. CASE g \in RightPart(F, hi, y)
  <2>1. PICK f \in F : f.start < hi /\ f.end > hi /\ g = [start |-> hi, end |-> f.end, path |-> y]
    BY <1>3 DEF RightPart
  <2>2. f.start \in Nat /\ f.end \in Nat
    BY DEF Sized
  <2>3. g.start = hi /\ g.end = f.end
    BY <2>1
  <2>4. PartOf(g, f, lo, hi)
    BY <2>1, <2>2, <2>3 DEF PartOf
  <2> QED
    BY <2>1, <2>2, <2>4
<1> QED
  BY <1>1, <1>2, <1>3

\* ... the parts do not meet ...
LEMMA LeftApart ==
    ASSUME NEW F, NEW a \in Nat, NEW b \in Nat, Sized(F, a, b), Disjoint(F),
           NEW lo \in Nat, NEW hi \in Nat, lo <= hi, NEW x, NEW y
    PROVE  Disjoint(Kept(F, lo, hi) \cup LeftPart(F, lo, x) \cup RightPart(F, hi, y))
<1>1. PICK W : W = Kept(F, lo, hi) \cup LeftPart(F, lo, x) \cup RightPart(F, hi, y)
  OBVIOUS
<1> SUFFICES ASSUME NEW g \in W, NEW h \in W, g # h
             PROVE  g.end <= h.start \/ h.end <= g.start
  BY <1>1 DEF Disjoint
<1>2. PICK f \in F : Piece(g, f, F, lo, hi, x, y)
  BY <1>1, LeftIsPart
<1>3. PICK k \in F : Piece(h, k, F, lo, hi, x, y)
  BY <1>1, LeftIsPart
<1>4. /\ f.start \in Nat /\ f.end \in Nat /\ k.start \in Nat /\ k.end \in Nat
      /\ f = k \/ f.end <= k.start \/ k.end <= f.start
  BY DEF Sized, Disjoint
<1>5. /\ g.start \in Nat /\ g.end \in Nat /\ f.start <= g.start /\ g.end <= f.end
      /\ h.start \in Nat /\ h.end \in Nat /\ k.start <= h.start /\ h.end <= k.end
      /\ g.start < g.end /\ h.start < h.end
      /\ g.end <= lo \/ hi <= g.start
      /\ h.end <= lo \/ hi <= h.start
  BY <1>2, <1>3 DEF Piece, PartOf
<1>6. CASE f # k
  BY <1>4, <1>5, <1>6
<1>7. CASE f = k
  <2>1. ASSUME g.end <= lo, h.end <= lo PROVE FALSE
    <3>1. \/ g = f /\ f.end <= lo
          \/ lo < f.end /\ g = [start |-> f.start, end |-> lo, path |-> x]
      <4>1. \/ g = f
            \/ f.start < lo /\ lo < f.end /\ g = [start |-> f.start, end |-> lo, path |-> x]
            \/ hi < f.end /\ g = [start |-> hi, end |-> f.end, path |-> y]
        BY <1>2 DEF Piece
      <4>2. CASE g = [start |-> hi, end |-> f.end, path |-> y] /\ hi < f.end
        <5>1. g.end = f.end
          BY <4>2
        <5> QED
          BY <1>4, <2>1, <4>2, <5>1
      <4> QED
        BY <2>1, <4>1, <4>2
    <3>2. \/ h = f /\ f.end <= lo
          \/ lo < f.end /\ h = [start |-> f.start, end |-> lo, path |-> x]
      <4>1. \/ h = f
            \/ f.start < lo /\ lo < f.end /\ h = [start |-> f.start, end |-> lo, path |-> x]
            \/ hi < f.end /\ h = [start |-> hi, end |-> f.end, path |-> y]
        BY <1>3, <1>7 DEF Piece
      <4>2. CASE h = [start |-> hi, end |-> f.end, path |-> y] /\ hi < f.end
        <5>1. h.end = f.end
          BY <4>2
        <5> QED
          BY <1>4, <2>1, <4>2, <5>1
      <4> QED
        BY <2>1, <4>1, <4>2
    <3> QED
      BY <1>4, <3>1, <3>2
  <2>2. ASSUME hi <= g.start, hi <= h.start PROVE FALSE
    <3>1. \/ g = f /\ f.start >= hi
          \/ f.start < hi /\ g = [start |-> hi, end |-> f.end, path |-> y]
      <4>1. \/ g = f
            \/ f.start < lo /\ lo < f.end /\ g = [start |-> f.start, end |-> lo, path |-> x]
            \/ f.start < hi /\ g = [start |-> hi, end |-> f.end, path |-> y]
        BY <1>2 DEF Piece
      <4>2. CASE g = [start |-> f.start, end |-> lo, path |-> x] /\ f.start < lo
        <5>1. g.start = f.start
          BY <4>2
        <5> QED
          BY <1>4, <2>2, <4>2, <5>1
      <4> QED
        BY <2>2, <4>1, <4>2
    <3>2. \/ h = f /\ f.start >= hi
          \/ f.start < hi /\ h = [start |-> hi, end |-> f.end, path |-> y]
      <4>1. \/ h = f
            \/ f.start < lo /\ lo < f.end /\ h = [start |-> f.start, end |-> lo, path |-> x]
            \/ f.start < hi /\ h = [start |-> hi, end |-> f.end, path |-> y]
        BY <1>3, <1>7 DEF Piece
      <4>2. CASE h = [start |-> f.start, end |-> lo, path |-> x] /\ f.start < lo
        <5>1. h.start = f.start
          BY <4>2
        <5> QED
          BY <1>4, <2>2, <4>2, <5>1
      <4> QED
        BY <2>2, <4>1, <4>2
    <3> QED
      BY <1>4, <3>1, <3>2
  <2> QED
    BY <1>5, <2>1, <2>2
<1> QED
  BY <1>6, <1>7

\* ... and no row outside is lost.
LEMMA LeftHolds ==
    ASSUME NEW F, NEW a \in Nat, NEW b \in Nat, Sized(F, a, b),
           NEW lo \in Nat, NEW hi \in Nat, lo <= hi, NEW x, NEW y,
           NEW f \in F, NEW o \in Nat, o \in Span(f), o < lo \/ hi <= o
    PROVE  \E g \in Kept(F, lo, hi) \cup LeftPart(F, lo, x) \cup RightPart(F, hi, y) : o \in Span(g)
<1>1. f.start \in Nat /\ f.end \in Nat
  BY DEF Sized
<1>2. f.start <= o /\ o < f.end
  BY <1>1, SpanIs
<1>3. CASE f.end <= lo \/ f.start >= hi
  <2>1. f \in Kept(F, lo, hi)
    BY <1>3 DEF Kept
  <2> QED
    BY <2>1
<1>4. CASE o < lo /\ lo < f.end
  <2>1. PICK g : g = [start |-> f.start, end |-> lo, path |-> x]
    OBVIOUS
  <2>2. g \in LeftPart(F, lo, x)
    BY <1>1, <1>2, <1>4, <2>1 DEF LeftPart
  <2>3. g.start = f.start /\ g.end = lo
    BY <2>1
  <2>4. o \in Span(g)
    BY <1>1, <1>2, <1>4, <2>3, SpanIs
  <2> QED
    BY <2>2, <2>4
<1>5. CASE hi <= o /\ f.start < hi
  <2>1. PICK g : g = [start |-> hi, end |-> f.end, path |-> y]
    OBVIOUS
  <2>2. g \in RightPart(F, hi, y)
    BY <1>1, <1>2, <1>5, <2>1 DEF RightPart
  <2>3. g.start = hi /\ g.end = f.end
    BY <2>1
  <2>4. o \in Span(g)
    BY <1>1, <1>2, <1>5, <2>3, SpanIs
  <2> QED
    BY <2>2, <2>4
<1> QED
  BY <1>1, <1>2, <1>3, <1>4, <1>5

\* A commit that deletes a range.
LEMMA WithoutIs ==
    ASSUME NEW F, NEW a, NEW b, Tiled(F, a, b),
           NEW lo \in Nat, NEW hi \in Nat, lo <= hi
    PROVE  /\ Sized(Without(F, lo, hi), a, b)
           /\ Disjoint(Without(F, lo, hi))
           /\ \A g \in Without(F, lo, hi) : g.end <= lo \/ hi <= g.start
           /\ \A o \in a..b - 1 : o < lo \/ hi <= o => \E g \in Without(F, lo, hi) : o \in Span(g)
<1>1. PICK x, y : x = Fresh(1) /\ y = Fresh(2)
  OBVIOUS
<1>2. PICK W : W = Kept(F, lo, hi) \cup LeftPart(F, lo, x) \cup RightPart(F, hi, y)
  OBVIOUS
<1>3. W = Without(F, lo, hi)
  BY <1>1, <1>2 DEF Without, Kept, LeftPart, RightPart
<1>4. a \in Nat /\ b \in Nat /\ Sized(F, a, b) /\ Disjoint(F) /\ Filled(F, a, b)
  BY DEF Tiled
<1>5. ASSUME NEW g \in W
      PROVE  /\ g.start \in Nat /\ g.end \in Nat /\ a <= g.start /\ g.start < g.end /\ g.end <= b
             /\ g.end <= lo \/ hi <= g.start
  <2>1. PICK f \in F : Piece(g, f, F, lo, hi, x, y)
    BY <1>2, <1>4, LeftIsPart
  <2>2. f.start \in Nat /\ f.end \in Nat /\ a <= f.start /\ f.end <= b
    BY <1>4 DEF Sized
  <2> QED
    BY <1>4, <2>1, <2>2 DEF Piece, PartOf
<1>6. Sized(W, a, b)
  BY <1>5 DEF Sized
<1>7. Disjoint(W)
  BY <1>2, <1>4, LeftApart
<1>8. ASSUME NEW o \in a..b - 1, o < lo \/ hi <= o PROVE \E g \in W : o \in Span(g)
  <2>1. PICK f \in F : o \in Span(f)
    BY <1>4 DEF Filled
  <2>2. o \in Nat
    BY <1>4
  <2> QED
    BY <1>2, <1>4, <1>8, <2>1, <2>2, LeftHolds
<1> QED
  BY <1>3, <1>5, <1>6, <1>7, <1>8

\* A range replaced by files that tile it: no gap, unless the range starts
\* above the end.
LEMMA TiledReplace ==
    ASSUME NEW F, NEW a, NEW b, Tiled(F, a, b),
           NEW G, NEW s, NEW e, Tiled(G, s, e), a <= s, s <= b, NEW m \in Nat,
           m = IF e <= b THEN b ELSE e
    PROVE  Tiled(Without(F, s, e) \cup G, a, m)
<1>1. /\ a \in Nat /\ b \in Nat /\ a <= b
      /\ s \in Nat /\ e \in Nat /\ s <= e /\ Sized(G, s, e) /\ Disjoint(G) /\ Filled(G, s, e)
  BY DEF Tiled
<1>2. PICK W : W = Without(F, s, e)
  OBVIOUS
<1>3. /\ Sized(W, a, b)
      /\ Disjoint(W)
      /\ \A g \in W : g.end <= s \/ e <= g.start
      /\ \A o \in a..b - 1 : o < s \/ e <= o => \E g \in W : o \in Span(g)
  BY <1>1, <1>2, WithoutIs
<1>4. Sized(W \cup G, a, m)
  BY <1>1, <1>3 DEF Sized
<1>5. Disjoint(W \cup G)
  <2> SUFFICES ASSUME NEW f \in W, NEW g \in G PROVE f.end <= g.start \/ g.end <= f.start
    BY <1>1, <1>3 DEF Disjoint
  <2>1. /\ f.start \in Nat /\ f.end \in Nat /\ g.start \in Nat /\ g.end \in Nat
        /\ s <= g.start /\ g.end <= e
        /\ f.end <= s \/ e <= f.start
    BY <1>1, <1>3 DEF Sized
  <2> QED
    BY <1>1, <2>1
<1>6. Filled(W \cup G, a, m)
  <2> SUFFICES ASSUME NEW o \in a..m - 1 PROVE \E f \in W \cup G : o \in Span(f)
    BY DEF Filled
  <2>1. CASE s <= o /\ o < e
    <3>1. o \in s..e - 1
      BY <1>1, <2>1
    <3> QED
      BY <1>1, <3>1 DEF Filled
  <2>2. CASE ~(s <= o /\ o < e)
    <3>1. o \in a..b - 1 /\ (o < s \/ e <= o)
      BY <1>1, <2>2
    <3> QED
      BY <1>3, <3>1
  <2> QED
    BY <2>1, <2>2
<1> QED
  BY <1>1, <1>2, <1>4, <1>5, <1>6 DEF Tiled

\* A prefix deleted.
LEMMA TiledDrop ==
    ASSUME NEW F, NEW a, NEW b, Tiled(F, a, b), NEW e \in Nat, e <= b,
           NEW m \in Nat, m = IF a <= e THEN e ELSE a
    PROVE  Tiled(Without(F, 0, e), m, b)
<1>1. a \in Nat /\ b \in Nat /\ a <= b
  BY DEF Tiled
<1>2. PICK W : W = Without(F, 0, e)
  OBVIOUS
<1>3. /\ Sized(W, a, b)
      /\ Disjoint(W)
      /\ \A g \in W : g.end <= 0 \/ e <= g.start
      /\ \A o \in a..b - 1 : o < 0 \/ e <= o => \E g \in W : o \in Span(g)
  <2>1. 0 \in Nat /\ 0 <= e
    OBVIOUS
  <2> QED
    BY <1>2, <2>1, WithoutIs
<1>4. Sized(W, m, b)
  BY <1>1, <1>3 DEF Sized
<1>5. Filled(W, m, b)
  <2> SUFFICES ASSUME NEW o \in m..b - 1 PROVE \E f \in W : o \in Span(f)
    BY DEF Filled
  <2>1. o \in a..b - 1 /\ e <= o
    BY <1>1
  <2> QED
    BY <1>3, <2>1
<1> QED
  BY <1>1, <1>2, <1>3, <1>4, <1>5 DEF Tiled

-----------------------------------------------------------------------------
(***************************************************************************)
(* Compaction's runs and cuts, and covered prefixes.                       *)
(***************************************************************************)

\* What a push takes of a snapshot: the first files that end above the floor.
Leading(Q, F, floor) ==
    /\ Q \subseteq F /\ \A f \in Q : floor < f.end
    /\ \A f \in Q, g \in F : floor < g.end /\ g.start <= f.start => g \in Q

\* They tile a range that starts at the floor or below it.
LEMMA TiledLeading ==
    ASSUME NEW F, NEW c, NEW d, Tiled(F, c, d), NEW floor \in Nat,
           NEW Q, Q # {}, Leading(Q, F, floor)
    PROVE  \E x, y \in Nat : /\ Tiled(Q, x, y) /\ x < y /\ c <= x /\ y <= d
                             /\ x <= c \/ x <= floor
<1>1. c \in Nat /\ d \in Nat /\ Sized(F, c, d) /\ Disjoint(F) /\ Filled(F, c, d)
  BY DEF Tiled
<1>2. ASSUME NEW f \in F
      PROVE  f.start \in Nat /\ f.end \in Nat /\ c <= f.start /\ f.start < f.end /\ f.end <= d
  BY <1>1 DEF Sized
<1>3. /\ \A f \in Q : f \in F /\ floor < f.end
      /\ \A f \in Q, g \in F : floor < g.end /\ g.start <= f.start => g \in Q
  BY DEF Leading
<1>4. PICK h \in Q : \A g \in Q : h.start <= g.start
  BY <1>2, <1>3, FirstIs
<1>5. PICK l \in Q : \A g \in Q : g.end <= l.end
  BY <1>1, <1>2, <1>3, LastIs
<1>6. PICK x \in Nat, y \in Nat : x = h.start /\ y = l.end
  BY <1>2, <1>3
<1>7. x < y /\ c <= x /\ y <= d
  <2>1. h.end <= l.end /\ h.start < h.end /\ c <= h.start /\ l.end <= d /\ h.end \in Nat
    BY <1>2, <1>3, <1>5
  <2> QED
    BY <1>6, <2>1
<1>8. Sized(Q, x, y)
  BY <1>2, <1>3, <1>4, <1>5, <1>6 DEF Sized
<1>9. Disjoint(Q)
  BY <1>1, <1>3 DEF Disjoint
<1>10. ASSUME NEW o \in Nat, NEW f \in F, o \in Span(f), x <= o, o < y PROVE f \in Q
  <2>1. f.start <= o /\ o < f.end
    BY <1>2, <1>10, SpanIs
  <2>2. floor < f.end
    <3>1. f = h \/ f.end <= h.start \/ h.end <= f.start
      BY <1>1, <1>3 DEF Disjoint
    <3>2. floor < h.end /\ h.end \in Nat
      BY <1>2, <1>3
    <3> QED
      BY <1>2, <1>6, <1>10, <2>1, <3>1, <3>2
  <2>3. f.start <= l.start
    <3>1. f = l \/ f.end <= l.start \/ l.end <= f.start
      BY <1>1, <1>3 DEF Disjoint
    <3>2. l.start \in Nat
      BY <1>2, <1>3
    <3> QED
      BY <1>2, <1>6, <1>10, <2>1, <3>1, <3>2
  <2> QED
    BY <1>3, <2>2, <2>3
<1>11. Filled(Q, x, y)
  <2> SUFFICES ASSUME NEW o \in x..y - 1 PROVE \E f \in Q : o \in Span(f)
    BY DEF Filled
  <2>1. o \in Nat /\ x <= o /\ o < y
    OBVIOUS
  <2>2. o \in c..d - 1
    BY <1>1, <1>7, <2>1
  <2>3. PICK f \in F : o \in Span(f)
    BY <1>1, <2>2 DEF Filled
  <2> QED
    BY <1>10, <2>1, <2>3
<1>12. x <= c \/ x <= floor
  <2> SUFFICES ASSUME c < x, floor < x PROVE FALSE
    BY <1>1
  <2>1. PICK o \in Nat : o = x - 1 /\ c <= o /\ floor <= o
    BY <1>1
  <2>2. o \in c..d - 1
    BY <1>1, <1>7, <2>1
  <2>3. PICK f \in F : o \in Span(f)
    BY <1>1, <2>2 DEF Filled
  <2>4. f.start <= o /\ o < f.end
    BY <1>2, <2>3, SpanIs
  <2>5. floor < f.end /\ f.start <= h.start
    BY <1>2, <1>6, <2>1, <2>4
  <2>6. f \in Q
    BY <1>3, <2>5
  <2>7. h.start <= f.start
    BY <1>4, <2>6
  <2> QED
    BY <1>2, <1>6, <2>1, <2>4, <2>7
<1>13. Tiled(Q, x, y)
  BY <1>7, <1>8, <1>9, <1>11 DEF Tiled
<1> QED
  BY <1>7, <1>12, <1>13

\* The outputs of a merge: each ends where the next starts.
CutAt(x, c, e) == Min({e} \cup {y \in c : y > x})
Outputs(O, s, e, c) ==
    /\ \A f \in O : f.start \in {s} \cup c /\ f.end = CutAt(f.start, c, e)
    /\ \A f, g \in O : f.start = g.start => f = g
    /\ \A x \in {s} \cup c : \E f \in O : f.start = x

\* The next cut after x, or the end of the run.
LEMMA CutAtIs ==
    ASSUME NEW s \in Nat, NEW e \in Nat, s < e, NEW c, c \subseteq s + 1..e - 1,
           NEW x \in {s} \cup c
    PROVE  /\ CutAt(x, c, e) \in Nat /\ x \in Nat /\ s <= x /\ x < CutAt(x, c, e) /\ CutAt(x, c, e) <= e
           /\ \A y \in c : x < y => CutAt(x, c, e) <= y
           /\ CutAt(x, c, e) = e \/ CutAt(x, c, e) \in c
<1>1. PICK T : T = {e} \cup {y \in c : y > x}
  OBVIOUS
<1>2. x \in Nat /\ s <= x /\ x < e
  OBVIOUS
<1>a. \A y \in c : y \in Nat
  OBVIOUS
<1>3. T \subseteq Nat /\ T # {}
  BY <1>1, <1>a
<1>4. PICK m : m = CutAt(x, c, e)
  OBVIOUS
<1>5. m \in T /\ \A y \in T : m <= y
  BY <1>1, <1>3, <1>4, MinOfNaturals DEF CutAt
<1>6. m \in Nat
  BY <1>3, <1>5
<1>7. m = e \/ (m \in c /\ m > x)
  BY <1>1, <1>5
<1>8. m <= e
  BY <1>1, <1>5
<1> QED
  BY <1>1, <1>2, <1>4, <1>5, <1>6, <1>7, <1>8

\* They tile the range of the run.
LEMMA TiledOutputs ==
    ASSUME NEW s \in Nat, NEW e \in Nat, s < e, NEW c, c \subseteq s + 1..e - 1,
           NEW O, Outputs(O, s, e, c)
    PROVE  Tiled(O, s, e)
<1>2. ASSUME NEW f \in O PROVE f.start \in {s} \cup c /\ f.end = CutAt(f.start, c, e)
  BY DEF Outputs
<1>3. Sized(O, s, e)
  <2> SUFFICES ASSUME NEW f \in O
               PROVE  /\ f.start \in Nat /\ f.end \in Nat
                      /\ s <= f.start /\ f.start < f.end /\ f.end <= e
    BY DEF Sized
  <2>1. PICK x \in {s} \cup c : x = f.start
    BY <1>2
  <2>2. f.end = CutAt(x, c, e)
    BY <1>2, <2>1
  <2>3. PICK m : m = CutAt(x, c, e)
    OBVIOUS
  <2>4. m \in Nat /\ x \in Nat /\ s <= x /\ x < m /\ m <= e
    BY <2>3, CutAtIs
  <2> QED
    BY <2>1, <2>2, <2>3, <2>4
<1>4. Disjoint(O)
  <2> SUFFICES ASSUME NEW f \in O, NEW g \in O, f # g PROVE f.end <= g.start \/ g.end <= f.start
    BY DEF Disjoint
  <2>1. PICK x \in {s} \cup c, y \in {s} \cup c : x = f.start /\ y = g.start
    BY <1>2
  <2>2. f.end = CutAt(x, c, e) /\ g.end = CutAt(y, c, e)
    BY <1>2, <2>1
  <2>3. x # y
    BY <2>1 DEF Outputs
  <2>4. x \in Nat /\ y \in Nat /\ s <= x /\ s <= y
    OBVIOUS
  <2>5. CASE x < y
    <3>1. y \in c
      BY <2>4, <2>5
    <3>2. CutAt(x, c, e) <= y
      BY <2>5, <3>1, CutAtIs
    <3> QED
      BY <2>1, <2>2, <3>2
  <2>6. CASE y < x
    <3>1. x \in c
      BY <2>4, <2>6
    <3>2. CutAt(y, c, e) <= x
      BY <2>6, <3>1, CutAtIs
    <3> QED
      BY <2>1, <2>2, <3>2
  <2> QED
    BY <2>3, <2>4, <2>5, <2>6
<1>5. Filled(O, s, e)
  <2> SUFFICES ASSUME NEW o \in s..e - 1 PROVE \E f \in O : o \in Span(f)
    BY DEF Filled
  <2>1. o \in Nat /\ s <= o /\ o < e
    OBVIOUS
  <2>2. PICK T : T = {z \in {s} \cup c : z <= o}
    OBVIOUS
  <2>a. \A z \in {s} \cup c : z \in Nat
    OBVIOUS
  <2>b. s \in T
    BY <2>1, <2>2
  <2>c. ASSUME NEW z \in T PROVE z \in 0..o
    <3>1. z \in Nat /\ z <= o
      BY <2>2, <2>a
    <3> QED
      BY <2>1, <3>1
  <2>3. T \subseteq 0..o /\ T # {}
    BY <2>b, <2>c
  <2>4. PICK x \in T : \A y \in T : y <= x
    BY <2>1, <2>3, MaxOfNaturals
  <2>5. x \in {s} \cup c /\ x <= o /\ x \in Nat
    BY <2>2, <2>3, <2>4
  <2>6. PICK m : m = CutAt(x, c, e)
    OBVIOUS
  <2>7. m \in Nat /\ x < m /\ (m = e \/ m \in c)
    BY <2>5, <2>6, CutAtIs
  <2>8. o < m
    <3>1. CASE m = e
      BY <2>1, <3>1
    <3>2. CASE m \in c
      <4>1. ~(m <= o)
        BY <2>2, <2>4, <2>5, <2>7, <3>2
      <4> QED
        BY <2>1, <2>7, <4>1
    <3> QED
      BY <2>7, <3>1, <3>2
  <2>9. PICK f \in O : f.start = x
    BY <2>5 DEF Outputs
  <2>11. f.end = m
    BY <1>2, <2>6, <2>9
  <2>12. o \in Span(f)
    BY <2>1, <2>5, <2>7, <2>8, <2>9, <2>11, SpanIs
  <2> QED
    BY <2>12
<1> QED
  BY <1>3, <1>4, <1>5 DEF Tiled

-----------------------------------------------------------------------------

\* A run has files of the table.
LEMMA StretchInside ==
    ASSUME NEW files, NEW f \in files
    PROVE  Stretch(files, f) \subseteq files
BY DEF Stretch

\* A set that counts at least one has a member.
LEMMA NotEmptyIfCounted ==
    ASSUME NEW r, NEW n \in Nat, n >= 1, Cardinality(r) >= n
    PROVE  r # {}
<1>1. Cardinality({}) = 0
  BY FS_EmptySet
<1> QED
  BY <1>1

\* The runs that compaction picks are made of the files it may merge.
LEMMA RunsInside ==
    ASSUME NEW files, NEW floor, NEW flush, NEW run \in Runs(files, floor, flush)
    PROVE  run \subseteq files /\ run # {}
<1>1. MinFiles \in Nat /\ MinFiles >= 2
  BY PolicyAssumption
<1>2. ASSUME NEW r, NEW fl, Grows(r, fl) PROVE r # {}
  <2>1. Cardinality(r) >= 2
    BY <1>2 DEF Grows
  <2> QED
    BY <2>1, NotEmptyIfCounted
<1>3. PICK f \in files :
        LET s == Stretch(files, f)
            published_ == {g \in s : g.end <= floor}
            after == {g \in s : g.start >= floor}
        IN  \/ run = s /\ Cardinality(run) >= MinFiles
            \/ run = s /\ Grows(run, flush)
            \/ run = published_ /\ Grows(run, flush)
            \/ run = after /\ Cardinality(run) >= 2
  BY DEF Runs
<1>4. run \subseteq Stretch(files, f)
  BY <1>3
<1>5. run \subseteq files
  BY <1>4, StretchInside
<1>6. run # {}
  <2>1. Cardinality(run) >= MinFiles \/ Grows(run, flush) \/ Cardinality(run) >= 2
    BY <1>3
  <2> QED
    BY <1>1, <1>2, <2>1, NotEmptyIfCounted
<1> QED
  BY <1>5, <1>6

\* What the watermark covers ends below it.
LEMMA CoveredEnds ==
    ASSUME NEW S, NEW a \in Nat, NEW b \in Nat, Sized(S, a, b), NEW t \in Nat,
           NEW r, r = ReachOf(CoveredPrefix(S, {[start |-> 0, end |-> t + 1]}))
    PROVE  r \in Nat /\ r <= t + 1
<1>1. PICK L : L = {[start |-> 0, end |-> t + 1]}
  OBVIOUS
<1>2. Rows(L) \subseteq 0..t
  <2> SUFFICES ASSUME NEW o \in Rows(L) PROVE o \in 0..t
    OBVIOUS
  <2>1. PICK f \in L : o \in Span(f)
    BY DEF Rows
  <2>2. f.start = 0 /\ f.end = t + 1
    BY <1>1
  <2>3. o \in 0..t + 1 - 1
    BY <2>1, <2>2 DEF Span
  <2> QED
    BY <2>3
<1>3. PICK C : C = CoveredPrefix(S, L)
  OBVIOUS
<1>4. ASSUME NEW f \in C PROVE f.end \in Nat /\ f.end <= t + 1
  <2>1. f \in S
    BY <1>3 DEF CoveredPrefix
  <2>2. f.start \in Nat /\ f.end \in Nat /\ f.start < f.end
    BY <2>1 DEF Sized
  <2>3. f.start <= f.start
    BY <2>2
  <2>4. Covered(L, f)
    BY <1>3, <2>1, <2>3 DEF CoveredPrefix
  <2>5. PICK o \in Nat : o = f.end - 1
    BY <2>2
  <2>6. o \in Span(f)
    BY <2>2, <2>5 DEF Span
  <2>7. o \in 0..t
    BY <1>2, <2>4, <2>6 DEF Covered
  <2> QED
    BY <2>2, <2>5, <2>7
<1>5. t + 1 \in Nat /\ r = ReachOf(C)
  BY <1>1, <1>3
<1> QED
  BY <1>4, <1>5, ReachFacts

-----------------------------------------------------------------------------
(***************************************************************************)
(* A worker's locals.                                                      *)
(***************************************************************************)

\* A worker's locals.
IsJob(j) ==
    j = [owner |-> j.owner, start |-> j.start, end |-> j.end, force |-> j.force,
         bound |-> j.bound, floor |-> j.floor, seen |-> j.seen, held |-> j.held,
         todo |-> j.todo, outs |-> j.outs]

\* The workers have a label and locals each.
Shaped ==
    /\ pc \in [Workers -> PC]
    /\ job = [w \in Workers |-> job[w]]
    /\ \A w \in Workers : IsJob(job[w])

\* A step of one worker leaves the others where they are.
Others(w) == \A v \in Workers : v # w => pc'[v] = pc[v] /\ job'[v] = job[v]

\* A step of a worker that sets its locals.
LEMMA Stepped ==
    ASSUME Shaped, NEW w \in Workers, NEW k \in PC, NEW j, IsJob(j),
           pc' = [pc EXCEPT ![w] = k], job' = [job EXCEPT ![w] = j]
    PROVE  Shaped' /\ Others(w) /\ pc'[w] = k /\ job'[w] = j
<1>1. pc' \in [Workers -> PC] /\ pc'[w] = k /\ \A v \in Workers : v # w => pc'[v] = pc[v]
  BY DEF Shaped
<1>2. job = [v \in Workers |-> job[v]]
  BY DEF Shaped
<1>3. job' = [v \in Workers |-> IF v = w THEN j ELSE job[v]]
  BY <1>2
<1>4. job'[w] = j /\ \A v \in Workers : v # w => job'[v] = job[v]
  BY <1>3
<1>5. job' = [v \in Workers |-> job'[v]]
  BY <1>3
<1>6. \A v \in Workers : IsJob(job'[v])
  BY <1>4 DEF Shaped
<1> QED
  BY <1>1, <1>4, <1>5, <1>6 DEF Shaped, Others, IsJob

\* One that does not.
LEMMA Labelled ==
    ASSUME Shaped, NEW w \in Workers, NEW k \in PC,
           pc' = [pc EXCEPT ![w] = k], job' = job
    PROVE  Shaped' /\ Others(w) /\ pc'[w] = k /\ job'[w] = job[w]
<1>1. pc' \in [Workers -> PC] /\ pc'[w] = k /\ \A v \in Workers : v # w => pc'[v] = pc[v]
  BY DEF Shaped
<1> QED
  BY <1>1 DEF Shaped, Others, IsJob

\* The locals as an assignment leaves them.
Begun(j, o, x, y) == [j EXCEPT !.owner = o, !.start = x, !.end = y]

\* An idle worker's locals.
LEMMA NoJobIs == IsJob(NoJob) /\ NoJob.owner = 0 /\ NoJob.outs = {}
BY DEF NoJob, IsJob

\* Those of one that goes to its release.
LEMMA LeftJobIs ==
    ASSUME NEW o, NEW n, n = [NoJob EXCEPT !.owner = o]
    PROVE  IsJob(n) /\ n.owner = o
BY DEF NoJob, IsJob

\* A pass that starts sets its identity and its range, and nothing else.
LEMMA ClaimSet ==
    ASSUME NEW j, IsJob(j), NEW o, NEW x, NEW y, NEW n, n = Begun(j, o, x, y)
    PROVE  /\ IsJob(n) /\ n.owner = o /\ n.start = x /\ n.end = y
           /\ n.seen = j.seen /\ n.outs = j.outs
BY DEF IsJob, Begun

\* One field of the locals assigned, the others as they were: outs,
LEMMA OutsSet ==
    ASSUME NEW j, IsJob(j), NEW x, NEW n, n = [j EXCEPT !.outs = x]
    PROVE  /\ IsJob(n) /\ n.outs = x
           /\ n.owner = j.owner /\ n.start = j.start /\ n.end = j.end /\ n.force = j.force
           /\ n.bound = j.bound /\ n.floor = j.floor /\ n.seen = j.seen /\ n.held = j.held
           /\ n.todo = j.todo
BY DEF IsJob

\* seen,
LEMMA SeenSet ==
    ASSUME NEW j, IsJob(j), NEW x, NEW n, n = [j EXCEPT !.seen = x]
    PROVE  /\ IsJob(n) /\ n.seen = x
           /\ n.owner = j.owner /\ n.start = j.start /\ n.end = j.end /\ n.force = j.force
           /\ n.bound = j.bound /\ n.floor = j.floor /\ n.outs = j.outs /\ n.held = j.held
           /\ n.todo = j.todo
BY DEF IsJob

\* todo,
LEMMA TodoSet ==
    ASSUME NEW j, IsJob(j), NEW x, NEW n, n = [j EXCEPT !.todo = x]
    PROVE  /\ IsJob(n) /\ n.todo = x
           /\ n.owner = j.owner /\ n.start = j.start /\ n.end = j.end /\ n.force = j.force
           /\ n.bound = j.bound /\ n.floor = j.floor /\ n.outs = j.outs /\ n.held = j.held
           /\ n.seen = j.seen
BY DEF IsJob

\* floor,
LEMMA FloorSet ==
    ASSUME NEW j, IsJob(j), NEW x, NEW n, n = [j EXCEPT !.floor = x]
    PROVE  /\ IsJob(n) /\ n.floor = x
           /\ n.owner = j.owner /\ n.start = j.start /\ n.end = j.end /\ n.force = j.force
           /\ n.bound = j.bound /\ n.seen = j.seen /\ n.outs = j.outs /\ n.held = j.held
           /\ n.todo = j.todo
BY DEF IsJob

\* and held.
LEMMA HeldSet ==
    ASSUME NEW j, IsJob(j), NEW x, NEW n, n = [j EXCEPT !.held = x]
    PROVE  /\ IsJob(n) /\ n.held = x
           /\ n.owner = j.owner /\ n.start = j.start /\ n.end = j.end /\ n.force = j.force
           /\ n.bound = j.bound /\ n.seen = j.seen /\ n.outs = j.outs /\ n.floor = j.floor
           /\ n.todo = j.todo
BY DEF IsJob

-----------------------------------------------------------------------------
(***************************************************************************)
(* The claim table.                                                        *)
(***************************************************************************)

\* What a row of the claim table is, and that no two of them meet.
Row(r) ==
    /\ r \in [owner : Nat, expires : {0, 1}, start : Nat, end : Nat]
    /\ r.owner # 0 /\ r.start < r.end /\ r.end <= Everything
RowSet(C) ==
    /\ \A r \in C : Row(r)
    /\ \A r, s \in C : r = s \/ (r.owner # s.owner /\ ~Overlap(r, s))

\* The same row, live or lapsed.
Alike(r, s) == r.owner = s.owner /\ r.start = s.start /\ r.end = s.end

\* Claims that come from other claims, each from one of its own.
From(D, C) == \A r \in D : \E s \in C : Alike(r, s)
\* No live row goes, but those of one owner.
Stay(D, C, o) == \A s \in C : s.expires = 1 /\ s.owner # o => s \in D

\* Rows that come from rows of a claim table, one per owner, are one.
LEMMA AlikeRows ==
    ASSUME NEW C, NEW D, RowSet(C), From(D, C),
           \A r \in D : r.expires \in {0, 1} /\ r \in [owner : Nat, expires : {0, 1}, start : Nat, end : Nat],
           \A r, s \in D : r = s \/ r.owner # s.owner
    PROVE  RowSet(D)
<1>1. ASSUME NEW r \in D PROVE Row(r)
  <2>1. PICK s \in C : Alike(r, s)
    BY DEF From
  <2>2. Row(s)
    BY DEF RowSet
  <2> QED
    BY <2>1, <2>2 DEF Row, Alike
<1>2. ASSUME NEW r \in D, NEW q \in D, r # q PROVE r.owner # q.owner /\ ~Overlap(r, q)
  <2>1. r.owner # q.owner
    BY <1>2
  <2>2. PICK s \in C : Alike(r, s)
    BY DEF From
  <2>3. PICK t \in C : Alike(q, t)
    BY DEF From
  <2>4. s # t
    BY <2>1, <2>2, <2>3 DEF Alike
  <2>5. ~Overlap(s, t)
    BY <2>4 DEF RowSet
  <2> QED
    BY <2>1, <2>2, <2>3, <2>5 DEF Alike, Overlap
<1> QED
  BY <1>1, <1>2 DEF RowSet

\* Some of the rows.
LEMMA FewerRows ==
    ASSUME NEW C, NEW D, RowSet(C), D \subseteq C
    PROVE  RowSet(D) /\ From(D, C)
BY DEF RowSet, From, Alike

\* A sweep takes no live row, and no lapsed one is left in its range.
LEMMA SweptRows ==
    ASSUME NEW C, RowSet(C), NEW d
    PROVE  /\ RowSet(Swept(C, d, 0)) /\ From(Swept(C, d, 0), C) /\ Stay(Swept(C, d, 0), C, 0)
           /\ \A r \in Swept(C, d, 0) : r.expires = 0 => ~Overlap(r, d)
<1>1. PICK D : D = Swept(C, d, 0)
  OBVIOUS
<1>2. D \subseteq C
  BY <1>1 DEF Swept
<1>3. RowSet(D) /\ From(D, C)
  BY <1>2, FewerRows
<1>4. Stay(D, C, 0)
  BY <1>1 DEF Stay, Swept
<1>5. \A r \in D : r.expires = 0 => ~Overlap(r, d)
  BY <1>1 DEF Swept
<1> QED
  BY <1>1, <1>3, <1>4, <1>5

\* A release takes the owner's row only.
LEMMA ReleasedRows ==
    ASSUME NEW C, RowSet(C), NEW o
    PROVE  /\ RowSet(Released(C, o)) /\ From(Released(C, o), C) /\ Stay(Released(C, o), C, o)
<1>1. PICK D : D = Released(C, o)
  OBVIOUS
<1>2. D \subseteq C
  BY <1>1 DEF Released
<1>3. RowSet(D) /\ From(D, C)
  BY <1>2, FewerRows
<1>4. Stay(D, C, o)
  BY <1>1 DEF Stay, Released
<1> QED
  BY <1>1, <1>3, <1>4

\* One row of the renewal.
Renew(r, o) == IF r.owner = o THEN [r EXCEPT !.expires = 0 + 1] ELSE r

\* A renewed row is the same row, live.
LEMMA RenewIs ==
    ASSUME NEW r, Row(r), NEW o
    PROVE  /\ Alike(Renew(r, o), r)
           /\ Renew(r, o) \in [owner : Nat, expires : {0, 1}, start : Nat, end : Nat]
           /\ r.owner = o => Renew(r, o).expires = 1
           /\ r.owner # o => Renew(r, o) = r
BY DEF Renew, Row, Alike

\* A renewal makes the owner's row live and leaves the others.
LEMMA RenewedRows ==
    ASSUME NEW C, RowSet(C), NEW o
    PROVE  /\ RowSet(Renewed(C, o, 0, 1)) /\ From(Renewed(C, o, 0, 1), C)
           /\ Stay(Renewed(C, o, 0, 1), C, o)
           /\ \A s \in C : s.owner = o => \E r \in Renewed(C, o, 0, 1) : Alike(r, s) /\ r.expires = 1
<1>1. PICK D : D = Renewed(C, o, 0, 1)
  OBVIOUS
<1>2. D = {Renew(r, o) : r \in C}
  BY <1>1 DEF Renewed, Renew
<1>3. ASSUME NEW r \in C
      PROVE  /\ Alike(Renew(r, o), r)
             /\ Renew(r, o) \in [owner : Nat, expires : {0, 1}, start : Nat, end : Nat]
             /\ r.owner = o => Renew(r, o).expires = 1
             /\ r.owner # o => Renew(r, o) = r
  BY RenewIs DEF RowSet
<1>4. From(D, C)
  BY <1>2, <1>3 DEF From
<1>5. \A r \in D : r \in [owner : Nat, expires : {0, 1}, start : Nat, end : Nat]
  BY <1>2, <1>3
<1>6. ASSUME NEW r \in D, NEW s \in D, r # s PROVE r.owner # s.owner
  <2>1. PICK p \in C : r = Renew(p, o)
    BY <1>2
  <2>2. PICK q \in C : s = Renew(q, o)
    BY <1>2
  <2>3. p # q
    BY <1>6, <2>1, <2>2
  <2>4. p.owner # q.owner
    BY <2>3 DEF RowSet
  <2> QED
    BY <1>3, <2>1, <2>2, <2>4 DEF Alike
<1>7. RowSet(D)
  BY <1>4, <1>5, <1>6, AlikeRows
<1>8. Stay(D, C, o)
  BY <1>2, <1>3 DEF Stay
<1>9. \A s \in C : s.owner = o => \E r \in D : Alike(r, s) /\ r.expires = 1
  BY <1>2, <1>3
<1> QED
  BY <1>1, <1>4, <1>7, <1>8, <1>9

\* A row that lapses.
LEMMA LapsedRows ==
    ASSUME NEW C, RowSet(C), NEW r \in C, NEW D,
           D = (C \ {r}) \cup {[r EXCEPT !.expires = 0]}
    PROVE  RowSet(D) /\ From(D, C) /\ Stay(D, C, r.owner)
<1>1. PICK s : s = [r EXCEPT !.expires = 0]
  OBVIOUS
<1>2. Row(r)
  BY DEF RowSet
<1>3. Alike(s, r) /\ s \in [owner : Nat, expires : {0, 1}, start : Nat, end : Nat]
  BY <1>1, <1>2 DEF Alike, Row
<1>4. From(D, C)
  BY <1>1, <1>3 DEF From, Alike
<1>5. \A q \in D : q \in [owner : Nat, expires : {0, 1}, start : Nat, end : Nat]
  BY <1>1, <1>3 DEF RowSet, Row
<1>6. ASSUME NEW q \in D, NEW p \in D, q # p PROVE q.owner # p.owner
  <2>1. q \in C \ {r} \/ q = s
    BY <1>1
  <2>2. p \in C \ {r} \/ p = s
    BY <1>1
  <2> QED
    BY <1>3, <1>6, <2>1, <2>2 DEF RowSet, Alike
<1>7. RowSet(D)
  BY <1>4, <1>5, <1>6, AlikeRows
<1>8. Stay(D, C, r.owner)
  <2> SUFFICES ASSUME NEW q \in C, q.owner # r.owner PROVE q \in D
    BY DEF Stay
  <2> QED
    OBVIOUS
<1> QED
  BY <1>4, <1>7, <1>8

\* A range taken: nothing live overlaps it, and what has lapsed there goes.
LEMMA AcquiredRows ==
    ASSUME NEW C, RowSet(C), NEW o \in Nat, o # 0, NEW d,
           d.start \in Nat, d.end \in Nat, d.start < d.end, d.end <= Everything,
           ~Clash(C, 0, d, 0), ~HasRow(C, o),
           NEW D, D = Acquired(C, o, d, 0, 1)
    PROVE  /\ RowSet(D) /\ Stay(D, C, o)
           /\ \A r \in D : r \in C \/ (r.owner = o /\ r.start = d.start /\ r.end = d.end)
<1>1. PICK n : n = [owner |-> o, expires |-> 1, start |-> d.start, end |-> d.end]
  OBVIOUS
<1>2. PICK E : E = Swept(C, d, 0)
  OBVIOUS
<1>3. 0 + 1 = 1
  OBVIOUS
<1>4. D = E \cup {n}
  BY <1>1, <1>2, <1>3 DEF Acquired
<1>5. /\ RowSet(E) /\ Stay(E, C, 0)
      /\ \A r \in E : r.expires = 0 => ~Overlap(r, d)
  BY <1>2, SweptRows
<1>6. E \subseteq C
  BY <1>2 DEF Swept
<1>7. n.owner = o /\ n.expires = 1 /\ n.start = d.start /\ n.end = d.end
  BY <1>1
<1>8. Row(n)
  BY <1>1, <1>7 DEF Row
<1>9. ASSUME NEW r \in E PROVE r.owner # o /\ ~Overlap(r, n) /\ ~Overlap(n, r)
  <2>1. r \in C /\ Row(r)
    BY <1>5, <1>6 DEF RowSet
  <2>2. r.owner # o
    BY <2>1 DEF HasRow
  <2>3. ~Overlap(r, d)
    <3>1. CASE r.expires = 0
      BY <1>5, <3>1
    <3>2. CASE r.expires = 1
      BY <2>1, <3>2 DEF Clash, Row
    <3> QED
      BY <2>1, <3>1, <3>2 DEF Row
  <2> QED
    BY <1>7, <2>1, <2>2, <2>3 DEF Overlap, Row
<1>10. RowSet(D)
  BY <1>4, <1>5, <1>7, <1>8, <1>9 DEF RowSet
<1>11. Stay(D, C, o)
  <2> SUFFICES ASSUME NEW s \in C, s.expires = 1 PROVE s \in D
    BY DEF Stay
  <2>1. s.owner # 0
    BY DEF RowSet, Row
  <2> QED
    BY <1>4, <1>5, <2>1 DEF Stay
<1> QED
  BY <1>4, <1>6, <1>7, <1>10, <1>11

-----------------------------------------------------------------------------
(***************************************************************************)
(* Workers and the claim table.                                            *)
(***************************************************************************)

\* The labels of a pass under way, and of one that has not claimed yet.
Busy == PC \ {"idle", "release"}
Asking == {"compact", "publish", "evict"}

\* A worker and the claim table: an identity of its own while it is at work, a
\* row that is its range if it has one, and a live one where it commits.
Holding(w) ==
    /\ job[w].owner \in Nat
    /\ pc[w] = "idle" <=> job[w].owner = 0
    /\ pc[w] \in Asking => ~Held(w)
    /\ pc[w] \in Busy =>
         /\ job[w].start \in Nat /\ job[w].end \in Nat
         /\ job[w].start < job[w].end /\ job[w].end <= Everything
         /\ \A r \in claims :
              r.owner = job[w].owner => r.start = job[w].start /\ r.end = job[w].end
    /\ pc[w] \in Committing => \E r \in claims : r.owner = job[w].owner /\ r.expires = 1

OwnersApart ==
    \A v, w \in Workers : v # w => job[v].owner = 0 \/ job[v].owner # job[w].owner

Claimed == RowSet(claims) /\ OwnersApart /\ \A w \in Workers : Holding(w)

\* Rows that are an owner's, or come from rows.
FromBut(D, C, o) == \A r \in D : r.owner = o \/ \E s \in C : Alike(r, s)

\* What comes from rows, whoever owns it, comes from them.
LEMMA FromIsFromBut ==
    ASSUME NEW C, NEW D, NEW o, From(D, C)
    PROVE  FromBut(D, C, o)
BY DEF From, FromBut

\* What a worker does to the table leaves the others' claims alone.
LEMMA Beside ==
    ASSUME Claimed, NEW w \in Workers, Others(w), RowSet(claims'),
           FromBut(claims', claims, job[w].owner), Stay(claims', claims, job[w].owner)
    PROVE  \A v \in Workers : v # w => Holding(v)' /\ (Held(v)' => Held(v))
<1> SUFFICES ASSUME NEW v \in Workers, v # w PROVE Holding(v)' /\ (Held(v)' => Held(v))
  OBVIOUS
<1>1. pc'[v] = pc[v] /\ job'[v] = job[v]
  BY DEF Others
<1>2. Holding(v) /\ RowSet(claims)
  BY DEF Claimed
<1>3. job[v].owner = 0 \/ job[v].owner # job[w].owner
  BY DEF Claimed, OwnersApart
<1>4. \A r \in claims' : r.owner # 0
  BY DEF RowSet, Row
<1>5. ASSUME NEW r \in claims', r.owner = job[v].owner
      PROVE  \E s \in claims : Alike(r, s)
  BY <1>3, <1>4, <1>5 DEF FromBut
<1>6. Held(v)' => Held(v)
  BY <1>1, <1>5 DEF Held, HasRow, Alike
<1>7. job'[v].owner \in Nat /\ (pc'[v] = "idle" <=> job'[v].owner = 0)
  BY <1>1, <1>2 DEF Holding
<1>8. pc'[v] \in Asking => ~Held(v)'
  BY <1>1, <1>2, <1>6 DEF Holding
<1>9. ASSUME pc'[v] \in Busy
      PROVE  /\ job'[v].start \in Nat /\ job'[v].end \in Nat
             /\ job'[v].start < job'[v].end /\ job'[v].end <= Everything
             /\ \A r \in claims' :
                  r.owner = job'[v].owner => r.start = job'[v].start /\ r.end = job'[v].end
  <2>1. /\ job[v].start \in Nat /\ job[v].end \in Nat
        /\ job[v].start < job[v].end /\ job[v].end <= Everything
        /\ \A r \in claims :
             r.owner = job[v].owner => r.start = job[v].start /\ r.end = job[v].end
    BY <1>1, <1>2, <1>9 DEF Holding
  <2>2. ASSUME NEW r \in claims', r.owner = job[v].owner
        PROVE  r.start = job[v].start /\ r.end = job[v].end
    <3>1. PICK s \in claims : Alike(r, s)
      BY <1>5, <2>2
    <3> QED
      BY <2>1, <2>2, <3>1 DEF Alike
  <2> QED
    BY <1>1, <2>1, <2>2
<1>10. ASSUME pc'[v] \in Committing
       PROVE  \E r \in claims' : r.owner = job'[v].owner /\ r.expires = 1
  <2>1. PICK s \in claims : s.owner = job[v].owner /\ s.expires = 1
    BY <1>1, <1>2, <1>10 DEF Holding
  <2>2. s.owner # 0
    BY <1>2 DEF RowSet, Row
  <2>3. s \in claims'
    BY <1>3, <2>1, <2>2 DEF Stay
  <2> QED
    BY <1>1, <2>1, <2>3
<1> QED
  BY <1>6, <1>7, <1>8, <1>9, <1>10 DEF Holding, Everything

\* A worker's step on the claim table keeps the invariant of the claims.
LEMMA ClaimsGo ==
    ASSUME Claimed, NEW w \in Workers, Others(w), RowSet(claims'),
           FromBut(claims', claims, job[w].owner), Stay(claims', claims, job[w].owner),
           job'[w].owner = job[w].owner \/ job'[w].owner = 0, Holding(w)'
    PROVE  Claimed' /\ \A v \in Workers : v # w => (Held(v)' => Held(v))
<1>1. \A v \in Workers : v # w => Holding(v)' /\ (Held(v)' => Held(v))
  BY Beside
<1>2. OwnersApart'
  BY DEF Claimed, OwnersApart, Others
<1> QED
  BY <1>1, <1>2 DEF Claimed

\* The locals that a step of a claim's holder leaves alone.
SameClaim(w) ==
    /\ job'[w].owner = job[w].owner /\ job'[w].start = job[w].start /\ job'[w].end = job[w].end

\* The table as it was.
LEMMA SameRows ==
    ASSUME NEW C, NEW o
    PROVE  FromBut(C, C, o) /\ Stay(C, C, o)
BY DEF FromBut, Stay, Alike

\* A worker goes on to a step that commits nothing.
LEMMA Proceeds ==
    ASSUME Claimed, NEW w \in Workers, Others(w), claims' = claims, SameClaim(w),
           pc[w] \in Busy, pc'[w] \in Busy \ (Asking \cup Committing)
    PROVE  Claimed' /\ \A v \in Workers : v # w => (Held(v)' => Held(v))
<1>1. RowSet(claims) /\ Holding(w)
  BY DEF Claimed
<1>2. Holding(w)'
  BY <1>1 DEF Holding, SameClaim, Busy, Everything
<1>3. FromBut(claims', claims, job[w].owner) /\ Stay(claims', claims, job[w].owner) /\ RowSet(claims')
  BY <1>1, SameRows
<1> QED
  BY <1>2, <1>3, ClaimsGo DEF SameClaim

\* A worker renews its claim and goes on.
LEMMA Renews ==
    ASSUME Claimed, NEW w \in Workers, Others(w), Held(w), SameClaim(w),
           claims' = Renewed(claims, job[w].owner, 0, 1),
           pc[w] \in Busy, pc'[w] \in Busy \ Asking
    PROVE  Claimed' /\ \A v \in Workers : v # w => (Held(v)' => Held(v))
<1>1. RowSet(claims) /\ Holding(w)
  BY DEF Claimed
<1>2. /\ RowSet(claims') /\ From(claims', claims) /\ Stay(claims', claims, job[w].owner)
      /\ \A s \in claims : s.owner = job[w].owner => \E r \in claims' : Alike(r, s) /\ r.expires = 1
  BY <1>1, RenewedRows
<1>3. \E r \in claims' : r.owner = job[w].owner /\ r.expires = 1
  BY <1>2 DEF Held, HasRow, Alike
<1>4. ASSUME NEW r \in claims', r.owner = job[w].owner
      PROVE  r.start = job[w].start /\ r.end = job[w].end
  <2>1. PICK s \in claims : Alike(r, s)
    BY <1>2 DEF From
  <2> QED
    BY <1>1, <1>4, <2>1 DEF Alike, Holding
<1>5. /\ job[w].start \in Nat /\ job[w].end \in Nat
      /\ job[w].start < job[w].end /\ job[w].end <= Everything
      /\ job[w].owner \in Nat /\ job[w].owner # 0
  BY <1>1 DEF Holding, Busy
<1>6. pc'[w] \notin Asking /\ pc'[w] # "idle"
  BY DEF Busy
<1>7. Holding(w)'
  BY <1>3, <1>4, <1>5, <1>6 DEF Holding, SameClaim, Everything
<1>8. FromBut(claims', claims, job[w].owner)
  BY <1>2, FromIsFromBut
<1> QED
  BY <1>2, <1>7, <1>8, ClaimsGo DEF SameClaim

\* A worker goes to the release of its claim.
LEMMA Leaves ==
    ASSUME Claimed, NEW w \in Workers, Others(w), pc[w] # "idle",
           claims' = claims \/ claims' = Renewed(claims, job[w].owner, 0, 1),
           job'[w].owner = job[w].owner, pc'[w] = "release"
    PROVE  Claimed' /\ \A v \in Workers : v # w => (Held(v)' => Held(v))
<1>1. RowSet(claims) /\ Holding(w)
  BY DEF Claimed
<1>2. RowSet(claims') /\ FromBut(claims', claims, job[w].owner) /\ Stay(claims', claims, job[w].owner)
  BY <1>1, SameRows, RenewedRows, FromIsFromBut
<1>3. Holding(w)'
  BY <1>1 DEF Holding, Busy, Asking, Committing
<1> QED
  BY <1>2, <1>3, ClaimsGo

\* A worker is idle again, its row left behind or gone.
LEMMA GoesIdle ==
    ASSUME Claimed, NEW w \in Workers, Others(w),
           claims' = claims \/ claims' = Released(claims, job[w].owner),
           job'[w].owner = 0, pc'[w] = "idle"
    PROVE  Claimed' /\ \A v \in Workers : v # w => (Held(v)' => Held(v))
<1>1. RowSet(claims) /\ Holding(w)
  BY DEF Claimed
<1>2. RowSet(claims') /\ FromBut(claims', claims, job[w].owner) /\ Stay(claims', claims, job[w].owner)
  BY <1>1, SameRows, ReleasedRows, FromIsFromBut
<1>3. Holding(w)'
  BY DEF Holding, Busy, Asking, Committing
<1> QED
  BY <1>2, <1>3, ClaimsGo

\* A pass starts under a new identity.
LEMMA Starts ==
    ASSUME Claimed, NEW w \in Workers, Others(w), claims' = claims,
           pc[w] = "idle", pc'[w] \in Asking,
           Owners \ UsedOwners # {}, job'[w].owner = FreshOwner,
           job'[w].start \in Nat, job'[w].end \in Nat,
           job'[w].start < job'[w].end, job'[w].end <= Everything
    PROVE  Claimed' /\ \A v \in Workers : v # w => (Held(v)' => Held(v))
<1>1. RowSet(claims) /\ Holding(w)
  BY DEF Claimed
<1>2. PICK o : o = FreshOwner
  OBVIOUS
<1>3. Owners \ UsedOwners \subseteq Nat \ {0}
  BY TiersAssumption
<1>4. o \in Owners \ UsedOwners
  BY <1>2, <1>3, MinOfNaturals DEF FreshOwner
<1>5. o \in Nat /\ o # 0
  BY <1>3, <1>4
<1>6. \A r \in claims : r.owner # o
  BY <1>4 DEF UsedOwners
<1>7. \A v \in Workers : job[v].owner # o
  BY <1>4 DEF UsedOwners
<1>8. RowSet(claims') /\ FromBut(claims', claims, job[w].owner) /\ Stay(claims', claims, job[w].owner)
  BY <1>1, SameRows
<1>9. ~Held(w)' /\ \A r \in claims' : r.owner # job'[w].owner
  BY <1>2, <1>6 DEF Held, HasRow
<1>10. Holding(w)'
  BY <1>2, <1>5, <1>9 DEF Holding, Asking, Busy, Committing, Everything
<1>11. \A v \in Workers : v # w => Holding(v)' /\ (Held(v)' => Held(v))
  BY <1>8, Beside
<1>12. OwnersApart'
  BY <1>2, <1>5, <1>7 DEF Claimed, OwnersApart, Others
<1> QED
  BY <1>8, <1>10, <1>11, <1>12 DEF Claimed

\* A worker takes its range.
LEMMA Takes ==
    ASSUME Claimed, NEW w \in Workers, Others(w), CanClaim(job[w]), SameClaim(w),
           claims' = Acquired(claims, job[w].owner, job[w], 0, 1),
           pc[w] \in Asking, pc'[w] \in Busy \ (Asking \cup Committing)
    PROVE  Claimed' /\ \A v \in Workers : v # w => (Held(v)' => Held(v))
<1>1. RowSet(claims) /\ Holding(w) /\ pc[w] \in Busy
  BY DEF Claimed, Asking, Busy, PC
<1>2. /\ job[w].owner \in Nat /\ job[w].owner # 0 /\ ~HasRow(claims, job[w].owner)
      /\ job[w].start \in Nat /\ job[w].end \in Nat
      /\ job[w].start < job[w].end /\ job[w].end <= Everything
  BY <1>1 DEF Holding, Busy, Held
<1>3. /\ RowSet(claims') /\ Stay(claims', claims, job[w].owner)
      /\ \A r \in claims' : \/ r \in claims
                            \/ r.owner = job[w].owner /\ r.start = job[w].start /\ r.end = job[w].end
  BY <1>1, <1>2, AcquiredRows DEF CanClaim
<1>4. FromBut(claims', claims, job[w].owner)
  BY <1>3 DEF FromBut, Alike
<1>5. \A r \in claims' : r.owner = job[w].owner => r.start = job[w].start /\ r.end = job[w].end
  BY <1>2, <1>3 DEF HasRow
<1>6. Holding(w)'
  BY <1>2, <1>5 DEF Holding, SameClaim, Busy, Everything
<1> QED
  BY <1>3, <1>4, <1>6, ClaimsGo DEF SameClaim

-----------------------------------------------------------------------------
(***************************************************************************)
(* The inductive invariant.                                                *)
(***************************************************************************)

\* Where the published table ends; where the staging table starts and ends,
\* both at the published end while it has no file.
PubOf(P) == IF P = {} THEN 1 ELSE ReachOf(P)
HiOf(S, P) == IF S = {} THEN PubOf(P) ELSE ReachOf(S)
LoOf(S, P) == IF S = {} THEN PubOf(P) ELSE First(S).start
Pub == PubOf(published)
Hi == HiOf(staging, published)
Lo == LoOf(staging, published)

\* The tables: each tiles a range, and the two overlap.
InLine(S, P, l, p, t) ==
    /\ Tiled(S, l, t) /\ Tiled(P, 1, p)
    /\ 1 <= l /\ l <= p /\ p <= t /\ t <= MaxOffset + 1

\* ... with nothing that the log promised gone.
Geometry ==
    /\ InLine(staging, published, Lo, Pub, Hi)
    /\ through \in Nat /\ through < Pub
    /\ Pub..MaxOffset \subseteq buffer

\* The tier row names what the staging table has given up.
Rowed ==
    /\ tier = [has |-> tier.has, start |-> tier.start, end |-> tier.end]
    /\ tier.has \in BOOLEAN /\ tier.start \in Nat /\ tier.end \in Nat
    /\ tier.has => Lo = 1 \/ (tier.start <= 1 /\ Lo <= tier.end)

\* Tables in line have their ends.
LEMMA EndsAre ==
    ASSUME NEW S, NEW P, NEW l, NEW p, NEW t, InLine(S, P, l, p, t)
    PROVE  /\ LoOf(S, P) = l /\ PubOf(P) = p /\ HiOf(S, P) = t
           /\ l \in Nat /\ p \in Nat /\ t \in Nat
<1>1. Tiled(S, l, t) /\ Tiled(P, 1, p) /\ 1 <= l /\ l <= p /\ p <= t
  BY DEF InLine
<1>2. l \in Nat /\ p \in Nat /\ t \in Nat
  BY <1>1 DEF Tiled
<1>3. PubOf(P) = p
  BY <1>1, <1>2, TiledEmpty, TiledReach DEF PubOf
<1>4. CASE S = {}
  <2>1. l = t
    BY <1>1, <1>4, TiledEmpty
  <2> QED
    BY <1>1, <1>2, <1>3, <1>4, <2>1 DEF LoOf, HiOf
<1>5. CASE S # {}
  BY <1>1, <1>2, <1>3, <1>5, TiledFirst, TiledReach DEF LoOf, HiOf
<1> QED
  BY <1>4, <1>5

-----------------------------------------------------------------------------
(***************************************************************************)
(* What a pass has in hand, by its label.                                  *)
(***************************************************************************)

\* A compaction: a range inside the log, and outputs that tile it.
MergeJob(k, j, t) ==
    /\ k \in {"compact", "recheck", "merge", "mergefence", "mergecommit"} =>
         /\ j.seen # {} /\ j.start = First(j.seen).start /\ j.end = Last(j.seen).end
         /\ 1 <= j.start /\ j.end <= t
    /\ k \in {"mergefence", "mergecommit"} => Tiled(j.outs, j.start, j.end)

\* A snapshot of the staging table, now or earlier.
Snapshot(F, p, t) ==
    \E c, d \in Nat : Tiled(F, c, d) /\ 1 <= c /\ c <= p /\ d <= t

\* Files uploaded, and files to upload after them.
Uploading(outs, todo, p, t) ==
    \E c, e, d \in Nat : /\ Tiled(outs, c, e) /\ Tiled(todo, e, d)
                         /\ 1 <= c /\ c < d /\ c <= p /\ d <= t

\* A publish: a snapshot, what of it is to be swapped and pushed, and how far
\* the published table has come.
Swapping == {"swap", "swapfence", "swapcommit", "swapconfirm", "swapclear"}
Reloaded == {"row", "rowwrite", "reconcile"} \cup Swapping
PubJob(k, j, p, t) ==
    /\ k \in Reloaded =>
         /\ Snapshot(j.seen, p, t) /\ j.floor \in Nat /\ j.floor <= p
         /\ \A f \in j.held : f.start \in Nat /\ f.end \in Nat /\ f.end <= p
    /\ k \in {"publish", "reload"} \cup Reloaded => j.outs = {}
    /\ k \in Swapping => j.todo \subseteq j.seen
    /\ k \in Swapping \ {"swap"} => j.todo # {}
    /\ k \in {"swapfence", "swapcommit"} => First(j.todo).start <= p
    /\ k \in {"swapconfirm", "swapclear"} => First(j.todo).end <= p
    /\ k \in {"upload", "register", "confirm"} => Uploading(j.outs, j.todo, p, t)
    /\ k \in {"register", "confirm"} => j.todo = {}
    /\ k = "confirm" => Last(j.outs).end <= p

\* An eviction: a boundary inside its claim that is published.
EvictJob(k, j, l, p) ==
    /\ k \in {"evict", "decide", "widen", "evictcommit"} => j.start = 0
    /\ k \in {"widen", "evictcommit"} =>
         /\ j.floor \in Nat /\ 1 <= j.floor /\ j.floor <= j.end /\ j.floor <= p
         /\ First(j.seen).start \in Nat /\ First(j.seen).start <= l
         /\ ReachOf(j.seen) = j.floor

\* What holds by the claims: nothing below a merge has been evicted; the row
\* is wide enough for an eviction that is to commit; and a first publish writes
\* the row of the tables as they are.
Fenced(k, j, has, l, S, P, ti) ==
    /\ k \in {"merge", "mergefence", "mergecommit"} /\ has => l <= j.start
    /\ k = "evictcommit" /\ ti.has => (l = 1 => ti.start <= 1) /\ j.floor <= ti.end
    /\ k \in {"publish", "reload"} /\ ~ti.has => j.start = 0 /\ j.end = Everything
    /\ k \in {"row", "rowwrite"} => j.start = 0 /\ j.end = Everything
    /\ k \in {"row", "rowwrite"} /\ has => j.held = P
    /\ k = "rowwrite" /\ has => j.seen = S

Local(w) ==
    /\ MergeJob(pc[w], job[w], Hi) /\ PubJob(pc[w], job[w], Pub, Hi)
    /\ EvictJob(pc[w], job[w], Lo, Pub)
    /\ Fenced(pc[w], job[w], Held(w), Lo, staging, published, tier)

TiersInv == Shaped /\ Claimed /\ Geometry /\ Rowed /\ \A w \in Workers : Local(w)

-----------------------------------------------------------------------------

\* As the tables grow, what a pass has in hand stays good.
LEMMA JobsLast ==
    ASSUME NEW k, NEW j, NEW l \in Nat, NEW p \in Nat, NEW t \in Nat,
           NEW m \in Nat, NEW q \in Nat, NEW u \in Nat, l <= m, p <= q, t <= u,
           k \in Busy => j.end \in Nat,
           k \in {"swapfence", "swapcommit"} => First(j.todo).start \in Nat,
           k \in {"swapconfirm", "swapclear"} => First(j.todo).end \in Nat,
           k = "confirm" => Last(j.outs).end \in Nat,
           MergeJob(k, j, t), PubJob(k, j, p, t), EvictJob(k, j, l, p)
    PROVE  MergeJob(k, j, u) /\ PubJob(k, j, q, u) /\ EvictJob(k, j, m, q)
<1>1. MergeJob(k, j, u)
  BY DEF MergeJob, Busy, PC
<1>2. EvictJob(k, j, m, q)
  BY DEF EvictJob
<1>3. ASSUME NEW F, Snapshot(F, p, t) PROVE Snapshot(F, q, u)
  BY <1>3 DEF Snapshot
<1>4. ASSUME NEW F, NEW G, Uploading(F, G, p, t) PROVE Uploading(F, G, q, u)
  BY <1>4 DEF Uploading
<1>5. k \in Reloaded =>
         /\ Snapshot(j.seen, q, u) /\ j.floor \in Nat /\ j.floor <= q
         /\ \A f \in j.held : f.start \in Nat /\ f.end \in Nat /\ f.end <= q
  BY <1>3 DEF PubJob
<1>6. k \in {"upload", "register", "confirm"} => Uploading(j.outs, j.todo, q, u)
  BY <1>4 DEF PubJob
<1>7. /\ k \in {"swapfence", "swapcommit"} => First(j.todo).start <= q
      /\ k \in {"swapconfirm", "swapclear"} => First(j.todo).end <= q
      /\ k = "confirm" => Last(j.outs).end <= q
  BY DEF PubJob
<1>8. PubJob(k, j, q, u)
  BY <1>5, <1>6, <1>7 DEF PubJob
<1> QED
  BY <1>1, <1>2, <1>8

\* The file being swapped.
LEMMA SwapFile ==
    ASSUME NEW k, NEW j, NEW p \in Nat, NEW t \in Nat, PubJob(k, j, p, t),
           k \in Swapping, j.todo # {}
    PROVE  /\ First(j.todo) \in j.todo /\ First(j.todo) \in j.seen
           /\ First(j.todo).start \in Nat /\ First(j.todo).end \in Nat
           /\ 1 <= First(j.todo).start /\ First(j.todo).start < First(j.todo).end
           /\ First(j.todo).end <= t
<1>1. j.todo \subseteq j.seen /\ Snapshot(j.seen, p, t)
  BY DEF PubJob, Reloaded
<1>2. PICK c \in Nat, d \in Nat : Tiled(j.seen, c, d) /\ 1 <= c /\ d <= t
  BY <1>1 DEF Snapshot
<1>3. \A f \in j.seen : f.start \in Nat /\ f.end \in Nat /\ c <= f.start /\ f.start < f.end /\ f.end <= d
  BY <1>2 DEF Tiled, Sized
<1>4. First(j.todo) \in j.todo
  BY <1>1, <1>3, FirstIs
<1>5. PICK f \in j.seen : f = First(j.todo)
  BY <1>1, <1>4
<1>6. f.start \in Nat /\ f.end \in Nat /\ c <= f.start /\ f.start < f.end /\ f.end <= d
  BY <1>3
<1> QED
  BY <1>2, <1>4, <1>5, <1>6

\* The files uploaded, once all are.
LEMMA UploadedFiles ==
    ASSUME NEW j, NEW p \in Nat, NEW t \in Nat, Uploading(j.outs, j.todo, p, t), j.todo = {}
    PROVE  \E c, d \in Nat : /\ Tiled(j.outs, c, d) /\ 1 <= c /\ c < d /\ c <= p /\ d <= t
                             /\ j.outs # {} /\ First(j.outs).start = c /\ Last(j.outs).end = d
<1>1. PICK c \in Nat, e \in Nat, d \in Nat :
        /\ Tiled(j.outs, c, e) /\ Tiled(j.todo, e, d)
        /\ 1 <= c /\ c < d /\ c <= p /\ d <= t
  BY DEF Uploading
<1>2. e = d
  BY <1>1, TiledEmpty
<1>3. j.outs # {}
  BY <1>1, <1>2, TiledEmpty
<1>4. First(j.outs).start = c /\ Last(j.outs).end = d
  BY <1>1, <1>2, <1>3, TiledFirst, TiledReach
<1> QED
  BY <1>1, <1>2, <1>3, <1>4

\* The numbers of the invariant.
LEMMA InvFacts ==
    ASSUME TiersInv
    PROVE  /\ Lo \in Nat /\ Pub \in Nat /\ Hi \in Nat
           /\ 1 <= Lo /\ Lo <= Pub /\ Pub <= Hi /\ Hi <= MaxOffset + 1
           /\ Tiled(staging, Lo, Hi) /\ Tiled(published, 1, Pub)
           /\ through \in Nat /\ through < Pub
           /\ MaxOffset \in Nat
<1>1. InLine(staging, published, Lo, Pub, Hi) /\ through \in Nat /\ through < Pub
  BY DEF TiersInv, Geometry
<1>2. Lo \in Nat /\ Pub \in Nat /\ Hi \in Nat
  BY <1>1, EndsAre
<1> QED
  BY <1>1, <1>2, TiersAssumption DEF InLine

\* What a worker's step leaves of another's pass, the tables having grown.
LEMMA OthersLast ==
    ASSUME TiersInv, NEW v \in Workers, pc'[v] = pc[v], job'[v] = job[v],
           Lo' \in Nat, Pub' \in Nat, Hi' \in Nat, Lo <= Lo', Pub <= Pub', Hi <= Hi',
           Fenced(pc[v], job[v], Held(v)', Lo', staging', published', tier')
    PROVE  Local(v)'
<1>1. Lo \in Nat /\ Pub \in Nat /\ Hi \in Nat
  BY InvFacts
<1>2. PICK k, j : k = pc[v] /\ j = job[v]
  OBVIOUS
<1>3. MergeJob(k, j, Hi) /\ PubJob(k, j, Pub, Hi) /\ EvictJob(k, j, Lo, Pub)
  BY <1>2 DEF TiersInv, Local
<1>4. k \in Busy => j.end \in Nat
  BY <1>2 DEF TiersInv, Claimed, Holding
<1>5. /\ k \in {"swapfence", "swapcommit"} => First(j.todo).start \in Nat
      /\ k \in {"swapconfirm", "swapclear"} => First(j.todo).end \in Nat
  <2>1. ASSUME k \in Swapping \ {"swap"} PROVE First(j.todo).start \in Nat /\ First(j.todo).end \in Nat
    <3>1. j.todo # {}
      BY <1>3, <2>1 DEF PubJob
    <3> QED
      BY <1>1, <1>3, <2>1, <3>1, SwapFile
  <2> QED
    BY <2>1 DEF Swapping
<1>6. k = "confirm" => Last(j.outs).end \in Nat
  <2> SUFFICES ASSUME k = "confirm" PROVE Last(j.outs).end \in Nat
    OBVIOUS
  <2>1. Uploading(j.outs, j.todo, Pub, Hi) /\ j.todo = {}
    BY <1>3 DEF PubJob
  <2>2. PICK c \in Nat, d \in Nat : Last(j.outs).end = d
    BY <1>1, <2>1, UploadedFiles
  <2> QED
    BY <2>2
<1>7. MergeJob(k, j, Hi') /\ PubJob(k, j, Pub', Hi') /\ EvictJob(k, j, Lo', Pub')
  BY <1>1, <1>3, <1>4, <1>5, <1>6, JobsLast
<1> QED
  BY <1>2, <1>7 DEF Local

\* A claim that is not there any more promises nothing.
LEMMA FencedLess ==
    ASSUME NEW k, NEW j, NEW has \in BOOLEAN, NEW had \in BOOLEAN, has => had, NEW l, NEW S, NEW P, NEW ti,
           Fenced(k, j, had, l, S, P, ti)
    PROVE  Fenced(k, j, has, l, S, P, ti)
BY DEF Fenced

\* The ends of the tables never go back.
Grown == Lo <= Lo' /\ Pub <= Pub' /\ Hi <= Hi'

\* A step that leaves the tables and the row alone.
Quiet == UNCHANGED <<buffer, staging, published, tier>>

\* Such a step of one worker: only its own locals have to be looked at.
LEMMA QuietStep ==
    ASSUME TiersInv, NEW w \in Workers, Shaped', Claimed', Others(w), Quiet,
           \A v \in Workers : v # w => (Held(v)' => Held(v)),
           through' \in Nat, through' < Pub,
           MergeJob(pc'[w], job'[w], Hi), PubJob(pc'[w], job'[w], Pub, Hi),
           EvictJob(pc'[w], job'[w], Lo, Pub),
           Fenced(pc'[w], job'[w], Held(w)', Lo, staging, published, tier)
    PROVE  TiersInv' /\ Grown
<1>1. Lo' = Lo /\ Pub' = Pub /\ Hi' = Hi
  BY DEF Quiet, Lo, Pub, Hi
<1>2. Geometry'
  BY <1>1 DEF TiersInv, Geometry, Quiet
<1>3. Rowed'
  BY <1>1 DEF TiersInv, Rowed, Quiet
<1>4. Local(w)'
  BY <1>1 DEF Local, Quiet
<1>5. ASSUME NEW v \in Workers, v # w PROVE Local(v)'
  <2>1. Local(v) /\ pc'[v] = pc[v] /\ job'[v] = job[v] /\ (Held(v)' => Held(v))
    BY <1>5 DEF TiersInv, Others
  <2>2. Held(v) \in BOOLEAN /\ Held(v)' \in BOOLEAN
    BY DEF Held, HasRow
  <2>3. Fenced(pc[v], job[v], Held(v)', Lo, staging, published, tier)
    BY <2>1, <2>2, FencedLess DEF Local
  <2> QED
    BY <1>1, <2>1, <2>3 DEF Local, Quiet
<1>6. Grown
  BY <1>1, InvFacts DEF Grown
<1> QED
  BY <1>2, <1>3, <1>4, <1>5, <1>6 DEF TiersInv

\* A worker with nothing in hand.
LEMMA NothingInHand ==
    ASSUME NEW k \in {"idle", "release"}, NEW j, NEW has, NEW l, NEW p, NEW t, NEW S, NEW P, NEW ti
    PROVE  /\ MergeJob(k, j, t) /\ PubJob(k, j, p, t) /\ EvictJob(k, j, l, p)
           /\ Fenced(k, j, has, l, S, P, ti)
BY DEF MergeJob, PubJob, EvictJob, Fenced, Reloaded, Swapping

-----------------------------------------------------------------------------
(***************************************************************************)
(* Steps that leave the tables alone: a pass starts, ends or goes on.      *)
(***************************************************************************)

\* A pass ends, by return or by exception.
LEMMA LeaveStep ==
    ASSUME TiersInv, NEW w \in Workers, pc[w] # "idle", Leave(w), Quiet,
           claims' = claims \/ claims' = Renewed(claims, job[w].owner, 0, 1),
           through' \in Nat, through' < Pub
    PROVE  TiersInv' /\ Grown
<1>1. PICK j : j = [NoJob EXCEPT !.owner = job[w].owner]
  OBVIOUS
<1>2. IsJob(j) /\ j.owner = job[w].owner
  BY <1>1, LeftJobIs
<1>3. Shaped' /\ Others(w) /\ pc'[w] = "release" /\ job'[w] = j
  BY <1>1, <1>2, Stepped DEF Leave, Go, TiersInv, PC
<1>4. Claimed' /\ \A v \in Workers : v # w => (Held(v)' => Held(v))
  BY <1>2, <1>3, Leaves DEF TiersInv
<1> QED
  BY <1>3, <1>4, QuietStep, NothingInHand

\* A worker is idle again.
LEMMA IdleStep ==
    ASSUME TiersInv, NEW w \in Workers, Go(w, "idle"), job' = [job EXCEPT ![w] = NoJob], Quiet,
           claims' = claims \/ claims' = Released(claims, job[w].owner),
           through' = through
    PROVE  TiersInv' /\ Grown
<1>1. Shaped' /\ Others(w) /\ pc'[w] = "idle" /\ job'[w] = NoJob
  BY NoJobIs, Stepped DEF Go, TiersInv, PC
<1>2. Claimed' /\ \A v \in Workers : v # w => (Held(v)' => Held(v))
  BY <1>1, GoesIdle, NoJobIs DEF TiersInv
<1>3. through' \in Nat /\ through' < Pub
  BY InvFacts
<1> QED
  BY <1>1, <1>2, <1>3, QuietStep, NothingInHand

\* A worker at work goes on without a look at its claim ...
LEMMA GoesOn ==
    ASSUME TiersInv, NEW w \in Workers, NEW k \in Busy \ (Asking \cup Committing), NEW j, IsJob(j),
           pc[w] \in Busy, Go(w, k), job' = [job EXCEPT ![w] = j],
           j.owner = job[w].owner, j.start = job[w].start, j.end = job[w].end,
           Quiet, claims' = claims, through' \in Nat, through' < Pub,
           MergeJob(k, j, Hi), PubJob(k, j, Pub, Hi), EvictJob(k, j, Lo, Pub),
           Fenced(k, j, Held(w), Lo, staging, published, tier)
    PROVE  TiersInv' /\ Grown
<1>1. k \in PC
  BY DEF Busy
<1>2. Shaped' /\ Others(w) /\ pc'[w] = k /\ job'[w] = j
  BY <1>1, Stepped DEF Go, TiersInv
<1>3. SameClaim(w)
  BY <1>2 DEF SameClaim
<1>4. Claimed' /\ \A v \in Workers : v # w => (Held(v)' => Held(v))
  BY <1>2, <1>3, Proceeds DEF TiersInv
<1>5. Held(w)' = Held(w)
  BY <1>2 DEF Held
<1> QED
  BY <1>2, <1>4, <1>5, QuietStep

\* ... or after it has renewed it.
LEMMA RenewsAndGoesOn ==
    ASSUME TiersInv, NEW w \in Workers, NEW k \in Busy \ Asking, NEW j, IsJob(j),
           pc[w] \in Busy, Go(w, k), job' = [job EXCEPT ![w] = j],
           j.owner = job[w].owner, j.start = job[w].start, j.end = job[w].end,
           Quiet, Held(w), claims' = Renewed(claims, job[w].owner, 0, 1),
           through' = through,
           MergeJob(k, j, Hi), PubJob(k, j, Pub, Hi), EvictJob(k, j, Lo, Pub),
           Fenced(k, j, TRUE, Lo, staging, published, tier)
    PROVE  TiersInv' /\ Grown
<1>1. k \in PC
  BY DEF Busy
<1>2. Shaped' /\ Others(w) /\ pc'[w] = k /\ job'[w] = j
  BY <1>1, Stepped DEF Go, TiersInv
<1>3. SameClaim(w)
  BY <1>2 DEF SameClaim
<1>4. Claimed' /\ \A v \in Workers : v # w => (Held(v)' => Held(v))
  BY <1>2, <1>3, Renews DEF TiersInv
<1>5. Held(w)' \in BOOLEAN
  BY DEF Held, HasRow
<1>6. Fenced(k, j, Held(w)', Lo, staging, published, tier)
  BY <1>5, FencedLess
<1>7. through' \in Nat /\ through' < Pub
  BY InvFacts
<1> QED
  BY <1>2, <1>4, <1>6, <1>7, QuietStep

\* A worker's locals as they are.
LEMMA JobKept ==
    ASSUME Shaped, NEW w \in Workers
    PROVE  IsJob(job[w]) /\ job = [job EXCEPT ![w] = job[w]]
<1>1. job = [v \in Workers |-> job[v]]
  BY DEF Shaped
<1> QED
  BY <1>1 DEF Shaped

\* Release.
LEMMA ReleaseStep ==
    ASSUME TiersInv, NEW w \in Workers, Release(w)
    PROVE  TiersInv' /\ Grown
BY IdleStep DEF Release, Quiet, tables, meta

\* An error, or a kill.
LEMMA FailStep ==
    ASSUME TiersInv, NEW w \in Workers, Fail(w)
    PROVE  TiersInv' /\ Grown
<1>1. Quiet /\ claims' = claims /\ through' = through /\ pc[w] # "idle"
  BY DEF Fail, Quiet, tables, meta
<1>2. CASE Go(w, "idle") /\ job' = [job EXCEPT ![w] = NoJob]
  BY <1>1, <1>2, IdleStep
<1>3. CASE Leave(w)
  BY <1>1, <1>3, LeaveStep, InvFacts
<1> QED
  BY <1>2, <1>3 DEF Fail

\* A pass starts.
LEMMA BeginStep ==
    ASSUME TiersInv, NEW w \in Workers, NEW kind \in Asking, NEW d, NEW fields, IsJob(fields),
           Begin(w, kind, d, fields), NEW j,
           j = Begun(fields, FreshOwner, d.start, d.end),
           d.start \in Nat, d.end \in Nat, d.start < d.end, d.end <= Everything,
           MergeJob(kind, j, Hi), EvictJob(kind, j, Lo, Pub), fields.outs = {},
           kind = "publish" /\ ~tier.has => d.start = 0 /\ d.end = Everything
    PROVE  TiersInv' /\ Grown
<1>1. IsJob(j) /\ j.owner = FreshOwner /\ j.start = d.start /\ j.end = d.end /\ j.outs = {}
  BY ClaimSet
<1>2. kind \in PC
  BY DEF Asking, PC
<1>3. Shaped' /\ Others(w) /\ pc'[w] = kind /\ job'[w] = j
  <2>1. pc' = [pc EXCEPT ![w] = kind] /\ job' = [job EXCEPT ![w] = j]
    BY DEF Begin, Go, Begun
  <2> QED
    BY <1>1, <1>2, <2>1, Stepped DEF TiersInv
<1>4. /\ Quiet /\ claims' = claims /\ through' = through /\ pc[w] = "idle"
      /\ Owners \ UsedOwners # {}
  BY DEF Begin, Quiet, tables, meta
<1>5. Claimed' /\ \A v \in Workers : v # w => (Held(v)' => Held(v))
  BY <1>1, <1>3, <1>4, Starts DEF TiersInv
<1>6. PubJob(kind, j, Pub, Hi)
  BY <1>1 DEF PubJob, Asking, Reloaded, Swapping
<1>7. Fenced(kind, j, Held(w)', Lo, staging, published, tier)
  BY <1>1 DEF Fenced, Asking
<1>8. through' \in Nat /\ through' < Pub
  BY <1>4, InvFacts
<1> QED
  BY <1>3, <1>4, <1>5, <1>6, <1>7, <1>8, QuietStep

\* A compaction picks its run.
LEMMA PickRunStep ==
    ASSUME TiersInv, NEW w \in Workers, NEW flush \in BOOLEAN, PickRun(w, flush)
    PROVE  TiersInv' /\ Grown
<1>1. PICK run \in Runs(Candidates, through + 1, flush) :
        Begin(w, "compact", [start |-> First(run).start, end |-> Last(run).end],
              [NoJob EXCEPT !.seen = run])
  BY DEF PickRun
<1>2. run \subseteq Candidates /\ run # {}
  BY <1>1, RunsInside
<1>3. run \subseteq staging
  BY <1>2 DEF Candidates
<1>4. /\ Lo \in Nat /\ Hi \in Nat /\ 1 <= Lo /\ Hi <= MaxOffset + 1 /\ MaxOffset \in Nat
      /\ \A f \in staging : f.start \in Nat /\ f.end \in Nat /\ Lo <= f.start /\ f.start < f.end /\ f.end <= Hi
  BY InvFacts DEF Tiled, Sized
<1>5. First(run) \in run
  BY <1>2, <1>3, <1>4, FirstIs
<1>6. Last(run) \in run /\ \A g \in run : g.end <= Last(run).end
  BY <1>2, <1>3, <1>4, LastIs
<1>7. PICK f \in staging, g \in staging : f = First(run) /\ g = Last(run)
  BY <1>3, <1>5, <1>6
<1>8. f.start \in Nat /\ g.end \in Nat /\ f.start < g.end /\ g.end <= Hi /\ 1 <= f.start
  <2>1. f.end <= g.end
    BY <1>5, <1>6, <1>7
  <2> QED
    BY <1>4, <2>1
<1>9. PICK d, fields : d = [start |-> f.start, end |-> g.end] /\ fields = [NoJob EXCEPT !.seen = run]
  OBVIOUS
<1>10. d.start = f.start /\ d.end = g.end
  BY <1>9
<1>11. IsJob(fields) /\ fields.seen = run /\ fields.outs = {}
  BY <1>9, SeenSet, NoJobIs
<1>12. PICK j : j = Begun(fields, FreshOwner, d.start, d.end)
  OBVIOUS
<1>13. j.start = f.start /\ j.end = g.end /\ j.seen = run
  BY <1>10, <1>11, <1>12, ClaimSet
<1>14. MergeJob("compact", j, Hi)
  BY <1>2, <1>7, <1>8, <1>13 DEF MergeJob
<1>15. EvictJob("compact", j, Lo, Pub)
  BY DEF EvictJob
<1>16. Begin(w, "compact", d, fields)
  BY <1>1, <1>7, <1>9
<1>17. d.end <= Everything
  BY <1>4, <1>8, <1>10 DEF Everything
<1> QED
  BY <1>8, <1>10, <1>11, <1>12, <1>14, <1>15, <1>16, <1>17, BeginStep DEF Asking

\* An eviction picks its boundary.
LEMMA PickBoundaryStep ==
    ASSUME TiersInv, NEW w \in Workers, NEW everything \in BOOLEAN, PickBoundary(w, everything)
    PROVE  TiersInv' /\ Grown
<1>1. PICK e \in RetentionBoundaries :
        Begin(w, "evict", [start |-> 0, end |-> e], [NoJob EXCEPT !.force = everything])
  BY DEF PickBoundary
<1>2. PICK f \in staging : e = f.end
  BY <1>1 DEF RetentionBoundaries
<1>3. f.start \in Nat /\ f.end \in Nat /\ f.start < f.end /\ f.end <= Hi
  BY InvFacts DEF Tiled, Sized
<1>4. Hi \in Nat /\ Hi <= MaxOffset + 1 /\ MaxOffset \in Nat
  BY InvFacts
<1>5. PICK d, fields : d = [start |-> 0, end |-> e] /\ fields = [NoJob EXCEPT !.force = everything]
  OBVIOUS
<1>6. d.start = 0 /\ d.end = e
  BY <1>5
<1>7. IsJob(fields) /\ fields.outs = {}
  BY <1>5 DEF NoJob, IsJob
<1>8. PICK j : j = Begun(fields, FreshOwner, d.start, d.end)
  OBVIOUS
<1>9. j.start = 0
  BY <1>6, <1>7, <1>8, ClaimSet
<1>10. MergeJob("evict", j, Hi) /\ EvictJob("evict", j, Lo, Pub)
  BY <1>9 DEF EvictJob, MergeJob
<1>11. Begin(w, "evict", d, fields)
  BY <1>1, <1>5
<1>12. d.start \in Nat /\ d.end \in Nat /\ d.start < d.end /\ d.end <= Everything
  BY <1>2, <1>3, <1>4, <1>6 DEF Everything
<1> QED
  BY <1>7, <1>8, <1>10, <1>11, <1>12, BeginStep DEF Asking

\* A publish picks its range.
LEMMA PickPushStep ==
    ASSUME TiersInv, NEW w \in Workers, NEW flush \in BOOLEAN, PickPush(w, flush)
    PROVE  TiersInv' /\ Grown
<1>1. PICK floor, pending, push, ends, end :
        /\ floor = PublishedEnd
        /\ pending = {f \in staging : f.end > floor}
        /\ push = Pushable(staging, pending, flush)
        /\ ends = {IF push = {} THEN floor + 1 ELSE ReachOf(push)}
                     \cup {f.end : f \in {f \in pending : f.start < floor}}
        /\ end = Max(ends)
  OBVIOUS
<1>2. IF tier.has
      THEN Begin(w, "publish", [start |-> floor, end |-> Max({end, floor + 1})],
                 [NoJob EXCEPT !.force = flush, !.bound = end])
      ELSE Begin(w, "publish", [start |-> 0, end |-> Everything],
                 [NoJob EXCEPT !.force = flush, !.bound = Everything])
  BY <1>1 DEF PickPush
<1>3. /\ Lo \in Nat /\ Hi \in Nat /\ Pub \in Nat /\ Pub <= Hi /\ Hi <= MaxOffset + 1 /\ MaxOffset \in Nat
      /\ \A f \in staging : f.start \in Nat /\ f.end \in Nat /\ f.end <= Hi
      /\ \A f \in published : f.end \in Nat /\ f.end <= Pub
  BY InvFacts DEF Tiled, Sized
<1>4. floor \in Nat /\ floor <= Pub
  BY <1>1, <1>3, ReachFacts DEF PublishedEnd
<1>5. push \subseteq staging
  BY <1>1 DEF Pushable
<1>6. PICK r : r = ReachOf(push)
  OBVIOUS
<1>7. r \in Nat /\ r <= Hi
  BY <1>3, <1>5, <1>6, ReachFacts
<1>8. PICK n \in Nat : n = MaxOffset + 2
  BY <1>3
<1>9. ends \subseteq 0..n /\ ends # {}
  <2>1. ASSUME NEW x \in ends PROVE x \in Nat /\ x <= n
    BY <1>1, <1>3, <1>4, <1>6, <1>7, <1>8
  <2>2. ASSUME NEW x \in ends PROVE x \in 0..n
    BY <1>8, <2>1
  <2>3. ends # {}
    BY <1>1
  <2> QED
    BY <2>2, <2>3
<1>10. end \in Nat /\ end <= n
  <2>1. end \in ends
    BY <1>1, <1>8, <1>9, MaxOfNaturals
  <2> QED
    BY <1>8, <1>9, <2>1
<1>11. PICK m : m = Max({end, floor + 1})
  OBVIOUS
<1>12. m \in Nat /\ floor < m /\ m <= n
  <2>1. floor + 1 \in Nat /\ floor + 1 <= n
    BY <1>3, <1>4, <1>8
  <2>2. m = IF end <= floor + 1 THEN floor + 1 ELSE end
    BY <1>10, <1>11, <2>1, TwoBetween
  <2> QED
    BY <1>4, <1>10, <2>1, <2>2
<1>13. ASSUME NEW j PROVE MergeJob("publish", j, Hi) /\ EvictJob("publish", j, Lo, Pub)
  BY DEF EvictJob, MergeJob
<1>14. ASSUME NEW b, NEW f, f = [NoJob EXCEPT !.force = flush, !.bound = b] PROVE IsJob(f) /\ f.outs = {}
  BY <1>14 DEF NoJob, IsJob
<1>15. CASE tier.has
  <2>1. PICK d, fields : d = [start |-> floor, end |-> m] /\ fields = [NoJob EXCEPT !.force = flush, !.bound = end]
    OBVIOUS
  <2>2. d.start = floor /\ d.end = m
    BY <2>1
  <2>3. IsJob(fields) /\ fields.outs = {} /\ Begin(w, "publish", d, fields)
    BY <1>2, <1>11, <1>14, <1>15, <2>1
  <2>4. d.start \in Nat /\ d.end \in Nat /\ d.start < d.end /\ d.end <= Everything
    BY <1>3, <1>4, <1>8, <1>12, <2>2 DEF Everything
  <2>5. PICK j : j = Begun(fields, FreshOwner, d.start, d.end)
    OBVIOUS
  <2> QED
    BY <1>13, <1>15, <2>3, <2>4, <2>5, BeginStep DEF Asking
<1>16. CASE ~tier.has
  <2>1. PICK d, fields : d = [start |-> 0, end |-> Everything] /\ fields = [NoJob EXCEPT !.force = flush, !.bound = Everything]
    OBVIOUS
  <2>2. d.start = 0 /\ d.end = Everything
    BY <2>1
  <2>3. IsJob(fields) /\ fields.outs = {} /\ Begin(w, "publish", d, fields)
    BY <1>2, <1>14, <1>16, <2>1
  <2>4. d.start \in Nat /\ d.end \in Nat /\ d.start < d.end /\ d.end <= Everything
    BY <1>3, <2>2 DEF Everything
  <2>5. PICK j : j = Begun(fields, FreshOwner, d.start, d.end)
    OBVIOUS
  <2> QED
    BY <1>13, <1>16, <2>2, <2>3, <2>4, <2>5, BeginStep DEF Asking
<1> QED
  BY <1>15, <1>16

\* A pass takes its claim, or finds it taken.
LEMMA AcquireStep ==
    ASSUME TiersInv, NEW w \in Workers, Acquire(w)
    PROVE  TiersInv' /\ Grown
<1>1. Quiet /\ through' = through /\ pc[w] \in Asking
  BY DEF Acquire, Quiet, tables, meta, Asking
<1>2. CASE ~CanClaim(job[w])
  BY <1>1, <1>2, IdleStep DEF Acquire
<1>3. CASE CanClaim(job[w])
  <2>1. PICK k : k = Entry[pc[w]]
    OBVIOUS
  <2>2. \/ pc[w] = "compact" /\ k = "recheck"
        \/ pc[w] = "publish" /\ k = "reload"
        \/ pc[w] = "evict" /\ k = "decide"
    BY <1>1, <2>1 DEF Asking, Entry
  <2>3. k \in Busy \ (Asking \cup Committing) /\ k \in PC
    BY <2>2 DEF Busy, Asking, Committing, PC
  <2>4. /\ claims' = Acquired(claims, job[w].owner, job[w], 0, 1)
        /\ pc' = [pc EXCEPT ![w] = k] /\ job' = job
    BY <1>3, <2>1 DEF Acquire, Go
  <2>5. Shaped' /\ Others(w) /\ pc'[w] = k /\ job'[w] = job[w]
    BY <2>3, <2>4, Labelled DEF TiersInv
  <2>6. SameClaim(w)
    BY <2>5 DEF SameClaim
  <2>7. Claimed' /\ \A v \in Workers : v # w => (Held(v)' => Held(v))
    BY <1>1, <1>3, <2>3, <2>4, <2>5, <2>6, Takes DEF TiersInv
  <2>8. Local(w)
    BY DEF TiersInv
  <2>9. MergeJob(k, job[w], Hi)
    BY <2>2, <2>8 DEF Local, MergeJob
  <2>10. PubJob(k, job[w], Pub, Hi)
    BY <2>2, <2>8 DEF Local, PubJob, Reloaded, Swapping
  <2>11. EvictJob(k, job[w], Lo, Pub)
    BY <2>2, <2>8 DEF Local, EvictJob
  <2>12. Fenced(k, job[w], Held(w)', Lo, staging, published, tier)
    BY <2>2, <2>8 DEF Local, Fenced
  <2>13. through' \in Nat /\ through' < Pub
    BY <1>1, InvFacts
  <2> QED
    BY <1>1, <2>5, <2>7, <2>9, <2>10, <2>11, <2>12, <2>13, QuietStep
<1> QED
  BY <1>2, <1>3

\* Under the claim, a run that is still there.
LEMMA RecheckRunStep ==
    ASSUME TiersInv, NEW w \in Workers, RecheckRun(w)
    PROVE  TiersInv' /\ Grown
<1>1. /\ Quiet /\ through' = through /\ claims' = claims /\ pc[w] = "recheck"
      /\ through' \in Nat /\ through' < Pub
  BY InvFacts DEF RecheckRun, Quiet, tables, meta
<1>2. CASE ~(job[w].seen \subseteq Candidates)
  BY <1>1, <1>2, LeaveStep DEF RecheckRun
<1>3. CASE job[w].seen \subseteq Candidates
  <2>1. IsJob(job[w]) /\ Go(w, "merge") /\ job' = [job EXCEPT ![w] = job[w]]
    BY <1>3, JobKept DEF RecheckRun, TiersInv
  <2>2. Local(w)
    BY DEF TiersInv
  <2>3. MergeJob("merge", job[w], Hi)
    BY <1>1, <2>2 DEF Local, MergeJob
  <2>4. PubJob("merge", job[w], Pub, Hi) /\ EvictJob("merge", job[w], Lo, Pub)
    BY DEF PubJob, EvictJob, Reloaded, Swapping
  <2>5. job[w].seen # {} /\ job[w].start = First(job[w].seen).start
    BY <1>1, <2>2 DEF Local, MergeJob
  <2>6. \A f \in staging : f.start \in Nat /\ Lo <= f.start
    BY InvFacts DEF Tiled, Sized
  <2>7. job[w].seen \subseteq staging
    BY <1>3 DEF Candidates
  <2>8. First(job[w].seen) \in job[w].seen
    BY <2>5, <2>6, <2>7, FirstIs
  <2>9. Lo <= job[w].start
    BY <2>5, <2>6, <2>7, <2>8
  <2>10. Fenced("merge", job[w], Held(w), Lo, staging, published, tier)
    BY <2>9 DEF Fenced
  <2>11. "merge" \in Busy \ (Asking \cup Committing) /\ pc[w] \in Busy
    BY <1>1 DEF Busy, Asking, Committing, PC
  <2> QED
    BY <1>1, <2>1, <2>3, <2>4, <2>10, <2>11, GoesOn
<1> QED
  BY <1>2, <1>3

\* The outputs are written.
LEMMA WriteMergeStep ==
    ASSUME TiersInv, NEW w \in Workers, WriteMerge(w)
    PROVE  TiersInv' /\ Grown
<1>1. /\ Quiet /\ through' = through /\ claims' = Renewed(claims, job[w].owner, 0, 1)
      /\ pc[w] = "merge" /\ through' \in Nat /\ through' < Pub
  BY InvFacts DEF WriteMerge, Quiet, tables, meta
<1>2. CASE ~Held(w)
  BY <1>1, <1>2, LeaveStep DEF WriteMerge
<1>3. CASE Held(w)
  <2>1. Local(w) /\ IsJob(job[w]) /\ Holding(w)
    BY DEF TiersInv, Shaped, Claimed
  <2>2. PICK s \in Nat, e \in Nat : s = job[w].start /\ e = job[w].end /\ s < e
    BY <1>1, <2>1 DEF Holding, Busy, PC
  <2>3. s = First(job[w].seen).start /\ e = Last(job[w].seen).end
    BY <1>1, <2>1, <2>2 DEF Local, MergeJob
  <2>4. PICK c \in Cuts(job[w].seen, through + 1) :
          LET starts == {job[w].start} \cup c
              rank(x) == Cardinality({y \in starts : y <= x})
          IN  /\ job' = [job EXCEPT ![w].outs =
                   {[start |-> x,
                     end |-> Min({job[w].end} \cup {y \in c : y > x}),
                     path |-> Fresh(rank(x))] : x \in starts}]
              /\ Go(w, "mergefence")
    BY <1>3 DEF WriteMerge
  <2>5. c \subseteq s + 1..e - 1
    BY <2>3, <2>4 DEF Cuts
  <2>6. PICK O : O = {[start |-> x, end |-> CutAt(x, c, e),
                       path |-> Fresh(Cardinality({y \in {s} \cup c : y <= x}))] : x \in {s} \cup c}
    OBVIOUS
  <2>7. job' = [job EXCEPT ![w].outs = O] /\ Go(w, "mergefence")
    BY <2>2, <2>4, <2>6 DEF CutAt
  <2>8. Outputs(O, s, e, c)
    <3>1. ASSUME NEW f \in O
          PROVE  /\ f.start \in {s} \cup c /\ f.end = CutAt(f.start, c, e)
                 /\ f = [start |-> f.start, end |-> CutAt(f.start, c, e),
                         path |-> Fresh(Cardinality({y \in {s} \cup c : y <= f.start}))]
      <4>1. PICK x \in {s} \cup c :
              f = [start |-> x, end |-> CutAt(x, c, e),
                   path |-> Fresh(Cardinality({y \in {s} \cup c : y <= x}))]
        BY <2>6
      <4>2. f.start = x /\ f.end = CutAt(x, c, e)
        BY <4>1
      <4> QED
        BY <4>1, <4>2
    <3>2. \A f \in O : f.start \in {s} \cup c /\ f.end = CutAt(f.start, c, e)
      BY <3>1
    <3>3. ASSUME NEW f \in O, NEW g \in O, f.start = g.start PROVE f = g
      BY <3>1, <3>3, Zenon
    <3>4. ASSUME NEW x \in {s} \cup c PROVE \E f \in O : f.start = x
      <4>1. PICK f : f = [start |-> x, end |-> CutAt(x, c, e),
                          path |-> Fresh(Cardinality({y \in {s} \cup c : y <= x}))]
        OBVIOUS
      <4>2. f \in O /\ f.start = x
        BY <2>6, <4>1
      <4> QED
        BY <4>2
    <3> QED
      BY <3>2, <3>3, <3>4 DEF Outputs
  <2>9. Tiled(O, s, e)
    BY <2>2, <2>5, <2>8, TiledOutputs
  <2>10. PICK j : j = [job[w] EXCEPT !.outs = O]
    OBVIOUS
  <2>11. job' = [job EXCEPT ![w] = j]
    BY <2>7, <2>10
  <2>12. /\ IsJob(j) /\ j.outs = O /\ j.owner = job[w].owner /\ j.start = s /\ j.end = e
         /\ j.seen = job[w].seen
    BY <2>1, <2>2, <2>10, OutsSet
  <2>13. MergeJob("mergefence", j, Hi)
    BY <1>1, <2>1, <2>2, <2>9, <2>12 DEF Local, MergeJob
  <2>14. PubJob("mergefence", j, Pub, Hi) /\ EvictJob("mergefence", j, Lo, Pub)
    BY DEF PubJob, EvictJob, Reloaded, Swapping
  <2>15. Fenced("mergefence", j, TRUE, Lo, staging, published, tier)
    BY <1>1, <1>3, <2>1, <2>2, <2>12 DEF Local, Fenced
  <2>16. "mergefence" \in Busy \ Asking /\ pc[w] \in Busy
    BY <1>1 DEF Busy, Asking, PC
  <2> QED
    BY <1>1, <1>3, <2>2, <2>7, <2>11, <2>12, <2>13, <2>14, <2>15, <2>16, RenewsAndGoesOn
<1> QED
  BY <1>2, <1>3

\* A pass looks at its claim and goes on, or ends.
LEMMA CheckpointStep ==
    ASSUME TiersInv, NEW w \in Workers, NEW k \in Busy \ Asking, pc[w] \in Busy,
           Checkpoint(w, k), Quiet, through' = through,
           Held(w) => /\ MergeJob(k, job[w], Hi) /\ PubJob(k, job[w], Pub, Hi)
                      /\ EvictJob(k, job[w], Lo, Pub)
                      /\ Fenced(k, job[w], TRUE, Lo, staging, published, tier)
    PROVE  TiersInv' /\ Grown
<1>1. claims' = Renewed(claims, job[w].owner, 0, 1) /\ pc[w] # "idle"
  BY DEF Checkpoint, Busy
<1>2. through' \in Nat /\ through' < Pub
  BY InvFacts
<1>3. CASE ~Held(w)
  BY <1>1, <1>2, <1>3, LeaveStep DEF Checkpoint
<1>4. CASE Held(w)
  <2>1. IsJob(job[w]) /\ Go(w, k) /\ job' = [job EXCEPT ![w] = job[w]]
    BY <1>4, JobKept DEF Checkpoint, TiersInv
  <2> QED
    BY <1>1, <1>4, <2>1, RenewsAndGoesOn
<1> QED
  BY <1>3, <1>4

\* The checkpoint before a merge commits.
LEMMA FenceMergeStep ==
    ASSUME TiersInv, NEW w \in Workers, FenceMerge(w)
    PROVE  TiersInv' /\ Grown
<1>1. Quiet /\ through' = through /\ pc[w] = "mergefence" /\ Checkpoint(w, "mergecommit")
  BY DEF FenceMerge, Quiet, tables, meta
<1>2. Local(w)
  BY DEF TiersInv
<1>3. MergeJob("mergecommit", job[w], Hi)
  BY <1>1, <1>2 DEF Local, MergeJob
<1>4. PubJob("mergecommit", job[w], Pub, Hi) /\ EvictJob("mergecommit", job[w], Lo, Pub)
  BY DEF PubJob, EvictJob, Reloaded, Swapping
<1>5. Held(w) => Fenced("mergecommit", job[w], TRUE, Lo, staging, published, tier)
  BY <1>1, <1>2 DEF Local, Fenced
<1>6. "mergecommit" \in Busy \ Asking /\ pc[w] \in Busy
  BY <1>1 DEF Busy, Asking, PC
<1> QED
  BY <1>1, <1>3, <1>4, <1>5, <1>6, CheckpointStep

\* The watermark is read for record_merge.
LEMMA ReadThroughStep ==
    ASSUME TiersInv, NEW w \in Workers, ReadThrough(w)
    PROVE  TiersInv' /\ Grown
<1>1. /\ Quiet /\ through' = through /\ pc[w] = "mergeread" /\ Go(w, "mergerecord") /\ claims' = claims
      /\ through' \in Nat /\ through' < Pub
  BY InvFacts DEF ReadThrough, Quiet, tables, meta
<1>2. PICK j : j = [job[w] EXCEPT !.floor = through]
  OBVIOUS
<1>3. IsJob(job[w]) /\ job' = [job EXCEPT ![w] = j]
  BY <1>2 DEF ReadThrough, TiersInv, Shaped
<1>4. IsJob(j) /\ j.owner = job[w].owner /\ j.start = job[w].start /\ j.end = job[w].end
  BY <1>2, <1>3, FloorSet
<1>5. /\ MergeJob("mergerecord", j, Hi) /\ PubJob("mergerecord", j, Pub, Hi)
      /\ EvictJob("mergerecord", j, Lo, Pub)
      /\ Fenced("mergerecord", j, Held(w), Lo, staging, published, tier)
  BY DEF MergeJob, PubJob, EvictJob, Fenced, Reloaded, Swapping
<1>6. "mergerecord" \in Busy \ (Asking \cup Committing) /\ pc[w] \in Busy
  BY <1>1 DEF Busy, Asking, Committing, PC
<1> QED
  BY <1>1, <1>3, <1>4, <1>5, <1>6, GoesOn

\* record_merge.
LEMMA RecordMergeStep ==
    ASSUME TiersInv, NEW w \in Workers, RecordMerge(w)
    PROVE  TiersInv' /\ Grown
<1>1. /\ Quiet /\ through' = through /\ pc[w] # "idle" /\ claims' = claims /\ Leave(w)
      /\ through' \in Nat /\ through' < Pub
  BY InvFacts DEF RecordMerge, Quiet, tables, meta
<1> QED
  BY <1>1, LeaveStep

\* A publish loads both tables.
LEMMA ReloadTablesStep ==
    ASSUME TiersInv, NEW w \in Workers, ReloadTables(w)
    PROVE  TiersInv' /\ Grown
<1>1. /\ Quiet /\ through' = through /\ pc[w] = "reload" /\ claims' = claims
      /\ through' \in Nat /\ through' < Pub
  BY InvFacts DEF ReloadTables, Quiet, tables, meta
<1>2. PICK k : k = IF tier.has THEN "reconcile" ELSE "row"
  OBVIOUS
<1>3. PICK e, j1 : e = PublishedEnd /\ j1 = [job[w] EXCEPT !.seen = staging]
  OBVIOUS
<1>19. PICK j2 : j2 = [j1 EXCEPT !.held = published]
  OBVIOUS
<1>20. PICK j : j = [j2 EXCEPT !.floor = e]
  OBVIOUS
<1>4. IsJob(job[w]) /\ Go(w, k)
  BY <1>2 DEF ReloadTables, TiersInv, Shaped
<1>5. job' = [job EXCEPT ![w] = j]
  BY <1>3, <1>19, <1>20 DEF ReloadTables, TiersInv, Shaped
<1>6. IsJob(j1) /\ j1.seen = staging /\ j1.owner = job[w].owner /\ j1.start = job[w].start
      /\ j1.end = job[w].end /\ j1.outs = job[w].outs
  BY <1>3, <1>4, SeenSet
<1>7. IsJob(j2) /\ j2.seen = staging /\ j2.held = published /\ j2.owner = job[w].owner
      /\ j2.start = job[w].start /\ j2.end = job[w].end /\ j2.outs = job[w].outs
  BY <1>19, <1>6, HeldSet
<1>8. IsJob(j) /\ j.seen = staging /\ j.held = published /\ j.owner = job[w].owner /\ j.floor = e
      /\ j.start = job[w].start /\ j.end = job[w].end /\ j.outs = job[w].outs
  BY <1>20, <1>7, FloorSet
<1>9. /\ Lo \in Nat /\ Pub \in Nat /\ Hi \in Nat /\ 1 <= Lo /\ Lo <= Pub
      /\ Tiled(staging, Lo, Hi) /\ Tiled(published, 1, Pub)
  BY InvFacts
<1>10. Snapshot(staging, Pub, Hi)
  BY <1>9 DEF Snapshot
<1>11. \A f \in published : f.start \in Nat /\ f.end \in Nat /\ f.end <= Pub
  BY <1>9 DEF Tiled, Sized
<1>12. e \in Nat /\ e <= Pub
  BY <1>3, <1>9, <1>11, ReachFacts DEF PublishedEnd
<1>13. Local(w)
  BY DEF TiersInv
<1>14. j.outs = {}
  BY <1>1, <1>8, <1>13 DEF Local, PubJob
<1>15. PubJob(k, j, Pub, Hi)
  BY <1>2, <1>8, <1>10, <1>11, <1>12, <1>14 DEF PubJob, Reloaded, Swapping
<1>16. MergeJob(k, j, Hi) /\ EvictJob(k, j, Lo, Pub)
  BY <1>2 DEF MergeJob, EvictJob
<1>17. Fenced(k, j, Held(w), Lo, staging, published, tier)
  BY <1>1, <1>2, <1>8, <1>13 DEF Local, Fenced
<1>18. k \in Busy \ (Asking \cup Committing) /\ pc[w] \in Busy
  BY <1>1, <1>2 DEF Busy, Asking, Committing, PC
<1> QED
  BY <1>1, <1>4, <1>5, <1>8, <1>15, <1>16, <1>17, <1>18, GoesOn

\* The claim is renewed, and the staging table read for the first row.
LEMMA ReadRowStep ==
    ASSUME TiersInv, NEW w \in Workers, ReadRow(w)
    PROVE  TiersInv' /\ Grown
<1>1. /\ Quiet /\ through' = through /\ pc[w] = "row" /\ claims' = Renewed(claims, job[w].owner, 0, 1)
      /\ through' \in Nat /\ through' < Pub
  BY InvFacts DEF ReadRow, Quiet, tables, meta
<1>2. CASE ~Held(w)
  BY <1>1, <1>2, LeaveStep DEF ReadRow
<1>3. CASE Held(w)
  <2>1. PICK j : j = [job[w] EXCEPT !.seen = staging]
    OBVIOUS
  <2>2. IsJob(job[w]) /\ Go(w, "rowwrite") /\ job' = [job EXCEPT ![w] = j]
    BY <1>3, <2>1 DEF ReadRow, TiersInv, Shaped
  <2>3. IsJob(j) /\ j.seen = staging /\ j.owner = job[w].owner /\ j.start = job[w].start
        /\ j.end = job[w].end /\ j.outs = job[w].outs /\ j.held = job[w].held /\ j.floor = job[w].floor
    BY <2>1, <2>2, SeenSet
  <2>4. Snapshot(staging, Pub, Hi)
    BY InvFacts DEF Snapshot
  <2>5. Local(w)
    BY DEF TiersInv
  <2>6. PubJob("rowwrite", j, Pub, Hi)
    BY <1>1, <2>3, <2>4, <2>5 DEF Local, PubJob, Reloaded, Swapping
  <2>7. MergeJob("rowwrite", j, Hi) /\ EvictJob("rowwrite", j, Lo, Pub)
    BY DEF MergeJob, EvictJob
  <2>8. Fenced("rowwrite", j, TRUE, Lo, staging, published, tier)
    BY <1>1, <1>3, <2>3, <2>5 DEF Local, Fenced
  <2>9. "rowwrite" \in Busy \ Asking /\ pc[w] \in Busy
    BY <1>1 DEF Busy, Asking, PC
  <2> QED
    BY <1>1, <1>3, <2>2, <2>3, <2>6, <2>7, <2>8, <2>9, RenewsAndGoesOn
<1> QED
  BY <1>2, <1>3

\* The greater of two integers.
LEMMA MaxOfTwo ==
    ASSUME NEW a \in Int, NEW b \in Int
    PROVE  Max({a, b}) = IF a <= b THEN b ELSE a
<1>1. PICK m \in {a, b} : m = IF a <= b THEN b ELSE a
  OBVIOUS
<1>2. \A y \in {a, b} : m >= y
  BY <1>1
<1>3. \A x \in {a, b} : (\A y \in {a, b} : x >= y) => x = m
  BY <1>2
<1>4. Max({a, b}) = CHOOSE x \in {a, b} : \A y \in {a, b} : x >= y
  BY DEF Max
<1> QED
  BY <1>1, <1>2, <1>3, <1>4

\* The watermark catches up, and the files to swap are picked.
LEMMA ReconcileStep ==
    ASSUME TiersInv, NEW w \in Workers, Reconcile(w)
    PROVE  TiersInv' /\ Grown
<1>1. /\ Quiet /\ pc[w] = "reconcile" /\ claims' = claims /\ Go(w, "swap")
      /\ through' = Max({through, job[w].floor - 1})
  BY DEF Reconcile, Quiet, tables
<1>2. Local(w) /\ IsJob(job[w])
  BY DEF TiersInv, Shaped
<1>3. job[w].floor \in Nat /\ job[w].floor <= Pub
  BY <1>1, <1>2 DEF Local, PubJob, Reloaded
<1>4. through' \in Nat /\ through' < Pub
  <2>1. through \in Nat /\ through < Pub /\ Pub \in Nat
    BY InvFacts
  <2>2. through \in Int /\ job[w].floor - 1 \in Int
    BY <1>3, <2>1
  <2>3. through' = IF through <= job[w].floor - 1 THEN job[w].floor - 1 ELSE through
    BY <1>1, <2>2, MaxOfTwo
  <2> QED
    BY <1>3, <2>1, <2>3
<1>5. PICK T : T = LET straddles(f) == f.start < job[w].floor /\ job[w].floor < f.end
                   IN  {f \in job[w].seen :
                          /\ f.path \in owed \/ straddles(f)
                          /\ f \in Settled(job[w].seen) \/ (job[w].force /\ straddles(f))}
  OBVIOUS
<1>6. T \subseteq job[w].seen
  BY <1>5
<1>7. PICK j : j = [job[w] EXCEPT !.todo = T]
  OBVIOUS
<1>8. job' = [job EXCEPT ![w] = j]
  <2>1. job' = [job EXCEPT ![w].todo = T]
    BY <1>5 DEF Reconcile
  <2> QED
    BY <1>7, <2>1
<1>9. /\ IsJob(j) /\ j.todo = T /\ j.owner = job[w].owner /\ j.start = job[w].start
      /\ j.end = job[w].end /\ j.outs = job[w].outs /\ j.held = job[w].held
      /\ j.floor = job[w].floor /\ j.seen = job[w].seen
  BY <1>2, <1>7, TodoSet
<1>10. PubJob("swap", j, Pub, Hi)
  BY <1>1, <1>2, <1>6, <1>9 DEF Local, PubJob, Reloaded, Swapping
<1>11. /\ MergeJob("swap", j, Hi) /\ EvictJob("swap", j, Lo, Pub)
       /\ Fenced("swap", j, Held(w), Lo, staging, published, tier)
  BY DEF MergeJob, EvictJob, Fenced
<1>12. "swap" \in Busy \ (Asking \cup Committing) /\ pc[w] \in Busy
  BY <1>1 DEF Busy, Asking, Committing, PC
<1> QED
  BY <1>1, <1>4, <1>8, <1>9, <1>10, <1>11, <1>12, GoesOn

\* A swap that is not owed any more.
LEMMA SkipSwapStep ==
    ASSUME TiersInv, NEW w \in Workers, SkipSwap(w)
    PROVE  TiersInv' /\ Grown
<1>1. /\ Quiet /\ pc[w] = "swap" /\ claims' = claims /\ pc' = pc /\ through' = through
      /\ through' \in Nat /\ through' < Pub
  BY InvFacts DEF SkipSwap, Quiet, tables
<1>2. Local(w) /\ IsJob(job[w]) /\ pc \in [Workers -> PC]
  BY DEF TiersInv, Shaped
<1>3. Go(w, "swap")
  BY <1>1, <1>2 DEF Go
<1>4. PICK T : T = job[w].todo \ {Merged(w)}
  OBVIOUS
<1>5. PICK j : j = [job[w] EXCEPT !.todo = T]
  OBVIOUS
<1>6. job' = [job EXCEPT ![w] = j]
  BY <1>4, <1>5 DEF SkipSwap, TiersInv, Shaped
<1>7. /\ IsJob(j) /\ j.todo = T /\ j.owner = job[w].owner /\ j.start = job[w].start
      /\ j.end = job[w].end /\ j.outs = job[w].outs /\ j.held = job[w].held
      /\ j.floor = job[w].floor /\ j.seen = job[w].seen
  BY <1>2, <1>5, TodoSet
<1>8. T \subseteq job[w].seen
  BY <1>1, <1>2, <1>4 DEF Local, PubJob, Swapping
<1>9. PubJob("swap", j, Pub, Hi)
  BY <1>1, <1>2, <1>7, <1>8 DEF Local, PubJob, Reloaded, Swapping
<1>10. /\ MergeJob("swap", j, Hi) /\ EvictJob("swap", j, Lo, Pub)
       /\ Fenced("swap", j, Held(w), Lo, staging, published, tier)
  BY DEF MergeJob, EvictJob, Fenced
<1>11. "swap" \in Busy \ (Asking \cup Committing) /\ pc[w] \in Busy
  BY <1>1 DEF Busy, Asking, Committing, PC
<1> QED
  BY <1>1, <1>3, <1>6, <1>7, <1>9, <1>10, <1>11, GoesOn

\* The intent of a swap: what it replaces is published.
LEMMA IntendSwapStep ==
    ASSUME TiersInv, NEW w \in Workers, IntendSwap(w)
    PROVE  TiersInv' /\ Grown
<1>1. /\ Quiet /\ pc[w] = "swap" /\ through' = through /\ Checkpoint(w, "swapfence")
      /\ job[w].todo # {} /\ LinesUp(w)
  BY DEF IntendSwap, Quiet, tables
<1>2. Local(w)
  BY DEF TiersInv
<1>3. PICK m : m = First(job[w].todo)
  OBVIOUS
<1>4. m.start \in Nat
  BY <1>1, <1>2, <1>3, SwapFile, InvFacts DEF Local, Swapping
<1>5. PICK f \in job[w].held : f.end > m.start
  BY <1>1, <1>3 DEF LinesUp, Replaced, Merged
<1>6. f.end \in Nat /\ f.end <= Pub
  BY <1>1, <1>2 DEF Local, PubJob, Reloaded, Swapping
<1>7. m.start <= Pub
  BY <1>4, <1>5, <1>6, InvFacts
<1>8. PubJob("swapfence", job[w], Pub, Hi)
  BY <1>1, <1>2, <1>3, <1>7 DEF Local, PubJob, Reloaded, Swapping
<1>9. /\ MergeJob("swapfence", job[w], Hi) /\ EvictJob("swapfence", job[w], Lo, Pub)
      /\ Fenced("swapfence", job[w], TRUE, Lo, staging, published, tier)
  BY DEF MergeJob, EvictJob, Fenced
<1>10. "swapfence" \in Busy \ Asking /\ pc[w] \in Busy
  BY <1>1 DEF Busy, Asking, PC
<1> QED
  BY <1>1, <1>8, <1>9, <1>10, CheckpointStep

\* The checkpoint before a swap commits.
LEMMA FenceSwapStep ==
    ASSUME TiersInv, NEW w \in Workers, FenceSwap(w)
    PROVE  TiersInv' /\ Grown
<1>1. Quiet /\ pc[w] = "swapfence" /\ through' = through /\ Checkpoint(w, "swapcommit")
  BY DEF FenceSwap, Quiet, tables, meta
<1>2. Local(w)
  BY DEF TiersInv
<1>3. PubJob("swapcommit", job[w], Pub, Hi)
  BY <1>1, <1>2 DEF Local, PubJob, Reloaded, Swapping
<1>4. /\ MergeJob("swapcommit", job[w], Hi) /\ EvictJob("swapcommit", job[w], Lo, Pub)
      /\ Fenced("swapcommit", job[w], TRUE, Lo, staging, published, tier)
  BY DEF MergeJob, EvictJob, Fenced
<1>5. "swapcommit" \in Busy \ Asking /\ pc[w] \in Busy
  BY <1>1 DEF Busy, Asking, PC
<1> QED
  BY <1>1, <1>3, <1>4, <1>5, CheckpointStep

\* The watermark moves up to the swapped file's end, which is published.
LEMMA ConfirmSwapStep ==
    ASSUME TiersInv, NEW w \in Workers, ConfirmSwap(w)
    PROVE  TiersInv' /\ Grown
<1>1. /\ Quiet /\ pc[w] = "swapconfirm" /\ claims' = claims /\ Go(w, "swapclear") /\ job' = job
      /\ through' = Max({through, Merged(w).end - 1})
  BY DEF ConfirmSwap, Quiet, tables
<1>2. Local(w)
  BY DEF TiersInv
<1>3. PICK e : e = Merged(w).end
  OBVIOUS
<1>4. e \in Nat /\ e <= Pub /\ job[w].todo # {}
  <2>1. job[w].todo # {} /\ First(job[w].todo).end <= Pub
    BY <1>1, <1>2 DEF Local, PubJob, Swapping
  <2> QED
    BY <1>1, <1>2, <1>3, <2>1, SwapFile, InvFacts DEF Local, Swapping, Merged
<1>5. through' \in Nat /\ through' < Pub
  <2>1. through \in Nat /\ through < Pub /\ Pub \in Nat
    BY InvFacts
  <2>2. through \in Int /\ e - 1 \in Int
    BY <1>4, <2>1
  <2>3. through' = IF through <= e - 1 THEN e - 1 ELSE through
    BY <1>1, <1>3, <2>2, MaxOfTwo
  <2> QED
    BY <1>4, <2>1, <2>3
<1>6. IsJob(job[w]) /\ job' = [job EXCEPT ![w] = job[w]]
  BY <1>1, JobKept DEF TiersInv
<1>7. PubJob("swapclear", job[w], Pub, Hi)
  BY <1>1, <1>2 DEF Local, PubJob, Reloaded, Swapping
<1>8. /\ MergeJob("swapclear", job[w], Hi) /\ EvictJob("swapclear", job[w], Lo, Pub)
      /\ Fenced("swapclear", job[w], Held(w), Lo, staging, published, tier)
  BY DEF MergeJob, EvictJob, Fenced
<1>9. "swapclear" \in Busy \ (Asking \cup Committing) /\ pc[w] \in Busy
  BY <1>1 DEF Busy, Asking, Committing, PC
<1> QED
  BY <1>1, <1>5, <1>6, <1>7, <1>8, <1>9, GoesOn

\* A swap done, the next file.
LEMMA ClearSwapStep ==
    ASSUME TiersInv, NEW w \in Workers, ClearSwap(w)
    PROVE  TiersInv' /\ Grown
<1>1. /\ Quiet /\ pc[w] = "swapclear" /\ claims' = claims /\ Go(w, "swap") /\ through' = through
      /\ through' \in Nat /\ through' < Pub /\ Pub \in Nat
  BY InvFacts DEF ClearSwap, Quiet, tables
<1>2. Local(w) /\ IsJob(job[w])
  BY DEF TiersInv, Shaped
<1>3. PICK e : e = Merged(w).end
  OBVIOUS
<1>4. e \in Nat /\ e <= Pub
  <2>1. job[w].todo # {} /\ First(job[w].todo).end <= Pub
    BY <1>1, <1>2 DEF Local, PubJob, Swapping
  <2> QED
    BY <1>1, <1>2, <1>3, <2>1, SwapFile, InvFacts DEF Local, Swapping, Merged
<1>5. PICK T, n : T = job[w].todo \ {Merged(w)} /\ n = Max({job[w].floor, e})
  OBVIOUS
<1>6. n \in Nat /\ n <= Pub
  <2>1. job[w].floor \in Nat /\ job[w].floor <= Pub
    BY <1>1, <1>2 DEF Local, PubJob, Reloaded, Swapping
  <2>2. n = IF job[w].floor <= e THEN e ELSE job[w].floor
    BY <1>4, <1>5, <2>1, TwoBetween
  <2> QED
    BY <1>4, <2>1, <2>2
<1>7. PICK j1 : j1 = [job[w] EXCEPT !.todo = T]
  OBVIOUS
<1>8. PICK j : j = [j1 EXCEPT !.floor = n]
  OBVIOUS
<1>9. /\ IsJob(j1) /\ j1.todo = T /\ j1.owner = job[w].owner /\ j1.start = job[w].start
      /\ j1.end = job[w].end /\ j1.outs = job[w].outs /\ j1.held = job[w].held
      /\ j1.floor = job[w].floor /\ j1.seen = job[w].seen
  BY <1>2, <1>7, TodoSet
<1>10. /\ IsJob(j) /\ j.todo = T /\ j.owner = job[w].owner /\ j.start = job[w].start
       /\ j.end = job[w].end /\ j.outs = job[w].outs /\ j.held = job[w].held
       /\ j.floor = n /\ j.seen = job[w].seen
  BY <1>8, <1>9, FloorSet
<1>11. job' = [job EXCEPT ![w] = j]
  <2>1. job' = [job EXCEPT ![w].todo = @ \ {Merged(w)}, ![w].floor = Max({@, Merged(w).end})]
    BY DEF ClearSwap
  <2>2. job = [v \in Workers |-> job[v]]
    BY DEF TiersInv, Shaped
  <2> QED
    BY <1>3, <1>5, <1>7, <1>8, <1>9, <2>1, <2>2
<1>12. T \subseteq job[w].seen
  BY <1>1, <1>2, <1>5 DEF Local, PubJob, Swapping
<1>13. PubJob("swap", j, Pub, Hi)
  BY <1>1, <1>2, <1>6, <1>10, <1>12 DEF Local, PubJob, Reloaded, Swapping
<1>14. /\ MergeJob("swap", j, Hi) /\ EvictJob("swap", j, Lo, Pub)
       /\ Fenced("swap", j, Held(w), Lo, staging, published, tier)
  BY DEF MergeJob, EvictJob, Fenced
<1>15. "swap" \in Busy \ (Asking \cup Committing) /\ pc[w] \in Busy
  BY <1>1 DEF Busy, Asking, Committing, PC
<1> QED
  BY <1>1, <1>10, <1>11, <1>13, <1>14, <1>15, GoesOn

\* What is left to push is picked.
LEMMA PickPendingStep ==
    ASSUME TiersInv, NEW w \in Workers, PickPending(w)
    PROVE  TiersInv' /\ Grown
<1>1. /\ Quiet /\ pc[w] = "swap" /\ claims' = claims /\ through' = through /\ job[w].todo = {}
      /\ through' \in Nat /\ through' < Pub /\ Pub \in Nat /\ Hi \in Nat
  BY InvFacts DEF PickPending, Quiet, tables, meta
<1>2. Local(w) /\ IsJob(job[w])
  BY DEF TiersInv, Shaped
<1>19. PICK pending, may, push :
        /\ pending = {f \in job[w].seen : f.end > job[w].floor}
        /\ may = Pushable(job[w].seen, pending, job[w].force)
        /\ push = {f \in may : \A g \in pending : g.start <= f.start => g.end <= job[w].bound}
  OBVIOUS
<1>20. PICK S, n : S = job[w].seen /\ n = job[w].floor
  OBVIOUS
<1>3. /\ S = job[w].seen /\ n = job[w].floor
      /\ pending = {f \in S : f.end > n}
      /\ may = Pushable(S, pending, job[w].force)
      /\ push = {f \in may : \A g \in pending : g.start <= f.start => g.end <= job[w].bound}
  BY <1>19, <1>20
<1>4. IF push = {} THEN Leave(w)
      ELSE /\ job' = [job EXCEPT ![w].todo = push, ![w].seen = {}, ![w].held = {}]
           /\ Go(w, "upload")
  BY <1>19 DEF PickPending
<1>5. CASE push = {}
  BY <1>1, <1>4, <1>5, LeaveStep
<1>6. CASE push # {}
  <2>1. n \in Nat /\ n <= Pub /\ job[w].outs = {} /\ Snapshot(S, Pub, Hi)
    BY <1>1, <1>2, <1>3 DEF Local, PubJob, Reloaded, Swapping
  <2>2. PICK c \in Nat, d \in Nat : Tiled(S, c, d) /\ 1 <= c /\ c <= Pub /\ d <= Hi
    BY <2>1 DEF Snapshot
  <2>3. \A f \in S : f.start \in Nat /\ f.end \in Nat
    BY <2>2 DEF Tiled, Sized
  <2>4. Leading(push, S, n)
    <3>1. ASSUME NEW f \in push PROVE f \in S /\ n < f.end
      BY <1>3, <2>1, <2>3 DEF Pushable
    <3>2. ASSUME NEW f \in push, NEW g \in S, n < g.end, g.start <= f.start PROVE g \in push
      <4>1. g \in pending /\ f \in pending /\ f \in may
        BY <1>3, <2>1, <2>3, <3>1, <3>2
      <4>2. \A h \in pending : h.start <= g.start => h.start <= f.start
        BY <1>3, <2>3, <3>1, <3>2
      <4>3. g \in may
        BY <1>3, <4>1, <4>2 DEF Pushable
      <4> QED
        BY <1>3, <4>1, <4>2, <4>3
    <3> QED
      BY <3>1, <3>2 DEF Leading
  <2>5. PICK x \in Nat, y \in Nat : Tiled(push, x, y) /\ x < y /\ c <= x /\ y <= d /\ (x <= c \/ x <= n)
    BY <1>6, <2>1, <2>2, <2>4, TiledLeading
  <2>6. Tiled({}, x, x)
    BY DEF Tiled, Sized, Disjoint, Filled
  <2>7. 1 <= x /\ x <= Pub /\ y <= Hi
    BY <1>1, <2>1, <2>2, <2>5
  <2>8. Uploading({}, push, Pub, Hi)
    BY <2>5, <2>6, <2>7 DEF Uploading
  <2>9. PICK j1 : j1 = [job[w] EXCEPT !.todo = push]
    OBVIOUS
  <2>10. PICK j2 : j2 = [j1 EXCEPT !.seen = {}]
    OBVIOUS
  <2>11. PICK j : j = [j2 EXCEPT !.held = {}]
    OBVIOUS
  <2>12. job' = [job EXCEPT ![w] = j]
    BY <1>4, <1>6, <2>9, <2>10, <2>11 DEF TiersInv, Shaped
  <2>13. /\ IsJob(j1) /\ j1.todo = push /\ j1.owner = job[w].owner /\ j1.start = job[w].start
         /\ j1.end = job[w].end /\ j1.outs = {}
    BY <1>2, <2>1, <2>9, TodoSet
  <2>14. /\ IsJob(j2) /\ j2.todo = push /\ j2.owner = job[w].owner /\ j2.start = job[w].start
         /\ j2.end = job[w].end /\ j2.outs = {}
    BY <2>10, <2>13, SeenSet
  <2>15. /\ IsJob(j) /\ j.todo = push /\ j.owner = job[w].owner /\ j.start = job[w].start
         /\ j.end = job[w].end /\ j.outs = {}
    BY <2>11, <2>14, HeldSet
  <2>16. PubJob("upload", j, Pub, Hi)
    BY <2>8, <2>15 DEF PubJob, Reloaded, Swapping
  <2>17. /\ MergeJob("upload", j, Hi) /\ EvictJob("upload", j, Lo, Pub)
         /\ Fenced("upload", j, Held(w), Lo, staging, published, tier)
    BY DEF MergeJob, EvictJob, Fenced
  <2>18. "upload" \in Busy \ (Asking \cup Committing) /\ pc[w] \in Busy /\ Go(w, "upload")
    BY <1>1, <1>4, <1>6 DEF Busy, Asking, Committing, PC
  <2> QED
    BY <1>1, <2>12, <2>15, <2>16, <2>17, <2>18, GoesOn
<1> QED
  BY <1>5, <1>6

\* A file is uploaded.
LEMMA UploadStep ==
    ASSUME TiersInv, NEW w \in Workers, Upload(w)
    PROVE  TiersInv' /\ Grown
<1>1. /\ Quiet /\ pc[w] = "upload" /\ claims' = Renewed(claims, job[w].owner, 0, 1)
      /\ through' = through /\ job[w].todo # {}
      /\ through' \in Nat /\ through' < Pub
  BY InvFacts DEF Upload, Quiet, tables
<1>2. Local(w) /\ IsJob(job[w]) /\ pc \in [Workers -> PC]
  BY DEF TiersInv, Shaped
<1>3. CASE ~Held(w)
  BY <1>1, <1>3, LeaveStep DEF Upload
<1>4. CASE Held(w)
  <2>1. Uploading(job[w].outs, job[w].todo, Pub, Hi)
    BY <1>1, <1>2 DEF Local, PubJob
  <2>2. PICK h, O, T : h = First(job[w].todo) /\ O = job[w].outs \cup {h} /\ T = job[w].todo \ {h}
    OBVIOUS
  <2>3. PICK c \in Nat, e \in Nat, d \in Nat :
          /\ Tiled(job[w].outs, c, e) /\ Tiled(job[w].todo, e, d)
          /\ 1 <= c /\ c < d /\ c <= Pub /\ d <= Hi
    BY <2>1 DEF Uploading
  <2>4. Tiled({h}, e, h.end) /\ Tiled(T, h.end, d)
    BY <1>1, <2>2, <2>3, TiledRest
  <2>5. Tiled(O, c, h.end) /\ h.end \in Nat
    <3>1. h.end \in Nat
      BY <2>4 DEF Tiled
    <3> QED
      BY <2>2, <2>3, <2>4, <3>1, TiledJoin
  <2>6. Uploading(O, T, Pub, Hi)
    BY <2>3, <2>4, <2>5 DEF Uploading
  <2>7. PICK j1 : j1 = [job[w] EXCEPT !.todo = T]
    OBVIOUS
  <2>8. PICK j : j = [j1 EXCEPT !.outs = O]
    OBVIOUS
  <2>9. /\ IsJob(j1) /\ j1.todo = T /\ j1.owner = job[w].owner /\ j1.start = job[w].start
        /\ j1.end = job[w].end /\ j1.outs = job[w].outs
    BY <1>2, <2>7, TodoSet
  <2>10. /\ IsJob(j) /\ j.todo = T /\ j.owner = job[w].owner /\ j.start = job[w].start
         /\ j.end = job[w].end /\ j.outs = O
    BY <2>8, <2>9, OutsSet
  <2>11. job' = [job EXCEPT ![w] = j]
    <3>1. job' = [job EXCEPT ![w].todo = @ \ {First(@)}, ![w].outs = @ \cup {Merged(w)}]
      BY <1>4 DEF Upload
    <3>2. job = [v \in Workers |-> job[v]]
      BY DEF TiersInv, Shaped
    <3> QED
      BY <2>2, <2>7, <2>8, <2>9, <3>1, <3>2 DEF Merged
  <2>12. PubJob("upload", j, Pub, Hi)
    BY <2>6, <2>10 DEF PubJob, Reloaded, Swapping
  <2>13. /\ MergeJob("upload", j, Hi) /\ EvictJob("upload", j, Lo, Pub)
         /\ Fenced("upload", j, TRUE, Lo, staging, published, tier)
    BY DEF MergeJob, EvictJob, Fenced
  <2>14. "upload" \in Busy \ Asking /\ pc[w] \in Busy
    BY <1>1 DEF Busy, Asking, PC
  <2>15. Go(w, "upload")
    BY <1>1, <1>2, <1>4 DEF Upload, Go
  <2> QED
    BY <1>1, <1>4, <2>10, <2>11, <2>12, <2>13, <2>14, <2>15, RenewsAndGoesOn
<1> QED
  BY <1>3, <1>4

\* The checkpoint before a push commits.
LEMMA FencePushStep ==
    ASSUME TiersInv, NEW w \in Workers, FencePush(w)
    PROVE  TiersInv' /\ Grown
<1>1. /\ Quiet /\ pc[w] = "upload" /\ through' = through /\ Checkpoint(w, "register")
      /\ job[w].todo = {}
  BY DEF FencePush, Quiet, tables, meta
<1>2. Local(w)
  BY DEF TiersInv
<1>3. PubJob("register", job[w], Pub, Hi)
  BY <1>1, <1>2 DEF Local, PubJob, Reloaded, Swapping
<1>4. /\ MergeJob("register", job[w], Hi) /\ EvictJob("register", job[w], Lo, Pub)
      /\ Fenced("register", job[w], TRUE, Lo, staging, published, tier)
  BY DEF MergeJob, EvictJob, Fenced
<1>5. "register" \in Busy \ Asking /\ pc[w] \in Busy
  BY <1>1 DEF Busy, Asking, PC
<1> QED
  BY <1>1, <1>3, <1>4, <1>5, CheckpointStep

\* The watermark moves up to the push's end, which is published.
LEMMA ConfirmPushStep ==
    ASSUME TiersInv, NEW w \in Workers, ConfirmPush(w)
    PROVE  TiersInv' /\ Grown
<1>1. /\ Quiet /\ pc[w] = "confirm" /\ claims' = claims /\ Leave(w)
      /\ through' = Max({through, Last(job[w].outs).end - 1})
  BY DEF ConfirmPush, Quiet, tables
<1>2. Local(w)
  BY DEF TiersInv
<1>3. Last(job[w].outs).end <= Pub /\ Uploading(job[w].outs, job[w].todo, Pub, Hi) /\ job[w].todo = {}
  BY <1>1, <1>2 DEF Local, PubJob
<1>4. PICK c \in Nat, e \in Nat : Last(job[w].outs).end = e
  BY <1>3, UploadedFiles, InvFacts
<1>5. through' \in Nat /\ through' < Pub
  <2>1. through \in Nat /\ through < Pub /\ Pub \in Nat
    BY InvFacts
  <2>2. through \in Int /\ e - 1 \in Int
    BY <1>4, <2>1
  <2>3. through' = IF through <= e - 1 THEN e - 1 ELSE through
    BY <1>1, <1>4, <2>2, MaxOfTwo
  <2> QED
    BY <1>3, <1>4, <2>1, <2>3
<1> QED
  BY <1>1, <1>5, LeaveStep

\* An eviction picks what it takes out.
LEMMA DecideEvictStep ==
    ASSUME TiersInv, NEW w \in Workers, DecideEvict(w)
    PROVE  TiersInv' /\ Grown
<1>1. /\ Quiet /\ pc[w] = "decide" /\ claims' = claims /\ through' = through
      /\ through' \in Nat /\ through' < Pub /\ through \in Nat /\ through < Pub
  BY InvFacts DEF DecideEvict, Quiet, tables, meta
<1>2. Local(w) /\ IsJob(job[w]) /\ Holding(w)
  BY DEF TiersInv, Shaped, Claimed
<1>7. PICK keep : keep = IF job[w].force THEN {}
                  ELSE (staging \ Settled(staging)) \cup {f \in staging : f.path \in owed}
  OBVIOUS
<1>8. PICK limit :
        limit = Min({job[w].end, ReachOf(CoveredPrefix(staging, Landed))} \cup {f.start : f \in keep})
  OBVIOUS
<1>9. PICK b : b = ReachOf({f \in staging : f.end <= limit})
  OBVIOUS
<1>10. PICK G : G = {f \in staging : f.end <= b}
  OBVIOUS
<1>4. IF b = 0 THEN Leave(w)
      ELSE job' = [job EXCEPT ![w].floor = b, ![w].seen = G] /\ Go(w, "widen")
  BY <1>7, <1>8, <1>9, <1>10 DEF DecideEvict
<1>11. PICK r : r = ReachOf(CoveredPrefix(staging, Landed))
  OBVIOUS
<1>12. PICK L : L = {job[w].end, r} \cup {f.start : f \in keep}
  OBVIOUS
<1>13. PICK B : B = {f \in staging : f.end <= limit}
  OBVIOUS
<1>3. /\ r = ReachOf(CoveredPrefix(staging, Landed))
      /\ L = {job[w].end, r} \cup {f.start : f \in keep}
      /\ limit = Min(L)
      /\ B = {f \in staging : f.end <= limit}
      /\ b = ReachOf(B)
      /\ G = {f \in staging : f.end <= b}
  BY <1>8, <1>9, <1>10, <1>11, <1>12, <1>13
<1>5. CASE b = 0
  BY <1>1, <1>4, <1>5, LeaveStep
<1>6. CASE b # 0
  <2>1. /\ Lo \in Nat /\ Pub \in Nat /\ Hi \in Nat /\ Tiled(staging, Lo, Hi)
        /\ Sized(staging, Lo, Hi) /\ Disjoint(staging)
    BY InvFacts DEF Tiled
  <2>2. \A f \in staging : f.start \in Nat /\ f.end \in Nat /\ f.start < f.end /\ f.end <= Hi
    BY <2>1 DEF Sized
  <2>3. r \in Nat /\ r <= through + 1
    BY <1>1, <1>3, <2>1, CoveredEnds DEF Landed
  <2>4. job[w].end \in Nat /\ job[w].start = 0
    BY <1>1, <1>2 DEF Holding, Busy, PC, Local, EvictJob
  <2>5. keep \subseteq staging
    BY <1>7
  <2>6. L \subseteq Nat /\ L # {} /\ job[w].end \in L /\ r \in L
    BY <1>3, <2>2, <2>3, <2>4, <2>5
  <2>7. limit \in Nat /\ limit <= job[w].end /\ limit <= through + 1
    <3>1. limit \in L /\ \A y \in L : limit <= y
      <4>1. limit = Min(L)
        BY <1>3
      <4> QED
        BY <2>6, <4>1, MinOfNaturals
    <3>2. limit \in Nat /\ limit <= job[w].end /\ limit <= r
      BY <2>6, <3>1
    <3> QED
      BY <1>1, <2>3, <3>2
  <2>8. PICK f \in B : f.end = b
    <3>1. \A g \in B : g.end \in Nat /\ g.end <= limit
      BY <1>3, <2>2
    <3>2. b = ReachOf(B)
      BY <1>3
    <3> QED
      BY <1>6, <2>7, <3>1, <3>2, ReachFacts
  <2>9. f \in staging /\ b \in Nat /\ 1 <= b /\ b <= job[w].end /\ b <= Pub /\ f \in G
    <3>1. f \in staging /\ f.end <= limit /\ f.end \in Nat
      BY <1>3, <2>2
    <3>2. b \in Nat /\ 1 <= b /\ b <= limit
      BY <1>6, <2>7, <2>8, <3>1
    <3>3. f \in G
      BY <1>3, <2>8, <3>1, <3>2
    <3> QED
      BY <1>1, <2>1, <2>4, <2>7, <3>1, <3>2, <3>3
  <2>10. ReachOf(G) = b
    <3>1. \A g \in G : g.end \in Nat /\ g.end <= b
      BY <1>3, <2>2
    <3>2. PICK q : q = ReachOf(G)
      OBVIOUS
    <3>3. q \in Nat /\ q <= b /\ \A g \in G : g.end <= q
      BY <2>9, <3>1, <3>2, ReachFacts
    <3> QED
      BY <2>8, <2>9, <3>2, <3>3
  <2>11. PICK h \in staging : h = First(staging) /\ h.start = Lo
    BY <2>1, <2>9, TiledFirst
  <2>12. h.start <= f.start
    BY <2>1, <2>9, <2>11 DEF Sized
  <2>13. h.end <= f.end
    BY <2>1, <2>2, <2>9, <2>11, <2>12 DEF Disjoint
  <2>14. h \in G /\ \A g \in G : g.start \in Nat
    BY <1>3, <2>2, <2>8, <2>11, <2>13
  <2>15. First(G).start \in Nat /\ First(G).start <= Lo
    <3>1. First(G) \in G /\ \A g \in G : First(G).start <= g.start
      BY <2>14, FirstIs
    <3> QED
      BY <2>11, <2>14, <3>1
  <2>16. PICK j1 : j1 = [job[w] EXCEPT !.floor = b]
    OBVIOUS
  <2>17. PICK j : j = [j1 EXCEPT !.seen = G]
    OBVIOUS
  <2>18. /\ IsJob(j1) /\ j1.floor = b /\ j1.owner = job[w].owner /\ j1.start = job[w].start
         /\ j1.end = job[w].end
    BY <1>2, <2>16, FloorSet
  <2>19. /\ IsJob(j) /\ j.floor = b /\ j.owner = job[w].owner /\ j.start = job[w].start
         /\ j.end = job[w].end /\ j.seen = G
    BY <2>17, <2>18, SeenSet
  <2>20. job' = [job EXCEPT ![w] = j] /\ Go(w, "widen")
    BY <1>4, <1>6, <2>16, <2>17 DEF TiersInv, Shaped
  <2>21. EvictJob("widen", j, Lo, Pub)
    BY <2>4, <2>9, <2>10, <2>15, <2>19 DEF EvictJob
  <2>22. /\ MergeJob("widen", j, Hi) /\ PubJob("widen", j, Pub, Hi)
         /\ Fenced("widen", j, Held(w), Lo, staging, published, tier)
    BY DEF MergeJob, PubJob, Fenced, Reloaded, Swapping
  <2>23. "widen" \in Busy \ (Asking \cup Committing) /\ pc[w] \in Busy
    BY <1>1 DEF Busy, Asking, Committing, PC
  <2> QED
    BY <1>1, <2>19, <2>20, <2>21, <2>22, <2>23, GoesOn
<1> QED
  BY <1>5, <1>6

-----------------------------------------------------------------------------
(***************************************************************************)
(* Steps on the tables, under a claim that no other worker's overlaps.     *)
(***************************************************************************)

\* Two workers that both hold a claim work on different ranges.
LEMMA ClaimsApart ==
    ASSUME Claimed, NEW v \in Workers, NEW w \in Workers, v # w,
           pc[v] \in Busy, pc[w] \in Busy, Held(v), Held(w)
    PROVE  job[w].end <= job[v].start \/ job[v].end <= job[w].start
<1>1. PICK r \in claims, s \in claims : r.owner = job[v].owner /\ s.owner = job[w].owner
  BY DEF Held, HasRow
<1>2. /\ Holding(v) /\ Holding(w) /\ RowSet(claims)
      /\ (job[v].owner = 0 \/ job[v].owner # job[w].owner)
  BY DEF Claimed, OwnersApart
<1>3. /\ r.start = job[v].start /\ r.end = job[v].end
      /\ s.start = job[w].start /\ s.end = job[w].end
      /\ job[v].start \in Nat /\ job[v].end \in Nat
      /\ job[w].start \in Nat /\ job[w].end \in Nat
  BY <1>1, <1>2 DEF Holding
<1>4. r.owner # 0
  BY <1>2 DEF RowSet, Row
<1>5. r # s
  BY <1>1, <1>2, <1>4
<1>6. ~Overlap(r, s)
  BY <1>2, <1>5 DEF RowSet
<1> QED
  BY <1>3, <1>6 DEF Overlap

\* A worker about to commit holds its claim.
LEMMA CommittingHolds ==
    ASSUME Claimed, NEW w \in Workers, pc[w] \in Committing
    PROVE  Held(w) /\ pc[w] \in Busy
BY DEF Claimed, Holding, Held, HasRow, Committing, Busy, PC

\* Next to it, nobody holds the whole log.
LEMMA NotAllTaken ==
    ASSUME Claimed, NEW v \in Workers, NEW w \in Workers, v # w,
           pc[v] \in Busy, pc[w] \in Busy, Held(v), Held(w), job[v].start = 0
    PROVE  job[v].end # Everything /\ job[w].start # 0
<1>1. job[w].end <= 0 \/ job[v].end <= job[w].start
  BY ClaimsApart
<1>2. /\ job[w].start \in Nat /\ job[w].end \in Nat /\ job[w].start < job[w].end
      /\ job[w].end <= Everything /\ job[v].end \in Nat /\ 0 < job[v].end
  BY DEF Claimed, Holding
<1>3. Everything \in Nat
  BY TiersAssumption DEF Everything
<1> QED
  BY <1>1, <1>2, <1>3

\* A worker's step on the tables.
LEMMA TableStep ==
    ASSUME TiersInv, NEW w \in Workers, Shaped', Claimed', Others(w),
           NEW l, NEW p, NEW t, InLine(staging', published', l, p, t),
           Lo <= l, Pub <= p, Hi <= t,
           through' \in Nat, through' < p, p..MaxOffset \subseteq buffer', Rowed',
           MergeJob(pc'[w], job'[w], t), PubJob(pc'[w], job'[w], p, t),
           EvictJob(pc'[w], job'[w], l, p),
           Fenced(pc'[w], job'[w], Held(w)', l, staging', published', tier'),
           \A v \in Workers : v # w => Fenced(pc[v], job[v], Held(v)', l, staging', published', tier')
    PROVE  TiersInv' /\ Grown
<1>1. Lo' = l /\ Pub' = p /\ Hi' = t /\ l \in Nat /\ p \in Nat /\ t \in Nat
  BY EndsAre DEF Lo, Pub, Hi
<1>2. Geometry'
  BY <1>1 DEF Geometry
<1>3. Local(w)'
  BY <1>1 DEF Local
<1>4. ASSUME NEW v \in Workers, v # w PROVE Local(v)'
  <2>1. pc'[v] = pc[v] /\ job'[v] = job[v]
    BY <1>4 DEF Others
  <2> QED
    BY <1>1, <1>4, <2>1, OthersLast
<1>5. Grown
  BY <1>1 DEF Grown
<1> QED
  BY <1>2, <1>3, <1>4, <1>5 DEF TiersInv

\* A step on the tables that is no worker's.
LEMMA WorldStep ==
    ASSUME TiersInv, pc' = pc, job' = job, Claimed',
           NEW l, NEW p, NEW t, InLine(staging', published', l, p, t),
           Lo <= l, Pub <= p, Hi <= t,
           through' \in Nat, through' < p, p..MaxOffset \subseteq buffer', Rowed',
           \A v \in Workers : Fenced(pc[v], job[v], Held(v)', l, staging', published', tier')
    PROVE  TiersInv' /\ Grown
<1>1. Lo' = l /\ Pub' = p /\ Hi' = t /\ l \in Nat /\ p \in Nat /\ t \in Nat
  BY EndsAre DEF Lo, Pub, Hi
<1>2. Geometry'
  BY <1>1 DEF Geometry
<1>3. ASSUME NEW v \in Workers PROVE Local(v)'
  BY <1>1, <1>3, OthersLast
<1>4. Shaped'
  BY DEF TiersInv, Shaped
<1>5. Grown
  BY <1>1 DEF Grown
<1> QED
  BY <1>2, <1>3, <1>4, <1>5 DEF TiersInv

\* The claims in a step that is no worker's.
LEMMA WorldClaims ==
    ASSUME Claimed, pc' = pc, job' = job, RowSet(claims'), From(claims', claims),
           \A v \in Workers : pc[v] \in Committing =>
              \E r \in claims' : r.owner = job[v].owner /\ r.expires = 1
    PROVE  Claimed' /\ \A v \in Workers : Held(v)' => Held(v)
<1>1. OwnersApart'
  BY DEF Claimed, OwnersApart
<1>2. ASSUME NEW v \in Workers PROVE Holding(v)' /\ (Held(v)' => Held(v))
  <2>1. Holding(v)
    BY DEF Claimed
  <2>2. Held(v)' => Held(v)
    BY DEF Held, HasRow, From, Alike
  <2>3. ASSUME pc[v] \in Busy, NEW r \in claims', r.owner = job[v].owner
        PROVE  r.start = job[v].start /\ r.end = job[v].end
    <3>1. PICK s \in claims : Alike(r, s)
      BY DEF From
    <3> QED
      BY <2>1, <2>3, <3>1 DEF Alike, Holding
  <2>4. Holding(v)'
    BY <2>1, <2>2, <2>3 DEF Holding
  <2> QED
    BY <2>2, <2>4
<1> QED
  BY <1>1, <1>2 DEF Claimed

\* The merge lands.
LEMMA CommitMergeStep ==
    ASSUME TiersInv, NEW w \in Workers, CommitMerge(w)
    PROVE  TiersInv' /\ Grown
<1>1. /\ pc[w] = "mergecommit" /\ pc' = [pc EXCEPT ![w] = "mergeread"] /\ job' = job
      /\ staging' = Without(staging, job[w].start, job[w].end) \cup job[w].outs
      /\ UNCHANGED <<buffer, published, through, tier, claims>>
  BY DEF CommitMerge, Go, meta
<1>2. Local(w) /\ Claimed /\ Shaped /\ Geometry /\ Rowed
  BY DEF TiersInv
<1>3. /\ Lo \in Nat /\ Pub \in Nat /\ Hi \in Nat
      /\ 1 <= Lo /\ Lo <= Pub /\ Pub <= Hi /\ Hi <= MaxOffset + 1
      /\ Tiled(staging, Lo, Hi) /\ Tiled(published, 1, Pub)
      /\ through \in Nat /\ through < Pub
  BY InvFacts
<1>4. pc[w] \in Committing /\ "mergeread" \in PC /\ "mergeread" \in Busy \ (Asking \cup Committing)
  BY <1>1 DEF Committing, Busy, Asking, PC
<1>5. Held(w) /\ pc[w] \in Busy
  BY <1>2, <1>4, CommittingHolds
<1>6. PICK s, e, O : s = job[w].start /\ e = job[w].end /\ O = job[w].outs
  OBVIOUS
<1>7. s \in Nat /\ e \in Nat /\ s < e /\ e <= Hi /\ Tiled(O, s, e) /\ Lo <= s
  <2>1. s \in Nat /\ e \in Nat /\ s < e
    BY <1>2, <1>5, <1>6 DEF Claimed, Holding
  <2>2. e <= Hi /\ Tiled(O, s, e)
    BY <1>1, <1>2, <1>6 DEF Local, MergeJob
  <2>3. Lo <= s
    BY <1>1, <1>2, <1>5, <1>6 DEF Local, Fenced
  <2> QED
    BY <2>1, <2>2, <2>3
<1>8. Tiled(staging', Lo, Hi)
  <2>1. s <= Hi
    BY <1>3, <1>7
  <2>2. Tiled(Without(staging, s, e) \cup O, Lo, IF e <= Hi THEN Hi ELSE e)
    BY <1>3, <1>7, <2>1, TiledReplace
  <2> QED
    BY <1>1, <1>6, <1>7, <2>2
<1>9. InLine(staging', published', Lo, Pub, Hi)
  BY <1>1, <1>3, <1>8 DEF InLine
<1>10. Shaped' /\ Others(w) /\ pc'[w] = "mergeread" /\ job'[w] = job[w]
  BY <1>1, <1>2, <1>4, Labelled
<1>11. SameClaim(w)
  BY <1>10 DEF SameClaim
<1>12. Claimed' /\ \A v \in Workers : v # w => (Held(v)' => Held(v))
  BY <1>1, <1>2, <1>4, <1>5, <1>10, <1>11, Proceeds
<1>13. ASSUME NEW v \in Workers, v # w
       PROVE  Fenced(pc[v], job[v], Held(v)', Lo, staging', published', tier')
  <2>1. Fenced(pc[v], job[v], Held(v), Lo, staging, published, tier)
    BY DEF TiersInv, Local
  <2>2. Held(v)' = Held(v)
    BY <1>1, <1>10, <1>13 DEF Held, Others
  <2>3. pc[v] = "rowwrite" => ~Held(v)
    <3>1. pc[v] = "rowwrite" => pc[v] \in Busy /\ job[v].start = 0 /\ job[v].end = Everything
      BY <2>1 DEF Fenced, Busy, PC
    <3> QED
      BY <1>2, <1>5, <1>13, <3>1, NotAllTaken
  <2> QED
    BY <1>1, <2>1, <2>2, <2>3 DEF Fenced
<1>14. Rowed'
  <2>1. Lo' = Lo
    BY <1>9, EndsAre DEF Lo
  <2> QED
    BY <1>1, <1>2, <2>1 DEF Rowed
<1>15. /\ MergeJob("mergeread", job[w], Hi) /\ PubJob("mergeread", job[w], Pub, Hi)
       /\ EvictJob("mergeread", job[w], Lo, Pub)
       /\ Fenced("mergeread", job[w], Held(w)', Lo, staging', published', tier')
  BY DEF MergeJob, PubJob, EvictJob, Fenced, Reloaded, Swapping
<1>16. Pub..MaxOffset \subseteq buffer' /\ through' \in Nat /\ through' < Pub
  BY <1>1, <1>2, <1>3 DEF Geometry
<1>17. Lo <= Lo /\ Pub <= Pub /\ Hi <= Hi
  BY <1>3
<1> QED
  BY <1>9, <1>10, <1>12, <1>13, <1>14, <1>15, <1>16, <1>17, TableStep

\* The others, when the published table changes under a claim.
LEMMA FencedBesidePublish ==
    ASSUME TiersInv, NEW w \in Workers, Held(w), pc[w] \in Busy, Others(w), claims' = claims,
           staging' = staging, tier' = tier, NEW v \in Workers, v # w
    PROVE  Fenced(pc[v], job[v], Held(v)', Lo, staging', published', tier')
<1>1. Fenced(pc[v], job[v], Held(v), Lo, staging, published, tier) /\ Claimed
  BY DEF TiersInv, Local
<1>2. Held(v)' = Held(v)
  BY DEF Held, Others
<1>3. pc[v] \in {"row", "rowwrite"} => ~Held(v)
  <2>1. pc[v] \in {"row", "rowwrite"} => pc[v] \in Busy /\ job[v].start = 0 /\ job[v].end = Everything
    BY <1>1 DEF Fenced, Busy, PC
  <2> QED
    BY <1>1, <2>1, NotAllTaken
<1> QED
  BY <1>1, <1>2, <1>3 DEF Fenced

\* The published table grows or is rewritten, up to p.
LEMMA PublishStep ==
    ASSUME TiersInv, NEW w \in Workers, NEW k \in Busy \ (Asking \cup Committing),
           pc[w] \in Committing, pc' = [pc EXCEPT ![w] = k], job' = job, claims' = claims,
           staging' = staging, buffer' = buffer, tier' = tier, through' = through,
           NEW p \in Nat, Pub <= p, p <= Hi, Tiled(published', 1, p),
           MergeJob(k, job[w], Hi), PubJob(k, job[w], p, Hi), EvictJob(k, job[w], Lo, p),
           Fenced(k, job[w], Held(w), Lo, staging, published', tier)
    PROVE  TiersInv' /\ Grown
<1>1. Local(w) /\ Claimed /\ Shaped /\ Geometry /\ Rowed
  BY DEF TiersInv
<1>2. /\ Lo \in Nat /\ Pub \in Nat /\ Hi \in Nat /\ MaxOffset \in Nat
      /\ 1 <= Lo /\ Lo <= Pub /\ Pub <= Hi /\ Hi <= MaxOffset + 1
      /\ Tiled(staging, Lo, Hi) /\ through \in Nat /\ through < Pub
  BY InvFacts
<1>3. Held(w) /\ pc[w] \in Busy
  BY <1>1, CommittingHolds
<1>4. InLine(staging', published', Lo, p, Hi)
  BY <1>2 DEF InLine
<1>5. k \in PC
  BY DEF Busy
<1>6. Shaped' /\ Others(w) /\ pc'[w] = k /\ job'[w] = job[w]
  BY <1>1, <1>5, Labelled
<1>7. SameClaim(w)
  BY <1>6 DEF SameClaim
<1>8. Claimed' /\ \A v \in Workers : v # w => (Held(v)' => Held(v))
  BY <1>1, <1>3, <1>6, <1>7, Proceeds
<1>9. \A v \in Workers : v # w => Fenced(pc[v], job[v], Held(v)', Lo, staging', published', tier')
  BY <1>3, <1>6, FencedBesidePublish
<1>10. Rowed'
  <2>1. Lo' = Lo
    BY <1>4, EndsAre DEF Lo
  <2> QED
    BY <1>1, <2>1 DEF Rowed
<1>11. p..MaxOffset \subseteq buffer' /\ through' \in Nat /\ through' < p
  BY <1>1, <1>2 DEF Geometry
<1>12. Held(w)' = Held(w)
  BY <1>6 DEF Held
<1>13. Lo <= Lo /\ Hi <= Hi
  BY <1>2
<1>14. Fenced(pc'[w], job'[w], Held(w)', Lo, staging', published', tier')
  BY <1>6, <1>12
<1> QED
  BY <1>4, <1>6, <1>8, <1>9, <1>10, <1>11, <1>13, <1>14, TableStep

\* The swap lands.
LEMMA CommitSwapStep ==
    ASSUME TiersInv, NEW w \in Workers, CommitSwap(w)
    PROVE  TiersInv' /\ Grown
<1>1. /\ pc[w] = "swapcommit" /\ pc' = [pc EXCEPT ![w] = "swapconfirm"] /\ job' = job
      /\ published' = Without(published, Merged(w).start, Merged(w).end) \cup {Merged(w)}
      /\ UNCHANGED <<buffer, staging, through, tier, claims>>
  BY DEF CommitSwap, Go, meta
<1>2. Local(w)
  BY DEF TiersInv
<1>3. Pub \in Nat /\ Hi \in Nat /\ Pub <= Hi /\ Tiled(published, 1, Pub)
  BY InvFacts
<1>4. PICK m, s, e : m = Merged(w) /\ s = m.start /\ e = m.end
  OBVIOUS
<1>5. job[w].todo # {} /\ s <= Pub
  BY <1>1, <1>2, <1>4 DEF Local, PubJob, Swapping, Merged
<1>6. s \in Nat /\ e \in Nat /\ 1 <= s /\ s < e /\ e <= Hi
  BY <1>1, <1>2, <1>3, <1>4, <1>5, SwapFile DEF Local, Swapping, Merged
<1>7. PICK p \in Nat : p = IF e <= Pub THEN Pub ELSE e
  BY <1>3, <1>6
<1>8. Tiled(published', 1, p)
  <2>1. Tiled({m}, s, e)
    BY <1>4, <1>6, TiledOne
  <2>2. Tiled(Without(published, s, e) \cup {m}, 1, p)
    BY <1>3, <1>5, <1>6, <1>7, <2>1, TiledReplace
  <2> QED
    BY <1>1, <1>4, <2>2
<1>9. Pub <= p /\ p <= Hi /\ e <= p
  BY <1>3, <1>6, <1>7
<1>10. PubJob("swapconfirm", job[w], p, Hi)
  <2>1. PubJob("swapcommit", job[w], Pub, Hi)
    BY <1>1, <1>2 DEF Local
  <2>2. Snapshot(job[w].seen, p, Hi)
    BY <1>3, <1>9, <2>1 DEF PubJob, Reloaded, Swapping, Snapshot
  <2>3. /\ job[w].floor \in Nat /\ job[w].floor <= p
        /\ \A f \in job[w].held : f.start \in Nat /\ f.end \in Nat /\ f.end <= p
    BY <1>3, <1>9, <2>1 DEF PubJob, Reloaded, Swapping
  <2>4. job[w].outs = {} /\ job[w].todo \subseteq job[w].seen /\ First(job[w].todo).end <= p
    BY <1>4, <1>9, <2>1 DEF PubJob, Reloaded, Swapping, Merged
  <2> QED
    BY <1>5, <2>2, <2>3, <2>4 DEF PubJob, Reloaded, Swapping
<1>11. /\ MergeJob("swapconfirm", job[w], Hi) /\ EvictJob("swapconfirm", job[w], Lo, p)
       /\ Fenced("swapconfirm", job[w], Held(w), Lo, staging, published', tier)
  BY DEF MergeJob, EvictJob, Fenced
<1>12. pc[w] \in Committing /\ "swapconfirm" \in Busy \ (Asking \cup Committing)
  BY <1>1 DEF Committing, Busy, Asking, PC
<1> QED
  BY <1>1, <1>8, <1>9, <1>10, <1>11, <1>12, PublishStep

\* The push lands, or the published table has no use for it.
LEMMA RegisterPushStep ==
    ASSUME TiersInv, NEW w \in Workers, RegisterPush(w)
    PROVE  TiersInv' /\ Grown
<1>1. /\ pc[w] = "register"
      /\ UNCHANGED <<buffer, staging, through, tier, claims>>
  BY DEF RegisterPush, meta
<1>2. Local(w)
  BY DEF TiersInv
<1>3. /\ Pub \in Nat /\ Hi \in Nat /\ Pub <= Hi /\ Tiled(published, 1, Pub)
      /\ through \in Nat /\ through < Pub
  BY InvFacts
<1>4. CASE PublishedEnd >= Last(job[w].outs).end \/ Refused(w)
  <2>1. Leave(w) /\ Quiet
    BY <1>1, <1>4 DEF RegisterPush, Quiet
  <2> QED
    BY <1>1, <1>3, <2>1, LeaveStep
<1>5. CASE ~(PublishedEnd >= Last(job[w].outs).end \/ Refused(w))
  <2>1. /\ published' = published \cup job[w].outs /\ job' = job
        /\ pc' = [pc EXCEPT ![w] = "confirm"]
    BY <1>5 DEF RegisterPush, Go
  <2>2. Uploading(job[w].outs, job[w].todo, Pub, Hi) /\ job[w].todo = {}
    BY <1>1, <1>2 DEF Local, PubJob
  <2>3. PICK c \in Nat, d \in Nat :
          /\ Tiled(job[w].outs, c, d) /\ 1 <= c /\ c < d /\ c <= Pub /\ d <= Hi
          /\ First(job[w].outs).start = c /\ Last(job[w].outs).end = d
    BY <1>3, <2>2, UploadedFiles
  <2>4. PICK e : e = PublishedEnd
    OBVIOUS
  <2>5. e \in Nat /\ (published # {} => e = Pub) /\ (published = {} => Pub = 1)
    <3>1. \A f \in published : f.end \in Nat /\ f.end <= Pub
      BY <1>3 DEF Tiled, Sized
    <3>2. e \in Nat
      BY <1>3, <2>4, <3>1, ReachFacts DEF PublishedEnd
    <3> QED
      BY <2>4, <3>2 DEF Pub, PubOf, PublishedEnd
  <2>6. e < d /\ e <= c
    BY <1>5, <2>3, <2>4, <2>5 DEF Refused
  <2>7. c = Pub
    BY <1>3, <2>3, <2>5, <2>6
  <2>8. Tiled(published', 1, d)
    BY <1>3, <2>1, <2>3, <2>7, TiledJoin
  <2>9. Uploading(job[w].outs, job[w].todo, d, Hi)
    <3>1. Tiled({}, d, d)
      BY DEF Tiled, Sized, Disjoint, Filled
    <3>2. c <= d
      BY <2>3
    <3> QED
      BY <2>2, <2>3, <3>1, <3>2 DEF Uploading
  <2>10. PubJob("confirm", job[w], d, Hi)
    BY <2>2, <2>3, <2>9 DEF PubJob, Reloaded, Swapping
  <2>11. /\ MergeJob("confirm", job[w], Hi) /\ EvictJob("confirm", job[w], Lo, d)
         /\ Fenced("confirm", job[w], Held(w), Lo, staging, published', tier)
    BY DEF MergeJob, EvictJob, Fenced
  <2>12. pc[w] \in Committing /\ "confirm" \in Busy \ (Asking \cup Committing)
    BY <1>1 DEF Committing, Busy, Asking, PC
  <2>13. Pub <= d
    BY <2>3, <2>7
  <2> QED
    BY <1>1, <2>1, <2>3, <2>8, <2>10, <2>11, <2>12, <2>13, PublishStep
<1> QED
  BY <1>4, <1>5

\* The eviction lands.
LEMMA CommitEvictStep ==
    ASSUME TiersInv, NEW w \in Workers, CommitEvict(w)
    PROVE  TiersInv' /\ Grown
<1>1. /\ pc[w] = "evictcommit" /\ Leave(w)
      /\ staging' = Without(staging, 0, job[w].floor)
      /\ UNCHANGED <<buffer, published, through, tier, claims>>
  BY DEF CommitEvict, meta
<1>2. Local(w) /\ Claimed /\ Shaped /\ Geometry /\ Rowed
  BY DEF TiersInv
<1>3. /\ Lo \in Nat /\ Pub \in Nat /\ Hi \in Nat /\ MaxOffset \in Nat
      /\ 1 <= Lo /\ Lo <= Pub /\ Pub <= Hi /\ Hi <= MaxOffset + 1
      /\ Tiled(staging, Lo, Hi) /\ Tiled(published, 1, Pub) /\ through \in Nat /\ through < Pub
  BY InvFacts
<1>4. pc[w] \in Committing /\ pc[w] # "idle"
  BY <1>1 DEF Committing
<1>5. Held(w) /\ pc[w] \in Busy
  BY <1>2, <1>4, CommittingHolds
<1>6. PICK n \in Nat : n = job[w].floor /\ n <= Pub /\ n <= job[w].end /\ job[w].start = 0
  BY <1>1, <1>2 DEF Local, EvictJob
<1>7. job[w].end \in Nat
  BY <1>2, <1>5 DEF Claimed, Holding
<1>8. PICK l \in Nat : l = IF Lo <= n THEN n ELSE Lo
  BY <1>3
<1>9. Tiled(staging', l, Hi)
  <2>1. n <= Hi
    BY <1>3, <1>6
  <2>2. Tiled(Without(staging, 0, n), l, Hi)
    BY <1>3, <1>8, <2>1, TiledDrop
  <2> QED
    BY <1>1, <1>6, <2>2
<1>10. InLine(staging', published', l, Pub, Hi)
  BY <1>1, <1>3, <1>6, <1>8, <1>9 DEF InLine
<1>11. PICK j : j = [NoJob EXCEPT !.owner = job[w].owner]
  OBVIOUS
<1>12. IsJob(j) /\ j.owner = job[w].owner
  BY <1>11, LeftJobIs
<1>13. Shaped' /\ Others(w) /\ pc'[w] = "release" /\ job'[w] = j
  BY <1>1, <1>2, <1>11, <1>12, Stepped DEF Leave, Go, PC
<1>14. Claimed' /\ \A v \in Workers : v # w => (Held(v)' => Held(v))
  BY <1>1, <1>2, <1>4, <1>12, <1>13, Leaves
<1>15. ASSUME NEW v \in Workers, v # w
       PROVE  Fenced(pc[v], job[v], Held(v)', l, staging', published', tier')
  <2>1. Fenced(pc[v], job[v], Held(v), Lo, staging, published, tier) /\ EvictJob(pc[v], job[v], Lo, Pub)
    BY DEF TiersInv, Local
  <2>2. Held(v)' = Held(v)
    BY <1>1, <1>13, <1>15 DEF Held, Others
  <2>3. ASSUME pc[v] \in {"merge", "mergefence", "mergecommit"}, Held(v) PROVE l <= job[v].start
    <3>1. pc[v] \in Busy
      BY <2>3 DEF Busy, PC
    <3>2. job[v].start \in Nat /\ job[v].end \in Nat /\ job[v].start < job[v].end
      BY <1>2, <3>1 DEF Claimed, Holding
    <3>3. job[w].end <= job[v].start \/ job[v].end <= job[w].start
      BY <1>2, <1>5, <1>15, <2>3, <3>1, ClaimsApart
    <3>4. job[w].end <= job[v].start
      BY <1>6, <3>2, <3>3
    <3>5. Lo <= job[v].start
      BY <2>1, <2>3 DEF Fenced
    <3> QED
      BY <1>6, <1>7, <1>8, <3>2, <3>4, <3>5
  <2>4. pc[v] # "evictcommit"
    <3> SUFFICES ASSUME pc[v] = "evictcommit" PROVE FALSE
      OBVIOUS
    <3>1. job[v].start = 0 /\ pc[v] \in Committing
      BY <2>1 DEF EvictJob, Committing
    <3>2. Held(v) /\ pc[v] \in Busy
      BY <1>2, <3>1, CommittingHolds
    <3> QED
      BY <1>2, <1>5, <1>6, <1>15, <3>1, <3>2, NotAllTaken
  <2>5. pc[v] \in {"row", "rowwrite"} => ~Held(v)
    <3>1. pc[v] \in {"row", "rowwrite"} => pc[v] \in Busy /\ job[v].start = 0 /\ job[v].end = Everything
      BY <2>1 DEF Fenced, Busy, PC
    <3> QED
      BY <1>2, <1>5, <1>15, <3>1, NotAllTaken
  <2> QED
    BY <1>1, <2>1, <2>2, <2>3, <2>4, <2>5 DEF Fenced
<1>16. Rowed'
  <2>1. Lo' = l
    BY <1>10, EndsAre DEF Lo
  <2>2. tier.has => (Lo = 1 => tier.start <= 1) /\ n <= tier.end
    BY <1>1, <1>2, <1>6 DEF Local, Fenced
  <2>3. tier.has => Lo = 1 \/ (tier.start <= 1 /\ Lo <= tier.end)
    BY <1>2 DEF Rowed
  <2>4. tier.has => l = 1 \/ (tier.start <= 1 /\ l <= tier.end)
    BY <1>3, <1>6, <1>8, <2>2, <2>3
  <2> QED
    BY <1>1, <1>2, <2>1, <2>4 DEF Rowed
<1>17. Pub..MaxOffset \subseteq buffer' /\ through' \in Nat /\ through' < Pub
  BY <1>1, <1>2, <1>3 DEF Geometry
<1>18. Lo <= l /\ Pub <= Pub /\ Hi <= Hi
  BY <1>3, <1>6, <1>8
<1>19. /\ MergeJob(pc'[w], job'[w], Hi) /\ PubJob(pc'[w], job'[w], Pub, Hi)
       /\ EvictJob(pc'[w], job'[w], l, Pub)
       /\ Fenced(pc'[w], job'[w], Held(w)', l, staging', published', tier')
  BY <1>13, NothingInHand
<1> QED
  BY <1>10, <1>13, <1>14, <1>15, <1>16, <1>17, <1>18, <1>19, TableStep

\* A step under a claim on the row alone.
LEMMA RowStep ==
    ASSUME TiersInv, NEW w \in Workers, Shaped', Claimed', Others(w),
           UNCHANGED <<buffer, staging, published, through>>, Rowed',
           \A v \in Workers : v # w => (Held(v)' => Held(v)),
           tier.has => tier'.has,
           \A v \in Workers : v # w => pc[v] # "evictcommit",
           MergeJob(pc'[w], job'[w], Hi), PubJob(pc'[w], job'[w], Pub, Hi),
           EvictJob(pc'[w], job'[w], Lo, Pub),
           Fenced(pc'[w], job'[w], Held(w)', Lo, staging, published, tier')
    PROVE  TiersInv' /\ Grown
<1>1. Geometry /\ Lo \in Nat /\ Pub \in Nat /\ Hi \in Nat /\ through \in Nat
  BY InvFacts DEF TiersInv
<1>2. InLine(staging', published', Lo, Pub, Hi) /\ Pub..MaxOffset \subseteq buffer'
  BY <1>1 DEF Geometry
<1>3. ASSUME NEW v \in Workers, v # w
      PROVE  Fenced(pc[v], job[v], Held(v)', Lo, staging', published', tier')
  <2>1. Fenced(pc[v], job[v], Held(v), Lo, staging, published, tier)
    BY DEF TiersInv, Local
  <2>2. Held(v)' => Held(v)
    BY <1>3
  <2>3. pc[v] # "evictcommit"
    BY <1>3
  <2> QED
    BY <2>1, <2>2, <2>3 DEF Fenced
<1>4. Lo <= Lo /\ Pub <= Pub /\ Hi <= Hi /\ through' \in Nat /\ through' < Pub
  BY <1>1 DEF Geometry
<1>5. Fenced(pc'[w], job'[w], Held(w)', Lo, staging', published', tier')
  OBVIOUS
<1> QED
  BY <1>2, <1>3, <1>4, <1>5, TableStep

\* Next to a claim from 0 no other eviction is about to commit.
LEMMA NoOtherEviction ==
    ASSUME TiersInv, NEW w \in Workers, Held(w), pc[w] \in Busy, job[w].start = 0,
           NEW v \in Workers, v # w
    PROVE  pc[v] # "evictcommit"
<1> SUFFICES ASSUME pc[v] = "evictcommit" PROVE FALSE
  OBVIOUS
<1>1. job[v].start = 0 /\ pc[v] \in Committing /\ Claimed
  BY DEF TiersInv, Local, EvictJob, Committing
<1>2. Held(v) /\ pc[v] \in Busy
  BY <1>1, CommittingHolds
<1> QED
  BY <1>1, <1>2, NotAllTaken

\* The tier row as it is widened.
Widened(t, lo, hi) ==
    IF ~t.has THEN t
    ELSE IF t.end <= t.start THEN [t EXCEPT !.start = lo, !.end = hi]
    ELSE [t EXCEPT !.start = Min({@, lo}), !.end = Max({@, hi})]
TierRow(t, h, x, y) == t = [has |-> h, start |-> x, end |-> y]

\* Widened over lo to hi, the row covers them and what it covered.
LEMMA WidenedRow ==
    ASSUME NEW t, NEW h \in BOOLEAN, NEW a \in Nat, NEW b \in Nat, TierRow(t, h, a, b),
           NEW lo \in Nat, NEW hi \in Nat, NEW u, u = Widened(t, lo, hi)
    PROVE  \E x, y \in Nat : /\ TierRow(u, h, x, y)
                             /\ h /\ a < b => x <= a /\ b <= y
                             /\ h => x <= lo /\ hi <= y
<1>1. t = [has |-> h, start |-> a, end |-> b]
  BY DEF TierRow
<1>2. t.has = h /\ t.start = a /\ t.end = b
  BY <1>1
<1>3. CASE ~h
  <2>1. u = t
    BY <1>2, <1>3 DEF Widened
  <2> QED
    BY <1>3, <2>1
<1>4. CASE h /\ b <= a
  <2>1. u = [t EXCEPT !.start = lo, !.end = hi]
    BY <1>2, <1>4 DEF Widened
  <2>2. PICK v : v = [t EXCEPT !.start = lo]
    OBVIOUS
  <2>3. v = [has |-> h, start |-> lo, end |-> b] /\ u = [v EXCEPT !.end = hi]
    BY <1>1, <2>1, <2>2
  <2>4. TierRow(u, h, lo, hi)
    BY <2>3 DEF TierRow
  <2>5. ~(a < b) /\ lo <= lo /\ hi <= hi
    BY <1>4
  <2> QED
    BY <2>4, <2>5
<1>5. CASE h /\ a < b
  <2>1. PICK x, y : x = Min({a, lo}) /\ y = Max({b, hi})
    OBVIOUS
  <2>2. x = (IF a <= lo THEN a ELSE lo) /\ y = (IF b <= hi THEN hi ELSE b)
    BY <2>1, TwoBetween
  <2>3. u = [t EXCEPT !.start = Min({@, lo}), !.end = Max({@, hi})]
    BY <1>2, <1>5 DEF Widened
  <2>4. TierRow(u, h, x, y)
    <3>1. PICK v : v = [t EXCEPT !.start = Min({@, lo})]
      OBVIOUS
    <3>2. v = [has |-> h, start |-> x, end |-> b]
      BY <1>1, <1>2, <2>1, <3>1
    <3>3. u = [v EXCEPT !.end = Max({@, hi})]
      BY <2>3, <3>1
    <3>4. v.end = b
      BY <3>2
    <3> QED
      BY <2>1, <3>2, <3>3, <3>4 DEF TierRow
  <2>5. x \in Nat /\ y \in Nat /\ x <= a /\ b <= y /\ x <= lo /\ hi <= y
    BY <2>2
  <2> QED
    BY <2>4, <2>5
<1> QED
  BY <1>3, <1>4, <1>5

\* The row is widened before the files leave.
LEMMA WidenTierStep ==
    ASSUME TiersInv, NEW w \in Workers, WidenTier(w)
    PROVE  TiersInv' /\ Grown
<1>1. /\ pc[w] = "widen" /\ Checkpoint(w, "evictcommit")
      /\ UNCHANGED <<buffer, staging, published, through>>
  BY DEF WidenTier, tables
<1>2. Local(w) /\ Claimed /\ Shaped /\ Rowed
  BY DEF TiersInv
<1>3. CASE ~Held(w)
  <2>1. tier' = tier
    BY <1>3 DEF WidenTier
  <2>2. Quiet /\ through' = through
    BY <1>1, <2>1 DEF Quiet
  <2>3. "evictcommit" \in Busy \ Asking /\ pc[w] \in Busy
    BY <1>1 DEF Busy, Asking, PC
  <2> QED
    BY <1>1, <1>3, <2>2, <2>3, CheckpointStep
<1>4. CASE Held(w)
  <2>1. PICK lo, hi : lo = First(job[w].seen).start /\ hi = ReachOf(job[w].seen)
    OBVIOUS
  <2>2. /\ lo \in Nat /\ lo <= Lo /\ hi \in Nat /\ hi = job[w].floor /\ job[w].start = 0
        /\ EvictJob("evictcommit", job[w], Lo, Pub)
    BY <1>1, <1>2, <2>1 DEF Local, EvictJob
  <2>3. tier' = Widened(tier, lo, hi)
    BY <1>4, <2>1 DEF WidenTier, Widened
  <2>4. /\ TierRow(tier, tier.has, tier.start, tier.end)
        /\ tier.has \in BOOLEAN /\ tier.start \in Nat /\ tier.end \in Nat
        /\ tier.has => Lo = 1 \/ (tier.start <= 1 /\ Lo <= tier.end)
    BY <1>2 DEF Rowed, TierRow
  <2>16. PICK x \in Nat, y \in Nat :
           /\ TierRow(tier', tier.has, x, y)
           /\ tier.has /\ tier.start < tier.end => x <= tier.start /\ tier.end <= y
           /\ tier.has => x <= lo /\ hi <= y
    BY <2>2, <2>3, <2>4, WidenedRow
  <2>5. /\ tier'.has = tier.has /\ tier'.start = x /\ tier'.end = y
        /\ TierRow(tier', tier'.has, tier'.start, tier'.end)
    BY <2>16 DEF TierRow
  <2>6. Lo' = Lo /\ Lo \in Nat /\ 1 <= Lo
    BY <1>1, InvFacts DEF Lo
  <2>7. Rowed'
    <3>1. tier.has => Lo = 1 \/ (x <= 1 /\ Lo <= y)
      BY <2>4, <2>6, <2>16
    <3>2. tier'.has \in BOOLEAN
      BY <2>4, <2>5
    <3>3. tier'.has => Lo' = 1 \/ (tier'.start <= 1 /\ Lo' <= tier'.end)
      BY <2>5, <2>6, <3>1
    <3> QED
      BY <2>5, <2>16, <3>2, <3>3 DEF Rowed, TierRow
  <2>8. Go(w, "evictcommit") /\ job' = job /\ claims' = Renewed(claims, job[w].owner, 0, 1)
    BY <1>1, <1>4 DEF Checkpoint
  <2>9. "evictcommit" \in PC /\ "evictcommit" \in Busy \ Asking /\ pc[w] \in Busy
    BY <1>1 DEF Busy, Asking, PC
  <2>10. Shaped' /\ Others(w) /\ pc'[w] = "evictcommit" /\ job'[w] = job[w]
    BY <1>2, <2>8, <2>9, Labelled DEF Go
  <2>11. SameClaim(w)
    BY <2>10 DEF SameClaim
  <2>12. Claimed' /\ \A v \in Workers : v # w => (Held(v)' => Held(v))
    BY <1>2, <1>4, <2>8, <2>9, <2>10, <2>11, Renews
  <2>13. \A v \in Workers : v # w => pc[v] # "evictcommit"
    BY <1>4, <2>2, <2>9, NoOtherEviction
  <2>14. Fenced("evictcommit", job[w], Held(w)', Lo, staging, published, tier')
    <3>1. tier.has => (Lo = 1 => x <= 1) /\ job[w].floor <= y
      BY <2>2, <2>6, <2>16
    <3> QED
      BY <2>5, <3>1 DEF Fenced
  <2>15. MergeJob("evictcommit", job[w], Hi) /\ PubJob("evictcommit", job[w], Pub, Hi)
    BY DEF MergeJob, PubJob, Reloaded, Swapping
  <2> QED
    BY <1>1, <2>2, <2>5, <2>7, <2>10, <2>12, <2>13, <2>14, <2>15, RowStep
<1> QED
  BY <1>3, <1>4

\* The row that a first publish writes covers what the staging table lacks.
LEMMA RowOfTables ==
    ASSUME TiersInv, NEW below,
           below = {f \in published : staging = {} \/ f.start < First(staging).start},
           NEW t, t = IF below = {} THEN [has |-> TRUE, start |-> 0, end |-> 0]
                      ELSE [has |-> TRUE, start |-> First(below).start, end |-> ReachOf(below)]
    PROVE  \E x, y \in Nat : TierRow(t, TRUE, x, y) /\ (Lo = 1 \/ (x <= 1 /\ Lo <= y))
<1>1. /\ Lo \in Nat /\ Pub \in Nat /\ 1 <= Lo /\ Lo <= Pub
      /\ Tiled(published, 1, Pub)
  BY InvFacts
<1>2. \A f \in published : f.start \in Nat /\ f.end \in Nat /\ 1 <= f.start /\ f.start < f.end /\ f.end <= Pub
  BY <1>1 DEF Tiled, Sized
<1>3. ASSUME NEW f \in published, f.start < Lo PROVE f \in below
  BY <1>3 DEF Lo, LoOf
<1>4. below \subseteq published
  OBVIOUS
<1>5. CASE below = {}
  <2>1. TierRow(t, TRUE, 0, 0)
    BY <1>5 DEF TierRow
  <2>2. Lo = 1
    <3> SUFFICES ASSUME 1 < Lo PROVE FALSE
      BY <1>1
    <3>1. 1 \in 1..Pub - 1
      BY <1>1
    <3>2. PICK f \in published : 1 \in Span(f)
      BY <1>1, <3>1 DEF Tiled, Filled
    <3>3. f.start < Lo
      BY <1>1, <1>2, <3>2 DEF Span
    <3> QED
      BY <1>3, <1>5, <3>3
  <2> QED
    BY <2>1, <2>2
<1>6. CASE below # {}
  <2>1. PICK x, y : x = First(below).start /\ y = ReachOf(below)
    OBVIOUS
  <2>2. First(below) \in below /\ \A g \in below : First(below).start <= g.start
    BY <1>2, <1>4, <1>6, FirstIs
  <2>3. x \in Nat /\ \A g \in below : x <= g.start
    BY <1>2, <1>4, <2>1, <2>2
  <2>4. y \in Nat /\ \A g \in below : g.end <= y
    BY <1>1, <1>2, <1>4, <2>1, ReachFacts
  <2>5. TierRow(t, TRUE, x, y)
    BY <1>6, <2>1 DEF TierRow
  <2>6. ASSUME 1 < Lo PROVE x <= 1 /\ Lo <= y
    <3>1. 1 \in 1..Pub - 1 /\ Lo - 1 \in 1..Pub - 1
      BY <1>1, <2>6
    <3>2. PICK f \in published : 1 \in Span(f)
      BY <1>1, <3>1 DEF Tiled, Filled
    <3>3. PICK g \in published : Lo - 1 \in Span(g)
      BY <1>1, <3>1 DEF Tiled, Filled
    <3>4. f.start = 1 /\ g.start < Lo /\ Lo <= g.end
      BY <1>1, <1>2, <3>2, <3>3 DEF Span
    <3>5. f \in below /\ g \in below
      BY <1>3, <2>6, <3>4
    <3>6. x <= f.start /\ g.end <= y
      BY <2>3, <2>4, <3>5
    <3> QED
      BY <1>1, <1>2, <2>3, <2>4, <3>4, <3>6
  <2>7. Lo = 1 \/ (x <= 1 /\ Lo <= y)
    BY <1>1, <2>6
  <2> QED
    BY <2>3, <2>4, <2>5, <2>7
<1> QED
  BY <1>5, <1>6

\* The row is written.
LEMMA WriteRowStep ==
    ASSUME TiersInv, NEW w \in Workers, WriteRow(w)
    PROVE  TiersInv' /\ Grown
<1>1. /\ pc[w] = "rowwrite" /\ pc' = [pc EXCEPT ![w] = "reconcile"] /\ job' = job /\ claims' = claims
      /\ UNCHANGED <<buffer, staging, published, through>>
  BY DEF WriteRow, tables, Go
<1>2. Local(w) /\ Claimed /\ Shaped
  BY DEF TiersInv
<1>3. pc[w] \in Committing /\ "reconcile" \in PC /\ "reconcile" \in Busy \ (Asking \cup Committing)
  BY <1>1 DEF Committing, PC, Busy, Asking
<1>4. Held(w) /\ pc[w] \in Busy
  BY <1>2, <1>3, CommittingHolds
<1>5. job[w].held = published /\ job[w].seen = staging /\ job[w].start = 0
  BY <1>1, <1>2, <1>4 DEF Local, Fenced
<1>6. PICK below : below = {f \in published : staging = {} \/ f.start < First(staging).start}
  OBVIOUS
<1>7. tier' = IF below = {} THEN [has |-> TRUE, start |-> 0, end |-> 0]
              ELSE [has |-> TRUE, start |-> First(below).start, end |-> ReachOf(below)]
  BY <1>5, <1>6 DEF WriteRow
<1>8. PICK x \in Nat, y \in Nat : TierRow(tier', TRUE, x, y) /\ (Lo = 1 \/ (x <= 1 /\ Lo <= y))
  BY <1>6, <1>7, RowOfTables
<1>9. tier'.has = TRUE /\ tier'.start = x /\ tier'.end = y
  BY <1>8 DEF TierRow
<1>10. Lo' = Lo
  BY <1>1 DEF Lo
<1>11. Rowed'
  <2>1. tier' = [has |-> tier'.has, start |-> tier'.start, end |-> tier'.end]
    BY <1>8, <1>9 DEF TierRow
  <2>2. tier'.has \in BOOLEAN
    BY <1>9
  <2>3. Lo' = 1 \/ (tier'.start <= 1 /\ Lo' <= tier'.end)
    BY <1>8, <1>9, <1>10
  <2> QED
    BY <1>9, <2>1, <2>2, <2>3 DEF Rowed
<1>12. Shaped' /\ Others(w) /\ pc'[w] = "reconcile" /\ job'[w] = job[w]
  BY <1>1, <1>2, <1>3, Labelled
<1>13. SameClaim(w)
  BY <1>12 DEF SameClaim
<1>14. Claimed' /\ \A v \in Workers : v # w => (Held(v)' => Held(v))
  BY <1>1, <1>2, <1>3, <1>4, <1>12, <1>13, Proceeds
<1>15. \A v \in Workers : v # w => pc[v] # "evictcommit"
  BY <1>4, <1>5, NoOtherEviction
<1>16. PubJob("reconcile", job[w], Pub, Hi)
  BY <1>1, <1>2 DEF Local, PubJob, Reloaded, Swapping
<1>17. /\ MergeJob("reconcile", job[w], Hi) /\ EvictJob("reconcile", job[w], Lo, Pub)
       /\ Fenced("reconcile", job[w], Held(w)', Lo, staging, published, tier')
  BY DEF MergeJob, EvictJob, Fenced
<1> QED
  BY <1>1, <1>9, <1>11, <1>12, <1>14, <1>15, <1>16, <1>17, RowStep

\* Where a sealed file lands.
LEMMA SealsAbove ==
    ASSUME TiersInv
    PROVE  Max({1, SpanEnd, PublishedEnd}) = Hi
<1>1. /\ Lo \in Nat /\ Pub \in Nat /\ Hi \in Nat /\ 1 <= Lo /\ Lo <= Pub /\ Pub <= Hi
      /\ Tiled(staging, Lo, Hi) /\ Tiled(published, 1, Pub)
  BY InvFacts
<1>2. PICK s, p : s = SpanEnd /\ p = PublishedEnd
  OBVIOUS
<1>3. s \in Nat /\ s <= Hi
  BY <1>1, <1>2, ReachFacts DEF SpanEnd, Tiled, Sized
<1>4. p \in Nat /\ p <= Pub
  BY <1>1, <1>2, ReachFacts DEF PublishedEnd, Tiled, Sized
<1>5. Hi \in {1, s, p}
  BY <1>2 DEF Hi, HiOf, PubOf, SpanEnd, PublishedEnd
<1>6. PICK S : S = {1, s, p}
  OBVIOUS
<1>7. S \subseteq 0..Hi
  BY <1>1, <1>3, <1>4, <1>6
<1>8. Max(S) \in S /\ \A y \in S : y <= Max(S)
  BY <1>1, <1>5, <1>6, <1>7, MaxOfNaturals
<1>9. Max(S) \in 0..Hi /\ Hi <= Max(S)
  BY <1>5, <1>6, <1>7, <1>8
<1> QED
  BY <1>1, <1>2, <1>6, <1>9

\* A group is sealed.
LEMMA SealFileStep ==
    ASSUME TiersInv, NEW k \in 1..MaxSealRows, SealFile(k)
    PROVE  TiersInv' /\ Grown
<1>1. /\ Lo \in Nat /\ Pub \in Nat /\ Hi \in Nat /\ 1 <= Lo /\ Lo <= Pub /\ Pub <= Hi
      /\ Tiled(staging, Lo, Hi) /\ Tiled(published, 1, Pub) /\ MaxOffset \in Nat
      /\ through \in Nat /\ through < Pub
  BY InvFacts
<1>2. k \in Nat /\ 1 <= k
  BY TiersAssumption
<1>3. PICK d : d = [start |-> Hi, end |-> Hi + k]
  OBVIOUS
<1>4. /\ Hi + k - 1 <= MaxOffset /\ CanClaim(d) /\ claims' = Swept(claims, d, 0)
      /\ staging' = staging \cup {[start |-> Hi, end |-> Hi + k, path |-> Fresh(1)]}
      /\ UNCHANGED <<buffer, published, through, tier, pc, job>>
  BY <1>3, SealsAbove DEF SealFile, meta
<1>5. PICK f : f = [start |-> Hi, end |-> Hi + k, path |-> Fresh(1)]
  OBVIOUS
<1>6. f.start = Hi /\ f.end = Hi + k /\ d.start = Hi /\ d.end = Hi + k /\ staging' = staging \cup {f}
  BY <1>3, <1>4, <1>5
<1>7. PICK t \in Nat : t = Hi + k
  BY <1>1, <1>2
<1>8. Tiled(staging', Lo, t)
  <2>1. Tiled({f}, Hi, t)
    <3>1. f.start \in Nat /\ f.end \in Nat /\ f.start < f.end
      BY <1>1, <1>2, <1>6
    <3>2. Tiled({f}, f.start, f.end)
      BY <3>1, TiledOne
    <3> QED
      BY <1>6, <1>7, <3>2
  <2> QED
    BY <1>1, <1>6, <2>1, TiledJoin
<1>9. t <= MaxOffset + 1 /\ Hi <= t /\ Hi < t
  BY <1>1, <1>2, <1>4, <1>7
<1>10. InLine(staging', published', Lo, Pub, t)
  BY <1>1, <1>4, <1>8, <1>9 DEF InLine
<1>11. Claimed /\ Geometry /\ Rowed /\ RowSet(claims)
  BY DEF TiersInv, Claimed
<1>12. RowSet(claims') /\ From(claims', claims) /\ Stay(claims', claims, 0)
  BY <1>4, <1>11, SweptRows
<1>13. ASSUME NEW v \in Workers, pc[v] \in Committing
       PROVE  \E r \in claims' : r.owner = job[v].owner /\ r.expires = 1
  <2>1. PICK r \in claims : r.owner = job[v].owner /\ r.expires = 1
    BY <1>11, <1>13 DEF Claimed, Holding
  <2>2. r.owner # 0
    BY <1>11 DEF RowSet, Row
  <2> QED
    BY <1>12, <2>1, <2>2 DEF Stay
<1>14. Claimed' /\ \A v \in Workers : Held(v)' => Held(v)
  BY <1>4, <1>11, <1>12, <1>13, WorldClaims
<1>15. ASSUME NEW v \in Workers
       PROVE  Fenced(pc[v], job[v], Held(v)', Lo, staging', published', tier')
  <2>1. Fenced(pc[v], job[v], Held(v), Lo, staging, published, tier)
    BY DEF TiersInv, Local
  <2>2. Held(v)' => Held(v)
    BY <1>14
  <2>3. pc[v] # "rowwrite"
    <3> SUFFICES ASSUME pc[v] = "rowwrite" PROVE FALSE
      OBVIOUS
    <3>1. job[v].start = 0 /\ job[v].end = Everything /\ pc[v] \in Committing /\ pc[v] \in Busy
      BY <2>1 DEF Fenced, Committing, Busy, PC
    <3>2. PICK r \in claims : r.owner = job[v].owner /\ r.expires = 1
      BY <1>11, <3>1 DEF Claimed, Holding
    <3>3. r.start = 0 /\ r.end = Everything /\ r.owner # 0
      BY <1>11, <3>1, <3>2 DEF Claimed, Holding, RowSet, Row
    <3>4. Overlap(r, d)
      BY <1>1, <1>2, <1>6, <1>7, <1>9, <3>3 DEF Overlap, Everything
    <3> QED
      BY <1>4, <3>2, <3>3, <3>4 DEF CanClaim, Clash
  <2> QED
    BY <1>4, <2>1, <2>2, <2>3 DEF Fenced
<1>16. Rowed'
  <2>1. Lo' = Lo
    BY <1>10, EndsAre DEF Lo
  <2> QED
    BY <1>4, <1>11, <2>1 DEF Rowed
<1>17. Pub..MaxOffset \subseteq buffer' /\ through' \in Nat /\ through' < Pub
  BY <1>1, <1>4, <1>11 DEF Geometry
<1>18. Lo <= Lo /\ Pub <= Pub
  BY <1>1
<1> QED
  BY <1>4, <1>9, <1>10, <1>14, <1>15, <1>16, <1>17, <1>18, WorldStep

\* A step that is no worker's and leaves the tables alone.
LEMMA QuietWorldStep ==
    ASSUME TiersInv, UNCHANGED <<staging, published, through, tier, pc, job>>, Claimed',
           \A v \in Workers : Held(v)' => Held(v), Pub..MaxOffset \subseteq buffer'
    PROVE  TiersInv' /\ Grown
<1>1. InLine(staging', published', Lo, Pub, Hi) /\ Lo <= Lo /\ Pub <= Pub /\ Hi <= Hi
      /\ through' \in Nat /\ through' < Pub
  BY InvFacts DEF InLine
<1>2. Rowed'
  BY DEF TiersInv, Rowed, Lo
<1>3. ASSUME NEW v \in Workers
      PROVE  Fenced(pc[v], job[v], Held(v)', Lo, staging', published', tier')
  <2>1. Held(v) \in BOOLEAN /\ Held(v)' \in BOOLEAN /\ (Held(v)' => Held(v))
    BY DEF Held, HasRow
  <2>2. Fenced(pc[v], job[v], Held(v), Lo, staging, published, tier)
    BY DEF TiersInv, Local
  <2> QED
    BY <2>1, <2>2, FencedLess
<1> QED
  BY <1>1, <1>2, <1>3, WorldStep

\* Buffered rows are evicted.
LEMMA EvictBufferStep ==
    ASSUME TiersInv, EvictBuffer
    PROVE  TiersInv' /\ Grown
<1>1. UNCHANGED <<staging, published, through, tier, claims, pc, job>>
  BY DEF EvictBuffer, meta
<1>2. PICK r : r = ReachOf(CoveredPrefix(staging, Landed))
  OBVIOUS
<1>3. PICK lo, hi \in 1..r : buffer' = buffer \ {o \in buffer : lo <= o /\ o < hi}
  BY <1>2 DEF EvictBuffer
<1>4. /\ Lo \in Nat /\ Pub \in Nat /\ Hi \in Nat /\ Sized(staging, Lo, Hi)
      /\ through \in Nat /\ through < Pub /\ MaxOffset \in Nat
  BY InvFacts DEF Tiled
<1>5. r \in Nat /\ r <= through + 1
  BY <1>2, <1>4, CoveredEnds DEF Landed
<1>6. Pub..MaxOffset \subseteq buffer
  BY DEF TiersInv, Geometry
<1>7. Pub..MaxOffset \subseteq buffer'
  BY <1>3, <1>4, <1>5, <1>6
<1>8. Claimed' /\ \A v \in Workers : Held(v)' => Held(v)
  BY <1>1 DEF TiersInv, Claimed, OwnersApart, Holding, Held
<1> QED
  BY <1>1, <1>7, <1>8, QuietWorldStep

\* A claim lapses that no commit rests on.
LEMMA ExpireStep ==
    ASSUME TiersInv, UNCHANGED <<buffer, staging, published, through, tier, pc, job>>,
           NEW r \in claims, Expire(r),
           \A v \in Workers : pc[v] \in Committing => job[v].owner # r.owner
    PROVE  TiersInv' /\ Grown
<1>1. Claimed /\ RowSet(claims)
  BY DEF TiersInv, Claimed
<1>2. RowSet(claims') /\ From(claims', claims) /\ Stay(claims', claims, r.owner)
  BY <1>1, LapsedRows DEF Expire
<1>3. ASSUME NEW v \in Workers, pc[v] \in Committing
      PROVE  \E s \in claims' : s.owner = job[v].owner /\ s.expires = 1
  BY <1>1, <1>2, <1>3 DEF Claimed, Holding, Stay
<1>4. Claimed' /\ \A v \in Workers : Held(v)' => Held(v)
  BY <1>1, <1>2, <1>3, WorldClaims
<1>5. Pub..MaxOffset \subseteq buffer'
  BY DEF TiersInv, Geometry
<1> QED
  BY <1>4, <1>5, QuietWorldStep

\* A running worker's claim lapses, not between a checkpoint and its commit.
LEMMA LapseStep ==
    ASSUME PromptCommit, TiersInv, Lapse
    PROVE  TiersInv' /\ Grown
<1>1. UNCHANGED <<buffer, staging, published, through, tier, pc, job>>
  BY DEF Lapse, tables, meta
<1>2. PICK w \in Workers, r \in claims : r.owner = job[w].owner /\ pc[w] \notin Committing /\ Expire(r)
  BY DEF Lapse
<1>3. r.owner # 0
  BY DEF TiersInv, Claimed, RowSet, Row
<1>4. \A v \in Workers : pc[v] \in Committing => job[v].owner # r.owner
  BY <1>2, <1>3 DEF TiersInv, Claimed, OwnersApart
<1> QED
  BY <1>1, <1>2, <1>4, ExpireStep

\* The claim that a dead worker left lapses.
LEMMA LapseOrphanStep ==
    ASSUME TiersInv, LapseOrphan
    PROVE  TiersInv' /\ Grown
<1>1. UNCHANGED <<buffer, staging, published, through, tier, pc, job>>
  BY DEF LapseOrphan, tables, meta
<1>2. PICK r \in claims : r.owner \notin LiveOwners /\ Expire(r)
  BY DEF LapseOrphan
<1>3. \A v \in Workers : pc[v] \in Committing => job[v].owner # r.owner
  BY <1>2 DEF LiveOwners
<1> QED
  BY <1>1, <1>2, <1>3, ExpireStep

-----------------------------------------------------------------------------
(***************************************************************************)
(* Every step, and what follows for the tables.                            *)
(***************************************************************************)

\* The empty log.
LEMMA TiersInit ==
    ASSUME Init
    PROVE  TiersInv
<1>1. /\ staging = {} /\ published = {} /\ claims = {} /\ through = 0 /\ buffer = 1..MaxOffset
      /\ tier = [has |-> FALSE, start |-> 0, end |-> 0]
      /\ pc = [w \in Workers |-> "idle"] /\ job = [w \in Workers |-> NoJob]
  BY DEF Init
<1>2. \A w \in Workers : pc[w] = "idle" /\ job[w] = NoJob
  BY <1>1
<1>3. Shaped
  BY <1>1, <1>2, NoJobIs DEF Shaped, PC
<1>4. Claimed
  BY <1>1, <1>2, NoJobIs DEF Claimed, RowSet, OwnersApart, Holding, Held, HasRow, Asking, Busy, Committing
<1>5. Lo = 1 /\ Pub = 1 /\ Hi = 1
  BY <1>1 DEF Lo, Pub, Hi, LoOf, PubOf, HiOf
<1>6. Geometry
  <2>1. Tiled({}, 1, 1)
    BY DEF Tiled, Sized, Disjoint, Filled
  <2>2. 1 <= MaxOffset + 1
    BY TiersAssumption
  <2>3. InLine(staging, published, 1, 1, 1)
    BY <1>1, <2>1, <2>2 DEF InLine
  <2> QED
    BY <1>1, <1>5, <2>3 DEF Geometry
<1>7. Rowed
  BY <1>1 DEF Rowed
<1>8. \A w \in Workers : Local(w)
  BY <1>2, NothingInHand DEF Local
<1> QED
  BY <1>3, <1>4, <1>6, <1>7, <1>8 DEF TiersInv

\* A worker's step.
LEMMA WorkStep ==
    ASSUME TiersInv, NEW w \in Workers, Work(w)
    PROVE  TiersInv' /\ Grown
<1>1. CASE Acquire(w) \/ Release(w)
  BY <1>1, AcquireStep, ReleaseStep
<1>2. CASE RecheckRun(w) \/ WriteMerge(w) \/ FenceMerge(w)
  BY <1>2, RecheckRunStep, WriteMergeStep, FenceMergeStep
<1>3. CASE CommitMerge(w) \/ ReadThrough(w) \/ RecordMerge(w)
  BY <1>3, CommitMergeStep, ReadThroughStep, RecordMergeStep
<1>4. CASE ReloadTables(w) \/ ReadRow(w) \/ WriteRow(w) \/ Reconcile(w)
  BY <1>4, ReloadTablesStep, ReadRowStep, WriteRowStep, ReconcileStep
<1>5. CASE SkipSwap(w) \/ IntendSwap(w) \/ FenceSwap(w)
  BY <1>5, SkipSwapStep, IntendSwapStep, FenceSwapStep
<1>6. CASE CommitSwap(w) \/ ConfirmSwap(w) \/ ClearSwap(w)
  BY <1>6, CommitSwapStep, ConfirmSwapStep, ClearSwapStep
<1>7. CASE PickPending(w) \/ Upload(w) \/ FencePush(w)
  BY <1>7, PickPendingStep, UploadStep, FencePushStep
<1>8. CASE RegisterPush(w) \/ ConfirmPush(w)
  BY <1>8, RegisterPushStep, ConfirmPushStep
<1>9. CASE DecideEvict(w) \/ WidenTier(w) \/ CommitEvict(w)
  BY <1>9, DecideEvictStep, WidenTierStep, CommitEvictStep
<1> QED
  BY <1>1, <1>2, <1>3, <1>4, <1>5, <1>6, <1>7, <1>8, <1>9 DEF Work

\* Every step.
LEMMA TiersStep ==
    ASSUME PromptCommit, TiersInv, [Next]_vars
    PROVE  TiersInv' /\ Grown
<1>1. CASE \E k \in 1..MaxSealRows : SealFile(k)
  BY <1>1, SealFileStep
<1>2. CASE \E w \in Workers : Work(w)
  BY <1>2, WorkStep
<1>3. CASE \E w \in Workers : Start(w)
  <2>1. PICK w \in Workers, force \in BOOLEAN :
          PickRun(w, force) \/ PickPush(w, force) \/ PickBoundary(w, force)
    BY <1>3 DEF Start
  <2> QED
    BY <2>1, PickRunStep, PickPushStep, PickBoundaryStep
<1>4. CASE \E w \in Workers : Fail(w)
  BY <1>4, FailStep
<1>5. CASE Lapse \/ LapseOrphan \/ EvictBuffer
  BY <1>5, LapseStep, LapseOrphanStep, EvictBufferStep
<1>6. CASE UNCHANGED vars
  <2>1. UNCHANGED <<buffer, staging, published, through, tier, claims, pc, job>>
    BY <1>6 DEF vars, tables, meta
  <2>2. Claimed' /\ \A v \in Workers : Held(v)' => Held(v)
    BY <2>1 DEF TiersInv, Claimed, OwnersApart, Holding, Held
  <2>3. Pub..MaxOffset \subseteq buffer'
    BY <2>1 DEF TiersInv, Geometry
  <2> QED
    BY <2>1, <2>2, <2>3, QuietWorldStep
<1> QED
  BY <1>1, <1>2, <1>3, <1>4, <1>5, <1>6 DEF Next

\* The invariant holds of every behaviour in which commits are prompt.
LEMMA TiersHold == PromptCommit => (Spec => []TiersInv)
<1> SUFFICES ASSUME PromptCommit PROVE Spec => []TiersInv
  OBVIOUS
<1>1. Init => TiersInv
  BY TiersInit
<1>2. TiersInv /\ [Next]_vars => TiersInv'
  BY TiersStep
<1> QED
  BY <1>1, <1>2, PTL DEF Spec

\* The properties of module Tiers follow from the invariant: one copy of every
\* offset below the published end,
LEMMA ExactWhilePublished ==
    ASSUME TiersInv
    PROVE  PublishedExact
<1>1. Tiled(published, 1, Pub) /\ Pub \in Nat
  BY InvFacts
<1>2. ASSUME NEW o \in 1 .. PublishedEnd - 1 PROVE Once(published, o)
  <2>1. PICK e : e = PublishedEnd
    OBVIOUS
  <2>2. e \in Nat
    BY <1>1, <2>1, ReachFacts DEF Tiled, Sized, PublishedEnd
  <2>3. published # {}
    <3> SUFFICES ASSUME published = {} PROVE FALSE
      OBVIOUS
    <3>1. \A f \in published : f.end \in Nat /\ f.end <= 0
      OBVIOUS
    <3>2. e <= 0
      BY <2>1, <3>1, ReachFacts DEF PublishedEnd
    <3> QED
      BY <1>2, <2>1, <2>2, <3>2
  <2>4. e = Pub
    BY <2>1, <2>3 DEF Pub, PubOf, PublishedEnd
  <2>5. o \in Nat /\ 1 <= o /\ o < Pub
    BY <1>2, <2>1, <2>2, <2>4
  <2> QED
    BY <1>1, <2>5, TiledOnce DEF Once
<1> QED
  BY <1>2 DEF PublishedExact

\* one of every staged offset,
LEMMA ExactWhileStaged ==
    ASSUME TiersInv
    PROVE  StagingExact
<1> SUFFICES ASSUME staging # {}, NEW o \in First(staging).start .. SpanEnd - 1
             PROVE  Once(staging, o)
  BY DEF StagingExact
<1>1. Tiled(staging, Lo, Hi) /\ Lo \in Nat /\ Hi \in Nat
  BY InvFacts
<1>2. First(staging).start = Lo /\ SpanEnd = Hi
  BY DEF Lo, Hi, LoOf, HiOf, SpanEnd
<1>3. o \in Nat /\ Lo <= o /\ o < Hi
  BY <1>1, <1>2
<1> QED
  BY <1>1, <1>3, TiledOnce DEF Once

\* Below the published end every row is published.
LEMMA PublishedRows ==
    ASSUME TiersInv, NEW o \in Nat, 1 <= o, o < Pub
    PROVE  o \in Rows(published)
<1>1. Tiled(published, 1, Pub) /\ Pub \in Nat
  BY InvFacts
<1>2. o \in 1..Pub - 1
  BY <1>1
<1>3. PICK f \in published : o \in Span(f)
  BY <1>1, <1>2 DEF Tiled, Filled
<1> QED
  BY <1>3 DEF Rows

\* a published copy of all that was given up or promised,
LEMMA HandedOverAlways ==
    ASSUME TiersInv
    PROVE  HandedOver
<1>1. /\ Lo \in Nat /\ Pub \in Nat /\ Lo <= Pub /\ through \in Nat /\ through < Pub /\ MaxOffset \in Nat
      /\ Pub..MaxOffset \subseteq buffer
  BY InvFacts DEF TiersInv, Geometry
<1>2. ASSUME NEW o \in 1..MaxOffset \ buffer PROVE o \in Rows(published)
  BY <1>1, <1>2, PublishedRows
<1>3. ASSUME NEW o \in IF staging = {} THEN {} ELSE 1 .. First(staging).start - 1
      PROVE  o \in Rows(published)
  <2>1. staging # {}
    BY <1>3
  <2>2. First(staging).start = Lo
    BY <2>1 DEF Lo, LoOf
  <2>3. o \in Nat /\ 1 <= o /\ o < Pub
    BY <1>1, <1>3, <2>1, <2>2
  <2> QED
    BY <2>3, PublishedRows
<1>4. ASSUME NEW o \in 1..through PROVE o \in Rows(published)
  BY <1>1, <1>4, PublishedRows
<1> QED
  BY <1>2, <1>3, <1>4 DEF HandedOver

\* A published row that is not staged lies below the staging table.
LEMMA BelowStaging ==
    ASSUME TiersInv, NEW o \in Rows(published) \ Rows(staging)
    PROVE  o \in Nat /\ 1 <= o /\ o < Lo
<1>1. /\ Lo \in Nat /\ Pub \in Nat /\ Hi \in Nat /\ Pub <= Hi
      /\ Tiled(published, 1, Pub) /\ Tiled(staging, Lo, Hi)
  BY InvFacts
<1>2. PICK f \in published : o \in Span(f)
  BY DEF Rows
<1>3. f.start \in Nat /\ f.end \in Nat /\ 1 <= f.start /\ f.end <= Pub
  BY <1>1 DEF Tiled, Sized
<1>4. o \in Nat /\ 1 <= o /\ o < Pub
  BY <1>1, <1>2, <1>3 DEF Span
<1>5. ASSUME Lo <= o PROVE FALSE
  <2>1. o \in Lo..Hi - 1
    BY <1>1, <1>4, <1>5
  <2>2. PICK g \in staging : o \in Span(g)
    BY <1>1, <2>1 DEF Tiled, Filled
  <2> QED
    BY <2>2 DEF Rows
<1> QED
  BY <1>1, <1>4, <1>5

\* and a tier row over what only the published table holds.
LEMMA TierCoversAlways ==
    ASSUME TiersInv
    PROVE  TierCovers
<1> SUFFICES ASSUME tier.has, NEW o \in Rows(published) \ Rows(staging)
             PROVE  tier.start <= o /\ o < tier.end
  BY DEF TierCovers
<1>1. o \in Nat /\ 1 <= o /\ o < Lo /\ Lo \in Nat
  BY BelowStaging, InvFacts
<1>2. /\ tier.start \in Nat /\ tier.end \in Nat
      /\ Lo = 1 \/ (tier.start <= 1 /\ Lo <= tier.end)
  BY DEF TiersInv, Rowed
<1> QED
  BY <1>1, <1>2

\* The end of the published table and both ends of the staging table only ever
\* move up: no commit takes back what another one has landed.
THEOREM EndsNeverGoBack == PromptCommit => (Spec => [][Grown]_vars)
<1> SUFFICES ASSUME PromptCommit PROVE Spec => [][Grown]_vars
  OBVIOUS
<1>1. TiersInv /\ [Next]_vars => [Grown]_vars
  BY TiersStep
<1> QED
  BY <1>1, TiersHold, PTL DEF Spec

\* The published table holds every offset below its end exactly once, whatever
\* pushes, swaps, retries and takeovers of lapsed claims land in it, for any
\* number of workers.
THEOREM PublishedAlwaysExact == PromptCommit => (Spec => []PublishedExact)
BY TiersHold, ExactWhilePublished, PTL

\* The staging table is one stretch of offsets, each in one file, whatever
\* seals, merges and evictions land in it.
THEOREM StagingAlwaysExact == PromptCommit => (Spec => []StagingExact)
BY TiersHold, ExactWhileStaged, PTL

\* I4: what the buffer and the staging table have given up, and what the
\* watermark promises, the published table holds.
THEOREM NothingLostBetweenTiers == PromptCommit => (Spec => []HandedOver)
BY TiersHold, HandedOverAlways, PTL

\* The tier row, once written, covers every row that only the published table
\* has: _record_published_row and the widening before an eviction see to it.
THEOREM TierRowNeverTooNarrow == PromptCommit => (Spec => []TierCovers)
BY TiersHold, TierCoversAlways, PTL

-----------------------------------------------------------------------------
(***************************************************************************)
(* A query.                                                                *)
(***************************************************************************)

\* The offset is in the staging snapshot, below it, or in the rows taken from
\* the buffer; and what is below the snapshot is published for good.
Fits(S, r, tl, l) ==
    IF S = {} THEN tl \/ r < l
    ELSE \E a, t \in Nat : Tiled(S, a, t) /\ a <= l /\ (tl \/ r < t)

\* What a query knows, read by read.
ReadInv ==
    /\ rpc \in {"idle", "lowest", "tail", "staging", "tiers", "published", "done"}
    /\ tail \in BOOLEAN /\ buffer \subseteq Nat
    /\ rpc # "idle" => row \in Nat /\ 1 <= row /\ row <= MaxOffset
    /\ rpc \in {"idle", "lowest"} => ~tail
    /\ rpc \in {"lowest", "tail"} => bottom \in Nat /\ bottom <= Hi
    /\ rpc = "staging" => tail \/ row < Hi
    /\ rpc \in {"tiers", "published"} => Fits(snap, row, tail, Lo)
    /\ rpc = "done" => count = 1

\* A row that is not buffered is published.
LEMMA BufferedOrPublished ==
    ASSUME TiersInv, NEW r \in Nat, r <= MaxOffset, r \notin buffer
    PROVE  r < Pub
<1>1. Pub \in Nat /\ MaxOffset \in Nat /\ Pub..MaxOffset \subseteq buffer
  BY InvFacts DEF TiersInv, Geometry
<1> QED
  BY <1>1

\* The union without the published table has the offset, unless it lies below
\* the snapshot.
LEMMA LocalOnce ==
    ASSUME NEW l \in Nat, row \in Nat, tail \in BOOLEAN, Fits(snap, row, tail, l),
           snap = {} => tail, snap # {} => First(snap).start <= row
    PROVE  CountLocal = 1
<1>1. CASE snap = {}
  <2>1. {f \in snap : row \in Span(f)} = {}
    BY <1>1
  <2>2. Times(snap) = 0
    BY <2>1, FS_EmptySet DEF Times
  <2>3. One(tail /\ (snap = {} \/ row >= ReachOf(snap))) = 1
    BY <1>1 DEF One
  <2> QED
    BY <2>2, <2>3 DEF CountLocal
<1>2. CASE snap # {}
  <2>1. PICK a \in Nat, t \in Nat : Tiled(snap, a, t) /\ a <= l /\ (tail \/ row < t)
    BY <1>2 DEF Fits
  <2>2. First(snap).start = a /\ ReachOf(snap) = t
    BY <1>2, <2>1, TiledFirst, TiledReach
  <2>3. Times(snap) = IF a <= row /\ row < t THEN 1 ELSE 0
    BY <2>1, TiledOnce DEF Times
  <2>4. CASE row < t
    <3>1. ~(row >= ReachOf(snap))
      BY <2>2, <2>4
    <3>2. One(tail /\ (snap = {} \/ row >= ReachOf(snap))) = 0
      BY <1>2, <3>1 DEF One
    <3>3. Times(snap) = 1
      BY <1>2, <2>2, <2>3, <2>4
    <3> QED
      BY <3>2, <3>3 DEF CountLocal
  <2>5. CASE t <= row
    <3>1. tail /\ row >= ReachOf(snap)
      BY <2>1, <2>2, <2>5
    <3>2. One(tail /\ (snap = {} \/ row >= ReachOf(snap))) = 1
      BY <3>1 DEF One
    <3>3. Times(snap) = 0
      BY <2>1, <2>3, <2>5
    <3> QED
      BY <3>2, <3>3 DEF CountLocal
  <2> QED
    BY <2>1, <2>4, <2>5
<1> QED
  BY <1>1, <1>2

\* ... and where it does, it does not have it at all.
LEMMA LocalNever ==
    ASSUME NEW l \in Nat, row \in Nat, tail \in BOOLEAN, Fits(snap, row, tail, l),
           snap # {}, row < First(snap).start
    PROVE  CountLocal = 0 /\ First(snap).start <= l
<1>1. PICK a \in Nat, t \in Nat : Tiled(snap, a, t) /\ a <= l /\ (tail \/ row < t)
  BY DEF Fits
<1>2. First(snap).start = a /\ ReachOf(snap) = t /\ a < t
  BY <1>1, TiledFirst, TiledReach
<1>3. Times(snap) = IF a <= row /\ row < t THEN 1 ELSE 0
  BY <1>1, TiledOnce DEF Times
<1>4. Times(snap) = 0
  BY <1>2, <1>3
<1>5. ~(row >= ReachOf(snap))
  BY <1>2
<1>6. One(tail /\ (snap = {} \/ row >= ReachOf(snap))) = 0
  BY <1>5 DEF One
<1> QED
  BY <1>1, <1>2, <1>4, <1>6 DEF CountLocal

\* The tier row has every offset below the staging table.
LEMMA NeededBelow ==
    ASSUME TiersInv, row \in Nat, 1 <= row, row < Lo
    PROVE  PublishedNeeded
<1>1. /\ tier.start \in Nat /\ tier.end \in Nat /\ Lo \in Nat
      /\ tier.has => Lo = 1 \/ (tier.start <= 1 /\ Lo <= tier.end)
  BY InvFacts DEF TiersInv, Rowed
<1>2. tier.has => tier.start <= row /\ row < tier.end /\ tier.start < tier.end
  BY <1>1
<1> QED
  BY <1>2 DEF PublishedNeeded

\* A query that does not need the published table has the offset once without it,
LEMMA QueryTiersStep ==
    ASSUME TiersInv, ReadInv, rpc = "tiers", ~PublishedNeeded
    PROVE  CountLocal = 1
<1>1. row \in Nat /\ 1 <= row /\ tail \in BOOLEAN /\ Fits(snap, row, tail, Lo) /\ Lo \in Nat
  BY InvFacts DEF ReadInv
<1>2. ~(row < Lo)
  BY <1>1, NeededBelow
<1>3. snap = {} => tail
  BY <1>1, <1>2 DEF Fits
<1>4. ASSUME snap # {} PROVE First(snap).start <= row
  <2>1. PICK a \in Nat, t \in Nat : Tiled(snap, a, t) /\ a <= Lo
    BY <1>1, <1>4 DEF Fits
  <2>2. First(snap).start = a
    BY <1>4, <2>1, TiledFirst
  <2> QED
    BY <1>1, <1>2, <2>1, <2>2
<1> QED
  BY <1>1, <1>3, <1>4, LocalOnce

\* and one that reads it has it once in all.
LEMMA QueryPublishedStep ==
    ASSUME TiersInv, ReadInv, rpc = "published"
    PROVE  (IF published = {} THEN CountLocal ELSE CountAll) = 1
<1>1. /\ row \in Nat /\ 1 <= row /\ tail \in BOOLEAN /\ Fits(snap, row, tail, Lo)
      /\ Lo \in Nat /\ Pub \in Nat /\ Lo <= Pub /\ Tiled(published, 1, Pub)
  BY InvFacts DEF ReadInv
<1>2. ASSUME snap # {} PROVE First(snap).start \in Nat /\ First(snap).start <= Lo
  <2>1. PICK a \in Nat, t \in Nat : Tiled(snap, a, t) /\ a <= Lo
    BY <1>1, <1>2 DEF Fits
  <2>2. First(snap).start = a
    BY <1>2, <2>1, TiledFirst
  <2> QED
    BY <2>1, <2>2
<1>3. CASE published = {}
  <2>1. Pub = 1
    BY <1>3 DEF Pub, PubOf
  <2>2. ~(row < Lo)
    BY <1>1, <2>1
  <2>3. snap = {} => tail
    BY <1>1, <2>2 DEF Fits
  <2>4. snap # {} => First(snap).start <= row
    BY <1>1, <1>2, <2>2
  <2>5. CountLocal = 1
    BY <1>1, <2>3, <2>4, LocalOnce
  <2> QED
    BY <1>3, <2>5
<1>4. CASE published # {}
  <2>1. Times(published) = IF row < Pub THEN 1 ELSE 0
    <3>1. Cardinality({f \in published : row \in Span(f)}) = IF 1 <= row /\ row < Pub THEN 1 ELSE 0
      BY <1>1, TiledOnce
    <3> QED
      BY <1>1, <3>1 DEF Times
  <2>2. PublishedEnd = Pub
    BY <1>4 DEF Pub, PubOf, PublishedEnd
  <2>3. CASE snap = {} /\ row < Pub
    <3>1. ~(row >= PublishedEnd)
      BY <1>1, <2>2, <2>3
    <3>2. One(tail /\ row >= PublishedEnd) = 0
      BY <3>1 DEF One
    <3> QED
      BY <1>4, <2>1, <2>3, <3>2 DEF CountAll
  <2>4. CASE snap = {} /\ ~(row < Pub)
    <3>1. tail
      BY <1>1, <2>4 DEF Fits
    <3>2. row >= PublishedEnd
      BY <1>1, <2>2, <2>4
    <3>3. One(tail /\ row >= PublishedEnd) = 1
      BY <3>1, <3>2 DEF One
    <3> QED
      BY <1>4, <2>1, <2>4, <3>3 DEF CountAll
  <2>5. CASE snap # {} /\ row < First(snap).start
    <3>1. CountLocal = 0
      BY <1>1, <2>5, LocalNever
    <3>2. Times(published) = 1
      BY <1>1, <1>2, <2>1, <2>5
    <3>3. One(row < First(snap).start) = 1
      BY <2>5 DEF One
    <3> QED
      BY <1>4, <2>5, <3>1, <3>2, <3>3 DEF CountAll
  <2>6. CASE snap # {} /\ ~(row < First(snap).start)
    <3>1. CountLocal = 1
      BY <1>1, <1>2, <2>6, LocalOnce
    <3>2. One(row < First(snap).start) = 0
      BY <2>6 DEF One
    <3>3. Times(published) \in Nat
      BY <2>1
    <3>4. One(row < First(snap).start) * Times(published) = 0
      BY <3>2, <3>3
    <3> QED
      BY <1>4, <2>6, <3>1, <3>4 DEF CountAll
  <2> QED
    BY <2>3, <2>4, <2>5, <2>6
<1> QED
  BY <1>3, <1>4

\* The buffer's rows, which no step adds to.
LEMMA BufferShrinks ==
    ASSUME [Next]_vars
    PROVE  buffer' \subseteq buffer
<1>1. ASSUME NEW w \in Workers, Work(w) PROVE buffer' = buffer
  <2>1. CASE Acquire(w) \/ Release(w) \/ RecheckRun(w) \/ WriteMerge(w) \/ FenceMerge(w)
    BY <2>1 DEF Acquire, Release, RecheckRun, WriteMerge, FenceMerge, tables
  <2>2. CASE CommitMerge(w) \/ ReadThrough(w) \/ RecordMerge(w) \/ ReloadTables(w) \/ ReadRow(w)
    BY <2>2 DEF CommitMerge, ReadThrough, RecordMerge, ReloadTables, ReadRow, tables
  <2>3. CASE WriteRow(w) \/ Reconcile(w) \/ SkipSwap(w) \/ IntendSwap(w) \/ FenceSwap(w)
    BY <2>3 DEF WriteRow, Reconcile, SkipSwap, IntendSwap, FenceSwap, tables
  <2>4. CASE CommitSwap(w) \/ ConfirmSwap(w) \/ ClearSwap(w) \/ PickPending(w) \/ Upload(w)
    BY <2>4 DEF CommitSwap, ConfirmSwap, ClearSwap, PickPending, Upload, tables
  <2>5. CASE FencePush(w) \/ RegisterPush(w) \/ ConfirmPush(w)
    BY <2>5 DEF FencePush, RegisterPush, ConfirmPush, tables
  <2>6. CASE DecideEvict(w) \/ WidenTier(w) \/ CommitEvict(w)
    BY <2>6 DEF DecideEvict, WidenTier, CommitEvict, tables
  <2> QED
    BY <1>1, <2>1, <2>2, <2>3, <2>4, <2>5, <2>6 DEF Work
<1>2. ASSUME NEW w \in Workers, Start(w) \/ Fail(w) PROVE buffer' = buffer
  BY <1>2 DEF Start, PickRun, PickPush, PickBoundary, Begin, Fail, tables
<1>3. ASSUME (\E k \in 1..MaxSealRows : SealFile(k)) \/ Lapse \/ LapseOrphan PROVE buffer' = buffer
  BY <1>3 DEF SealFile, Lapse, LapseOrphan, tables
<1>4. ASSUME EvictBuffer PROVE buffer' \subseteq buffer
  BY <1>4 DEF EvictBuffer
<1>5. ASSUME UNCHANGED vars PROVE buffer' = buffer
  BY <1>5 DEF vars, tables
<1> QED
  BY <1>1, <1>2, <1>3, <1>4, <1>5 DEF Next

\* The ends of the staging table are offsets.
LEMMA InvNumbers == TiersInv => Lo \in Nat /\ Hi \in Nat
BY InvFacts

\* What a query knows stays true while the tables grow under it.
LEMMA ReadLasts ==
    ASSUME TiersInv, TiersInv', Grown, buffer' \subseteq buffer, ReadInv, UNCHANGED rvars
    PROVE  ReadInv'
<1>1. /\ Lo \in Nat /\ Hi \in Nat /\ Lo' \in Nat /\ Hi' \in Nat /\ Lo <= Lo' /\ Hi <= Hi'
  <2>1. Lo \in Nat /\ Hi \in Nat
    BY InvNumbers
  <2>2. (Lo \in Nat /\ Hi \in Nat)'
    BY InvNumbers, PTL
  <2> QED
    BY <2>1, <2>2 DEF Grown
<1>2. UNCHANGED <<rpc, row, named, bottom, tail, snap, count>>
  BY DEF rvars
<1>3. rpc = "staging" => tail \/ row < Hi'
  BY <1>1 DEF ReadInv
<1>4. rpc \in {"lowest", "tail"} => bottom \in Nat /\ bottom <= Hi'
  BY <1>1 DEF ReadInv
<1>5. rpc \in {"tiers", "published"} => Fits(snap, row, tail, Lo')
  <2> SUFFICES ASSUME rpc \in {"tiers", "published"} PROVE Fits(snap, row, tail, Lo')
    OBVIOUS
  <2>1. Fits(snap, row, tail, Lo) /\ row \in Nat
    BY DEF ReadInv
  <2>2. CASE snap = {}
    BY <1>1, <2>1, <2>2 DEF Fits
  <2>3. CASE snap # {}
    <3>1. PICK a \in Nat, t \in Nat : Tiled(snap, a, t) /\ a <= Lo /\ (tail \/ row < t)
      BY <2>1, <2>3 DEF Fits
    <3>2. a <= Lo'
      BY <1>1, <3>1
    <3> QED
      BY <2>3, <3>1, <3>2 DEF Fits
  <2> QED
    BY <2>2, <2>3
<1> QED
  BY <1>2, <1>3, <1>4, <1>5 DEF ReadInv

\* A read of the query.
LEMMA QueryStep ==
    ASSUME TiersInv, ReadInv, Query
    PROVE  ReadInv'
<1>1. UNCHANGED vars
  BY DEF Query, QueryStart, QueryLowest, QueryTail, QueryStaging, QueryTiers, QueryPublished, QueryEnd
<1>2. Lo' = Lo /\ Hi' = Hi /\ Pub' = Pub
  BY <1>1 DEF vars, tables, Lo, Hi, Pub
<1>11. buffer' = buffer
  BY <1>1 DEF vars, tables
<1>3. /\ Lo \in Nat /\ Pub \in Nat /\ Hi \in Nat /\ Pub <= Hi /\ MaxOffset \in Nat
      /\ Tiled(staging, Lo, Hi)
  BY InvFacts
<1>4. CASE \E o \in 1..MaxOffset, onOffset \in BOOLEAN : QueryStart(o, onOffset)
  <2>1. PICK o \in 1..MaxOffset, onOffset \in BOOLEAN : QueryStart(o, onOffset)
    BY <1>4
  <2>2. PICK s : s = SpanEnd
    OBVIOUS
  <2>3. s \in Nat /\ s <= Hi
    BY <1>3, <2>2, ReachFacts DEF SpanEnd, Tiled, Sized
  <2>4. /\ row' = o /\ bottom' = s /\ rpc' = "lowest" /\ tail' = tail /\ rpc = "idle"
    BY <2>1, <2>2 DEF QueryStart
  <2>5. row' \in Nat /\ 1 <= row' /\ row' <= MaxOffset
    BY <1>3, <2>4
  <2> QED
    BY <1>2, <1>11, <2>3, <2>4, <2>5 DEF ReadInv
<1>5. CASE QueryLowest
  <2>1. /\ rpc = "lowest" /\ UNCHANGED <<row, named, bottom, tail, snap, count>>
        /\ rpc' = IF BufferCouldMatch THEN "tail" ELSE "staging"
    BY <1>5 DEF QueryLowest
  <2>2. row \in Nat /\ 1 <= row /\ row <= MaxOffset /\ bottom \in Nat /\ bottom <= Hi /\ ~tail
    BY <2>1 DEF ReadInv
  <2>3. ASSUME ~BufferCouldMatch PROVE row < Hi
    <3>1. buffer # {} /\ ~(row >= Max({Min(buffer), bottom}))
      BY <2>3 DEF BufferCouldMatch
    <3>2. CASE row \notin buffer
      BY <1>3, <2>2, <3>2, BufferedOrPublished
    <3>3. CASE row \in buffer
      <4>1. PICK m : m = Min(buffer)
        OBVIOUS
      <4>2. m \in Nat /\ m <= row
        BY <3>3, <4>1, MinOfNaturals DEF ReadInv
      <4>3. Max({m, bottom}) = IF m <= bottom THEN bottom ELSE m
        BY <2>2, <4>2, TwoBetween
      <4>4. row < bottom
        BY <2>2, <3>1, <4>1, <4>2, <4>3
      <4> QED
        BY <1>3, <2>2, <4>4
    <3> QED
      BY <3>2, <3>3
  <2> QED
    BY <1>2, <1>11, <2>1, <2>2, <2>3 DEF ReadInv
<1>6. CASE QueryTail
  <2>1. /\ rpc = "tail" /\ UNCHANGED <<row, named, bottom, snap, count>>
        /\ tail' = (row \in buffer /\ row >= bottom) /\ rpc' = "staging"
    BY <1>6 DEF QueryTail
  <2>2. row \in Nat /\ 1 <= row /\ row <= MaxOffset /\ bottom \in Nat /\ bottom <= Hi
    BY <2>1 DEF ReadInv
  <2>3. tail' \/ row < Hi
    <3>1. row \notin buffer => row < Hi
      BY <1>3, <2>2, BufferedOrPublished
    <3>2. ~(row >= bottom) => row < Hi
      BY <1>3, <2>2
    <3> QED
      BY <2>1, <3>1, <3>2
  <2>4. tail' \in BOOLEAN
    BY <2>1
  <2> QED
    BY <1>2, <1>11, <2>1, <2>2, <2>3, <2>4 DEF ReadInv
<1>7. CASE QueryStaging
  <2>1. /\ rpc = "staging" /\ UNCHANGED <<row, named, bottom, tail, count>>
        /\ snap' = staging /\ rpc' = "tiers"
    BY <1>7 DEF QueryStaging
  <2>2. tail \/ row < Hi
    BY <2>1 DEF ReadInv
  <2>3. staging = {} => Lo = Hi
    BY DEF Lo, Hi, LoOf, HiOf
  <2>4. Lo <= Lo
    BY <1>3
  <2>5. Fits(staging, row, tail, Lo)
    BY <1>3, <2>2, <2>3, <2>4 DEF Fits
  <2> QED
    BY <1>2, <1>11, <2>1, <2>5 DEF ReadInv
<1>8. CASE QueryTiers
  <2>1. rpc = "tiers" /\ UNCHANGED <<row, named, bottom, tail, snap>>
    BY <1>8 DEF QueryTiers
  <2>2. CASE PublishedNeeded
    <3>1. rpc' = "published" /\ count' = count
      BY <1>8, <2>2 DEF QueryTiers
    <3> QED
      BY <1>2, <1>11, <2>1, <3>1 DEF ReadInv
  <2>3. CASE ~PublishedNeeded
    <3>1. rpc' = "done" /\ count' = CountLocal
      BY <1>8, <2>3 DEF QueryTiers
    <3>2. count' = 1
      BY <2>1, <2>3, <3>1, QueryTiersStep
    <3> QED
      BY <1>11, <2>1, <3>1, <3>2 DEF ReadInv
  <2> QED
    BY <2>2, <2>3
<1>9. CASE QueryPublished
  <2>1. /\ rpc = "published" /\ UNCHANGED <<row, named, bottom, tail, snap>> /\ rpc' = "done"
        /\ count' = IF published = {} THEN CountLocal ELSE CountAll
    BY <1>9 DEF QueryPublished
  <2>2. count' = 1
    BY <2>1, QueryPublishedStep
  <2> QED
    BY <1>11, <2>1, <2>2 DEF ReadInv
<1>10. CASE QueryEnd
  BY <1>10, <1>11 DEF QueryEnd, ReadInv
<1> QED
  BY <1>4, <1>5, <1>6, <1>7, <1>8, <1>9, <1>10 DEF Query

\* Both invariants hold of every behaviour in which commits are prompt.
LEMMA ReadHolds == PromptCommit => (ReadSpec => [](TiersInv /\ ReadInv))
<1> SUFFICES ASSUME PromptCommit PROVE ReadSpec => [](TiersInv /\ ReadInv)
  OBVIOUS
<1>1. ReadInit => TiersInv /\ ReadInv
  <2> SUFFICES ASSUME ReadInit PROVE TiersInv /\ ReadInv
    OBVIOUS
  <2>1. TiersInv
    BY TiersInit DEF ReadInit
  <2>2. rpc = "idle" /\ tail = FALSE
    BY DEF ReadInit
  <2>3. buffer \subseteq Nat
    BY TiersAssumption DEF ReadInit, Init
  <2>4. ReadInv
    BY <2>2, <2>3 DEF ReadInv
  <2> QED
    BY <2>1, <2>4
<1>2. TiersInv /\ ReadInv /\ [ReadNext]_allvars => (TiersInv /\ ReadInv)'
  <2> SUFFICES ASSUME TiersInv, ReadInv, [ReadNext]_allvars PROVE TiersInv' /\ ReadInv'
    OBVIOUS
  <2>1. CASE Next /\ UNCHANGED rvars
    BY <2>1, TiersStep, BufferShrinks, ReadLasts
  <2>2. CASE Query
    <3>1. UNCHANGED vars
      BY <2>2 DEF Query, QueryStart, QueryLowest, QueryTail, QueryStaging, QueryTiers, QueryPublished, QueryEnd
    <3> QED
      BY <2>2, <3>1, TiersStep, QueryStep
  <2>3. CASE UNCHANGED allvars
    <3>1. UNCHANGED vars /\ UNCHANGED rvars
      BY <2>3 DEF allvars
    <3> QED
      BY <3>1, TiersStep, BufferShrinks, ReadLasts
  <2> QED
    BY <2>1, <2>2, <2>3 DEF ReadNext
<1> QED
  BY <1>1, <1>2, PTL DEF ReadSpec

\* Every query returns every acknowledged row exactly once, however the seals,
\* merges, pushes, swaps and evictions of any number of workers land between
\* its four reads (Reader.query).
THEOREM EveryQueryReadsOnce == PromptCommit => (ReadSpec => []ReadsOnce)
<1>1. TiersInv /\ ReadInv => ReadsOnce
  BY DEF ReadInv, ReadsOnce
<1> QED
  BY <1>1, ReadHolds, PTL

-----------------------------------------------------------------------------
(***************************************************************************)
(* A single worker.  Where two publishers can undo each other's intents,   *)
(* files may be cut anywhere; where one worker runs every pass, with any   *)
(* failures and lapsed claims, the published files line up with the staged *)
(* ones.  No end of a staged file is ever inside a published file          *)
(* (CutsOutside).  That needs the watermark to be at the published end, or *)
(* the intents to tell what is published above it (Announced), whenever a  *)
(* merge decides where to cut; that a delete by offset rewrites no file;   *)
(* and that a push swaps every file across the published end before it     *)
(* uploads one, which names (OneName, FreshIs) must not prevent.           *)
(***************************************************************************)

\* A finite set of naturals has a greatest one.
Greatest(m, X) == m \in X /\ \A y \in X : y <= m

LEMMA FiniteHasGreatest ==
    ASSUME NEW S, IsFiniteSet(S), S \subseteq Nat, S # {}
    PROVE  \E m : Greatest(m, S)
<1> SUFFICES ASSUME ~ \E m : Greatest(m, S) PROVE FALSE
  OBVIOUS
<1>1. PICK C : C = {n \in Nat : \E X \in SUBSET S : X # {} /\ Cardinality(X) = n /\ ~ \E m : Greatest(m, X)}
  OBVIOUS
<1>2. Cardinality(S) \in C
  BY <1>1, FS_CardinalityType
<1>3. PICK n \in C : \A k \in C : n <= k
  BY <1>1, <1>2, MinOfNaturals
<1>4. PICK X \in SUBSET S : X # {} /\ Cardinality(X) = n /\ ~ \E m : Greatest(m, X)
  BY <1>1, <1>3
<1>5. PICK x \in X : TRUE
  BY <1>4
<1>6. PICK Y : Y = X \ {x}
  OBVIOUS
<1>7. IsFiniteSet(X) /\ n \in Nat
  BY <1>1, <1>3, FS_Subset
<1>8. Cardinality(Y) = n - 1 /\ IsFiniteSet(Y)
  BY <1>4, <1>5, <1>6, <1>7, FS_RemoveElement
<1>9. x \in Nat
  BY <1>4, <1>5
<1>10. CASE Y = {}
  <2>1. X = {x}
    BY <1>5, <1>6, <1>10
  <2>2. Greatest(x, X)
    BY <1>9, <2>1 DEF Greatest
  <2> QED
    BY <1>4, <2>2
<1>11. CASE Y # {}
  <2>1. Cardinality(Y) \in Nat /\ Cardinality(Y) < n
    BY <1>7, <1>8, FS_CardinalityType
  <2>2. Cardinality(Y) \notin C
    BY <1>1, <1>3, <2>1
  <2>3. Y \in SUBSET S
    BY <1>4, <1>6
  <2>4. PICK m : Greatest(m, Y)
    BY <1>1, <1>11, <2>1, <2>2, <2>3
  <2>5. m \in Nat /\ m \in X
    BY <1>6, <2>3, <2>4 DEF Greatest
  <2>6. \A y \in X : y \in Nat /\ (y = x \/ y <= m)
    BY <1>4, <1>6, <2>4 DEF Greatest
  <2>7. Greatest(x, X) \/ Greatest(m, X)
    BY <1>5, <1>9, <2>5, <2>6 DEF Greatest
  <2> QED
    BY <1>4, <2>7
<1> QED
  BY <1>10, <1>11

\* The members of a set up to one of them.
UpTo(S, p) == {q \in S : q <= p}

\* A finite set of naturals has a k-th member, up to its size.
LEMMA KthMember ==
    ASSUME NEW S, IsFiniteSet(S), S \subseteq Nat, NEW k \in Nat, 1 <= k, k <= Cardinality(S)
    PROVE  \E p \in S : Cardinality(UpTo(S, p)) = k
<1>1. PICK T : T = {p \in S : k <= Cardinality(UpTo(S, p))}
  OBVIOUS
<1>2. \A p : IsFiniteSet(UpTo(S, p)) /\ Cardinality(UpTo(S, p)) \in Nat
  <2> SUFFICES ASSUME NEW p PROVE IsFiniteSet(UpTo(S, p)) /\ Cardinality(UpTo(S, p)) \in Nat
    OBVIOUS
  <2>1. UpTo(S, p) \in SUBSET S
    BY DEF UpTo
  <2> QED
    BY <2>1, FS_Subset, FS_CardinalityType
<1>3. T # {}
  <2>1. S # {}
    BY FS_EmptySet
  <2>2. PICK m : Greatest(m, S)
    BY <2>1, FiniteHasGreatest
  <2>3. UpTo(S, m) = S /\ m \in S
    BY <2>2 DEF Greatest, UpTo
  <2> QED
    BY <1>1, <2>3
<1>4. PICK p \in T : \A y \in T : p <= y
  BY <1>1, <1>3, MinOfNaturals
<1>5. p \in S /\ p \in Nat /\ k <= Cardinality(UpTo(S, p))
  BY <1>1
<1>6. PICK B : B = UpTo(S, p) \ {p}
  OBVIOUS
<1>7. p \in UpTo(S, p)
  BY <1>5 DEF UpTo
<1>8. IsFiniteSet(B) /\ Cardinality(B) = Cardinality(UpTo(S, p)) - 1
  BY <1>2, <1>6, <1>7, FS_RemoveElement
<1>9. Cardinality(UpTo(S, p)) <= k
  <2> SUFFICES ASSUME ~(Cardinality(UpTo(S, p)) <= k) PROVE FALSE
    OBVIOUS
  <2>1. k <= Cardinality(B)
    BY <1>2, <1>8
  <2>2. B # {}
    BY <1>8, <2>1, FS_EmptySet
  <2>3. B \subseteq Nat
    BY <1>6 DEF UpTo
  <2>4. PICK m : Greatest(m, B)
    BY <1>8, <2>2, <2>3, FiniteHasGreatest
  <2>5. m \in S /\ m \in Nat /\ m < p
    BY <1>5, <1>6, <2>4 DEF Greatest, UpTo
  <2>6. UpTo(S, m) = B
    <3>1. \A q \in S : q \in Nat
      OBVIOUS
    <3>2. \A q \in S : q <= m => q \in B
      BY <1>5, <1>6, <2>5, <3>1 DEF UpTo
    <3>3. \A q \in B : q \in S /\ q <= m
      BY <1>6, <2>4 DEF Greatest, UpTo
    <3> QED
      BY <3>2, <3>3 DEF UpTo
  <2>7. m \in T
    BY <1>1, <2>1, <2>5, <2>6
  <2> QED
    BY <1>4, <1>5, <2>5, <2>7
<1> QED
  BY <1>2, <1>5, <1>9

\* Names not in use.
Unused == Paths \ UsedPaths

\* A fresh name is in use nowhere, and tells which of them it is.
LEMMA FreshIs ==
    ASSUME NEW n, CanName(n), n \in Nat, NEW k \in Nat, 1 <= k, k <= n
    PROVE  Fresh(k) \in Unused /\ Cardinality(UpTo(Unused, Fresh(k))) = k
<1>1. IsFiniteSet(Unused) /\ Unused \subseteq Nat
  BY TiersAssumption, FS_Subset DEF Unused
<1>2. Cardinality(Unused) \in Nat /\ k <= Cardinality(Unused)
  BY <1>1, FS_CardinalityType DEF CanName, Unused
<1>3. \E p \in Unused : Cardinality(UpTo(Unused, p)) = k
  BY <1>1, <1>2, KthMember
<1>4. Fresh(k) = CHOOSE p \in Unused : Cardinality(UpTo(Unused, p)) = k
  BY Zenon DEF Fresh, Unused, UpTo
<1> QED
  BY <1>3, <1>4

\* The rank of a start among the starts of a merge's outputs.
LEMMA RankIs ==
    ASSUME NEW S, IsFiniteSet(S), S \subseteq Nat, NEW x \in S, NEW y \in S
    PROVE  /\ Cardinality(UpTo(S, x)) \in Nat /\ 1 <= Cardinality(UpTo(S, x))
           /\ Cardinality(UpTo(S, x)) <= Cardinality(S)
           /\ Cardinality(UpTo(S, x)) = Cardinality(UpTo(S, y)) => x = y
<1>1. ASSUME NEW a \in S
      PROVE  /\ IsFiniteSet(UpTo(S, a)) /\ Cardinality(UpTo(S, a)) \in Nat /\ a \in UpTo(S, a)
             /\ Cardinality(UpTo(S, a)) <= Cardinality(S)
  <2>1. UpTo(S, a) \in SUBSET S /\ a \in UpTo(S, a)
    BY DEF UpTo
  <2> QED
    BY <2>1, FS_Subset, FS_CardinalityType
<1>2. Cardinality(UpTo(S, x)) # 0
  BY <1>1, FS_EmptySet
<1>3. ASSUME NEW a \in S, NEW b \in S, a <= b, Cardinality(UpTo(S, a)) = Cardinality(UpTo(S, b))
      PROVE  a = b
  <2>0. \A q \in S : q \in Nat /\ a \in Nat /\ b \in Nat
    OBVIOUS
  <2>a. \A q \in S : q <= a => q <= b
    BY <1>3, <2>0
  <2>1. UpTo(S, a) \in SUBSET UpTo(S, b)
    BY <2>a DEF UpTo
  <2>2. UpTo(S, a) = UpTo(S, b)
    BY <1>1, <1>3, <2>1, FS_Subset
  <2>3. b <= a
    BY <1>1, <2>2 DEF UpTo
  <2> QED
    BY <1>3, <2>3
<1>4. x <= y \/ y <= x
  OBVIOUS
<1> QED
  BY <1>1, <1>2, <1>3, <1>4

\* There is one worker.
Alone == \A v, w \in Workers : v = w

\* An offset is inside no file of a table; nor are the ends of some files.
Outside(c, P) == \A p \in P : ~(p.start < c /\ c < p.end)
CutsOutside(S, P) == \A f \in S : Outside(f.start, P) /\ Outside(f.end, P)

\* A name is one file's.
OneName(F) == \A f, g \in F : f.path = g.path => f = g
NewNames(O, F) == \A f \in O, g \in F : f.path # g.path

\* What is published above the watermark is intended.
Announced ==
    through + 1 < Pub => \A g \in staging : g.start < Pub => Covered(LandedOrIntended, g)

\* A file that reaches across the published end, and can be swapped.
Across(f, c) == f.start < c /\ c < f.end
Meets(h, f) == h.end > f.start /\ h.start < f.end
Swappable(f, H) ==
    /\ \E h \in H : Meets(h, f)
    /\ \A h \in H : Meets(h, f) => h.start >= f.start /\ h.end <= f.end /\ h.path # f.path

MergeAlone(k, j) ==
    /\ k \in {"merge", "mergefence", "mergecommit"} =>
         /\ j.seen \subseteq staging
         /\ through + 1 < Pub => \A f \in j.seen : f.start >= Pub
    /\ k \in {"mergefence", "mergecommit"} =>
         CutsOutside(j.outs, published) /\ OneName(j.outs) /\ NewNames(j.outs, staging \cup published)

SwapAlone(k, j) ==
    /\ k \in {"row", "rowwrite", "reconcile"} =>
         j.seen \subseteq staging /\ j.held = published /\ j.floor = PublishedEnd
    /\ k \in Swapping =>
         /\ j.seen \subseteq staging
         /\ \A f \in j.seen : Across(f, j.floor) /\ (f \in Settled(j.seen) \/ j.force) =>
                                f \in j.todo /\ Swappable(f, j.held)
    /\ k \in {"swap", "swapfence", "swapcommit"} => j.floor = PublishedEnd
    /\ k \in Swapping \ {"swapconfirm"} => through + 1 = Pub
    /\ k = "swapconfirm" => through + 1 = Pub \/ Pub = First(j.todo).end
    /\ k \in {"swapconfirm", "swapclear"} => PublishedEnd = Max({j.floor, First(j.todo).end})
    /\ k \in {"swap", "swapclear"} => intents = {}
    /\ k \in {"swapfence", "swapcommit", "swapconfirm"} => intents = {First(j.todo)}

PushAlone(k, j) ==
    /\ k \in {"upload", "register"} =>
         /\ through + 1 = Pub
         /\ j.outs \cup j.todo \subseteq staging /\ \A f \in j.outs \cup j.todo : f.start >= Pub
         /\ j.outs \subseteq intents
    /\ k = "confirm" => Pub = Last(j.outs).end

EvictAlone(k, j) == k \in {"widen", "evictcommit"} => j.seen \subseteq staging

\* What a pass has in hand, and the tables it works on.
Hand(k, j) == MergeAlone(k, j) /\ SwapAlone(k, j) /\ PushAlone(k, j) /\ EvictAlone(k, j)
Shared == CutsOutside(staging, published) /\ OneName(staging \cup published) /\ Announced
AloneInv == Shared /\ \A w \in Workers : Hand(pc[w], job[w])

\* The files of the two tables, and where the published one ends.
LEMMA TableFacts ==
    ASSUME TiersInv
    PROVE  /\ \A f \in staging : f.start \in Nat /\ f.end \in Nat /\ 1 <= f.start /\ f.start < f.end
           /\ \A f, g \in staging : f = g \/ f.end <= g.start \/ g.end <= f.start
           /\ \A p \in published : /\ p.start \in Nat /\ p.end \in Nat /\ p.start < p.end
                                   /\ p.end <= Pub
           /\ PublishedEnd \in Nat /\ Pub \in Nat /\ PublishedEnd <= Pub
           /\ PublishedEnd = Pub \/ (PublishedEnd = 0 /\ Pub = 1)
           /\ through \in Nat /\ through < Pub
<1>1. /\ Lo \in Nat /\ Pub \in Nat /\ 1 <= Lo /\ Tiled(staging, Lo, Hi) /\ Tiled(published, 1, Pub)
      /\ through \in Nat /\ through < Pub
  BY InvFacts
<1>2. \A f \in staging : f.start \in Nat /\ f.end \in Nat /\ 1 <= f.start /\ f.start < f.end
  BY <1>1 DEF Tiled, Sized
<1>3. \A f, g \in staging : f = g \/ f.end <= g.start \/ g.end <= f.start
  BY <1>1 DEF Tiled, Disjoint
<1>4. \A p \in published : p.start \in Nat /\ p.end \in Nat /\ p.start < p.end /\ p.end <= Pub
  BY <1>1 DEF Tiled, Sized
<1>5. PICK e : e = PublishedEnd
  OBVIOUS
<1>6. e \in Nat /\ e <= Pub /\ (e # 0 => \E p \in published : p.end = e)
  BY <1>1, <1>4, <1>5, ReachFacts DEF PublishedEnd
<1>7. published = {} => e = 0 /\ Pub = 1
  BY <1>6 DEF Pub, PubOf
<1>8. published # {} => e = Pub
  BY <1>5 DEF Pub, PubOf, PublishedEnd
<1> QED
  BY <1>1, <1>2, <1>3, <1>4, <1>5, <1>6, <1>7, <1>8

\* A deletion whose ends are inside no file rewrites none.
LEMMA CleanWithout ==
    ASSUME NEW F, \A f \in F : f.start \in Nat /\ f.end \in Nat, NEW lo \in Nat, NEW hi \in Nat,
           Outside(lo, F), Outside(hi, F)
    PROVE  Without(F, lo, hi) = Kept(F, lo, hi)
<1>1. {f \in F : f.start < lo /\ f.end > lo} = {} /\ {f \in F : f.start < hi /\ f.end > hi} = {}
  BY DEF Outside
<1> QED
  BY <1>1 DEF Without, Kept

\* The one worker's pass is all there is.
LEMMA OnlyOne ==
    ASSUME Alone, NEW w \in Workers, Shared', Hand(pc[w], job[w])'
    PROVE  AloneInv'
BY DEF Alone, AloneInv

\* A step that leaves the tables, the watermark and the intents alone.
LEMMA SharedKept ==
    ASSUME Shared, UNCHANGED <<staging, published, through, intents>>
    PROVE  Shared'
<1>1. UNCHANGED <<Pub, LandedOrIntended>>
  BY DEF Pub, PubOf, LandedOrIntended, Landed
<1> QED
  BY <1>1 DEF Shared, Announced

\* One after which the watermark is at the published end.
LEMMA SharedCaught ==
    ASSUME Shared, UNCHANGED <<staging, published>>, through' + 1 = Pub, Pub \in Nat
    PROVE  Shared'
<1>1. Pub' = Pub
  BY DEF Pub, PubOf
<1>2. through' + 1 = Pub' /\ Pub' \in Nat
  BY <1>1
<1>3. ~(through' + 1 < Pub')
  BY <1>2
<1>4. Announced'
  BY <1>3 DEF Announced
<1> QED
  BY <1>4 DEF Shared

\* Where a pass has nothing in hand yet, or any more.
Bare == {"idle", "release", "compact", "publish", "evict", "recheck", "decide", "reload",
         "mergeread", "mergerecord"}

LEMMA BareHand ==
    ASSUME NEW w \in Workers, pc'[w] \in Bare
    PROVE  Hand(pc[w], job[w])'
BY DEF Bare, Hand, MergeAlone, SwapAlone, PushAlone, EvictAlone, Swapping

LEMMA BareStep ==
    ASSUME Alone, AloneInv, NEW w \in Workers, pc'[w] \in Bare,
           UNCHANGED <<staging, published, through, intents>>
    PROVE  AloneInv'
BY BareHand, SharedKept, OnlyOne DEF AloneInv

\* What compaction may merge is above all that is published, unless the watermark
\* tells how far that is.
LEMMA CandidatesAbove ==
    ASSUME TiersInv, Shared, NEW f \in Candidates, through + 1 < Pub
    PROVE  f.start >= Pub
<1> SUFFICES ASSUME ~(f.start >= Pub) PROVE FALSE
  OBVIOUS
<1>1. /\ Lo \in Nat /\ Pub \in Nat /\ Hi \in Nat /\ Lo <= Pub /\ Pub <= Hi
      /\ Tiled(staging, Lo, Hi) /\ through \in Nat
  BY InvFacts
<1>2. PICK x, y, X : /\ X = CoveredPrefix(staging, LandedOrIntended) /\ y = ReachOf(X)
                     /\ x = ReachOf(CoveredPrefix(staging, Landed))
  OBVIOUS
<1>3. f \in staging /\ (y > x => f.start >= y)
  BY <1>2 DEF Candidates
<1>4. Sized(staging, Lo, Hi) /\ Filled(staging, Lo, Hi)
  BY <1>1 DEF Tiled
<1>5. \A g \in staging : g.start \in Nat /\ g.end \in Nat /\ Lo <= g.start /\ g.start < g.end /\ g.end <= Hi
  BY <1>4 DEF Sized
<1>6. f.start < Pub
  BY <1>1, <1>3, <1>5
<1>7. ASSUME NEW h \in staging, h.start < Pub PROVE h \in X
  <2>1. \A g \in staging : g.start <= h.start => g.start < Pub
    BY <1>1, <1>5, <1>7
  <2>2. \A g \in staging : g.start <= h.start => Covered(LandedOrIntended, g)
    BY <2>1 DEF Shared, Announced
  <2> QED
    BY <1>2, <1>7, <2>2 DEF CoveredPrefix
<1>8. PICK o \in Nat : o = Pub - 1
  BY <1>1, <1>3, <1>5, <1>6
<1>9. o \in Lo..Hi - 1
  BY <1>1, <1>3, <1>5, <1>6, <1>8
<1>10. PICK g \in staging : o \in Span(g)
  BY <1>4, <1>9 DEF Filled
<1>11. g.start <= o /\ o < g.end
  BY <1>5, <1>10, SpanIs
<1>12. g \in X /\ f \in X
  BY <1>1, <1>3, <1>5, <1>6, <1>7, <1>8, <1>11
<1>13. X \subseteq staging
  BY <1>2 DEF CoveredPrefix
<1>14. y \in Nat /\ g.end <= y /\ f.end <= y
  BY <1>1, <1>2, <1>5, <1>12, <1>13, ReachFacts
<1>15. x \in Nat /\ x <= through + 1
  BY <1>1, <1>2, <1>4, CoveredEnds DEF Landed
<1>16. y > x
  BY <1>1, <1>5, <1>8, <1>11, <1>14, <1>15
<1> QED
  BY <1>3, <1>5, <1>14, <1>16

\* The label a step goes to.
LEMMA GoIs ==
    ASSUME TiersInv, NEW w \in Workers, NEW k, Go(w, k)
    PROVE  pc'[w] = k
BY DEF Go, TiersInv, Shaped

LEMMA JobIs ==
    ASSUME TiersInv, NEW w \in Workers, NEW j, job' = [job EXCEPT ![w] = j]
    PROVE  job'[w] = j
<1>1. job = [v \in Workers |-> job[v]]
  BY DEF TiersInv, Shaped
<1> QED
  BY <1>1

\* A pass that ends.
LEMMA LeaveAlone ==
    ASSUME Alone, TiersInv, AloneInv, NEW w \in Workers, Leave(w),
           UNCHANGED <<staging, published, through, intents>>
    PROVE  AloneInv'
<1>1. pc'[w] \in Bare
  BY GoIs DEF Leave, Bare
<1> QED
  BY <1>1, BareStep

\* Steps after which a pass has nothing in hand.
LEMMA BareAlone ==
    ASSUME Alone, TiersInv, AloneInv, NEW w \in Workers,
           Acquire(w) \/ Release(w) \/ Start(w) \/ Fail(w) \/ ReadThrough(w) \/ RecordMerge(w)
    PROVE  AloneInv'
<1>1. UNCHANGED <<staging, published, through, intents>>
  <2>1. CASE Acquire(w) \/ Release(w)
    BY <2>1 DEF Acquire, Release, tables, meta
  <2>2. CASE Start(w)
    BY <2>2 DEF Start, PickRun, PickPush, PickBoundary, Begin, tables, meta
  <2>3. CASE Fail(w) \/ ReadThrough(w) \/ RecordMerge(w)
    BY <2>3 DEF Fail, ReadThrough, RecordMerge, tables, meta
  <2> QED
    BY <2>1, <2>2, <2>3
<1>2. PICK k \in Bare : Go(w, k)
  <2>1. CASE Acquire(w)
    <3>1. pc[w] \in {"compact", "publish", "evict"} /\ (Go(w, Entry[pc[w]]) \/ Go(w, "idle"))
      BY <2>1 DEF Acquire
    <3>2. Entry[pc[w]] \in Bare
      BY <3>1 DEF Entry, Bare
    <3> QED
      BY <3>1, <3>2 DEF Bare
  <2>2. CASE Start(w)
    <3>1. \E k \in {"compact", "publish", "evict"} : Go(w, k)
      BY <2>2 DEF Start, PickRun, PickPush, PickBoundary, Begin
    <3> QED
      BY <3>1 DEF Bare
  <2>3. CASE Release(w) \/ Fail(w) \/ ReadThrough(w) \/ RecordMerge(w)
    BY <2>3 DEF Release, Fail, ReadThrough, RecordMerge, Leave, Bare
  <2> QED
    BY <2>1, <2>2, <2>3
<1> QED
  BY <1>1, <1>2, GoIs, BareStep

\* What is in hand stays so while nothing of the log changes.
LEMMA HandKept ==
    ASSUME NEW w \in Workers, NEW k, NEW j, Hand(k, j), pc'[w] = k, job'[w] = j,
           UNCHANGED <<staging, published, through, intents>>
    PROVE  Hand(pc[w], job[w])'
<1>1. Pub' = Pub /\ PublishedEnd' = PublishedEnd
  BY DEF Pub, PubOf, PublishedEnd
<1>2. MergeAlone(pc[w], job[w])'
  BY <1>1 DEF Hand, MergeAlone
<1>3. SwapAlone(pc[w], job[w])'
  BY <1>1 DEF Hand, SwapAlone
<1>4. PushAlone(pc[w], job[w])' /\ EvictAlone(pc[w], job[w])'
  BY <1>1 DEF Hand, PushAlone, EvictAlone
<1> QED
  BY <1>2, <1>3, <1>4 DEF Hand

LEMMA HandStep ==
    ASSUME Alone, TiersInv, AloneInv, NEW w \in Workers, NEW k, NEW j, Hand(k, j), Go(w, k),
           job' = [job EXCEPT ![w] = j], UNCHANGED <<staging, published, through, intents>>
    PROVE  AloneInv'
<1>1. pc'[w] = k /\ job'[w] = j
  BY GoIs, JobIs
<1>2. Hand(pc[w], job[w])'
  BY <1>1, HandKept
<1> QED
  BY <1>2, SharedKept, OnlyOne DEF AloneInv

\* A checkpoint.
LEMMA CheckpointAlone ==
    ASSUME Alone, TiersInv, AloneInv, NEW w \in Workers, NEW k, Checkpoint(w, k), Hand(k, job[w]),
           UNCHANGED <<staging, published, through, intents>>
    PROVE  AloneInv'
<1>1. CASE ~Held(w)
  BY <1>1, LeaveAlone DEF Checkpoint
<1>2. CASE Held(w)
  <2>1. Go(w, k) /\ job' = job
    BY <1>2 DEF Checkpoint
  <2>2. pc'[w] = k /\ job'[w] = job[w]
    BY <2>1, GoIs
  <2>3. Hand(pc[w], job[w])'
    BY <2>2, HandKept
  <2> QED
    BY <2>3, SharedKept, OnlyOne DEF AloneInv
<1> QED
  BY <1>1, <1>2

\* The run is looked at again under the claim.
LEMMA RecheckRunAlone ==
    ASSUME Alone, TiersInv, AloneInv, NEW w \in Workers, RecheckRun(w)
    PROVE  AloneInv'
<1>1. UNCHANGED <<staging, published, through, intents>>
  BY DEF RecheckRun, tables, meta
<1>2. CASE ~(job[w].seen \subseteq Candidates)
  BY <1>1, <1>2, LeaveAlone DEF RecheckRun
<1>3. CASE job[w].seen \subseteq Candidates
  <2>1. Go(w, "merge") /\ job' = job
    BY <1>3 DEF RecheckRun
  <2>2. job[w].seen \subseteq staging
    BY <1>3 DEF Candidates
  <2>3. through + 1 < Pub => \A f \in job[w].seen : f.start >= Pub
    BY <1>3, CandidatesAbove DEF AloneInv
  <2>4. Hand("merge", job[w])
    BY <2>2, <2>3 DEF Hand, MergeAlone, SwapAlone, PushAlone, EvictAlone, Swapping
  <2>5. pc'[w] = "merge" /\ job'[w] = job[w]
    BY <2>1, GoIs
  <2>6. Hand(pc[w], job[w])'
    BY <1>1, <2>4, <2>5, HandKept
  <2> QED
    BY <1>1, <2>6, SharedKept, OnlyOne DEF AloneInv
<1> QED
  BY <1>2, <1>3

\* The ends of a staged file are inside no other.
LEMMA CutsOfTable ==
    ASSUME TiersInv, NEW f \in staging
    PROVE  Outside(f.start, staging) /\ Outside(f.end, staging)
<1>1. ASSUME NEW g \in staging
      PROVE  ~(g.start < f.start /\ f.start < g.end) /\ ~(g.start < f.end /\ f.end < g.end)
  <2>1. /\ f.start \in Nat /\ f.end \in Nat /\ f.start < f.end
        /\ g.start \in Nat /\ g.end \in Nat /\ g.start < g.end
        /\ f = g \/ f.end <= g.start \/ g.end <= f.start
    BY TableFacts
  <2> QED
    BY <2>1
<1> QED
  BY <1>1 DEF Outside

\* The ends of a run.
LEMMA RunEnds ==
    ASSUME TiersInv, NEW R, R \subseteq staging, R # {}
    PROVE  First(R) \in R /\ Last(R) \in R
<1>1. Hi \in Nat /\ Tiled(staging, Lo, Hi)
  BY InvFacts
<1>2. \A f \in R : f.start \in Nat /\ f.end \in Nat /\ f.end <= Hi
  BY <1>1 DEF Tiled, Sized
<1> QED
  BY <1>1, <1>2, FirstIs, LastIs

\* The outputs of a merge: inside no published file they end, and they have names
\* of their own.
LEMMA WriteMergeAlone ==
    ASSUME Alone, TiersInv, AloneInv, NEW w \in Workers, WriteMerge(w)
    PROVE  AloneInv'
<1>1. UNCHANGED <<staging, published, through, intents>> /\ pc[w] = "merge"
  BY DEF WriteMerge, tables, meta
<1>2. CASE ~Held(w)
  BY <1>1, <1>2, LeaveAlone DEF WriteMerge
<1>3. CASE Held(w)
  <2>1. Local(w) /\ IsJob(job[w]) /\ Holding(w) /\ Hand(pc[w], job[w]) /\ Shared
    BY DEF TiersInv, Shaped, Claimed, AloneInv
  <2>2. PICK s \in Nat, e \in Nat : s = job[w].start /\ e = job[w].end /\ s < e
    BY <1>1, <2>1 DEF Holding, Busy, PC
  <2>3. s = First(job[w].seen).start /\ e = Last(job[w].seen).end /\ job[w].seen # {}
    BY <1>1, <2>1, <2>2 DEF Local, MergeJob
  <2>4. /\ job[w].seen \subseteq staging
        /\ through + 1 < Pub => \A f \in job[w].seen : f.start >= Pub
    BY <1>1, <2>1 DEF Hand, MergeAlone
  <2>5. First(job[w].seen) \in job[w].seen /\ Last(job[w].seen) \in job[w].seen
    BY <2>3, <2>4, RunEnds
  <2>6. PICK c \in Cuts(job[w].seen, through + 1) :
          LET starts == {job[w].start} \cup c
              rank(x) == Cardinality({y \in starts : y <= x})
          IN  /\ CanName(Cardinality(starts))
              /\ job' = [job EXCEPT ![w].outs =
                   {[start |-> x,
                     end |-> Min({job[w].end} \cup {y \in c : y > x}),
                     path |-> Fresh(rank(x))] : x \in starts}]
              /\ Go(w, "mergefence")
    BY <1>3 DEF WriteMerge
  <2>7. c \subseteq s + 1..e - 1
    BY <2>3, <2>6 DEF Cuts
  <2>8. \A x \in c : x >= through + 1 \/ \E f \in job[w].seen : x = f.end
    BY <2>6 DEF Cuts
  <2>9. PICK T : T = {s} \cup c
    OBVIOUS
  <2>10. PICK O : O = {[start |-> x, end |-> CutAt(x, c, e),
                        path |-> Fresh(Cardinality(UpTo(T, x)))] : x \in T}
    OBVIOUS
  <2>11. job' = [job EXCEPT ![w].outs = O] /\ Go(w, "mergefence") /\ CanName(Cardinality(T))
    BY <2>2, <2>6, <2>9, <2>10 DEF CutAt, UpTo
  <2>12. ASSUME NEW f \in O
         PROVE  /\ f.start \in T /\ f.end = CutAt(f.start, c, e)
                /\ f = [start |-> f.start, end |-> CutAt(f.start, c, e),
                        path |-> Fresh(Cardinality(UpTo(T, f.start)))]
                /\ f.path = Fresh(Cardinality(UpTo(T, f.start)))
    <3>1. PICK x \in T : f = [start |-> x, end |-> CutAt(x, c, e),
                              path |-> Fresh(Cardinality(UpTo(T, x)))]
      BY <2>10
    <3>2. f.start = x /\ f.end = CutAt(x, c, e) /\ f.path = Fresh(Cardinality(UpTo(T, x)))
      BY <3>1
    <3> QED
      BY <3>1, <3>2
  <2>13. \A x \in T \cup {e} : Outside(x, published)
    <3>1. /\ \A p \in published : p.start \in Nat /\ p.end \in Nat /\ p.end <= Pub
          /\ Pub \in Nat /\ through \in Nat /\ through < Pub
      BY TableFacts
    <3>2. Outside(s, published) /\ Outside(e, published)
      BY <2>1, <2>3, <2>4, <2>5 DEF Shared, CutsOutside
    <3>3. ASSUME NEW x \in c PROVE Outside(x, published)
      <4>1. x \in Nat /\ s < x
        BY <2>7
      <4>2. CASE \E f \in job[w].seen : x = f.end
        BY <2>1, <2>4, <4>2 DEF Shared, CutsOutside
      <4>3. CASE x >= through + 1
        <5>1. x >= Pub
          <6>1. CASE through + 1 < Pub
            BY <2>3, <2>4, <2>5, <3>1, <4>1, <6>1
          <6>2. CASE ~(through + 1 < Pub)
            BY <3>1, <4>1, <4>3, <6>2
          <6> QED
            BY <6>1, <6>2
        <5> QED
          BY <3>1, <4>1, <5>1 DEF Outside
      <4> QED
        BY <2>8, <4>2, <4>3
    <3> QED
      BY <2>9, <3>2, <3>3
  <2>14. CutsOutside(O, published)
    <3> SUFFICES ASSUME NEW f \in O PROVE Outside(f.start, published) /\ Outside(f.end, published)
      BY DEF CutsOutside
    <3>1. f.start \in T /\ f.end = CutAt(f.start, c, e)
      BY <2>12
    <3>2. s \in Nat /\ e \in Nat /\ s < e /\ f.start \in {s} \cup c
      BY <2>2, <2>9, <3>1
    <3>3. CutAt(f.start, c, e) = e \/ CutAt(f.start, c, e) \in c
      BY <2>7, <3>2, CutAtIs
    <3>4. f.end = e \/ f.end \in c
      BY <3>1, <3>3
    <3> QED
      BY <2>9, <2>13, <3>1, <3>4
  <2>15. T \subseteq Nat /\ IsFiniteSet(T)
    <3>0. s \in Int /\ e \in Int /\ s \in Nat /\ e \in Nat /\ s < e
      BY <2>2
    <3>1. ASSUME NEW x \in T PROVE x \in s..e /\ x \in Nat
      BY <2>7, <2>9, <3>0
    <3>2. IsFiniteSet(s..e)
      BY <3>0, FS_Interval
    <3>3. T \in SUBSET (s..e) /\ T \subseteq Nat
      BY <3>1
    <3> QED
      BY <3>2, <3>3, FS_Subset
  <2>16. ASSUME NEW f \in O
         PROVE  /\ f.path \in Unused
                /\ Cardinality(UpTo(Unused, f.path)) = Cardinality(UpTo(T, f.start))
    <3>1. PICK k : k = Cardinality(UpTo(T, f.start))
      OBVIOUS
    <3>2. f.start \in T /\ f.path = Fresh(k)
      BY <2>12, <3>1
    <3>3. k \in Nat /\ 1 <= k /\ k <= Cardinality(T)
      BY <2>15, <3>1, <3>2, RankIs
    <3>4. Cardinality(T) \in Nat
      BY <2>15, FS_CardinalityType
    <3> QED
      BY <2>11, <3>1, <3>2, <3>3, <3>4, FreshIs
  <2>17. OneName(O)
    <3> SUFFICES ASSUME NEW f \in O, NEW g \in O, f.path = g.path PROVE f = g
      BY DEF OneName
    <3>1. Cardinality(UpTo(T, f.start)) = Cardinality(UpTo(T, g.start))
      BY <2>16
    <3>2. f.start = g.start
      BY <2>12, <2>15, <3>1, RankIs
    <3> QED
      BY <2>12, <3>2, Zenon
  <2>18. NewNames(O, staging \cup published)
    <3> SUFFICES ASSUME NEW f \in O, NEW g \in staging \cup published PROVE f.path # g.path
      BY DEF NewNames
    <3>1. g.path \in UsedPaths
      BY DEF UsedPaths
    <3> QED
      BY <2>16, <3>1 DEF Unused
  <2>19. PICK j : j = [job[w] EXCEPT !.outs = O]
    OBVIOUS
  <2>20. job' = [job EXCEPT ![w] = j]
    BY <2>11, <2>19
  <2>21. IsJob(j) /\ j.outs = O /\ j.seen = job[w].seen
    BY <2>1, <2>19, OutsSet
  <2>22. Hand("mergefence", j)
    BY <2>4, <2>14, <2>17, <2>18, <2>21
       DEF Hand, MergeAlone, SwapAlone, PushAlone, EvictAlone, Swapping
  <2> QED
    BY <1>1, <2>11, <2>20, <2>22, HandStep
<1> QED
  BY <1>2, <1>3

\* What is known of a worker's pass.
LEMMA AloneFacts ==
    ASSUME TiersInv, AloneInv, NEW w \in Workers
    PROVE  Local(w) /\ IsJob(job[w]) /\ Holding(w) /\ Hand(pc[w], job[w]) /\ Shared
BY DEF TiersInv, Shaped, Claimed, AloneInv

\* The checkpoints that only renew, and the eviction's that widens the tier row.
LEMMA FencesAlone ==
    ASSUME Alone, TiersInv, AloneInv, NEW w \in Workers,
           FenceMerge(w) \/ FenceSwap(w) \/ FencePush(w) \/ WidenTier(w)
    PROVE  AloneInv'
<1>1. Hand(pc[w], job[w])
  BY AloneFacts
<1>2. UNCHANGED <<staging, published, through, intents>>
  BY DEF FenceMerge, FenceSwap, FencePush, WidenTier, tables, meta
<1>3. PICK k : /\ Checkpoint(w, k)
               /\ \/ pc[w] = "mergefence" /\ k = "mergecommit"
                  \/ pc[w] = "swapfence" /\ k = "swapcommit"
                  \/ pc[w] = "upload" /\ k = "register"
                  \/ pc[w] = "widen" /\ k = "evictcommit"
  BY DEF FenceMerge, FenceSwap, FencePush, WidenTier
<1>4. Hand(k, job[w])
  <2>1. CASE pc[w] = "mergefence" /\ k = "mergecommit"
    BY <1>1, <2>1 DEF Hand, MergeAlone, SwapAlone, PushAlone, EvictAlone, Swapping
  <2>2. CASE pc[w] = "swapfence" /\ k = "swapcommit"
    BY <1>1, <2>2 DEF Hand, MergeAlone, SwapAlone, PushAlone, EvictAlone, Swapping
  <2>3. CASE pc[w] = "upload" /\ k = "register"
    BY <1>1, <2>3 DEF Hand, MergeAlone, SwapAlone, PushAlone, EvictAlone, Swapping
  <2>4. CASE pc[w] = "widen" /\ k = "evictcommit"
    BY <1>1, <2>4 DEF Hand, MergeAlone, SwapAlone, PushAlone, EvictAlone, Swapping
  <2> QED
    BY <1>3, <2>1, <2>2, <2>3, <2>4
<1> QED
  BY <1>2, <1>3, <1>4, CheckpointAlone

\* A push reloads both tables.
LEMMA ReloadAlone ==
    ASSUME Alone, TiersInv, AloneInv, NEW w \in Workers, ReloadTables(w)
    PROVE  AloneInv'
<1>1. IsJob(job[w])
  BY AloneFacts
<1>2. PICK x : x = [job[w] EXCEPT !.seen = staging]
  OBVIOUS
<1>3. PICK y : y = [x EXCEPT !.held = published]
  OBVIOUS
<1>4. PICK j : j = [y EXCEPT !.floor = PublishedEnd]
  OBVIOUS
<1>5. IsJob(x) /\ x.seen = staging
  BY <1>1, <1>2, SeenSet
<1>6. IsJob(y) /\ y.seen = staging /\ y.held = published
  BY <1>3, <1>5, HeldSet
<1>7. j.seen = staging /\ j.held = published /\ j.floor = PublishedEnd
  BY <1>4, <1>6, FloorSet
<1>8. job' = [job EXCEPT ![w] = j]
  BY <1>2, <1>3, <1>4 DEF ReloadTables
<1>9. PICK k \in {"row", "reconcile"} : Go(w, k)
  BY DEF ReloadTables
<1>10. Hand(k, j)
  BY <1>7, <1>9 DEF Hand, MergeAlone, SwapAlone, PushAlone, EvictAlone, Swapping
<1>11. UNCHANGED <<staging, published, through, intents>>
  BY DEF ReloadTables, tables, meta
<1> QED
  BY <1>8, <1>9, <1>10, <1>11, HandStep

\* The tier row of a push that found none.
LEMMA ReadRowAlone ==
    ASSUME Alone, TiersInv, AloneInv, NEW w \in Workers, ReadRow(w)
    PROVE  AloneInv'
<1>1. IsJob(job[w]) /\ Hand("row", job[w])
  BY AloneFacts DEF ReadRow
<1>2. UNCHANGED <<staging, published, through, intents>>
  BY DEF ReadRow, tables, meta
<1>3. CASE ~Held(w)
  BY <1>2, <1>3, LeaveAlone DEF ReadRow
<1>4. CASE Held(w)
  <2>1. PICK j : j = [job[w] EXCEPT !.seen = staging]
    OBVIOUS
  <2>2. j.seen = staging /\ j.held = job[w].held /\ j.floor = job[w].floor
    BY <1>1, <2>1, SeenSet
  <2>3. job' = [job EXCEPT ![w] = j] /\ Go(w, "rowwrite")
    BY <1>4, <2>1 DEF ReadRow
  <2>4. Hand("rowwrite", j)
    BY <1>1, <2>2 DEF Hand, MergeAlone, SwapAlone, PushAlone, EvictAlone, Swapping
  <2> QED
    BY <1>2, <2>3, <2>4, HandStep
<1> QED
  BY <1>3, <1>4

LEMMA WriteRowAlone ==
    ASSUME Alone, TiersInv, AloneInv, NEW w \in Workers, WriteRow(w)
    PROVE  AloneInv'
<1>1. Hand("rowwrite", job[w])
  BY AloneFacts DEF WriteRow
<1>2. UNCHANGED <<staging, published, through, intents, job>> /\ Go(w, "reconcile")
  BY DEF WriteRow, tables
<1>3. Hand("reconcile", job[w])
  BY <1>1 DEF Hand, MergeAlone, SwapAlone, PushAlone, EvictAlone, Swapping
<1>4. pc'[w] = "reconcile" /\ job'[w] = job[w]
  BY <1>2, GoIs
<1>5. Hand(pc[w], job[w])'
  BY <1>2, <1>3, <1>4, HandKept
<1> QED
  BY <1>2, <1>5, SharedKept, OnlyOne DEF AloneInv

\* Eviction decides what goes.
LEMMA DecideAlone ==
    ASSUME Alone, TiersInv, AloneInv, NEW w \in Workers, DecideEvict(w)
    PROVE  AloneInv'
<1>1. UNCHANGED <<staging, published, through, intents>> /\ IsJob(job[w])
  BY AloneFacts DEF DecideEvict, tables, meta
<1>2. PICK b : \/ Leave(w)
               \/ /\ job' = [job EXCEPT ![w].floor = b,
                                        ![w].seen = {f \in staging : f.end <= b}]
                  /\ Go(w, "widen")
  BY DEF DecideEvict
<1>3. CASE Leave(w)
  BY <1>1, <1>3, LeaveAlone
<1>4. CASE ~Leave(w)
  <2>1. PICK S : S = {f \in staging : f.end <= b}
    OBVIOUS
  <2>2. PICK x : x = [job[w] EXCEPT !.floor = b]
    OBVIOUS
  <2>3. PICK j : j = [x EXCEPT !.seen = S]
    OBVIOUS
  <2>4. job' = [job EXCEPT ![w] = j] /\ Go(w, "widen")
    BY <1>2, <1>4, <2>1, <2>2, <2>3
  <2>5. IsJob(x)
    BY <1>1, <2>2, FloorSet
  <2>6. j.seen = S /\ S \subseteq staging
    BY <2>1, <2>3, <2>5, SeenSet
  <2>7. Hand("widen", j)
    BY <2>6 DEF Hand, MergeAlone, SwapAlone, PushAlone, EvictAlone, Swapping
  <2> QED
    BY <1>1, <2>4, <2>7, HandStep
<1> QED
  BY <1>3, <1>4

\* Fewer files staged.
LEMMA SharedFewer ==
    ASSUME Shared, staging' \subseteq staging, UNCHANGED <<published, through, intents>>
    PROVE  Shared'
<1>1. UNCHANGED <<Pub, LandedOrIntended>>
  BY DEF Pub, PubOf, LandedOrIntended, Landed
<1>2. CutsOutside(staging', published') /\ OneName(staging' \cup published')
  BY DEF Shared, CutsOutside, OneName
<1> QED
  BY <1>1, <1>2 DEF Shared, Announced

\* Eviction ends at a file's end: no file is rewritten.
LEMMA CommitEvictAlone ==
    ASSUME Alone, TiersInv, AloneInv, NEW w \in Workers, CommitEvict(w)
    PROVE  AloneInv'
<1>1. pc[w] = "evictcommit" /\ Local(w) /\ Hand("evictcommit", job[w]) /\ Shared
  BY AloneFacts DEF CommitEvict
<1>2. /\ staging' = Without(staging, 0, job[w].floor) /\ Leave(w)
      /\ UNCHANGED <<published, through, intents>>
  BY DEF CommitEvict, meta
<1>3. PICK S, r : S = job[w].seen /\ r = job[w].floor
  OBVIOUS
<1>4. r \in Nat /\ 1 <= r /\ ReachOf(S) = r
  BY <1>1, <1>3 DEF Local, EvictJob
<1>5. S \subseteq staging
  BY <1>1, <1>3 DEF Hand, EvictAlone
<1>6. Hi \in Nat /\ Sized(staging, Lo, Hi)
  BY InvFacts DEF Tiled
<1>7. \A f \in S : f.end \in Nat /\ f.end <= Hi
  BY <1>5, <1>6 DEF Sized
<1>8. PICK f \in S : f.end = r
  BY <1>4, <1>6, <1>7, ReachFacts
<1>9. Outside(r, staging)
  BY <1>5, <1>8, CutsOfTable
<1>10. Outside(0, staging)
  BY TableFacts DEF Outside
<1>11. Without(staging, 0, r) = Kept(staging, 0, r)
  BY <1>4, <1>9, <1>10, TableFacts, CleanWithout
<1>12. staging' \subseteq staging
  BY <1>2, <1>3, <1>11 DEF Kept
<1>13. Shared'
  BY <1>1, <1>2, <1>12, SharedFewer
<1>14. pc'[w] \in Bare
  BY <1>2, GoIs DEF Leave, Bare
<1> QED
  BY <1>13, <1>14, BareHand, OnlyOne

\* A merge replaces its run, whole files of the table.
LEMMA CommitMergeAlone ==
    ASSUME Alone, TiersInv, AloneInv, NEW w \in Workers, CommitMerge(w)
    PROVE  AloneInv'
<1>1. pc[w] = "mergecommit" /\ Local(w) /\ Hand("mergecommit", job[w]) /\ Shared /\ Holding(w)
  BY AloneFacts DEF CommitMerge
<1>2. PICK R, O, s, e : R = job[w].seen /\ O = job[w].outs /\ s = job[w].start /\ e = job[w].end
  OBVIOUS
<1>3. /\ staging' = Without(staging, s, e) \cup O /\ Go(w, "mergeread")
      /\ UNCHANGED <<published, through, intents>>
  BY <1>2 DEF CommitMerge, meta
<1>4. R # {} /\ s = First(R).start /\ e = Last(R).end /\ Tiled(O, s, e)
  BY <1>1, <1>2 DEF Local, MergeJob
<1>5. /\ R \subseteq staging /\ (through + 1 < Pub => \A f \in R : f.start >= Pub)
      /\ CutsOutside(O, published) /\ OneName(O) /\ NewNames(O, staging \cup published)
  BY <1>1, <1>2 DEF Hand, MergeAlone
<1>6. First(R) \in R /\ Last(R) \in R
  BY <1>4, <1>5, RunEnds
<1>7. Outside(s, staging) /\ Outside(e, staging)
  BY <1>4, <1>5, <1>6, CutsOfTable
<1>8. s \in Nat /\ e \in Nat
  BY <1>4 DEF Tiled
<1>9. Without(staging, s, e) = Kept(staging, s, e)
  BY <1>7, <1>8, TableFacts, CleanWithout
<1>10. PICK K : K = Kept(staging, s, e)
  OBVIOUS
<1>11. staging' = K \cup O /\ K \subseteq staging
  BY <1>3, <1>9, <1>10 DEF Kept
<1>12. CutsOutside(staging', published')
  BY <1>1, <1>3, <1>5, <1>11 DEF Shared, CutsOutside
<1>13. OneName(staging' \cup published')
  <2>1. OneName(staging \cup published)
    BY <1>1 DEF Shared
  <2> QED
    BY <1>3, <1>5, <1>11, <2>1 DEF OneName, NewNames
<1>14. UNCHANGED <<Pub, LandedOrIntended>>
  BY <1>3 DEF Pub, PubOf, LandedOrIntended, Landed
<1>15. ASSUME through + 1 < Pub, NEW g \in O PROVE ~(g.start < Pub)
  <2>1. g.start \in Nat /\ s <= g.start
    BY <1>4 DEF Tiled, Sized
  <2>2. s >= Pub /\ Pub \in Nat
    BY <1>4, <1>5, <1>6, <1>15, TableFacts
  <2> QED
    BY <1>8, <2>1, <2>2
<1>16. Announced'
  <2>1. Announced
    BY <1>1 DEF Shared
  <2> QED
    BY <1>3, <1>11, <1>14, <1>15, <2>1 DEF Announced
<1>17. Shared'
  BY <1>12, <1>13, <1>16 DEF Shared
<1>18. pc'[w] \in Bare
  BY <1>3, GoIs DEF Bare
<1> QED
  BY <1>17, <1>18, BareHand, OnlyOne

\* The swaps of a push.
LEMMA SwapStep ==
    ASSUME Alone, NEW w \in Workers, NEW k \in Swapping, NEW j, pc'[w] = k, job'[w] = j,
           Shared', SwapAlone(k, j)'
    PROVE  AloneInv'
<1>1. SwapAlone(pc[w], job[w])'
  BY DEF SwapAlone
<1>2. MergeAlone(pc[w], job[w])' /\ PushAlone(pc[w], job[w])' /\ EvictAlone(pc[w], job[w])'
  BY DEF MergeAlone, PushAlone, EvictAlone, Swapping
<1>3. Hand(pc[w], job[w])'
  BY <1>1, <1>2 DEF Hand
<1> QED
  BY <1>3, OnlyOne

\* Where the tables stay, so do their ends.
LEMMA SameEnds ==
    ASSUME UNCHANGED published
    PROVE  Pub' = Pub /\ PublishedEnd' = PublishedEnd
BY DEF Pub, PubOf, PublishedEnd

\* A staged file across the published end can be swapped for its copies.
LEMMA AcrossSwappable ==
    ASSUME TiersInv, Shared, NEW f \in staging, Across(f, PublishedEnd)
    PROVE  Swappable(f, published)
<1>1. PICK c : c = PublishedEnd
  OBVIOUS
<1>2. /\ f.start \in Nat /\ f.end \in Nat /\ 1 <= f.start /\ f.start < f.end
      /\ c \in Nat /\ Pub \in Nat /\ (c = Pub \/ (c = 0 /\ Pub = 1))
  BY <1>1, TableFacts
<1>3. f.start < c /\ c < f.end /\ c = Pub
  BY <1>1, <1>2 DEF Across
<1>4. \A p \in published : p.start \in Nat /\ p.end \in Nat /\ p.start < p.end /\ p.end <= Pub
  BY TableFacts
<1>5. \E h \in published : Meets(h, f)
  <2>1. Filled(published, 1, Pub) /\ f.start \in 1..Pub - 1
    BY <1>2, <1>3, InvFacts DEF Tiled
  <2>2. PICK h \in published : f.start \in Span(h)
    BY <2>1 DEF Filled
  <2>3. h.start <= f.start /\ f.start < h.end /\ h.start \in Nat /\ h.end \in Nat
    BY <1>2, <1>4, <2>2, SpanIs
  <2> QED
    BY <1>2, <2>3 DEF Meets
<1>6. ASSUME NEW h \in published, Meets(h, f)
      PROVE  h.start >= f.start /\ h.end <= f.end /\ h.path # f.path
  <2>1. h.end > f.start /\ ~(h.start < f.start /\ f.start < h.end)
    BY <1>6 DEF Meets, Shared, CutsOutside, Outside
  <2>2. h.start \in Nat /\ h.end \in Nat /\ h.end <= Pub
    BY <1>4
  <2>3. h.start >= f.start /\ h.end <= f.end /\ h.end # f.end
    BY <1>2, <1>3, <2>1, <2>2
  <2> QED
    BY <2>3 DEF Shared, OneName
<1> QED
  BY <1>5, <1>6 DEF Swappable

\* The watermark catches up with the published end, and the files to swap are picked.
LEMMA ReconcileAlone ==
    ASSUME Alone, TiersInv, AloneInv, NEW w \in Workers, Reconcile(w)
    PROVE  AloneInv'
<1>1. IsJob(job[w]) /\ Hand("reconcile", job[w]) /\ Shared
  BY AloneFacts DEF Reconcile
<1>2. PICK c, S, H, b : c = job[w].floor /\ S = job[w].seen /\ H = job[w].held /\ b = job[w].force
  OBVIOUS
<1>3. S \subseteq staging /\ H = published /\ c = PublishedEnd
  BY <1>1, <1>2 DEF Hand, SwapAlone
<1>4. PICK T : T = {f \in S : /\ f.path \in owed \/ (f.start < c /\ c < f.end)
                              /\ f \in Settled(S) \/ (b /\ (f.start < c /\ c < f.end))}
  OBVIOUS
<1>5. PICK j : j = [job[w] EXCEPT !.todo = T]
  OBVIOUS
<1>6. /\ UNCHANGED <<staging, published>> /\ intents' = {} /\ through' = Max({through, c - 1})
      /\ job' = [job EXCEPT ![w] = j] /\ Go(w, "swap")
  BY <1>2, <1>4, <1>5 DEF Reconcile, tables
<1>7. j.todo = T /\ j.seen = S /\ j.held = H /\ j.floor = c /\ j.force = b
  BY <1>1, <1>2, <1>5, TodoSet
<1>8. pc'[w] = "swap" /\ job'[w] = j
  BY <1>6, GoIs, JobIs
<1>9. through' + 1 = Pub /\ Pub \in Nat
  <2>1. /\ through \in Nat /\ through < Pub /\ Pub \in Nat /\ c \in Nat
        /\ c = Pub \/ (c = 0 /\ Pub = 1)
    BY <1>3, TableFacts
  <2>2. Max({through, c - 1}) = IF through <= c - 1 THEN c - 1 ELSE through
    BY <2>1, MaxOfTwo
  <2> QED
    BY <1>6, <2>1, <2>2
<1>10. Shared'
  BY <1>1, <1>6, <1>9, SharedCaught
<1>11. Pub' = Pub /\ PublishedEnd' = PublishedEnd
  BY <1>6, SameEnds
<1>12. \A f \in S : Across(f, c) /\ (f \in Settled(S) \/ b) => f \in T /\ Swappable(f, H)
  BY <1>1, <1>3, <1>4, AcrossSwappable DEF Across
<1>13. SwapAlone("swap", j)'
  BY <1>3, <1>6, <1>7, <1>9, <1>11, <1>12 DEF SwapAlone, Swapping
<1> QED
  BY <1>8, <1>10, <1>13, SwapStep DEF Swapping

\* A file across the published end is never skipped.
LEMMA SkipSwapAlone ==
    ASSUME Alone, TiersInv, AloneInv, NEW w \in Workers, SkipSwap(w)
    PROVE  AloneInv'
<1>1. IsJob(job[w]) /\ Hand("swap", job[w]) /\ Shared /\ pc[w] = "swap"
  BY AloneFacts DEF SkipSwap
<1>2. PICK M : M = First(job[w].todo)
  OBVIOUS
<1>3. PICK j : j = [job[w] EXCEPT !.todo = job[w].todo \ {M}]
  OBVIOUS
<1>4. UNCHANGED <<staging, published, through, intents, pc>> /\ job' = [job EXCEPT ![w] = j]
  BY <1>2, <1>3 DEF SkipSwap, tables, Merged
<1>5. /\ j.todo = job[w].todo \ {M} /\ j.seen = job[w].seen /\ j.held = job[w].held
      /\ j.floor = job[w].floor /\ j.force = job[w].force
  BY <1>1, <1>3, TodoSet
<1>6. ~Swappable(M, job[w].held)
  <2>1. PICK X : X = {h \in job[w].held : Meets(h, M)}
    OBVIOUS
  <2>2. Replaced(w) = X
    BY <1>2, <2>1 DEF Replaced, Merged, Meets
  <2>3. \/ M.path \in {f.path : f \in X} \/ X = {}
        \/ \E h \in X : ~(h.start >= M.start /\ h.end <= M.end)
    BY <1>2, <2>2 DEF SkipSwap, LinesUp, Merged
  <2> QED
    BY <2>1, <2>3 DEF Swappable
<1>7. \A f \in j.seen : Across(f, j.floor) /\ (f \in Settled(j.seen) \/ j.force) =>
                          f \in j.todo /\ Swappable(f, j.held)
  <2>1. \A f \in job[w].seen :
          Across(f, job[w].floor) /\ (f \in Settled(job[w].seen) \/ job[w].force) =>
            f \in job[w].todo /\ Swappable(f, job[w].held)
    BY <1>1 DEF Hand, SwapAlone, Swapping
  <2> QED
    BY <1>5, <1>6, <2>1
<1>8. Hand("swap", j)
  BY <1>1, <1>5, <1>7 DEF Hand, MergeAlone, SwapAlone, PushAlone, EvictAlone, Swapping
<1>9. pc'[w] = "swap" /\ job'[w] = j
  BY <1>1, <1>4, JobIs
<1>10. Hand(pc[w], job[w])'
  BY <1>4, <1>8, <1>9, HandKept
<1> QED
  BY <1>1, <1>4, <1>10, SharedKept, OnlyOne

\* The swap is intended.
LEMMA IntendSwapAlone ==
    ASSUME Alone, TiersInv, AloneInv, NEW w \in Workers, IntendSwap(w)
    PROVE  AloneInv'
<1>1. IsJob(job[w]) /\ Hand("swap", job[w]) /\ Shared
  BY AloneFacts DEF IntendSwap
<1>2. /\ UNCHANGED <<staging, published, through>> /\ Checkpoint(w, "swapfence")
      /\ intents' = IF Held(w) THEN Intended(Merged(w)) ELSE intents
  BY DEF IntendSwap, tables
<1>3. CASE ~Held(w)
  BY <1>2, <1>3, LeaveAlone DEF Checkpoint
<1>4. CASE Held(w)
  <2>1. PICK j : j = job[w]
    OBVIOUS
  <2>2. Go(w, "swapfence") /\ job' = job
    BY <1>2, <1>4 DEF Checkpoint
  <2>3. pc'[w] = "swapfence" /\ job'[w] = j
    BY <2>1, <2>2, GoIs
  <2>4. SwapAlone("swap", j)
    BY <1>1, <2>1 DEF Hand
  <2>5. intents' = {First(j.todo)}
    BY <1>2, <1>4, <2>1, <2>4 DEF SwapAlone, Intended, Merged
  <2>6. through + 1 = Pub /\ Pub \in Nat
    BY <2>4, TableFacts DEF SwapAlone, Swapping
  <2>7. Shared'
    BY <1>1, <1>2, <2>6, SharedCaught
  <2>8. Pub' = Pub /\ PublishedEnd' = PublishedEnd
    BY <1>2, SameEnds
  <2>9. SwapAlone("swapfence", j)'
    BY <1>2, <2>4, <2>5, <2>8 DEF SwapAlone, Swapping
  <2> QED
    BY <2>3, <2>7, <2>9, SwapStep DEF Swapping
<1> QED
  BY <1>3, <1>4

\* A file below the watermark, or intended, is covered.
LEMMA CoveredLanded ==
    ASSUME NEW g, g.start \in Nat, g.end \in Nat, through \in Nat, g.end <= through + 1
    PROVE  Covered(LandedOrIntended, g)
<1>1. PICK r : r = [start |-> 0, end |-> through + 1]
  OBVIOUS
<1>2. r \in LandedOrIntended /\ r.start = 0 /\ r.end = through + 1
  BY <1>1 DEF LandedOrIntended, Landed
<1>3. ASSUME NEW o \in Span(g) PROVE o \in Span(r)
  BY <1>2, <1>3 DEF Span
<1> QED
  BY <1>2, <1>3 DEF Covered, Rows

LEMMA CoveredIntended ==
    ASSUME NEW g \in intents
    PROVE  Covered(LandedOrIntended, g)
<1>1. PICK r : r = [start |-> g.start, end |-> g.end]
  OBVIOUS
<1>2. r \in LandedOrIntended /\ r.start = g.start /\ r.end = g.end
  BY <1>1 DEF LandedOrIntended
<1>3. Span(r) = Span(g)
  BY <1>2 DEF Span
<1> QED
  BY <1>2, <1>3 DEF Covered, Rows

\* Files of the staging table are published, up to an end that is intended.
LEMMA SharedPublished ==
    ASSUME TiersInv, Shared, NEW N, N \subseteq staging, published' \subseteq published \cup N,
           UNCHANGED <<staging, through, intents>>,
           through + 1 < Pub' =>
             \A g \in staging : g.start < Pub' => g.end <= through + 1 \/ g \in intents
    PROVE  Shared'
<1>1. CutsOutside(staging', published')
  <2> SUFFICES ASSUME NEW f \in staging, NEW p \in published \cup N
               PROVE  ~(p.start < f.start /\ f.start < p.end) /\ ~(p.start < f.end /\ f.end < p.end)
    BY DEF CutsOutside, Outside
  <2>1. CASE p \in published
    BY <2>1 DEF Shared, CutsOutside, Outside
  <2>2. CASE p \in N
    BY <2>2, CutsOfTable DEF Outside
  <2> QED
    BY <2>1, <2>2
<1>2. OneName(staging' \cup published')
  BY DEF Shared, OneName
<1>3. LandedOrIntended' = LandedOrIntended
  BY DEF LandedOrIntended, Landed
<1>4. ASSUME through + 1 < Pub', NEW g \in staging, g.start < Pub' PROVE Covered(LandedOrIntended, g)
  BY <1>4, TableFacts, CoveredLanded, CoveredIntended
<1>5. Announced'
  BY <1>3, <1>4 DEF Announced
<1> QED
  BY <1>1, <1>2, <1>5 DEF Shared

\* The commit of a swap.
LEMMA CommitSwapAlone ==
    ASSUME Alone, TiersInv, AloneInv, NEW w \in Workers, CommitSwap(w)
    PROVE  AloneInv'
<1>1. pc[w] = "swapcommit" /\ Local(w) /\ Hand("swapcommit", job[w]) /\ Shared
  BY AloneFacts DEF CommitSwap
<1>2. PICK j, M : j = job[w] /\ M = First(j.todo)
  OBVIOUS
<1>3. SwapAlone("swapcommit", j) /\ PubJob("swapcommit", j, Pub, Hi)
  BY <1>1, <1>2 DEF Hand, Local
<1>4. /\ published' = Without(published, M.start, M.end) \cup {M} /\ Go(w, "swapconfirm")
      /\ UNCHANGED <<staging, through, intents, job>>
  BY <1>2 DEF CommitSwap, meta, Merged
<1>5. /\ Lo \in Nat /\ Pub \in Nat /\ Hi \in Nat /\ 1 <= Pub /\ Tiled(published, 1, Pub)
  BY InvFacts
<1>6. /\ M \in j.todo /\ M \in j.seen /\ M.start \in Nat /\ M.end \in Nat /\ 1 <= M.start
      /\ M.start < M.end /\ M.start <= Pub
  BY <1>2, <1>3, <1>5, SwapFile DEF PubJob, Swapping
<1>7. /\ M \in staging /\ j.floor = PublishedEnd /\ through + 1 = Pub /\ intents = {M}
      /\ j.seen \subseteq staging
  BY <1>2, <1>3, <1>6 DEF SwapAlone, Swapping
<1>8. Without(published, M.start, M.end) = Kept(published, M.start, M.end)
  <2>1. Outside(M.start, published) /\ Outside(M.end, published)
    BY <1>1, <1>7 DEF Shared, CutsOutside
  <2> QED
    BY <1>6, <2>1, TableFacts, CleanWithout
<1>9. published' \subseteq published \cup {M}
  BY <1>4, <1>8 DEF Kept
<1>10. PICK m \in Nat : m = IF M.end <= Pub THEN Pub ELSE M.end
  BY <1>5, <1>6
<1>11. Tiled({M}, M.start, M.end)
  BY <1>6, TiledOne
<1>12. Tiled(published', 1, m)
  BY <1>4, <1>5, <1>6, <1>10, <1>11, TiledReplace
<1>13. published' # {}
  BY <1>4
<1>14. ReachOf(published') = m
  BY <1>12, <1>13, TiledReach
<1>15. Pub' = m /\ PublishedEnd' = m
  BY <1>13, <1>14 DEF Pub, PubOf, PublishedEnd
<1>16. ASSUME through + 1 < m, NEW g \in staging, g.start < m PROVE g.end <= through + 1 \/ g \in intents
  <2>1. /\ g.start \in Nat /\ g.end \in Nat /\ g.start < g.end
        /\ g = M \/ g.end <= M.start \/ M.end <= g.start
    BY <1>7, TableFacts
  <2>2. m = M.end
    BY <1>5, <1>6, <1>7, <1>10, <1>16
  <2>3. CASE g = M
    BY <1>7, <2>3
  <2>4. CASE g.end <= M.start
    BY <1>5, <1>6, <1>7, <2>1, <2>4
  <2> QED
    BY <1>6, <1>16, <2>1, <2>2, <2>3, <2>4
<1>17. Shared'
  BY <1>1, <1>4, <1>7, <1>9, <1>15, <1>16, SharedPublished
<1>18. m = Max({j.floor, M.end})
  <2>1. PICK c : c = PublishedEnd
    OBVIOUS
  <2>2. c \in Nat /\ (c = Pub \/ (c = 0 /\ Pub = 1))
    BY <2>1, TableFacts
  <2>3. Max({c, M.end}) = IF c <= M.end THEN M.end ELSE c
    BY <1>6, <2>2, MaxOfTwo
  <2> QED
    BY <1>5, <1>6, <1>7, <1>10, <2>1, <2>2, <2>3
<1>19. through' + 1 = Pub' \/ Pub' = M.end
  BY <1>4, <1>7, <1>10, <1>15
<1>20. SwapAlone("swapconfirm", j)'
  BY <1>2, <1>3, <1>4, <1>7, <1>15, <1>18, <1>19 DEF SwapAlone, Swapping
<1>21. pc'[w] = "swapconfirm" /\ job'[w] = j
  BY <1>2, <1>4, GoIs
<1> QED
  BY <1>17, <1>20, <1>21, SwapStep DEF Swapping

\* The swap is confirmed: the watermark is at the published end again.
LEMMA ConfirmSwapAlone ==
    ASSUME Alone, TiersInv, AloneInv, NEW w \in Workers, ConfirmSwap(w)
    PROVE  AloneInv'
<1>1. pc[w] = "swapconfirm" /\ Local(w) /\ Hand("swapconfirm", job[w]) /\ Shared
  BY AloneFacts DEF ConfirmSwap
<1>2. PICK j, M : j = job[w] /\ M = First(j.todo)
  OBVIOUS
<1>3. SwapAlone("swapconfirm", j) /\ PubJob("swapconfirm", j, Pub, Hi)
  BY <1>1, <1>2 DEF Hand, Local
<1>4. /\ through' = Max({through, M.end - 1}) /\ intents' = {i \in intents : i.path # M.path}
      /\ Go(w, "swapclear") /\ UNCHANGED <<staging, published, job>>
  BY <1>2 DEF ConfirmSwap, tables, Merged
<1>5. intents' = {}
  BY <1>2, <1>3, <1>4 DEF SwapAlone
<1>6. through' + 1 = Pub /\ Pub \in Nat
  <2>1. through \in Nat /\ through < Pub /\ Pub \in Nat /\ Hi \in Nat
    BY InvFacts
  <2>2. M.end \in Nat /\ M.end <= Pub
    BY <1>2, <1>3, <2>1, SwapFile DEF PubJob, Swapping
  <2>3. through + 1 = Pub \/ Pub = M.end
    BY <1>2, <1>3 DEF SwapAlone
  <2>4. Max({through, M.end - 1}) = IF through <= M.end - 1 THEN M.end - 1 ELSE through
    BY <2>1, <2>2, MaxOfTwo
  <2> QED
    BY <1>4, <2>1, <2>2, <2>3, <2>4
<1>7. Shared'
  BY <1>1, <1>4, <1>6, SharedCaught
<1>8. Pub' = Pub /\ PublishedEnd' = PublishedEnd
  BY <1>4, SameEnds
<1>9. SwapAlone("swapclear", j)'
  BY <1>2, <1>3, <1>4, <1>5, <1>6, <1>8 DEF SwapAlone, Swapping
<1>10. pc'[w] = "swapclear" /\ job'[w] = j
  BY <1>2, <1>4, GoIs
<1> QED
  BY <1>7, <1>9, <1>10, SwapStep DEF Swapping

\* The swap is done: a file across the published end now was so before it.
LEMMA ClearSwapAlone ==
    ASSUME Alone, TiersInv, AloneInv, NEW w \in Workers, ClearSwap(w)
    PROVE  AloneInv'
<1>1. pc[w] = "swapclear" /\ Local(w) /\ IsJob(job[w]) /\ Hand("swapclear", job[w]) /\ Shared
  BY AloneFacts DEF ClearSwap
<1>2. PICK i, M : i = job[w] /\ M = First(i.todo)
  OBVIOUS
<1>3. SwapAlone("swapclear", i) /\ PubJob("swapclear", i, Pub, Hi)
  BY <1>1, <1>2 DEF Hand, Local
<1>4. PICK c : c = Max({i.floor, M.end})
  OBVIOUS
<1>5. PICK x : x = [i EXCEPT !.todo = i.todo \ {M}]
  OBVIOUS
<1>6. PICK j : j = [x EXCEPT !.floor = c]
  OBVIOUS
<1>7. /\ job' = [job EXCEPT ![w] = j] /\ Go(w, "swap")
      /\ UNCHANGED <<staging, published, through, intents>>
  BY <1>2, <1>4, <1>5, <1>6 DEF ClearSwap, tables, Merged
<1>8. /\ IsJob(x) /\ x.todo = i.todo \ {M} /\ x.seen = i.seen /\ x.held = i.held /\ x.force = i.force
  BY <1>1, <1>2, <1>5, TodoSet
<1>9. /\ j.todo = i.todo \ {M} /\ j.seen = i.seen /\ j.held = i.held /\ j.force = i.force
      /\ j.floor = c
  BY <1>6, <1>8, FloorSet
<1>10. /\ i.seen \subseteq staging /\ through + 1 = Pub /\ intents = {} /\ c = PublishedEnd
       /\ \A f \in i.seen : Across(f, i.floor) /\ (f \in Settled(i.seen) \/ i.force) =>
                              f \in i.todo /\ Swappable(f, i.held)
  BY <1>2, <1>3, <1>4 DEF SwapAlone, Swapping
<1>11. i.floor \in Nat /\ M \in staging /\ M.start \in Nat /\ M.end \in Nat /\ M.start < M.end
  BY <1>2, <1>3, <1>10, InvFacts, SwapFile DEF PubJob, Swapping, Reloaded
<1>12. c = IF i.floor <= M.end THEN M.end ELSE i.floor
  BY <1>4, <1>11, MaxOfTwo
<1>13. ASSUME NEW f \in j.seen, Across(f, j.floor), f \in Settled(j.seen) \/ j.force
       PROVE  f \in j.todo /\ Swappable(f, j.held)
  <2>1. f \in staging /\ f \in i.seen
    BY <1>9, <1>10, <1>13
  <2>2. /\ f.start \in Nat /\ f.end \in Nat /\ f.start < f.end
        /\ f = M \/ f.end <= M.start \/ M.end <= f.start
    BY <1>11, <2>1, TableFacts
  <2>3. f.start < c /\ c < f.end
    BY <1>9, <1>13 DEF Across
  <2>4. f # M /\ c = i.floor
    BY <1>11, <1>12, <2>2, <2>3
  <2>5. Across(f, i.floor)
    BY <2>3, <2>4 DEF Across
  <2> QED
    BY <1>9, <1>10, <1>13, <2>1, <2>4, <2>5
<1>14. Hand("swap", j)
  BY <1>9, <1>10, <1>13 DEF Hand, MergeAlone, SwapAlone, PushAlone, EvictAlone, Swapping
<1> QED
  BY <1>7, <1>14, HandStep

\* The steps of an upload.
LEMMA PushStep ==
    ASSUME Alone, NEW w \in Workers, NEW k \in {"upload", "register", "confirm"}, NEW j,
           pc'[w] = k, job'[w] = j, Shared', PushAlone(k, j)'
    PROVE  AloneInv'
<1>1. PushAlone(pc[w], job[w])'
  BY DEF PushAlone
<1>2. MergeAlone(pc[w], job[w])' /\ SwapAlone(pc[w], job[w])' /\ EvictAlone(pc[w], job[w])'
  BY DEF MergeAlone, SwapAlone, EvictAlone, Swapping
<1>3. Hand(pc[w], job[w])'
  BY <1>1, <1>2 DEF Hand
<1> QED
  BY <1>3, OnlyOne

\* With nothing intended, what a push may upload and is not final ends at or below the
\* first offset not published.
LEMMA NotFrozen ==
    ASSUME NEW F, NEW a \in Nat, NEW b \in Nat, Sized(F, a, b), intents = {}, through \in Nat,
           NEW Q, Q \subseteq F, NEW f \in Pushable(F, Q, FALSE), f \notin Settled(F)
    PROVE  f.end <= through + 1
<1>1. f \in Q /\ f \in F
  BY DEF Pushable
<1>2. PICK L, r : L = {g.start : g \in F \ Settled(F)} /\ r = ReachOf(CoveredPrefix(Q, LandedOrIntended))
  OBVIOUS
<1>3. \A g \in F : g.start \in Nat /\ g.end \in Nat /\ g.start < g.end
  BY DEF Sized
<1>4. f.end <= r \/ L = {} \/ f.end <= Min(L)
  BY <1>1, <1>2, <1>3 DEF Pushable
<1>5. f.start \in L /\ L \subseteq Nat
  BY <1>1, <1>2, <1>3
<1>6. PICK m : m = Min(L)
  OBVIOUS
<1>7. m \in Nat /\ m <= f.start
  BY <1>5, <1>6, MinOfNaturals
<1>8. f.end <= r
  BY <1>1, <1>3, <1>4, <1>5, <1>6, <1>7
<1>9. LandedOrIntended = {[start |-> 0, end |-> through + 1]}
  BY DEF LandedOrIntended, Landed
<1>10. Sized(Q, a, b)
  BY DEF Sized
<1>11. r \in Nat /\ r <= through + 1
  BY <1>2, <1>9, <1>10, CoveredEnds
<1> QED
  BY <1>1, <1>3, <1>8, <1>11

\* What is picked to be pushed starts at or above the published end.
LEMMA PickPendingAlone ==
    ASSUME Alone, TiersInv, AloneInv, NEW w \in Workers, PickPending(w)
    PROVE  AloneInv'
<1>1. pc[w] = "swap" /\ Local(w) /\ IsJob(job[w]) /\ Hand("swap", job[w]) /\ Shared
  BY AloneFacts DEF PickPending
<1>2. PICK i : i = job[w]
  OBVIOUS
<1>3. SwapAlone("swap", i) /\ PubJob("swap", i, Pub, Hi) /\ i.todo = {}
  BY <1>1, <1>2 DEF Hand, Local, PickPending
<1>0. PICK Q, P, T :
        /\ Q = {f \in job[w].seen : f.end > job[w].floor}
        /\ P = Pushable(job[w].seen, Q, job[w].force)
        /\ T = {f \in P : \A g \in Q : g.start <= f.start => g.end <= job[w].bound}
  OBVIOUS
<1>4. Q = {f \in i.seen : f.end > i.floor}
  BY <1>0, <1>2
<1>5. T = {f \in Pushable(i.seen, Q, i.force) : \A g \in Q : g.start <= f.start => g.end <= i.bound}
  BY <1>0, <1>2
<1>9. IF T = {} THEN Leave(w)
      ELSE /\ job' = [job EXCEPT ![w].todo = T, ![w].seen = {}, ![w].held = {}]
           /\ Go(w, "upload")
  BY <1>0 DEF PickPending
<1>6. UNCHANGED <<staging, published, through, intents>>
  BY DEF PickPending, tables, meta
<1>7. CASE T = {}
  BY <1>6, <1>7, <1>9, LeaveAlone
<1>8. CASE T # {}
  <2>1. PICK x : x = [i EXCEPT !.todo = T]
    OBVIOUS
  <2>2. PICK y : y = [x EXCEPT !.seen = {}]
    OBVIOUS
  <2>3. PICK j : j = [y EXCEPT !.held = {}]
    OBVIOUS
  <2>4. job' = [job EXCEPT ![w] = j] /\ Go(w, "upload")
    BY <1>2, <1>8, <1>9, <2>1, <2>2, <2>3
  <2>5. IsJob(x) /\ x.todo = T /\ x.outs = i.outs
    BY <1>1, <1>2, <2>1, TodoSet
  <2>6. IsJob(y) /\ y.todo = T /\ y.outs = i.outs
    BY <2>2, <2>5, SeenSet
  <2>7. j.todo = T /\ j.outs = i.outs
    BY <2>3, <2>6, HeldSet
  <2>8. j.outs = {}
    BY <1>3, <2>7 DEF PubJob, Reloaded, Swapping
  <2>9. /\ i.seen \subseteq staging /\ i.floor = PublishedEnd /\ through + 1 = Pub /\ intents = {}
        /\ \A f \in i.seen : Across(f, i.floor) /\ (f \in Settled(i.seen) \/ i.force) =>
                               f \in i.todo /\ Swappable(f, i.held)
    BY <1>3 DEF SwapAlone, Swapping
  <2>10. T \subseteq Q /\ Q \subseteq i.seen
    BY <1>4, <1>5 DEF Pushable
  <2>11. ASSUME NEW f \in T PROVE f.start >= Pub
    <3> SUFFICES ASSUME ~(f.start >= Pub) PROVE FALSE
      OBVIOUS
    <3>1. PICK c : c = PublishedEnd
      OBVIOUS
    <3>2. /\ f.start \in Nat /\ f.end \in Nat /\ 1 <= f.start /\ f.start < f.end /\ f.end > c
          /\ c \in Nat /\ Pub \in Nat /\ (c = Pub \/ (c = 0 /\ Pub = 1)) /\ through \in Nat
      BY <1>4, <2>9, <2>10, <2>11, <3>1, TableFacts
    <3>3. f.start < c /\ c < f.end /\ c = Pub
      BY <3>2
    <3>4. ~(f \in Settled(i.seen) \/ i.force)
      BY <1>3, <2>9, <2>10, <2>11, <3>1, <3>3 DEF Across
    <3>5. f \in Pushable(i.seen, Q, FALSE)
      BY <1>5, <2>11, <3>4 DEF Pushable
    <3>6. Lo \in Nat /\ Hi \in Nat /\ Sized(i.seen, Lo, Hi)
      BY <2>9, InvFacts DEF Tiled, Sized
    <3>7. f.end <= through + 1
      BY <2>9, <2>10, <3>2, <3>4, <3>5, <3>6, NotFrozen
    <3> QED
      BY <2>9, <3>2, <3>3, <3>7
  <2>12. T \subseteq staging
    BY <2>9, <2>10
  <2>13. Hand("upload", j)
    BY <2>7, <2>8, <2>9, <2>11, <2>12 DEF Hand, MergeAlone, SwapAlone, PushAlone, EvictAlone, Swapping
  <2> QED
    BY <1>6, <2>4, <2>13, HandStep
<1> QED
  BY <1>7, <1>8

\* A file is intended and uploaded.
LEMMA UploadAlone ==
    ASSUME Alone, TiersInv, AloneInv, NEW w \in Workers, Upload(w)
    PROVE  AloneInv'
<1>1. pc[w] = "upload" /\ IsJob(job[w]) /\ Hand("upload", job[w]) /\ Shared
  BY AloneFacts DEF Upload
<1>2. UNCHANGED <<staging, published, through>>
  BY DEF Upload, tables
<1>3. CASE ~Held(w)
  BY <1>2, <1>3, LeaveAlone DEF Upload
<1>4. CASE Held(w)
  <2>1. PICK i, M : i = job[w] /\ M = First(i.todo)
    OBVIOUS
  <2>2. PICK x : x = [i EXCEPT !.todo = i.todo \ {M}]
    OBVIOUS
  <2>3. PICK j : j = [x EXCEPT !.outs = i.outs \cup {M}]
    OBVIOUS
  <2>4. job' = [job EXCEPT ![w] = j] /\ intents' = intents \cup {M} /\ pc' = pc /\ i.todo # {}
    BY <1>4, <2>1, <2>2, <2>3 DEF Upload, Intended, Merged
  <2>5. IsJob(x) /\ x.todo = i.todo \ {M}
    BY <1>1, <2>1, <2>2, TodoSet
  <2>6. j.todo = i.todo \ {M} /\ j.outs = i.outs \cup {M}
    BY <2>3, <2>5, OutsSet
  <2>7. /\ through + 1 = Pub /\ i.outs \cup i.todo \subseteq staging /\ i.outs \subseteq intents
        /\ \A f \in i.outs \cup i.todo : f.start >= Pub
    BY <1>1, <2>1 DEF Hand, PushAlone
  <2>8. M \in i.todo
    BY <2>1, <2>4, <2>7, RunEnds
  <2>9. Pub' = Pub /\ Pub \in Nat
    BY <1>2, SameEnds, TableFacts
  <2>10. Shared'
    BY <1>1, <1>2, <2>7, <2>9, SharedCaught
  <2>11. /\ j.outs \cup j.todo \subseteq staging /\ j.outs \subseteq intents'
         /\ \A f \in j.outs \cup j.todo : f.start >= Pub
    BY <2>4, <2>6, <2>7, <2>8
  <2>12. PushAlone("upload", j)'
    BY <1>2, <2>7, <2>9, <2>11 DEF PushAlone
  <2>13. pc'[w] = "upload" /\ job'[w] = j
    BY <1>1, <2>4, JobIs
  <2> QED
    BY <2>10, <2>12, <2>13, PushStep
<1> QED
  BY <1>3, <1>4

\* The push registers what follows the published table, all of it intended.
LEMMA RegisterPushAlone ==
    ASSUME Alone, TiersInv, AloneInv, NEW w \in Workers, RegisterPush(w)
    PROVE  AloneInv'
<1>1. pc[w] = "register" /\ Local(w) /\ Hand("register", job[w]) /\ Shared
  BY AloneFacts DEF RegisterPush
<1>2. UNCHANGED <<staging, through, intents>>
  BY DEF RegisterPush, meta
<1>3. CASE PublishedEnd >= Last(job[w].outs).end \/ Refused(w)
  BY <1>2, <1>3, LeaveAlone DEF RegisterPush
<1>4. CASE ~(PublishedEnd >= Last(job[w].outs).end \/ Refused(w))
  <2>1. PICK j, O : j = job[w] /\ O = j.outs
    OBVIOUS
  <2>2. published' = published \cup O /\ Go(w, "confirm") /\ job' = job
    BY <1>4, <2>1 DEF RegisterPush
  <2>3. Uploading(j.outs, j.todo, Pub, Hi) /\ j.todo = {}
    BY <1>1, <2>1 DEF Local, PubJob
  <2>4. Pub \in Nat /\ Hi \in Nat /\ Tiled(published, 1, Pub)
    BY InvFacts
  <2>5. PICK c \in Nat, d \in Nat : /\ Tiled(O, c, d) /\ c < d /\ c <= Pub /\ O # {}
                                    /\ First(O).start = c /\ Last(O).end = d
    BY <2>1, <2>3, <2>4, UploadedFiles
  <2>6. /\ through + 1 = Pub /\ O \subseteq staging /\ O \subseteq intents
        /\ \A f \in O : f.start >= Pub
    BY <1>1, <2>1 DEF Hand, PushAlone
  <2>7. First(O) \in O
    BY <2>5, <2>6, RunEnds
  <2>8. c = Pub
    BY <2>4, <2>5, <2>6, <2>7
  <2>9. Tiled(published', 1, d)
    BY <2>2, <2>4, <2>5, <2>8, TiledJoin
  <2>10. published' # {}
    BY <2>2, <2>5
  <2>11. ReachOf(published') = d
    BY <2>9, <2>10, TiledReach
  <2>12. Pub' = d
    BY <2>10, <2>11 DEF Pub, PubOf
  <2>13. ASSUME NEW g \in staging, g.start < d PROVE g.end <= through + 1 \/ g \in intents
    <3>1. g.start \in Nat /\ g.end \in Nat /\ g.start < g.end
      BY TableFacts
    <3>2. CASE g.end <= Pub
      BY <2>6, <3>2
    <3>3. CASE ~(g.end <= Pub)
      <4>1. PICK o \in Nat : o = IF g.start >= Pub THEN g.start ELSE Pub
        BY <2>4, <3>1
      <4>2. o \in c..d - 1 /\ g.start <= o /\ o < g.end
        BY <2>4, <2>5, <2>8, <2>13, <3>1, <3>3, <4>1
      <4>3. PICK h \in O : o \in Span(h)
        BY <2>5, <4>2 DEF Tiled, Filled
      <4>4. /\ h.start \in Nat /\ h.end \in Nat
            /\ g = h \/ g.end <= h.start \/ h.end <= g.start
        BY <2>6, <4>3, TableFacts
      <4>5. h.start <= o /\ o < h.end
        BY <4>3, <4>4, SpanIs
      <4>6. g = h
        BY <3>1, <4>2, <4>4, <4>5
      <4> QED
        BY <2>6, <4>3, <4>6
    <3> QED
      BY <3>2, <3>3
  <2>14. Shared'
    BY <1>1, <1>2, <2>2, <2>6, <2>12, <2>13, SharedPublished
  <2>15. PushAlone("confirm", j)'
    BY <2>1, <2>5, <2>12 DEF PushAlone
  <2>16. pc'[w] = "confirm" /\ job'[w] = j
    BY <2>1, <2>2, GoIs
  <2> QED
    BY <2>14, <2>15, <2>16, PushStep
<1> QED
  BY <1>3, <1>4

\* The push is confirmed.
LEMMA ConfirmPushAlone ==
    ASSUME Alone, TiersInv, AloneInv, NEW w \in Workers, ConfirmPush(w)
    PROVE  AloneInv'
<1>1. Hand("confirm", job[w]) /\ Shared
  BY AloneFacts DEF ConfirmPush
<1>2. PICK d : d = Last(job[w].outs).end
  OBVIOUS
<1>3. through' = Max({through, d - 1}) /\ UNCHANGED <<staging, published>> /\ Leave(w)
  BY <1>2 DEF ConfirmPush, tables
<1>4. d = Pub
  BY <1>1, <1>2 DEF Hand, PushAlone
<1>5. through \in Nat /\ through < Pub /\ Pub \in Nat /\ d \in Nat
  BY <1>4, TableFacts
<1>6. Max({through, d - 1}) = IF through <= d - 1 THEN d - 1 ELSE through
  BY <1>5, MaxOfTwo
<1>7. through' + 1 = Pub
  BY <1>3, <1>4, <1>5, <1>6
<1>8. Shared'
  BY <1>1, <1>3, <1>5, <1>7, SharedCaught
<1>9. pc'[w] \in Bare
  BY <1>3, GoIs DEF Leave, Bare
<1> QED
  BY <1>8, <1>9, BareHand, OnlyOne

\* A sealed file lands above all that is published, under a name of its own.
LEMMA SealFileAlone ==
    ASSUME TiersInv, AloneInv, NEW k \in 1..MaxSealRows, SealFile(k)
    PROVE  AloneInv'
<1>1. Pub \in Nat /\ Hi \in Nat /\ Pub <= Hi /\ MaxOffset \in Nat
  BY InvFacts
<1>2. PICK f : f = [start |-> Hi, end |-> Hi + k, path |-> Fresh(1)]
  OBVIOUS
<1>3. /\ staging' = staging \cup {f} /\ CanName(1)
      /\ UNCHANGED <<published, through, intents, pc, job>>
  BY <1>2, SealsAbove DEF SealFile, meta
<1>4. f.start = Hi /\ f.end = Hi + k /\ f.path \in Unused /\ k \in Nat
  <2>1. Fresh(1) \in Unused
    BY <1>3, FreshIs
  <2> QED
    BY <1>2, <2>1, TiersAssumption
<1>5. Shared
  BY DEF AloneInv
<1>6. Outside(f.start, published) /\ Outside(f.end, published)
  BY <1>1, <1>4, TableFacts DEF Outside
<1>7. CutsOutside(staging', published')
  BY <1>3, <1>5, <1>6 DEF Shared, CutsOutside
<1>8. \A g \in staging \cup published : g.path # f.path
  BY <1>4 DEF Unused, UsedPaths
<1>9. OneName(staging' \cup published')
  BY <1>3, <1>5, <1>8 DEF Shared, OneName
<1>10. UNCHANGED <<Pub, LandedOrIntended, PublishedEnd>>
  BY <1>3 DEF Pub, PubOf, LandedOrIntended, Landed, PublishedEnd
<1>11. ~(f.start < Pub)
  BY <1>1, <1>4
<1>12. Announced'
  BY <1>3, <1>5, <1>10, <1>11 DEF Shared, Announced
<1>13. Shared'
  BY <1>7, <1>9, <1>12 DEF Shared
<1>14. ASSUME NEW w \in Workers PROVE Hand(pc[w], job[w])'
  <2>1. Hand(pc[w], job[w])
    BY DEF AloneInv
  <2>2. \A g \in job[w].outs : g.path # f.path
    BY <1>4 DEF Unused, UsedPaths
  <2>3. NewNames(job[w].outs, staging \cup published) => NewNames(job[w].outs, staging' \cup published)
    BY <1>3, <2>2 DEF NewNames
  <2>4. MergeAlone(pc[w], job[w])'
    <3>1. MergeAlone(pc[w], job[w])
      BY <2>1 DEF Hand
    <3> QED
      BY <1>3, <1>10, <2>3, <3>1 DEF MergeAlone
  <2>5. SwapAlone(pc[w], job[w])'
    <3>1. SwapAlone(pc[w], job[w])
      BY <2>1 DEF Hand
    <3> QED
      BY <1>3, <1>10, <3>1 DEF SwapAlone
  <2>6. PushAlone(pc[w], job[w])' /\ EvictAlone(pc[w], job[w])'
    <3>1. PushAlone(pc[w], job[w]) /\ EvictAlone(pc[w], job[w])
      BY <2>1 DEF Hand
    <3> QED
      BY <1>3, <1>10, <3>1 DEF PushAlone, EvictAlone
  <2> QED
    BY <2>4, <2>5, <2>6 DEF Hand
<1> QED
  BY <1>13, <1>14 DEF AloneInv

\* Steps of neither the worker nor a seal.
LEMMA QuietAlone ==
    ASSUME AloneInv, UNCHANGED <<staging, published, through, intents, pc, job>>
    PROVE  AloneInv'
<1>1. ASSUME NEW w \in Workers PROVE Hand(pc[w], job[w])'
  <2>1. PICK k, j : k = pc[w] /\ j = job[w]
    OBVIOUS
  <2>2. Hand(k, j) /\ pc'[w] = k /\ job'[w] = j
    BY <2>1 DEF AloneInv
  <2> QED
    BY <2>2, HandKept
<1> QED
  BY <1>1, SharedKept DEF AloneInv

\* At first there is nothing.
LEMMA InitAlone ==
    ASSUME Init
    PROVE  AloneInv
<1>1. staging = {} /\ published = {}
  BY DEF Init
<1>2. Shared
  BY <1>1 DEF Shared, CutsOutside, OneName, Announced
<1>3. ASSUME NEW w \in Workers PROVE Hand(pc[w], job[w])
  <2>1. pc[w] = "idle"
    BY DEF Init
  <2> QED
    BY <2>1 DEF Hand, MergeAlone, SwapAlone, PushAlone, EvictAlone, Swapping
<1> QED
  BY <1>2, <1>3 DEF AloneInv

\* The worker's step.
LEMMA WorkAlone ==
    ASSUME Alone, TiersInv, AloneInv, NEW w \in Workers, Work(w)
    PROVE  AloneInv'
<1>1. CASE Acquire(w) \/ Release(w) \/ ReadThrough(w) \/ RecordMerge(w)
  BY <1>1, BareAlone
<1>2. CASE RecheckRun(w) \/ WriteMerge(w) \/ CommitMerge(w)
  BY <1>2, RecheckRunAlone, WriteMergeAlone, CommitMergeAlone
<1>3. CASE FenceMerge(w) \/ FenceSwap(w) \/ FencePush(w) \/ WidenTier(w)
  BY <1>3, FencesAlone
<1>4. CASE ReloadTables(w) \/ ReadRow(w) \/ WriteRow(w) \/ Reconcile(w)
  BY <1>4, ReloadAlone, ReadRowAlone, WriteRowAlone, ReconcileAlone
<1>5. CASE SkipSwap(w) \/ IntendSwap(w) \/ CommitSwap(w)
  BY <1>5, SkipSwapAlone, IntendSwapAlone, CommitSwapAlone
<1>6. CASE ConfirmSwap(w) \/ ClearSwap(w)
  BY <1>6, ConfirmSwapAlone, ClearSwapAlone
<1>7. CASE PickPending(w) \/ Upload(w)
  BY <1>7, PickPendingAlone, UploadAlone
<1>8. CASE RegisterPush(w) \/ ConfirmPush(w)
  BY <1>8, RegisterPushAlone, ConfirmPushAlone
<1>9. CASE DecideEvict(w) \/ CommitEvict(w)
  BY <1>9, DecideAlone, CommitEvictAlone
<1> QED
  BY <1>1, <1>2, <1>3, <1>4, <1>5, <1>6, <1>7, <1>8, <1>9 DEF Work

\* Every step, with one worker.
LEMMA AloneStep ==
    ASSUME Alone, TiersInv, AloneInv, [Next]_vars
    PROVE  AloneInv'
<1>1. CASE \E k \in 1..MaxSealRows : SealFile(k)
  BY <1>1, SealFileAlone
<1>2. CASE \E w \in Workers : Work(w)
  BY <1>2, WorkAlone
<1>3. CASE \E w \in Workers : Start(w) \/ Fail(w)
  BY <1>3, BareAlone
<1>4. CASE Lapse \/ LapseOrphan \/ EvictBuffer \/ UNCHANGED vars
  <2>1. UNCHANGED <<staging, published, through, intents, pc, job>>
    BY <1>4 DEF Lapse, LapseOrphan, EvictBuffer, vars, tables, meta
  <2> QED
    BY <2>1, QuietAlone
<1> QED
  BY <1>1, <1>2, <1>3, <1>4 DEF Next

\* The invariant of a single worker holds of every behaviour in which commits are
\* prompt.
LEMMA AloneHolds == PromptCommit /\ Alone => (Spec => [](TiersInv /\ AloneInv))
<1> SUFFICES ASSUME PromptCommit, Alone PROVE Spec => [](TiersInv /\ AloneInv)
  OBVIOUS
<1>1. Init => TiersInv /\ AloneInv
  BY TiersInit, InitAlone
<1>2. TiersInv /\ AloneInv /\ [Next]_vars => (TiersInv /\ AloneInv)'
  BY TiersStep, AloneStep
<1> QED
  BY <1>1, <1>2, PTL DEF Spec

\* No end of a staged file is inside a published one: where they meet, the published
\* file is inside.
LEMMA AloneLinesUp ==
    ASSUME TiersInv, AloneInv
    PROVE  PublishedLinesUp
<1> SUFFICES ASSUME NEW f \in staging, NEW p \in published, NEW o \in Span(f) \cap Span(p)
             PROVE  Span(p) \subseteq Span(f)
  BY DEF PublishedLinesUp
<1>1. f.start \in Nat /\ f.end \in Nat /\ p.start \in Nat /\ p.end \in Nat
  BY TableFacts
<1>2. o \in Int /\ f.start <= o /\ o < f.end /\ p.start <= o /\ o < p.end
  BY <1>1 DEF Span
<1>3. ~(p.start < f.start /\ f.start < p.end) /\ ~(p.start < f.end /\ f.end < p.end)
  BY DEF AloneInv, Shared, CutsOutside, Outside
<1>4. f.start <= p.start /\ p.end <= f.end
  BY <1>1, <1>2, <1>3
<1> QED
  BY <1>1, <1>4 DEF Span

\* What is about to be registered starts where the published table ends, or above.
LEMMA AloneNotRefused ==
    ASSUME TiersInv, AloneInv
    PROVE  NeverRefused
<1> SUFFICES ASSUME NEW w \in Workers, pc[w] = "register" PROVE ~Refused(w)
  BY DEF NeverRefused
<1>1. Local(w) /\ Hand("register", job[w])
  BY AloneFacts
<1>2. PICK j : j = job[w]
  OBVIOUS
<1>3. Uploading(j.outs, j.todo, Pub, Hi) /\ j.todo = {}
  BY <1>1, <1>2 DEF Local, PubJob
<1>4. j.outs # {}
  BY <1>3, InvFacts, UploadedFiles
<1>5. j.outs \subseteq staging /\ \A f \in j.outs : f.start >= Pub
  BY <1>1, <1>2 DEF Hand, PushAlone
<1>6. First(j.outs) \in j.outs
  BY <1>4, <1>5, RunEnds
<1>7. First(j.outs).start \in Nat /\ First(j.outs).start >= Pub
  BY <1>5, <1>6, TableFacts
<1>8. Pub \in Nat /\ PublishedEnd \in Nat /\ PublishedEnd <= Pub
  BY TableFacts
<1>9. ~(First(j.outs).start < PublishedEnd)
  BY <1>7, <1>8
<1> QED
  BY <1>2, <1>9 DEF Refused

\* Where one worker runs compaction, publishing and eviction, whatever passes fail or
\* die between two steps and whatever claims lapse, a published file lies inside one
\* staging file or outside all of them: merges cut where published files end, and a
\* push takes no file that reaches across the published end.
THEOREM PublishedLinesUpAlone == PromptCommit /\ Alone => (Spec => []PublishedLinesUp)
BY AloneHolds, AloneLinesUp, PTL

\* And no push of that worker is ever refused because its first file reaches into the
\* published table: "Everything upstream is arranged so this cannot arise"
\* (_table.py, _refuse_straddle).
THEOREM NeverRefusedAlone == PromptCommit /\ Alone => (Spec => []NeverRefused)
BY AloneHolds, AloneNotRefused, PTL

\* And the intents of what that worker has uploaded outlast its push: no other pass
\* reconciles them away before it is confirmed (_publish_lease, "Two publishes still
\* exclude each other").
THEOREM IntentsOutlastPushAlone == PromptCommit /\ Alone => (Spec => []IntentsOutlastPush)
<1>1. AloneInv => IntentsOutlastPush
  BY DEF AloneInv, Hand, PushAlone, IntentsOutlastPush
<1> QED
  BY <1>1, AloneHolds, PTL

=============================================================================
