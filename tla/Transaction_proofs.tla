------------------------- MODULE Transaction_proofs -------------------------
(***************************************************************************)
(* The write side of one process, for any number of threads and rows.      *)
(*                                                                         *)
(* First the cached tail (module TailCache) by itself: it never answers    *)
(* wrongly.  The inductive invariant says that the cache is in order, that *)
(* it ends below every offset still to be issued, and that it misses no    *)
(* buffered row between where it is complete from and where it ends        *)
(* (CacheSound).                                                           *)
(*                                                                         *)
(* Then AckedDurable and NothingAlone of module Transaction, and the tail  *)
(* once more under its blocks.  That invariant has three parts.  LockInv:  *)
(* the label of the one thread that is inside a call tells who has the     *)
(* RLock, how often, and whether a block is open.  SqlInv: while the       *)
(* connection is in a transaction some thread is at a label that knows of  *)
(* it, and the uncommitted view only adds to what is committed, in a block *)
(* exactly the offsets handed to it.  LogInv: the properties, with the     *)
(* bounds of the offsets.                                                  *)
(***************************************************************************)
EXTENDS Transaction, FiniteSetTheorems, SequenceTheorems, TLAPS

CacheType ==
    /\ cache \in [has : BOOLEAN, rows : Seq(Nat), start : Nat, end : Nat, from : Nat]
    /\ cache.end <= seq + 1
    /\ \A i \in 1..Len(cache.rows) : cache.rows[i] \in 1..seq

TailInv == seq \in Nat /\ buffer \subseteq 1..seq /\ CacheType /\ CacheSound

\* What an answer to a read from `start` has to be.
Exact(start, rows) ==
    /\ rows \in Seq(Nat)
    /\ Increasing(rows)
    /\ \A o \in buffer : o >= start => o \in RowsIn(rows)
    /\ \A i \in 1..Len(rows) : start <= rows[i] /\ rows[i] \in 1..seq

\* A function on 1..n is a sequence of length n.
LEMMA FunctionIsSeq ==
    ASSUME NEW n \in Nat, NEW f \in [1..n -> Nat]
    PROVE  f \in Seq(Nat) /\ Len(f) = n
<1>1. f \in Seq(Nat)
  BY SeqDef
<1> QED  BY <1>1, LenProperties

\* Rows come back as a sequence, because the buffer is finite.
LEMMA OrderedRows ==
    ASSUME seq \in Nat, buffer \subseteq 1..seq, NEW x \in Nat,
           NEW rows \in Ordered(From(x))
    PROVE  /\ rows \in Seq(Nat) /\ Increasing(rows)
           /\ \A i \in 1..Len(rows) : rows[i] \in buffer /\ rows[i] >= x
           /\ \A o \in buffer : o >= x => o \in RowsIn(rows)
<1>1. IsFiniteSet(From(x))
  <2>1. IsFiniteSet(1..seq)
    BY FS_Interval
  <2>2. From(x) \subseteq 1..seq
    BY DEF From
  <2> QED  BY <2>1, <2>2, FS_Subset
<1>2. Cardinality(From(x)) \in Nat
  BY <1>1, FS_CardinalityType
<1>3. rows \in [1..Cardinality(From(x)) -> From(x)] /\ Increasing(rows) /\ RowsIn(rows) = From(x)
  BY DEF Ordered
<1>4. From(x) \subseteq Nat
  <2>1. 1..seq \subseteq Nat
    OBVIOUS
  <2> QED  BY <2>1 DEF From
<1>5. rows \in [1..Cardinality(From(x)) -> Nat]
  BY <1>3, <1>4
<1>6. rows \in Seq(Nat) /\ Len(rows) = Cardinality(From(x))
  BY <1>2, <1>5, FunctionIsSeq
<1>7. \A i \in 1..Len(rows) : rows[i] \in From(x)
  BY <1>3, <1>6
<1> QED  BY <1>3, <1>6, <1>7 DEF From

\* t is s without its first k elements.
Sliced(s, k, t) ==
    /\ t \in Seq(Nat)
    /\ Len(t) = IF k <= Len(s) THEN Len(s) - k ELSE 0
    /\ \A i \in 1..Len(t) : i + k \in 1..Len(s) /\ t[i] = s[i + k]
    /\ \A i \in 1..Len(s) : i > k => i - k \in 1..Len(t) /\ t[i - k] = s[i]

\* SubSeq slices.
LEMMA Slice == \A s \in Seq(Nat), k \in Nat : Sliced(s, k, SubSeq(s, k + 1, Len(s)))
<1> SUFFICES ASSUME NEW s \in Seq(Nat), NEW k \in Nat,
                    NEW t, t = SubSeq(s, k + 1, Len(s))
             PROVE  Sliced(s, k, t)
  OBVIOUS
<1>1. Len(s) \in Nat
  OBVIOUS
<1>2. /\ t \in Seq(Nat)
      /\ Len(t) = IF k + 1 <= Len(s) THEN Len(s) - (k + 1) + 1 ELSE 0
      /\ \A i \in 1..Len(s) - (k + 1) + 1 : t[i] = s[(k + 1) + i - 1]
  <2>1. \A i \in k + 1 .. Len(s) : s[i] \in Nat
    BY <1>1
  <2>2. k + 1 \in Int /\ Len(s) \in Int
    BY <1>1
  <2> QED  BY <2>1, <2>2, SubSeqProperties
<1>3. Len(t) = IF k <= Len(s) THEN Len(s) - k ELSE 0
  BY <1>1, <1>2
<1>4. \A i \in 1..Len(t) : i + k \in 1..Len(s) /\ t[i] = s[i + k]
  <2> SUFFICES ASSUME NEW i \in 1..Len(t) PROVE i + k \in 1..Len(s) /\ t[i] = s[i + k]
    OBVIOUS
  <2>1. i \in 1..Len(s) - (k + 1) + 1 /\ (k + 1) + i - 1 = i + k /\ i + k \in 1..Len(s)
    BY <1>1, <1>3
  <2> QED  BY <1>2, <2>1
<1>5. \A i \in 1..Len(s) : i > k => i - k \in 1..Len(t) /\ t[i - k] = s[i]
  <2> SUFFICES ASSUME NEW i \in 1..Len(s), i > k PROVE i - k \in 1..Len(t) /\ t[i - k] = s[i]
    OBVIOUS
  <2>1. i - k \in 1..Len(t) /\ (i - k) + k = i
    BY <1>1, <1>3
  <2> QED  BY <1>4, <2>1
<1> QED  BY <1>2, <1>3, <1>4, <1>5 DEF Sliced

\* The slice is exactly what the cache holds from `start` up.
LEMMA KeptRows ==
    ASSUME TailInv, NEW start \in Nat, Reusable(start)
    PROVE  /\ Kept(start) \in Seq(Nat)
           /\ Increasing(Kept(start))
           /\ \A i \in 1..Len(Kept(start)) :
                 /\ start <= Kept(start)[i] /\ Kept(start)[i] < cache.end
                 /\ Kept(start)[i] \in 1..seq
           /\ \A i \in 1..Len(cache.rows) :
                 cache.rows[i] >= start => \E j \in 1..Len(Kept(start)) : Kept(start)[j] = cache.rows[i]
<1> DEFINE R == cache.rows
           k == Base(start) - cache.start
           K == Kept(start)
<1>1. /\ R \in Seq(Nat) /\ cache.start \in Nat /\ cache.end \in Nat /\ cache.from \in Nat
      /\ Len(R) \in Nat
  BY DEF TailInv, CacheType
<1>2. /\ k \in Nat /\ Base(start) \in Nat /\ Base(start) >= start
      /\ Base(start) > start => k = 0
  BY <1>1 DEF Base
<1>3. K = SubSeq(R, k + 1, Len(R))
  BY DEF Kept
<1>4. /\ R = cache.rows /\ K = Kept(start)
      /\ R # <<>> => cache.end = R[Len(R)] + 1
      /\ K = <<>> => cache.end <= start
      /\ K # <<>> => K[1] = Base(start)
      /\ Increasing(R)
  BY DEF TailInv, CacheSound, Reusable
<1>5. \A i, j \in 1..Len(R) : i < j => R[i] < R[j]
  <2>1. DOMAIN R = 1..Len(R)
    BY <1>1
  <2> QED  BY <1>4, <2>1 DEF Increasing
<1>6. \A i \in 1..Len(R) : R[i] \in 1..seq /\ R[i] \in Nat
  BY <1>1 DEF TailInv, CacheType
<1> HIDE DEF R, K, k
<1>0. /\ K \in Seq(Nat)
      /\ Len(K) = IF k <= Len(R) THEN Len(R) - k ELSE 0
      /\ \A i \in 1..Len(K) : i + k \in 1..Len(R) /\ K[i] = R[i + k]
      /\ \A i \in 1..Len(R) : i > k => i - k \in 1..Len(K) /\ K[i - k] = R[i]
  <2>1. R \in Seq(Nat) /\ k \in Nat
    BY <1>1, <1>2
  <2>2. Sliced(R, k, K)
    BY <1>3, <2>1, Slice
  <2> QED  BY <2>2 DEF Sliced
<1>7. \A i \in 1..Len(R) : R[i] < cache.end
  <2> SUFFICES ASSUME NEW i \in 1..Len(R) PROVE R[i] < cache.end
    OBVIOUS
  <2>1. R # <<>>
    BY <1>1
  <2>2. cache.end = R[Len(R)] + 1
    BY <1>4, <2>1
  <2>3. Len(R) \in 1..Len(R)
    BY <1>1
  <2>4. i = Len(R) \/ R[i] < R[Len(R)]
    BY <1>1, <1>5, <2>3
  <2> QED  BY <1>6, <2>2, <2>3, <2>4
<1>8. Increasing(K)
  <2>1. \A i, j \in 1..Len(K) : i < j => K[i] < K[j]
    <3> SUFFICES ASSUME NEW i \in 1..Len(K), NEW j \in 1..Len(K), i < j
                 PROVE  K[i] < K[j]
      OBVIOUS
    <3>1. i + k \in 1..Len(R) /\ j + k \in 1..Len(R) /\ i + k < j + k
      BY <1>1, <1>2, <1>0
    <3> QED  BY <1>0, <1>5, <3>1
  <2>2. DOMAIN K = 1..Len(K)
    BY <1>0
  <2> QED  BY <2>1, <2>2 DEF Increasing
<1>9. CASE K = <<>>
  <2>1. cache.end <= start
    BY <1>4, <1>9
  <2>2. \A i \in 1..Len(R) : ~(R[i] >= start)
    BY <1>1, <1>6, <1>7, <2>1
  <2> QED  BY <1>4, <1>0, <1>8, <1>9, <2>2
<1>10. CASE K # <<>>
  <2>1. K[1] = Base(start)
    BY <1>4, <1>10
  <2>2. Len(K) \in Nat /\ Len(K) >= 1 /\ k < Len(R)
    BY <1>1, <1>2, <1>0, <1>10
  <2>3. k + 1 \in 1..Len(R) /\ R[k + 1] = Base(start)
    <3>1. 1 \in 1..Len(K) /\ k + 1 \in 1..Len(R)
      BY <1>1, <1>2, <2>2
    <3>2. K[1] = R[1 + k]
      BY <1>0, <3>1
    <3>3. 1 + k = k + 1
      BY <1>2
    <3> QED  BY <2>1, <3>1, <3>2, <3>3
  <2>4. \A i \in 1..Len(K) : start <= K[i] /\ K[i] < cache.end /\ K[i] \in 1..seq
    <3> SUFFICES ASSUME NEW i \in 1..Len(K)
                 PROVE  start <= K[i] /\ K[i] < cache.end /\ K[i] \in 1..seq
      OBVIOUS
    <3>1. i + k \in 1..Len(R) /\ K[i] = R[i + k]
      BY <1>1, <1>2, <1>0
    <3>2. i + k = k + 1 \/ R[k + 1] < R[i + k]
      BY <1>1, <1>2, <1>5, <2>3, <3>1
    <3> QED  BY <1>2, <1>6, <1>7, <2>3, <3>1, <3>2
  <2>5. ASSUME NEW i \in 1..Len(R), R[i] >= start
        PROVE  \E j \in 1..Len(K) : K[j] = R[i]
    <3>1. i > k
      <4> SUFFICES ASSUME i <= k PROVE FALSE
        BY <1>1, <1>2
      <4>1. i < k + 1 /\ R[i] < R[k + 1]
        BY <1>1, <1>2, <1>5, <2>3
      <4>2. Base(start) = start
        BY <1>1, <1>2
      <4> QED  BY <1>6, <2>3, <2>5, <4>1, <4>2
    <3>2. i - k \in 1..Len(K) /\ K[i - k] = R[i]
      BY <1>1, <1>2, <1>0, <3>1
    <3> QED  BY <3>2
  <2> QED  BY <1>4, <1>0, <1>8, <2>4, <2>5
<1> QED  BY <1>9, <1>10

\* Every answer rows_from can give, from the cache or not, is exact.
LEMMA AnswerExact ==
    ASSUME TailInv, NEW start \in 0..seq + 1, NEW rows \in Answers(start)
    PROVE  Exact(start, rows)
<1>0. seq \in Nat /\ buffer \subseteq 1..seq /\ start \in Nat
  BY DEF TailInv
<1>1. CASE ~Reusable(start)
  <2>1. rows \in Ordered(From(start))
    BY <1>1 DEF Answers
  <2>2. /\ rows \in Seq(Nat) /\ Increasing(rows)
        /\ \A i \in 1..Len(rows) : rows[i] \in buffer /\ rows[i] >= start
        /\ \A o \in buffer : o >= start => o \in RowsIn(rows)
    BY <1>0, <2>1, OrderedRows
  <2> QED  BY <1>0, <2>2 DEF Exact
<1>2. CASE Reusable(start)
  <2>1. cache.end \in Nat /\ cache.from \in Nat /\ cache.rows \in Seq(Nat)
    BY DEF TailInv, CacheType
  <2>2. PICK fresh \in Ordered(From(cache.end)) : rows = Kept(start) \o fresh
    BY <1>2 DEF Answers
  <2>3. /\ fresh \in Seq(Nat) /\ Increasing(fresh)
        /\ \A i \in 1..Len(fresh) : fresh[i] \in buffer /\ fresh[i] >= cache.end
        /\ \A o \in buffer : o >= cache.end => o \in RowsIn(fresh)
    BY <1>0, <2>1, OrderedRows
  <2> DEFINE K == Kept(start)
  <2>4. /\ K \in Seq(Nat) /\ Increasing(K)
        /\ \A i \in 1..Len(K) : start <= K[i] /\ K[i] < cache.end /\ K[i] \in 1..seq
        /\ \A i \in 1..Len(cache.rows) :
              cache.rows[i] >= start => \E j \in 1..Len(K) : K[j] = cache.rows[i]
    BY <1>0, <1>2, KeptRows
  <2>5. rows = K \o fresh
    BY <2>2
  <2> HIDE DEF K
  <2>6. /\ rows \in Seq(Nat)
        /\ Len(rows) = Len(K) + Len(fresh)
        /\ \A i \in 1..Len(rows) : rows[i] = IF i <= Len(K) THEN K[i] ELSE fresh[i - Len(K)]
    BY <2>3, <2>4, <2>5
  <2>7. Len(K) \in Nat /\ Len(fresh) \in Nat /\ Len(rows) \in Nat
    BY <2>3, <2>4, <2>6
  <2>8. cache.from <= start /\ start <= cache.end
    BY <1>2 DEF Reusable
  <2>9. \A i \in 1..Len(rows) : start <= rows[i] /\ rows[i] \in 1..seq
    <3> SUFFICES ASSUME NEW i \in 1..Len(rows) PROVE start <= rows[i] /\ rows[i] \in 1..seq
      OBVIOUS
    <3>1. CASE i <= Len(K)
      <4>1. i \in 1..Len(K) /\ rows[i] = K[i]
        BY <2>6, <2>7, <3>1
      <4> QED  BY <2>4, <4>1
    <3>2. CASE ~(i <= Len(K))
      <4>1. i - Len(K) \in 1..Len(fresh) /\ rows[i] = fresh[i - Len(K)]
        BY <2>6, <2>7, <3>2
      <4>2. rows[i] \in buffer /\ rows[i] >= cache.end
        BY <2>3, <4>1
      <4>3. rows[i] \in 1..seq
        BY <1>0, <4>2, Zenon
      <4>4. rows[i] \in Nat
        BY <2>6
      <4> QED  BY <1>0, <2>1, <2>8, <4>2, <4>3, <4>4
    <3> QED  BY <3>1, <3>2
  <2>10. Increasing(rows)
    <3>1. \A i, j \in 1..Len(K) : i < j => K[i] < K[j]
      <4>1. DOMAIN K = 1..Len(K)
        BY <2>4
      <4> QED  BY <2>4, <4>1 DEF Increasing
    <3>2. \A i, j \in 1..Len(fresh) : i < j => fresh[i] < fresh[j]
      <4>1. DOMAIN fresh = 1..Len(fresh)
        BY <2>3
      <4> QED  BY <2>3, <4>1 DEF Increasing
    <3>3. ASSUME NEW i \in 1..Len(rows), NEW j \in 1..Len(rows), i < j
          PROVE  rows[i] < rows[j]
      <4>1. CASE j <= Len(K)
        <5>1. i \in 1..Len(K) /\ j \in 1..Len(K) /\ rows[i] = K[i] /\ rows[j] = K[j]
          BY <2>6, <2>7, <3>3, <4>1
        <5> QED  BY <3>1, <3>3, <5>1
      <4>2. CASE i <= Len(K) /\ ~(j <= Len(K))
        <5>1. j - Len(K) \in 1..Len(fresh) /\ rows[j] = fresh[j - Len(K)]
          BY <2>6, <2>7, <4>2
        <5>2. rows[i] = K[i] /\ i \in 1..Len(K)
          BY <2>6, <2>7, <4>2
        <5>3. rows[i] < cache.end /\ cache.end <= rows[j]
          BY <2>3, <2>4, <5>1, <5>2
        <5>4. rows[i] \in Nat /\ rows[j] \in Nat
          BY <2>6
        <5> QED  BY <2>1, <5>3, <5>4
      <4>3. CASE ~(i <= Len(K))
        <5>1. /\ i - Len(K) \in 1..Len(fresh) /\ rows[i] = fresh[i - Len(K)]
              /\ j - Len(K) \in 1..Len(fresh) /\ rows[j] = fresh[j - Len(K)]
              /\ i - Len(K) < j - Len(K)
          BY <2>6, <2>7, <3>3, <4>3
        <5> QED  BY <3>2, <5>1
      <4> QED  BY <2>7, <3>3, <4>1, <4>2, <4>3
    <3>4. DOMAIN rows = 1..Len(rows)
      BY <2>6
    <3> QED  BY <3>3, <3>4 DEF Increasing
  <2>11. ASSUME NEW o \in buffer, o >= start
         PROVE  o \in RowsIn(rows)
    <3>0. o \in Nat
      BY <1>0
    <3>1. CASE o < cache.end
      <4>1. o \in RowsIn(cache.rows)
        BY <1>2, <2>1, <2>8, <2>11, <3>0, <3>1 DEF TailInv, CacheSound, Reusable
      <4>2. PICK i \in 1..Len(cache.rows) : cache.rows[i] = o
        BY <2>1, <4>1 DEF RowsIn
      <4>3. PICK j \in 1..Len(K) : K[j] = o
        BY <2>4, <2>11, <4>2
      <4>4. j \in 1..Len(rows) /\ rows[j] = o
        <5>1. j \in 1..Len(rows) /\ j <= Len(K)
          BY <2>6, <2>7
        <5> QED  BY <2>6, <4>3, <5>1
      <4>5. DOMAIN rows = 1..Len(rows)
        BY <2>6
      <4> QED  BY <4>4, <4>5 DEF RowsIn
    <3>2. CASE ~(o < cache.end)
      <4>1. o \in RowsIn(fresh)
        BY <2>1, <2>3, <3>0, <3>2
      <4>2. PICK i \in 1..Len(fresh) : fresh[i] = o
        BY <2>3, <4>1 DEF RowsIn
      <4>3. /\ i + Len(K) \in 1..Len(rows) /\ ~(i + Len(K) <= Len(K))
            /\ (i + Len(K)) - Len(K) = i
        BY <2>6, <2>7
      <4>4. rows[i + Len(K)] = o
        BY <2>6, <4>2, <4>3
      <4>5. DOMAIN rows = 1..Len(rows)
        BY <2>6
      <4> QED  BY <4>3, <4>4, <4>5 DEF RowsIn
    <3> QED  BY <3>1, <3>2
  <2> QED  BY <2>6, <2>9, <2>10, <2>11 DEF Exact
<1> QED  BY <1>1, <1>2

\* Every row in the buffer was issued, so the sequence is the floor a
\* reservation starts from.
LEMMA FloorIsSeq ==
    ASSUME seq \in Nat, buffer \subseteq 1..seq
    PROVE  Floor = seq
<1>1. seq \in {seq} \cup buffer /\ \A o \in {seq} \cup buffer : seq >= o
  OBVIOUS
<1>2. \A m \in {seq} \cup buffer : (\A o \in {seq} \cup buffer : m >= o) => m = seq
  OBVIOUS
<1> QED  BY <1>1, <1>2 DEF Floor

\* The invariant survives appended rows, reserved offsets and evicted rows:
\* nothing comes in below the cached end.
LEMMA RowsMove ==
    ASSUME TailInv, UNCHANGED cache, seq' \in Nat, seq' >= seq,
           buffer' \subseteq 1..seq', \A o \in buffer' : o \in buffer \/ o > seq
    PROVE  TailInv'
<1>1. CacheType'
  <2>1. \A i \in 1..Len(cache.rows) : cache.rows[i] \in 1..seq'
    BY DEF TailInv, CacheType
  <2>2. cache.end <= seq' + 1
    BY DEF TailInv, CacheType
  <2> QED  BY <2>1, <2>2 DEF TailInv, CacheType
<1>2. CacheSound'
  <2>1. ASSUME cache.has, NEW o \in buffer', cache.from <= o, o < cache.end
        PROVE  o \in RowsIn(cache.rows)
    <3>1. o \in buffer
      BY <2>1 DEF TailInv, CacheType
    <3> QED  BY <2>1, <3>1 DEF TailInv, CacheSound
  <2> QED  BY <2>1 DEF TailInv, CacheSound, RowsIn, Increasing
<1> QED  BY <1>1, <1>2 DEF TailInv

\* The cache an exact answer leaves is sound.
LEMMA CacheLeft ==
    ASSUME TailInv, NEW start \in 0..seq + 1, RowsFrom(start)
    PROVE  TailInv'
<1>0. seq \in Nat /\ buffer \subseteq 1..seq /\ start \in Nat /\ UNCHANGED <<seq, buffer>>
  BY DEF TailInv, RowsFrom
<1>1. PICK rows \in Answers(start) : cache' = CacheOf(start, rows)
  BY DEF RowsFrom
<1>2. Exact(start, rows)
  BY <1>1, AnswerExact
<1>3. /\ rows \in Seq(Nat) /\ Increasing(rows)
      /\ \A o \in buffer : o >= start => o \in RowsIn(rows)
      /\ \A i \in 1..Len(rows) : start <= rows[i] /\ rows[i] \in 1..seq
  BY <1>2 DEF Exact
<1>4. CASE rows = <<>>
  <2>1. cache' = [has |-> TRUE, rows |-> rows, from |-> start, start |-> start, end |-> start]
    BY <1>1, <1>4 DEF CacheOf
  <2>2. CacheType'
    BY <1>0, <1>3, <2>1 DEF CacheType
  <2>3. CacheSound'
    <3>1. \A o \in buffer' : cache'.from <= o /\ o < cache'.end => o \in RowsIn(cache'.rows)
      BY <1>0, <2>1
    <3> QED  BY <1>3, <1>4, <2>1, <3>1 DEF CacheSound, Increasing, RowsIn
  <2> QED  BY <1>0, <2>2, <2>3 DEF TailInv
<1>5. CASE rows # <<>>
  <2>0. Len(rows) \in Nat \ {0}
    BY <1>3, <1>5
  <2>1. cache' = [has |-> TRUE, rows |-> rows, from |-> start, start |-> rows[1],
                  end |-> rows[Len(rows)] + 1]
    BY <1>1, <1>5 DEF CacheOf
  <2>2. rows[1] \in 1..seq /\ rows[Len(rows)] \in 1..seq
    BY <1>3, <2>0
  <2>3. CacheType'
    <3>1. rows[1] \in Nat /\ rows[Len(rows)] + 1 \in Nat /\ rows[Len(rows)] + 1 <= seq + 1
      BY <1>0, <2>2
    <3> QED  BY <1>0, <1>3, <2>1, <3>1 DEF CacheType
  <2>4. CacheSound'
    <3>1. \A o \in buffer' : cache'.from <= o /\ o < cache'.end => o \in RowsIn(rows)
      BY <1>0, <1>3, <2>1
    <3> QED  BY <1>3, <1>5, <2>1, <3>1 DEF CacheSound, Increasing, RowsIn
  <2> QED  BY <1>0, <2>3, <2>4 DEF TailInv
<1> QED  BY <1>4, <1>5

\* The cache stays sound through appends, reservations, evictions and reads,
\* in whatever order they come.
LEMMA TailStep ==
    ASSUME TailInv, [TailNext]_tailVars
    PROVE  TailInv'
<1>0. seq \in Nat /\ buffer \subseteq 1..seq /\ MaxBatch \in Nat
  BY RowsAssumption DEF TailInv
<1>1. ASSUME NEW k \in 1..MaxBatch, AppendRows(k), UNCHANGED cache
      PROVE  TailInv'
  BY <1>0, <1>1, RowsMove DEF AppendRows
<1>2. ASSUME NEW k \in 1..MaxBatch, Reserve(k), UNCHANGED cache
      PROVE  TailInv'
  <2>1. seq' = seq + k /\ buffer' = buffer
    BY <1>0, <1>2, FloorIsSeq DEF Reserve
  <2> QED  BY <1>0, <1>2, <2>1, RowsMove
<1>3. ASSUME NEW a \in 1..seq + 1, NEW b \in 1..seq + 1, EvictRows(a, b), UNCHANGED cache
      PROVE  TailInv'
  <2>1. seq' = seq /\ buffer' \subseteq buffer
    BY <1>3 DEF EvictRows
  <2> QED  BY <1>0, <1>3, <2>1, RowsMove
<1>4. ASSUME NEW start \in 0..seq + 1, RowsFrom(start)
      PROVE  TailInv'
  BY <1>4, CacheLeft
<1>5. CASE UNCHANGED tailVars
  <2>1. seq' = seq /\ buffer' = buffer /\ cache' = cache
    BY <1>5 DEF tailVars
  <2> QED  BY <1>0, <2>1, RowsMove
<1> QED  BY <1>1, <1>2, <1>3, <1>4, <1>5 DEF TailNext

\* No cache is a sound cache.
LEMMA TailStart ==
    ASSUME TailInit
    PROVE  TailInv
<1>1. cache = [has |-> FALSE, rows |-> <<>>, start |-> 0, end |-> 0, from |-> 0]
  BY DEF TailInit, NoCache
<1>2. CacheSound
  BY <1>1 DEF CacheSound
<1>3. CacheType
  BY <1>1 DEF CacheType, TailInit
<1> QED  BY <1>2, <1>3 DEF TailInv, TailInit

\* Exact answers are what TailAnswers asks for.
LEMMA AnswersServe ==
    ASSUME TailInv
    PROVE  TailAnswers
<1>1. ASSUME NEW start \in 0..seq + 1, NEW rows \in Answers(start)
      PROVE  /\ Increasing(rows)
             /\ From(start) \subseteq RowsIn(rows)
             /\ \A o \in RowsIn(rows) : start <= o /\ o <= seq
  <2>1. Exact(start, rows)
    BY <1>1, AnswerExact
  <2>2. rows \in Seq(Nat) /\ DOMAIN rows = 1..Len(rows)
    BY <2>1 DEF Exact
  <2>3. From(start) \subseteq RowsIn(rows)
    BY <2>1 DEF Exact, From
  <2>4. \A o \in RowsIn(rows) : start <= o /\ o <= seq
    <3>1. \A i \in 1..Len(rows) : start <= rows[i] /\ rows[i] \in 1..seq
      BY <2>1 DEF Exact
    <3>2. \A i \in 1..Len(rows) : start <= rows[i] /\ rows[i] <= seq
      BY <3>1 DEF TailInv
    <3> QED  BY <2>2, <3>2 DEF RowsIn
  <2> QED  BY <2>1, <2>3, <2>4 DEF Exact
<1> QED  BY <1>1 DEF TailAnswers

\* The cache behind Buffer.rows_from is sound after any sequence of appends,
\* reservations, evictions and reads.
THEOREM CacheStaysSound == TailSpec => []CacheSound
<1>1. TailInit => TailInv
  BY TailStart
<1>2. TailInv /\ [TailNext]_tailVars => TailInv'
  BY TailStep
<1>3. TailInv => CacheSound
  BY DEF TailInv
<1> QED  BY <1>1, <1>2, <1>3, PTL DEF TailSpec

\* Every answer Buffer.rows_from can give is in order, without repetition and
\* complete, for every number of offsets and every batch size.
THEOREM TailAlwaysAnswers == TailSpec => []TailAnswers
<1>1. TailInit => TailInv
  BY TailStart
<1>2. TailInv /\ [TailNext]_tailVars => TailInv'
  BY TailStep
<1>3. TailInv => TailAnswers
  BY AnswersServe
<1> QED  BY <1>1, <1>2, <1>3, PTL DEF TailSpec

-----------------------------------------------------------------------------

\* Where a thread can be; what its label says of the block and of the lock.
Labels == {"idle", "begin", "insert", "commit", "exit", "beginBlock", "hold",
           "block", "joined", "close", "unhold"}

InBlock(l) == l \in {"block", "joined", "close", "unhold"}
DepthAt(l) == IF l = "joined" THEN 3 ELSE IF l \in {"block", "close"} THEN 2 ELSE 1

\* The thread inside a call has the lock, as often as its label says.
LockAt(t) ==
    pc[t] # "idle" =>
        /\ owner = {t} /\ depth = DepthAt(pc[t])
        /\ held <=> InBlock(pc[t])
        /\ admitted = IF pc[t] = "joined" THEN 1 ELSE 0

\* Nobody has it.
Free == owner = {} /\ depth = 0 /\ ~held /\ admitted = 0 /\ ~begun

\* The one thread inside a call, or none.
LockInv ==
    /\ pc \in [Threads -> Labels]
    /\ \A t \in Threads : LockAt(t)
    /\ Free \/ \E t \in Threads : owner = {t} /\ pc[t] # "idle"

\* A view that adds to what is committed, above every offset issued.
Adds(w) ==
    /\ w.seq \in Nat /\ w.seq >= seq
    /\ buffer \subseteq w.buffer
    /\ \A o \in w.buffer : o \in buffer \/ o \in seq + 1 .. w.seq

\* What a label knows of the transaction that is open.
SqlAt(t) ==
    /\ pc[t] \in {"begin", "exit", "beginBlock", "close", "unhold"} => ~begun
    /\ pc[t] \in {"insert", "commit", "hold", "joined"} => begun
    /\ pc[t] \in {"insert", "commit", "hold", "joined"} => Adds(work)
    /\ pc[t] = "hold" => work.buffer = buffer
    /\ pc[t] = "block" /\ begun => Adds(work) /\ work.buffer = buffer \cup got
    /\ pc[t] = "joined" =>
        Adds(save) /\ save.buffer = buffer \cup got /\ save.buffer \subseteq work.buffer

\* The connection.
SqlInv == begun \in BOOLEAN /\ \A t \in Threads : SqlAt(t)

\* The properties, and the bounds of offsets.
LogInv ==
    /\ seq \in Nat /\ buffer \subseteq 1..seq
    /\ acked \subseteq 1..seq /\ gone \in Nat
    /\ AckedDurable /\ NothingAlone

\* The inductive invariant.
TransInv == LockInv /\ SqlInv /\ LogInv /\ TailInv

-----------------------------------------------------------------------------

\* The lock as it is while t is inside a call: every other thread is outside.
LEMMA InsideAlone ==
    ASSUME TransInv, NEW t \in Threads, pc[t] # "idle"
    PROVE  /\ owner = {t} /\ depth = DepthAt(pc[t]) /\ (held <=> InBlock(pc[t]))
           /\ admitted = (IF pc[t] = "joined" THEN 1 ELSE 0)
           /\ pc \in [Threads -> Labels] /\ begun \in BOOLEAN /\ SqlAt(t)
BY DEF TransInv, LockInv, LockAt, SqlInv

\* A thread goes to label l and leaves lock and transaction as l wants them:
\* the labels of the other threads say nothing of either.
LEMMA Moves ==
    ASSUME TransInv, NEW t \in Threads, NEW l \in Labels,
           pc[t] # "idle" \/ LockOpen(t),
           Go(t, l), pc'[t] = l => LockAt(t)' /\ SqlAt(t)',
           begun' \in BOOLEAN, l = "idle" => Free'
    PROVE  LockInv' /\ SqlInv'
<1>1. \A u \in Threads : u # t => pc[u] = "idle"
  BY DEF TransInv, LockInv, LockAt, LockOpen, Free
<1>2. pc' \in [Threads -> Labels] /\ pc'[t] = l /\ \A u \in Threads : u # t => pc'[u] = "idle"
  BY <1>1 DEF TransInv, LockInv, Go
<1>3. \A u \in Threads : LockAt(u)' /\ SqlAt(u)'
  BY <1>2 DEF LockAt, SqlAt
<1>4. l # "idle" => owner' = {t} /\ pc'[t] # "idle"
  BY <1>2, <1>3 DEF LockAt
<1> QED  BY <1>2, <1>3, <1>4 DEF LockInv, SqlInv

\* Rows added by a commit: all of them acknowledged with it, none missing.
LEMMA LogAdds ==
    ASSUME LogInv, Adds(work), seq' = work.seq, buffer' = work.buffer, UNCHANGED gone,
           acked' = acked \cup (work.buffer \ buffer)
    PROVE  LogInv'
<1>1. seq \in Nat /\ seq' \in Nat /\ seq' >= seq
  BY DEF LogInv, Adds
<1>2. \A o \in buffer' : o \in buffer \/ o \in seq + 1 .. seq'
  BY DEF Adds
<1>3. 1..seq \subseteq 1..seq' /\ seq + 1 .. seq' \subseteq 1..seq'
  BY <1>1
<1>4. buffer' \subseteq 1..seq' /\ acked' \subseteq 1..seq'
  BY <1>2, <1>3 DEF LogInv
<1>5. AckedDurable'
  BY DEF LogInv, Adds, AckedDurable
<1>6. NothingAlone'
  BY DEF LogInv, Adds, NothingAlone
<1> QED  BY <1>1, <1>4, <1>5, <1>6 DEF LogInv

\* Steps that leave the log alone.
LEMMA LogStays ==
    ASSUME LogInv, UNCHANGED <<seq, buffer, acked, gone>>
    PROVE  LogInv'
BY DEF LogInv, AckedDurable, NothingAlone

\* A commit adds above the cached tail.
LEMMA TailAdds ==
    ASSUME TailInv, LogInv, LogInv', Adds(work), seq' = work.seq, buffer' = work.buffer,
           UNCHANGED cache
    PROVE  TailInv'
<1>1. seq \in Nat /\ seq' \in Nat /\ seq' >= seq /\ buffer' \subseteq 1..seq'
  BY DEF LogInv, Adds
<1>2. \A o \in buffer' : o \in buffer \/ o > seq
  BY <1>1 DEF Adds
<1> QED  BY <1>1, <1>2, RowsMove

\* Steps that leave rows and cache alone.
LEMMA TailStays ==
    ASSUME TailInv, UNCHANGED <<seq, buffer, cache>>
    PROVE  TailInv'
BY DEF TailInv, CacheType, CacheSound

-----------------------------------------------------------------------------

\* What every action of a thread leaves alone is left to these two.
Quiet == UNCHANGED <<seq, buffer, cache, acked, gone>>

\* A quiet step keeps the log and the tail.
LEMMA QuietStays ==
    ASSUME TransInv, Quiet
    PROVE  LogInv' /\ TailInv'
BY LogStays, TailStays DEF TransInv, Quiet

\* The write lock is taken.
LEMMA EnterWriteStep ==
    ASSUME TransInv, NEW t \in Threads, NEW l \in {"begin", "beginBlock"}, EnterWrite(t, l)
    PROVE  TransInv'
<1>1. LogInv' /\ TailInv'
  BY QuietStays DEF Quiet, EnterWrite, tailVars, ghosts
<1>2. Free
  BY DEF TransInv, LockInv, EnterWrite, Acquire, LockOpen
<1>3. LockOpen(t) /\ owner' = {t} /\ depth' = 1 /\ ~held' /\ admitted' = 0 /\ begun' = FALSE
  BY <1>2 DEF TransInv, SqlInv, Free, EnterWrite, Acquire, sqlVars
<1>4. pc'[t] = l => LockAt(t)' /\ SqlAt(t)'
  BY <1>3 DEF LockAt, SqlAt, DepthAt, InBlock
<1>5. LockInv' /\ SqlInv'
  BY <1>3, <1>4, Moves DEF EnterWrite, Labels
<1> QED  BY <1>1, <1>5 DEF TransInv

\* BEGIN succeeds, or raises and the lock is given back next.
LEMMA BeginStep ==
    ASSUME TransInv, NEW t \in Threads, NEW from \in {"begin", "beginBlock"},
           NEW next \in {"insert", "hold"}, Begin(t, from, next)
    PROVE  TransInv'
<1>1. LogInv' /\ TailInv'
  BY QuietStays DEF Quiet, Begin, tailVars, ghosts
<1>2. /\ owner' = {t} /\ depth' = 1 /\ ~held' /\ admitted' = 0
      /\ pc[t] # "idle" /\ begun = FALSE
  BY InsideAlone DEF Begin, DepthAt, InBlock, lockVars, SqlAt
<1>3. CASE begun' = TRUE /\ work' = Committed /\ Go(t, next)
  <2>1. Adds(work)' /\ work'.buffer = buffer'
    BY <1>1, <1>3 DEF Begin, Committed, Adds, LogInv, tailVars
  <2>2. pc'[t] = next => LockAt(t)' /\ SqlAt(t)'
    BY <1>2, <1>3, <2>1 DEF LockAt, SqlAt, DepthAt, InBlock
  <2>3. LockInv' /\ SqlInv'
    BY <1>2, <1>3, <2>2, Moves DEF Labels
  <2> QED  BY <1>1, <2>3 DEF TransInv
<1>4. CASE Go(t, "exit") /\ begun' = FALSE
  <2>1. pc'[t] = "exit" => LockAt(t)' /\ SqlAt(t)'
    BY <1>2, <1>4 DEF LockAt, SqlAt, DepthAt, InBlock
  <2>2. LockInv' /\ SqlInv'
    BY <1>2, <1>4, <2>1, Moves DEF Labels
  <2> QED  BY <1>1, <2>2 DEF TransInv
<1> QED  BY <1>2, <1>3, <1>4 DEF Begin

\* Rows inserted on top of a view stay above every offset issued.
LEMMA InsertAdds ==
    ASSUME LogInv, Adds(work), NEW k \in Nat
    PROVE  /\ Inserted(work, k).seq \in Nat /\ Inserted(work, k).seq >= seq
           /\ work.buffer \subseteq Inserted(work, k).buffer
           /\ \A o \in Inserted(work, k).buffer : o \in buffer \/ o \in seq + 1 .. Inserted(work, k).seq
<1>1. work.seq \in Nat /\ seq \in Nat /\ work.seq >= seq
  BY DEF Adds, LogInv
<1>2. work.seq + 1 .. work.seq + k \subseteq seq + 1 .. work.seq + k
  BY <1>1
<1>3. seq + 1 .. work.seq \subseteq seq + 1 .. work.seq + k
  BY <1>1
<1> QED  BY <1>1, <1>2, <1>3 DEF Inserted, Adds

\* An append inserts, uncommitted.
LEMMA PlainInsertStep ==
    ASSUME TransInv, NEW t \in Threads, NEW k \in 0..MaxBatch, PlainInsert(t, k)
    PROVE  TransInv'
<1>1. LogInv' /\ TailInv'
  BY QuietStays DEF Quiet, PlainInsert, tailVars, ghosts
<1>2. /\ owner' = {t} /\ depth' = 1 /\ ~held' /\ admitted' = 0
      /\ pc[t] # "idle" /\ begun' = TRUE /\ Adds(work)
  BY InsideAlone DEF PlainInsert, DepthAt, InBlock, lockVars, SqlAt
<1>3. Adds(work)'
  BY <1>2, InsertAdds, RowsAssumption DEF TransInv, PlainInsert, Adds, tailVars
<1>4. pc'[t] = "commit" => LockAt(t)' /\ SqlAt(t)'
  BY <1>2, <1>3 DEF LockAt, SqlAt, DepthAt, InBlock
<1>5. LockInv' /\ SqlInv'
  BY <1>2, <1>4, Moves DEF PlainInsert, Labels
<1> QED  BY <1>1, <1>5 DEF TransInv

\* It commits, or the COMMIT fails.
LEMMA PlainCommitStep ==
    ASSUME TransInv, NEW t \in Threads, PlainCommit(t)
    PROVE  TransInv'
<1>1. /\ owner' = {t} /\ depth' = 1 /\ ~held' /\ admitted' = 0
      /\ pc[t] # "idle" /\ Adds(work)
  BY InsideAlone DEF PlainCommit, DepthAt, InBlock, lockVars, SqlAt
<1>2. LogInv' /\ TailInv'
  <2>1. CASE Commit /\ acked' = acked \cup (work.buffer \ buffer)
    <3>1. LogInv'
      BY <1>1, <2>1, LogAdds DEF TransInv, PlainCommit, Commit
    <3> QED  BY <1>1, <2>1, <3>1, TailAdds DEF TransInv, PlainCommit, Commit
  <2>2. CASE Rollback /\ UNCHANGED acked
    BY <2>2, QuietStays DEF Quiet, PlainCommit, Rollback
  <2> QED  BY <2>1, <2>2 DEF PlainCommit
<1>3. begun' = FALSE
  BY DEF PlainCommit, Commit, Rollback
<1>4. pc'[t] = "exit" => LockAt(t)' /\ SqlAt(t)'
  BY <1>1, <1>3 DEF LockAt, SqlAt, DepthAt, InBlock
<1>5. LockInv' /\ SqlInv'
  BY <1>1, <1>3, <1>4, Moves DEF PlainCommit, Labels
<1> QED  BY <1>2, <1>5 DEF TransInv

\* The write lock is given back.
LEMMA ExitWriteStep ==
    ASSUME TransInv, NEW t \in Threads, ExitWrite(t)
    PROVE  TransInv'
<1>1. LogInv' /\ TailInv'
  BY QuietStays DEF Quiet, ExitWrite, tailVars, ghosts
<1>2. pc[t] # "idle" /\ depth = 1 /\ ~held' /\ admitted' = 0 /\ begun' = FALSE
  BY InsideAlone DEF ExitWrite, DepthAt, InBlock, SqlAt, sqlVars
<1>3. Free'
  BY <1>2 DEF Free, ExitWrite, Release
<1>4. pc'[t] = "idle" => LockAt(t)' /\ SqlAt(t)'
  BY DEF LockAt, SqlAt
<1>5. LockInv' /\ SqlInv'
  BY <1>2, <1>3, <1>4, Moves DEF ExitWrite, Labels
<1> QED  BY <1>1, <1>5 DEF TransInv

-----------------------------------------------------------------------------

\* A block begins.
LEMMA HoldStep ==
    ASSUME TransInv, NEW t \in Threads, Hold(t)
    PROVE  TransInv'
<1>1. LogInv' /\ TailInv'
  BY QuietStays DEF Quiet, Hold, tailVars
<1>2. /\ owner' = {t} /\ depth' = 2 /\ held' /\ admitted' = 0
      /\ pc[t] # "idle" /\ begun' = TRUE /\ Adds(work) /\ work.buffer = buffer
  BY InsideAlone DEF Hold, Acquire, DepthAt, InBlock, SqlAt
<1>3. Adds(work)' /\ work'.buffer = buffer' \cup got'
  BY <1>2 DEF Hold, Adds, tailVars
<1>4. pc'[t] = "block" => LockAt(t)' /\ SqlAt(t)'
  BY <1>2, <1>3 DEF LockAt, SqlAt, DepthAt, InBlock
<1>5. LockInv' /\ SqlInv'
  BY <1>2, <1>4, Moves DEF Hold, Labels
<1> QED  BY <1>1, <1>5 DEF TransInv

\* SQLite rolls back by itself.
LEMMA SqliteRollsBackStep ==
    ASSUME TransInv, NEW t \in Threads, SqliteRollsBack(t)
    PROVE  TransInv'
<1>1. LogInv' /\ TailInv'
  BY QuietStays DEF Quiet, SqliteRollsBack, Rollback, ghosts
<1>2. /\ owner' = {t} /\ depth' = 2 /\ held' /\ admitted' = 0
      /\ pc[t] # "idle" /\ begun' = FALSE /\ pc \in [Threads -> Labels]
  BY InsideAlone DEF SqliteRollsBack, Rollback, DepthAt, InBlock, lockVars
<1>3. Go(t, "block")
  BY <1>2 DEF SqliteRollsBack, Go
<1>4. pc'[t] = "block" => LockAt(t)' /\ SqlAt(t)'
  BY <1>2 DEF LockAt, SqlAt, DepthAt, InBlock
<1>5. LockInv' /\ SqlInv'
  BY <1>2, <1>3, <1>4, Moves DEF Labels
<1> QED  BY <1>1, <1>5 DEF TransInv

\* The check has found the transaction alive, so the savepoint is inside it.
LEMMA JoinedAppendStep ==
    ASSUME TransInv, NEW t \in Threads, NEW k \in 1..MaxBatch, JoinedAppend(t, k)
    PROVE  TransInv'
<1>1. LogInv' /\ TailInv'
  BY QuietStays DEF Quiet, JoinedAppend, tailVars, ghosts
<1>2. /\ owner' = {t} /\ depth' = 3 /\ held' /\ admitted' = 1
      /\ pc[t] # "idle" /\ begun /\ begun' = TRUE /\ Adds(work) /\ work.buffer = buffer \cup got
  BY InsideAlone DEF JoinedAppend, Check, DepthAt, InBlock, SqlAt
<1>3. save' = work /\ work' = Inserted(work, k)
  BY <1>2 DEF JoinedAppend
<1>4. Adds(work)' /\ work.buffer \subseteq work'.buffer
  BY <1>2, <1>3, InsertAdds, RowsAssumption DEF TransInv, JoinedAppend, Adds, tailVars
<1>5. Adds(save)' /\ save'.buffer = buffer' \cup got' /\ save'.buffer \subseteq work'.buffer
  BY <1>2, <1>3, <1>4 DEF JoinedAppend, Adds, tailVars, ghosts
<1>6. pc'[t] = "joined" => LockAt(t)' /\ SqlAt(t)'
  BY <1>2, <1>4, <1>5 DEF LockAt, SqlAt, DepthAt, InBlock
<1>7. LockInv' /\ SqlInv'
  BY <1>2, <1>6, Moves DEF JoinedAppend, Labels
<1> QED  BY <1>1, <1>7 DEF TransInv

\* Nothing is committed by a joined append, however it ends.
LEMMA JoinedDoneStep ==
    ASSUME TransInv, NEW t \in Threads, JoinedDone(t)
    PROVE  TransInv'
<1>1. /\ owner = {t} /\ depth = 3 /\ held /\ admitted = 1
      /\ pc[t] # "idle" /\ begun = TRUE /\ Adds(work) /\ Adds(save)
      /\ save.buffer = buffer \cup got /\ save.buffer \subseteq work.buffer
  BY InsideAlone DEF JoinedDone, DepthAt, InBlock, SqlAt
<1>2. owner' = {t} /\ depth' = 2 /\ held' /\ admitted' = 0
  BY <1>1 DEF JoinedDone, Release
<1>3. UNCHANGED <<seq, buffer>>
  BY <1>1 DEF JoinedDone, Accepted, Refused, Rollback
<1>4. LogInv' /\ TailInv'
  BY <1>3, QuietStays DEF Quiet, JoinedDone
<1>5. begun' \in BOOLEAN /\ (begun' => Adds(work)' /\ work'.buffer = buffer' \cup got')
  <2>1. CASE Accepted
    <3>1. begun' = TRUE /\ work' = work /\ got' = got \cup (work.buffer \ save.buffer)
      BY <1>1, <2>1 DEF Accepted
    <3>2. work.buffer = buffer \cup got'
      BY <1>1, <3>1
    <3> QED  BY <1>1, <1>3, <3>1, <3>2 DEF Adds
  <2>2. CASE Refused
    <3>1. begun' = TRUE /\ work' = save /\ got' = got
      BY <1>1, <2>2 DEF Refused
    <3> QED  BY <1>1, <1>3, <3>1 DEF Adds
  <2>3. CASE Rollback
    BY <2>3 DEF Rollback
  <2> QED  BY <2>1, <2>2, <2>3 DEF JoinedDone
<1>6. pc'[t] = "block" => LockAt(t)' /\ SqlAt(t)'
  BY <1>2, <1>5 DEF LockAt, SqlAt, DepthAt, InBlock
<1>7. LockInv' /\ SqlInv'
  BY <1>1, <1>5, <1>6, Moves DEF JoinedDone, Labels
<1> QED  BY <1>4, <1>7 DEF TransInv

\* The rows a block commits are exactly the offsets it was handed.
LEMMA EndBlockStep ==
    ASSUME TransInv, NEW t \in Threads, EndBlock(t)
    PROVE  TransInv'
<1>1. /\ owner' = {t} /\ depth' = 2 /\ held' /\ admitted' = 0 /\ pc[t] # "idle"
      /\ begun => Adds(work) /\ work.buffer = buffer \cup got
  BY InsideAlone DEF EndBlock, DepthAt, InBlock, lockVars, SqlAt
<1>2. LogInv' /\ TailInv'
  <2>1. CASE Check /\ Commit /\ acked' = acked \cup got
    <3>1. Adds(work) /\ work.buffer = buffer \cup got /\ buffer \subseteq acked
      BY <1>1, <2>1 DEF Check, TransInv, LogInv, NothingAlone
    <3>2. acked' = acked \cup (work.buffer \ buffer)
      BY <2>1, <3>1
    <3>3. LogInv'
      BY <2>1, <3>1, <3>2, LogAdds DEF TransInv, EndBlock, Commit
    <3> QED  BY <2>1, <3>1, <3>3, TailAdds DEF TransInv, EndBlock, Commit
  <2>2. CASE Rollback /\ UNCHANGED acked
    BY <2>2, QuietStays DEF Quiet, EndBlock, Rollback
  <2> QED  BY <2>1, <2>2 DEF EndBlock
<1>3. begun' = FALSE
  BY DEF EndBlock, Commit, Rollback
<1>4. pc'[t] = "close" => LockAt(t)' /\ SqlAt(t)'
  BY <1>1, <1>3 DEF LockAt, SqlAt, DepthAt, InBlock
<1>5. LockInv' /\ SqlInv'
  BY <1>1, <1>3, <1>4, Moves DEF EndBlock, Labels
<1> QED  BY <1>2, <1>5 DEF TransInv

\* The block closes.
LEMMA CloseStep ==
    ASSUME TransInv, NEW t \in Threads, Close(t)
    PROVE  TransInv'
<1>1. LogInv' /\ TailInv'
  BY QuietStays DEF Quiet, Close, tailVars, ghosts
<1>2. /\ owner = {t} /\ depth = 2 /\ held' /\ admitted' = 0 /\ pc[t] # "idle" /\ begun' = FALSE
  BY InsideAlone DEF Close, DepthAt, InBlock, SqlAt, sqlVars
<1>3. owner' = {t} /\ depth' = 1
  BY <1>2 DEF Close, Release
<1>4. pc'[t] = "unhold" => LockAt(t)' /\ SqlAt(t)'
  BY <1>2, <1>3 DEF LockAt, SqlAt, DepthAt, InBlock
<1>5. LockInv' /\ SqlInv'
  BY <1>2, <1>4, Moves DEF Close, Labels
<1> QED  BY <1>1, <1>5 DEF TransInv

\* Its lock is given back.
LEMMA UnholdStep ==
    ASSUME TransInv, NEW t \in Threads, Unhold(t)
    PROVE  TransInv'
<1>1. LogInv' /\ TailInv'
  BY QuietStays DEF Quiet, Unhold, tailVars
<1>2. pc[t] # "idle" /\ depth = 1 /\ begun' = FALSE
  BY InsideAlone DEF Unhold, DepthAt, SqlAt
<1>3. Free'
  BY <1>2 DEF Free, Unhold, Release
<1>4. pc'[t] = "idle" => LockAt(t)' /\ SqlAt(t)'
  BY DEF LockAt, SqlAt
<1>5. LockInv' /\ SqlInv'
  BY <1>2, <1>3, <1>4, Moves DEF Unhold, Labels
<1> QED  BY <1>1, <1>5 DEF TransInv

-----------------------------------------------------------------------------

\* The other process waits while the connection is in a transaction, so the
\* rows move under no uncommitted view.
LEMMA OthersLeaveLock ==
    ASSUME TransInv, ~begun \/ UNCHANGED <<seq, buffer>>, UNCHANGED <<pc, lockVars, sqlVars, got>>
    PROVE  LockInv' /\ SqlInv'
<1>1. LockInv'
  BY DEF TransInv, LockInv, LockAt, Free, lockVars, sqlVars
<1>2. \A t \in Threads : SqlAt(t)'
  <2>1. CASE ~begun
    BY <2>1 DEF TransInv, SqlInv, SqlAt, sqlVars
  <2>2. CASE UNCHANGED <<seq, buffer>>
    BY <2>2 DEF TransInv, SqlInv, SqlAt, Adds, sqlVars
  <2> QED  BY <2>1, <2>2
<1> QED  BY <1>1, <1>2 DEF TransInv, SqlInv, sqlVars

\* Another process appends,
LEMMA OtherAppendStep ==
    ASSUME TransInv, NEW k \in 1..MaxBatch, OtherAppend(k)
    PROVE  TransInv'
<1>1. LockInv' /\ SqlInv'
  BY OthersLeaveLock DEF OtherAppend
<1>2. seq \in Nat /\ k \in Nat /\ seq' = seq + k /\ buffer' = buffer \cup (seq + 1 .. seq + k)
  BY RowsAssumption DEF OtherAppend, AppendRows, TransInv, LogInv
<1>3. TailInv'
  <2>1. \A o \in buffer' : o \in buffer \/ o > seq
    BY <1>2
  <2>2. buffer' \subseteq 1..seq'
    BY <1>2 DEF TransInv, LogInv
  <2> QED  BY <1>2, <2>1, <2>2, RowsMove DEF TransInv, OtherAppend
<1>4. LogInv'
  <2>1. buffer' \subseteq 1..seq' /\ acked' \subseteq 1..seq'
    BY <1>2 DEF TransInv, LogInv, OtherAppend
  <2>2. AckedDurable' /\ NothingAlone'
    BY <1>2 DEF TransInv, LogInv, OtherAppend, AckedDurable, NothingAlone
  <2> QED  BY <1>2, <2>1, <2>2 DEF LogInv, TransInv, OtherAppend
<1> QED  BY <1>1, <1>3, <1>4 DEF TransInv

\* reserves offsets,
LEMMA OtherReserveStep ==
    ASSUME TransInv, NEW k \in 1..MaxBatch, OtherReserve(k)
    PROVE  TransInv'
<1>1. LockInv' /\ SqlInv'
  BY OthersLeaveLock DEF OtherReserve, ghosts
<1>2. seq \in Nat /\ k \in Nat /\ seq' = seq + k /\ buffer' = buffer /\ buffer \subseteq 1..seq
  BY RowsAssumption, FloorIsSeq DEF OtherReserve, Reserve, TransInv, LogInv
<1>3. 1..seq \subseteq 1..seq'
  BY <1>2
<1>4. TailInv'
  <2>1. seq' \in Nat /\ seq' >= seq
    BY <1>2
  <2>2. buffer' \subseteq 1..seq' /\ \A o \in buffer' : o \in buffer \/ o > seq
    BY <1>2, <1>3
  <2>3. TailInv /\ UNCHANGED cache
    BY DEF TransInv, OtherReserve
  <2> QED  BY <2>1, <2>2, <2>3, RowsMove
<1>5. LogInv'
  BY <1>2, <1>3 DEF TransInv, LogInv, OtherReserve, AckedDurable, NothingAlone, ghosts
<1> QED  BY <1>1, <1>4, <1>5 DEF TransInv

\* evicts.
LEMMA OtherEvictStep ==
    ASSUME TransInv, NEW a \in 1..seq + 1, NEW b \in 1..seq + 1, OtherEvict(a, b)
    PROVE  TransInv'
<1>1. LockInv' /\ SqlInv'
  BY OthersLeaveLock DEF OtherEvict
<1>2. seq \in Nat /\ b \in Nat /\ seq' = seq /\ buffer' = {r \in buffer : r < a \/ r >= b}
      /\ buffer \subseteq 1..seq
  BY DEF OtherEvict, EvictRows, TransInv, LogInv
<1>3. TailInv'
  <2>1. seq' \in Nat /\ seq' >= seq
    BY <1>2
  <2>2. buffer' \subseteq 1..seq' /\ \A o \in buffer' : o \in buffer \/ o > seq
    BY <1>2
  <2>3. TailInv /\ UNCHANGED cache
    BY DEF TransInv, OtherEvict
  <2> QED  BY <2>1, <2>2, <2>3, RowsMove
<1>4. AckedDurable'
  <2>1. ASSUME NEW o \in acked, o >= b
        PROVE  o \in buffer /\ o >= b
    <3>1. gone \in Nat /\ b > gone /\ o \in Nat
      BY DEF TransInv, LogInv, OtherEvict
    <3>2. o >= gone
      BY <1>2, <2>1, <3>1
    <3> QED  BY <2>1, <3>2 DEF TransInv, LogInv, AckedDurable
  <2> QED  BY <1>2, <2>1 DEF AckedDurable, OtherEvict
<1>5. LogInv'
  BY <1>2, <1>4 DEF TransInv, LogInv, OtherEvict, NothingAlone
<1> QED  BY <1>1, <1>3, <1>5 DEF TransInv

\* A read fills the cache.
LEMMA ReadTailStep ==
    ASSUME TransInv, NEW start \in 0..seq + 1, ReadTail(start)
    PROVE  TransInv'
<1>1. UNCHANGED <<seq, buffer>>
  BY DEF ReadTail, RowsFrom
<1>2. LockInv' /\ SqlInv'
  BY <1>1, OthersLeaveLock DEF ReadTail, ghosts
<1>3. LogInv'
  BY <1>1, LogStays DEF TransInv, ReadTail, ghosts
<1>4. TailInv'
  BY CacheLeft DEF TransInv, ReadTail
<1> QED  BY <1>2, <1>3, <1>4 DEF TransInv

\* The invariant holds initially.
LEMMA TransStart ==
    ASSUME Init
    PROVE  TransInv
<1>1. LockInv
  BY DEF Init, LockInv, LockAt, Free, Labels
<1>2. SqlInv
  BY DEF Init, SqlInv, SqlAt
<1>3. LogInv
  BY DEF Init, TailInit, LogInv, AckedDurable, NothingAlone
<1>4. TailInv
  BY TailStart DEF Init
<1> QED  BY <1>1, <1>2, <1>3, <1>4 DEF TransInv

\* A step of a thread keeps it.
LEMMA ThreadStepKeeps ==
    ASSUME TransInv, NEW t \in Threads, ThreadStep(t)
    PROVE  TransInv'
<1>1. CASE EnterWrite(t, "begin") \/ EnterWrite(t, "beginBlock")
  BY <1>1, EnterWriteStep
<1>2. CASE Begin(t, "begin", "insert") \/ Begin(t, "beginBlock", "hold")
  BY <1>2, BeginStep
<1>3. CASE \E k \in 0..MaxBatch : PlainInsert(t, k)
  BY <1>3, PlainInsertStep
<1>4. CASE PlainCommit(t) \/ ExitWrite(t)
  BY <1>4, PlainCommitStep, ExitWriteStep
<1>5. CASE Hold(t) \/ SqliteRollsBack(t)
  BY <1>5, HoldStep, SqliteRollsBackStep
<1>6. CASE \E k \in 1..MaxBatch : JoinedAppend(t, k)
  BY <1>6, JoinedAppendStep
<1>7. CASE JoinedDone(t) \/ EndBlock(t)
  BY <1>7, JoinedDoneStep, EndBlockStep
<1>8. CASE Close(t) \/ Unhold(t)
  BY <1>8, CloseStep, UnholdStep
<1> QED  BY <1>1, <1>2, <1>3, <1>4, <1>5, <1>6, <1>7, <1>8 DEF ThreadStep

\* Every step keeps it.
LEMMA TransStep ==
    ASSUME TransInv, [Next]_vars
    PROVE  TransInv'
<1>1. CASE \E t \in Threads : ThreadStep(t)
  BY <1>1, ThreadStepKeeps
<1>2. CASE \E k \in 1..MaxBatch : OtherAppend(k) \/ OtherReserve(k)
  BY <1>2, OtherAppendStep, OtherReserveStep
<1>3. CASE \E a, b \in 1..seq + 1 : OtherEvict(a, b)
  BY <1>3, OtherEvictStep
<1>4. CASE \E start \in 0..seq + 1 : ReadTail(start)
  BY <1>4, ReadTailStep
<1>5. CASE UNCHANGED vars
  <2>1. LockInv' /\ SqlInv'
    BY <1>5, OthersLeaveLock DEF vars, tailVars, ghosts
  <2>2. LogInv' /\ TailInv'
    BY <1>5, QuietStays DEF vars, tailVars, ghosts, Quiet
  <2> QED  BY <2>1, <2>2 DEF TransInv
<1> QED  BY <1>1, <1>2, <1>3, <1>4, <1>5 DEF Next

\* The write connection has one user: two threads are never both inside a
\* write or a block, for any number of threads (WriteLock).
OneWriter == \A t, u \in Threads : pc[t] # "idle" /\ pc[u] # "idle" => t = u

\* The inductive invariant holds in every reachable state.
LEMMA TransAlways == Spec => []TransInv
<1>1. Init => TransInv
  BY TransStart
<1>2. TransInv /\ [Next]_vars => TransInv'
  BY TransStep
<1> QED  BY <1>1, <1>2, PTL DEF Spec

\* Two threads are never inside the write connection together, though the
\* lock is taken, released and taken again inside one block.
THEOREM WriteLockExcludes == Spec => []OneWriter
<1>1. TransInv => OneWriter
  BY DEF TransInv, LockInv, LockAt, OneWriter
<1> QED  BY <1>1, TransAlways, PTL

\* What Buffer.append or a block returned is in the log until eviction, for
\* any number of threads, rows and failures: AckedDurable.
THEOREM AcknowledgedStays == Spec => []AckedDurable
<1>1. TransInv => AckedDurable
  BY DEF TransInv, LogInv
<1> QED  BY <1>1, TransAlways, PTL

\* A block is all or nothing, though SQLite may end its transaction in the
\* middle: NothingAlone.
THEOREM BlocksAreAtomic == Spec => []NothingAlone
<1>1. TransInv => NothingAlone
  BY DEF TransInv, LogInv
<1> QED  BY <1>1, TransAlways, PTL

\* The tail cache answers right while blocks of several appends commit at
\* once under it: TailAnswers.
THEOREM TailAnswersUnderBlocks == Spec => []TailAnswers
<1>1. TransInv => TailAnswers
  BY AnswersServe DEF TransInv
<1> QED  BY <1>1, TransAlways, PTL

=============================================================================
