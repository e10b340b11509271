--------------------------- MODULE Claims_proofs ---------------------------
(***************************************************************************)
(* Proofs about Claims for any set of workers, any ranges, any TTL and any *)
(* clock.  The three statements a reader wants - Disjoint, FenceSound and  *)
(* LossIsReal - are not inductive: each needs to know that an owner names  *)
(* one attempt and at most one row.  IInv collects that.                   *)
(***************************************************************************)
EXTENDS Claims, TLAPS

\* An owner that was never minted is in no row and in no Claim object.
OwnersMinted ==
    /\ \A r \in rows : r.owner <= minted
    /\ \A w \in Workers : owner[w] <= minted

\* new_owner is a fresh identity per attempt: two live attempts differ.
OwnersDistinct ==
    \A v, w \in Workers :
        v # w /\ pc[v] # "idle" /\ pc[w] # "idle" => owner[v] # owner[w]

\* An attempt that has not committed has no row.
AskedHasNoRow ==
    \A w \in Workers : pc[w] = "asked" => ~HasRow(rows, owner[w])

\* An owner has at most one row.
OneRowEach ==
    \A r, s \in rows : r.owner = s.owner => r = s

\* The row of a holder carries the range that the holder acquired.
RowIsRange ==
    \A w \in Workers : \A r \in rows :
        pc[w] \in Holding /\ r.owner = owner[w]
            => r.start = range[w].start /\ r.end = range[w].end

\* A holder has lost its row exactly when it was overtaken.
RowUnlessOvertaken ==
    \A w \in Workers :
        pc[w] \in Holding => (overtaken[w] <=> ~HasRow(rows, owner[w]))

\* A worker is told it lost only after it was overtaken.
IInv ==
    /\ TypeOK
    /\ OwnersMinted
    /\ OwnersDistinct
    /\ AskedHasNoRow
    /\ OneRowEach
    /\ RowIsRange
    /\ Disjoint
    /\ RowUnlessOvertaken
    /\ LossIsReal

-----------------------------------------------------------------------------

\* No step of any worker or of the clock leaves the types.
LEMMA TypeStep == TypeOK /\ [Next]_vars => TypeOK'
<1> SUFFICES ASSUME TypeOK, [Next]_vars
             PROVE  TypeOK'
  OBVIOUS
<1> USE DEF TypeOK, PC
<1>1. CASE Tick
  BY <1>1 DEF Tick, local
<1>2. CASE SetClockBack
  BY <1>2, BoundsAssumption DEF SetClockBack, local
<1>3. ASSUME NEW w \in Workers, NEW d \in Ranges, Ask(w, d)
      PROVE  TypeOK'
  BY <1>3 DEF Ask
<1>4. ASSUME NEW w \in Workers, NEW next \in PC, Commit(w, next)
      PROVE  TypeOK'
  <2>1. [owner |-> owner[w], expires |-> stamp[w] + TTL,
         start |-> range[w].start, end |-> range[w].end] \in Row
    BY TTLAssumption, RangesAssumption DEF Row, NoRange
  <2>2. rows' \subseteq Row
    BY <1>4, <2>1 DEF Commit, Acquired, Swept
  <2> QED
    BY <1>4, <2>2 DEF Commit, Overtake, local
<1>5. ASSUME NEW w \in Workers, Refused(w) \/ AcquireFails(w) \/ Crash(w)
      PROVE  TypeOK'
  BY <1>5 DEF Refused, AcquireFails, Crash, local
<1>6. ASSUME NEW w \in Workers, Cleanup(w) \/ Release(w)
      PROVE  TypeOK'
  BY <1>6 DEF Cleanup, Release, Released, local
<1>7. ASSUME NEW w \in Workers, RenewAsk(w)
      PROVE  TypeOK'
  BY <1>7 DEF RenewAsk
<1>8. ASSUME NEW w \in Workers, Renew(w)
      PROVE  TypeOK'
  <2>1. \A r \in rows : [r EXCEPT !.expires = stamp[w] + TTL] \in Row
    BY TTLAssumption DEF Row
  <2>2. rows' \subseteq Row
    BY <1>8, <2>1 DEF Renew, Renewed
  <2> QED
    BY <1>8, <2>2 DEF Renew, local
<1>9. CASE UNCHANGED vars
  BY <1>9 DEF vars
<1> QED
  BY <1>1, <1>2, <1>3, <1>4, <1>5, <1>6, <1>7, <1>8, <1>9
  DEF Next, WorkerStep, AcquireOK, AcquireUnacknowledged

\* Type correctness of the claim table and of every worker's Claim object.
THEOREM TypeCorrect == Spec => []TypeOK
<1>1. Init => TypeOK
  BY DEF Init, TypeOK, PC
<1> QED
  BY <1>1, TypeStep, PTL DEF Spec

-----------------------------------------------------------------------------

\* The rows the table has after a commit are rows it had before, or the new
\* one; a row stays exactly when it is live or does not overlap.
LEMMA AcquiredRows ==
    ASSUME NEW rs, NEW o, NEW d, NEW now, NEW ttl
    PROVE  LET new == [owner |-> o, expires |-> now + ttl,
                       start |-> d.start, end |-> d.end]
           IN  /\ new \in Acquired(rs, o, d, now, ttl)
               /\ \A r \in Acquired(rs, o, d, now, ttl) :
                     \/ r = new
                     \/ r \in rs /\ ~(r.expires <= now /\ Overlap(r, d))
               /\ \A r \in rs : ~(r.expires <= now /\ Overlap(r, d))
                     => r \in Acquired(rs, o, d, now, ttl)
  BY DEF Acquired, Swept

\* A worker that commits leaves the table disjoint and every holder either
\* with its row or overtaken.
LEMMA CommitStep ==
    ASSUME IInv, NEW w \in Workers, NEW next \in {"holding", "cleanup"}, Commit(w, next)
    PROVE  IInv'
<1> DEFINE new == [owner |-> owner[w], expires |-> stamp[w] + TTL,
                   start |-> range[w].start, end |-> range[w].end]
<1>0. TypeOK' /\ TypeOK
  <2>1. [Next]_vars
    BY DEF Next, WorkerStep, AcquireOK, AcquireUnacknowledged, IInv
  <2> QED
    BY <2>1, TypeStep DEF IInv
<1>1. /\ new \in rows'
      /\ \A r \in rows' : \/ r = new
                          \/ r \in rows /\ ~(r.expires <= stamp[w] /\ Overlap(r, range[w]))
      /\ \A r \in rows : ~(r.expires <= stamp[w] /\ Overlap(r, range[w])) => r \in rows'
  BY AcquiredRows DEF Commit
<1>2. /\ pc[w] = "asked"
      /\ pc' = [pc EXCEPT ![w] = next]
      /\ minted' = minted /\ owner' = owner /\ range' = range
      /\ ~HasRow(rows, owner[w])
      /\ \A r \in rows : r.owner # owner[w]
  BY DEF Commit, local, IInv, AskedHasNoRow, HasRow
<1>3. \A r \in rows : r \in rows' => ~Overlap(r, range[w])
  BY <1>1, <1>2 DEF Commit, Clash, IInv, TypeOK, Row
<1>4. OwnersMinted'
  BY <1>1, <1>2 DEF IInv, OwnersMinted
<1>5. OwnersDistinct'
  BY <1>0, <1>2 DEF IInv, OwnersDistinct, TypeOK
<1>6. AskedHasNoRow'
  <2> SUFFICES ASSUME NEW v \in Workers, pc'[v] = "asked", NEW r \in rows', r.owner = owner[v]
               PROVE  FALSE
    BY <1>2 DEF AskedHasNoRow, HasRow
  <2>1. v # w /\ pc[v] = "asked"
    BY <1>0, <1>2 DEF TypeOK
  <2>2. r \in rows
    BY <1>1, <1>2, <2>1 DEF IInv, OwnersDistinct
  <2> QED
    BY <2>1, <2>2 DEF IInv, AskedHasNoRow, HasRow
<1>7. OneRowEach'
  BY <1>1, <1>2 DEF IInv, OneRowEach
<1>8. RowIsRange'
  <2> SUFFICES ASSUME NEW v \in Workers, NEW r \in rows', pc'[v] \in Holding,
                      r.owner = owner[v]
               PROVE  r.start = range[v].start /\ r.end = range[v].end
    BY <1>2 DEF RowIsRange
  <2>1. CASE v = w
    BY <1>1, <1>2, <2>1
  <2>2. CASE v # w
    <3>1. pc[v] \in Holding
      BY <1>0, <1>2, <2>2 DEF TypeOK
    <3>2. r \in rows
      BY <1>1, <1>2, <2>2, <3>1 DEF IInv, OwnersDistinct, Holding
    <3> QED
      BY <3>1, <3>2 DEF IInv, RowIsRange
  <2> QED
    BY <2>1, <2>2
<1>9. Disjoint'
  <2>1. \A r : Overlap(r, new) <=> Overlap(r, range[w])
    BY DEF Overlap
  <2>2. \A r \in rows' : Overlap(r, new) <=> Overlap(new, r)
    BY <1>0, <1>1 DEF Overlap, TypeOK, Row
  <2> QED
    BY <1>1, <1>3, <2>1, <2>2 DEF IInv, Disjoint
<1>10. RowUnlessOvertaken'
  <2> SUFFICES ASSUME NEW v \in Workers, pc'[v] \in Holding
               PROVE  overtaken'[v] <=> ~HasRow(rows', owner[v])
    BY <1>2 DEF RowUnlessOvertaken
  <2>1. CASE v = w
    <3>1. HasRow(rows', owner[v])
      BY <1>1, <2>1 DEF HasRow
    <3>2. ~overtaken'[v]
      BY <2>1 DEF Commit, Overtake
    <3> QED
      BY <3>1, <3>2
  <2>2. CASE v # w
    <3>1. pc[v] \in Holding /\ owner[v] # owner[w]
      BY <1>0, <1>2, <2>2 DEF TypeOK, IInv, OwnersDistinct, Holding
    <3>2. overtaken'[v] <=> overtaken[v] \/ Overlap(range[v], range[w])
      BY <2>2, <3>1 DEF Commit, Overtake
    <3>3. HasRow(rows', owner[v]) <=> \E r \in rows : r.owner = owner[v] /\ r \in rows'
      BY <1>1, <3>1 DEF HasRow
    <3>4. \A r \in rows : r.owner = owner[v] =>
              (Overlap(r, range[w]) <=> Overlap(range[v], range[w]))
      BY <3>1 DEF IInv, RowIsRange, Overlap
    <3>5. \A r \in rows : r.owner = owner[v] =>
              (r \in rows' <=> ~Overlap(range[v], range[w]))
      BY <1>1, <1>3, <3>4
    <3>6. overtaken[v] <=> ~HasRow(rows, owner[v])
      BY <3>1 DEF IInv, RowUnlessOvertaken
    <3> QED
      BY <3>2, <3>3, <3>5, <3>6 DEF HasRow
  <2> QED
    BY <2>1, <2>2
<1>11. LossIsReal'
  <2> SUFFICES ASSUME NEW v \in Workers, pc'[v] = "lost"
               PROVE  overtaken'[v]
    BY DEF LossIsReal
  <2>1. v # w /\ pc[v] = "lost"
    BY <1>0, <1>2 DEF TypeOK
  <2> QED
    BY <2>1 DEF Commit, Overtake, IInv, LossIsReal
<1> QED
  BY <1>0, <1>4, <1>5, <1>6, <1>7, <1>8, <1>9, <1>10, <1>11 DEF IInv

\* A row of the table that somebody other than its owner renews or releases
\* is untouched: the steps of w that only delete or stamp w's own row.
LEMMA OwnRowStep ==
    ASSUME IInv, NEW w \in Workers, Renew(w) \/ Release(w) \/ Cleanup(w)
    PROVE  IInv'
<1>0. TypeOK' /\ TypeOK
  <2>1. [Next]_vars
    BY DEF Next, WorkerStep, IInv
  <2> QED
    BY <2>1, TypeStep DEF IInv
<1>1. /\ minted' = minted /\ owner' = owner /\ range' = range /\ overtaken' = overtaken
      /\ pc[w] # "idle" /\ pc[w] # "asked"
      /\ \A v \in Workers : v # w => pc'[v] = pc[v]
      /\ pc'[w] \in {"idle", "confirmed", "lost"}
  BY <1>0 DEF Renew, Release, Cleanup, local, TypeOK
<1>2. CASE Renew(w)
  <2> DEFINE new(q) == IF q.owner = owner[w] THEN [q EXCEPT !.expires = stamp[w] + TTL] ELSE q
  <2>0. \A q \in rows : new(q).owner = q.owner /\ new(q).start = q.start /\ new(q).end = q.end
    BY <1>0 DEF TypeOK, Row
  <2>a. rows' = {new(q) : q \in rows}
    BY <1>2 DEF Renew, Renewed
  <2>b. \A r \in rows' : \E q \in rows : r = new(q)
    BY <2>a
  <2>c. \A q \in rows : new(q) \in rows'
    BY <2>a
  <2> HIDE DEF new
  <2>1. \A r \in rows' : \E q \in rows :
            r.owner = q.owner /\ r.start = q.start /\ r.end = q.end /\ r = new(q)
    BY <2>0, <2>b
  <2>2. \A q \in rows : \E r \in rows' : r.owner = q.owner
    BY <2>0, <2>c
  <2>3. \A o : HasRow(rows', o) <=> HasRow(rows, o)
    BY <2>1, <2>2 DEF HasRow
  <2>4. pc[w] = "renewing" /\ pc'[w] = (IF HasRow(rows, owner[w]) THEN "confirmed" ELSE "lost")
    BY <1>0, <1>2 DEF Renew, TypeOK
  <2>5. \A v \in Workers : pc'[v] # "idle" => pc[v] # "idle"
    BY <1>1
  <2>6. \A v \in Workers : pc'[v] \in Holding => pc[v] \in Holding
    BY <1>1, <2>4 DEF Holding
  <2>7. OwnersMinted' /\ OwnersDistinct' /\ AskedHasNoRow'
    BY <1>1, <2>1, <2>3, <2>5 DEF IInv, OwnersMinted, OwnersDistinct, AskedHasNoRow
  <2>8. OneRowEach'
    BY <2>1 DEF IInv, OneRowEach
  <2>9. RowIsRange'
    BY <1>1, <2>1, <2>6 DEF IInv, RowIsRange
  <2>10. Disjoint'
    BY <2>1 DEF IInv, Disjoint, Overlap
  <2>11. RowUnlessOvertaken' /\ LossIsReal'
    <3>1. RowUnlessOvertaken'
      BY <1>1, <2>3, <2>6 DEF IInv, RowUnlessOvertaken
    <3>2. pc[w] \in Holding
      BY <2>4 DEF Holding
    <3>3. LossIsReal'
      BY <1>1, <2>4, <3>2 DEF IInv, RowUnlessOvertaken, LossIsReal
    <3> QED
      BY <3>1, <3>3
  <2> QED
    BY <1>0, <2>7, <2>8, <2>9, <2>10, <2>11 DEF IInv
<1>3. CASE Release(w) \/ Cleanup(w)
  <2>1. pc'[w] = "idle"
    BY <1>0, <1>3 DEF Release, Cleanup, TypeOK
  <2>2. rows' \subseteq rows /\ \A r \in rows : r.owner # owner[w] => r \in rows'
    BY <1>3 DEF Release, Cleanup, Released
  <2>3. OwnersMinted' /\ OwnersDistinct' /\ OneRowEach' /\ Disjoint'
    BY <1>1, <2>1, <2>2 DEF IInv, OwnersMinted, OwnersDistinct, OneRowEach, Disjoint
  <2>4. AskedHasNoRow' /\ RowIsRange'
    BY <1>1, <2>1, <2>2 DEF IInv, AskedHasNoRow, RowIsRange, HasRow, Holding
  <2>5. RowUnlessOvertaken'
    <3> SUFFICES ASSUME NEW v \in Workers, pc'[v] \in Holding
                 PROVE  overtaken[v] <=> ~HasRow(rows', owner[v])
      BY <1>1 DEF RowUnlessOvertaken
    <3>1. v # w /\ pc[v] \in Holding /\ pc[v] # "idle"
      BY <1>1, <2>1 DEF Holding
    <3>2. owner[v] # owner[w]
      BY <1>1, <3>1 DEF IInv, OwnersDistinct
    <3>3. HasRow(rows', owner[v]) <=> HasRow(rows, owner[v])
      BY <2>2, <3>2 DEF HasRow
    <3> QED
      BY <3>1, <3>3 DEF IInv, RowUnlessOvertaken
  <2>6. LossIsReal'
    BY <1>1, <2>1 DEF IInv, LossIsReal
  <2> QED
    BY <1>0, <2>3, <2>4, <2>5, <2>6 DEF IInv
<1> QED
  BY <1>2, <1>3

\* The steps that leave the table alone: the clock, a fresh attempt, the read
\* of the clock before a renew, a refusal, a rolled-back acquire, a kill.
LEMMA QuietStep ==
    ASSUME IInv,
           \/ Tick \/ SetClockBack \/ UNCHANGED vars
           \/ \E w \in Workers : \/ \E d \in Ranges : Ask(w, d)
                                 \/ Refused(w) \/ AcquireFails(w)
                                 \/ RenewAsk(w) \/ Crash(w)
    PROVE  IInv'
<1>0. TypeOK' /\ TypeOK
  <2>1. [Next]_vars
    BY DEF Next, WorkerStep, IInv
  <2> QED
    BY <2>1, TypeStep DEF IInv
<1>1. CASE Tick \/ SetClockBack \/ UNCHANGED vars
  <2>1. UNCHANGED <<rows, minted, pc, owner, range, overtaken>>
    BY <1>1 DEF Tick, SetClockBack, vars, local
  <2> QED
    BY <1>0, <2>1 DEF IInv, OwnersMinted, OwnersDistinct, AskedHasNoRow, OneRowEach,
       RowIsRange, Disjoint, RowUnlessOvertaken, LossIsReal
<1>2. ASSUME NEW w \in Workers, NEW d \in Ranges, Ask(w, d)
      PROVE  IInv'
  <2>1. /\ rows' = rows /\ overtaken' = overtaken /\ minted' = minted + 1
        /\ pc'[w] = "asked" /\ owner'[w] = minted + 1
        /\ \A v \in Workers : v # w => /\ pc'[v] = pc[v] /\ owner'[v] = owner[v]
                                       /\ range'[v] = range[v]
    BY <1>0, <1>2 DEF Ask, TypeOK
  <2>2. OwnersMinted' /\ OneRowEach' /\ Disjoint'
    BY <1>0, <2>1 DEF IInv, OwnersMinted, OneRowEach, Disjoint, TypeOK, Row
  <2>3. OwnersDistinct' /\ AskedHasNoRow'
    BY <1>0, <2>1 DEF IInv, OwnersMinted, OwnersDistinct, AskedHasNoRow, HasRow, TypeOK, Row
  <2>4. RowIsRange' /\ RowUnlessOvertaken' /\ LossIsReal'
    BY <2>1 DEF IInv, RowIsRange, RowUnlessOvertaken, LossIsReal, Holding
  <2> QED
    BY <1>0, <2>2, <2>3, <2>4 DEF IInv
<1>3. ASSUME NEW w \in Workers, Refused(w) \/ AcquireFails(w) \/ RenewAsk(w) \/ Crash(w)
      PROVE  IInv'
  <2>1. /\ UNCHANGED <<rows, minted, owner, range, overtaken>>
        /\ pc[w] # "idle"
        /\ \A v \in Workers : v # w => pc'[v] = pc[v]
        /\ \/ pc'[w] \in {"idle", "cleanup"}
           \/ pc'[w] = "renewing" /\ pc[w] \in Holding
    BY <1>0, <1>3 DEF Refused, AcquireFails, RenewAsk, Crash, local, TypeOK, Holding
  <2>2. OwnersMinted' /\ OneRowEach' /\ Disjoint' /\ OwnersDistinct'
    BY <2>1 DEF IInv, OwnersMinted, OwnersDistinct, OneRowEach, Disjoint
  <2>3. AskedHasNoRow' /\ RowIsRange' /\ RowUnlessOvertaken' /\ LossIsReal'
    BY <2>1 DEF IInv, AskedHasNoRow, RowIsRange, RowUnlessOvertaken, LossIsReal, Holding
  <2> QED
    BY <1>0, <2>2, <2>3 DEF IInv
<1> QED
  BY <1>1, <1>2, <1>3

\* IInv holds for ever.
THEOREM Inductive == Spec => []IInv
<1>1. Init => IInv
  <2>1. Init => TypeOK
    BY DEF Init, TypeOK, PC
  <2> QED
    BY <2>1 DEF Init, IInv, OwnersMinted, OwnersDistinct, AskedHasNoRow, OneRowEach,
       RowIsRange, Disjoint, RowUnlessOvertaken, LossIsReal, HasRow, Holding
<1>2. IInv /\ [Next]_vars => IInv'
  BY CommitStep, OwnRowStep, QuietStep
  DEF Next, WorkerStep, AcquireOK, AcquireUnacknowledged
<1> QED
  BY <1>1, <1>2, PTL DEF Spec

\* Claims of different owners never overlap, whatever the clocks do.
THEOREM ClaimsDisjoint == Spec => []Disjoint
  BY Inductive, PTL DEF IInv

\* A holder whose range was given to another owner has no row in the table.
THEOREM ClaimsOvertaken == Spec => []OvertakenIsOut
<1>1. IInv => OvertakenIsOut
  BY DEF IInv, RowUnlessOvertaken, OvertakenIsOut
<1> QED
  BY <1>1, Inductive, PTL

\* Losing a claim always means that somebody took it.
THEOREM ClaimsLossIsReal == Spec => []LossIsReal
  BY Inductive, PTL DEF IInv

\* A renew that returns True proves that no other owner was given an
\* overlapping range since the acquire: the fence before every commit.
THEOREM ClaimsFence == Spec => FenceSound
<1>1. IInv /\ [Next]_vars =>
        [\A w \in Workers : pc[w] = "renewing" /\ pc'[w] = "confirmed" => ~overtaken[w]]_vars
  <2> SUFFICES ASSUME IInv, [Next]_vars, NEW w \in Workers,
                      pc[w] = "renewing", pc'[w] = "confirmed"
               PROVE  ~overtaken[w]
    OBVIOUS
  <2>1. Renew(w)
    BY DEF Next, WorkerStep, Tick, SetClockBack, Ask, Refused, AcquireOK,
       AcquireUnacknowledged, Commit, AcquireFails, Cleanup, RenewAsk, Renew, Release,
       Crash, vars, IInv, TypeOK
  <2>2. HasRow(rows, owner[w])
    BY <2>1 DEF Renew, IInv, TypeOK
  <2> QED
    BY <2>2 DEF IInv, RowUnlessOvertaken, Holding
<1> QED
  BY <1>1, Inductive, PTL DEF Spec, FenceSound

=============================================================================
