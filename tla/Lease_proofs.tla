---------------------------- MODULE Lease_proofs ----------------------------
(***************************************************************************)
(* Proofs about Lease, for any number of handles, any TTL and any skew     *)
(* below it, clocks that run unevenly within the skew, and any delay of    *)
(* any write.                                                              *)
(*                                                                         *)
(* The argument.  What a handle holds is either still on record under its  *)
(* name, with a deadline no earlier, or past its deadline by the time of   *)
(* day (Covered); in the second case its own clock, at most the skew       *)
(* behind, has reached the point where it stops.  A write can break that   *)
(* only if it lands, so IInv says what every write on its way may assume   *)
(* of the record it expects (Justified): an acquire, that its deadline has *)
(* passed; a renewal, that it is the writer's own and gets no shorter; a   *)
(* release, that its writer holds nothing.  Fresh tokens make the version  *)
(* say which record it was (Fresh).                                        *)
(***************************************************************************)
EXTENDS Lease, TLAPS

Inflight == late \cup {request[h] : h \in {g \in Handles : pc[g] = "sent"}}

\* Every clock is within the skew of the time of day.
Clocks == \A h \in Handles : time - Skew <= local[h] /\ local[h] <= time + Skew

\* What a handle is doing fits the call it is in.
CallOK(h) ==
    /\ pc[h] = "idle" <=> kind[h] = "none"
    /\ pc[h] \in {"read", "check"} => kind[h] = "acquire"
    /\ pc[h] \in {"sent", "landed"} =>
         request[h] \in Request /\ request[h].by = h /\ request[h].kind = kind[h]
    /\ kind[h] = "acquire" => held[h] = NotHeld
    /\ kind[h] \in {"renew", "release"} => held[h] # NotHeld
Calls == \A h \in Handles : CallOK(h)

\* No token is used before it is minted, and none is 0.
Minted ==
    /\ \A q \in Inflight : q.token > 0
    /\ record.token <= writes
    /\ \A h \in Handles : held[h].token <= writes /\ seen[h].token <= writes
    /\ \A h \in Handles : pc[h] \in {"sent", "landed"} =>
         request[h].token <= writes /\ request[h].expected <= writes
    /\ \A q \in late : q.token <= writes /\ q.expected <= writes

\* Two writes on their way have different tokens, and nobody knows the token
\* of a write that has not landed.
Fresh ==
    /\ \A q \in late, h \in Handles : pc[h] = "sent" => q.token # request[h].token
    /\ \A g, h \in Handles :
         g # h /\ pc[g] = "sent" /\ pc[h] = "sent" => request[g].token # request[h].token
    /\ \A p, q \in late : p.token = q.token => p = q
    /\ \A q \in Inflight :
         /\ q.token # record.token
         /\ \A p \in Inflight : p.expected # q.token
         /\ \A h \in Handles :
              /\ held[h].token # q.token /\ seen[h].token # q.token
              /\ pc[h] = "landed" => request[h].token # q.token

\* A deadline is at most the TTL ahead of the clock that set it.
Stamped ==
    /\ record.by # Nobody => record.expires <= local[record.by] + TTL
    /\ \A q \in Inflight : q.kind # "release" => q.expires <= local[q.by] + TTL
    /\ \A q \in Inflight : q.kind = "release" => q.expires = 0

\* The record of the version that a handle knows is the one it knows.
KnownTo(h) ==
    /\ held[h] # NotHeld /\ held[h].token = record.token =>
         record.by = h /\ record.expires = held[h].expires
    /\ pc[h] = "landed" /\ kind[h] # "release" /\ request[h].token = record.token =>
         record.by = h /\ record.expires = request[h].expires
    /\ pc[h] = "check" /\ seen[h].token = record.token => seen[h] = record
    /\ pc[h] = "stamp" /\ kind[h] = "acquire" /\ seen[h].token = record.token =>
         record.by = Nobody \/ time >= record.expires
Known == \A h \in Handles : KnownTo(h)

\* What a write that would land now replaces.
Justified(q) ==
    q.expected = record.token =>
        /\ q.kind = "acquire" => record.by = Nobody \/ time >= record.expires
        /\ q.kind = "renew" => record.by = q.by /\ q.expires >= record.expires
        /\ q.kind = "release" => record.by = q.by

AllJustified == \A q \in Inflight : Justified(q)

\* A release that was given up, and still may land, is of a handle that holds
\* nothing.
GivenUp ==
    \A q \in late :
        q.kind = "release" /\ q.expected = record.token =>
            /\ held[q.by] = NotHeld
            /\ pc[q.by] # "landed"

\* On record under the handle's name, at least that long; or past.
Covered(h, expires) ==
    (record.by = h /\ record.expires >= expires) \/ time >= expires

AllCovered ==
    \A h \in Handles :
        /\ held[h] # NotHeld /\ kind[h] # "release" => Covered(h, held[h].expires)
        /\ pc[h] = "landed" /\ kind[h] # "release" => Covered(h, request[h].expires)

IInv ==
    /\ TypeOK
    /\ Clocks
    /\ Calls
    /\ Minted
    /\ Fresh
    /\ Stamped
    /\ Known
    /\ AllJustified
    /\ GivenUp
    /\ AllCovered

-----------------------------------------------------------------------------

\* No call, no late write and no tick of the clocks leaves the types.
LEMMA TypeStep == IInv /\ [Next]_vars => TypeOK'
<1> SUFFICES ASSUME TypeOK, Calls, Stamped, [Next]_vars
             PROVE  TypeOK'
  BY DEF IInv
<1> USE LeaseAssumption DEF TypeOK
<1>0. Absent \in Record /\ NotHeld \in [token : Nat, expires : Int]
  BY DEF Absent, NotHeld, Record, Writer
<1>1. CASE Tick
  <2>1. local' \in [Handles -> Int]
    BY <1>1 DEF Tick
  <2> QED
    BY <1>1, <2>1 DEF Tick
<1>2. ASSUME NEW h \in Handles, AcquireStart(h) \/ AcquireRead(h)
      PROVE  TypeOK'
  <2>1. CASE AcquireStart(h)
    BY <2>1 DEF AcquireStart
  <2>2. CASE AcquireRead(h)
    <3>0. tries[h] + 1 \in 0..4
      <4>1. tries[h] \in 0..4 /\ tries[h] < 4
        BY <2>2 DEF AcquireRead
      <4> QED
        BY <4>1
    <3>1. tries' \in [Handles -> 0..4]
      BY <2>2, <3>0 DEF AcquireRead
    <3>2. seen' \in [Handles -> Record]
      BY <2>2 DEF AcquireRead
    <3> QED
      BY <2>2, <3>1, <3>2 DEF AcquireRead
  <2> QED
    BY <1>2, <2>1, <2>2
<1>3. ASSUME NEW h \in Handles, Done(h)
      PROVE  /\ pc' \in [Handles -> {"idle", "read", "check", "stamp", "sent", "landed"}]
             /\ kind' \in [Handles -> {"none", "acquire", "renew", "release"}]
             /\ seen' \in [Handles -> Record]
             /\ request' \in [Handles -> Request \cup {NoRequest}]
             /\ tries' \in [Handles -> 0..4]
  BY <1>0, <1>3 DEF Done
<1>4. ASSUME NEW h \in Handles, AcquireGivesUp(h) \/ AcquireCheck(h)
      PROVE  TypeOK'
  <2>1. CASE Done(h)
    BY <1>3, <1>4, <2>1 DEF AcquireGivesUp, AcquireCheck
  <2>2. CASE ~Done(h)
    BY <1>4, <2>2 DEF AcquireGivesUp, AcquireCheck
  <2> QED
    BY <2>1, <2>2
<1>5. ASSUME NEW h \in Handles, NEW call \in {"renew", "release"}, RequireHeld(h, call)
      PROVE  TypeOK'
  <2>1. CASE InTime(h)
    BY <1>5, <2>1 DEF RequireHeld
  <2>2. CASE ~InTime(h)
    BY <1>0, <1>5, <2>2 DEF RequireHeld
  <2> QED
    BY <2>1, <2>2
<1>6. ASSUME NEW h \in Handles, Stamp(h)
      PROVE  TypeOK'
  <2>1. Expected(h) \in Nat
    BY DEF Expected, Record
  <2>2. kind[h] \in {"acquire", "renew", "release"}
    BY <1>6 DEF Calls, CallOK, Stamp
  <2>3. request'[h] \in Request
    BY <1>6, <2>1, <2>2 DEF Stamp, Request
  <2>4. request' \in [Handles -> Request \cup {NoRequest}]
    BY <1>6, <2>3 DEF Stamp
  <2> QED
    BY <1>6, <2>4 DEF Stamp
<1>7. ASSUME NEW q \in Inflight, q \in Request, record' = Written(q)
      PROVE  record' \in Record /\ (record'.by = Nobody => record'.expires = 0)
  <2>1. q.kind = "release" => q.expires = 0
    BY <1>7 DEF Stamped
  <2>2. q.by # Nobody
    BY <1>7 DEF Request
  <2> QED
    BY <1>7, <2>1, <2>2 DEF Written, Request, Record, Writer
<1>8. ASSUME NEW h \in Handles, WriteLands(h)
      PROVE  TypeOK'
  <2>1. request[h] \in Inflight /\ request[h] \in Request
    BY <1>8 DEF WriteLands, Inflight, Calls, CallOK
  <2> QED
    BY <1>7, <1>8, <2>1 DEF WriteLands
<1>9. ASSUME NEW q \in late, LateLands(q)
      PROVE  TypeOK'
  <2>1. q \in Inflight /\ q \in Request
    BY DEF Inflight
  <2> QED
    BY <1>7, <1>9, <2>1 DEF LateLands
<1>10. ASSUME NEW h \in Handles, WriteAnswered(h)
       PROVE  TypeOK'
  <2>1. request[h] \in Request
    BY <1>10 DEF WriteAnswered, Calls, CallOK
  <2>2. held' \in [Handles -> [token : Nat, expires : Int]]
    BY <1>0, <1>10, <2>1 DEF WriteAnswered, Request
  <2> QED
    BY <1>3, <1>10, <2>2 DEF WriteAnswered
<1>11. ASSUME NEW h \in Handles, WriteConflicts(h)
       PROVE  TypeOK'
  <2>1. CASE kind[h] = "acquire"
    <3>1. seen' \in [Handles -> Record]
      BY <1>0, <1>11, <2>1 DEF WriteConflicts
    <3>2. request' \in [Handles -> Request \cup {NoRequest}]
      BY <1>11, <2>1 DEF WriteConflicts
    <3>3. pc' \in [Handles -> {"idle", "read", "check", "stamp", "sent", "landed"}]
      BY <1>11, <2>1 DEF WriteConflicts
    <3>4. UNCHANGED <<time, local, record, writes, kind, held, tries, late>>
      BY <1>11, <2>1 DEF WriteConflicts
    <3> QED
      BY <3>1, <3>2, <3>3, <3>4
  <2>2. CASE kind[h] # "acquire"
    BY <1>0, <1>3, <1>11, <2>2 DEF WriteConflicts
  <2> QED
    BY <2>1, <2>2
<1>12. ASSUME NEW h \in Handles, WriteFails(h) \/ Die(h)
       PROVE  TypeOK'
  <2>1. late' \subseteq Request
    BY <1>12 DEF WriteFails, Die, Calls, CallOK
  <2>2. held' \in [Handles -> [token : Nat, expires : Int]]
    BY <1>0, <1>12 DEF WriteFails, Die
  <2>3. Done(h) /\ UNCHANGED <<time, local, record, writes>>
    BY <1>12 DEF WriteFails, Die
  <2> QED
    BY <1>3, <2>1, <2>2, <2>3
<1>13. CASE UNCHANGED vars
  BY <1>13 DEF vars
<1> QED
  BY <1>1, <1>2, <1>4, <1>5, <1>6, <1>8, <1>9, <1>10, <1>11, <1>12, <1>13
  DEF Next, Step, RenewStart, ReleaseStart

-----------------------------------------------------------------------------

\* Time passes: deadlines only come nearer, and clocks do not run back.
LEMMA TickStep ==
    ASSUME IInv, Tick
    PROVE  IInv'
<1> USE LeaseAssumption DEF IInv
<1>1. /\ UNCHANGED <<record, writes, pc, kind, held, seen, request, tries, late>>
      /\ time' = time + 1
      /\ \A h \in Handles : local[h] <= local'[h]
      /\ \A h \in Handles : time' - Skew <= local'[h] /\ local'[h] <= time' + Skew
      /\ Inflight' = Inflight
  BY DEF Tick, Inflight, TypeOK
<1>2. TypeOK'
  BY TypeStep DEF Next
<1>3. Clocks' /\ Calls' /\ Minted' /\ Fresh' /\ GivenUp'
  BY <1>1 DEF Clocks, Calls, CallOK, Minted, Fresh, GivenUp
<1>4. Stamped'
  <2>1. record.by # Nobody => record.by \in Handles
    BY DEF TypeOK, Record, Writer
  <2>2. \A q \in Inflight : q.by \in Handles /\ q.expires \in Int
    BY DEF Inflight, TypeOK, Calls, CallOK, Request
  <2>3. record.expires \in Int
    BY DEF TypeOK, Record
  <2> QED
    BY <1>1, <1>2, <2>1, <2>2, <2>3 DEF Stamped, TypeOK
<1>5. Known' /\ AllJustified' /\ AllCovered'
  <2>1. \A x \in Int : time >= x => time' >= x
    BY <1>1 DEF TypeOK
  <2>2. record.expires \in Int
    BY DEF TypeOK, Record
  <2>3. \A h \in Handles : held[h].expires \in Int
    BY DEF TypeOK
  <2>4. \A h \in Handles : pc[h] = "landed" => request[h].expires \in Int
    BY DEF Calls, CallOK, Request
  <2>5. Known'
    BY <1>1, <2>1, <2>2 DEF Known, KnownTo
  <2>6. AllJustified'
    BY <1>1, <2>1, <2>2 DEF AllJustified, Justified
  <2>7. AllCovered'
    BY <1>1, <2>1, <2>3, <2>4 DEF AllCovered, Covered
  <2> QED
    BY <2>5, <2>6, <2>7
<1> QED
  BY <1>2, <1>3, <1>4, <1>5

\* Steps that send nothing and learn at most the record as it is.
Quiet(h) ==
    \/ AcquireStart(h) \/ AcquireRead(h) \/ AcquireGivesUp(h) \/ AcquireCheck(h)
    \/ RenewStart(h) \/ ReleaseStart(h)

\* A call starts, reads, is refused, or finds its lease run out.
LEMMA QuietStep ==
    ASSUME IInv, NEW h \in Handles, Quiet(h)
    PROVE  IInv'
<1> USE DEF IInv
<1>0. TypeOK'
  BY TypeStep DEF Quiet, Next, Step
<1>1. /\ UNCHANGED <<time, local, record, writes, late>>
      /\ \A g \in Handles : g # h =>
           /\ pc'[g] = pc[g] /\ kind'[g] = kind[g] /\ held'[g] = held[g]
           /\ seen'[g] = seen[g] /\ request'[g] = request[g]
      /\ pc[h] \notin {"sent", "landed"} /\ pc'[h] \notin {"sent", "landed"}
      /\ held'[h] = held[h] \/ held'[h] = NotHeld
      /\ seen'[h] \in {seen[h], record, Absent}
  BY DEF Quiet, AcquireStart, AcquireRead, AcquireGivesUp, AcquireCheck, RenewStart,
         ReleaseStart, RequireHeld, Done, TypeOK
<1>2. Inflight' = Inflight
  BY <1>1 DEF Inflight
<1>3. Clocks' /\ Stamped' /\ AllJustified'
  BY <1>1, <1>2 DEF Clocks, Stamped, AllJustified, Justified
<1>4. Calls'
  <2>1. CallOK(h)'
    <3>1. CASE AcquireStart(h) \/ AcquireRead(h)
      BY <3>1 DEF AcquireStart, AcquireRead, Calls, CallOK, TypeOK
    <3>2. CASE AcquireGivesUp(h) \/ AcquireCheck(h)
      BY <3>2 DEF AcquireGivesUp, AcquireCheck, Done, Calls, CallOK, TypeOK
    <3>3. CASE RenewStart(h) \/ ReleaseStart(h)
      BY <3>3 DEF RenewStart, ReleaseStart, RequireHeld, InTime, Calls, CallOK, TypeOK
    <3> QED
      BY <3>1, <3>2, <3>3 DEF Quiet
  <2> QED
    BY <1>1, <2>1 DEF Calls, CallOK
<1>5. Minted' /\ Fresh'
  <2>1. seen'[h].token \in {seen[h].token, record.token, 0}
        /\ held'[h].token \in {held[h].token, 0}
    BY <1>1 DEF Absent, NotHeld
  <2>2. \A q \in Inflight : q.token # 0
    BY DEF Minted
  <2>3. Minted'
    <3>1. seen'[h].token <= writes /\ held'[h].token <= writes
      BY <2>1 DEF Minted, TypeOK
    <3>2. \A g \in Handles : pc'[g] \in {"sent", "landed"} =>
            pc[g] \in {"sent", "landed"} /\ request'[g] = request[g]
      BY <1>1
    <3> QED
      BY <1>1, <1>2, <3>1, <3>2 DEF Minted
  <2>4. Fresh'
    BY <1>1, <1>2, <2>1, <2>2 DEF Fresh
  <2> QED
    BY <2>3, <2>4
<1>6. GivenUp'
  <2>1. \A q \in late : q.by \in Handles
    BY DEF TypeOK, Request
  <2> QED
    BY <1>1, <2>1 DEF GivenUp
<1>7. Known'
  <2>1. KnownTo(h)'
    <3>1. CASE AcquireRead(h)
      BY <1>1, <3>1 DEF AcquireRead, Known, KnownTo, TypeOK
    <3>2. CASE AcquireCheck(h)
      <4>1. seen[h].by # Nobody /\ IsFree(h) => time >= seen[h].expires
        BY LeaseAssumption DEF IsFree, Clocks, TypeOK, Record
      <4> QED
        BY <1>1, <3>2, <4>1 DEF AcquireCheck, Done, Known, KnownTo, TypeOK
    <3>3. CASE AcquireStart(h) \/ AcquireGivesUp(h)
      BY <1>1, <3>3 DEF AcquireStart, AcquireGivesUp, Done, Known, KnownTo, TypeOK
    <3>4. CASE RenewStart(h) \/ ReleaseStart(h)
      BY <1>1, <3>4 DEF RenewStart, ReleaseStart, RequireHeld, Known, KnownTo, Calls, CallOK, TypeOK
    <3> QED
      BY <3>1, <3>2, <3>3, <3>4 DEF Quiet
  <2> QED
    BY <1>1, <2>1 DEF Known, KnownTo
<1>8. AllCovered'
  <2>1. held'[h] # NotHeld /\ kind'[h] # "release" => kind[h] # "release"
    BY DEF Quiet, AcquireStart, AcquireRead, AcquireGivesUp, AcquireCheck, RenewStart,
           ReleaseStart, RequireHeld, Done, Calls, CallOK, TypeOK
  <2> QED
    BY <1>1, <2>1 DEF AllCovered, Covered
<1> QED
  BY <1>0, <1>3, <1>4, <1>5, <1>6, <1>7, <1>8

\* A call stamps its write and sends it: the write is justified by what the
\* call has checked, and its token is new to everybody.
LEMMA StampStep ==
    ASSUME IInv, NEW h \in Handles, Stamp(h)
    PROVE  IInv'
<1> USE DEF IInv
<1> PICK new : new = request'[h]
  OBVIOUS
<1>0. TypeOK'
  BY TypeStep DEF Next, Step
<1>1. /\ UNCHANGED <<time, local, record, kind, held, seen, late>>
      /\ writes' = writes + 1
      /\ pc[h] = "stamp" /\ pc'[h] = "sent"
      /\ \A g \in Handles : g # h => pc'[g] = pc[g] /\ request'[g] = request[g]
      /\ new.by = h /\ new.kind = kind[h] /\ new.expected = Expected(h)
      /\ new.token = writes + 1
      /\ new.expires = IF kind[h] = "release" THEN 0 ELSE local[h] + TTL
  BY DEF Stamp, TypeOK
<1>2. Inflight' = Inflight \cup {new}
  BY <1>1 DEF Inflight
<1>3. new \in Request
  BY <1>0, <1>1, LeaseAssumption DEF TypeOK, NoRequest
<1>4. Clocks' /\ Calls'
  BY <1>1, <1>3 DEF Clocks, Calls, CallOK
<1>5. Expected(h) <= writes
  BY DEF Expected, Minted
<1>6. \A q \in Inflight : q.token \in Nat /\ q.expected \in Nat /\ q.token <= writes /\ q.expected <= writes
  BY DEF Minted, Inflight, TypeOK, Request, Calls, CallOK
<1>7. Minted'
  <2>1. \A q \in Inflight' : q.token > 0
    BY <1>1, <1>2 DEF Minted, TypeOK
  <2>2. /\ record.token <= writes'
        /\ \A g \in Handles : held[g].token <= writes' /\ seen[g].token <= writes'
        /\ \A q \in late : q.token <= writes' /\ q.expected <= writes'
    BY <1>1 DEF Minted, TypeOK, Record, Request
  <2>3. \A g \in Handles : pc'[g] \in {"sent", "landed"} =>
          request'[g].token <= writes' /\ request'[g].expected <= writes'
    <3>1. new.token <= writes' /\ new.expected <= writes'
      BY <1>1, <1>3, <1>5 DEF TypeOK, Request
    <3>2. ASSUME NEW g \in Handles, g # h, pc[g] \in {"sent", "landed"}
          PROVE  request[g].token <= writes' /\ request[g].expected <= writes'
      BY <1>1, <3>2 DEF Minted, Calls, CallOK, Request, TypeOK
    <3> QED
      BY <1>1, <3>1, <3>2
  <2> QED
    BY <1>1, <2>1, <2>2, <2>3 DEF Minted
<1>8. Fresh'
  <2>1. /\ new.token # record.token
        /\ \A q \in Inflight : q.token # new.token /\ q.expected # new.token
        /\ new.expected # new.token
        /\ \A g \in Handles : held[g].token # new.token /\ seen[g].token # new.token
        /\ \A g \in Handles : pc[g] \in {"sent", "landed"} => request[g].token # new.token
    BY <1>1, <1>3, <1>5, <1>6 DEF Minted, TypeOK, Record, Request, Calls, CallOK
  <2>2. \A q \in Inflight : new.expected # q.token
    BY <1>1 DEF Expected, Fresh
  <2>3. late \subseteq Inflight
    BY DEF Inflight
  <2> QED
    BY <1>1, <1>2, <2>1, <2>2, <2>3 DEF Fresh
<1>9. Stamped'
  <2>1. new.kind # "release" => new.expires <= local[new.by] + TTL
    BY <1>1, LeaseAssumption DEF TypeOK
  <2>2. new.kind = "release" => new.expires = 0
    BY <1>1
  <2> QED
    BY <1>1, <1>2, <2>1, <2>2 DEF Stamped
<1>10. Known' /\ GivenUp' /\ AllCovered'
  <2>1. \A q \in late : q.by \in Handles
    BY DEF TypeOK, Request
  <2> QED
    BY <1>1, <2>1 DEF Known, KnownTo, GivenUp, AllCovered, Covered
<1>11. AllJustified'
  <2>1. Justified(new)'
    <3>1. CASE kind[h] = "acquire"
      BY <1>1, <3>1 DEF Justified, Expected, Known, KnownTo
    <3>2. CASE kind[h] \in {"renew", "release"}
      <4>1. held[h].token = record.token => record.by = h
        BY <3>2 DEF Known, KnownTo, Calls, CallOK
      <4>2. record.by = h => record.expires <= local[h] + TTL
        BY LeaseAssumption DEF Stamped
      <4>3. new.expected = held[h].token
        BY <1>1, <3>2 DEF Expected
      <4> QED
        BY <1>1, <3>2, <4>1, <4>2, <4>3, LeaseAssumption DEF Justified, TypeOK, Record
    <3> QED
      BY <1>1, <1>3, <3>1, <3>2 DEF Request
  <2>2. \A q \in Inflight : Justified(q)'
    BY <1>1 DEF AllJustified, Justified
  <2> QED
    BY <1>2, <2>1, <2>2 DEF AllJustified
<1> QED
  BY <1>0, <1>4, <1>7, <1>8, <1>9, <1>10, <1>11

\* What the landing of a write does to the record, whoever waits for it.
Lands(q) ==
    /\ q \in Inflight
    /\ Matches(q)
    /\ record' = Written(q)
    /\ UNCHANGED <<time, local, writes, kind, held, seen, request>>
    /\ late' \subseteq late
    /\ \A p \in Inflight' : p \in Inflight /\ p.token # q.token
    /\ \A g \in Handles :
         \/ pc'[g] = pc[g]
         \/ pc[g] = "sent" /\ pc'[g] = "landed" /\ request[g] = q

\* A write in time or late lands once.
LEMMA LandingIsLands ==
    ASSUME IInv
    PROVE  /\ \A h \in Handles : WriteLands(h) => Lands(request[h])
           /\ \A q \in late : LateLands(q) => Lands(q)
<1> USE DEF IInv
<1>1. ASSUME NEW h \in Handles, WriteLands(h)
      PROVE  Lands(request[h])
  <2>1. /\ pc[h] = "sent" /\ pc'[h] = "landed"
        /\ \A g \in Handles : g # h => pc'[g] = pc[g]
        /\ UNCHANGED <<request, late>>
    BY <1>1 DEF WriteLands, TypeOK
  <2>2. request[h] \in Inflight
    BY <2>1 DEF Inflight
  <2>3. \A p \in Inflight' : p \in Inflight /\ p.token # request[h].token
    <3>1. \A p \in Inflight' : p \in late \/ \E g \in Handles : g # h /\ pc[g] = "sent" /\ p = request[g]
      BY <2>1 DEF Inflight
    <3> QED
      BY <2>1, <3>1 DEF Inflight, Fresh
  <2> QED
    BY <1>1, <2>1, <2>2, <2>3 DEF WriteLands, Lands
<1>2. ASSUME NEW q \in late, LateLands(q)
      PROVE  Lands(q)
  <2>1. late' = late \ {q} /\ UNCHANGED <<pc, request>>
    BY <1>2 DEF LateLands
  <2>2. \A p \in Inflight' : p \in Inflight /\ p.token # q.token
    <3>1. \A p \in Inflight' : p \in late \ {q} \/ \E g \in Handles : pc[g] = "sent" /\ p = request[g]
      BY <2>1 DEF Inflight
    <3> QED
      BY <3>1 DEF Inflight, Fresh
  <2>3. q \in Inflight
    BY DEF Inflight
  <2> QED
    BY <1>2, <2>1, <2>2, <2>3 DEF LateLands, Lands
<1> QED
  BY <1>1, <1>2

\* A write lands: it is justified, so that whoever is covered by the record it
\* replaces is its writer, or past the deadline.
LEMMA LandsStep ==
    ASSUME IInv, TypeOK', NEW q \in Inflight, Lands(q)
    PROVE  IInv'
<1> USE DEF IInv
<1>1. /\ record' = Written(q) /\ record.token = q.expected
      /\ UNCHANGED <<time, local, writes, kind, held, seen, request>>
      /\ late' \subseteq late
      /\ \A p \in Inflight' : p \in Inflight /\ p.token # q.token
      /\ \A g \in Handles :
         \/ pc'[g] = pc[g]
         \/ pc[g] = "sent" /\ pc'[g] = "landed" /\ request[g] = q
  BY DEF Lands, Matches
<1>2. q \in Request /\ q.by \in Handles /\ q.by # Nobody
  BY LeaseAssumption DEF Inflight, TypeOK, Calls, CallOK, Request
<1>3. /\ record'.token = q.token
      /\ record'.expires = q.expires
      /\ record'.by = IF q.kind = "release" THEN Nobody ELSE q.by
  BY <1>1 DEF Written
<1>4. Justified(q)
  BY DEF AllJustified
<1>5. Clocks' /\ Calls'
  BY <1>1 DEF Clocks, Calls, CallOK
<1>6. Minted'
  <2>1. q.token <= writes
    BY DEF Minted, Inflight
  <2>2. \A g \in Handles : pc'[g] \in {"sent", "landed"} => pc[g] \in {"sent", "landed"}
    BY <1>1
  <2> QED
    BY <1>1, <1>3, <2>1, <2>2 DEF Minted
<1>7. Fresh'
  <2>1. \A p \in Inflight' : p.token # record'.token
    BY <1>1, <1>3
  <2>2. \A p \in Inflight' : \A g \in Handles : pc'[g] = "landed" => request[g].token # p.token
    BY <1>1 DEF Fresh
  <2>3. \A g \in Handles : pc'[g] = "sent" => pc[g] = "sent"
    BY <1>1
  <2> QED
    BY <1>1, <2>1, <2>2, <2>3 DEF Fresh
<1>8. Stamped'
  BY <1>1, <1>2, <1>3 DEF Stamped
<1>9. Known'
  <2>1. ASSUME NEW g \in Handles
        PROVE  KnownTo(g)'
    <3>1. held[g].token # q.token /\ seen[g].token # q.token
      BY DEF Fresh
    <3>2. pc'[g] = "landed" /\ kind[g] # "release" /\ request[g].token = q.token =>
            record'.by = g /\ record'.expires = request[g].expires
      <4>1. CASE pc[g] = "landed"
        BY <4>1 DEF Fresh
      <4>2. CASE pc[g] = "sent" /\ request[g] = q
        BY <1>3, <4>2 DEF Calls, CallOK
      <4> QED
        BY <1>1, <4>1, <4>2
    <3> QED
      BY <1>1, <1>3, <3>1, <3>2 DEF KnownTo
  <2> QED
    BY <2>1 DEF Known
<1>10. AllJustified' /\ GivenUp'
  <2>1. \A p \in Inflight' : p.expected # record'.token
    BY <1>1, <1>3 DEF Fresh
  <2>2. late' \subseteq Inflight'
    BY DEF Inflight
  <2> QED
    BY <2>1, <2>2 DEF AllJustified, Justified, GivenUp
<1>11. ASSUME NEW g \in Handles, NEW x \in Int, Covered(g, x),
              q.kind = "release" => q.by # g
       PROVE  Covered(g, x)'
  <2>1. CASE time >= x
    BY <1>1, <2>1 DEF Covered
  <2>2. CASE record.by = g /\ record.expires >= x
    <3>1. record.by # Nobody
      BY <2>2, LeaseAssumption
    <3>2. record.expires \in Int /\ q.expires \in Int /\ time \in Int
      BY <1>2 DEF TypeOK, Record, Request
    <3>3. CASE q.kind = "acquire"
      BY <1>1, <1>4, <2>2, <3>1, <3>2, <3>3 DEF Justified, Covered
    <3>4. CASE q.kind = "renew"
      BY <1>1, <1>3, <1>4, <2>2, <3>2, <3>4 DEF Justified, Covered
    <3>5. CASE q.kind = "release"
      BY <1>1, <1>4, <1>11, <2>2, <3>5 DEF Justified
    <3> QED
      BY <1>2, <3>3, <3>4, <3>5 DEF Request
  <2> QED
    BY <1>11, <2>1, <2>2 DEF Covered
<1>12. AllCovered'
  <2> SUFFICES ASSUME NEW g \in Handles, kind[g] # "release"
               PROVE  /\ held[g] # NotHeld => Covered(g, held[g].expires)'
                      /\ pc'[g] = "landed" => Covered(g, request[g].expires)'
    BY <1>1 DEF AllCovered, Covered
  <2>1. q.kind = "release" /\ q.by = g => q \in late
    BY DEF Inflight, Calls, CallOK
  <2>2. q.kind = "release" /\ q.by = g => held[g] = NotHeld /\ pc[g] # "landed"
    BY <1>1, <2>1 DEF GivenUp
  <2>3. held[g].expires \in Int
    BY DEF TypeOK
  <2>4. held[g] # NotHeld => Covered(g, held[g].expires)'
    BY <1>1, <1>11, <2>2, <2>3 DEF AllCovered, Covered
  <2>5. ASSUME pc[g] = "landed"
        PROVE  Covered(g, request[g].expires)'
    <3>1. request[g].expires \in Int
      BY <2>5 DEF Calls, CallOK, Request
    <3> QED
      BY <1>1, <1>11, <2>2, <2>5, <3>1 DEF AllCovered, Covered
  <2>6. ASSUME pc[g] = "sent", request[g] = q
        PROVE  Covered(g, request[g].expires)'
    BY <1>1, <1>2, <1>3, <2>6 DEF Covered, Calls, CallOK, Request
  <2> QED
    BY <1>1, <2>4, <2>5, <2>6
<1> QED
  BY <1>5, <1>6, <1>7, <1>8, <1>9, <1>10, <1>12

\* A call ends: what it learned of its own write is what landed.
Ends(h) == WriteAnswered(h) \/ WriteConflicts(h) \/ WriteFails(h) \/ Die(h)

LEMMA EndsStep ==
    ASSUME IInv, NEW h \in Handles, Ends(h)
    PROVE  IInv'
<1> USE DEF IInv
<1>0. TypeOK'
  BY TypeStep DEF Ends, Next, Step
<1>1. /\ UNCHANGED <<time, local, record, writes>>
      /\ \A g \in Handles : g # h =>
           /\ pc'[g] = pc[g] /\ kind'[g] = kind[g] /\ held'[g] = held[g]
           /\ seen'[g] = seen[g] /\ request'[g] = request[g]
      /\ seen'[h] = Absent
      /\ \/ pc'[h] = "idle" /\ kind'[h] = "none"
         \/ pc'[h] = "read" /\ kind'[h] = "acquire" /\ kind[h] = "acquire" /\ held'[h] = NotHeld
  BY DEF Ends, WriteAnswered, WriteConflicts, WriteFails, Die, Done, TypeOK, Calls, CallOK
<1>2. \/ held'[h] = NotHeld
      \/ held'[h] = held[h] /\ kind[h] # "release"
      \/ /\ pc[h] = "landed" /\ kind[h] # "release" /\ late' = late
         /\ held'[h] = [token |-> request[h].token, expires |-> request[h].expires]
  BY DEF Ends, WriteAnswered, WriteConflicts, WriteFails, Die, TypeOK
<1>3. \/ late' = late
      \/ pc[h] = "sent" /\ late' = late \cup {request[h]}
         /\ (kind[h] = "release" => held'[h] = NotHeld)
  BY DEF Ends, WriteAnswered, WriteConflicts, WriteFails, Die, TypeOK
<1>4. Inflight' \subseteq Inflight
  BY <1>1, <1>3 DEF Inflight
<1>5. Clocks' /\ Stamped' /\ AllJustified'
  BY <1>1, <1>4 DEF Clocks, Stamped, AllJustified, Justified
<1>6. Calls'
  <2>1. CallOK(h)'
    BY <1>1 DEF CallOK
  <2> QED
    BY <1>1, <2>1 DEF Calls, CallOK
<1>7. seen'[h].token = 0 /\ held'[h].token \in Nat
  BY <1>0, <1>1 DEF Absent, TypeOK
<1>8. held'[h].token \in {0, held[h].token}
      \/ (pc[h] = "landed" /\ held'[h].token = request[h].token)
  BY <1>2 DEF NotHeld
<1>9. Minted'
  <2>1. held'[h].token <= writes /\ seen'[h].token <= writes
    BY <1>7, <1>8 DEF Minted, TypeOK
  <2>2. \A q \in late' : q.token <= writes /\ q.expected <= writes
    BY <1>3 DEF Minted
  <2>3. \A g \in Handles : pc'[g] \in {"sent", "landed"} => g # h
    BY <1>1
  <2> QED
    BY <1>1, <1>4, <2>1, <2>2, <2>3 DEF Minted
<1>10. Fresh'
  <2>1. \A q \in Inflight : held'[h].token # q.token /\ seen'[h].token # q.token
    BY <1>7, <1>8 DEF Fresh, Minted
  <2>2. \A g \in Handles : pc'[g] \in {"sent", "landed"} => g # h
    BY <1>1
  <2>3. \A q \in late', g \in Handles : pc'[g] = "sent" => q.token # request'[g].token
    BY <1>1, <1>3, <2>2 DEF Fresh
  <2>4. \A p, q \in late' : p.token = q.token => p = q
    BY <1>3 DEF Fresh
  <2>5. \A q \in Inflight' :
          /\ q.token # record.token
          /\ \A p \in Inflight' : p.expected # q.token
          /\ \A g \in Handles :
               /\ held'[g].token # q.token /\ seen'[g].token # q.token
               /\ pc'[g] = "landed" => request'[g].token # q.token
    BY <1>1, <1>4, <2>1, <2>2 DEF Fresh
  <2> QED
    BY <1>1, <2>2, <2>3, <2>4, <2>5 DEF Fresh
<1>11. Known'
  <2>1. KnownTo(h)'
    BY <1>1, <1>2 DEF Known, KnownTo
  <2> QED
    BY <1>1, <2>1 DEF Known, KnownTo
<1>12. GivenUp'
  <2> SUFFICES ASSUME NEW q \in late', q.kind = "release", q.expected = record.token
               PROVE  held'[q.by] = NotHeld /\ pc'[q.by] # "landed"
    BY <1>1 DEF GivenUp
  <2>1. CASE q \in late
    <3>1. q.by \in Handles /\ held[q.by] = NotHeld /\ pc[q.by] # "landed"
      BY <2>1 DEF GivenUp, TypeOK, Request
    <3> QED
      BY <1>1, <1>2, <3>1
  <2>2. CASE pc[h] = "sent" /\ q = request[h]
    BY <1>1, <1>3, <2>1, <2>2 DEF Calls, CallOK
  <2> QED
    BY <1>3, <2>1, <2>2
<1>13. AllCovered'
  BY <1>1, <1>2 DEF AllCovered, Covered
<1> QED
  BY <1>0, <1>5, <1>6, <1>9, <1>10, <1>11, <1>12, <1>13

-----------------------------------------------------------------------------

\* The inductive invariant holds in every state.
THEOREM Inductive == Spec => []IInv
<1>1. Init => IInv
  <2> SUFFICES ASSUME Init
               PROVE  IInv
    OBVIOUS
  <2> USE LeaseAssumption DEF Init
  <2>1. TypeOK
    BY DEF TypeOK, Absent, NotHeld, Record, Writer
  <2>2. Inflight = {}
    BY DEF Inflight
  <2>3. Clocks /\ Calls /\ Minted /\ Fresh /\ Stamped
    BY <2>2 DEF Clocks, Calls, CallOK, Minted, Fresh, Stamped, Absent, NotHeld
  <2>4. Known /\ AllJustified /\ GivenUp /\ AllCovered
    BY <2>2 DEF Known, KnownTo, AllJustified, GivenUp, AllCovered
  <2> QED
    BY <2>1, <2>3, <2>4 DEF IInv
<1>2. IInv /\ [Next]_vars => IInv'
  <2> SUFFICES ASSUME IInv, [Next]_vars
               PROVE  IInv'
    OBVIOUS
  <2>1. CASE Tick
    BY <2>1, TickStep
  <2>2. ASSUME NEW h \in Handles, Step(h)
        PROVE  IInv'
    <3>1. CASE Quiet(h)
      BY <3>1, QuietStep
    <3>2. CASE Stamp(h)
      BY <3>2, StampStep
    <3>3. CASE WriteLands(h)
      <4>1. Lands(request[h]) /\ TypeOK'
        BY <3>3, LandingIsLands, TypeStep
      <4> QED
        BY <4>1, LandsStep DEF Lands
    <3>4. CASE Ends(h)
      BY <3>4, EndsStep
    <3> QED
      BY <2>2, <3>1, <3>2, <3>3, <3>4 DEF Step, Quiet, Ends
  <2>3. ASSUME NEW q \in late, LateLands(q)
        PROVE  IInv'
    <3>1. Lands(q) /\ TypeOK'
      BY <2>3, LandingIsLands, TypeStep
    <3> QED
      BY <3>1, LandsStep DEF Lands
  <2>4. CASE UNCHANGED vars
    <3>1. Inflight' = Inflight
      BY <2>4 DEF vars, Inflight
    <3> QED
      BY <2>4, <3>1 DEF vars, IInv, TypeOK, Clocks, Calls, CallOK, Minted, Fresh, Stamped, Known,
         KnownTo, AllJustified, Justified, GivenUp, AllCovered, Covered
  <2> QED
    BY <2>1, <2>2, <2>3, <2>4 DEF Next
<1> QED
  BY <1>1, <1>2, PTL DEF Spec

\* Records, requests and handles keep their types, and what is stored is
\* always a record that _decode accepts.
THEOREM LeaseTypeCorrect == Spec => []TypeOK
<1>1. IInv => TypeOK
  BY DEF IInv
<1> QED
  BY <1>1, Inductive, PTL

\* While a handle may act, the store has its name and a deadline no earlier.
THEOREM LeaseRecorded == Spec => []AuthorityRecorded
<1>1. IInv => AuthorityRecorded
  <2> SUFFICES ASSUME IInv, NEW h \in Handles, Authority(h)
               PROVE  record.by = h /\ record.expires >= held[h].expires
    BY DEF AuthorityRecorded
  <2>1. Covered(h, held[h].expires)
    BY DEF IInv, AllCovered, Authority, InTime
  <2>2. time < held[h].expires
    BY LeaseAssumption DEF Authority, InTime, IInv, Clocks, TypeOK
  <2> QED
    BY <2>1, <2>2 DEF Covered, IInv, TypeOK
<1> QED
  BY <1>1, Inductive, PTL

\* At most one handle may act, whatever the clocks within the skew and the
\* network do: the store names only one.
THEOREM LeaseSole == Spec => []SoleAuthority
<1>1. AuthorityRecorded => SoleAuthority
  BY DEF AuthorityRecorded, SoleAuthority
<1> QED
  BY <1>1, LeaseRecorded, PTL

=============================================================================
