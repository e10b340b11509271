-------------------------------- MODULE Lease --------------------------------
(***************************************************************************)
(* The optional lease of a published location (_lease.py): one record in a *)
(* file or an S3 object, replaced by compare-and-swap on its version.  Any *)
(* number of handles acquire, renew and release; every one has a clock of  *)
(* its own.  The model keeps what makes this hard:                         *)
(*                                                                         *)
(*   - clocks are apart, each by up to skew_s from the time of day, and    *)
(*     run unevenly (they are not set back);                               *)
(*   - the clock is read, the deadline stamped and the write sent in       *)
(*     separate steps, with any delay between;                             *)
(*   - a write that timed out may have landed, or may still land later;    *)
(*   - a process may die anywhere, its last write still on the way.        *)
(*                                                                         *)
(* A version is the token of the record: every write has a fresh one.      *)
(***************************************************************************)
EXTENDS Integers

CONSTANTS
    Handles,     \* Lease objects, in any processes
    Nobody,      \* the empty owner of an absent or a released record
    TTL,         \* ttl_s
    Skew,        \* skew_s
    MaxTime,     \* bound: the time of day
    MaxWrites    \* bound: writes sent

ASSUME LeaseAssumption ==
    /\ Nobody \notin Handles
    /\ TTL \in Nat /\ Skew \in Nat /\ Skew < TTL
    /\ MaxTime \in Nat /\ MaxWrites \in Nat

VARIABLES
    time,     \* the time of day
    local,    \* time.time() as each handle's process has it
    record,   \* the stored record, with the handle that wrote it
    writes,   \* how many tokens uuid4 has returned
    pc,       \* what each handle's call does next
    kind,     \* which call it is in
    held,     \* the handle's _held and _version, NotHeld for None
    seen,     \* acquire: the record it read
    request,  \* the write it sends
    tries,    \* acquire: rounds of its loop
    late      \* writes whose caller has given up and that may still land

vars == <<time, local, record, writes, pc, kind, held, seen, request, tries, late>>

NotHeld == [token |-> 0, expires |-> 0]

\* An absent record; a released one (a tombstone) has a token of its own.
Absent == [by |-> Nobody, token |-> 0, expires |-> 0]
NoRequest == [by |-> Nobody, kind |-> "none", expected |-> 0, token |-> 0, expires |-> 0]

Init ==
    /\ time = 0
    /\ local \in [Handles -> -Skew..Skew]
    /\ record = Absent
    /\ writes = 0
    /\ pc = [h \in Handles |-> "idle"]
    /\ kind = [h \in Handles |-> "none"]
    /\ held = [h \in Handles |-> NotHeld]
    /\ seen = [h \in Handles |-> Absent]
    /\ request = [h \in Handles |-> NoRequest]
    /\ tries = [h \in Handles |-> 0]
    /\ late = {}

\* Time passes, and every clock moves on, to within the skew of it.
Tick ==
    /\ time < MaxTime
    /\ time' = time + 1
    /\ local' \in [Handles -> time + 1 - Skew .. time + 1 + Skew]
    /\ \A h \in Handles : local'[h] >= local[h]
    /\ UNCHANGED <<record, writes, pc, kind, held, seen, request, tries, late>>

\* A call ends: by return, or by an exception to its caller.
Done(h) ==
    /\ pc' = [pc EXCEPT ![h] = "idle"]
    /\ kind' = [kind EXCEPT ![h] = "none"]
    /\ seen' = [seen EXCEPT ![h] = Absent]
    /\ request' = [request EXCEPT ![h] = NoRequest]
    /\ tries' = [tries EXCEPT ![h] = 0]

-----------------------------------------------------------------------------

\* acquire refuses a handle that holds a lease, in time or not.
AcquireStart(h) ==
    /\ pc[h] = "idle"
    /\ held[h] = NotHeld
    /\ pc' = [pc EXCEPT ![h] = "read"]
    /\ kind' = [kind EXCEPT ![h] = "acquire"]
    /\ UNCHANGED <<time, local, record, writes, held, seen, request, tries, late>>

\* The read of a round.  There are four rounds.
AcquireRead(h) ==
    /\ pc[h] = "read"
    /\ tries[h] < 4
    /\ seen' = [seen EXCEPT ![h] = record]
    /\ tries' = [tries EXCEPT ![h] = @ + 1]
    /\ pc' = [pc EXCEPT ![h] = "check"]
    /\ UNCHANGED <<time, local, record, writes, kind, held, request, late>>

\* The record changed in every round, or the read raised.
AcquireGivesUp(h) ==
    /\ pc[h] = "read"
    /\ Done(h)
    /\ UNCHANGED <<time, local, record, writes, held, late>>

\* Mutant of IsFree: the skew margin is left out.
Mut_IsFreeNoSkew(h) == seen[h].by = Nobody \/ local[h] >= seen[h].expires

\* Absent, released, or expired for every clock within the skew.
IsFree(h) == seen[h].by = Nobody \/ local[h] >= seen[h].expires + Skew

AcquireCheck(h) ==
    /\ pc[h] = "check"
    /\ IF IsFree(h)
       THEN pc' = [pc EXCEPT ![h] = "stamp"] /\ UNCHANGED <<kind, seen, request, tries>>
       ELSE Done(h)
    /\ UNCHANGED <<time, local, record, writes, held, late>>

\* _require_held: renew and release are for a lease that has not run out.
InTime(h) == held[h] # NotHeld /\ local[h] < held[h].expires - Skew

RequireHeld(h, call) ==
    /\ pc[h] = "idle"
    /\ IF InTime(h)
       THEN /\ pc' = [pc EXCEPT ![h] = "stamp"]
            /\ kind' = [kind EXCEPT ![h] = call]
            /\ UNCHANGED held
       ELSE /\ held' = [held EXCEPT ![h] = NotHeld]
            /\ UNCHANGED <<pc, kind>>
    /\ UNCHANGED <<time, local, record, writes, seen, request, tries, late>>

RenewStart(h) == RequireHeld(h, "renew")
ReleaseStart(h) == RequireHeld(h, "release")

\* The version a write replaces: the one acquire read, or the handle's own.
Expected(h) == IF kind[h] = "acquire" THEN seen[h].token ELSE held[h].token

\* _write: a fresh token, and the deadline by the handle's clock.
Stamp(h) ==
    /\ pc[h] = "stamp"
    /\ writes < MaxWrites
    /\ writes' = writes + 1
    /\ request' = [request EXCEPT ![h] =
         [by |-> h, kind |-> kind[h], expected |-> Expected(h), token |-> writes + 1,
          expires |-> IF kind[h] = "release" THEN 0 ELSE local[h] + TTL]]
    /\ pc' = [pc EXCEPT ![h] = "sent"]
    /\ UNCHANGED <<time, local, record, kind, held, seen, tries, late>>

\* What a write leaves in the store: a released record names nobody.
Written(q) ==
    [by |-> IF q.kind = "release" THEN Nobody ELSE q.by, token |-> q.token, expires |-> q.expires]

\* Mutant of Matches: a write checks no version.
Mut_MatchesAny(q) == q.expected \in Nat

\* The condition of a write: If-None-Match, If-Match, or the digest under flock.
Matches(q) == record.token = q.expected

\* The conditional write lands, under its condition.
WriteLands(h) ==
    /\ pc[h] = "sent"
    /\ Matches(request[h])
    /\ record' = Written(request[h])
    /\ pc' = [pc EXCEPT ![h] = "landed"]
    /\ UNCHANGED <<time, local, writes, kind, held, seen, request, tries, late>>

\* Its answer arrives: the written record is the handle's, or, released, none.
WriteAnswered(h) ==
    /\ pc[h] = "landed"
    /\ held' = [held EXCEPT ![h] =
         IF kind[h] = "release" THEN NotHeld
         ELSE [token |-> request[h].token, expires |-> request[h].expires]]
    /\ Done(h)
    /\ UNCHANGED <<time, local, record, writes, late>>

\* Conflict: acquire goes round again, renew and release have lost the lease.
WriteConflicts(h) ==
    /\ pc[h] = "sent"
    /\ ~Matches(request[h])
    /\ IF kind[h] = "acquire"
       THEN /\ pc' = [pc EXCEPT ![h] = "read"]
            /\ request' = [request EXCEPT ![h] = NoRequest]
            /\ seen' = [seen EXCEPT ![h] = Absent]
            /\ UNCHANGED <<kind, held, tries>>
       ELSE held' = [held EXCEPT ![h] = NotHeld] /\ Done(h)
    /\ UNCHANGED <<time, local, record, writes, late>>

\* The write fails otherwise: its answer is lost, or it never got there, or it
\* is still on its way.  A renew leaves what the handle holds as it was.
WriteFails(h) ==
    /\ pc[h] \in {"sent", "landed"}
    /\ late' = IF pc[h] = "sent" THEN late \cup {request[h]} ELSE late
    /\ held' = [held EXCEPT ![h] = IF kind[h] = "release" THEN NotHeld ELSE @]
    /\ Done(h)
    /\ UNCHANGED <<time, local, record, writes>>

\* A write that nobody waits for any more lands.
LateLands(q) ==
    /\ q \in late
    /\ Matches(q)
    /\ record' = Written(q)
    /\ late' = late \ {q}
    /\ UNCHANGED <<time, local, writes, pc, kind, held, seen, request, tries>>

\* The process dies and another makes the handle anew.
Die(h) ==
    /\ pc[h] # "idle" \/ held[h] # NotHeld
    /\ late' = IF pc[h] = "sent" THEN late \cup {request[h]} ELSE late
    /\ held' = [held EXCEPT ![h] = NotHeld]
    /\ Done(h)
    /\ UNCHANGED <<time, local, record, writes>>

-----------------------------------------------------------------------------

Step(h) ==
    \/ AcquireStart(h) \/ AcquireRead(h) \/ AcquireGivesUp(h) \/ AcquireCheck(h)
    \/ RenewStart(h) \/ ReleaseStart(h)
    \/ Stamp(h) \/ WriteLands(h) \/ WriteAnswered(h) \/ WriteConflicts(h) \/ WriteFails(h)
    \/ Die(h)

Next ==
    \/ Tick
    \/ \E h \in Handles : Step(h)
    \/ \E q \in late : LateLands(q)

Spec == Init /\ [][Next]_vars

-----------------------------------------------------------------------------

Writer == Handles \cup {Nobody}
Record == [by : Writer, token : Nat, expires : Int]
Request == [by : Handles, kind : {"acquire", "renew", "release"},
            expected : Nat, token : Nat, expires : Int]

TypeOK ==
    /\ time \in Nat
    /\ local \in [Handles -> Int]
    /\ record \in Record
    /\ record.by = Nobody => record.expires = 0    \* what _decode accepts
    /\ writes \in Nat
    /\ pc \in [Handles -> {"idle", "read", "check", "stamp", "sent", "landed"}]
    /\ kind \in [Handles -> {"none", "acquire", "renew", "release"}]
    /\ held \in [Handles -> [token : Nat, expires : Int]]
    /\ seen \in [Handles -> Record]
    /\ request \in [Handles -> Request \cup {NoRequest}]
    /\ tries \in [Handles -> 0..4]
    /\ late \subseteq Request

\* What the handle's caller may act on: a lease in time by its own clock, of
\* which it has not begun to let go.
Authority(h) == InTime(h) /\ kind[h] # "release"

\* Two handles never both have the authority to write: not across skewed
\* clocks, nor by a write that lands after its caller gave up on it.
SoleAuthority == \A g, h \in Handles : Authority(g) /\ Authority(h) => g = h

\* As long as a handle has authority the store names it, so that anybody who
\* asks is refused: no late renewal, release or takeover has replaced it.
AuthorityRecorded == \A h \in Handles : Authority(h) => record.by = h /\ record.expires >= held[h].expires

=============================================================================
