------------------------------- MODULE Claims -------------------------------
(***************************************************************************)
(* Range claims (_claim.py): how passes in different threads and processes *)
(* keep off each other's offsets.  Each worker runs one claim attempt at a *)
(* time: read the wall clock, acquire in one transaction, renew before     *)
(* every durable commit, release.  The model keeps what makes this hard:   *)
(*                                                                         *)
(*   - `now` is read before the transaction opens, and SQLite may keep the *)
(*     writer waiting for 30 s, so the stamp compared and the stamp stored *)
(*     are both stale;                                                     *)
(*   - time.time() is a wall clock: it advances, and it may be set back;   *)
(*   - COMMIT may land and still raise, the cleanup that follows may fail; *)
(*   - a worker may be killed, or stall past its TTL, between any steps.   *)
(***************************************************************************)
EXTENDS ClaimTable, FiniteSets

CONSTANTS
    Workers,      \* threads and processes that run passes
    Ranges,       \* the [start, end) ranges a pass may ask for
    TTL,          \* DEFAULT_TTL_MS, in clock units
    MaxTime,      \* bound on the wall clock
    MaxAttempts   \* bound on the number of owners minted

ASSUME WorkersAssumption == IsFiniteSet(Workers)
ASSUME RangesAssumption ==
    Ranges \subseteq [start : Nat, end : Nat] /\ \A d \in Ranges : d.start < d.end
ASSUME TTLAssumption == TTL \in Nat \ {0}
ASSUME BoundsAssumption == MaxTime \in Nat /\ MaxAttempts \in Nat

VARIABLES
    rows,      \* the claim table
    clock,     \* time.time() of the machine
    minted,    \* how many owners new_owner has returned
    pc,        \* what each worker does next
    owner,     \* the Claim object's owner
    range,     \* the Claim object's [start, end)
    stamp,     \* the `now` local of acquire or renew
    overtaken  \* history: another owner was given an overlapping range since
               \* this worker's own acquire committed

vars == <<rows, clock, minted, pc, owner, range, stamp, overtaken>>
local == <<owner, range, stamp>>

NoRange == [start |-> 0, end |-> 0]

\* "confirmed" is the state of a worker whose renew returned True: it goes on
\* to its durable commit.
PC == {"idle", "asked", "cleanup", "holding", "renewing", "confirmed", "lost"}

\* The worker's acquire has committed and it has not yet let go.
Holding == {"holding", "renewing", "confirmed", "lost"}

Row == [owner : Nat, expires : Int, start : Nat, end : Nat]

TypeOK ==
    /\ rows \subseteq Row
    /\ clock \in Nat
    /\ minted \in Nat
    /\ pc \in [Workers -> PC]
    /\ owner \in [Workers -> Nat]
    /\ range \in [Workers -> Ranges \cup {NoRange}]
    /\ stamp \in [Workers -> Nat]
    /\ overtaken \in [Workers -> BOOLEAN]

Init ==
    /\ rows = {}
    /\ clock = 0
    /\ minted = 0
    /\ pc = [w \in Workers |-> "idle"]
    /\ owner = [w \in Workers |-> 0]
    /\ range = [w \in Workers |-> NoRange]
    /\ stamp = [w \in Workers |-> 0]
    /\ overtaken = [w \in Workers |-> FALSE]

(***************************************************************************)
(* The clock.                                                              *)
(***************************************************************************)

Tick ==
    /\ clock < MaxTime
    /\ clock' = clock + 1
    /\ UNCHANGED <<rows, minted, pc, local, overtaken>>

SetClockBack ==
    /\ \E t \in 0..MaxTime : t < clock /\ clock' = t
    /\ UNCHANGED <<rows, minted, pc, local, overtaken>>

(***************************************************************************)
(* acquire.                                                                *)
(***************************************************************************)

\* A fresh Claim with a fresh owner, and the read of the clock.
Ask(w, d) ==
    /\ pc[w] = "idle"
    /\ minted < MaxAttempts
    /\ minted' = minted + 1
    /\ owner' = [owner EXCEPT ![w] = minted + 1]
    /\ range' = [range EXCEPT ![w] = d]
    /\ stamp' = [stamp EXCEPT ![w] = clock]
    /\ pc' = [pc EXCEPT ![w] = "asked"]
    /\ UNCHANGED <<rows, clock, overtaken>>

Refused(w) ==
    /\ pc[w] = "asked"
    /\ Clash(rows, owner[w], range[w], stamp[w])
    /\ pc' = [pc EXCEPT ![w] = "idle"]
    /\ UNCHANGED <<rows, clock, minted, local, overtaken>>

\* Everyone still holding a range that w's new claim overlaps is overtaken.
Overtake(w) ==
    overtaken' = [v \in Workers |->
                    IF v = w THEN FALSE
                    ELSE overtaken[v] \/ (pc[v] \in Holding /\ Overlap(range[v], range[w]))]

\* The transaction commits.  The caller learns of it, or the acknowledgement
\* is lost and acquire raises into its cleanup.
Commit(w, next) ==
    /\ pc[w] = "asked"
    /\ ~Clash(rows, owner[w], range[w], stamp[w])
    /\ rows' = Acquired(rows, owner[w], range[w], stamp[w], TTL)
    /\ Overtake(w)
    /\ pc' = [pc EXCEPT ![w] = next]
    /\ UNCHANGED <<clock, minted, local>>

AcquireOK(w) == Commit(w, "holding")
AcquireUnacknowledged(w) == Commit(w, "cleanup")

\* The transaction fails and rolls back.
AcquireFails(w) ==
    /\ pc[w] = "asked"
    /\ pc' = [pc EXCEPT ![w] = "cleanup"]
    /\ UNCHANGED <<rows, clock, minted, local, overtaken>>

\* The best-effort DELETE by owner and range, then the exception propagates.
Cleanup(w) ==
    /\ pc[w] = "cleanup"
    /\ \/ rows' = Released(rows, owner[w])
       \/ rows' = rows      \* a database error here is suppressed
    /\ pc' = [pc EXCEPT ![w] = "idle"]
    /\ UNCHANGED <<clock, minted, local, overtaken>>

(***************************************************************************)
(* renew, release, and a killed worker.                                    *)
(***************************************************************************)

RenewAsk(w) ==
    /\ pc[w] \in {"holding", "confirmed"}
    /\ stamp' = [stamp EXCEPT ![w] = clock]
    /\ pc' = [pc EXCEPT ![w] = "renewing"]
    /\ UNCHANGED <<rows, clock, minted, owner, range, overtaken>>

\* Mutant of Renew: an expired claim is refused even if nobody took it.
Mut_RenewUnexpired(w) ==
    /\ pc[w] = "renewing"
    /\ rows' = Renewed(rows, owner[w], stamp[w], TTL)
    /\ pc' = [pc EXCEPT ![w] =
                IF \E r \in rows : r.owner = owner[w] /\ r.expires > stamp[w]
                THEN "confirmed" ELSE "lost"]
    /\ UNCHANGED <<clock, minted, local, overtaken>>

Renew(w) ==
    /\ pc[w] = "renewing"
    /\ rows' = Renewed(rows, owner[w], stamp[w], TTL)
    /\ pc' = [pc EXCEPT ![w] = IF HasRow(rows, owner[w]) THEN "confirmed" ELSE "lost"]
    /\ UNCHANGED <<clock, minted, local, overtaken>>

\* Every pass releases in a `finally`, whether it held on, finished or lost.
Release(w) ==
    /\ pc[w] \in {"holding", "confirmed", "lost"}
    /\ rows' = Released(rows, owner[w])
    /\ pc' = [pc EXCEPT ![w] = "idle"]
    /\ UNCHANGED <<clock, minted, local, overtaken>>

\* The process dies: its Claim object is gone, its row stays.
Crash(w) ==
    /\ pc[w] # "idle"
    /\ pc' = [pc EXCEPT ![w] = "idle"]
    /\ UNCHANGED <<rows, clock, minted, local, overtaken>>

WorkerStep(w) ==
    \/ \E d \in Ranges : Ask(w, d)
    \/ Refused(w)
    \/ AcquireOK(w)
    \/ AcquireUnacknowledged(w)
    \/ AcquireFails(w)
    \/ Cleanup(w)
    \/ RenewAsk(w)
    \/ Renew(w)
    \/ Release(w)
    \/ Crash(w)

Next ==
    \/ Tick
    \/ SetClockBack
    \/ \E w \in Workers : WorkerStep(w)

Spec == Init /\ [][Next]_vars

-----------------------------------------------------------------------------

\* Claims of different owners never overlap in the table, expired ones
\* included: the check and the insert are one transaction, and an expired row
\* leaves the table before anything overlapping enters it.  It holds whatever
\* the clocks do and however stale `now` is.
Disjoint ==
    \A r, s \in rows : r.owner # s.owner => ~Overlap(r, s)

\* renew is a fence: when it returns True, no other owner has been given an
\* overlapping range since this worker's own acquire.  "There is no order in
\* which both win" (_claim.py, Claim.renew).
FenceSound ==
    [][\A w \in Workers :
          pc[w] = "renewing" /\ pc'[w] = "confirmed" => ~overtaken[w]]_vars

\* Two workers that hold overlapping ranges are never both still in the
\* table: a holder whose range was given away finds no row, for ever, even
\* after the taker has released or died.
OvertakenIsOut ==
    \A w \in Workers :
        pc[w] \in Holding /\ overtaken[w] => ~HasRow(rows, owner[w])

\* A worker is told that it lost its claim only if somebody took it: a slow
\* holder nobody contests renews however long its claim has been expired.
LossIsReal ==
    \A w \in Workers : pc[w] = "lost" => overtaken[w]

=============================================================================
