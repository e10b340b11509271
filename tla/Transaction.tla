---------------------------- MODULE Transaction ----------------------------
(***************************************************************************)
(* One write connection, many callers: WriteLock and SqliteTransaction     *)
(* (_transaction.py), SqliteBackend.write and savepoint (_sqlite.py) and   *)
(* Buffer.transaction, joined and append (_buffer.py).  Threads of one     *)
(* process append, or open a block (`with log.transaction()`) and append   *)
(* inside it; another process appends and evicts.  SQLite may roll the     *)
(* block's transaction back by itself, and the block's code may go on.     *)
(*                                                                         *)
(* seq and buffer are what is committed.  Reads of the tail go through     *)
(* their own connection, so they see that.                                 *)
(***************************************************************************)
EXTENDS TailCache

CONSTANTS
    Threads,      \* threads of the process that call the log
    MaxFailures   \* bound: errors raised by SQLite or by a block's code

ASSUME TransactionAssumption == MaxFailures \in Nat

VARIABLES
    pc,        \* what each thread does next
    owner,     \* the thread that has the RLock, {} when it is free
    depth,     \* and how often
    held,      \* WriteLock._held: a block is open
    admitted,  \* WriteLock._admitted
    begun,     \* the write connection is in a transaction
    work,      \* its uncommitted view of [seq, buffer]
    save,      \* the view at the open savepoint
    usable,    \* SqliteTransaction._open
    got,       \* offsets handed to the block so far
    acked,     \* offsets whose append, or whose block, has returned
    gone,      \* rows below this were evicted
    failures

lockVars == <<owner, depth, held, admitted>>
sqlVars == <<begun, work, save, usable>>
ghosts == <<got, acked, gone>>
vars == <<tailVars, pc, lockVars, sqlVars, ghosts, failures>>

None == [seq |-> 0, buffer |-> {}]
Committed == [seq |-> seq, buffer |-> buffer]
Go(t, label) == pc' = [pc EXCEPT ![t] = label]
Fail == failures < MaxFailures /\ failures' = failures + 1

Init ==
    /\ TailInit
    /\ pc = [t \in Threads |-> "idle"]
    /\ owner = {} /\ depth = 0 /\ held = FALSE /\ admitted = 0
    /\ begun = FALSE /\ work = None /\ save = None /\ usable = FALSE
    /\ got = {} /\ acked = {} /\ gone = 0 /\ failures = 0

(***************************************************************************)
(* WriteLock.                                                              *)
(***************************************************************************)

\* Mutant of LockOpen: the lock is not asked.
Mut_LockUnasked(t) == TRUE

\* acquire: another thread waits for the RLock; the thread of an open block
\* gets through only inside admit, and is otherwise refused.
LockOpen(t) == owner = {} \/ (owner = {t} /\ (held => admitted > 0))

Acquire(t) == LockOpen(t) /\ owner' = {t} /\ depth' = depth + 1

\* Mutant of Release: inside a block the lock is not given back.
Mut_ReleaseHeld(t) == IF held THEN UNCHANGED <<depth, owner>> ELSE depth' = depth - 1 /\ owner' = {}

\* __exit__ of the RLock.
Release(t) == depth' = depth - 1 /\ owner' = IF depth = 1 THEN {} ELSE owner

(***************************************************************************)
(* A plain append: Buffer.append without tx, in SqliteBackend.write.       *)
(***************************************************************************)

\* _writable takes the lock ...
EnterWrite(t, label) ==
    /\ pc[t] = "idle"
    /\ Acquire(t)
    /\ Go(t, label)
    /\ UNCHANGED <<tailVars, held, admitted, sqlVars, ghosts, failures>>

\* ... and BEGIN IMMEDIATE starts from what is committed.  It fails if the
\* other process keeps the file locked beyond the busy timeout.
Begin(t, from, next) ==
    /\ pc[t] = from
    /\ \/ /\ ~begun /\ begun' = TRUE /\ work' = Committed
          /\ Go(t, next) /\ UNCHANGED failures
       \/ /\ Fail /\ Go(t, "exit") /\ UNCHANGED <<begun, work>>
    /\ UNCHANGED <<tailVars, lockVars, save, usable, ghosts>>

Inserted(w, k) == [seq |-> w.seq + k, buffer |-> w.buffer \cup (w.seq + 1 .. w.seq + k)]

PlainInsert(t, k) ==
    /\ pc[t] = "insert"
    /\ work.seq + k <= MaxOffset
    /\ work' = Inserted(work, k)
    /\ Go(t, "commit")
    /\ UNCHANGED <<tailVars, lockVars, begun, save, usable, ghosts, failures>>

Commit == seq' = work.seq /\ buffer' = work.buffer /\ begun' = FALSE /\ work' = None
Rollback == begun' = FALSE /\ work' = None /\ UNCHANGED <<seq, buffer>>

\* COMMIT, and the offsets are returned; or it raises and is rolled back.
PlainCommit(t) ==
    /\ pc[t] = "commit"
    /\ \/ /\ Commit
          /\ acked' = acked \cup (work.buffer \ buffer)
          /\ UNCHANGED failures
       \/ Fail /\ Rollback /\ UNCHANGED acked
    /\ Go(t, "exit")
    /\ UNCHANGED <<cache, lockVars, save, usable, got, gone>>

ExitWrite(t) ==
    /\ pc[t] = "exit"
    /\ Release(t)
    /\ Go(t, "idle")
    /\ UNCHANGED <<tailVars, held, admitted, sqlVars, ghosts, failures>>

(***************************************************************************)
(* A block: Buffer.transaction.                                            *)
(***************************************************************************)

\* caller_transaction holds the lock once more, to the end of the block.
Hold(t) ==
    /\ pc[t] = "hold"
    /\ Acquire(t)
    /\ held' = TRUE /\ usable' = TRUE /\ got' = {}
    /\ Go(t, "block")
    /\ UNCHANGED <<tailVars, admitted, begun, work, save, acked, gone, failures>>

\* Mutant of Check: the connection is not asked if its transaction still lives.
Mut_CheckOpenOnly == usable

\* SqliteTransaction.check, before and after every statement.
Check == usable /\ begun

\* A statement of the block ends with SQLite rolling the transaction back (a
\* full disk).  check raises, and the block's code may catch that and go on.
SqliteRollsBack(t) ==
    /\ pc[t] = "block" /\ Check
    /\ Fail
    /\ Rollback
    /\ UNCHANGED <<cache, pc, lockVars, save, usable, ghosts>>

\* append(tx=...): joined checks, is admitted and sets a savepoint; outside a
\* transaction a savepoint would begin one of its own.
JoinedAppend(t, k) ==
    LET view == IF begun THEN work ELSE Committed
    IN  /\ pc[t] = "block" /\ Check
        /\ view.seq + k <= MaxOffset
        /\ admitted' = admitted + 1
        /\ owner = {t} /\ depth' = depth + 1
        /\ save' = view
        /\ work' = Inserted(view, k)
        /\ Go(t, "joined")
        /\ UNCHANGED <<tailVars, owner, held, begun, usable, ghosts, failures>>

\* The savepoint is released: into the transaction, or else to disk.
Accepted ==
    /\ got' = got \cup (work.buffer \ save.buffer)
    /\ IF begun THEN UNCHANGED <<seq, buffer, begun, work>> ELSE Commit

\* A refused row rolls back to the savepoint and leaves the block open.
Refused == work' = save /\ UNCHANGED <<got, seq, buffer, begun>>

\* The append ends, is refused, or finds the transaction rolled back under it.
JoinedDone(t) ==
    /\ pc[t] = "joined"
    /\ \/ Accepted /\ UNCHANGED failures
       \/ Fail /\ (Refused \/ (Rollback /\ UNCHANGED got))
    /\ save' = None
    /\ admitted' = admitted - 1
    /\ Release(t)
    /\ Go(t, "block")
    /\ UNCHANGED <<cache, held, usable, acked, gone>>

\* The block ends: check, COMMIT; or its code, the check or the COMMIT raises.
EndBlock(t) ==
    /\ pc[t] = "block"
    /\ \/ Check /\ Commit /\ acked' = acked \cup got /\ UNCHANGED failures
       \/ (Fail \/ (~Check /\ UNCHANGED failures)) /\ Rollback /\ UNCHANGED acked
    /\ Go(t, "close")
    /\ UNCHANGED <<cache, lockVars, save, usable, got, gone>>

\* write's lock first, then SqliteTransaction.close and hold's.
Close(t) ==
    /\ pc[t] = "close"
    /\ Release(t)
    /\ Go(t, "unhold")
    /\ UNCHANGED <<tailVars, held, admitted, sqlVars, ghosts, failures>>

Unhold(t) ==
    /\ pc[t] = "unhold"
    /\ held' = FALSE /\ admitted' = 0 /\ usable' = FALSE /\ got' = {}
    /\ Release(t)
    /\ Go(t, "idle")
    /\ UNCHANGED <<tailVars, begun, work, save, acked, gone, failures>>

ThreadStep(t) ==
    \/ EnterWrite(t, "begin") \/ Begin(t, "begin", "insert")
    \/ \E k \in 0..MaxBatch : PlainInsert(t, k)
    \/ PlainCommit(t) \/ ExitWrite(t)
    \/ EnterWrite(t, "beginBlock") \/ Begin(t, "beginBlock", "hold") \/ Hold(t)
    \/ SqliteRollsBack(t) \/ (\E k \in 1..MaxBatch : JoinedAppend(t, k)) \/ JoinedDone(t)
    \/ EndBlock(t) \/ Close(t) \/ Unhold(t)

(***************************************************************************)
(* Another process, and readers of the tail.                               *)
(***************************************************************************)

\* SQLite lets one connection write at a time: the others wait at BEGIN.
OtherAppend(k) ==
    /\ ~begun
    /\ AppendRows(k)
    /\ acked' = acked \cup (seq + 1 .. seq + k)
    /\ UNCHANGED <<cache, pc, lockVars, sqlVars, got, gone, failures>>

OtherReserve(k) ==
    /\ ~begun
    /\ Reserve(k)
    /\ UNCHANGED <<cache, pc, lockVars, sqlVars, ghosts, failures>>

OtherEvict(a, b) ==
    /\ ~begun
    /\ buffer # {} /\ a < b /\ b > gone
    /\ EvictRows(a, b)
    /\ gone' = b
    /\ UNCHANGED <<cache, pc, lockVars, sqlVars, got, acked, failures>>

ReadTail(start) ==
    /\ RowsFrom(start)
    /\ UNCHANGED <<pc, lockVars, sqlVars, ghosts, failures>>

Next ==
    \/ \E t \in Threads : ThreadStep(t)
    \/ \E k \in 1..MaxBatch : OtherAppend(k) \/ OtherReserve(k)
    \/ \E a, b \in 1..seq + 1 : OtherEvict(a, b)
    \/ \E start \in 0..seq + 1 : ReadTail(start)

Spec == Init /\ [][Next]_vars

\* A thread inside a call goes on, and a block's code ends.
Inside(t) == pc[t] # "idle" /\ ThreadStep(t)
Ends(t) == EndBlock(t)
FairSpec == Spec /\ \A t \in Threads : WF_vars(Inside(t)) /\ SF_vars(Ends(t))

-----------------------------------------------------------------------------

TransactionTypeOK ==
    /\ TailTypeOK
    /\ pc \in [Threads -> {"idle", "begin", "insert", "commit", "exit", "beginBlock", "hold",
                           "block", "joined", "close", "unhold"}]
    /\ owner \subseteq Threads /\ depth \in 0..3 /\ admitted \in 0..1
    /\ acked \subseteq 1..seq

\* What an append or a block returned is in the log: no thread's rows go with
\* a transaction that another thread rolls back.
AckedDurable == \A o \in acked : o >= gone => o \in buffer

\* A block is all or nothing: no row reaches the log but with the block, or
\* the append, that returned it, though SQLite may have ended the transaction
\* in the middle of the block.
NothingAlone == buffer \subseteq acked

\* Whoever waits for the lock sees it free again and again.
LockComesFree == []<>(owner = {})

=============================================================================
