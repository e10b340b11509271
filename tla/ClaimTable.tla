----------------------------- MODULE ClaimTable -----------------------------
(***************************************************************************)
(* The `claim` table of buffer.db as operators on a set of rows: one       *)
(* operator for each statement that Claim (_claim.py) runs in a single     *)
(* SQLite write transaction.  A row is a record with the owner's fresh     *)
(* identity, the expiry stamp and the half-open range [start, end).  The   *)
(* row's integer id is left out: it is only ever used together with the    *)
(* owner, and an owner inserts one row.  `kind` and `rel_path` are written *)
(* for the operator of the log and read by nothing.                        *)
(***************************************************************************)
EXTENDS Integers

\* [a, b) and [c, d) overlap exactly when a < d and b > c.
Overlap(r, d) == r.start < d.end /\ r.end > d.start

\* Mutant of Clash: only a row inside the range asked for refuses it.
Mut_ClashContained(rows, owner, d, now) ==
    \E r \in rows : r.expires > now /\ r.owner # owner /\ r.start >= d.start /\ r.end <= d.end

\* acquire's SELECT: a row of another owner that has not expired at `now`
\* and overlaps the range asked for refuses it.
Clash(rows, owner, d, now) ==
    \E r \in rows : r.expires > now /\ r.owner # owner /\ Overlap(r, d)

\* Mutants of Swept: expired rows are left behind; off by one at the stamp.
Mut_SweptNothing(rows, d, now) == rows
Mut_SweptLater(rows, d, now) == {r \in rows : ~(r.expires < now /\ Overlap(r, d))}

\* acquire's DELETE: expired rows go only where they overlap, whoever owns them.
Swept(rows, d, now) ==
    {r \in rows : ~(r.expires <= now /\ Overlap(r, d))}

\* acquire's DELETE and INSERT, in the transaction of the check.
Acquired(rows, owner, d, now, ttl) ==
    Swept(rows, d, now)
        \cup {[owner |-> owner, expires |-> now + ttl, start |-> d.start, end |-> d.end]}

\* The row renew and release look for: the holder finds out that it lost the
\* range by finding no row.
HasRow(rows, owner) == \E r \in rows : r.owner = owner

\* renew's UPDATE.  There is no test of the old stamp: an expired row that
\* nobody took renews.
Renewed(rows, owner, now, ttl) ==
    {IF r.owner = owner THEN [r EXCEPT !.expires = now + ttl] ELSE r : r \in rows}

\* release's DELETE, and the cleanup after a failed acknowledgement.
Released(rows, owner) == {r \in rows : r.owner # owner}

=============================================================================
