--------------------------------- MODULE Log ---------------------------------
(***************************************************************************)
(* What a log promises whoever reads it, whatever tiers it is kept in.     *)
(* `served` says how many times a read of the whole log returns each       *)
(* offset, Gone for one whose row was cut off.  Rows come into view in     *)
(* batches, above every row in view before; a row in view stays in view,   *)
(* once, unless the log may be cut, and then it goes with all below it and *)
(* never comes back.                                                       *)
(***************************************************************************)
EXTENDS Integers

CONSTANT Offsets
VARIABLE served

Gone == -1
Seen == {o \in Offsets : served[o] # 0}

LogInit == served = [o \in Offsets |-> 0]

\* A batch of rows comes into view, all issued above everything seen before.
LogNext ==
    LET new == {o \in Offsets : served'[o] # served[o]}
    IN  /\ \A o \in new, p \in Seen : o > p
        /\ served' = [o \in Offsets |-> IF o \in new THEN 1 ELSE served[o]]

\* The log is cut below an offset.
LogCut ==
    \E b \in Offsets :
        served' = [o \in Offsets |-> IF o <= b /\ o \in Seen THEN Gone ELSE served[o]]

LogSpec == LogInit /\ [][LogNext]_served
CutLogSpec == LogInit /\ [][LogNext \/ LogCut]_served

=============================================================================
