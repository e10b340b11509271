------------------------------- MODULE Retired -------------------------------
(***************************************************************************)
(* What may still be done to a log once it is retired (_retired.py), from  *)
(* its published prefix alone and by one caller at a time: cut its history *)
(* once more, with the files deleted at once, and delete it altogether.    *)
(* Both delete before they forget, so that a call that dies is resumed by  *)
(* the next.                                                               *)
(***************************************************************************)
EXTENDS Retire

VARIABLES
    past,     \* data files that only superseded snapshots name
    disk,     \* data files under the prefix
    objects,  \* everything under the prefix, as delete tells it apart
    dpc       \* what the truncate or the delete does next

kept == <<past, disk, objects, dpc>>
rvars == <<vars, kept>>

\* Two objects that say nothing of the retirement, a superseded metadata.json,
\* version-hint.text and the metadata.json that it names.
Objects == {"data1", "data2", "superseded", "hint", "current"}

RetiredInit == Init /\ past = {} /\ disk = {} /\ objects = {} /\ dpc = "live"

\* Files that a swap took out of the published table: single rows of larger ones.
SwappedOut == {FileOf({o}) : o \in Rows(published)} \ published

\* The log is retired: the expiry and the drains of its last steps left the
\* files of the current snapshot, and of those within the retention.
RetiredBegin ==
    /\ dpc = "live" /\ empty
    /\ \E old \in SUBSET SwappedOut : past' = old /\ disk' = published \cup old
    /\ objects' = Objects /\ dpc' = "idle"
    /\ UNCHANGED vars

\* One commit drops the files below the floor, if there are any.
CutRetired(below) ==
    /\ dpc = "idle" /\ objects = Objects /\ truncates < MaxTruncates
    /\ LET gone == {f \in published : f.end <= Snapped(published, below)}
       IN  published' = published \ gone /\ past' = past \cup gone
    /\ truncates' = truncates + 1 /\ asked' = Max({asked, below})
    /\ dpc' = "remove"
    /\ UNCHANGED <<seq, cut, buffer, staging, meta, closed, holder, tpc, floor, cleared, retiring,
                   failures, disk, objects>>

\* Mutant of RemovePast: the snapshots expire before their files go.
Mut_ExpireFirst ==
    /\ dpc = "remove"
    /\ past' = {}
    /\ dpc' = "expire"
    /\ UNCHANGED <<vars, disk, objects>>

\* _clean: what only the snapshots to be expired name is deleted ...
RemovePast ==
    /\ dpc = "remove"
    /\ disk' = disk \ past
    /\ dpc' = "expire"
    /\ UNCHANGED <<vars, past, objects>>

\* ... and then they expire.
ExpirePast ==
    /\ dpc = "expire"
    /\ past' = {} /\ dpc' = "idle"
    /\ UNCHANGED <<vars, disk, objects>>

\* Whether what is left says that the log is retired: the metadata the hint
\* names, or, with no hint, the newest of nothing but metadata.json files.
SaysRetired ==
    /\ "current" \in objects
    /\ "hint" \in objects \/ objects \subseteq {"current", "superseded"}

DeleteBegin ==
    /\ dpc = "idle" /\ SaysRetired
    /\ dpc' = "delete"
    /\ UNCHANGED <<vars, past, disk, objects>>

\* Many at a time, in any order: first all that says nothing of it, then the
\* superseded metadata.
DeleteOther ==
    /\ dpc = "delete"
    /\ \/ \E x \in objects \cap {"data1", "data2"} : objects' = objects \ {x} /\ UNCHANGED dpc
       \/ /\ objects \cap {"data1", "data2"} = {}
          /\ objects' = objects \ {"superseded"} /\ dpc' = "hint"
    /\ disk' = {}
    /\ UNCHANGED <<vars, past>>

\* Mutant of DeleteHint: the metadata.json goes before the hint that names it.
Mut_DeleteCurrentFirst ==
    /\ dpc = "hint"
    /\ objects' = objects \ {"current"} /\ dpc' = "last"
    /\ UNCHANGED <<vars, past, disk>>

DeleteHint ==
    /\ dpc = "hint"
    /\ objects' = objects \ {"hint"} /\ dpc' = "last"
    /\ UNCHANGED <<vars, past, disk>>

DeleteLast ==
    /\ dpc = "last"
    /\ objects' = {} /\ dpc' = "gone"
    /\ UNCHANGED <<vars, past, disk>>

RetiredStop ==
    /\ dpc \notin {"live", "idle", "gone"} /\ failures < MaxFailures
    /\ failures' = failures + 1
    /\ dpc' = "idle"
    /\ UNCHANGED <<tvars, truncating, retiring, past, disk, objects>>

RetiredNext ==
    \/ dpc = "live" /\ Next /\ UNCHANGED kept
    \/ RetiredBegin
    \/ \E below \in 1..MaxOffset + 1 : CutRetired(below)
    \/ RemovePast \/ ExpirePast
    \/ DeleteBegin \/ DeleteOther \/ DeleteHint \/ DeleteLast
    \/ RetiredStop

\* The fairness of module Retire: who has begun goes on, and calls again.
RetiredSpec ==
    /\ RetiredInit
    /\ [][RetiredNext]_rvars
    /\ WF_rvars(dpc = "live" /\ Truncate /\ UNCHANGED kept)
    /\ WF_rvars(dpc = "live" /\ Resume /\ UNCHANGED kept)
    /\ WF_rvars(dpc = "live" /\ closed # 0 /\ RetireClose /\ UNCHANGED kept)

-----------------------------------------------------------------------------

\* "A crash between the two leaves them named": no data file outlives the
\* last snapshot that names it, and none that is live is deleted.
RetiredFilesNamed ==
    dpc # "live" /\ objects = Objects => published \subseteq disk /\ disk \subseteq published \cup past

\* "A crash at any point leaves enough to say so": what a delete has left is
\* never refused by the next one, until nothing is left.
DeleteResumes == dpc # "live" /\ objects # {} => SaysRetired

=============================================================================
