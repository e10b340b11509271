---------------------------- MODULE Ingest_proofs ----------------------------
(***************************************************************************)
(* That a load loses no file and hides no row, for every value of the      *)
(* constants.  The argument has two halves.                                *)
(*                                                                         *)
(* Names.  Every Parquet file a load, a seal or a recovery has written is  *)
(* at each step in the table, in the writer's hands or recorded for a      *)
(* drain, and a name that a drain has decided to unlink is none that can   *)
(* still reach the table.  NameInv says so, step of the load by step; it   *)
(* needs nothing of offsets or claims.  It rests on the one timing fact    *)
(* that Due states: a queued name is not due while an attempt may still    *)
(* commit it.                                                              *)
(*                                                                         *)
(* Ranges.  The table's files lie apart, the groups that wait above them,  *)
(* the open group above those; a load has reserved offsets above all three *)
(* and what it has staged reaches exactly up to its last row group.        *)
(* RangeInv says so.  A load past its first check has found nothing        *)
(* waiting, and that stays so only as long as no other process cuts the    *)
(* open group beside it (CutBesideLoad): the theorems about rows assume it.*)
(*                                                                         *)
(* The claims are not part of the argument: a claim may lapse, and be      *)
(* taken over, at any step, and all of this still holds.                   *)
(***************************************************************************)
EXTENDS Ingest, WellFoundedInduction, FiniteSetTheorems, TLAPS

\* A non-empty set of naturals has a least element, and Min picks it.
LEMMA MinOfNaturals ==
    ASSUME NEW S, S \subseteq Nat, S # {}
    PROVE  Min(S) \in S /\ \A y \in S : Min(S) <= y
<1>1. IsWellFoundedOn({p \in Nat \X Nat : p[1] < p[2]}, Nat)
  BY NatLessThanWellFounded, Zenon DEF OpToRel
<1>2. PICK x \in S : \A y \in S : ~(<<y, x>> \in {p \in Nat \X Nat : p[1] < p[2]})
  BY <1>1, WFMin
<1>3. \A y \in S : x <= y
  <2> SUFFICES ASSUME NEW y \in S PROVE x <= y
    OBVIOUS
  <2>1. y \in Nat /\ x \in Nat
    OBVIOUS
  <2>2. ~(y < x)
    BY <1>2, <2>1
  <2> QED
    BY <2>1, <2>2
<1>4. QED
  BY <1>3 DEF Min

\* A non-empty bounded one has a greatest, and Max picks it.
LEMMA MaxOfNaturals ==
    ASSUME NEW S, NEW n \in Nat, S \subseteq 0..n, S # {}
    PROVE  Max(S) \in S /\ \A y \in S : y <= Max(S)
<1>1. PICK T : T = {n - x : x \in S}
  OBVIOUS
<1>2. T \subseteq Nat
  <2> SUFFICES ASSUME NEW x \in S PROVE n - x \in Nat
    BY <1>1
  <2>1. x \in 0..n
    OBVIOUS
  <2> QED
    BY <2>1
<1>a. T # {}
  BY <1>1
<1>3. PICK t \in T : \A u \in T : t <= u
  BY <1>2, <1>a, MinOfNaturals
<1>4. PICK m \in S : t = n - m
  BY <1>1, <1>3
<1>5. \A y \in S : m >= y
  BY <1>1, <1>3, <1>4
<1>6. QED
  BY <1>5 DEF Max

\* What the variables range over.
Files == [path : Nat, start : Nat, end : Nat]
Names == Nat \ {0}
Loads == [owner : Nat, group : {<<>>} \cup (Nat \X Nat), left : Nat, path : Nat, start : Nat,
          end : Nat, staged : Seq(Files), filed : SUBSET Names,
          first : Nat, last : Nat]
Sealers == [owner : Nat, start : Nat, end : Nat, path : Nat]
Rescuers == [owner : Nat, outputs : SUBSET Names, queued : BOOLEAN]

\* An offset in a range, and two ranges with no offset in common.
Holds(f, o) == f.start <= o /\ o < f.end
Apart(f, g) == f.end <= g.start \/ g.end <= f.start

\* The type of the state.
Shapes ==
    /\ seq \in Nat /\ buffer \subseteq 1..seq /\ open \in Nat
    /\ table \subseteq Files /\ extent \subseteq Files /\ sealing \subseteq Files
    /\ disk \subseteq Names /\ queue \subseteq Names /\ compacting \subseteq Names
    /\ doomed \subseteq Names
    /\ load \in Loads /\ sealer \in Sealers /\ rescuer \in Rescuers /\ pc \in PC

\* The writer has given the load up, or is putting it away.
Ended == {"abandon", "declined", "clear", "release"}

\* A file that the table, the batch or a sealer at work refers to is on disk,
\* and no running drain is about to unlink it.
Spared ==
    /\ doomed \subseteq queue
    /\ \A f \in table : f.path \in disk /\ f.path \notin doomed
    /\ \A f \in StagedFiles : f.path \in disk /\ f.path \notin doomed
    /\ sealer.path # 0 => sealer.path \in disk /\ sealer.path \notin doomed
    /\ sealer.owner = 0 <=> sealer.path = 0

\* The file that is being written is recorded under `compacting`, or was already
\* queued by a recovery; it is on disk from its first row group on.
Writing ==
    /\ load.path # 0 => load.path \in compacting \cup queue /\ load.path \notin doomed
    /\ load.path # 0 /\ pc # "write" /\ pc \notin Ended => load.path \in disk
    /\ pc = "write" => load.path # 0
    /\ pc \in {"commit", "register", "record", "unclaim", "loaded"} => load.path = 0

\* Where there is a row group to write, a batch to commit, and what became of
\* the batch once it was committed.
Batched ==
    /\ pc = "write" => load.group # <<>>
    /\ pc \in {"commit", "register", "record", "unclaim"} => load.staged # <<>>
    /\ pc \in {"record", "unclaim"} => StagedFiles \subseteq table
    /\ pc = "loaded" => load.staged = <<>>
    /\ pc = "clear" => StagedPaths \subseteq queue

\* A recovery that has queued its outputs has queued every one that exists or
\* that the writer still writes.
Rescued ==
    rescuer.queued => \A p \in rescuer.outputs : p \in disk \/ p = load.path => p \in queue

\* The `sealing` row names a file, and that of the sealer at work.
Intended ==
    /\ \A i \in sealing : i.path # 0
    /\ sealer.owner # 0 => \A i \in sealing : i.path = sealer.path

\* The names half of the inductive invariant.
NameInv == Shapes /\ Spared /\ Writing /\ Batched /\ Rescued /\ Intended /\ OutputsNamed

\* The table's files are ranges apart from each other, up to the last offset.
Tabled ==
    /\ \A f \in table : 1 <= f.start /\ f.start < f.end /\ f.end <= seq + 1
    /\ \A f, g \in table : f = g \/ Apart(f, g)
    /\ through \in Nat
    /\ through # 0 => \E f \in table : f.end = through + 1

\* The groups that wait hold rows of the buffer, above the table, apart.
Queued ==
    /\ \A g \in Pending : 1 <= g.start /\ g.start < g.end /\ g.end <= seq + 1
    /\ \A g \in Pending : \A o \in Nat : Holds(g, o) => o \in buffer
    /\ \A g \in Pending, f \in table : f.end <= g.start
    /\ \A g, h \in Pending : g = h \/ Apart(g, h)

\* The open group is the end of the buffer, above everything else.
Growing ==
    open # 0 =>
        /\ open <= seq
        /\ \A o \in open..seq : o \in buffer
        /\ \A f \in table : f.end <= open
        /\ \A g \in Pending : g.end <= open

\* An offset in a file of the table, and one in a group still to be sealed.
InTable(o) == \E f \in table : Holds(f, o)
Waiting(o) == (\E g \in Pending : Holds(g, o)) \/ (open # 0 /\ open <= o)

\* Every acknowledged row is in one or the other.
Placed ==
    /\ acked \subseteq 1..seq
    /\ buffer \subseteq acked
    /\ \A o \in acked : InTable(o) \/ Waiting(o)

\* The sealer at work has the lowest group.
Sealing ==
    sealer.owner # 0 =>
        \E g \in Pending :
            /\ g.start = sealer.start /\ g.end = sealer.end
            /\ \A h \in Pending : g.start <= h.start

\* The log as every process sees it.
LogInv == Tabled /\ Queued /\ Growing /\ Placed /\ Sealing

\* The checks before the load, and the load itself.
Checking == {"queued", "sealing", "open"}
Loading == {"reserve", "next", "write", "renew", "commit", "register", "record", "unclaim", "loaded"}

\* Once a check has found nothing there is nothing, and before the load begins
\* nothing is gathered.
Refused ==
    /\ pc \in {"sealing", "open"} \cup Loading => Pending = {}
    /\ pc \in Loading => open = 0
    /\ pc \in Checking =>
          /\ load.group = <<>> /\ load.path = 0 /\ load.staged = <<>>
          /\ load.first = 0 /\ load.last = 0

\* Where what is written so far ends, and where the next row group begins.
Tip == IF load.path # 0 THEN load.end ELSE load.last
Resume == IF pc \notin {"renew", "reserve"} /\ load.group # <<>> THEN load.group[1] ELSE seq + 1

\* The reserved row group ends the log; the open file goes on where the batch ended.
Reserved ==
    pc \in Loading =>
        /\ load.group # <<>> => /\ 1 <= load.group[1] /\ load.group[1] < load.group[2]
                                /\ load.group[2] = seq + 1
        /\ Tip # 0 => Tip = Resume
        /\ load.path # 0 => 1 <= load.start /\ load.start <= load.end
        /\ load.path # 0 /\ pc # "write" => load.start < load.end
        /\ load.path # 0 /\ load.first # 0 => load.last = load.start

\* All that was written lies between first and last, in the table or in the batch.
Gathered ==
    pc \in Loading =>
        /\ load.first = 0 <=> load.last = 0
        /\ load.first <= load.last /\ load.last <= seq + 1
        /\ load.first = 0 => load.staged = <<>>
        /\ \A o \in Nat : load.first # 0 /\ load.first <= o /\ o < load.last
                => InTable(o) \/ \E f \in StagedFiles : Holds(f, o)

\* The batch: files apart, from BatchStart up to the last row group.
Staged ==
    pc \in Loading \ {"record", "unclaim", "loaded"} =>
        /\ \A f \in StagedFiles : 1 <= f.start /\ f.start < f.end /\ f.end <= load.last
        /\ \A f \in StagedFiles : BatchStart <= f.start
        /\ load.staged # <<>> => BatchEnd = load.last
        /\ \A f, g \in StagedFiles : f = g \/ Apart(f, g)

\* What the load knows, and the ranges half of the inductive invariant.
LoadInv == Refused /\ Reserved /\ Gathered /\ Staged
RangeInv == LogInv /\ LoadInv

\* A name that is taken is in use nowhere.
LEMMA FreshPathIsNew ==
    ASSUME Paths \ UsedPaths # {}
    PROVE  /\ FreshPath \in Names
           /\ FreshPath \notin disk /\ FreshPath \notin queue /\ FreshPath \notin compacting
           /\ FreshPath \notin doomed /\ FreshPath \notin rescuer.outputs
           /\ FreshPath # load.path /\ FreshPath # sealer.path
<1>1. PICK S : S = Paths \ UsedPaths
  OBVIOUS
<1>2. S \subseteq Nat /\ S # {}
  BY <1>1, IngestAssumption
<1>3. Min(S) \in S
  BY <1>2, MinOfNaturals
<1>4. FreshPath \in Paths /\ FreshPath \notin UsedPaths
  BY <1>1, <1>3 DEF FreshPath
<1>5. FreshPath \in Names
  BY <1>4, IngestAssumption DEF Names
<1> QED
  BY <1>4, <1>5 DEF UsedPaths

\* A new owner is a name.
LEMMA FreshOwnerIsNew ==
    ASSUME Owners \ UsedOwners # {}
    PROVE  FreshOwner \in Nat /\ FreshOwner # 0
<1>1. PICK S : S = Owners \ UsedOwners
  OBVIOUS
<1>2. S \subseteq Nat /\ S # {}
  BY <1>1, IngestAssumption
<1>3. Min(S) \in S
  BY <1>2, MinOfNaturals
<1> QED
  BY <1>1, <1>3, IngestAssumption DEF FreshOwner

\* The offset that reserve starts from is the last one issued.
LEMMA FloorIsSeq ==
    ASSUME seq \in Nat, buffer \subseteq 1..seq
    PROVE  Floor = seq
<1>1. PICK S : S = {seq} \cup buffer
  OBVIOUS
<1>2. seq \in S /\ \A o \in S : o \in Nat /\ seq >= o
  BY <1>1
<1>3. \A m \in S : (\A o \in S : m >= o) => m = seq
  BY <1>2
<1>4. Floor = CHOOSE m \in S : \A o \in S : m >= o
  BY <1>1 DEF Floor
<1> QED
  BY <1>2, <1>3, <1>4

\* The batch is a sequence of files.
LEMMA StagedType ==
    ASSUME load \in Loads
    PROVE  /\ load.staged \in Seq(Files)
           /\ StagedFiles \subseteq Files
           /\ \A f \in StagedFiles : f.path \in StagedPaths
           /\ \A p \in StagedPaths : \E f \in StagedFiles : f.path = p
<1>1. load.staged \in Seq(Files)
  BY DEF Loads
<1> QED
  BY <1>1 DEF StagedFiles, StagedPaths

\* Its files stay with it,
LEMMA StagedSame ==
    ASSUME load'.staged = load.staged
    PROVE  StagedFiles' = StagedFiles /\ StagedPaths' = StagedPaths
BY DEF StagedFiles, StagedPaths

\* an empty one has none,
LEMMA StagedNone ==
    ASSUME load'.staged = <<>>
    PROVE  StagedFiles' = {} /\ StagedPaths' = {}
BY DEF StagedFiles, StagedPaths

\* a file joins it at its end,
LEMMA StagedGrows ==
    ASSUME load \in Loads, NEW f \in Files, load'.staged = load.staged \o <<f>>
    PROVE  /\ StagedFiles' = StagedFiles \cup {f}
           /\ load'.staged \in Seq(Files)
           /\ load'.staged # <<>>
           /\ load'.staged[Len(load'.staged)] = f
           /\ load'.staged[1] = IF load.staged = <<>> THEN f ELSE load.staged[1]
<1>1. PICK s \in Seq(Files) : s = load.staged
  BY DEF Loads
<1>2. PICK t : t = s \o <<f>>
  OBVIOUS
<1>3. /\ t \in Seq(Files) /\ Len(t) = Len(s) + 1 /\ t[Len(s) + 1] = f
      /\ \A i \in 1..Len(s) : t[i] = s[i]
  BY <1>1, <1>2
<1>4. {t[i] : i \in DOMAIN t} = {s[i] : i \in DOMAIN s} \cup {f}
  <2>1. DOMAIN t = 1..Len(s) + 1 /\ DOMAIN s = 1..Len(s) /\ Len(s) \in Nat
    BY <1>1, <1>3
  <2>2. \A i \in DOMAIN t : t[i] \in {s[k] : k \in DOMAIN s} \cup {f}
    BY <2>1, <1>3
  <2>3. \A i \in DOMAIN s : s[i] = t[i] /\ i \in DOMAIN t
    BY <2>1, <1>3
  <2>4. f = t[Len(s) + 1] /\ Len(s) + 1 \in DOMAIN t
    BY <2>1, <1>3
  <2> QED
    BY <2>2, <2>3, <2>4
<1>5. t # <<>>
  BY <1>1, <1>3
<1>6. t[1] = IF s = <<>> THEN f ELSE s[1]
  BY <1>1, <1>3
<1>7. StagedFiles = {s[i] : i \in DOMAIN s} /\ StagedFiles' = {t[i] : i \in DOMAIN t}
  BY <1>1, <1>2 DEF StagedFiles
<1>8. load'.staged = t
  BY <1>1, <1>2
<1>9. t[Len(t)] = f
  BY <1>1, <1>3
<1> QED
  BY <1>1, <1>3, <1>4, <1>5, <1>6, <1>7, <1>8, <1>9

\* and leaves it at its head.
LEMMA StagedShrinks ==
    ASSUME load \in Loads, load.staged # <<>>, load'.staged = Tail(load.staged)
    PROVE  /\ StagedFiles' \subseteq StagedFiles
           /\ Head(load.staged) \in StagedFiles
           /\ load'.staged \in Seq(Files)
           /\ \A f \in StagedFiles : f \in StagedFiles' \/ f = Head(load.staged)
           /\ load'.staged # <<>> <=> Len(load.staged) > 1
<1>1. PICK s \in Seq(Files) : s = load.staged
  BY DEF Loads
<1>2. PICK t : t = Tail(s)
  OBVIOUS
<1>3. /\ t \in Seq(Files) /\ Len(t) = Len(s) - 1 /\ Len(s) \in Nat /\ Len(s) >= 1
      /\ \A i \in 1..Len(s) - 1 : t[i] = s[i + 1]
      /\ Head(s) = s[1]
  BY <1>1, <1>2
<1>4. DOMAIN t = 1..Len(s) - 1 /\ DOMAIN s = 1..Len(s)
  BY <1>1, <1>3
<1>5. \A i \in DOMAIN t : t[i] \in {s[k] : k \in DOMAIN s}
  <2> SUFFICES ASSUME NEW i \in DOMAIN t PROVE i + 1 \in DOMAIN s /\ t[i] = s[i + 1]
    OBVIOUS
  <2> QED
    BY <1>3, <1>4
<1>6. \A i \in DOMAIN s : s[i] \in {t[k] : k \in DOMAIN t} \/ s[i] = Head(s)
  <2> SUFFICES ASSUME NEW i \in DOMAIN s, i # 1 PROVE i - 1 \in DOMAIN t /\ t[i - 1] = s[i]
    BY <1>3
  <2> QED
    BY <1>3, <1>4
<1>7. 1 \in DOMAIN s
  BY <1>3, <1>4
<1>8. t # <<>> <=> Len(s) > 1
  BY <1>3
<1>9. StagedFiles = {s[i] : i \in DOMAIN s} /\ StagedFiles' = {t[i] : i \in DOMAIN t}
  BY <1>1, <1>2 DEF StagedFiles
<1>a. load'.staged = t
  BY <1>1, <1>2
<1>b. Head(s) \in {s[i] : i \in DOMAIN s}
  BY <1>3, <1>7
<1>c. \A f \in StagedFiles : f \in StagedFiles' \/ f = Head(s)
  BY <1>6, <1>9
<1>d. StagedFiles' \subseteq StagedFiles
  BY <1>5, <1>9
<1> QED
  BY <1>1, <1>3, <1>8, <1>9, <1>a, <1>b, <1>c, <1>d


\* The load keeps its type.
LEMMA LoadShape ==
    ASSUME Shapes, Spared, Batched, LoadStep
    PROVE  load' \in Loads
<1>0. load \in Loads /\ seq \in Nat
  BY DEF Shapes
<1>a. NoLoad \in Loads
  BY DEF NoLoad, Loads
<1>1. CASE StartLoad
  <2>1. FreshOwner \in Nat
    BY <1>1, FreshOwnerIsNew DEF StartLoad
  <2>2. PICK n \in 1..MaxGroups : load' = [NoLoad EXCEPT !.owner = FreshOwner, !.left = n]
    BY <1>1 DEF StartLoad
  <2>3. PICK z \in Loads : z = NoLoad
    BY <1>a
  <2>4. n \in Nat
    BY IngestAssumption
  <2>5. load' = [z EXCEPT !.owner = FreshOwner, !.left = n]
    BY <2>2, <2>3
  <2> QED
    BY <2>1, <2>3, <2>4, <2>5 DEF Loads
<1>2. CASE NextGroup
  <2>1. Floor = seq
    BY FloorIsSeq DEF Shapes
  <2>2. CASE load.left = 0
    <3>1. PICK g : g = <<>>
      OBVIOUS
    <3>2. load' = [load EXCEPT !.group = g]
      BY <1>2, <2>2, <3>1 DEF NextGroup
    <3>3. g \in {<<>>} \cup (Nat \X Nat)
      BY <3>1
    <3> QED
      BY <1>0, <3>2, <3>3 DEF Loads
  <2>3. CASE load.left # 0
    <3>1. PICK n \in 1..MaxBatch :
            load' = [load EXCEPT !.group = <<Floor + 1, Floor + n + 1>>, !.left = @ - 1]
      BY <1>2, <2>3 DEF NextGroup
    <3>2. PICK g : g = <<Floor + 1, Floor + n + 1>>
      OBVIOUS
    <3>3. g \in Nat \X Nat
      BY <1>0, <2>1, <3>2, RowsAssumption
    <3>4. load.left - 1 \in Nat
      BY <1>0, <2>3 DEF Loads
    <3> QED
      BY <1>0, <3>1, <3>2, <3>3, <3>4 DEF Loads
  <2> QED
    BY <2>2, <2>3
<1>3. CASE OpenFile
  <2>1. FreshPath \in Nat
    BY <1>3, FreshPathIsNew DEF OpenFile, Names
  <2>2. load.group \in Nat \X Nat
    BY <1>0, <1>3 DEF OpenFile, Loads
  <2>3. load.group[1] \in Nat
    BY <2>2
  <2> QED
    BY <1>0, <1>3, <2>1, <2>3 DEF OpenFile, Loads
<1>4. CASE WriteGroup
  <2>2. load.group \in Nat \X Nat
    BY <1>0, <1>4 DEF Loads, WriteGroup, Batched
  <2>3. load.group[2] \in Nat
    BY <2>2
  <2> QED
    BY <1>0, <1>4, <2>3 DEF WriteGroup, Loads
<1>5. CASE CloseFile
  <2>1. PICK f : f = [path |-> load.path, start |-> load.start, end |-> load.end]
    OBVIOUS
  <2>2. f \in Files
    BY <1>0, <2>1 DEF Loads, Files
  <2>3. PICK t : t = load.staged \o <<f>>
    OBVIOUS
  <2>4. t \in Seq(Files)
    BY <1>0, <2>2, <2>3 DEF Loads
  <2>5. load' = [load EXCEPT !.path = 0, !.staged = t,
                             !.first = IF @ = 0 THEN load.start ELSE @, !.last = load.end]
    BY <1>5, <2>1, <2>3 DEF CloseFile
  <2> QED
    BY <1>0, <2>4, <2>5 DEF Loads
<1>6. CASE UnclaimFile
  <2>1. PICK t : t = Tail(load.staged)
    OBVIOUS
  <2>2. t \in Seq(Files)
    BY <1>0, <1>6, <2>1 DEF Loads, UnclaimFile, Batched
  <2>3. PICK p : p = Head(load.staged).path
    OBVIOUS
  <2>4. p \in Names
    <3>1. Head(load.staged) \in StagedFiles
      BY <1>0, <1>6 DEF Loads, UnclaimFile, Batched, StagedFiles
    <3> QED
      BY <2>3, <3>1 DEF Spared, Shapes
  <2>5. PICK u : u = IF Len(load.staged) > 1 THEN load.filed \cup {p} ELSE {}
    OBVIOUS
  <2>6. u \in SUBSET Names
    BY <1>0, <2>4, <2>5 DEF Loads
  <2>7. load' = [load EXCEPT !.staged = t, !.filed = u]
    BY <1>6, <2>1, <2>3, <2>5 DEF UnclaimFile
  <2> QED
    BY <1>0, <2>2, <2>6, <2>7 DEF Loads
<1>7. CASE ReleaseLoad \/ KillLoad
  BY <1>7, <1>a DEF ReleaseLoad, KillLoad
<1>8. CASE UNCHANGED load
  BY <1>0, <1>8
<1> QED
  BY <1>1, <1>2, <1>3, <1>4, <1>5, <1>6, <1>7, <1>8
     DEF LoadStep, RefuseQueued, RefuseSealing, RefuseOpen, Refuse, GrowFile, RenewGroup, Checkpoint,
         RenewCommit, RegisterBatch, RecordFile, Loaded, FailLoad, Abandon, ClearAbandoned


\* So do the rows and the groups,
LEMMA RowShape ==
    ASSUME Shapes, Next
    PROVE  seq' \in Nat /\ buffer' \subseteq 1..seq' /\ open' \in Nat
<1>0. seq \in Nat /\ buffer \subseteq 1..seq /\ open \in Nat
  BY DEF Shapes
<1>1. ASSUME NEW k \in 1..MaxBatch, Extend(k)
      PROVE  seq' \in Nat /\ buffer' \subseteq 1..seq' /\ open' \in Nat
  <2>1. k \in Nat
    BY <1>1, RowsAssumption
  <2>2. seq' = seq + k /\ buffer' = buffer \cup (seq + 1 .. seq + k)
    BY <1>1 DEF Extend, AppendRows
  <2>3. open' \in {0, open, seq + 1}
    BY <1>1 DEF Extend
  <2>4. open' \in Nat
    BY <1>0, <2>3
  <2> QED
    BY <1>0, <2>1, <2>2, <2>4
<1>2. CASE NextGroup
  <2>1. Floor = seq
    BY <1>0, FloorIsSeq
  <2>2. open' = open /\ buffer' = buffer
    BY <1>2 DEF NextGroup, Reserve, rest
  <2>3. seq' = seq \/ \E n \in 1..MaxBatch : seq' = seq + n
    BY <1>2, <2>1 DEF NextGroup, Reserve
  <2> QED
    BY <1>0, <2>2, <2>3, RowsAssumption
<1>3. CASE EvictBuffer
  BY <1>0, <1>3 DEF EvictBuffer, EvictRows, rest
<1>4. CASE CloseOpenGroup
  BY <1>0, <1>4 DEF CloseOpenGroup, rows
<1>5. CASE UNCHANGED <<seq, buffer, open>>
  BY <1>0, <1>5
<1> QED
  BY <1>1, <1>2, <1>3, <1>4, <1>5
     DEF Next, LoadStep, OtherStep, StartLoad, RefuseQueued, RefuseSealing, RefuseOpen, Refuse, OpenFile,
         GrowFile, WriteGroup, RenewGroup, Checkpoint, CloseFile, RenewCommit, RegisterBatch, RecordFile,
         UnclaimFile, Loaded, FailLoad, Abandon, ClearAbandoned, ReleaseLoad, KillLoad,
         SealBegin, SealLost, SealEnd, RecoverRead, RecoverQueue, RecoverClear, Publish, DrainLook,
         DrainUnlink, Lapse, rows, rest

\* A group that SealBegin may pick is there.
LEMMA PickedGroup ==
    ASSUME Shapes, Pending # {}
    PROVE  \E g \in Pending :
             /\ \A h \in Pending : g.start <= h.start
             /\ g = CHOOSE x \in Pending : \A h \in Pending : x.start <= h.start
<1>1. PICK S : S = {g.start : g \in Pending}
  OBVIOUS
<1>2. S \subseteq Nat /\ S # {}
  BY <1>1 DEF Shapes, Pending, Files
<1>3. PICK m \in S : \A y \in S : m <= y
  BY <1>2, MinOfNaturals
<1>4. \E g \in Pending : \A h \in Pending : g.start <= h.start
  BY <1>1, <1>3
<1> QED
  BY <1>4

\* the table's files and the extents,
LEMMA FileShape ==
    ASSUME Shapes, Batched, Next
    PROVE  table' \subseteq Files /\ extent' \subseteq Files /\ sealing' \subseteq Files
<1>0. table \subseteq Files /\ extent \subseteq Files /\ sealing \subseteq Files /\ load \in Loads
  BY DEF Shapes
<1>a. StagedFiles \subseteq Files
  BY <1>0, StagedType
<1>1. ASSUME NEW k \in 1..MaxBatch, Extend(k)
      PROVE  extent' \subseteq Files /\ UNCHANGED <<table, sealing>>
  <2>1. k \in Nat
    BY <1>1, RowsAssumption
  <2>2. PICK a \in Nat : a = IF open = 0 THEN seq + 1 ELSE open
    BY DEF Shapes
  <2>3. PICK b \in Nat : b = seq + k + 1
    BY <2>1 DEF Shapes
  <2>4. extent' \subseteq extent \cup {[start |-> a, end |-> b, path |-> 0]}
    BY <1>1, <2>2, <2>3 DEF Extend
  <2>5. [start |-> a, end |-> b, path |-> 0] \in Files
    BY DEF Files
  <2> QED
    BY <1>0, <1>1, <2>4, <2>5 DEF Extend
<1>2. CASE CloseOpenGroup
  <2>1. buffer # {} /\ buffer \subseteq 0..seq /\ seq \in Nat
    BY <1>2 DEF CloseOpenGroup, From, Shapes
  <2>2. Max(buffer) \in buffer
    BY <2>1, MaxOfNaturals
  <2>a. PICK m \in 0..seq : m = Max(buffer)
    BY <2>1, <2>2
  <2>3. PICK b \in Nat : b = Max(buffer) + 1
    BY <2>1, <2>a
  <2>4. [start |-> open, end |-> b, path |-> 0] \in Files
    BY DEF Files, Shapes
  <2> QED
    BY <1>0, <1>2, <2>3, <2>4 DEF CloseOpenGroup
<1>3. CASE RecordFile
  <2>1. Head(load.staged) \in Files
    BY <1>0, <1>3 DEF RecordFile, Batched, Loads
  <2> QED
    BY <1>0, <1>3, <2>1 DEF RecordFile
<1>4. CASE RegisterBatch \/ FailLoad
  BY <1>0, <1>a, <1>4 DEF RegisterBatch, FailLoad
<1>5. CASE SealBegin
  <2>1. PICK g \in Pending : g = CHOOSE x \in Pending : \A h \in Pending : x.start <= h.start
    BY <1>5, PickedGroup DEF SealBegin
  <2>2. FreshPath \in Nat
    BY <1>5, FreshPathIsNew DEF SealBegin, Names
  <2>3. g \in Files
    BY <1>0 DEF Pending
  <2>4. [g EXCEPT !.path = FreshPath] \in Files
    BY <2>2, <2>3 DEF Files
  <2>5. sealing' = {[g EXCEPT !.path = FreshPath]}
    BY <1>5, <2>1 DEF SealBegin
  <2>6. UNCHANGED <<table, extent>>
    BY <1>5 DEF SealBegin
  <2> QED
    BY <1>0, <2>4, <2>5, <2>6
<1>6. CASE SealEnd
  <2>1. PICK f : f = [path |-> sealer.path, start |-> sealer.start, end |-> sealer.end]
    OBVIOUS
  <2>2. f \in Files
    BY <2>1 DEF Shapes, Sealers, Files
  <2>3. table' \subseteq table \cup {f} /\ extent' \subseteq extent \cup {f} /\ sealing' = {}
    BY <1>6, <2>1 DEF SealEnd
  <2> QED
    BY <1>0, <2>2, <2>3
<1>7. CASE DrainUnlink
  BY <1>0, <1>7 DEF DrainUnlink
<1>8. CASE UNCHANGED <<table, extent, sealing>>
  BY <1>0, <1>8
<1> QED
  BY <1>0, <1>1, <1>2, <1>3, <1>4, <1>5, <1>6, <1>7, <1>8
     DEF Next, LoadStep, OtherStep, StartLoad, RefuseQueued, RefuseSealing, RefuseOpen, Refuse, OpenFile,
         GrowFile, WriteGroup, RenewGroup, Checkpoint, CloseFile, RenewCommit, NextGroup,
         UnclaimFile, Loaded, Abandon, ClearAbandoned, ReleaseLoad, KillLoad,
         SealLost, RecoverRead, RecoverQueue, RecoverClear, Publish, EvictBuffer, DrainLook, Lapse, rest


\* the names,
LEMMA NameShape ==
    ASSUME Shapes, Spared, Writing, Intended, Next
    PROVE  /\ disk' \subseteq Names /\ queue' \subseteq Names
           /\ compacting' \subseteq Names /\ doomed' \subseteq Names
<1>0. disk \subseteq Names /\ queue \subseteq Names /\ compacting \subseteq Names /\ doomed \subseteq Names
  BY DEF Shapes
<1>a. StagedPaths \subseteq Names /\ load.filed \subseteq Names
  BY <1>0, StagedType DEF Shapes, Spared, Loads
<1>b. pc = "write" => load.path \in Names
  BY DEF Shapes, Writing, Loads, Names
<1>c. sealer.owner # 0 => sealer.path \in Names
  BY <1>0 DEF Spared
<1>d. rescuer.outputs \subseteq Names
  BY DEF Shapes, Rescuers
<1>1. CASE OpenFile
  BY <1>0, <1>1, FreshPathIsNew DEF OpenFile
<1>2. CASE WriteGroup \/ FailLoad
  BY <1>0, <1>b, <1>2 DEF WriteGroup, FailLoad
<1>3. CASE Abandon \/ ClearAbandoned \/ UnclaimFile
  BY <1>0, <1>a, <1>3 DEF Abandon, ClearAbandoned, UnclaimFile
<1>4. CASE SealBegin
  <2>1. FreshPath \in Names
    BY <1>4, FreshPathIsNew DEF SealBegin
  <2>2. \A i \in sealing : i.path \in Names
    BY DEF Shapes, Files, Intended, Names
  <2>3. queue' = queue \cup {i.path : i \in sealing} /\ disk' = disk \cup {FreshPath}
    BY <1>4 DEF SealBegin
  <2> QED
    BY <1>0, <2>1, <2>2, <2>3, <1>4 DEF SealBegin
<1>5. CASE SealLost \/ SealEnd
  BY <1>0, <1>c, <1>5 DEF SealLost, SealEnd
<1>6. CASE RecoverQueue \/ RecoverClear
  BY <1>0, <1>d, <1>6 DEF RecoverQueue, RecoverClear
<1>7. CASE DrainLook \/ DrainUnlink
  BY <1>0, <1>7 DEF DrainLook, DrainUnlink
<1>8. CASE UNCHANGED <<disk, queue, compacting, doomed>>
  BY <1>0, <1>8
<1> QED
  BY <1>0, <1>1, <1>2, <1>3, <1>4, <1>5, <1>6, <1>7, <1>8
     DEF Next, LoadStep, OtherStep, Extend, StartLoad, RefuseQueued, RefuseSealing, RefuseOpen, Refuse,
         GrowFile, RenewGroup, Checkpoint, CloseFile, RenewCommit, NextGroup, CloseOpenGroup, RecordFile,
         RegisterBatch, Loaded, ReleaseLoad, KillLoad, RecoverRead, Publish, EvictBuffer, Lapse, rest

\* the sealer and the recovery.
LEMMA ActorShape ==
    ASSUME Shapes, Next
    PROVE  sealer' \in Sealers /\ rescuer' \in Rescuers /\ pc' \in PC
<1>0. sealer \in Sealers /\ rescuer \in Rescuers /\ pc \in PC
  BY DEF Shapes
<1>1. NoSealer \in Sealers
  BY DEF NoSealer, Sealers
<1>2. NoRescuer \in Rescuers
  BY DEF NoRescuer, Rescuers
<1>3. sealer' \in Sealers
  <2>1. CASE SealBegin
    <3>1. PICK g \in Pending : g = CHOOSE x \in Pending : \A h \in Pending : x.start <= h.start
      BY <2>1, PickedGroup DEF SealBegin
    <3>2. g \in Files
      BY DEF Pending, Shapes
    <3>3. FreshPath \in Nat /\ FreshOwner \in Nat
      BY <2>1, FreshPathIsNew, FreshOwnerIsNew DEF SealBegin, Names
    <3>4. sealer' = [owner |-> FreshOwner, start |-> g.start, end |-> g.end, path |-> FreshPath]
      BY <2>1, <3>1 DEF SealBegin
    <3> QED
      BY <3>2, <3>3, <3>4 DEF Files, Sealers
  <2>2. CASE sealer' \in {sealer, NoSealer}
    BY <1>0, <1>1, <2>2
  <2> QED
    BY <2>1, <2>2
       DEF Next, LoadStep, OtherStep, Extend, StartLoad, RefuseQueued, RefuseSealing, RefuseOpen, Refuse,
           OpenFile, GrowFile, WriteGroup, RenewGroup, Checkpoint, CloseFile, RenewCommit, NextGroup,
           RecordFile, UnclaimFile, RegisterBatch, Loaded, FailLoad, Abandon, ClearAbandoned, ReleaseLoad,
           KillLoad, CloseOpenGroup, SealLost, SealEnd, RecoverRead, RecoverQueue, RecoverClear, Publish,
           EvictBuffer, DrainLook, DrainUnlink, Lapse, others
<1>4. rescuer' \in Rescuers
  <2>1. CASE RecoverRead
    <3>1. FreshOwner \in Nat
      BY <2>1, FreshOwnerIsNew DEF RecoverRead
    <3>2. compacting \subseteq Names
      BY DEF Shapes
    <3>3. rescuer' = [owner |-> FreshOwner, outputs |-> compacting, queued |-> FALSE]
      BY <2>1 DEF RecoverRead
    <3> QED
      BY <3>1, <3>2, <3>3 DEF Rescuers
  <2>2. CASE RecoverQueue
    BY <1>0, <2>2 DEF RecoverQueue, Rescuers
  <2>3. CASE rescuer' \in {rescuer, NoRescuer}
    BY <1>0, <1>2, <2>3
  <2> QED
    BY <2>1, <2>2, <2>3
       DEF Next, LoadStep, OtherStep, Extend, StartLoad, RefuseQueued, RefuseSealing, RefuseOpen, Refuse,
           OpenFile, GrowFile, WriteGroup, RenewGroup, Checkpoint, CloseFile, RenewCommit, NextGroup,
           RecordFile, UnclaimFile, RegisterBatch, Loaded, FailLoad, Abandon, ClearAbandoned, ReleaseLoad,
           KillLoad, CloseOpenGroup, SealBegin, SealLost, SealEnd, RecoverClear, Publish,
           EvictBuffer, DrainLook, DrainUnlink, Lapse, others
<1>5. pc' \in PC
  BY <1>0
     DEF PC, Go, Next, LoadStep, OtherStep, Extend, StartLoad, RefuseQueued, RefuseSealing, RefuseOpen,
         Refuse, OpenFile, GrowFile, WriteGroup, RenewGroup, Checkpoint, CloseFile, RenewCommit, NextGroup,
         RecordFile, UnclaimFile, RegisterBatch, Loaded, FailLoad, Abandon, ClearAbandoned, ReleaseLoad,
         KillLoad, CloseOpenGroup, SealBegin, SealLost, SealEnd, RecoverRead, RecoverQueue, RecoverClear,
         Publish, EvictBuffer, DrainLook, DrainUnlink, Lapse, local
<1> QED
  BY <1>3, <1>4, <1>5

\* Every step keeps the types.
LEMMA ShapesStep ==
    ASSUME Shapes, Spared, Writing, Batched, Intended, Next
    PROVE  Shapes'
<1>1. load' \in Loads
  <2>1. CASE LoadStep
    BY <2>1, LoadShape
  <2>2. CASE UNCHANGED load
    BY <2>2 DEF Shapes
  <2> QED
    BY <2>1, <2>2
       DEF Next, OtherStep, Extend, CloseOpenGroup, SealBegin, SealLost, SealEnd, RecoverRead, RecoverQueue,
           RecoverClear, Publish, EvictBuffer, DrainLook, DrainUnlink, Lapse, local
<1> QED
  BY <1>1, RowShape, FileShape, NameShape, ActorShape DEF Shapes


(***************************************************************************)
(* The names.                                                              *)
(***************************************************************************)

\* A step that moves only the writer on, to a label that asks nothing new.
LEMMA OnlyPcMoves ==
    ASSUME NameInv, Shapes', Writing', Batched',
           UNCHANGED <<disk, table, doomed, queue, compacting, sealing, sealer, rescuer, load>>
    PROVE  NameInv'
<1>1. StagedFiles' = StagedFiles
  BY StagedSame
<1>2. Spared'
  BY <1>1 DEF NameInv, Spared
<1>3. Rescued' /\ Intended'
  BY DEF NameInv, Rescued, Intended
<1>4. OutputsNamed'
  BY DEF NameInv, OutputsNamed, Named
<1> QED
  BY <1>2, <1>3, <1>4 DEF NameInv

\* The steps of the writer that write no name.
LEMMA WriterNames ==
    ASSUME NameInv, Shapes',
           \/ \E k \in 1..MaxBatch : Extend(k)
           \/ CloseOpenGroup \/ RefuseQueued \/ RefuseSealing \/ RefuseOpen
           \/ GrowFile \/ RenewGroup \/ RenewCommit \/ RecordFile \/ Loaded
           \/ Publish \/ EvictBuffer \/ Lapse
    PROVE  NameInv'
<1>1. UNCHANGED <<disk, table, doomed, queue, compacting, sealing, sealer, rescuer, load>>
  BY DEF Extend, CloseOpenGroup, RefuseQueued, RefuseSealing, RefuseOpen, Refuse, GrowFile,
         RenewGroup, RenewCommit, Checkpoint, RecordFile, Loaded, Publish, EvictBuffer, Lapse,
         rest, others, local
<1>2. StagedFiles' = StagedFiles /\ StagedPaths' = StagedPaths
  BY <1>1, StagedSame
<1>3. Writing'
  BY <1>1 DEF NameInv, Writing, Ended, Go, Extend, CloseOpenGroup, RefuseQueued, RefuseSealing,
              RefuseOpen, Refuse, GrowFile, RenewGroup, RenewCommit, Checkpoint, RecordFile, Loaded,
              Publish, EvictBuffer, Lapse, local
<1>4. Batched'
  BY <1>1, <1>2 DEF NameInv, Batched, Go, Extend, CloseOpenGroup, RefuseQueued, RefuseSealing,
              RefuseOpen, Refuse, GrowFile, RenewGroup, RenewCommit, Checkpoint, RecordFile, Loaded,
              Publish, EvictBuffer, Lapse, local
<1> QED
  BY <1>1, <1>3, <1>4, OnlyPcMoves

\* The load is forgotten, or one begins.
LEMMA EdgeNames ==
    ASSUME NameInv, Shapes', StartLoad \/ ReleaseLoad \/ KillLoad
    PROVE  NameInv'
<1>1. /\ UNCHANGED <<disk, table, doomed, queue, compacting, sealing, sealer, rescuer>>
      /\ pc' \in {"queued", "idle"}
  BY DEF StartLoad, ReleaseLoad, KillLoad, rest, others, Go
<1>2. load'.path = 0 /\ load'.staged = <<>>
  <2>1. PICK z : z = NoLoad
    OBVIOUS
  <2>2. z \in Loads /\ z.path = 0 /\ z.staged = <<>>
    BY <2>1 DEF NoLoad, Loads
  <2>3. CASE StartLoad
    <3>1. PICK n \in 1..MaxGroups : load' = [z EXCEPT !.owner = FreshOwner, !.left = n]
      BY <2>1, <2>3 DEF StartLoad
    <3> QED
      BY <2>2, <3>1 DEF Loads
  <2>4. CASE ReleaseLoad \/ KillLoad
    BY <2>1, <2>2, <2>4 DEF ReleaseLoad, KillLoad
  <2> QED
    BY <2>3, <2>4
<1>3. StagedFiles' = {} /\ StagedPaths' = {}
  BY <1>2, StagedNone
<1>4. Spared' /\ Intended'
  BY <1>1, <1>3 DEF NameInv, Spared, Intended
<1>5. Writing' /\ Batched'
  BY <1>1, <1>2, <1>3 DEF Writing, Batched
<1>6. Rescued'
  BY <1>1, <1>2 DEF NameInv, Shapes, Rescuers, Names, Rescued
<1>7. OutputsNamed'
  BY <1>1 DEF NameInv, OutputsNamed, Named
<1> QED
  BY <1>4, <1>5, <1>6, <1>7 DEF NameInv

\* A row group is reserved, or the source ends.
LEMMA NextGroupNames ==
    ASSUME NameInv, Shapes', NextGroup
    PROVE  NameInv'
<1>1. /\ UNCHANGED <<disk, table, doomed, queue, compacting, sealing, sealer, rescuer>>
      /\ pc = "reserve" /\ pc' = "next"
  BY DEF NextGroup, rest, others, Go
<1>2. load'.path = load.path /\ load'.staged = load.staged
  BY DEF NextGroup, NameInv, Shapes, Loads
<1>3. StagedFiles' = StagedFiles /\ StagedPaths' = StagedPaths
  BY <1>2, StagedSame
<1>4. Spared' /\ Intended'
  BY <1>1, <1>3 DEF NameInv, Spared, Intended
<1>5. Writing' /\ Batched'
  BY <1>1, <1>2, <1>3 DEF NameInv, Writing, Batched, Ended
<1>6. Rescued'
  BY <1>1, <1>2 DEF NameInv, Rescued
<1>7. OutputsNamed'
  BY <1>1 DEF NameInv, OutputsNamed, Named
<1> QED
  BY <1>4, <1>5, <1>6, <1>7 DEF NameInv

\* A file is opened under a name recorded before it exists.
LEMMA OpenFileNames ==
    ASSUME NameInv, Shapes', OpenFile
    PROVE  NameInv'
<1>1. /\ UNCHANGED <<disk, table, doomed, queue, sealing, sealer, rescuer>>
      /\ compacting' = compacting \cup {FreshPath}
      /\ pc' = "write" /\ load.group # <<>>
  BY DEF OpenFile, others, Go
<1>2. load'.path = FreshPath /\ load'.staged = load.staged /\ load'.group = load.group
  BY DEF OpenFile, NameInv, Shapes, Loads
<1>3. /\ FreshPath \in Names /\ FreshPath \notin doomed /\ FreshPath \notin rescuer.outputs
  BY FreshPathIsNew DEF OpenFile
<1>4. StagedFiles' = StagedFiles /\ StagedPaths' = StagedPaths
  BY <1>2, StagedSame
<1>5. Spared' /\ Intended'
  BY <1>1, <1>4 DEF NameInv, Spared, Intended
<1>6. Writing' /\ Batched'
  BY <1>1, <1>2, <1>3 DEF Writing, Batched, Names
<1>7. Rescued'
  BY <1>1, <1>2, <1>3 DEF NameInv, Rescued
<1>8. OutputsNamed'
  BY <1>1 DEF NameInv, OutputsNamed, Named
<1> QED
  BY <1>5, <1>6, <1>7, <1>8 DEF NameInv

\* A row group reaches the file that is open, or a step fails before or after it did.
LEMMA WriteNames ==
    ASSUME NameInv, Shapes', WriteGroup \/ FailLoad
    PROVE  NameInv'
<1>1. /\ UNCHANGED <<doomed, queue, compacting, sealing, sealer, rescuer>>
      /\ pc' \in {"renew", "abandon"}
      /\ pc' = "renew" => load.path \in disk'
  BY DEF WriteGroup, FailLoad, others, Go
<1>2. load'.path = load.path /\ load'.staged = load.staged
  BY DEF WriteGroup, FailLoad, NameInv, Shapes, Loads
<1>3. StagedFiles' = StagedFiles
  BY <1>2, StagedSame
<1>4. table' \subseteq table \cup StagedFiles /\ table \subseteq table'
  BY DEF WriteGroup, FailLoad
<1>5. /\ disk \subseteq disk'
      /\ \A p \in disk' : p \in disk \/ (p = load.path /\ p # 0 /\ pc = "write")
  BY DEF WriteGroup, FailLoad, NameInv, Writing
<1>6. Spared'
  BY <1>1, <1>3, <1>4, <1>5 DEF NameInv, Spared
<1>a. Writing'
  BY <1>1, <1>2 DEF NameInv, Writing, Ended
<1>7. Batched' /\ Intended'
  BY <1>1 DEF NameInv, Batched, Intended
<1>8. Rescued'
  BY <1>1, <1>2, <1>5 DEF NameInv, Rescued
<1>9. OutputsNamed'
  <2> SUFFICES ASSUME NEW p \in disk'
               PROVE  \/ Named(p)' \/ p \in compacting \cup queue \cup doomed
                      \/ p \in {i.path : i \in sealing} \cup {sealer.path}
    BY <1>1 DEF OutputsNamed
  <2>1. CASE p \in disk
    BY <1>4, <2>1 DEF NameInv, OutputsNamed, Named
  <2>2. CASE p = load.path /\ p # 0
    BY <2>2 DEF NameInv, Writing
  <2> QED
    BY <1>5, <2>1, <2>2
<1> QED
  BY <1>6, <1>7, <1>8, <1>9, <1>a DEF NameInv

\* The closed file joins the batch.
LEMMA CloseFileNames ==
    ASSUME NameInv, Shapes', CloseFile
    PROVE  NameInv'
<1>1. /\ UNCHANGED <<disk, table, doomed, queue, compacting, sealing, sealer, rescuer>>
      /\ pc = "next" /\ pc' \in {"commit", "next"} /\ load.path # 0
  BY DEF CloseFile, rest, others, Go
<1>2. PICK f : f = [path |-> load.path, start |-> load.start, end |-> load.end]
  OBVIOUS
<1>3. f \in Files /\ f.path = load.path
  BY <1>2 DEF NameInv, Shapes, Loads, Files
<1>4. load'.path = 0 /\ load'.staged = load.staged \o <<f>>
  BY <1>2 DEF CloseFile, NameInv, Shapes, Loads
<1>5. StagedFiles' = StagedFiles \cup {f} /\ load'.staged # <<>>
  BY <1>3, <1>4, StagedGrows DEF NameInv, Shapes
<1>6. Spared'
  BY <1>1, <1>3, <1>5 DEF NameInv, Spared, Writing, Ended
<1>7. Writing' /\ Batched' /\ Intended'
  BY <1>1, <1>4, <1>5 DEF NameInv, Writing, Batched, Intended
<1>8. Rescued'
  BY <1>1, <1>4 DEF NameInv, Shapes, Rescuers, Names, Rescued
<1>9. OutputsNamed'
  BY <1>1 DEF NameInv, OutputsNamed, Named
<1> QED
  BY <1>6, <1>7, <1>8, <1>9 DEF NameInv

\* The batch is committed to the table, or declined.
LEMMA RegisterNames ==
    ASSUME NameInv, Shapes', RegisterBatch
    PROVE  NameInv'
<1>1. /\ UNCHANGED <<disk, doomed, queue, compacting, sealing, sealer, rescuer, load>>
      /\ pc = "register"
      /\ \/ pc' = "declined" /\ table' = table
         \/ pc' = "record" /\ table' = table \cup StagedFiles
  BY DEF RegisterBatch, others, Go
<1>2. StagedFiles' = StagedFiles
  BY <1>1, StagedSame
<1>3. Spared'
  BY <1>1, <1>2 DEF NameInv, Spared
<1>4. Writing' /\ Batched' /\ Intended'
  BY <1>1, <1>2 DEF NameInv, Writing, Batched, Intended
<1>5. Rescued'
  BY <1>1 DEF NameInv, Rescued
<1>6. OutputsNamed'
  BY <1>1 DEF NameInv, OutputsNamed, Named
<1> QED
  BY <1>3, <1>4, <1>5, <1>6 DEF NameInv

\* The claim of a registered file goes: the table names it.
LEMMA UnclaimNames ==
    ASSUME NameInv, Shapes', UnclaimFile
    PROVE  NameInv'
<1>1. /\ UNCHANGED <<disk, table, doomed, queue, sealing, sealer, rescuer>>
      /\ compacting' = compacting \ {Head(load.staged).path}
      /\ pc = "unclaim"
      /\ pc' = IF Len(load.staged) > 1 THEN "record" ELSE IF load.group = <<>> THEN "loaded" ELSE "next"
  BY DEF UnclaimFile, others, Go
<1>2. load'.path = load.path /\ load.path = 0 /\ load'.staged = Tail(load.staged)
  BY DEF UnclaimFile, NameInv, Shapes, Loads, Writing
<1>3. load.staged # <<>> /\ StagedFiles \subseteq table
  BY <1>1 DEF NameInv, Batched
<1>4. /\ StagedFiles' \subseteq StagedFiles /\ Head(load.staged) \in StagedFiles
      /\ load'.staged # <<>> <=> Len(load.staged) > 1
  BY <1>2, <1>3, StagedShrinks DEF NameInv, Shapes
<1>5. Spared'
  BY <1>1, <1>4 DEF NameInv, Spared
<1>6. Writing' /\ Batched' /\ Intended'
  BY <1>1, <1>2, <1>3, <1>4 DEF NameInv, Writing, Batched, Intended
<1>7. Rescued'
  BY <1>1, <1>2 DEF NameInv, Rescued
<1>8. OutputsNamed'
  <2>1. Named(Head(load.staged).path)
    BY <1>3, <1>4 DEF Named
  <2> QED
    BY <1>1, <2>1 DEF NameInv, OutputsNamed, Named
<1> QED
  BY <1>5, <1>6, <1>7, <1>8 DEF NameInv

\* A load that gives up queues the files of its batch.
LEMMA AbandonNames ==
    ASSUME NameInv, Shapes', Abandon
    PROVE  NameInv'
<1>1. /\ UNCHANGED <<disk, table, doomed, compacting, sealing, sealer, rescuer, load>>
      /\ queue' = queue \cup StagedPaths \cup load.filed /\ pc \in Ended /\ pc' = "clear"
  BY DEF Abandon, others, Go, Ended
<1>2. StagedFiles' = StagedFiles /\ StagedPaths' = StagedPaths
  BY <1>1, StagedSame
<1>3. Spared'
  BY <1>1, <1>2 DEF NameInv, Spared
<1>4. Writing' /\ Batched' /\ Intended'
  BY <1>1, <1>2 DEF NameInv, Writing, Batched, Intended, Ended
<1>5. Rescued'
  BY <1>1 DEF NameInv, Rescued
<1>6. OutputsNamed'
  BY <1>1 DEF NameInv, OutputsNamed, Named
<1> QED
  BY <1>3, <1>4, <1>5, <1>6 DEF NameInv

\* They are no longer recorded as outputs in the making.
LEMMA ClearNames ==
    ASSUME NameInv, Shapes', ClearAbandoned
    PROVE  NameInv'
<1>1. /\ UNCHANGED <<disk, table, doomed, queue, sealing, sealer, rescuer, load>>
      /\ compacting' = compacting \ StagedPaths /\ pc = "clear" /\ pc' = "release"
  BY DEF ClearAbandoned, others, Go
<1>2. StagedPaths \subseteq queue
  BY <1>1 DEF NameInv, Batched
<1>3. StagedFiles' = StagedFiles
  BY <1>1, StagedSame
<1>4. Spared'
  BY <1>1, <1>3 DEF NameInv, Spared
<1>5. Writing' /\ Batched' /\ Intended'
  BY <1>1, <1>2 DEF NameInv, Writing, Batched, Intended, Ended
<1>6. Rescued'
  BY <1>1 DEF NameInv, Rescued
<1>7. OutputsNamed'
  BY <1>1, <1>2 DEF NameInv, OutputsNamed, Named
<1> QED
  BY <1>4, <1>5, <1>6, <1>7 DEF NameInv


\* A seal begins with a name of its own.
LEMMA SealBeginNames ==
    ASSUME NameInv, Shapes', SealBegin
    PROVE  NameInv'
<1>1. /\ UNCHANGED <<compacting, table, doomed, load, pc, rescuer>>
      /\ sealer.owner = 0
      /\ queue' = queue \cup {i.path : i \in sealing} /\ disk' = disk \cup {FreshPath}
  BY DEF SealBegin, local
<1>2. /\ FreshPath \in Names /\ FreshPath \notin doomed /\ FreshPath \notin rescuer.outputs
      /\ FreshOwner # 0 /\ FreshPath # load.path
  BY FreshPathIsNew, FreshOwnerIsNew DEF SealBegin
<1>3. PICK g \in Pending : g = CHOOSE x \in Pending : \A h \in Pending : x.start <= h.start
  BY PickedGroup DEF SealBegin, NameInv
<1>4. sealer'.owner = FreshOwner /\ sealer'.path = FreshPath
  BY <1>3 DEF SealBegin
<1>5. \A i \in sealing' : i.path = FreshPath
  <2>1. g \in Files
    BY DEF NameInv, Shapes, Pending
  <2>2. PICK e : e = [g EXCEPT !.path = FreshPath]
    OBVIOUS
  <2>3. sealing' = {e}
    BY <1>3, <2>2 DEF SealBegin
  <2>4. e.path = FreshPath
    BY <2>1, <2>2 DEF Files
  <2> QED
    BY <2>3, <2>4
<1>6. StagedFiles' = StagedFiles
  BY <1>1, StagedSame
<1>7. Spared'
  BY <1>1, <1>2, <1>4, <1>6 DEF NameInv, Spared, Names
<1>8. Writing'
  BY <1>1 DEF NameInv, Writing, Ended
<1>9. Batched'
  <2>1. StagedPaths' = StagedPaths
    BY <1>1, StagedSame
  <2> QED
    BY <1>1, <1>6, <2>1 DEF NameInv, Batched
<1>a. Intended'
  BY <1>2, <1>4, <1>5 DEF Intended, Names
<1>b. Rescued'
  BY <1>1, <1>2 DEF NameInv, Rescued
<1>c. OutputsNamed'
  <2> SUFFICES ASSUME NEW p \in disk', p # FreshPath
               PROVE  Named(p) \/ p \in compacting \cup queue' \cup doomed
    BY <1>1, <1>4 DEF OutputsNamed, Named
  <2>1. p \in disk /\ p # 0
    BY <1>1 DEF NameInv, Shapes, Names
  <2>2. sealer.path = 0
    BY <1>1 DEF NameInv, Spared
  <2> QED
    BY <1>1, <2>1, <2>2 DEF NameInv, OutputsNamed
<1> QED
  BY <1>7, <1>8, <1>9, <1>a, <1>b, <1>c DEF NameInv

\* A seal ends with its file in the table, or queued, or it lost its range.
LEMMA SealOverNames ==
    ASSUME NameInv, Shapes', SealLost \/ SealEnd
    PROVE  NameInv'
<1>1. /\ UNCHANGED <<compacting, disk, doomed, load, pc, rescuer>>
      /\ sealer.owner # 0 /\ sealer' = NoSealer
      /\ queue' \in {queue, queue \cup {sealer.path}}
  BY DEF SealLost, SealEnd, local
<1>2. NoSealer.owner = 0 /\ NoSealer.path = 0
  BY DEF NoSealer
<1>3. PICK f : f = [path |-> sealer.path, start |-> sealer.start, end |-> sealer.end]
  OBVIOUS
<1>4. /\ table \subseteq table' /\ table' \subseteq table \cup {f} /\ f.path = sealer.path
      /\ sealer.path \in queue' \/ f \in table'
  BY <1>3 DEF SealLost, SealEnd
<1>5. sealing' = sealing \/ sealing' = {}
  BY DEF SealLost, SealEnd
<1>6. StagedFiles' = StagedFiles /\ StagedPaths' = StagedPaths
  BY <1>1, StagedSame
<1>7. Spared'
  BY <1>1, <1>2, <1>4, <1>6 DEF NameInv, Spared
<1>8. Writing'
  BY <1>1 DEF NameInv, Writing, Ended
<1>9. Batched'
  BY <1>1, <1>4, <1>6 DEF NameInv, Batched
<1>a. Intended'
  BY <1>1, <1>2, <1>5 DEF NameInv, Intended
<1>b. Rescued'
  BY <1>1 DEF NameInv, Rescued
<1>c. OutputsNamed'
  <2> SUFFICES ASSUME NEW p \in disk, p # sealer.path
               PROVE  Named(p)' \/ p \in compacting \cup queue' \cup doomed
    BY <1>1, <1>4 DEF OutputsNamed, Named
  <2> QED
    BY <1>1, <1>4 DEF NameInv, OutputsNamed, Named, Intended
<1> QED
  BY <1>7, <1>8, <1>9, <1>a, <1>b, <1>c DEF NameInv

\* The steps of a recovery.
LEMMA RecoverNames ==
    ASSUME NameInv, Shapes', RecoverRead \/ RecoverQueue \/ RecoverClear
    PROVE  NameInv'
<1>1. /\ UNCHANGED <<disk, table, doomed, load, pc, sealer, sealing>>
      /\ queue \subseteq queue'
  BY DEF RecoverRead, RecoverQueue, RecoverClear, rest, local
<1>2. StagedFiles' = StagedFiles /\ StagedPaths' = StagedPaths
  BY <1>1, StagedSame
<1>3. Spared' /\ Intended'
  BY <1>1, <1>2 DEF NameInv, Spared, Intended
<1>4. Batched'
  BY <1>1, <1>2 DEF NameInv, Batched
<1>5. CASE RecoverRead
  <2>1. UNCHANGED <<queue, compacting>> /\ rescuer'.queued = FALSE
    BY <1>5 DEF RecoverRead, rest
  <2>2. Writing' /\ OutputsNamed' /\ Rescued'
    BY <1>1, <2>1 DEF NameInv, Writing, OutputsNamed, Named, Rescued
  <2> QED
    BY <1>3, <1>4, <2>2 DEF NameInv
<1>6. CASE RecoverQueue
  <2>1. UNCHANGED compacting /\ queue' = queue \cup rescuer.outputs
    BY <1>6 DEF RecoverQueue
  <2>2. rescuer'.outputs = rescuer.outputs
    BY <1>6 DEF RecoverQueue, NameInv, Shapes, Rescuers
  <2>3. Writing' /\ OutputsNamed'
    BY <1>1, <2>1 DEF NameInv, Writing, OutputsNamed, Named
  <2>4. Rescued'
    BY <2>1, <2>2 DEF Rescued
  <2> QED
    BY <1>3, <1>4, <2>3, <2>4 DEF NameInv
<1>7. CASE RecoverClear
  <2>1. /\ queue' = queue /\ compacting' = compacting \ rescuer.outputs
        /\ rescuer.queued /\ rescuer' = NoRescuer
    BY <1>7 DEF RecoverClear
  <2>2. \A p \in rescuer.outputs : p \in disk \/ p = load.path => p \in queue
    BY <2>1 DEF NameInv, Rescued
  <2>3. Writing'
    BY <1>1, <2>1, <2>2 DEF NameInv, Writing
  <2>4. OutputsNamed'
    BY <1>1, <2>1, <2>2 DEF NameInv, OutputsNamed, Named
  <2>5. Rescued'
    BY <2>1 DEF Rescued, NoRescuer
  <2> QED
    BY <1>3, <1>4, <2>3, <2>4, <2>5 DEF NameInv
<1> QED
  BY <1>5, <1>6, <1>7

\* The steps of a drain.
LEMMA DrainNames ==
    ASSUME NameInv, Shapes', DrainLook \/ DrainUnlink
    PROVE  NameInv'
<1>1. UNCHANGED <<table, compacting, load, pc, sealer, sealing, rescuer>>
  BY DEF DrainLook, DrainUnlink, local, others
<1>2. StagedFiles' = StagedFiles /\ StagedPaths' = StagedPaths
  BY <1>1, StagedSame
<1>3. CASE DrainLook
  <2>1. UNCHANGED <<disk, queue>> /\ doomed' = {p \in queue : ~Named(p) /\ Due(p)}
    BY <1>3 DEF DrainLook
  <2>2. \A f \in StagedFiles : f.path \in StagedPaths
    BY StagedType DEF NameInv, Shapes
  <2>3. Spared'
    BY <1>1, <1>2, <2>1, <2>2 DEF NameInv, Spared, Named, Due
  <2>4. Writing'
    BY <1>1, <2>1 DEF NameInv, Writing, Due
  <2>5. Batched' /\ Rescued' /\ Intended'
    BY <1>1, <1>2, <2>1 DEF NameInv, Batched, Rescued, Intended
  <2>6. OutputsNamed'
    BY <1>1, <2>1, <1>3 DEF NameInv, OutputsNamed, Named, DrainLook
  <2> QED
    BY <2>3, <2>4, <2>5, <2>6 DEF NameInv
<1>4. CASE DrainUnlink
  <2>1. disk' = disk \ doomed /\ queue' = queue \ doomed /\ doomed' = {}
    BY <1>4 DEF DrainUnlink
  <2>2. \A p \in StagedPaths : p \notin doomed
    BY StagedType DEF NameInv, Shapes, Spared
  <2>3. Spared'
    BY <1>1, <1>2, <2>1 DEF NameInv, Spared
  <2>4. Writing'
    BY <1>1, <2>1 DEF NameInv, Writing
  <2>5. Batched'
    BY <1>1, <1>2, <2>1, <2>2 DEF NameInv, Batched
  <2>6. Rescued'
    BY <1>1, <2>1 DEF NameInv, Rescued, Writing, Shapes, Rescuers, Names
  <2>7. Intended'
    BY <1>1 DEF NameInv, Intended
  <2>8. OutputsNamed'
    BY <1>1, <2>1 DEF NameInv, OutputsNamed, Named
  <2> QED
    BY <2>3, <2>4, <2>5, <2>6, <2>7, <2>8 DEF NameInv
<1> QED
  BY <1>3, <1>4

\* The names half holds initially.
LEMMA NamesStart ==
    ASSUME Init
    PROVE  NameInv
<1>1. NoLoad \in Loads /\ NoLoad.staged = <<>> /\ NoLoad.path = 0
  BY DEF NoLoad, Loads
<1>2. NoSealer \in Sealers /\ NoSealer.owner = 0 /\ NoSealer.path = 0
  BY DEF NoSealer, Sealers
<1>3. NoRescuer \in Rescuers /\ NoRescuer.queued = FALSE
  BY DEF NoRescuer, Rescuers
<1>4. StagedFiles = {}
  BY <1>1 DEF Init, StagedFiles
<1>5. Shapes
  BY <1>1, <1>2, <1>3 DEF Init, Shapes, PC
<1>6. Spared /\ Writing /\ Batched
  BY <1>1, <1>2, <1>4 DEF Init, Spared, Writing, Batched
<1>7. Rescued /\ Intended /\ OutputsNamed
  BY <1>2, <1>3 DEF Init, Rescued, Intended, OutputsNamed
<1> QED
  BY <1>5, <1>6, <1>7 DEF NameInv

\* Every step keeps the names half.
LEMMA NamesStep ==
    ASSUME NameInv, [Next]_vars
    PROVE  NameInv'
<1>1. CASE Next
  <2>1. Shapes'
    BY <1>1, ShapesStep DEF NameInv
  <2> QED
    BY <1>1, <2>1, WriterNames, EdgeNames, NextGroupNames, OpenFileNames, WriteNames, CloseFileNames,
       RegisterNames, UnclaimNames, AbandonNames, ClearNames, SealBeginNames, SealOverNames,
       RecoverNames, DrainNames
       DEF Next, LoadStep, OtherStep
<1>2. CASE UNCHANGED vars
  <2>1. Shapes'
    BY <1>2 DEF NameInv, Shapes, vars, rows, rest, local, others
  <2>2. StagedFiles' = StagedFiles /\ StagedPaths' = StagedPaths
    BY <1>2, StagedSame DEF vars, local
  <2>3. Writing' /\ Batched'
    BY <1>2, <2>2 DEF NameInv, Writing, Batched, vars, rest, local
  <2> QED
    BY <1>2, <2>1, <2>3, OnlyPcMoves DEF vars, rest, local, others
<1> QED
  BY <1>1, <1>2

\* The names half holds throughout, with no assumption on the constants beyond
\* their types.
THEOREM NamesHold == Spec => []NameInv
BY NamesStart, NamesStep, PTL DEF Spec

\* No file that the table names is unlinked, whatever drain, recovery or lapsed
\* claim comes between a load and its commit.
THEOREM LoadedFilesStay == Spec => []NoTableFileLost
<1>1. NameInv => NoTableFileLost
  BY DEF NameInv, Spared, NoTableFileLost
<1> QED
  BY <1>1, NamesHold, PTL

\* Every Parquet file on disk is in the table or recorded where a drain or a
\* recovery will find it, wherever a load dies.
THEOREM EveryOutputNamed == Spec => []OutputsNamed
<1>1. NameInv => OutputsNamed
  BY DEF NameInv
<1> QED
  BY <1>1, NamesHold, PTL


(***************************************************************************)
(* The ranges.                                                             *)
(***************************************************************************)

\* Steps that leave rows, groups, table and sealer as they are.
LEMMA LogSame ==
    ASSUME LogInv, UNCHANGED <<seq, buffer, open, table, through, acked, sealer>>, Pending' = Pending
    PROVE  LogInv'
<1>1. \A o : InTable(o)' = InTable(o) /\ Waiting(o)' = Waiting(o)
  BY DEF InTable, Waiting
<1>2. Tabled' /\ Queued' /\ Growing' /\ Sealing'
  BY DEF LogInv, Tabled, Queued, Growing, Sealing
<1>3. Placed'
  BY <1>1 DEF LogInv, Placed
<1> QED
  BY <1>2, <1>3 DEF LogInv

\* Nothing the load knows of is taken from it by another process.
LEMMA LoadStays ==
    ASSUME LoadInv, UNCHANGED <<pc, load, seq>>, table \subseteq table', Refused'
    PROVE  LoadInv'
<1>1. StagedFiles' = StagedFiles
  BY StagedSame
<1>2. Reserved'
  BY DEF LoadInv, Reserved, Tip, Resume
<1>3. Gathered'
  <2>1. \A o : InTable(o) => InTable(o)'
    BY DEF InTable
  <2> QED
    BY <1>1, <2>1 DEF LoadInv, Gathered
<1>4. Staged'
  BY <1>1 DEF LoadInv, Staged, BatchStart, BatchEnd
<1> QED
  BY <1>2, <1>3, <1>4 DEF LoadInv

\* Outside a load, and while one is checked for, there is nothing to keep.
LEMMA LoadIdle ==
    ASSUME pc' \in PC \ (Loading \cup Checking)
    PROVE  LoadInv'
BY DEF LoadInv, Refused, Reserved, Gathered, Staged, Loading, Checking, PC

\* The groups that wait stay with the extents.
LEMMA PendingSame ==
    ASSUME extent' = extent
    PROVE  Pending' = Pending
BY DEF Pending

\* A new group waits.
LEMMA PendingAdds ==
    ASSUME NEW x, extent' = extent \cup {x}, x.path = 0
    PROVE  Pending' = Pending \cup {x}
BY DEF Pending

\* The span's end is the highest end of a file, 0 for an empty table.
LEMMA SpanEndFacts ==
    ASSUME NameInv, Tabled
    PROVE  /\ SpanEnd \in Nat
           /\ \A f \in table : f.end <= SpanEnd
           /\ SpanEnd # 0 => \E f \in table : f.end = SpanEnd
<1>1. PICK S : S = {0} \cup {f.end : f \in table}
  OBVIOUS
<1>2. PICK n \in Nat : n = seq + 1
  BY DEF NameInv, Shapes
<1>3. S \subseteq 0..n /\ S # {}
  <2>1. \A f \in table : f.end \in Nat /\ f.end <= n
    BY <1>2 DEF NameInv, Shapes, Files, Tabled
  <2> QED
    BY <1>1, <2>1
<1>4. Max(S) \in S /\ \A y \in S : y <= Max(S)
  BY <1>3, MaxOfNaturals
<1>5. PICK m \in S : m = SpanEnd /\ \A y \in S : y <= m
  BY <1>1, <1>4 DEF SpanEnd
<1>6. m \in Nat
  BY <1>3
<1>7. \A f \in table : f.end <= m
  BY <1>1, <1>5
<1>8. m # 0 => \E f \in table : f.end = m
  BY <1>1
<1> QED
  BY <1>5, <1>6, <1>7, <1>8


\* The offsets of a range.
LEMMA HoldsRange ==
    ASSUME NEW x, NEW a \in Nat, NEW n \in Nat, x.start = a, x.end = n + 1
    PROVE  \A o \in Nat : Holds(x, o) => o \in a..n
BY DEF Holds

\* A group closes: [a, b) reaches up to the last offset issued, and every row
\* that waited in the open group is in it.
LEMMA GroupCloses ==
    ASSUME NameInv, LogInv, seq' \in Nat, seq <= seq',
           NEW a \in Nat, NEW x,
           x = [start |-> a, end |-> seq' + 1, path |-> 0],
           1 <= a, a <= seq',
           \A o \in a..seq' : o \in buffer',
           \A f \in table : f.end <= a,
           \A g \in Pending : g.end <= a,
           open # 0 => a <= open,
           buffer \subseteq buffer', buffer' \subseteq acked',
           acked \subseteq acked', acked' \subseteq 1..seq',
           \A o \in acked' : o \in acked \/ o >= a,
           extent' = extent \cup {x}, open' = 0, UNCHANGED <<table, through, sealer>>
    PROVE  LogInv'
<1>0. seq \in Nat /\ table \subseteq Files /\ Pending \subseteq Files /\ open \in Nat
  BY DEF NameInv, Shapes, Pending
<1>1. x.start = a /\ x.end = seq' + 1 /\ x.path = 0
  OBVIOUS
<1>2. Pending' = Pending \cup {x}
  BY <1>1, PendingAdds
<1>3. Tabled'
  BY <1>0 DEF LogInv, Tabled, Files
<1>4. Queued'
  <2>1. \A g \in Pending' : 1 <= g.start /\ g.start < g.end /\ g.end <= seq' + 1
    BY <1>0, <1>1, <1>2 DEF LogInv, Queued, Files
  <2>2. \A o \in Nat : Holds(x, o) => o \in buffer'
    <3>1. PICK n \in Nat : n = seq'
      OBVIOUS
    <3>2. x.start = a /\ x.end = n + 1
      BY <1>1, <3>1
    <3>3. \A o \in Nat : Holds(x, o) => o \in a..n
      BY <3>2, HoldsRange
    <3> QED
      BY <3>1, <3>3
  <2>3. \A g \in Pending' : \A o \in Nat : Holds(g, o) => o \in buffer'
    BY <1>2, <2>2 DEF LogInv, Queued
  <2>4. \A g \in Pending', f \in table : f.end <= g.start
    BY <1>1, <1>2 DEF LogInv, Queued
  <2>5. \A g, h \in Pending' : g = h \/ Apart(g, h)
    BY <1>1, <1>2 DEF LogInv, Queued, Apart
  <2> QED
    BY <2>1, <2>3, <2>4, <2>5 DEF Queued
<1>5. Growing'
  BY DEF Growing
<1>6. Placed'
  <2> SUFFICES ASSUME NEW o \in acked' PROVE InTable(o)' \/ Waiting(o)'
    BY DEF Placed
  <2>1. o \in 1..seq'
    OBVIOUS
  <2>2. CASE o >= a
    BY <1>1, <1>2, <2>1, <2>2 DEF Waiting, Holds
  <2>3. CASE o \in acked /\ ~(o >= a)
    <3>1. InTable(o) \/ Waiting(o)
      BY <2>3 DEF LogInv, Placed
    <3>2. ~(open # 0 /\ open <= o)
      BY <1>0, <2>1, <2>3
    <3> QED
      BY <1>2, <3>1, <3>2 DEF InTable, Waiting
  <2> QED
    BY <2>2, <2>3
<1>7. Sealing'
  <2> SUFFICES ASSUME sealer.owner # 0
               PROVE  \E g \in Pending' :
                        /\ g.start = sealer.start /\ g.end = sealer.end
                        /\ \A h \in Pending' : g.start <= h.start
    BY DEF Sealing
  <2>1. PICK g \in Pending : /\ g.start = sealer.start /\ g.end = sealer.end
                             /\ \A h \in Pending : g.start <= h.start
    BY DEF LogInv, Sealing
  <2>2. g.start <= a
    BY <1>0 DEF LogInv, Queued, Files
  <2> QED
    BY <1>1, <1>2, <2>1, <2>2
<1> QED
  BY <1>3, <1>4, <1>5, <1>6, <1>7 DEF LogInv

\* An append.
LEMMA ExtendRange ==
    ASSUME NameInv, RangeInv, NEW k \in 1..MaxBatch, Extend(k)
    PROVE  RangeInv'
<1>0. /\ seq \in Nat /\ table \subseteq Files /\ Pending \subseteq Files /\ open \in Nat
      /\ buffer \subseteq 1..seq /\ acked \subseteq 1..seq /\ k \in Nat /\ k >= 1
  BY RowsAssumption DEF NameInv, Shapes, Pending, RangeInv, LogInv, Placed
<1>1. /\ seq' = seq + k /\ buffer' = buffer \cup (seq + 1 .. seq + k)
      /\ acked' = acked \cup (seq + 1 .. seq + k)
      /\ UNCHANGED <<table, through, sealer, pc, load>> /\ pc = "idle"
  BY DEF Extend, AppendRows, local, others
<1>2. LoadInv'
  BY <1>1, LoadIdle DEF PC, Loading, Checking
<1>3. PICK a \in Nat : a = IF open = 0 THEN seq + 1 ELSE open
  BY <1>0
<1>4. /\ 1 <= a /\ a <= seq + 1
      /\ \A o \in a..seq + k : o \in buffer'
      /\ \A f \in table : f.end <= a
      /\ \A g \in Pending : g.end <= a
      /\ open # 0 => a <= open
  <2>1. CASE open = 0
    BY <1>0, <1>1, <1>3, <2>1 DEF RangeInv, LogInv, Tabled, Queued
  <2>2. CASE open # 0
    BY <1>0, <1>1, <1>3, <2>2 DEF RangeInv, LogInv, Growing
  <2> QED
    BY <2>1, <2>2
<1>5. CASE open' = a /\ UNCHANGED extent
  <2>1. Pending' = Pending
    BY <1>5, PendingSame
  <2>2. Tabled'
    BY <1>0, <1>1 DEF RangeInv, LogInv, Tabled, Files
  <2>3. Queued'
    BY <1>0, <1>1, <2>1 DEF RangeInv, LogInv, Queued, Files
  <2>4. Growing'
    BY <1>0, <1>1, <1>4, <1>5, <2>1 DEF Growing
  <2>5. Sealing'
    BY <1>1, <2>1 DEF RangeInv, LogInv, Sealing
  <2>6. Placed'
    <3>1. acked' \subseteq 1..seq' /\ buffer' \subseteq acked'
      BY <1>0, <1>1 DEF RangeInv, LogInv, Placed
    <3>2. \A o \in acked' : o \in acked \/ (open' # 0 /\ open' <= o)
      BY <1>0, <1>1, <1>4, <1>5
    <3>3. \A o \in acked : open # 0 /\ open <= o => open' # 0 /\ open' <= o
      BY <1>0, <1>4, <1>3, <1>5
    <3>4. \A o \in acked : InTable(o)' \/ Waiting(o)'
      BY <1>1, <2>1, <3>3 DEF RangeInv, LogInv, Placed, InTable, Waiting
    <3> QED
      BY <3>1, <3>2, <3>4 DEF Placed, Waiting
  <2> QED
    BY <1>2, <2>2, <2>3, <2>4, <2>5, <2>6 DEF RangeInv, LogInv
<1>6. CASE open' = 0 /\ extent' = extent \cup {[start |-> a, end |-> seq + k + 1, path |-> 0]}
  <2>1. PICK x : x = [start |-> a, end |-> seq' + 1, path |-> 0]
    OBVIOUS
  <2>2. extent' = extent \cup {x}
    BY <1>1, <1>6, <2>1
  <2>3. seq' \in Nat /\ seq <= seq' /\ a <= seq' /\ acked' \subseteq 1..seq'
    BY <1>0, <1>1, <1>4
  <2>4. /\ buffer \subseteq buffer' /\ buffer' \subseteq acked' /\ acked \subseteq acked'
        /\ \A o \in a..seq' : o \in buffer'
    BY <1>1, <1>4 DEF RangeInv, LogInv, Placed
  <2>5. \A o \in acked' : o \in acked \/ o >= a
    BY <1>0, <1>1, <1>4
  <2>6. LogInv'
    BY <1>1, <1>4, <1>6, <2>1, <2>2, <2>3, <2>4, <2>5, GroupCloses DEF RangeInv
  <2> QED
    BY <1>2, <2>6 DEF RangeInv
<1> QED
  BY <1>3, <1>5, <1>6 DEF Extend

\* Another process cuts the open group, outside a load.
LEMMA CloseGroupRange ==
    ASSUME ~CutBesideLoad, NameInv, RangeInv, CloseOpenGroup
    PROVE  RangeInv'
<1>0. /\ seq \in Nat /\ open \in Nat /\ buffer \subseteq 1..seq
  BY DEF NameInv, Shapes
<1>1. /\ pc = "idle" /\ open # 0 /\ open' = 0
      /\ extent' = extent \cup {[start |-> open, end |-> Max(buffer) + 1, path |-> 0]}
      /\ UNCHANGED <<seq, buffer, table, through, sealer, pc, load, acked>>
  BY DEF CloseOpenGroup, rows, local, others
<1>2. LoadInv'
  BY <1>1, LoadIdle DEF PC, Loading, Checking
<1>3. open <= seq /\ seq \in buffer /\ \A o \in open..seq : o \in buffer
  BY <1>0, <1>1 DEF RangeInv, LogInv, Growing
<1>4. Max(buffer) = seq
  <2>1. buffer \subseteq 0..seq /\ buffer # {}
    BY <1>0, <1>3
  <2>2. PICK m \in buffer : m = Max(buffer) /\ \A y \in buffer : y <= m
    BY <1>0, <2>1, MaxOfNaturals
  <2>3. m \in Nat /\ m <= seq /\ seq <= m
    BY <1>0, <1>3, <2>2
  <2> QED
    BY <1>0, <2>2, <2>3
<1>5. PICK x : x = [start |-> open, end |-> seq' + 1, path |-> 0]
  OBVIOUS
<1>6. extent' = extent \cup {x}
  BY <1>1, <1>4, <1>5
<1>7. LogInv'
  <2>1. seq' \in Nat /\ seq <= seq' /\ 1 <= open /\ open <= seq' /\ \A o \in open..seq' : o \in buffer'
    BY <1>0, <1>1, <1>3
  <2>2. (\A f \in table : f.end <= open) /\ (\A g \in Pending : g.end <= open)
    BY <1>1 DEF RangeInv, LogInv, Growing
  <2>3. /\ buffer \subseteq buffer' /\ buffer' \subseteq acked' /\ acked \subseteq acked'
        /\ acked' \subseteq 1..seq' /\ \A o \in acked' : o \in acked
    BY <1>1 DEF RangeInv, LogInv, Placed
  <2> QED
    BY <1>0, <1>1, <1>5, <1>6, <2>1, <2>2, <2>3, GroupCloses DEF RangeInv
<1> QED
  BY <1>2, <1>7 DEF RangeInv


\* While a load runs, no row waits to be sealed and no sealer is at work.
LEMMA NothingWaits ==
    ASSUME NameInv, RangeInv, pc \in Loading
    PROVE  /\ Pending = {} /\ open = 0 /\ sealer.owner = 0
           /\ \A o \in acked : InTable(o)
<1>1. Pending = {} /\ open = 0
  BY DEF RangeInv, LoadInv, Refused
<1>2. sealer.owner = 0
  BY <1>1 DEF RangeInv, LogInv, Sealing
<1>3. \A o \in acked : InTable(o)
  BY <1>1 DEF RangeInv, LogInv, Placed, Waiting
<1> QED
  BY <1>1, <1>2, <1>3

\* With a sealer at work there is a group, and so no load past its first check.
LEMMA SealerShutsOut ==
    ASSUME NameInv, RangeInv, sealer.owner # 0
    PROVE  pc \notin {"sealing", "open"} \cup Loading
BY DEF RangeInv, LogInv, LoadInv, Sealing, Refused

\* A seal begins with the lowest group.
LEMMA SealBeginRange ==
    ASSUME NameInv, RangeInv, SealBegin
    PROVE  RangeInv'
<1>1. UNCHANGED <<seq, buffer, open, extent, table, through, acked, pc, load>>
  BY DEF SealBegin, rows, local
<1>2. PICK g \in Pending : /\ \A h \in Pending : g.start <= h.start
                           /\ g = CHOOSE x \in Pending : \A h \in Pending : x.start <= h.start
  BY PickedGroup DEF SealBegin, NameInv
<1>3. sealer'.start = g.start /\ sealer'.end = g.end
  BY <1>2 DEF SealBegin
<1>4. Pending' = Pending
  BY <1>1, PendingSame
<1>5. Sealing'
  BY <1>2, <1>3, <1>4 DEF Sealing
<1>6. Tabled' /\ Queued' /\ Growing'
  BY <1>1, <1>4 DEF RangeInv, LogInv, Tabled, Queued, Growing
<1>7. Placed'
  BY <1>1, <1>4 DEF RangeInv, LogInv, Placed, InTable, Waiting
<1>8. Refused'
  BY <1>1, <1>4 DEF RangeInv, LoadInv, Refused
<1>9. LoadInv'
  BY <1>1, <1>8, LoadStays DEF RangeInv
<1> QED
  BY <1>5, <1>6, <1>7, <1>9 DEF RangeInv, LogInv

\* Steps of other processes that leave rows, groups and the table as they are.
LEMMA OthersRange ==
    ASSUME NameInv, RangeInv,
           \/ SealLost \/ RecoverRead \/ RecoverQueue \/ RecoverClear \/ DrainLook \/ Lapse
           \/ DrainUnlink
    PROVE  RangeInv'
<1>1. UNCHANGED <<seq, buffer, open, table, through, acked, pc, load>>
  BY DEF SealLost, RecoverRead, RecoverQueue, RecoverClear, DrainLook, Lapse, DrainUnlink, rows, rest,
         local
<1>2. Pending' = Pending
  <2>1. CASE DrainUnlink
    <3>1. 0 \notin doomed
      BY DEF NameInv, Shapes, Names
    <3> QED
      BY <2>1, <3>1 DEF DrainUnlink, Pending
  <2>2. CASE UNCHANGED extent
    BY <2>2, PendingSame
  <2> QED
    BY <2>1, <2>2 DEF SealLost, RecoverRead, RecoverQueue, RecoverClear, DrainLook, Lapse, rest
<1>3. sealer' = sealer \/ sealer'.owner = 0
  BY DEF SealLost, RecoverRead, RecoverQueue, RecoverClear, DrainLook, Lapse, DrainUnlink, others,
         NoSealer
<1>4. Tabled' /\ Queued' /\ Growing'
  BY <1>1, <1>2 DEF RangeInv, LogInv, Tabled, Queued, Growing
<1>5. Placed'
  BY <1>1, <1>2 DEF RangeInv, LogInv, Placed, InTable, Waiting
<1>6. Sealing'
  BY <1>2, <1>3 DEF RangeInv, LogInv, Sealing
<1>7. Refused'
  BY <1>1, <1>2 DEF RangeInv, LoadInv, Refused
<1>8. LoadInv'
  BY <1>1, <1>7, LoadStays DEF RangeInv
<1> QED
  BY <1>4, <1>5, <1>6, <1>8 DEF RangeInv, LogInv

\* A sealer that still has its claim has the group just above the table.
LEMMA SealLands ==
    ASSUME NameInv, RangeInv, SealEnd
    PROVE  \E f \in Files :
             /\ f.start = sealer.start /\ f.end = sealer.end /\ f.path # 0
             /\ table' = table \cup {f}
             /\ Pending' = {h \in Pending : h.end > f.end}
             /\ 1 <= f.start /\ f.start < f.end /\ f.end <= seq + 1
             /\ \A t \in table : t.end <= f.start
             /\ \A o \in Nat : Holds(f, o) => o \in buffer
             /\ \A h \in Pending : f.end <= h.start \/ (h.start = f.start /\ h.end = f.end)
             /\ open # 0 => f.end <= open
<1>0. /\ seq \in Nat /\ table \subseteq Files /\ Pending \subseteq Files /\ sealer.owner # 0
      /\ through \in Nat
  BY DEF NameInv, Shapes, Pending, SealEnd, RangeInv, LogInv, Tabled
<1>1. PICK f : f = [path |-> sealer.path, start |-> sealer.start, end |-> sealer.end]
  OBVIOUS
<1>2. f \in Files /\ f.path = sealer.path /\ f.start = sealer.start /\ f.end = sealer.end
  BY <1>1 DEF NameInv, Shapes, Sealers, Files
<1>3. f.path # 0
  BY <1>0, <1>2 DEF NameInv, Spared
<1>4. PICK g \in Pending : /\ g.start = f.start /\ g.end = f.end
                           /\ \A h \in Pending : g.start <= h.start
  BY <1>0, <1>2 DEF RangeInv, LogInv, Sealing
<1>5. /\ 1 <= f.start /\ f.start < f.end /\ f.end <= seq + 1
      /\ \A t \in table : t.end <= f.start
      /\ open # 0 => f.end <= open
  BY <1>4 DEF RangeInv, LogInv, Queued, Growing
<1>6. \A o \in Nat : Holds(f, o) => o \in buffer
  BY <1>4 DEF RangeInv, LogInv, Queued, Holds
<1>7. \A h \in Pending : f.end <= h.start \/ (h.start = f.start /\ h.end = f.end)
  <2> SUFFICES ASSUME NEW h \in Pending, ~(f.end <= h.start) PROVE h = g
    BY <1>4
  <2>1. h \in Files /\ h.start < h.end /\ g.start <= h.start /\ (g = h \/ Apart(g, h))
    BY <1>0, <1>4 DEF RangeInv, LogInv, Queued
  <2>2. g \in Files /\ g.start = f.start /\ g.end = f.end
    BY <1>0, <1>4
  <2> QED
    BY <2>1, <2>2 DEF Apart, Files
<1>8. ~((table # {} /\ SpanEnd >= sealer.end) \/ through + 1 >= sealer.end)
  <2>1. SpanEnd \in Nat /\ (SpanEnd # 0 => \E t \in table : t.end = SpanEnd)
    BY SpanEndFacts DEF RangeInv, LogInv
  <2>2. \A t \in table : t.end <= f.start
    BY <1>5
  <2>3. SpanEnd <= f.start
    BY <1>2, <2>1, <2>2 DEF Files
  <2>4. through # 0 => \E t \in table : t.end = through + 1
    BY DEF RangeInv, LogInv, Tabled
  <2>5. through + 1 <= f.start
    BY <1>0, <1>2, <1>5, <2>2, <2>4 DEF Files
  <2>6. f.start < f.end /\ f.end = sealer.end /\ f.start \in Nat /\ f.end \in Nat
    BY <1>2, <1>5 DEF Files
  <2> QED
    BY <1>0, <2>1, <2>3, <2>5, <2>6
<1>9. table' = table \cup {f} /\ extent' = {h \in extent : h.path # 0 \/ h.end > sealer.end} \cup {f}
  BY <1>1, <1>8 DEF SealEnd
<1>a. Pending' = {h \in Pending : h.end > f.end}
  BY <1>2, <1>3, <1>9 DEF Pending
<1> QED
  BY <1>2, <1>3, <1>5, <1>6, <1>7, <1>9, <1>a

\* It ends.
LEMMA SealEndRange ==
    ASSUME NameInv, RangeInv, SealEnd
    PROVE  RangeInv'
<1>0. /\ seq \in Nat /\ table \subseteq Files /\ Pending \subseteq Files /\ sealer.owner # 0
  BY DEF NameInv, Shapes, Pending, SealEnd
<1>1. UNCHANGED <<seq, buffer, open, through, acked, pc, load>> /\ sealer' = NoSealer
  BY DEF SealEnd, rows, local
<1>2. PICK f \in Files :
        /\ f.start = sealer.start /\ f.end = sealer.end /\ f.path # 0
        /\ table' = table \cup {f}
        /\ Pending' = {h \in Pending : h.end > f.end}
        /\ 1 <= f.start /\ f.start < f.end /\ f.end <= seq + 1
        /\ \A t \in table : t.end <= f.start
        /\ \A o \in Nat : Holds(f, o) => o \in buffer
        /\ \A h \in Pending : f.end <= h.start \/ (h.start = f.start /\ h.end = f.end)
        /\ open # 0 => f.end <= open
  BY SealLands
<1>3. Tabled'
  BY <1>0, <1>1, <1>2 DEF RangeInv, LogInv, Tabled, Apart
<1>4. Queued'
  <2>1. \A h \in Pending' : h \in Pending /\ h.end > f.end
    BY <1>2
  <2>2. \A h \in Pending' : f.end <= h.start
    <3> SUFFICES ASSUME NEW h \in Pending' PROVE f.end <= h.start
      OBVIOUS
    <3>1. h \in Files /\ h.end > f.end /\ (f.end <= h.start \/ h.end = f.end)
      BY <1>0, <1>2, <2>1
    <3> QED
      BY <1>2, <3>1 DEF Files
  <2> QED
    BY <1>1, <1>2, <2>1, <2>2 DEF RangeInv, LogInv, Queued
<1>5. Growing'
  BY <1>1, <1>2 DEF RangeInv, LogInv, Growing
<1>6. Placed'
  <2> SUFFICES ASSUME NEW o \in acked PROVE InTable(o)' \/ Waiting(o)'
    BY <1>1 DEF RangeInv, LogInv, Placed
  <2>1. CASE InTable(o)
    BY <1>2, <2>1 DEF InTable
  <2>2. CASE open # 0 /\ open <= o
    BY <1>1, <2>2 DEF Waiting
  <2>3. ASSUME NEW h \in Pending, Holds(h, o) PROVE InTable(o)' \/ Waiting(o)'
    <3>1. CASE h.start = f.start /\ h.end = f.end
      BY <1>2, <2>3, <3>1 DEF InTable, Holds
    <3>2. CASE f.end <= h.start
      <4>1. h \in Files /\ h.start < h.end
        BY <1>0 DEF RangeInv, LogInv, Queued
      <4>2. h.end > f.end
        BY <1>2, <3>2, <4>1 DEF Files
      <4> QED
        BY <1>2, <2>3, <4>2 DEF Waiting
    <3> QED
      BY <1>2, <3>1, <3>2
  <2> QED
    BY <2>1, <2>2, <2>3 DEF RangeInv, LogInv, Placed, Waiting
<1>7. Sealing'
  BY <1>1 DEF Sealing, NoSealer
<1>8. LoadInv'
  <2>1. pc \notin {"sealing", "open"} \cup Loading
    BY <1>0, SealerShutsOut
  <2>2. Refused'
    BY <1>1, <2>1 DEF RangeInv, LoadInv, Refused
  <2> QED
    BY <1>1, <1>2, <2>2, LoadStays DEF RangeInv
<1> QED
  BY <1>3, <1>4, <1>5, <1>6, <1>7, <1>8 DEF RangeInv, LogInv

\* A publish moves published_through to the end of a file.
LEMMA PublishRange ==
    ASSUME NameInv, RangeInv, Publish
    PROVE  RangeInv'
<1>1. UNCHANGED <<seq, buffer, open, extent, table, acked, sealer, pc, load>>
  BY DEF Publish, rows, local, others
<1>2. PICK f \in table : through' = f.end - 1
  BY DEF Publish
<1>3. f \in Files /\ 1 <= f.start /\ f.start < f.end
  BY DEF NameInv, Shapes, RangeInv, LogInv, Tabled
<1>4. through' \in Nat /\ f.end = through' + 1
  BY <1>2, <1>3 DEF Files
<1>5. Pending' = Pending
  BY <1>1, PendingSame
<1>6. Tabled' /\ Queued' /\ Growing' /\ Sealing'
  BY <1>1, <1>4, <1>5 DEF RangeInv, LogInv, Tabled, Queued, Growing, Sealing
<1>7. Placed'
  BY <1>1, <1>5 DEF RangeInv, LogInv, Placed, InTable, Waiting
<1>8. Refused'
  BY <1>1, <1>5 DEF RangeInv, LoadInv, Refused
<1>9. LoadInv'
  BY <1>1, <1>8, LoadStays DEF RangeInv
<1> QED
  BY <1>6, <1>7, <1>9 DEF RangeInv, LogInv

\* An eviction takes rows that are in the table.
LEMMA EvictRange ==
    ASSUME NameInv, RangeInv, EvictBuffer
    PROVE  RangeInv'
<1>0. /\ seq \in Nat /\ table \subseteq Files /\ Pending \subseteq Files /\ buffer \subseteq 1..seq
      /\ through \in Nat /\ open \in Nat
  BY DEF NameInv, Shapes, Pending, RangeInv, LogInv, Tabled
<1>1. /\ UNCHANGED <<seq, open, extent, table, through, acked, sealer, pc, load>>
      /\ buffer' \subseteq buffer
  BY DEF EvictBuffer, EvictRows, rest, local, others
<1>a. PICK lo, hi \in 1..through + 1 : buffer' = {r \in buffer : r < lo \/ r >= hi}
  BY DEF EvictBuffer, EvictRows
<1>b. \A r \in buffer : r >= through + 1 => r \in buffer'
  BY <1>0, <1>a
<1>2. Pending' = Pending
  BY <1>1, PendingSame
<1>3. \A b \in Nat : (\A f \in table : f.end <= b) => \A o \in buffer : b <= o => o \in buffer'
  <2> SUFFICES ASSUME NEW b \in Nat, \A f \in table : f.end <= b, NEW o \in buffer, b <= o
               PROVE  o >= through + 1
    BY <1>b
  <2>1. through # 0 => \E f \in table : f.end = through + 1
    BY DEF RangeInv, LogInv, Tabled
  <2>2. o \in 1..seq
    BY <1>0
  <2> QED
    BY <1>0, <2>1, <2>2
<1>4. Queued'
  <2> SUFFICES ASSUME NEW g \in Pending, NEW o \in Nat, Holds(g, o) PROVE o \in buffer'
    BY <1>1, <1>2 DEF RangeInv, LogInv, Queued
  <2>1. o \in buffer /\ \A f \in table : f.end <= g.start
    BY DEF RangeInv, LogInv, Queued
  <2>2. g.start \in Nat /\ g.start <= o
    BY <1>0 DEF Holds, Files
  <2> QED
    BY <1>3, <2>1, <2>2
<1>5. Growing'
  BY <1>0, <1>1, <1>2, <1>3 DEF RangeInv, LogInv, Growing
<1>6. Tabled' /\ Sealing'
  BY <1>1, <1>2 DEF RangeInv, LogInv, Tabled, Sealing
<1>7. Placed'
  BY <1>1, <1>2 DEF RangeInv, LogInv, Placed, InTable, Waiting
<1>8. Refused'
  BY <1>1, <1>2 DEF RangeInv, LoadInv, Refused
<1>9. LoadInv'
  BY <1>1, <1>8, LoadStays DEF RangeInv
<1> QED
  BY <1>4, <1>5, <1>6, <1>7, <1>9 DEF RangeInv, LogInv


\* The writer's steps that end a load, or fail, leave nothing to keep.
LEMMA LoadEndsRange ==
    ASSUME NameInv, RangeInv, ReleaseLoad \/ KillLoad \/ Abandon \/ ClearAbandoned
    PROVE  RangeInv'
<1>1. UNCHANGED <<seq, buffer, open, extent, table, through, acked, sealer>>
  BY DEF ReleaseLoad, KillLoad, Abandon, ClearAbandoned, rows, rest, others
<1>2. LogInv'
  BY <1>1, PendingSame, LogSame DEF RangeInv
<1>3. pc' \in {"idle", "clear", "release"}
  BY DEF ReleaseLoad, KillLoad, Abandon, ClearAbandoned, Go
<1>4. LoadInv'
  BY <1>3, LoadIdle DEF PC, Loading, Checking
<1> QED
  BY <1>2, <1>4 DEF RangeInv

\* A load begins: nothing is gathered.
LEMMA StartRange ==
    ASSUME NameInv, RangeInv, StartLoad
    PROVE  RangeInv'
<1>1. UNCHANGED <<seq, buffer, open, extent, table, through, acked, sealer>> /\ pc' = "queued"
  BY DEF StartLoad, rows, rest, others, Go
<1>2. LogInv'
  BY <1>1, PendingSame, LogSame DEF RangeInv
<1>3. /\ load'.group = <<>> /\ load'.path = 0 /\ load'.staged = <<>>
      /\ load'.first = 0 /\ load'.last = 0
  <2>1. PICK z : z = NoLoad
    OBVIOUS
  <2>2. /\ z \in Loads /\ z.path = 0 /\ z.staged = <<>> /\ z.group = <<>>
        /\ z.first = 0 /\ z.last = 0
    BY <2>1 DEF NoLoad, Loads
  <2>3. PICK n \in 1..MaxGroups : load' = [z EXCEPT !.owner = FreshOwner, !.left = n]
    BY <2>1 DEF StartLoad
  <2> QED
    BY <2>2, <2>3 DEF Loads
<1>4. LoadInv'
  BY <1>1, <1>3 DEF LoadInv, Refused, Reserved, Gathered, Staged, Loading
<1> QED
  BY <1>2, <1>4 DEF RangeInv

\* The checks: what each finds nothing of stays so, for the writer appends
\* nothing and no other process cuts the group.
LEMMA RefuseRange ==
    ASSUME NameInv, RangeInv, RefuseQueued \/ RefuseSealing \/ RefuseOpen
    PROVE  RangeInv'
<1>1. UNCHANGED <<seq, buffer, open, extent, table, through, acked, sealer, load>>
  BY DEF RefuseQueued, RefuseSealing, RefuseOpen, Refuse, rows, rest, others
<1>2. Pending' = Pending
  BY <1>1, PendingSame
<1>3. LogInv'
  BY <1>1, <1>2, LogSame DEF RangeInv
<1>4. /\ load.group = <<>> /\ load.path = 0 /\ load.staged = <<>>
      /\ load.first = 0 /\ load.last = 0
  BY DEF RangeInv, LoadInv, Refused, Checking, RefuseQueued, RefuseSealing, RefuseOpen
<1>5. \/ pc' = "release"
      \/ pc' \in {"sealing", "open"} /\ Pending = {}
      \/ pc' = "reserve" /\ Pending = {} /\ open = 0
  BY DEF RangeInv, LoadInv, Refused, RefuseQueued, RefuseSealing, RefuseOpen, Refuse, Go
<1>6. StagedFiles' = {}
  BY <1>1, <1>4, StagedNone
<1>7. Refused'
  BY <1>1, <1>2, <1>4, <1>5 DEF Refused, Loading, Checking
<1>8. Reserved' /\ Staged'
  BY <1>1, <1>4, <1>6 DEF Reserved, Staged, Tip
<1>9. Gathered'
  BY <1>1, <1>4 DEF Gathered, NameInv, Shapes
<1> QED
  BY <1>3, <1>7, <1>8, <1>9 DEF RangeInv, LoadInv

\* Steps inside a load that only move on.
LEMMA MovesOnRange ==
    ASSUME NameInv, RangeInv,
           \/ pc = "next" /\ pc' = "write" /\ load.path # 0 /\ load.group # <<>>
           \/ pc = "renew" /\ pc' = "reserve"
           \/ pc = "commit" /\ pc' = "register"
           \/ pc = "record" /\ pc' = "unclaim",
           UNCHANGED <<seq, buffer, open, table, through, acked, sealer, load>>, Pending' = Pending
    PROVE  RangeInv'
<1>1. LogInv'
  BY LogSame DEF RangeInv
<1>2. StagedFiles' = StagedFiles
  BY StagedSame
<1>3. Refused'
  BY DEF RangeInv, LoadInv, Refused, Loading, Checking
<1>4. Reserved'
  BY DEF RangeInv, LoadInv, Reserved, Tip, Resume, Loading
<1>5. Gathered'
  BY <1>2 DEF RangeInv, LoadInv, Gathered, InTable, Loading
<1>6. Staged'
  BY <1>2 DEF RangeInv, LoadInv, Staged, BatchStart, BatchEnd, Loading
<1> QED
  BY <1>1, <1>3, <1>4, <1>5, <1>6 DEF RangeInv, LoadInv

\* The reserved row group ends the log.
LEMMA NextGroupRange ==
    ASSUME NameInv, RangeInv, NextGroup
    PROVE  RangeInv'
<1>0. /\ seq \in Nat /\ table \subseteq Files /\ load \in Loads
  BY DEF NameInv, Shapes
<1>1. /\ UNCHANGED <<buffer, open, extent, table, through, acked, sealer>>
      /\ pc = "reserve" /\ pc' = "next"
  BY DEF NextGroup, Reserve, rest, others, Go
<1>2. Pending' = Pending
  BY <1>1, PendingSame
<1>3. /\ load'.path = load.path /\ load'.staged = load.staged /\ load'.first = load.first
      /\ load'.last = load.last /\ load'.start = load.start /\ load'.end = load.end
  BY <1>0 DEF NextGroup, Loads
<1>4. \/ load'.group = <<>> /\ seq' = seq
      \/ \E n \in 1..MaxBatch : seq' = seq + n /\ load'.group = <<seq + 1, seq + n + 1>>
  <2>1. Floor = seq
    BY FloorIsSeq DEF NameInv, Shapes
  <2> QED
    BY <1>0, <2>1 DEF NextGroup, Reserve, Loads
<1>5. seq' \in Nat /\ seq <= seq'
  BY <1>0, <1>4, RowsAssumption
<1>6. Pending = {} /\ open = 0 /\ sealer.owner = 0
  BY <1>1, NothingWaits DEF Loading
<1>7. LogInv'
  <2>1. Tabled'
    BY <1>0, <1>1, <1>5 DEF RangeInv, LogInv, Tabled, Files
  <2>2. Queued' /\ Growing' /\ Sealing'
    BY <1>1, <1>2, <1>6 DEF Queued, Growing, Sealing
  <2>3. acked' \subseteq 1..seq'
    BY <1>0, <1>1, <1>5 DEF RangeInv, LogInv, Placed
  <2>4. Placed'
    BY <1>1, <1>2, <2>3 DEF RangeInv, LogInv, Placed, InTable, Waiting
  <2> QED
    BY <2>1, <2>2, <2>4 DEF LogInv
<1>8. Refused'
  BY <1>1, <1>2, <1>6 DEF Refused, Checking
<1>9. Reserved'
  <2>1. load'.group # <<>> => /\ 1 <= load'.group[1] /\ load'.group[1] < load'.group[2]
                              /\ load'.group[2] = seq' + 1 /\ load'.group[1] = seq + 1
    BY <1>0, <1>4, RowsAssumption
  <2>2. Tip # 0 => Tip = seq + 1
    BY <1>1 DEF RangeInv, LoadInv, Reserved, Resume, Loading
  <2>3. Tip' = Tip
    BY <1>3 DEF Tip
  <2>4. Resume' = seq + 1
    <3>1. CASE load'.group = <<>>
      <4>1. seq' = seq
        BY <1>4, <3>1
      <4> QED
        BY <3>1, <4>1 DEF Resume
    <3>2. CASE load'.group # <<>>
      BY <1>1, <2>1, <3>2 DEF Resume
    <3> QED
      BY <3>1, <3>2
  <2> QED
    BY <1>1, <1>3, <2>1, <2>2, <2>3, <2>4 DEF RangeInv, LoadInv, Reserved, Loading
<1>a. StagedFiles' = StagedFiles
  BY <1>3, StagedSame
<1>b. Gathered'
  <2>1. load.last \in Nat
    BY <1>0 DEF Loads
  <2> QED
    BY <1>0, <1>1, <1>3, <1>5, <1>a, <2>1 DEF RangeInv, LoadInv, Gathered, InTable, Loading
<1>c. Staged'
  BY <1>1, <1>3, <1>a DEF RangeInv, LoadInv, Staged, BatchStart, BatchEnd, Loading
<1> QED
  BY <1>7, <1>8, <1>9, <1>b, <1>c DEF RangeInv, LoadInv

\* The file starts where the batch ended.
LEMMA OpenFileRange ==
    ASSUME NameInv, RangeInv, OpenFile
    PROVE  RangeInv'
<1>0. load \in Loads
  BY DEF NameInv, Shapes
<1>1. /\ UNCHANGED <<seq, buffer, open, extent, table, through, acked, sealer>>
      /\ pc = "next" /\ pc' = "write" /\ load.path = 0 /\ load.group # <<>>
  BY DEF OpenFile, rows, others, Go
<1>2. /\ load'.path = FreshPath /\ load'.staged = load.staged /\ load'.first = load.first
      /\ load'.last = load.last /\ load'.start = load.group[1] /\ load'.end = load.group[1]
      /\ load'.group = load.group
  BY <1>0 DEF OpenFile, Loads
<1>3. FreshPath # 0
  BY FreshPathIsNew DEF OpenFile, Names
<1>4. Pending' = Pending
  BY <1>1, PendingSame
<1>5. LogInv'
  BY <1>1, <1>4, LogSame DEF RangeInv
<1>6. Refused'
  BY <1>1, <1>4 DEF RangeInv, LoadInv, Refused, Checking, Loading
<1>7. Reserved'
  <2>1. load.group[1] \in Nat /\ load.group[2] \in Nat
    BY <1>0, <1>1 DEF Loads
  <2>2. /\ 1 <= load.group[1] /\ load.group[1] < load.group[2] /\ load.group[2] = seq + 1
        /\ load.last # 0 => load.last = load.group[1]
    BY <1>1 DEF RangeInv, LoadInv, Reserved, Tip, Resume, Loading
  <2>3. Tip' = load.group[1] /\ Resume' = load.group[1]
    BY <1>1, <1>2, <1>3 DEF Tip, Resume
  <2>4. load.first = 0 <=> load.last = 0
    BY <1>1 DEF RangeInv, LoadInv, Gathered, Loading
  <2> QED
    BY <1>1, <1>2, <2>1, <2>2, <2>3, <2>4 DEF Reserved
<1>8. StagedFiles' = StagedFiles
  BY <1>2, StagedSame
<1>9. Gathered'
  BY <1>1, <1>2, <1>8 DEF RangeInv, LoadInv, Gathered, InTable, Loading
<1>a. Staged'
  BY <1>1, <1>2, <1>8 DEF RangeInv, LoadInv, Staged, BatchStart, BatchEnd, Loading
<1> QED
  BY <1>5, <1>6, <1>7, <1>9, <1>a DEF RangeInv, LoadInv

\* The row group reaches the file.
LEMMA WriteRange ==
    ASSUME NameInv, RangeInv, WriteGroup
    PROVE  RangeInv'
<1>0. load \in Loads /\ seq \in Nat
  BY DEF NameInv, Shapes
<1>1. /\ UNCHANGED <<seq, buffer, open, extent, table, through, acked, sealer>>
      /\ pc = "write" /\ pc' = "renew" /\ load.path # 0 /\ load.group # <<>>
  BY DEF WriteGroup, rows, others, Go, NameInv, Writing, Batched
<1>2. /\ load'.path = load.path /\ load'.staged = load.staged /\ load'.first = load.first
      /\ load'.last = load.last /\ load'.start = load.start /\ load'.end = load.group[2]
      /\ load'.group = load.group
  BY <1>0 DEF WriteGroup, Loads
<1>3. Pending' = Pending
  BY <1>1, PendingSame
<1>4. LogInv'
  BY <1>1, <1>3, LogSame DEF RangeInv
<1>5. Refused'
  BY <1>1, <1>3 DEF RangeInv, LoadInv, Refused, Checking, Loading
<1>6. Reserved'
  <2>1. load.group[1] \in Nat /\ load.group[2] \in Nat /\ load.start \in Nat /\ load.end \in Nat
    BY <1>0, <1>1 DEF Loads
  <2>2. /\ 1 <= load.group[1] /\ load.group[1] < load.group[2] /\ load.group[2] = seq + 1
        /\ load.end # 0 => load.end = load.group[1]
        /\ 1 <= load.start /\ load.start <= load.end
        /\ load.first # 0 => load.last = load.start
    BY <1>1 DEF RangeInv, LoadInv, Reserved, Tip, Resume, Loading
  <2>3. Tip' = seq + 1 /\ Resume' = seq + 1
    BY <1>1, <1>2, <2>2 DEF Tip, Resume
  <2>4. load.start < load.group[2]
    BY <2>1, <2>2
  <2> QED
    BY <1>1, <1>2, <2>1, <2>2, <2>3, <2>4 DEF Reserved
<1>7. StagedFiles' = StagedFiles
  BY <1>2, StagedSame
<1>8. Gathered'
  BY <1>1, <1>2, <1>7 DEF RangeInv, LoadInv, Gathered, InTable, Loading
<1>9. Staged'
  BY <1>1, <1>2, <1>7 DEF RangeInv, LoadInv, Staged, BatchStart, BatchEnd, Loading
<1> QED
  BY <1>4, <1>5, <1>6, <1>8, <1>9 DEF RangeInv, LoadInv


\* The closed file goes on where the batch ended.
LEMMA CloseFileRange ==
    ASSUME NameInv, RangeInv, CloseFile
    PROVE  RangeInv'
<1>0. load \in Loads /\ seq \in Nat /\ StagedFiles \subseteq Files
  BY StagedType DEF NameInv, Shapes
<1>1. /\ UNCHANGED <<seq, buffer, open, extent, table, through, acked, sealer>>
      /\ pc = "next" /\ pc' \in {"commit", "next"} /\ load.path # 0
  BY DEF CloseFile, rows, rest, others, Go
<1>2. PICK f : f = [path |-> load.path, start |-> load.start, end |-> load.end]
  OBVIOUS
<1>3. f \in Files /\ f.start = load.start /\ f.end = load.end
  BY <1>0, <1>2 DEF Loads, Files
<1>4. /\ load'.path = 0 /\ load'.staged = load.staged \o <<f>> /\ load'.group = load.group
      /\ load'.first = (IF load.first = 0 THEN load.start ELSE load.first) /\ load'.last = load.end
  BY <1>0, <1>2 DEF CloseFile, Loads
<1>5. /\ StagedFiles' = StagedFiles \cup {f} /\ load'.staged # <<>>
      /\ load'.staged[Len(load'.staged)] = f
      /\ load'.staged[1] = IF load.staged = <<>> THEN f ELSE load.staged[1]
  BY <1>0, <1>3, <1>4, StagedGrows
<1>6. Pending' = Pending
  BY <1>1, PendingSame
<1>7. LogInv'
  BY <1>1, <1>6, LogSame DEF RangeInv
<1>8. Refused'
  BY <1>1, <1>6 DEF RangeInv, LoadInv, Refused, Checking, Loading
<1>9. /\ load.start \in Nat /\ load.end \in Nat /\ load.first \in Nat /\ load.last \in Nat
      /\ 1 <= load.start /\ load.start < load.end
      /\ load.first # 0 => load.last = load.start
      /\ load.end = Resume
      /\ load.group # <<>> => /\ 1 <= load.group[1] /\ load.group[1] < load.group[2]
                               /\ load.group[2] = seq + 1
  BY <1>0, <1>1 DEF RangeInv, LoadInv, Reserved, Loads, Tip, Loading
<1>a. load.end <= seq + 1
  <2>1. CASE load.group = <<>>
    BY <1>0, <1>9, <2>1 DEF Resume
  <2>2. CASE load.group # <<>>
    <3>1. load.group[1] \in Nat /\ load.group[2] \in Nat
      BY <1>0, <2>2 DEF Loads
    <3> QED
      BY <1>0, <1>1, <1>9, <2>2, <3>1 DEF Resume
  <2> QED
    BY <2>1, <2>2
<1>b. /\ load.first = 0 <=> load.last = 0
      /\ load.first <= load.last
      /\ load.first = 0 => load.staged = <<>>
      /\ \A o \in Nat : load.first # 0 /\ load.first <= o /\ o < load.last
             => InTable(o) \/ \E g \in StagedFiles : Holds(g, o)
  BY <1>1 DEF RangeInv, LoadInv, Gathered, Loading
<1>c. Reserved'
  <2>1. Tip' = load.end
    BY <1>4 DEF Tip
  <2>2. Resume' = Resume
    BY <1>1, <1>4 DEF Resume
  <2> QED
    BY <1>1, <1>4, <1>9, <2>1, <2>2 DEF Reserved
<1>d. Gathered'
  <2>1. /\ load'.first # 0 /\ load'.last # 0 /\ load'.first <= load'.last /\ load'.last <= seq' + 1
    BY <1>1, <1>4, <1>9, <1>a, <1>b
  <2>2. ASSUME NEW o \in Nat, load'.first <= o, o < load'.last
        PROVE  InTable(o)' \/ \E g \in StagedFiles' : Holds(g, o)
    <3>1. CASE load.start <= o
      BY <1>3, <1>4, <1>5, <2>2, <3>1 DEF Holds
    <3>2. CASE ~(load.start <= o)
      <4>1. load.first # 0 /\ load.first <= o /\ o < load.last
        BY <1>4, <1>9, <2>2, <3>2
      <4>2. InTable(o) \/ \E g \in StagedFiles : Holds(g, o)
        BY <1>b, <4>1
      <4> QED
        BY <1>1, <1>5, <4>2 DEF InTable
    <3> QED
      BY <3>1, <3>2
  <2> QED
    BY <1>5, <2>1, <2>2 DEF Gathered
<1>e. Staged'
  <2>1. /\ \A g \in StagedFiles : 1 <= g.start /\ g.start < g.end /\ g.end <= load.last
        /\ \A g \in StagedFiles : BatchStart <= g.start
        /\ \A g, h \in StagedFiles : g = h \/ Apart(g, h)
    BY <1>1 DEF RangeInv, LoadInv, Staged, Loading
  <2>2. \A g \in StagedFiles : g \in Files /\ g.end <= f.start /\ g.start <= f.start
    <3> SUFFICES ASSUME NEW g \in StagedFiles PROVE g.end <= f.start /\ g.start <= f.start
      BY <1>0
    <3>1. load.staged # <<>>
      BY DEF StagedFiles
    <3>2. load.last = load.start
      BY <1>9, <1>b, <3>1
    <3>3. g \in Files /\ g.start < g.end /\ g.end <= load.last
      BY <1>0, <2>1
    <3> QED
      BY <1>3, <1>9, <3>2, <3>3 DEF Files
  <2>3. \A g \in StagedFiles' : 1 <= g.start /\ g.start < g.end /\ g.end <= load'.last
    <3>1. 1 <= f.start /\ f.start < f.end /\ f.end <= load'.last
      BY <1>3, <1>4, <1>9
    <3>2. \A g \in StagedFiles : g.end <= load'.last
      BY <1>3, <1>4, <1>9, <2>2 DEF Files
    <3> QED
      BY <1>5, <2>1, <3>1, <3>2
  <2>4. \A g \in StagedFiles' : BatchStart' <= g.start
    <3>1. CASE load.staged = <<>>
      <4>1. StagedFiles = {}
        BY <3>1 DEF StagedFiles
      <4>2. BatchStart' = f.start
        BY <1>5, <3>1 DEF BatchStart
      <4> QED
        BY <1>3, <1>5, <4>1, <4>2 DEF Files
    <3>2. CASE load.staged # <<>>
      <4>1. BatchStart' = BatchStart
        BY <1>5, <3>2 DEF BatchStart
      <4>2. load.staged[1] \in StagedFiles
        BY <1>0, <3>2 DEF StagedFiles, Loads
      <4>3. BatchStart <= f.start
        BY <2>2, <4>2 DEF BatchStart
      <4> QED
        BY <1>5, <2>1, <4>1, <4>3
    <3> QED
      BY <3>1, <3>2
  <2>5. BatchEnd' = load'.last
    BY <1>3, <1>4, <1>5 DEF BatchEnd
  <2>6. \A g, h \in StagedFiles' : g = h \/ Apart(g, h)
    BY <1>5, <2>1, <2>2 DEF Apart
  <2> QED
    BY <2>3, <2>4, <2>5, <2>6 DEF Staged
<1> QED
  BY <1>7, <1>8, <1>c, <1>d, <1>e DEF RangeInv, LoadInv

\* A batch that register lets through lies above the whole table.
LEMMA BatchAbove ==
    ASSUME NameInv, RangeInv, pc = "register", ~Straddles
    PROVE  \A f \in table, g \in StagedFiles : f.end <= g.start
<1> SUFFICES ASSUME NEW f \in table, NEW g \in StagedFiles PROVE f.end <= g.start
  OBVIOUS
<1>0. load \in Loads /\ f \in Files /\ g \in Files
  BY StagedType DEF NameInv, Shapes
<1>1. load.staged # <<>>
  BY DEF NameInv, Batched
<1>2. load.staged[1] \in StagedFiles
  BY <1>0, <1>1 DEF StagedFiles, Loads
<1>3. BatchStart \in Nat
  BY <1>2, StagedType DEF NameInv, Shapes, BatchStart, Files
<1>4. BatchStart <= g.start
  BY DEF RangeInv, LoadInv, Staged, Loading
<1>5. SpanEnd \in Nat /\ f.end <= SpanEnd
  BY SpanEndFacts DEF RangeInv, LogInv
<1>6. SpanEnd <= BatchStart
  BY <1>3, <1>5 DEF Straddles
<1> QED
  BY <1>0, <1>3, <1>4, <1>5, <1>6 DEF Files

\* The batch lands.
LEMMA BatchLands ==
    ASSUME NameInv, RangeInv, pc = "register", ~Straddles, table' = table \cup StagedFiles,
           UNCHANGED <<seq, buffer, open, extent, through, acked, sealer>>
    PROVE  LogInv'
<1>0. /\ Pending = {} /\ open = 0 /\ sealer.owner = 0 /\ seq \in Nat
      /\ StagedFiles \subseteq Files /\ table \subseteq Files
  BY NothingWaits, StagedType DEF Loading, NameInv, Shapes
<1>1. Pending' = Pending
  BY PendingSame
<1>2. \A f \in table, g \in StagedFiles : f.end <= g.start
  BY BatchAbove
<1>3. /\ \A f \in StagedFiles : 1 <= f.start /\ f.start < f.end /\ f.end <= load.last
      /\ \A f, g \in StagedFiles : f = g \/ Apart(f, g)
  BY DEF RangeInv, LoadInv, Staged, Loading
<1>4. load.last <= seq + 1 /\ load.last \in Nat
  BY DEF RangeInv, LoadInv, Gathered, Loading, NameInv, Shapes, Loads
<1>5. \A f \in StagedFiles : f.end <= seq + 1
  BY <1>0, <1>3, <1>4 DEF Files
<1>6. Tabled'
  <2>1. \A f \in table' : 1 <= f.start /\ f.start < f.end /\ f.end <= seq + 1
    BY <1>3, <1>5 DEF RangeInv, LogInv, Tabled
  <2>2. \A f, g \in table' : f = g \/ Apart(f, g)
    BY <1>2, <1>3 DEF RangeInv, LogInv, Tabled, Apart
  <2> QED
    BY <2>1, <2>2 DEF RangeInv, LogInv, Tabled
<1>7. Queued' /\ Growing' /\ Sealing'
  BY <1>0, <1>1 DEF Queued, Growing, Sealing
<1>8. Placed'
  BY <1>1 DEF RangeInv, LogInv, Placed, InTable, Waiting
<1> QED
  BY <1>6, <1>7, <1>8 DEF LogInv

\* Register commits the batch, or declines a range the table has passed.
LEMMA RegisterRange ==
    ASSUME NameInv, RangeInv, RegisterBatch
    PROVE  RangeInv'
<1>1. UNCHANGED <<seq, buffer, open, extent, through, acked, sealer, load>> /\ pc = "register"
  BY DEF RegisterBatch, rows, others
<1>2. CASE Covered \/ Straddles
  <2>1. table' = table /\ pc' = "declined"
    BY <1>2 DEF RegisterBatch, Go
  <2> QED
    BY <1>1, <2>1, PendingSame, LogSame, LoadIdle DEF RangeInv, PC, Loading, Checking
<1>3. CASE ~(Covered \/ Straddles)
  <2>1. table' = table \cup StagedFiles /\ pc' = "record"
    BY <1>3 DEF RegisterBatch, Go
  <2>2. LogInv'
    BY <1>1, <1>3, <2>1, BatchLands
  <2>3. Pending' = Pending /\ StagedFiles' = StagedFiles
    BY <1>1, PendingSame, StagedSame
  <2>4. Refused'
    BY <1>1, <2>1, <2>3 DEF RangeInv, LoadInv, Refused, Checking, Loading
  <2>5. Reserved'
    BY <1>1, <2>1 DEF RangeInv, LoadInv, Reserved, Tip, Resume, Loading
  <2>6. Gathered'
    <3>1. \A o : InTable(o) => InTable(o)'
      BY <2>1 DEF InTable
    <3> QED
      BY <1>1, <2>1, <2>3, <3>1 DEF RangeInv, LoadInv, Gathered, Loading
  <2>7. Staged'
    BY <2>1 DEF Staged
  <2> QED
    BY <2>2, <2>4, <2>5, <2>6, <2>7 DEF RangeInv, LoadInv
<1> QED
  BY <1>2, <1>3

\* A read, a write or a commit raises; the commit may have landed.
LEMMA FailRange ==
    ASSUME NameInv, RangeInv, FailLoad
    PROVE  RangeInv'
<1>1. UNCHANGED <<seq, buffer, open, extent, through, acked, sealer, load>> /\ pc' = "abandon"
  BY DEF FailLoad, rows, others, Go
<1>2. LoadInv'
  BY <1>1, LoadIdle DEF PC, Loading, Checking
<1>3. \/ table' = table
      \/ pc = "register" /\ ~Straddles /\ table' = table \cup StagedFiles
  BY DEF FailLoad
<1>4. LogInv'
  BY <1>1, <1>3, PendingSame, LogSame, BatchLands DEF RangeInv
<1> QED
  BY <1>2, <1>4 DEF RangeInv

\* A committed file leaves the batch: the table has it.
LEMMA UnclaimRange ==
    ASSUME NameInv, RangeInv, UnclaimFile
    PROVE  RangeInv'
<1>0. load \in Loads /\ load.path = 0
  BY DEF NameInv, Shapes, Writing, UnclaimFile
<1>1. /\ UNCHANGED <<seq, buffer, open, extent, table, through, acked, sealer>> /\ pc = "unclaim"
      /\ pc' = IF Len(load.staged) > 1 THEN "record" ELSE IF load.group = <<>> THEN "loaded" ELSE "next"
  BY DEF UnclaimFile, rows, others, Go
<1>2. /\ load'.path = load.path /\ load'.staged = Tail(load.staged) /\ load'.group = load.group
      /\ load'.first = load.first /\ load'.last = load.last
  BY <1>0 DEF UnclaimFile, Loads
<1>3. load.staged # <<>> /\ StagedFiles \subseteq table
  BY <1>1 DEF NameInv, Batched
<1>4. StagedFiles' \subseteq StagedFiles /\ (load'.staged # <<>> <=> Len(load.staged) > 1)
  BY <1>0, <1>2, <1>3, StagedShrinks
<1>5. Pending' = Pending
  BY <1>1, PendingSame
<1>6. LogInv'
  BY <1>1, <1>5, LogSame DEF RangeInv
<1>7. Refused'
  BY <1>1, <1>5 DEF RangeInv, LoadInv, Refused, Checking, Loading
<1>8. Reserved'
  <2>1. Tip' = Tip /\ Resume' = Resume
    BY <1>1, <1>2, <1>0 DEF Tip, Resume
  <2> QED
    BY <1>0, <1>1, <1>2, <2>1 DEF RangeInv, LoadInv, Reserved, Loading
<1>9. /\ load.first = 0 <=> load.last = 0
      /\ load.first <= load.last /\ load.last <= seq + 1 /\ load.first # 0
      /\ \A o \in Nat : load.first # 0 /\ load.first <= o /\ o < load.last
             => InTable(o) \/ \E f \in StagedFiles : Holds(f, o)
  BY <1>1, <1>3 DEF RangeInv, LoadInv, Gathered, Loading
<1>a. Gathered'
  <2>1. \A o \in Nat : load.first <= o /\ o < load.last => InTable(o)'
    BY <1>1, <1>3, <1>9 DEF InTable
  <2> QED
    BY <1>1, <1>2, <1>9, <2>1 DEF Gathered
<1>b. Staged'
  <2>1. pc' = "next" => load'.staged = <<>>
    BY <1>1, <1>4
  <2>2. pc' = "next" => StagedFiles' = {}
    BY <2>1, StagedNone
  <2> QED
    BY <1>1, <2>1, <2>2 DEF Staged
<1> QED
  BY <1>6, <1>7, <1>8, <1>a, <1>b DEF RangeInv, LoadInv

\* The range returned is in the table.
LEMMA LoadedRange ==
    ASSUME NameInv, RangeInv, Loaded
    PROVE  RangeInv'
<1>0. load \in Loads /\ seq \in Nat
  BY DEF NameInv, Shapes
<1>1. /\ UNCHANGED <<seq, buffer, open, extent, table, through, sealer, load>> /\ pc = "loaded"
      /\ pc' = "release" /\ acked' = acked \cup (load.first .. load.last - 1)
  BY DEF Loaded, rows, rest, others, Go
<1>2. LoadInv'
  BY <1>1, LoadIdle DEF PC, Loading, Checking
<1>3. StagedFiles = {}
  BY <1>1 DEF NameInv, Batched, StagedFiles
<1>4. /\ load.first = 0 <=> load.last = 0
      /\ load.last <= seq + 1 /\ load.first \in Nat /\ load.last \in Nat
      /\ \A o \in Nat : load.first # 0 /\ load.first <= o /\ o < load.last => InTable(o)
  BY <1>0, <1>1, <1>3 DEF RangeInv, LoadInv, Gathered, Loading, Loads
<1>5. \A o \in load.first .. load.last - 1 : o \in 1..seq /\ InTable(o)
  <2> SUFFICES ASSUME NEW o \in load.first .. load.last - 1 PROVE o \in 1..seq /\ InTable(o)
    OBVIOUS
  <2>1. load.first # 0 /\ o \in Nat /\ load.first <= o /\ o < load.last
    BY <1>4
  <2>2. o \in 1..seq
    BY <1>0, <1>4, <2>1
  <2> QED
    BY <1>4, <2>1, <2>2
<1>6. Pending' = Pending
  BY <1>1, PendingSame
<1>7. Tabled' /\ Queued' /\ Growing' /\ Sealing'
  BY <1>1, <1>6 DEF RangeInv, LogInv, Tabled, Queued, Growing, Sealing
<1>8. Placed'
  <2>1. \A o : InTable(o)' = InTable(o) /\ Waiting(o)' = Waiting(o)
    BY <1>1, <1>6 DEF InTable, Waiting
  <2>2. acked' \subseteq 1..seq'
    BY <1>1, <1>5 DEF RangeInv, LogInv, Placed
  <2> QED
    BY <1>1, <1>5, <2>1, <2>2 DEF RangeInv, LogInv, Placed
<1> QED
  BY <1>2, <1>7, <1>8 DEF RangeInv, LogInv


\* A checkpoint goes on or gives up; a file goes on; a file is recorded, with a
\* name, and so is no group that waits.
LEMMA GoesOnRange ==
    ASSUME NameInv, RangeInv, GrowFile \/ RenewGroup \/ RenewCommit \/ RecordFile
    PROVE  RangeInv'
<1>1. UNCHANGED <<seq, buffer, open, table, through, acked, sealer, load>>
  BY DEF GrowFile, RenewGroup, RenewCommit, Checkpoint, RecordFile, rows, rest, others
<1>2. Pending' = Pending
  <2>1. CASE RecordFile
    <3>1. load \in Loads /\ load.staged # <<>>
      BY <2>1 DEF RecordFile, NameInv, Shapes, Batched
    <3>2. Head(load.staged) \in StagedFiles
      BY <3>1 DEF StagedFiles, Loads
    <3>3. Head(load.staged).path # 0
      BY <3>2 DEF NameInv, Spared, Shapes, Names
    <3> QED
      BY <2>1, <3>3 DEF RecordFile, Pending
  <2>2. CASE UNCHANGED extent
    BY <2>2, PendingSame
  <2> QED
    BY <2>1, <2>2 DEF GrowFile, RenewGroup, RenewCommit, Checkpoint, rest
<1>3. CASE pc' = "abandon"
  <2>1. LogInv'
    BY <1>1, <1>2, LogSame DEF RangeInv
  <2>2. LoadInv'
    BY <1>3, LoadIdle DEF PC, Loading, Checking
  <2> QED
    BY <2>1, <2>2 DEF RangeInv
<1>4. CASE pc' # "abandon"
  <2>1. \/ pc = "next" /\ pc' = "write" /\ load.path # 0 /\ load.group # <<>>
        \/ pc = "renew" /\ pc' = "reserve"
        \/ pc = "commit" /\ pc' = "register"
        \/ pc = "record" /\ pc' = "unclaim"
    BY <1>4 DEF GrowFile, RenewGroup, RenewCommit, Checkpoint, RecordFile, Go
  <2> QED
    BY <1>1, <1>2, <2>1, MovesOnRange
<1> QED
  BY <1>3, <1>4

\* The ranges half holds initially.
LEMMA RangeStart ==
    ASSUME Init
    PROVE  RangeInv
<1>1. NoSealer.owner = 0 /\ Pending = {}
  BY DEF Init, NoSealer, Pending
<1>2. LogInv
  BY <1>1 DEF Init, LogInv, Tabled, Queued, Growing, Placed, Sealing
<1>3. LoadInv
  BY DEF Init, LoadInv, Refused, Reserved, Gathered, Staged, Loading, Checking
<1> QED
  BY <1>2, <1>3 DEF RangeInv

\* Every step keeps the ranges half.
LEMMA RangeStep ==
    ASSUME ~CutBesideLoad, NameInv, RangeInv, [Next]_vars
    PROVE  RangeInv'
<1>1. CASE Next
  BY <1>1, ExtendRange, CloseGroupRange, SealBeginRange, SealEndRange, OthersRange, PublishRange,
     EvictRange, LoadEndsRange, StartRange, RefuseRange, GoesOnRange, NextGroupRange, OpenFileRange,
     WriteRange, CloseFileRange, RegisterRange, FailRange, UnclaimRange, LoadedRange
     DEF Next, LoadStep, OtherStep
<1>2. CASE UNCHANGED vars
  <2>1. UNCHANGED <<seq, buffer, open, extent, table, through, acked, sealer, pc, load>>
    BY <1>2 DEF vars, rows, rest, local, others
  <2>2. Pending' = Pending
    BY <2>1, PendingSame
  <2>3. Refused'
    BY <2>1, <2>2 DEF RangeInv, LoadInv, Refused
  <2> QED
    BY <2>1, <2>2, <2>3, LogSame, LoadStays DEF RangeInv
<1> QED
  BY <1>1, <1>2

\* No offset above the bound of the model is issued.
Bounded == seq <= MaxOffset

\* Every step keeps to it.
LEMMA BoundedStep ==
    ASSUME NameInv, Bounded, [Next]_vars
    PROVE  Bounded'
<1>1. ASSUME NEW k \in 1..MaxBatch, Extend(k) PROVE Bounded'
  BY <1>1 DEF Extend, AppendRows, Bounded
<1>2. CASE NextGroup
  <2>1. Floor = seq
    BY FloorIsSeq DEF NameInv, Shapes
  <2> QED
    BY <1>2, <2>1 DEF NextGroup, Reserve, Bounded
<1>3. CASE UNCHANGED seq
  BY <1>3 DEF Bounded
<1> QED
  BY <1>1, <1>2, <1>3
     DEF Next, LoadStep, OtherStep, StartLoad, RefuseQueued, RefuseSealing, RefuseOpen, Refuse, OpenFile,
         GrowFile, WriteGroup, RenewGroup, Checkpoint, CloseFile, RenewCommit, RegisterBatch, RecordFile,
         UnclaimFile, Loaded, FailLoad, Abandon, ClearAbandoned, ReleaseLoad, KillLoad, CloseOpenGroup,
         SealBegin, SealLost, SealEnd, RecoverRead, RecoverQueue, RecoverClear, Publish, EvictBuffer,
         EvictRows, DrainLook, DrainUnlink, Lapse, rows, rest, vars

\* The inductive invariant.
IngestInv == NameInv /\ RangeInv /\ Bounded

\* It holds initially.
LEMMA IngestStart ==
    ASSUME Init
    PROVE  IngestInv
<1>1. Bounded
  BY RowsAssumption DEF Init, Bounded
<1> QED
  BY <1>1, NamesStart, RangeStart DEF IngestInv

\* Every step keeps it.
LEMMA IngestStep ==
    ASSUME ~CutBesideLoad, IngestInv, [Next]_vars
    PROVE  IngestInv'
BY NamesStep, RangeStep, BoundedStep DEF IngestInv

\* Whether a read returns an offset.
Shown(o) == InTable(o) \/ (o \in buffer /\ \A f \in table : f.end <= o)

\* A read returns an offset that it shows once, and no other.
LEMMA ServedOnce ==
    ASSUME IngestInv, NEW o \in 1..MaxOffset
    PROVE  Served[o] = IF Shown(o) THEN 1 ELSE 0
<1>0. table \subseteq Files /\ o \in Nat
  BY DEF IngestInv, NameInv, Shapes
<1>1. PICK S : S = {f \in table : f.start <= o /\ o < f.end}
  OBVIOUS
<1>2. Served[o] = Cardinality(S) + (IF o \in buffer /\ o >= SpanEnd THEN 1 ELSE 0)
  BY <1>1 DEF Served
<1>3. /\ SpanEnd \in Nat /\ \A f \in table : f.end <= SpanEnd
      /\ SpanEnd # 0 => \E f \in table : f.end = SpanEnd
  BY SpanEndFacts DEF IngestInv, RangeInv, LogInv
<1>4. o >= SpanEnd <=> \A f \in table : f.end <= o
  BY <1>0, <1>3 DEF Files
<1>5. CASE InTable(o)
  <2>1. PICK f \in table : Holds(f, o)
    BY <1>5 DEF InTable
  <2>2. S = {f}
    <3> SUFFICES ASSUME NEW g \in S PROVE g = f
      BY <1>1, <2>1 DEF Holds
    <3>1. g \in table /\ Holds(g, o)
      BY <1>1 DEF Holds
    <3>2. g = f \/ Apart(g, f)
      BY <3>1 DEF IngestInv, RangeInv, LogInv, Tabled
    <3> QED
      BY <1>0, <2>1, <3>1, <3>2 DEF Holds, Apart, Files
  <2>3. Cardinality(S) = 1
    BY <2>2, FS_Singleton
  <2>4. ~(o >= SpanEnd)
    BY <1>0, <1>4, <2>1 DEF Holds, Files
  <2> QED
    BY <1>2, <1>5, <2>3, <2>4 DEF Shown
<1>6. CASE ~InTable(o)
  <2>1. S = {}
    BY <1>1, <1>6 DEF InTable, Holds
  <2>2. Cardinality(S) = 0
    BY <2>1, FS_EmptySet
  <2> QED
    BY <1>2, <1>4, <1>6, <2>2 DEF Shown
<1> QED
  BY <1>5, <1>6

\* Every acknowledged offset is shown: what waits is in the buffer, above the table.
LEMMA AckedShown ==
    ASSUME IngestInv, NEW o \in acked
    PROVE  Shown(o) /\ o \in 1..MaxOffset
<1>0. /\ o \in 1..seq /\ seq \in Nat /\ seq <= MaxOffset /\ MaxOffset \in Nat
      /\ table \subseteq Files /\ Pending \subseteq Files /\ open \in Nat
  BY RowsAssumption DEF IngestInv, NameInv, Shapes, RangeInv, LogInv, Placed, Bounded, Pending
<1>1. InTable(o) \/ Waiting(o)
  BY DEF IngestInv, RangeInv, LogInv, Placed
<1>2. ASSUME NEW g \in Pending, Holds(g, o) PROVE Shown(o)
  <2>1. o \in buffer /\ \A f \in table : f.end <= g.start
    BY <1>0, <1>2 DEF IngestInv, RangeInv, LogInv, Queued
  <2>2. \A f \in table : f.end <= o
    BY <1>0, <1>2, <2>1 DEF Holds, Files
  <2> QED
    BY <2>1, <2>2 DEF Shown
<1>3. ASSUME open # 0, open <= o PROVE Shown(o)
  <2>1. o \in buffer /\ \A f \in table : f.end <= open
    BY <1>0, <1>3 DEF IngestInv, RangeInv, LogInv, Growing
  <2>2. \A f \in table : f.end <= o
    BY <1>0, <1>3, <2>1 DEF Files
  <2> QED
    BY <2>1, <2>2 DEF Shown
<1>4. Shown(o)
  BY <1>1, <1>2, <1>3 DEF Waiting, Shown
<1> QED
  BY <1>0, <1>4

\* Every offset that an append or a load has acknowledged is returned by a read,
\* once, from the table or from the buffer above it.
THEOREM AcknowledgedIsServed == ASSUME ~CutBesideLoad PROVE Spec => []AckedServed
<1>1. IngestInv => AckedServed
  BY AckedShown, ServedOnce DEF AckedServed
<1>2. Spec => []IngestInv
  BY IngestStart, IngestStep, PTL DEF Spec
<1> QED
  BY <1>1, <1>2, PTL

\* A step that takes no row out of view, and brings in only rows above those
\* in view, is a step of the abstract log.
LEMMA NewOnTop ==
    ASSUME IngestInv, IngestInv',
           \A o \in 1..MaxOffset : Shown(o) => Shown(o)',
           \A o, q \in 1..MaxOffset : Shown(o)' /\ ~Shown(o) /\ Shown(q) => o > q
    PROVE  AbstractLog!LogNext
<1>1. \A o \in 1..MaxOffset : Served[o] = IF Shown(o) THEN 1 ELSE 0
  BY ServedOnce
<1>2. ASSUME NEW o \in 1..MaxOffset PROVE Served'[o] = IF Shown(o)' THEN 1 ELSE 0
  <2>1. (IngestInv /\ o \in 1..MaxOffset => Served[o] = IF Shown(o) THEN 1 ELSE 0)'
    BY ServedOnce, PTL
  <2> QED
    BY <1>2, <2>1
<1>3. PICK new : new = {o \in 1..MaxOffset : Served'[o] # Served[o]}
  OBVIOUS
<1>4. \A o \in new : o \in 1..MaxOffset /\ Shown(o)' /\ ~Shown(o) /\ Served'[o] = 1
  BY <1>1, <1>2, <1>3
<1>5. \A q \in AbstractLog!Seen : q \in 1..MaxOffset /\ Shown(q)
  BY <1>1 DEF AbstractLog!Seen
<1>6. \A o \in new, q \in AbstractLog!Seen : o > q
  BY <1>4, <1>5
<1>7. Served' = [o \in 1..MaxOffset |-> IF o \in new THEN 1 ELSE Served[o]]
  <2>1. PICK F : F = [o \in 1..MaxOffset |-> IF o \in new THEN 1 ELSE Served[o]]
    OBVIOUS
  <2>2. \A o \in 1..MaxOffset : Served'[o] = F[o]
    BY <1>3, <1>4, <2>1
  <2>3. Served' = [o \in 1..MaxOffset |-> Served'[o]]
    BY DEF Served
  <2>4. F = [o \in 1..MaxOffset |-> F[o]]
    BY <2>1
  <2> QED
    BY <2>1, <2>2, <2>3, <2>4
<1> QED
  BY <1>3, <1>6, <1>7 DEF AbstractLog!LogNext


\* The rows of an append come into view above all others.
LEMMA ExtendView ==
    ASSUME IngestInv, IngestInv', NEW k \in 1..MaxBatch, Extend(k)
    PROVE  AbstractLog!LogNext
<1>0. /\ seq \in Nat /\ k \in Nat /\ buffer \subseteq 1..seq /\ table \subseteq Files
      /\ \A f \in table : f.start < f.end /\ f.end <= seq + 1
  BY RowsAssumption DEF IngestInv, NameInv, Shapes, RangeInv, LogInv, Tabled
<1>1. buffer' = buffer \cup (seq + 1 .. seq + k) /\ table' = table
  BY DEF Extend, AppendRows
<1>2. \A o \in 1..MaxOffset : Shown(o) => Shown(o)'
  BY <1>1 DEF Shown, InTable
<1>3. \A o \in 1..MaxOffset : Shown(o)' /\ ~Shown(o) => o > seq
  BY <1>0, <1>1 DEF Shown, InTable
<1>4. \A q \in 1..MaxOffset : Shown(q) => q <= seq
  BY <1>0 DEF Shown, InTable, Holds, Files
<1>5. \A o, q \in 1..MaxOffset : Shown(o)' /\ ~Shown(o) /\ Shown(q) => o > q
  BY <1>0, <1>3, <1>4
<1> QED
  BY <1>2, <1>5, NewOnTop

\* So do those of a batch.
LEMMA BatchView ==
    ASSUME IngestInv, IngestInv', pc = "register", ~Straddles,
           table' = table \cup StagedFiles, buffer' = buffer
    PROVE  AbstractLog!LogNext
<1>0. /\ table \subseteq Files /\ StagedFiles \subseteq Files
  BY StagedType DEF IngestInv, NameInv, Shapes
<1>1. \A o \in acked : InTable(o)
  BY NothingWaits DEF IngestInv, Loading
<1>2. buffer \subseteq acked
  BY DEF IngestInv, RangeInv, LogInv, Placed
<1>3. \A q \in 1..MaxOffset : Shown(q) => InTable(q)
  BY <1>1, <1>2 DEF Shown
<1>4. \A o \in 1..MaxOffset : InTable(o) => InTable(o)'
  BY DEF InTable
<1>5. ASSUME NEW o \in 1..MaxOffset, Shown(o)', ~Shown(o), NEW q \in 1..MaxOffset, Shown(q)
      PROVE  o > q
  <2>1. ~InTable(o) /\ (o \in buffer => InTable(o))
    BY <1>1, <1>2, <1>5 DEF Shown
  <2>2. PICK g \in StagedFiles : Holds(g, o)
    BY <1>5, <2>1 DEF Shown, InTable
  <2>3. PICK f \in table : Holds(f, q)
    BY <1>3, <1>5 DEF InTable
  <2>4. f.end <= g.start
    BY BatchAbove DEF IngestInv
  <2>5. o \in Nat /\ q \in Nat /\ f \in Files /\ g \in Files
    BY <1>0
  <2> QED
    BY <2>2, <2>3, <2>4, <2>5 DEF Holds, Files
<1> QED
  BY <1>3, <1>4, <1>5, NewOnTop DEF Shown

\* A seal moves rows that were read from the buffer into the table.
LEMMA SealView ==
    ASSUME IngestInv, IngestInv', SealEnd
    PROVE  AbstractLog!LogNext
<1>0. /\ table \subseteq Files /\ Pending \subseteq Files /\ open \in Nat /\ seq \in Nat
  BY DEF IngestInv, NameInv, Shapes, Pending
<1>1. buffer' = buffer
  BY DEF SealEnd, rows
<1>2. PICK f \in Files :
        /\ table' = table \cup {f}
        /\ f.start < f.end
        /\ \A t \in table : t.end <= f.start
        /\ \A o \in Nat : Holds(f, o) => o \in buffer
        /\ \A h \in Pending : f.end <= h.start \/ (h.start = f.start /\ h.end = f.end)
        /\ open # 0 => f.end <= open
  BY SealLands DEF IngestInv
<1>3. ASSUME NEW o \in 1..MaxOffset, Shown(o) PROVE Shown(o)'
  <2>1. CASE InTable(o)
    BY <1>2, <2>1 DEF Shown, InTable
  <2>2. CASE ~InTable(o) /\ ~(f.end <= o)
    <3>1. o \in acked /\ Waiting(o)
      BY <1>3, <2>2 DEF Shown, IngestInv, RangeInv, LogInv, Placed
    <3>2. o \in Nat
      OBVIOUS
    <3>3. ~(open # 0 /\ open <= o)
      BY <1>0, <1>2, <2>2, <3>2 DEF Files
    <3>4. PICK h \in Pending : Holds(h, o)
      BY <3>1, <3>3 DEF Waiting
    <3>5. h \in Files
      BY <1>0
    <3>6. Holds(f, o)
      BY <1>2, <2>2, <3>2, <3>4, <3>5 DEF Holds, Files
    <3> QED
      BY <1>2, <3>6 DEF Shown, InTable
  <2>3. CASE ~InTable(o) /\ f.end <= o
    BY <1>1, <1>2, <1>3, <2>3 DEF Shown
  <2> QED
    BY <2>1, <2>2, <2>3
<1>4. ASSUME NEW o \in 1..MaxOffset, Shown(o)' PROVE Shown(o)
  <2>1. CASE Holds(f, o)
    <3>1. o \in buffer
      BY <1>2, <2>1
    <3>2. \A t \in table : t.end <= o
      BY <1>0, <1>2, <2>1 DEF Holds, Files
    <3> QED
      BY <3>1, <3>2 DEF Shown
  <2>2. CASE ~Holds(f, o)
    BY <1>1, <1>2, <1>4, <2>2 DEF Shown, InTable
  <2> QED
    BY <2>1, <2>2
<1> QED
  BY <1>3, <1>4, NewOnTop

\* An eviction takes nothing out of view.
LEMMA EvictView ==
    ASSUME IngestInv, IngestInv', EvictBuffer
    PROVE  AbstractLog!LogNext
<1>0. /\ table \subseteq Files /\ through \in Nat
      /\ through # 0 => \E f \in table : f.end = through + 1
  BY DEF IngestInv, NameInv, Shapes, RangeInv, LogInv, Tabled
<1>1. table' = table /\ buffer' \subseteq buffer
  BY DEF EvictBuffer, EvictRows, rest
<1>a. PICK a, b \in 1..through + 1 : buffer' = {r \in buffer : r < a \/ r >= b}
  BY DEF EvictBuffer, EvictRows
<1>b. \A r \in buffer : r \in Nat /\ r >= through + 1 => r \in buffer'
  BY <1>0, <1>a
<1>2. \A o \in 1..MaxOffset : o \in buffer /\ (\A f \in table : f.end <= o) => o \in buffer'
  BY <1>0, <1>b
<1>3. \A o \in 1..MaxOffset : Shown(o) => Shown(o)'
  BY <1>1, <1>2 DEF Shown, InTable
<1>4. \A o \in 1..MaxOffset : Shown(o)' => Shown(o)
  BY <1>1 DEF Shown, InTable
<1> QED
  BY <1>3, <1>4, NewOnTop

\* Every step is a step of the abstract log, or leaves the view as it was.
LEMMA LogStep ==
    ASSUME IngestInv, IngestInv', [Next]_vars
    PROVE  [AbstractLog!LogNext]_Served
<1>1. CASE Next
  <2>1. CASE UNCHANGED <<table, buffer>>
    <3>1. \A o \in 1..MaxOffset : (Shown(o) => Shown(o)') /\ (Shown(o)' => Shown(o))
      BY <2>1 DEF Shown, InTable
    <3> QED
      BY <3>1, NewOnTop
  <2>2. CASE RegisterBatch \/ FailLoad
    <3>1. UNCHANGED table \/ (pc = "register" /\ ~Straddles /\ table' = table \cup StagedFiles)
      BY <2>2 DEF RegisterBatch, FailLoad
    <3>2. buffer' = buffer
      BY <2>2 DEF RegisterBatch, FailLoad, rows
    <3> QED
      BY <2>1, <3>1, <3>2, BatchView
  <2> QED
    BY <1>1, <2>1, <2>2, ExtendView, SealView, EvictView
       DEF Next, LoadStep, OtherStep, StartLoad, RefuseQueued, RefuseSealing, RefuseOpen, Refuse, OpenFile,
           GrowFile, WriteGroup, RenewGroup, Checkpoint, CloseFile, RenewCommit, RecordFile, NextGroup,
           Reserve, UnclaimFile, Loaded, Abandon, ClearAbandoned, ReleaseLoad, KillLoad, CloseOpenGroup,
           SealBegin, SealLost, RecoverRead, RecoverQueue, RecoverClear, Publish, DrainLook, DrainUnlink,
           Lapse, rows, rest
<1>2. CASE UNCHANGED vars
  BY <1>2 DEF Served, SpanEnd, vars, rows, rest
<1> QED
  BY <1>1, <1>2

\* A load beside sealers, evictions, recoveries and drains implements the
\* abstract log: its rows come into view in whole batches, above every row in
\* view before, and stay in view, once.
THEOREM LoadsKeepTheLog == ASSUME ~CutBesideLoad PROVE Spec => IngestIsALog
<1>1. Init => AbstractLog!LogInit
  <2>1. SUFFICES ASSUME Init PROVE Served = [o \in 1..MaxOffset |-> 0]
    BY DEF AbstractLog!LogInit
  <2>2. IngestInv
    BY <2>1, IngestStart
  <2>3. \A o \in 1..MaxOffset : ~Shown(o)
    BY <2>1 DEF Init, Shown, InTable
  <2>4. \A o \in 1..MaxOffset : Served[o] = 0
    BY <2>2, <2>3, ServedOnce
  <2>5. Served = [o \in 1..MaxOffset |-> Served[o]]
    BY DEF Served
  <2> QED
    BY <2>4, <2>5
<1>2. Spec => []IngestInv
  BY IngestStart, IngestStep, PTL DEF Spec
<1>3. IngestInv /\ IngestInv' /\ [Next]_vars => [AbstractLog!LogNext]_Served
  BY LogStep
<1> QED
  BY <1>1, <1>2, <1>3, PTL DEF Spec, IngestIsALog, AbstractLog!LogSpec

=============================================================================
