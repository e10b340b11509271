--------------------------- MODULE Reclaim_proofs ---------------------------
(***************************************************************************)
(* LiveOnDisk, DataNamed and DrainSparesReaders for every retention, every *)
(* number of commits, ticks and crashes.  A file's name carries the number *)
(* of the commit that wrote it (Numbered), so what a commit under way has  *)
(* written is told apart from everything a snapshot or the queue names;    *)
(* its data file is in no queue and its metadata is younger than the age   *)
(* the sweep spares (Writing); the drain and the sweep hold nothing that   *)
(* is referenced when they come to delete it (Removing); and data that only*)
(* older snapshots name is queued (Superseded), so that their expiry       *)
(* strands nothing.                                                        *)
(***************************************************************************)
EXTENDS Reclaim, TLAPS

\* What the variables range over.
Path == Nat \X Kinds
Snapshots == [id : Nat, at : Nat, folded : BOOLEAN, files : SUBSET Path]
Views == [snaps : SUBSET Snapshots, head : Nat]
\* The data files of a set, a commit under way and the metadata it writes.
Data(files) == {f \in files : ~IsMetadata(f)}
Busy == writer.pc \in {"queued", "written"}
Fresh == {<<writer.id, "man">>, <<writer.id, "list">>}

\* A copy of the table: it has its current snapshot, the newest, and each snapshot
\* names only files written up to its own commit.
ViewOK(view) ==
    /\ \E s \in view.snaps : s.id = view.head
    /\ \A s \in view.snaps : s.id <= view.head /\ \A f \in s.files : f[1] <= s.id

\* Commits are numbered in order, and files by the commit that wrote them.
Numbered ==
    /\ ViewOK(catalog) /\ ViewOK(mem) /\ mem.head <= catalog.head /\ catalog.head <= commits
    /\ \A s, t \in catalog.snaps : s.id = t.id => s = t
    /\ \A f \in DOMAIN disk \cup DOMAIN queue \cup sweep.files : f[1] <= commits
    /\ \A f \in DOMAIN queue : IsMetadata(f) => f[1] <= catalog.head
    /\ Busy => writer.id = commits /\ catalog.head < writer.id /\ writer.out[1] <= writer.id
    /\ writer.pc = "queued" =>
          \A f \in DOMAIN disk \cup sweep.files : IsMetadata(f) => f[1] < writer.id

\* What a commit under way has written, and what it will land on.
Writing ==
    /\ Busy => /\ writer.out \in DOMAIN disk \ DOMAIN queue /\ ~IsMetadata(writer.out)
               /\ writer.old \subseteq Data(Current(catalog).files) \cap DOMAIN queue
    /\ writer.pc = "written" =>
          /\ writer.base = catalog.head /\ writer.snap.id = writer.id
          /\ writer.out \in writer.snap.files
          /\ writer.snap.files \subseteq Current(catalog).files \cup {writer.out} \cup Fresh
          /\ Data(Current(catalog).files) \subseteq writer.snap.files \cup writer.old
          /\ now - writer.snap.at <= MinAge
          /\ \A f \in Fresh : f \in DOMAIN disk /\ disk[f] = writer.snap.at
          /\ sweep.pc = "backlog" => sweep.files \cap Fresh = {}
    /\ writer.pc = "landed" => writer.out \in Data(Current(catalog).files)

\* What the drain and the sweep are about to delete is referenced by nothing, and
\* the drain is through with one pass before it reads the queue for the next.
Removing ==
    /\ due \subseteq DOMAIN queue /\ (due # {} => doomed = {})
    /\ doomed \subseteq DOMAIN queue /\ doomed \cap Referenced(catalog) = {}
    /\ \A f \in sweep.files : IsMetadata(f)
    /\ sweep.pc = "backlog" => sweep.files \cap Referenced(catalog) = {}

\* Data that only older snapshots name is queued.
Superseded == Data(Referenced(catalog)) \subseteq Current(catalog).files \cup DOMAIN queue

\* The type of the state.
Shapes ==
    /\ now \in Nat /\ commits \in Nat
    /\ catalog \in Views /\ mem \in Views
    /\ DOMAIN disk \subseteq Path /\ \A f \in DOMAIN disk : disk[f] \in Nat
    /\ DOMAIN queue \subseteq Path /\ \A f \in DOMAIN queue : queue[f] \in Nat
    /\ writer \in [pc : {"idle", "queued", "written", "landed"}, old : SUBSET Path, id : Nat,
                   out : Path, base : Nat, snap : Snapshots]
    /\ expirer \in [pc : {"idle", "queued", "expired"}, cutoff : Int, paths : SUBSET Path]
    /\ due \subseteq Path /\ doomed \subseteq Path /\ missed \subseteq Path
    /\ sweep \in [pc : {"idle", "listed", "backlog"}, files : SUBSET Path]
    /\ reader \in [at : Nat, files : SUBSET Path]

\* A file the reader resolved is the current snapshot's, or metadata of some live
\* snapshot, or waits for its stamp, or was dropped unqueued, or its grace began
\* after the reader did.
Spared(f) ==
    \/ f \in Current(catalog).files
    \/ IsMetadata(f) /\ f \in Referenced(catalog)
    \/ f \in Undated \cup missed
    \/ f \in DOMAIN queue => queue[f] >= reader.at

\* Every file of the reader is spared.
Served ==
    /\ reader.at <= now
    /\ \A f \in reader.files : Spared(f)

\* The inductive invariant, types apart, and with them.
Safe == Numbered /\ Writing /\ Removing /\ Superseded /\ LiveOnDisk /\ DataNamed

ReclaimInv == Shapes /\ Safe

-----------------------------------------------------------------------------

\* The types hold initially.
LEMMA ShapesStart == Init => Shapes
BY ReclaimAssumption DEF Init, Shapes, Views, Snapshots, Path, First, Kinds, NoFiles, NoSnapshot, IdleWriter,
   IdleExpirer, IdleSweep, NoReader

\* The current snapshot is one of the snapshots, the newest.
LEMMA CurrentFacts ==
    ASSUME Shapes, ViewOK(catalog)
    PROVE  /\ Current(catalog) \in catalog.snaps /\ Current(catalog).id = catalog.head
           /\ Current(catalog) \in Snapshots
           /\ Current(catalog).files \subseteq Referenced(catalog)
<1>1. Current(catalog) \in catalog.snaps /\ Current(catalog).id = catalog.head
  BY DEF ViewOK, Current, Snap
<1> QED  BY <1>1 DEF Shapes, Views, Referenced

\* What a commit builds on the current snapshot.
LEMMA BuiltType ==
    ASSUME Shapes, ViewOK(catalog), NEW id \in Nat, NEW out \in Path, NEW old
    PROVE  Built(id, out, old) \in Snapshots
<1>1. Current(catalog).files \subseteq Path
  BY CurrentFacts DEF Snapshots
<1>2. <<id, "man">> \in Path /\ <<id, "list">> \in Path
  BY DEF Path, Kinds
<1> QED  BY <1>1, <1>2 DEF Built, Snapshots, Shapes

\* What an expiry queues is metadata.
LEMMA ExpiringType ==
    ASSUME NEW snaps, snaps \subseteq Snapshots
    PROVE  ExpiringPaths(snaps) \subseteq Path /\ \A f \in ExpiringPaths(snaps) : IsMetadata(f)
<1>1. \A s \in snaps : <<s.id, "m0">> \in Path /\ s.files \subseteq Path
  BY DEF Path, Kinds, Snapshots
<1>2. \A s \in snaps : IsMetadata(<<s.id, "m0">>)
  BY DEF IsMetadata
<1> QED  BY <1>1, <1>2 DEF ExpiringPaths

\* The parts of the type that several lemmas are about.
QueueType == DOMAIN queue \subseteq Path /\ \A f \in DOMAIN queue : queue[f] \in Nat
DiskType == DOMAIN disk \subseteq Path /\ \A f \in DOMAIN disk : disk[f] \in Nat
WriterType ==
    writer \in [pc : {"idle", "queued", "written", "landed"}, old : SUBSET Path, id : Nat,
                out : Path, base : Nat, snap : Snapshots]
ExpirerType ==
    expirer \in [pc : {"idle", "queued", "expired"}, cutoff : Int, paths : SUBSET Path]

\* Buffer.enqueue_deletions: what is there keeps its stamp, the rest gets this one.
LEMMA EnqueuedType ==
    ASSUME Shapes, NEW files, files \subseteq Path, queue' = Enqueued(queue, files)
    PROVE  /\ QueueType'
           /\ DOMAIN queue' = DOMAIN queue \cup files
           /\ \A f \in DOMAIN queue : queue'[f] = queue[f]
           /\ \A f \in files \ DOMAIN queue : queue'[f] = now
<1>1. DOMAIN queue' = DOMAIN queue \cup files
  BY DEF Enqueued
<1>2. \A f \in DOMAIN queue \cup files : queue'[f] = IF f \in DOMAIN queue THEN queue[f] ELSE now
  BY DEF Enqueued
<1>3. QueueType'
  BY <1>1, <1>2 DEF QueueType, Shapes
<1> QED  BY <1>1, <1>2, <1>3

\* A restamp changes stamps alone.
LEMMA RestampedType ==
    ASSUME Shapes, NEW files, queue' = Restamped(queue, files)
    PROVE  /\ QueueType'
           /\ DOMAIN queue' = DOMAIN queue
           /\ \A f \in DOMAIN queue : queue'[f] = IF f \in files THEN now ELSE queue[f]
<1>1. DOMAIN queue' = DOMAIN queue
  BY DEF Restamped
<1>2. \A f \in DOMAIN queue : queue'[f] = IF f \in files THEN now ELSE queue[f]
  BY DEF Restamped
<1>3. QueueType'
  BY <1>1, <1>2 DEF QueueType, Shapes
<1> QED  BY <1>1, <1>2, <1>3

\* Files reach the disk.
LEMMA WrittenType ==
    ASSUME Shapes, NEW new, new \subseteq Path, disk' = Written(new)
    PROVE  /\ DiskType'
           /\ DOMAIN disk' = DOMAIN disk \cup new
           /\ \A f \in DOMAIN disk \ new : disk'[f] = disk[f]
           /\ \A f \in new : IsMetadata(f) => disk'[f] = now
<1>1. DOMAIN disk' = DOMAIN disk \cup new
  BY DEF Written
<1>2. \A f \in DOMAIN disk \cup new :
         disk'[f] = IF f \notin new THEN disk[f] ELSE IF IsMetadata(f) THEN now ELSE 0
  BY DEF Written
<1>3. DiskType'
  BY <1>1, <1>2 DEF DiskType, Shapes
<1> QED  BY <1>1, <1>2, <1>3

\* One file leaves the disk.
LEMMA UnlinkType ==
    ASSUME Shapes, NEW f, disk' = Restrict(disk, DOMAIN disk \ {f})
    PROVE  /\ DiskType'
           /\ DOMAIN disk' = DOMAIN disk \ {f}
           /\ \A x \in DOMAIN disk \ {f} : disk'[x] = disk[x]
<1>1. DOMAIN disk' = DOMAIN disk \ {f} /\ \A x \in DOMAIN disk \ {f} : disk'[x] = disk[x]
  BY DEF Restrict
<1> QED  BY <1>1 DEF DiskType, Shapes

\* One row leaves the queue.
LEMMA ForgetType ==
    ASSUME Shapes, NEW f, queue' = Restrict(queue, DOMAIN queue \ {f})
    PROVE  /\ QueueType'
           /\ DOMAIN queue' = DOMAIN queue \ {f}
           /\ \A x \in DOMAIN queue \ {f} : queue'[x] = queue[x]
<1>1. DOMAIN queue' = DOMAIN queue \ {f} /\ \A x \in DOMAIN queue \ {f} : queue'[x] = queue[x]
  BY DEF Restrict
<1> QED  BY <1>1 DEF QueueType, Shapes

\* Nobody at work is of the type.
LEMMA IdleTypes ==
    /\ IdleWriter \in [pc : {"idle", "queued", "written", "landed"}, old : SUBSET Path, id : Nat,
                       out : Path, base : Nat, snap : Snapshots]
    /\ NoSnapshot \in Snapshots
<1>1. NoSnapshot \in Snapshots
  BY DEF NoSnapshot, Snapshots
<1>2. <<0, "data">> \in Path
  BY DEF Path, Kinds
<1> QED  BY <1>1, <1>2 DEF IdleWriter

\* Every step keeps the types.
LEMMA ShapesStep ==
    ASSUME Shapes, ViewOK(catalog), Next
    PROVE  Shapes'
<1>1. CASE Tick
  <2>1. reader' \in {reader, NoReader} /\ NoReader \in [at : Nat, files : SUBSET Path]
    BY <1>1 DEF Tick, NoReader
  <2> QED  BY <1>1, <2>1 DEF Tick, Shapes
<1>2. CASE Supersede
  <2>1. PICK old \in {{}, {f \in Current(catalog).files : ~IsMetadata(f)}} :
           /\ writer' = [IdleWriter EXCEPT !.pc = "queued", !.id = commits + 1, !.old = old,
                                           !.out = <<commits + 1, "data">>]
           /\ queue' = Enqueued(queue, old) /\ disk' = Written({<<commits + 1, "data">>})
    BY <1>2 DEF Supersede
  <2>2. old \subseteq Path /\ <<commits + 1, "data">> \in Path
    BY CurrentFacts DEF Snapshots, Shapes, Path, Kinds
  <2>3. QueueType'
    BY <2>1, <2>2, EnqueuedType
  <2>4. DiskType'
    <3>1. {<<commits + 1, "data">>} \subseteq Path
      BY <2>2
    <3> QED  BY <2>1, <3>1, WrittenType
  <2>5. WriterType'
    <3>1. writer' = [pc |-> "queued", old |-> old, id |-> commits + 1, out |-> <<commits + 1, "data">>,
                     base |-> 0, snap |-> NoSnapshot]
      BY <2>1 DEF IdleWriter
    <3> QED  BY <2>2, <3>1, IdleTypes DEF WriterType, Shapes
  <2> QED  BY <1>2, <2>3, <2>4, <2>5 DEF Supersede, Shapes, QueueType, DiskType, WriterType
<1>3. CASE WriteCommit
  <2> DEFINE s == Built(writer.id, writer.out, writer.old)
  <2>1. s \in Snapshots /\ catalog.head \in Nat
    BY BuiltType DEF Shapes, Views
  <2>2. ExpiringPaths({s}) \subseteq Path
    BY <2>1, ExpiringType
  <2>3. DiskType'
    <3>1. disk' = Written(ExpiringPaths({s}) \ DOMAIN disk) /\ ExpiringPaths({s}) \ DOMAIN disk \subseteq Path
      BY <1>3, <2>2 DEF WriteCommit
    <3> QED  BY <3>1, WrittenType
  <2>4. WriterType'
    BY <1>3, <2>1 DEF WriteCommit, WriterType, Shapes
  <2> QED  BY <1>3, <2>3, <2>4 DEF WriteCommit, Shapes, DiskType, WriterType
<1>4. CASE Land
  <2>1. catalog' \in Views /\ mem' \in Views
    BY <1>4 DEF Land, Shapes, Views, Snapshots
  <2>2. WriterType'
    BY <1>4, IdleTypes DEF Land, WriterType, Shapes
  <2> QED  BY <1>4, <2>1, <2>2 DEF Land, Shapes, WriterType
<1>5. CASE Lose
  <2> DEFINE id == commits + 1
             s == Built(id, <<id, "data">>, {})
  <2>1. s \in Snapshots /\ id \in Nat
    <3>1. id \in Nat /\ <<id, "data">> \in Path
      BY DEF Shapes, Path, Kinds
    <3> QED  BY <3>1, BuiltType
  <2>2. catalog' = [head |-> id, snaps |-> catalog.snaps \cup {s}] /\ mem' = catalog'
        /\ disk' = Written(s.files \ DOMAIN disk)
    BY <1>5 DEF Lose
  <2>3. catalog' \in Views /\ mem' \in Views
    BY <2>1, <2>2 DEF Shapes, Views
  <2>4. DiskType'
    <3>1. s.files \ DOMAIN disk \subseteq Path
      BY <2>1 DEF Snapshots
    <3> QED  BY <2>2, <3>1, WrittenType
  <2>5. WriterType'
    <3>1. writer' = [writer EXCEPT !.pc = "queued", !.id = commits + 2] /\ WriterType /\ commits + 2 \in Nat
      BY <1>5 DEF Lose, Shapes, WriterType
    <3> QED  BY <3>1 DEF WriterType
  <2> QED  BY <1>5, <2>3, <2>4, <2>5 DEF Lose, Shapes, WriterType, DiskType
<1>6. CASE Restamp
  <2>1. QueueType'
    BY <1>6, RestampedType DEF Restamp
  <2>2. WriterType'
    BY <1>6, IdleTypes DEF Restamp, WriterType
  <2> QED  BY <1>6, <2>1, <2>2 DEF Restamp, Shapes, QueueType, WriterType
<1>7. CASE Crash
  <2>1. QueueType'
    <3> DEFINE out == {writer.out}
    <3>1. out \subseteq Path /\ queue' = Enqueued(queue, out)
      BY <1>7 DEF Crash, Shapes
    <3> HIDE DEF out
    <3> QED  BY <3>1, EnqueuedType
  <2>2. WriterType'
    BY <1>7, IdleTypes DEF Crash, WriterType
  <2> QED  BY <1>7, <2>1, <2>2 DEF Crash, Shapes, QueueType, WriterType
<1>8. CASE ExpireLook
  <2> DEFINE old == OlderThan(mem, now - Retention)
  <2>1. old \subseteq Snapshots
    BY DEF OlderThan, Shapes, Views
  <2>2. ExpiringPaths(old) \subseteq Path
    BY <2>1, ExpiringType
  <2>3. QueueType'
    <3>1. queue' = Enqueued(queue, ExpiringPaths(old))
      BY <1>8 DEF ExpireLook
    <3> QED  BY <2>2, <3>1, EnqueuedType
  <2>4. ExpirerType'
    <3>1. expirer' = [pc |-> "queued", cutoff |-> now - Retention, paths |-> ExpiringPaths(old)]
      BY <1>8 DEF ExpireLook
    <3>2. now - Retention \in Int
      BY ReclaimAssumption DEF Shapes
    <3> QED  BY <2>2, <3>1, <3>2 DEF ExpirerType
  <2> QED  BY <1>8, <2>3, <2>4 DEF ExpireLook, Shapes, QueueType, ExpirerType
<1>9. CASE ExpireCommit
  <2>1. PICK dropped \in SUBSET catalog.snaps :
           /\ catalog' = [catalog EXCEPT !.snaps = @ \ dropped]
           /\ missed' = missed \cup (ExpiringPaths(dropped) \ (expirer.paths \cup Referenced(catalog')))
    BY <1>9 DEF ExpireCommit
  <2>2. catalog' \in Views /\ mem' \in Views
    BY <1>9, <2>1 DEF ExpireCommit, Shapes, Views
  <2>4. missed' \subseteq Path
    <3>1. ExpiringPaths(dropped) \subseteq Path
      BY <2>1, ExpiringType DEF Shapes, Views
    <3> QED  BY <2>1, <3>1 DEF Shapes
  <2>3. ExpirerType'
    <3>1. expirer' = [pc |-> "expired", cutoff |-> 0, paths |-> expirer.paths] /\ ExpirerType
      BY <1>9 DEF ExpireCommit, Shapes, ExpirerType
    <3> QED  BY <3>1 DEF ExpirerType
  <2> QED  BY <1>9, <2>2, <2>3, <2>4 DEF ExpireCommit, Shapes, ExpirerType
<1>10. CASE ExpireRestamp
  <2>1. QueueType'
    BY <1>10, RestampedType DEF ExpireRestamp
  <2> QED  BY <1>10, <2>1 DEF ExpireRestamp, Shapes, QueueType, IdleExpirer
<1>11. CASE ExpireFail
  BY <1>11 DEF ExpireFail, Shapes, IdleExpirer
<1>12. CASE DrainDue \/ DrainVeto
  BY <1>12 DEF DrainDue, DrainVeto, Shapes
<1>13. CASE DrainUnlink
  <2>1. PICK f : /\ disk' = Restrict(disk, DOMAIN disk \ {f})
                 /\ queue' = Restrict(queue, DOMAIN queue \ {f}) \/ queue' = queue
                 /\ doomed' \subseteq doomed
    BY <1>13 DEF DrainUnlink
  <2>2. DiskType' /\ QueueType'
    BY <2>1, UnlinkType, ForgetType DEF QueueType, Shapes
  <2> QED  BY <1>13, <2>1, <2>2 DEF DrainUnlink, Shapes, DiskType, QueueType
<1>14. CASE SweepList \/ SweepLive \/ SweepEnd
  BY <1>14 DEF SweepList, SweepLive, SweepEnd, IdleSweep, Shapes
<1>15. CASE SweepRemove
  <2>1. PICK f : disk' = Restrict(disk, DOMAIN disk \ {f}) /\ sweep' = [sweep EXCEPT !.files = @ \ {f}]
    BY <1>15 DEF SweepRemove
  <2>2. DiskType'
    BY <2>1, UnlinkType
  <2> QED  BY <1>15, <2>1, <2>2 DEF SweepRemove, Shapes, DiskType
<1>16. CASE Resolve
  <2>1. Current(catalog).files \subseteq Path
    BY CurrentFacts DEF Snapshots
  <2> QED  BY <1>16, <2>1 DEF Resolve, Shapes
<1> QED  BY <1>1, <1>2, <1>3, <1>4, <1>5, <1>6, <1>7, <1>8, <1>9, <1>10, <1>11, <1>12, <1>13,
            <1>14, <1>15, <1>16 DEF Next

-----------------------------------------------------------------------------

\* A commit lands: its snapshot is the current one, and its files are live.
LEMMA HeadMoves ==
    ASSUME Shapes, ViewOK(catalog), \A s, t \in catalog.snaps : s.id = t.id => s = t,
           NEW new \in Snapshots, new.id > catalog.head, \A f \in new.files : f[1] <= new.id,
           NEW cat, cat = [head |-> new.id, snaps |-> catalog.snaps \cup {new}]
    PROVE  /\ Current(cat) = new /\ Referenced(cat) = Referenced(catalog) \cup new.files
           /\ ViewOK(cat) /\ cat.head = new.id
           /\ \A s, t \in cat.snaps : s.id = t.id => s = t
<1>1. \A s \in catalog.snaps : s \in Snapshots /\ s.id <= catalog.head /\ s.id # new.id
  BY DEF Shapes, Views, ViewOK, Snapshots
<1>2. Current(cat) = new
  BY <1>1 DEF Current, Snap
<1>3. Referenced(cat) = Referenced(catalog) \cup new.files
  BY DEF Referenced
<1>4. \A s \in catalog.snaps : s.id <= new.id
  BY <1>1 DEF Shapes, Views, Snapshots
<1>5. ViewOK(cat)
  BY <1>1, <1>4 DEF ViewOK, Snapshots
<1>6. \A s, t \in cat.snaps : s.id = t.id => s = t
  BY <1>1
<1> QED  BY <1>2, <1>3, <1>5, <1>6

\* Expiry may look at a copy behind the table, and still never drops the
\* current snapshot: the copy's own head is spared, and if the table has moved
\* on its current snapshot is not in the copy.
LEMMA ExpiryKeepsHead ==
    ASSUME Shapes, Numbered, ExpireCommit
    PROVE  /\ catalog'.head = catalog.head /\ catalog'.snaps \subseteq catalog.snaps
           /\ Current(catalog') = Current(catalog) /\ ViewOK(catalog')
           /\ Referenced(catalog') \subseteq Referenced(catalog)
<1>1. PICK view \in {mem, catalog} :
         catalog' = [catalog EXCEPT !.snaps =
                        @ \ {s \in catalog.snaps : s.id \in {t.id : t \in OlderThan(view, expirer.cutoff)}}]
  BY DEF ExpireCommit
<1> DEFINE gone == {t.id : t \in OlderThan(view, expirer.cutoff)}
<1>2. ASSUME catalog.head \in gone
      PROVE  FALSE
  <2>1. PICK t \in view.snaps : t.id = catalog.head /\ t.id # view.head
    BY <1>2 DEF OlderThan
  <2>2. t.id \in Nat /\ view.head \in Nat /\ t.id <= view.head /\ view.head <= catalog.head
    BY <2>1 DEF Numbered, ViewOK, Shapes, Views, Snapshots
  <2> QED  BY <2>1, <2>2
<1>3. catalog'.head = catalog.head /\ catalog'.snaps = {s \in catalog.snaps : s.id \notin gone}
  <2> HIDE DEF gone
  <2>1. catalog' = [catalog EXCEPT !.snaps = @ \ {s \in catalog.snaps : s.id \in gone}]
    BY <1>1 DEF gone
  <2> QED  BY <2>1 DEF Shapes, Views
<1> HIDE DEF gone
<1>4. Current(catalog) \in catalog'.snaps /\ Current(catalog).id = catalog'.head
  BY <1>2, <1>3, CurrentFacts DEF Numbered
<1>5. Current(catalog') = Current(catalog)
  <2>1. Current(catalog') \in catalog'.snaps /\ Current(catalog').id = catalog'.head
    BY <1>4 DEF Current, Snap
  <2> QED  BY <1>3, <1>4, <2>1 DEF Numbered
<1>6. ViewOK(catalog')
  BY <1>3, <1>4 DEF ViewOK, Numbered
<1> QED  BY <1>3, <1>5, <1>6 DEF Referenced

\* What an attempt names beyond what the current snapshot does.
NewFiles(id, out) == {out, <<id, "man">>, <<id, "list">>}

\* The files of the snapshot that a commit builds.
LEMMA BuiltFacts ==
    ASSUME Shapes, ViewOK(catalog), NEW id \in Nat, NEW out \in Path, NEW old,
           NEW s, s = Built(id, out, old)
    PROVE  /\ s \in Snapshots /\ s.id = id /\ s.at = now
           /\ NewFiles(id, out) \subseteq s.files
           /\ s.files \subseteq Current(catalog).files \cup NewFiles(id, out)
           /\ Data(Current(catalog).files) \subseteq s.files \cup old
           /\ ExpiringPaths({s}) \subseteq {f \in s.files : IsMetadata(f)} \cup {<<id, "m0">>}
           /\ {f \in s.files : IsMetadata(f)} \subseteq ExpiringPaths({s})
<1>1. s \in Snapshots
  BY BuiltType
<1>2. s.id = id /\ s.at = now
  BY DEF Built
<1>3. NewFiles(id, out) \subseteq s.files
  BY DEF Built, NewFiles
<1>4. s.files \subseteq Current(catalog).files \cup NewFiles(id, out)
  BY DEF Built, NewFiles
<1>5. Data(Current(catalog).files) \subseteq s.files \cup old
  <2>1. \A f \in Data(Current(catalog).files) : f \in Current(catalog).files /\ f[2] = "data" /\ ~IsMetadata(f)
    BY DEF Data, IsMetadata
  <2> QED  BY <2>1 DEF Built
<1>6. ExpiringPaths({s}) \subseteq {f \in s.files : IsMetadata(f)} \cup {<<id, "m0">>}
  BY <1>2 DEF ExpiringPaths
<1>7. {f \in s.files : IsMetadata(f)} \subseteq ExpiringPaths({s})
  BY DEF ExpiringPaths
<1> QED  BY <1>1, <1>2, <1>3, <1>4, <1>5, <1>6, <1>7

-----------------------------------------------------------------------------

\* The invariant holds initially.
LEMMA SafeStart == Init => Safe
<1> SUFFICES ASSUME Init PROVE Safe
  OBVIOUS
<1>1. Shapes
  BY ShapesStart
<1>2. /\ catalog.snaps = {First} /\ catalog.head = 1 /\ mem = catalog /\ First.id = 1
      /\ First.files = {1} \X {"data", "man", "list"}
      /\ DOMAIN disk = First.files /\ DOMAIN queue = {} /\ writer.pc = "idle"
      /\ due = {} /\ doomed = {} /\ sweep.pc = "idle" /\ sweep.files = {} /\ commits = 1
  BY DEF Init, First, NoFiles, IdleWriter, IdleSweep
<1>3. ViewOK(catalog)
  BY <1>2 DEF ViewOK
<1>4. Current(catalog) = First
  BY <1>1, <1>2, <1>3, CurrentFacts
<1>5. Referenced(catalog) = First.files
  BY <1>2 DEF Referenced
<1>6. Numbered
  BY <1>2, <1>3 DEF Numbered, Busy
<1>7. Writing /\ Removing /\ Superseded /\ LiveOnDisk /\ DataNamed
  BY <1>2, <1>4, <1>5 DEF Writing, Busy, Removing, Superseded, Data, LiveOnDisk, DataNamed
<1> QED  BY <1>6, <1>7 DEF Safe

\* Time passes, for a commit under way no longer than MinAge.
LEMMA TickSafe ==
    ASSUME ReclaimInv, Tick
    PROVE  Safe'
<1>1. UNCHANGED <<catalog, mem, disk, queue, writer, expirer, due, doomed, sweep, commits>>
  BY DEF Tick
<1>2. Numbered' /\ Removing' /\ Superseded' /\ LiveOnDisk' /\ DataNamed'
  BY <1>1 DEF ReclaimInv, Safe, Numbered, Busy, Removing, Superseded, LiveOnDisk, DataNamed
<1>3. Writing'
  <2>1. writer'.pc = "written" => now' - writer'.snap.at <= MinAge
    BY <1>1 DEF Tick, ReclaimInv, Shapes, Snapshots
  <2>2. Fresh' = Fresh /\ Writing
    BY <1>1 DEF Fresh, ReclaimInv, Safe
  <2> QED  BY <1>1, <2>1, <2>2 DEF Writing, Busy
<1> QED  BY <1>2, <1>3 DEF Safe

\* A commit writes its data file and queues what it replaces.
LEMMA SupersedeSafe ==
    ASSUME ReclaimInv, Shapes', Supersede
    PROVE  Safe'
<1>0. /\ Shapes /\ Numbered /\ Writing /\ Removing /\ Superseded /\ LiveOnDisk /\ DataNamed
      /\ ViewOK(catalog) /\ commits \in Nat
  BY DEF ReclaimInv, Safe, Numbered, Shapes
<1> DEFINE out == <<commits + 1, "data">>
<1>1. PICK old \in {{}, Data(Current(catalog).files)} :
         /\ writer' = [IdleWriter EXCEPT !.pc = "queued", !.id = commits + 1, !.old = old, !.out = out]
         /\ queue' = Enqueued(queue, old) /\ disk' = Written({out})
  BY DEF Supersede, Data
<1>2. UNCHANGED <<now, catalog, mem, expirer, due, doomed, sweep, reader>> /\ commits' = commits + 1
      /\ writer.pc = "idle"
  BY DEF Supersede
<1>3. /\ writer'.pc = "queued" /\ writer'.id = commits + 1 /\ writer'.old = old /\ writer'.out = out
  BY <1>1 DEF IdleWriter
<1>4. old \subseteq Data(Current(catalog).files) /\ old \subseteq Path /\ \A f \in old : ~IsMetadata(f)
  BY <1>0, CurrentFacts DEF Data, Snapshots
<1>5. out \in Path /\ ~IsMetadata(out) /\ out[1] = commits + 1
  BY <1>0 DEF Path, Kinds, IsMetadata
<1>6. DOMAIN queue' = DOMAIN queue \cup old
  BY <1>0, <1>1, <1>4, EnqueuedType
<1>7. DOMAIN disk' = DOMAIN disk \cup {out}
  <2>1. {out} \subseteq Path
    BY <1>5
  <2> HIDE DEF out
  <2> QED  BY <1>0, <1>1, <2>1, WrittenType
<1> HIDE DEF out
<1>8. \A f \in DOMAIN disk \cup DOMAIN queue \cup sweep.files \cup old : f[1] \in Nat /\ f[1] <= commits
  <2>1. \A f \in DOMAIN disk \cup DOMAIN queue \cup sweep.files : f \in Path /\ f[1] <= commits
    BY <1>0 DEF Shapes, Numbered
  <2>2. old \subseteq DOMAIN disk
    BY <1>0, <1>4, CurrentFacts DEF Data, LiveOnDisk
  <2> QED  BY <2>1, <2>2 DEF Path
<1>9. catalog.head \in Nat /\ catalog.head <= commits
  BY <1>0 DEF Shapes, Views, Numbered
<1>10. Numbered'
  <2>1. \A f \in DOMAIN disk' \cup DOMAIN queue' \cup sweep'.files : f[1] <= commits'
    BY <1>0, <1>2, <1>5, <1>6, <1>7, <1>8
  <2>2. \A f \in DOMAIN queue' : IsMetadata(f) => f[1] <= catalog'.head
    BY <1>0, <1>2, <1>4, <1>6 DEF Numbered
  <2>3. \A f \in DOMAIN disk' \cup sweep'.files : IsMetadata(f) => f[1] < writer'.id
    BY <1>0, <1>2, <1>3, <1>5, <1>7, <1>8
  <2>4. writer'.id = commits' /\ catalog'.head < writer'.id /\ writer'.out[1] <= writer'.id /\ catalog'.head <= commits'
    BY <1>0, <1>2, <1>3, <1>5, <1>9
  <2> QED  BY <1>0, <1>2, <2>1, <2>2, <2>3, <2>4 DEF Numbered
<1>11. Writing'
  <2>1. out \notin DOMAIN queue'
    BY <1>0, <1>5, <1>6, <1>8
  <2> QED  BY <1>2, <1>3, <1>4, <1>5, <1>6, <1>7, <2>1 DEF Writing, Busy
<1>12. Removing' /\ Superseded' /\ LiveOnDisk'
  BY <1>0, <1>2, <1>6, <1>7 DEF Removing, Superseded, LiveOnDisk
<1>13. DataNamed'
  BY <1>0, <1>2, <1>3, <1>6, <1>7 DEF DataNamed
<1> QED  BY <1>10, <1>11, <1>12, <1>13 DEF Safe

\* It writes its metadata, under a number nobody has.
LEMMA WriteCommitSafe ==
    ASSUME ReclaimInv, Shapes', WriteCommit
    PROVE  Safe'
<1>0. /\ Shapes /\ Numbered /\ Writing /\ Removing /\ Superseded /\ LiveOnDisk /\ DataNamed
      /\ ViewOK(catalog) /\ commits \in Nat /\ writer.id \in Nat /\ writer.out \in Path /\ now \in Nat
  BY DEF ReclaimInv, Safe, Numbered, Shapes
<1>1. PICK s : /\ s = Built(writer.id, writer.out, writer.old)
               /\ writer' = [writer EXCEPT !.pc = "written", !.base = catalog.head, !.snap = s]
               /\ disk' = Written(ExpiringPaths({s}) \ DOMAIN disk)
  BY DEF WriteCommit
<1>2. UNCHANGED <<now, catalog, mem, queue, expirer, due, doomed, sweep, reader, commits>> /\ writer.pc = "queued"
  BY DEF WriteCommit
<1>3. /\ writer'.pc = "written" /\ writer'.id = writer.id /\ writer'.old = writer.old
      /\ writer'.out = writer.out /\ writer'.base = catalog.head /\ writer'.snap = s
  BY <1>0, <1>1 DEF Shapes
<1>4. /\ s \in Snapshots /\ s.id = writer.id /\ s.at = now
      /\ NewFiles(writer.id, writer.out) \subseteq s.files
      /\ s.files \subseteq Current(catalog).files \cup NewFiles(writer.id, writer.out)
      /\ Data(Current(catalog).files) \subseteq s.files \cup writer.old
      /\ ExpiringPaths({s}) \subseteq {f \in s.files : IsMetadata(f)} \cup {<<writer.id, "m0">>}
      /\ {f \in s.files : IsMetadata(f)} \subseteq ExpiringPaths({s})
  BY <1>0, <1>1, BuiltFacts
<1>5. DOMAIN disk' = DOMAIN disk \cup ExpiringPaths({s})
      /\ \A f \in ExpiringPaths({s}) \ DOMAIN disk : IsMetadata(f) => disk'[f] = now
  <2>1. ExpiringPaths({s}) \subseteq Path
    BY <1>4, ExpiringType
  <2> DEFINE new == ExpiringPaths({s}) \ DOMAIN disk
  <2>2. new \subseteq Path /\ disk' = Written(new)
    BY <1>1, <2>1
  <2> HIDE DEF new
  <2>3. DOMAIN disk' = DOMAIN disk \cup new /\ \A f \in new : IsMetadata(f) => disk'[f] = now
    BY <1>0, <2>2, WrittenType
  <2> QED  BY <2>3 DEF new
<1>6. \A f \in ExpiringPaths({s}) : f \in DOMAIN disk \/ (IsMetadata(f) /\ f[1] = writer.id)
  <2>1. Current(catalog).files \subseteq DOMAIN disk
    BY <1>0, CurrentFacts DEF LiveOnDisk
  <2>2. ~IsMetadata(writer.out)
    BY <1>0, <1>2 DEF Writing, Busy
  <2>3. IsMetadata(<<writer.id, "man">>) /\ IsMetadata(<<writer.id, "list">>) /\ IsMetadata(<<writer.id, "m0">>)
    BY DEF IsMetadata
  <2> QED  BY <1>4, <2>1, <2>2, <2>3 DEF NewFiles
<1>7. Fresh' = {<<writer.id, "man">>, <<writer.id, "list">>}
  BY <1>3 DEF Fresh
<1>8. \A f \in Fresh' : IsMetadata(f) /\ f[1] = writer.id /\ f \in ExpiringPaths({s}) \ DOMAIN disk
                        /\ f \notin sweep.files
  <2>1. \A f \in Fresh' : IsMetadata(f) /\ f[1] = writer.id
    BY <1>7 DEF IsMetadata
  <2>2. \A f \in Fresh' : f \in s.files
    BY <1>4, <1>7 DEF NewFiles
  <2>3. \A f \in DOMAIN disk \cup sweep.files : IsMetadata(f) => f[1] < writer.id
    BY <1>0, <1>2 DEF Numbered
  <2>4. \A f \in Fresh' : f \notin DOMAIN disk \cup sweep.files
    BY <1>0, <2>1, <2>3
  <2>5. \A f \in Fresh' : f \in ExpiringPaths({s})
    BY <1>4, <2>1, <2>2
  <2> QED  BY <2>1, <2>4, <2>5
<1>9. Numbered'
  <2>1. writer.id = commits
    BY <1>0, <1>2 DEF Numbered, Busy
  <2>2. \A f \in DOMAIN disk' : f[1] <= commits'
    <3>1. \A f \in DOMAIN disk : f[1] <= commits
      BY <1>0 DEF Numbered
    <3>2. commits <= commits /\ \A f \in DOMAIN disk' : f \in DOMAIN disk \/ f[1] = commits
      BY <1>0, <1>5, <1>6, <2>1
    <3> QED  BY <1>2, <3>1, <3>2
  <2> QED  BY <1>0, <1>2, <1>3, <2>2 DEF Numbered, Busy
<1>10. Writing'
  <2>1. writer.out \in s.files /\ s.files \subseteq Current(catalog).files \cup {writer.out} \cup Fresh'
    BY <1>4, <1>7 DEF NewFiles
  <2>2. now - s.at <= MinAge
    BY <1>0, <1>4, ReclaimAssumption
  <2>3. \A f \in Fresh' : f \in DOMAIN disk' /\ disk'[f] = s.at /\ f \notin sweep'.files
    BY <1>2, <1>4, <1>5, <1>8
  <2>4. /\ writer.out \in DOMAIN disk' \ DOMAIN queue' /\ ~IsMetadata(writer.out)
        /\ writer.old \subseteq Data(Current(catalog).files) \cap DOMAIN queue
    BY <1>0, <1>2, <1>5 DEF Writing, Busy
  <2> QED  BY <1>2, <1>3, <1>4, <2>1, <2>2, <2>3, <2>4 DEF Writing, Busy
<1>11. Removing' /\ Superseded' /\ LiveOnDisk'
  BY <1>0, <1>2, <1>5 DEF Removing, Superseded, LiveOnDisk
<1>12. DataNamed'
  BY <1>0, <1>2, <1>3, <1>5, <1>6 DEF DataNamed
<1> QED  BY <1>9, <1>10, <1>11, <1>12 DEF Safe

\* The commit lands: nothing it names is due, doomed, in the backlog or off the disk.
LEMMA LandSafe ==
    ASSUME ReclaimInv, Shapes', Land
    PROVE  Safe'
<1>0. /\ Shapes /\ Numbered /\ Writing /\ Removing /\ Superseded /\ LiveOnDisk /\ DataNamed
      /\ ViewOK(catalog) /\ commits \in Nat /\ writer.id \in Nat /\ catalog.head \in Nat
      /\ writer.snap \in Snapshots /\ writer.pc = "written" /\ Busy
  BY DEF ReclaimInv, Safe, Numbered, Shapes, Land, Views, Busy
<1> DEFINE new == writer.snap
<1>1. /\ catalog' = [head |-> new.id, snaps |-> catalog.snaps \cup {new}]
      /\ mem' \in {mem, catalog'}
      /\ writer'.pc \in {"idle", "landed"}
      /\ writer'.pc = "landed" => writer'.out = writer.out
      /\ UNCHANGED <<now, disk, queue, expirer, due, doomed, sweep, reader, commits>>
  BY <1>0 DEF Land, IdleWriter, Shapes
<1>2. /\ new.id = writer.id /\ new.id > catalog.head /\ writer.id = commits
      /\ writer.out \in new.files
      /\ new.files \subseteq Current(catalog).files \cup {writer.out} \cup Fresh
      /\ Data(Current(catalog).files) \subseteq new.files \cup writer.old
      /\ writer.old \subseteq DOMAIN queue
      /\ writer.out \in DOMAIN disk \ DOMAIN queue /\ ~IsMetadata(writer.out)
  BY <1>0 DEF Writing, Numbered
<1>3. \A f \in Fresh : IsMetadata(f) /\ f[1] = writer.id /\ f \in DOMAIN disk
                       /\ (sweep.pc = "backlog" => f \notin sweep.files)
  BY <1>0 DEF Writing, Fresh, IsMetadata
<1>4. \A f \in Fresh : f \notin DOMAIN queue
  <2>1. \A f \in DOMAIN queue : IsMetadata(f) => f[1] <= catalog.head
    BY <1>0 DEF Numbered
  <2> QED  BY <1>0, <1>2, <1>3, <2>1
<1>5. /\ Current(catalog).files \subseteq Referenced(catalog)
      /\ \A f \in Current(catalog).files : f[1] \in Nat /\ f[1] <= catalog.head
  BY <1>0, CurrentFacts DEF ViewOK, Snapshots, Path
<1>6. \A f \in new.files : f[1] <= new.id
  <2>1. \A f \in Current(catalog).files : f[1] <= new.id
    BY <1>0, <1>2, <1>5
  <2>2. writer.out[1] <= new.id /\ \A f \in Fresh : f[1] <= new.id
    BY <1>0, <1>2, <1>3 DEF Numbered
  <2> QED  BY <1>2, <2>1, <2>2
<1>7. /\ Current(catalog') = new /\ Referenced(catalog') = Referenced(catalog) \cup new.files
      /\ ViewOK(catalog') /\ catalog'.head = new.id
      /\ \A s, t \in catalog'.snaps : s.id = t.id => s = t
  BY <1>0, <1>1, <1>2, <1>6, HeadMoves DEF Numbered
<1> HIDE DEF new
<1>8. Numbered'
  <2>1. \A f \in DOMAIN queue : IsMetadata(f) => f[1] <= catalog'.head
    <3>1. \A f \in DOMAIN queue : f[1] \in Nat
      BY <1>0 DEF Shapes, Path
    <3> QED  BY <1>0, <1>2, <1>7, <3>1 DEF Numbered
  <2>2. ViewOK(mem') /\ mem'.head <= catalog'.head
    <3>1. mem.head \in Nat /\ ViewOK(mem) /\ mem.head <= catalog.head
      BY <1>0 DEF Shapes, Views, Numbered
    <3>2. mem.head <= catalog'.head /\ catalog'.head <= catalog'.head
      BY <1>0, <1>2, <1>7, <3>1
    <3>3. CASE mem' = mem
      BY <3>1, <3>2, <3>3
    <3>4. CASE mem' = catalog'
      BY <1>7, <3>2, <3>4
    <3> QED  BY <1>1, <3>3, <3>4
  <2>3. catalog'.head <= commits'
    BY <1>0, <1>1, <1>2, <1>7
  <2>4. \A f \in DOMAIN disk' \cup DOMAIN queue' \cup sweep'.files : f[1] <= commits'
    BY <1>0, <1>1 DEF Numbered
  <2> QED  BY <1>1, <1>7, <2>1, <2>2, <2>3, <2>4 DEF Numbered, Busy
<1>9. Writing'
  BY <1>1, <1>2, <1>7 DEF Writing, Busy, Data
<1>10. Removing'
  <2>1. \A f \in new.files : f \in Referenced(catalog) \/ f = writer.out \/ f \in Fresh
    BY <1>2, <1>5
  <2>2. doomed \cap new.files = {}
    BY <1>0, <1>2, <1>4, <2>1 DEF Removing
  <2>3. sweep.pc = "backlog" => sweep.files \cap new.files = {}
    BY <1>0, <1>2, <1>3, <2>1 DEF Removing
  <2> QED  BY <1>0, <1>1, <1>7, <2>2, <2>3 DEF Removing
<1>11. Superseded'
  BY <1>0, <1>1, <1>2, <1>7 DEF Superseded, Data
<1>12. LiveOnDisk'
  BY <1>0, <1>1, <1>2, <1>3, <1>5, <1>7 DEF LiveOnDisk
<1>13. DataNamed'
  BY <1>0, <1>1, <1>2, <1>7 DEF DataNamed
<1> QED  BY <1>8, <1>9, <1>10, <1>11, <1>12, <1>13 DEF Safe

\* Another process's commit lands first.
LEMMA LoseSafe ==
    ASSUME ReclaimInv, Shapes', Lose
    PROVE  Safe'
<1>0. /\ Shapes /\ Numbered /\ Writing /\ Removing /\ Superseded /\ LiveOnDisk /\ DataNamed
      /\ ViewOK(catalog) /\ commits \in Nat /\ writer.id \in Nat /\ catalog.head \in Nat
      /\ writer.pc = "written" /\ Busy
  BY DEF ReclaimInv, Safe, Numbered, Shapes, Lose, Views, Busy
<1>a. PICK n, file, none, new :
         /\ n = commits + 1 /\ file = <<n, "data">> /\ none = {} /\ new = Built(n, file, none)
         /\ catalog' = [head |-> n, snaps |-> catalog.snaps \cup {new}]
         /\ disk' = Written(new.files \ DOMAIN disk)
  BY DEF Lose
<1>1. n = commits + 1 /\ catalog' = [head |-> n, snaps |-> catalog.snaps \cup {new}]
      /\ disk' = Written(new.files \ DOMAIN disk)
  BY <1>a
<1>2. /\ mem' = catalog' /\ commits' = commits + 2
      /\ UNCHANGED <<now, queue, expirer, due, doomed, sweep, reader>>
      /\ writer'.pc = "queued" /\ writer'.id = commits + 2 /\ writer'.out = writer.out /\ writer'.old = writer.old
  BY <1>0 DEF Lose, Shapes
<1>3. n \in Nat /\ file \in Path /\ ~IsMetadata(file)
  BY <1>0, <1>a DEF Path, Kinds, IsMetadata
<1>4. /\ new \in Snapshots /\ new.id = n
      /\ NewFiles(n, file) \subseteq new.files
      /\ new.files \subseteq Current(catalog).files \cup NewFiles(n, file)
      /\ Data(Current(catalog).files) \subseteq new.files
  <2>1. Shapes /\ ViewOK(catalog) /\ n \in Nat /\ file \in Path /\ new = Built(n, file, none)
    BY <1>0, <1>a, <1>3
  <2>2. new.id = n
    BY <2>1 DEF Built
  <2>3. /\ new \in Snapshots
        /\ NewFiles(n, file) \subseteq new.files
        /\ new.files \subseteq Current(catalog).files \cup NewFiles(n, file)
        /\ Data(Current(catalog).files) \subseteq new.files \cup none
    BY <2>1, BuiltFacts
  <2> QED  BY <1>a, <2>2, <2>3
<1>5. /\ Current(catalog).files \subseteq Referenced(catalog)
      /\ \A f \in Current(catalog).files : f[1] \in Nat /\ f[1] <= catalog.head
  BY <1>0, CurrentFacts DEF ViewOK, Snapshots, Path
<1>6. \A f \in NewFiles(n, file) : f[1] = n
  BY <1>a DEF NewFiles
<1>7. catalog.head <= commits /\ writer.id = commits /\ catalog.head < writer.id /\ writer.out[1] <= writer.id
      /\ writer.out[1] \in Nat
  BY <1>0 DEF Numbered, Shapes, Path
<1>8. \A f \in new.files : f[1] <= n
  BY <1>0, <1>1, <1>3, <1>4, <1>5, <1>6, <1>7
<1>9. /\ Current(catalog') = new /\ Referenced(catalog') = Referenced(catalog) \cup new.files
      /\ ViewOK(catalog') /\ catalog'.head = n
      /\ \A s, t \in catalog'.snaps : s.id = t.id => s = t
  <2>1. new.id > catalog.head
    BY <1>0, <1>1, <1>4, <1>7
  <2> QED  BY <1>0, <1>1, <1>4, <1>8, <2>1, HeadMoves DEF Numbered
<1>10. DOMAIN disk' = DOMAIN disk \cup new.files
  <2> DEFINE fs == new.files \ DOMAIN disk
  <2>1. fs \subseteq Path /\ disk' = Written(fs)
    BY <1>1, <1>4 DEF Snapshots
  <2> HIDE DEF fs
  <2>2. DOMAIN disk' = DOMAIN disk \cup fs
    BY <1>0, <2>1, WrittenType
  <2> QED  BY <2>2 DEF fs
<1>11. \A f \in DOMAIN disk \cup DOMAIN queue \cup sweep.files : f[1] \in Nat /\ f[1] <= commits
  BY <1>0 DEF Shapes, Path, Numbered
<1>12. \A f \in NewFiles(n, file) : f \notin DOMAIN disk \cup DOMAIN queue \cup sweep.files
  BY <1>0, <1>1, <1>6, <1>11
<1>13. Numbered'
  <2>1. \A f \in DOMAIN disk' \cup DOMAIN queue' \cup sweep'.files : f[1] < commits' /\ f[1] <= commits'
    BY <1>0, <1>1, <1>2, <1>4, <1>5, <1>6, <1>7, <1>10, <1>11
  <2>2. \A f \in DOMAIN queue' : IsMetadata(f) => f[1] <= catalog'.head
    BY <1>0, <1>1, <1>2, <1>9, <1>11
  <2>3. writer'.id = commits' /\ catalog'.head < writer'.id /\ writer'.out[1] <= writer'.id /\ catalog'.head <= commits'
    BY <1>0, <1>1, <1>2, <1>7, <1>9
  <2>4. mem'.head <= catalog'.head /\ ViewOK(mem')
    BY <1>0, <1>2, <1>3, <1>9
  <2> QED  BY <1>2, <1>9, <2>1, <2>2, <2>3, <2>4 DEF Numbered, Busy
<1>14. Writing'
  <2>1. /\ writer.out \in DOMAIN disk \ DOMAIN queue /\ ~IsMetadata(writer.out)
        /\ writer.old \subseteq Data(Current(catalog).files) \cap DOMAIN queue
    BY <1>0 DEF Writing
  <2>2. Data(Current(catalog).files) \subseteq Data(new.files)
    BY <1>4 DEF Data
  <2> QED  BY <1>2, <1>9, <1>10, <2>1, <2>2 DEF Writing, Busy
<1>15. Removing'
  BY <1>0, <1>2, <1>4, <1>5, <1>9, <1>12 DEF Removing
<1>16. Superseded'
  BY <1>0, <1>2, <1>4, <1>9 DEF Superseded, Data
<1>17. LiveOnDisk'
  BY <1>0, <1>9, <1>10 DEF LiveOnDisk
<1>18. DataNamed'
  BY <1>0, <1>2, <1>9, <1>10 DEF DataNamed
<1> QED  BY <1>13, <1>14, <1>15, <1>16, <1>17, <1>18 DEF Safe

\* Its old files' grace begins anew.
LEMMA RestampSafe ==
    ASSUME ReclaimInv, Shapes', Restamp
    PROVE  Safe'
<1>0. /\ Shapes /\ Numbered /\ Writing /\ Removing /\ Superseded /\ LiveOnDisk /\ DataNamed
      /\ ViewOK(catalog) /\ commits \in Nat /\ catalog.head \in Nat
  BY DEF ReclaimInv, Safe, Numbered, Shapes, Views
<1>1. /\ DOMAIN queue' = DOMAIN queue /\ writer'.pc = "idle" /\ writer.pc = "landed"
      /\ UNCHANGED <<now, catalog, mem, disk, expirer, due, doomed, sweep, reader, commits>>
  BY <1>0, RestampedType DEF Restamp, IdleWriter
<1>2. Numbered' /\ Writing' /\ Removing' /\ Superseded' /\ LiveOnDisk'
  BY <1>0, <1>1 DEF Numbered, Busy, Writing, Removing, Superseded, LiveOnDisk
<1>3. writer.out \in Referenced(catalog)
  BY <1>0, <1>1, CurrentFacts DEF Writing, Data
<1>4. DataNamed'
  BY <1>0, <1>1, <1>3 DEF DataNamed
<1> QED  BY <1>2, <1>4 DEF Safe

\* A crash anywhere: the data file of a commit under way becomes an orphan that is queued.
LEMMA CrashSafe ==
    ASSUME ReclaimInv, Shapes', Crash
    PROVE  Safe'
<1>0. /\ Shapes /\ Numbered /\ Writing /\ Removing /\ Superseded /\ LiveOnDisk /\ DataNamed
      /\ ViewOK(catalog) /\ commits \in Nat /\ catalog.head \in Nat
  BY DEF ReclaimInv, Safe, Numbered, Shapes, Views
<1>1. /\ writer'.pc = "idle" /\ writer.pc # "idle"
      /\ UNCHANGED <<now, catalog, mem, disk, expirer, due, doomed, sweep, reader, commits>>
  BY DEF Crash, IdleWriter
<1>2. DOMAIN queue' = DOMAIN queue \cup {writer.out}
  <2> DEFINE out == {writer.out}
  <2>1. out \subseteq Path /\ queue' = Enqueued(queue, out)
    BY <1>0 DEF Crash, Shapes
  <2> HIDE DEF out
  <2>2. DOMAIN queue' = DOMAIN queue \cup out
    BY <1>0, <2>1, EnqueuedType
  <2> QED  BY <2>2 DEF out
<1>3. ~IsMetadata(writer.out) /\ writer.out[1] <= commits
  <2>1. CASE Busy
    BY <1>0, <2>1 DEF Writing, Numbered
  <2>2. CASE writer.pc = "landed"
    <3>1. writer.out \in DOMAIN disk /\ ~IsMetadata(writer.out)
      BY <1>0, <2>2, CurrentFacts DEF Writing, Data, LiveOnDisk
    <3> QED  BY <1>0, <3>1 DEF Numbered
  <2> QED  BY <2>1, <2>2 DEF Crash, Busy
<1>4. Numbered'
  BY <1>0, <1>1, <1>2, <1>3 DEF Numbered, Busy
<1>5. Writing' /\ Removing' /\ Superseded' /\ LiveOnDisk' /\ DataNamed'
  BY <1>0, <1>1, <1>2 DEF Writing, Busy, Removing, Superseded, LiveOnDisk, DataNamed
<1> QED  BY <1>4, <1>5 DEF Safe

\* An expiry queues the metadata of what it will drop.
LEMMA ExpireLookSafe ==
    ASSUME ReclaimInv, Shapes', ExpireLook
    PROVE  Safe'
<1>0. /\ Shapes /\ Numbered /\ Writing /\ Removing /\ Superseded /\ LiveOnDisk /\ DataNamed
      /\ ViewOK(catalog) /\ commits \in Nat /\ catalog.head \in Nat
  BY DEF ReclaimInv, Safe, Numbered, Shapes, Views
<1>1. UNCHANGED <<now, catalog, mem, disk, writer, due, doomed, sweep, reader, commits>>
  BY DEF ExpireLook
<1>2. PICK old : old \subseteq mem.snaps /\ queue' = Enqueued(queue, ExpiringPaths(old))
  BY DEF ExpireLook, OlderThan
<1>3. old \subseteq Snapshots
  BY <1>0, <1>2 DEF Shapes, Views
<1>4. ExpiringPaths(old) \subseteq Path /\ \A f \in ExpiringPaths(old) : IsMetadata(f)
  BY <1>3, ExpiringType
<1>5. DOMAIN queue' = DOMAIN queue \cup ExpiringPaths(old)
  BY <1>0, <1>2, <1>4, EnqueuedType
<1>6. \A f \in ExpiringPaths(old) : f[1] <= catalog.head
  <2>1. \A t \in old : t.id \in Nat /\ t.id <= catalog.head
    BY <1>0, <1>2, <1>3 DEF Numbered, ViewOK, Shapes, Views, Snapshots
  <2>2. \A t \in old : \A f \in t.files : f[1] \in Nat /\ f[1] <= t.id
    BY <1>0, <1>2, <1>3 DEF Numbered, ViewOK, Snapshots, Path
  <2>3. \A f \in ExpiringPaths(old) : \E t \in old : f \in t.files \/ f = <<t.id, "m0">>
    BY DEF ExpiringPaths
  <2>4. \A t \in old : <<t.id, "m0">>[1] = t.id
    OBVIOUS
  <2> QED  BY <1>0, <2>1, <2>2, <2>3, <2>4
<1>7. \A f \in ExpiringPaths(old) : f[1] <= commits
  <2>1. \A f \in ExpiringPaths(old) : f[1] \in Nat
    BY <1>4 DEF Path
  <2> QED  BY <1>0, <1>6, <2>1 DEF Numbered
<1>8. Numbered'
  BY <1>0, <1>1, <1>5, <1>6, <1>7 DEF Numbered, Busy
<1>9. Writing'
  <2>1. Fresh' = Fresh
    BY <1>1 DEF Fresh
  <2> QED  BY <1>0, <1>1, <1>4, <1>5, <2>1 DEF Writing, Busy
<1>10. Removing' /\ Superseded' /\ LiveOnDisk' /\ DataNamed'
  BY <1>0, <1>1, <1>5 DEF Removing, Superseded, LiveOnDisk, DataNamed
<1> QED  BY <1>8, <1>9, <1>10 DEF Safe

\* The data of an expired snapshot is the current one's, or queued.
LEMMA ExpireCommitSafe ==
    ASSUME ReclaimInv, Shapes', ExpireCommit
    PROVE  Safe'
<1>0. /\ Shapes /\ Numbered /\ Writing /\ Removing /\ Superseded /\ LiveOnDisk /\ DataNamed
      /\ ViewOK(catalog) /\ commits \in Nat /\ catalog.head \in Nat
  BY DEF ReclaimInv, Safe, Numbered, Shapes, Views
<1>1. /\ UNCHANGED <<now, disk, queue, writer, due, doomed, sweep, reader, commits>> /\ mem' = catalog'
  BY DEF ExpireCommit
<1>2. /\ catalog'.head = catalog.head /\ catalog'.snaps \subseteq catalog.snaps
      /\ Current(catalog') = Current(catalog) /\ ViewOK(catalog')
      /\ Referenced(catalog') \subseteq Referenced(catalog)
  BY <1>0, ExpiryKeepsHead
<1>3. Numbered'
  <2>1. mem'.head <= catalog'.head
    BY <1>0, <1>1, <1>2
  <2> QED  BY <1>0, <1>1, <1>2, <2>1 DEF Numbered, Busy
<1>4. Writing'
  <2>1. Fresh' = Fresh
    BY <1>1 DEF Fresh
  <2> QED  BY <1>0, <1>1, <1>2, <2>1 DEF Writing, Busy
<1>5. Removing' /\ LiveOnDisk'
  BY <1>0, <1>1, <1>2 DEF Removing, LiveOnDisk
<1>6. Superseded'
  BY <1>0, <1>1, <1>2 DEF Superseded, Data
<1>7. Current(catalog).files \subseteq Referenced(catalog')
  <2>1. Shapes' /\ ViewOK(catalog)'
    BY <1>2
  <2>2. (Current(catalog).files \subseteq Referenced(catalog))'
    <3>1. /\ Current(catalog') \in catalog'.snaps
      BY <1>2 DEF ViewOK, Current, Snap
    <3> QED  BY <3>1 DEF Referenced
  <2> QED  BY <1>2, <2>2
<1>8. DataNamed'
  <2>1. \A f \in Referenced(catalog) : ~IsMetadata(f) => f \in Referenced(catalog') \/ f \in DOMAIN queue
    BY <1>0, <1>7 DEF Superseded, Data
  <2> QED  BY <1>0, <1>1, <2>1 DEF DataNamed
<1> QED  BY <1>3, <1>4, <1>5, <1>6, <1>8 DEF Safe

\* Steps that leave every set of files as it is.
LEMMA CalmSafe ==
    ASSUME ReclaimInv, UNCHANGED <<now, catalog, disk, writer, due, doomed, sweep, commits>>,
           DOMAIN queue' = DOMAIN queue, mem' = mem \/ mem' = catalog
    PROVE  Safe'
<1>0. /\ Shapes /\ Numbered /\ Writing /\ Removing /\ Superseded /\ LiveOnDisk /\ DataNamed
      /\ ViewOK(catalog) /\ commits \in Nat /\ catalog.head \in Nat
  BY DEF ReclaimInv, Safe, Numbered, Shapes, Views
<1>1. Numbered'
  <2>1. ViewOK(mem') /\ mem'.head <= catalog'.head
    <3>1. catalog.head <= catalog.head /\ mem.head <= catalog.head /\ ViewOK(mem)
      BY <1>0 DEF Numbered
    <3> QED  BY <1>0, <3>1
  <2> QED  BY <1>0, <2>1 DEF Numbered, Busy
<1>2. Writing'
  <2>1. Fresh' = Fresh
    BY DEF Fresh
  <2> QED  BY <1>0, <2>1 DEF Writing, Busy
<1>3. Removing' /\ Superseded' /\ LiveOnDisk' /\ DataNamed'
  BY <1>0 DEF Removing, Superseded, LiveOnDisk, DataNamed
<1> QED  BY <1>1, <1>2, <1>3 DEF Safe

\* The drain reads what is due.
LEMMA DrainDueSafe ==
    ASSUME ReclaimInv, DrainDue
    PROVE  Safe'
<1>0. /\ Shapes /\ Numbered /\ Writing /\ Removing /\ Superseded /\ LiveOnDisk /\ DataNamed
  BY DEF ReclaimInv, Safe
<1>1. /\ UNCHANGED <<now, catalog, mem, disk, queue, writer, doomed, sweep, commits>>
      /\ due' \subseteq DOMAIN queue /\ doomed = {}
  BY DEF DrainDue
<1>2. Numbered' /\ Superseded' /\ LiveOnDisk' /\ DataNamed'
  BY <1>0, <1>1 DEF Numbered, Busy, Superseded, LiveOnDisk, DataNamed
<1>3. Writing'
  <2>1. Fresh' = Fresh
    BY <1>1 DEF Fresh
  <2> QED  BY <1>0, <1>1, <2>1 DEF Writing, Busy
<1>4. Removing'
  BY <1>0, <1>1 DEF Removing
<1> QED  BY <1>2, <1>3, <1>4 DEF Safe

\* The drain decides what of it is referenced by nothing.
LEMMA DrainVetoSafe ==
    ASSUME ReclaimInv, Shapes', DrainVeto
    PROVE  Safe'
<1>0. /\ Shapes /\ Numbered /\ Writing /\ Removing /\ Superseded /\ LiveOnDisk /\ DataNamed
      /\ ViewOK(catalog) /\ commits \in Nat /\ catalog.head \in Nat
  BY DEF ReclaimInv, Safe, Numbered, Shapes, Views
<1>1. /\ UNCHANGED <<now, catalog, disk, queue, writer, sweep, commits>> /\ mem' = catalog
      /\ doomed' \subseteq due /\ doomed' \cap Referenced(catalog) = {} /\ due' = {}
  BY DEF DrainVeto
<1>2. Numbered'
  <2>1. catalog.head <= catalog.head
    BY <1>0
  <2> QED  BY <1>0, <1>1, <2>1 DEF Numbered, Busy
<1>3. Writing'
  <2>1. Fresh' = Fresh
    BY <1>1 DEF Fresh
  <2> QED  BY <1>0, <1>1, <2>1 DEF Writing, Busy
<1>4. Removing' /\ Superseded' /\ LiveOnDisk' /\ DataNamed'
  BY <1>0, <1>1 DEF Removing, Superseded, LiveOnDisk, DataNamed
<1> QED  BY <1>2, <1>3, <1>4 DEF Safe

\* A file may leave the disk when nothing live and no commit under way names it.
LEMMA UnlinkKeeps ==
    ASSUME ReclaimInv, NEW f, DOMAIN disk' = DOMAIN disk \ {f},
           \A x \in DOMAIN disk \ {f} : disk'[x] = disk[x],
           f \notin Referenced(catalog), Busy => f # writer.out,
           writer.pc = "written" => f \notin Fresh,
           UNCHANGED <<now, catalog, writer>>, DOMAIN queue' \subseteq DOMAIN queue,
           DOMAIN queue \ {f} \subseteq DOMAIN queue',
           sweep'.files \subseteq sweep.files, sweep'.pc = sweep.pc
    PROVE  LiveOnDisk' /\ DataNamed' /\ Superseded' /\ Writing'
<1>0. /\ Shapes /\ Numbered /\ Writing /\ Removing /\ Superseded /\ LiveOnDisk /\ DataNamed
      /\ ViewOK(catalog) /\ commits \in Nat /\ catalog.head \in Nat
  BY DEF ReclaimInv, Safe, Numbered, Shapes, Views
<1>1. Current(catalog).files \subseteq Referenced(catalog)
  BY <1>0, CurrentFacts
<1>2. LiveOnDisk' /\ DataNamed'
  BY <1>0 DEF LiveOnDisk, DataNamed
<1>3. Superseded'
  BY <1>0 DEF Superseded, Data
<1>4. Writing'
  <2>1. Fresh' = Fresh
    BY DEF Fresh
  <2>2. Data(Current(catalog).files) \subseteq Referenced(catalog)
    BY <1>1 DEF Data
  <2>3. Busy => writer.old \subseteq DOMAIN queue' /\ writer.out \in DOMAIN disk' \ DOMAIN queue'
    BY <1>0, <2>2 DEF Writing
  <2>4. writer.pc = "written" => \A x \in Fresh : x \in DOMAIN disk' /\ disk'[x] = writer.snap.at
    BY <1>0 DEF Writing
  <2> QED  BY <1>0, <2>1, <2>3, <2>4 DEF Writing, Busy
<1> QED  BY <1>2, <1>3, <1>4

\* It deletes that, and then its row.
LEMMA DrainUnlinkSafe ==
    ASSUME ReclaimInv, Shapes', DrainUnlink
    PROVE  Safe'
<1>0. /\ Shapes /\ Numbered /\ Writing /\ Removing /\ Superseded /\ LiveOnDisk /\ DataNamed
      /\ ViewOK(catalog) /\ commits \in Nat /\ catalog.head \in Nat
  BY DEF ReclaimInv, Safe, Numbered, Shapes, Views
<1>1. PICK f \in doomed :
         /\ disk' = Restrict(disk, DOMAIN disk \ {f})
         /\ \/ queue' = Restrict(queue, DOMAIN queue \ {f}) /\ doomed' = doomed \ {f}
            \/ queue' = queue /\ doomed' = {}
  BY DEF DrainUnlink
<1>2. UNCHANGED <<now, catalog, mem, writer, expirer, sweep, reader, commits>> /\ due' = {}
  <2>1. due' = due /\ doomed # {} /\ UNCHANGED <<now, catalog, mem, writer, expirer, sweep, reader, commits>>
    BY DEF DrainUnlink
  <2> QED  BY <1>0, <2>1 DEF Removing
<1>3. DOMAIN disk' = DOMAIN disk \ {f} /\ \A x \in DOMAIN disk \ {f} : disk'[x] = disk[x]
  BY <1>0, <1>1, UnlinkType
<1>4. DOMAIN queue' \subseteq DOMAIN queue /\ DOMAIN queue \ {f} \subseteq DOMAIN queue' /\ doomed' \subseteq DOMAIN queue'
      /\ doomed' \subseteq doomed
  <2>1. CASE queue' = queue /\ doomed' = {}
    BY <2>1
  <2>2. CASE queue' = Restrict(queue, DOMAIN queue \ {f}) /\ doomed' = doomed \ {f}
    <3>1. DOMAIN queue' = DOMAIN queue \ {f}
      BY <1>0, <2>2, ForgetType
    <3> QED  BY <1>0, <2>2, <3>1 DEF Removing
  <2> QED  BY <1>1, <2>1, <2>2
<1>5. f \in DOMAIN queue /\ f \notin Referenced(catalog)
  BY <1>0 DEF Removing
<1>6. Busy => f # writer.out
  BY <1>0, <1>5 DEF Writing
<1>7. writer.pc = "written" => f \notin Fresh
  <2>1. ASSUME writer.pc = "written", f \in Fresh
        PROVE  FALSE
    <3>1. IsMetadata(f) /\ f[1] = writer.id
      BY <2>1 DEF Fresh, IsMetadata
    <3>2. f[1] <= catalog.head /\ catalog.head < writer.id /\ writer.id \in Nat
      BY <1>0, <1>5, <2>1, <3>1 DEF Numbered, Busy, Shapes
    <3> QED  BY <1>0, <3>1, <3>2
  <2> QED  BY <2>1
<1>8. LiveOnDisk' /\ DataNamed' /\ Superseded' /\ Writing'
  BY <1>2, <1>3, <1>4, <1>5, <1>6, <1>7, UnlinkKeeps
<1>9. Numbered'
  BY <1>0, <1>2, <1>3, <1>4 DEF Numbered, Busy
<1>10. Removing'
  BY <1>0, <1>2, <1>4 DEF Removing
<1> QED  BY <1>8, <1>9, <1>10 DEF Safe

\* The sweep lists metadata.
LEMMA SweepListSafe ==
    ASSUME ReclaimInv, Shapes', SweepList
    PROVE  Safe'
<1>0. /\ Shapes /\ Numbered /\ Writing /\ Removing /\ Superseded /\ LiveOnDisk /\ DataNamed
      /\ ViewOK(catalog) /\ commits \in Nat /\ catalog.head \in Nat
  BY DEF ReclaimInv, Safe, Numbered, Shapes, Views
<1>1. /\ UNCHANGED <<now, catalog, disk, queue, writer, due, doomed, commits>> /\ mem' = catalog
      /\ sweep'.pc = "listed" /\ sweep'.files = {f \in DOMAIN disk : IsMetadata(f)}
  BY DEF SweepList
<1>2. Numbered'
  <2>1. catalog.head <= catalog.head
    BY <1>0
  <2> QED  BY <1>0, <1>1, <2>1 DEF Numbered, Busy
<1>3. Writing'
  <2>1. Fresh' = Fresh
    BY <1>1 DEF Fresh
  <2> QED  BY <1>0, <1>1, <2>1 DEF Writing, Busy
<1>4. Removing' /\ Superseded' /\ LiveOnDisk' /\ DataNamed'
  BY <1>0, <1>1 DEF Removing, Superseded, LiveOnDisk, DataNamed
<1> QED  BY <1>2, <1>3, <1>4 DEF Safe

\* What a commit under way has written is younger than the age the sweep spares.
LEMMA SweepLiveSafe ==
    ASSUME ReclaimInv, Shapes', SweepLive
    PROVE  Safe'
<1>0. /\ Shapes /\ Numbered /\ Writing /\ Removing /\ Superseded /\ LiveOnDisk /\ DataNamed
      /\ ViewOK(catalog) /\ commits \in Nat /\ catalog.head \in Nat
  BY DEF ReclaimInv, Safe, Numbered, Shapes, Views
<1>1. /\ UNCHANGED <<now, catalog, disk, queue, writer, due, doomed, commits>> /\ mem' = catalog
      /\ sweep'.pc = "backlog"
      /\ sweep'.files = {f \in sweep.files \cap DOMAIN disk : disk[f] < now - MinAge}
                           \ (Referenced(catalog) \cup DOMAIN queue)
  BY DEF SweepLive
<1>2. Numbered'
  <2>1. catalog.head <= catalog.head
    BY <1>0
  <2> QED  BY <1>0, <1>1, <2>1 DEF Numbered, Busy
<1>3. Writing'
  <2>1. Fresh' = Fresh
    BY <1>1 DEF Fresh
  <2>2. writer.pc = "written" => sweep'.files \cap Fresh = {}
    <3>1. ASSUME writer.pc = "written", NEW f \in Fresh, f \in sweep'.files
          PROVE  FALSE
      <4>1. now - writer.snap.at <= MinAge /\ disk[f] = writer.snap.at
        BY <1>0, <3>1 DEF Writing
      <4>2. disk[f] < now - MinAge
        BY <1>1, <3>1
      <4>3. now \in Nat /\ writer.snap.at \in Nat
        BY <1>0 DEF Shapes, Snapshots
      <4> QED  BY <4>1, <4>2, <4>3, ReclaimAssumption
    <3> QED  BY <3>1
  <2> QED  BY <1>0, <1>1, <2>1, <2>2 DEF Writing, Busy
<1>4. Removing' /\ Superseded' /\ LiveOnDisk' /\ DataNamed'
  BY <1>0, <1>1 DEF Removing, Superseded, LiveOnDisk, DataNamed
<1> QED  BY <1>2, <1>3, <1>4 DEF Safe

\* It deletes what was neither live nor young.
LEMMA SweepRemoveSafe ==
    ASSUME ReclaimInv, Shapes', SweepRemove
    PROVE  Safe'
<1>0. /\ Shapes /\ Numbered /\ Writing /\ Removing /\ Superseded /\ LiveOnDisk /\ DataNamed
      /\ ViewOK(catalog) /\ commits \in Nat /\ catalog.head \in Nat
  BY DEF ReclaimInv, Safe, Numbered, Shapes, Views
<1>1. PICK f \in sweep.files :
         disk' = Restrict(disk, DOMAIN disk \ {f}) /\ sweep' = [sweep EXCEPT !.files = @ \ {f}]
  BY DEF SweepRemove
<1>2. UNCHANGED <<now, catalog, mem, queue, writer, expirer, due, doomed, reader, commits>> /\ sweep.pc = "backlog"
      /\ sweep'.pc = sweep.pc /\ sweep'.files \subseteq sweep.files
  BY <1>0, <1>1 DEF SweepRemove, Shapes
<1>3. DOMAIN disk' = DOMAIN disk \ {f} /\ \A x \in DOMAIN disk \ {f} : disk'[x] = disk[x]
  BY <1>0, <1>1, UnlinkType
<1>4. f \notin Referenced(catalog) /\ (Busy => f # writer.out) /\ (writer.pc = "written" => f \notin Fresh)
  BY <1>0, <1>2 DEF Removing, Writing
<1>5. LiveOnDisk' /\ DataNamed' /\ Superseded' /\ Writing'
  BY <1>2, <1>3, <1>4, UnlinkKeeps
<1>6. Numbered' /\ Removing'
  BY <1>0, <1>2, <1>3 DEF Numbered, Busy, Removing
<1> QED  BY <1>5, <1>6 DEF Safe

\* It ends.
LEMMA SweepEndSafe ==
    ASSUME ReclaimInv, Shapes', SweepEnd
    PROVE  Safe'
<1>0. /\ Shapes /\ Numbered /\ Writing /\ Removing /\ Superseded /\ LiveOnDisk /\ DataNamed
      /\ ViewOK(catalog) /\ commits \in Nat /\ catalog.head \in Nat
  BY DEF ReclaimInv, Safe, Numbered, Shapes, Views
<1>1. /\ UNCHANGED <<now, catalog, mem, disk, queue, writer, due, doomed, commits>>
      /\ sweep'.pc = "idle" /\ sweep'.files = {}
  BY DEF SweepEnd, IdleSweep
<1>2. Numbered' /\ Removing' /\ Superseded' /\ LiveOnDisk' /\ DataNamed'
  BY <1>0, <1>1 DEF Numbered, Busy, Removing, Superseded, LiveOnDisk, DataNamed
<1>3. Writing'
  <2>1. Fresh' = Fresh
    BY <1>1 DEF Fresh
  <2> QED  BY <1>0, <1>1, <2>1 DEF Writing, Busy
<1> QED  BY <1>2, <1>3 DEF Safe

\* Every step keeps the invariant.
LEMMA ReclaimStep ==
    ASSUME ReclaimInv, [Next]_vars
    PROVE  ReclaimInv'
<1>0. Shapes /\ ViewOK(catalog)
  BY DEF ReclaimInv, Safe, Numbered
<1>1. CASE UNCHANGED vars
  <2>1. Safe'
    BY <1>1, CalmSafe DEF vars
  <2>2. Shapes'
    BY <1>0, <1>1 DEF vars, Shapes
  <2> QED  BY <2>1, <2>2 DEF ReclaimInv
<1>2. CASE Next
  <2>1. Shapes'
    BY <1>0, <1>2, ShapesStep
  <2>2. CASE Tick \/ Supersede \/ WriteCommit \/ Land \/ Lose
    BY <2>1, <2>2, TickSafe, SupersedeSafe, WriteCommitSafe, LandSafe, LoseSafe DEF ReclaimInv
  <2>3. CASE Restamp \/ Crash \/ ExpireLook \/ ExpireCommit
    BY <2>1, <2>3, RestampSafe, CrashSafe, ExpireLookSafe, ExpireCommitSafe DEF ReclaimInv
  <2>4. CASE ExpireRestamp
    <3>1. DOMAIN queue' = DOMAIN queue
      BY <1>0, <2>4, RestampedType DEF ExpireRestamp
    <3>2. Safe'
      BY <2>4, <3>1, CalmSafe DEF ExpireRestamp
    <3> QED  BY <2>1, <3>2 DEF ReclaimInv
  <2>5. CASE ExpireFail \/ Resolve
    <3>1. Safe'
      BY <2>5, CalmSafe DEF ExpireFail, Resolve
    <3> QED  BY <2>1, <3>1 DEF ReclaimInv
  <2>6. CASE DrainDue \/ DrainVeto \/ DrainUnlink
    BY <2>1, <2>6, DrainDueSafe, DrainVetoSafe, DrainUnlinkSafe DEF ReclaimInv
  <2>7. CASE SweepList \/ SweepLive \/ SweepRemove \/ SweepEnd
    BY <2>1, <2>7, SweepListSafe, SweepLiveSafe, SweepRemoveSafe, SweepEndSafe DEF ReclaimInv
  <2> QED  BY <1>2, <2>2, <2>3, <2>4, <2>5, <2>6, <2>7 DEF Next
<1> QED  BY <1>1, <1>2

\* The inductive invariant holds in every reachable state.
LEMMA ReclaimAlways == Spec => []ReclaimInv
<1>1. Init => ReclaimInv
  BY ShapesStart, SafeStart DEF ReclaimInv
<1>2. ReclaimInv /\ [Next]_vars => ReclaimInv'
  BY ReclaimStep
<1> QED  BY <1>1, <1>2, PTL DEF Spec

\* The drain and the sweep never delete a file a live snapshot names, beside
\* any number of commits, lost swaps, expiries and crashes: LiveOnDisk.
THEOREM NothingLiveDeleted == Spec => []LiveOnDisk
<1>1. ReclaimInv => LiveOnDisk
  BY DEF ReclaimInv, Safe
<1> QED  BY <1>1, ReclaimAlways, PTL

\* Every data file on disk is named by a snapshot, by the deletion queue or by
\* the commit that is writing it, whatever crashes and expires: DataNamed.
THEOREM NoDataStranded == Spec => []DataNamed
<1>1. ReclaimInv => DataNamed
  BY DEF ReclaimInv, Safe
<1> QED  BY <1>1, ReclaimAlways, PTL

-----------------------------------------------------------------------------

\* Steps that leave the table alone spare what was spared, if a row of the queue
\* keeps its stamp or gets a new one, and what waits for one gets it.
LEMMA StampsRise ==
    ASSUME Shapes, Served, UNCHANGED <<catalog, reader, missed>>, now' \in Nat, now <= now',
           \A f \in DOMAIN queue' : (f \in DOMAIN queue /\ queue'[f] = queue[f]) \/ queue'[f] = now,
           \A f \in Undated : f \in Undated' \/ (f \in DOMAIN queue' => queue'[f] = now)
    PROVE  Served'
<1>0. now \in Nat /\ reader.at \in Nat /\ reader.at <= now
  BY DEF Shapes, Served
<1>1. ASSUME NEW f \in reader.files
      PROVE  Spared(f)'
  <2>1. Spared(f)
    BY <1>1 DEF Served
  <2>2. CASE f \in Current(catalog).files \/ (IsMetadata(f) /\ f \in Referenced(catalog)) \/ f \in missed
    BY <2>2 DEF Spared
  <2>3. CASE f \in Undated
    BY <1>0, <2>3 DEF Spared
  <2>4. CASE f \in DOMAIN queue => queue[f] >= reader.at
    BY <1>0, <2>4 DEF Spared
  <2> QED  BY <2>1, <2>2, <2>3, <2>4 DEF Spared
<1>2. reader'.at <= now'
  BY <1>0
<1> QED  BY <1>1, <1>2 DEF Served

\* Steps that leave the queue alone as well.
LEMMA ServedStays ==
    ASSUME Shapes, Served, UNCHANGED <<catalog, reader, missed, queue>>, now' \in Nat, now <= now',
           Undated \subseteq Undated'
    PROVE  Served'
BY StampsRise

\* A commit that lands spares what was spared, if it names what it keeps of the
\* current data or has queued the rest.
LEMMA LandServed ==
    ASSUME Shapes, Served, UNCHANGED <<now, queue, reader, missed>>,
           Referenced(catalog) \subseteq Referenced(catalog'),
           Current(catalog).files \subseteq Referenced(catalog), Undated \subseteq Undated',
           Data(Current(catalog).files) \subseteq Current(catalog').files \cup Undated'
    PROVE  Served'
<1>1. ASSUME NEW f \in reader.files
      PROVE  Spared(f)'
  <2>1. Spared(f)
    BY <1>1 DEF Served
  <2>2. CASE f \in Current(catalog).files
    BY <2>2 DEF Spared, Data
  <2>3. CASE f \notin Current(catalog).files
    BY <2>1, <2>3 DEF Spared
  <2> QED  BY <2>2, <2>3
<1> QED  BY <1>1 DEF Served

\* Every step spares what the reader has, as long as stamps are kept.
LEMMA ServedStep ==
    ASSUME ReclaimInv, ReclaimInv', StampsKept, Served, [Next]_vars
    PROVE  Served'
<1>0. /\ Shapes /\ Numbered /\ Writing /\ Removing /\ Superseded /\ LiveOnDisk
      /\ ViewOK(catalog) /\ now \in Nat /\ now' \in Nat /\ now <= now
  BY DEF ReclaimInv, Safe, Numbered, Shapes
<1>1. CASE Tick
  <2>1. now' = now + 1 /\ UNCHANGED <<catalog, queue, writer, expirer, missed>>
    BY <1>1 DEF Tick
  <2>2. now <= now' /\ Undated' = Undated
    BY <1>0, <2>1 DEF Undated
  <2>3. CASE reader' = reader
    BY <1>0, <2>1, <2>2, <2>3, ServedStays
  <2>4. CASE reader' = NoReader
    BY <1>0, <2>4 DEF Served, NoReader
  <2> QED  BY <1>1, <2>3, <2>4 DEF Tick
<1>2. CASE Supersede
  <2>1. PICK old \in {{}, Data(Current(catalog).files)} : queue' = Enqueued(queue, old)
    BY <1>2 DEF Supersede, Data
  <2>2. UNCHANGED <<now, catalog, expirer, missed, reader>> /\ writer.pc = "idle"
    BY <1>2 DEF Supersede
  <2>3. Undated \subseteq Undated'
    BY <2>2 DEF Undated
  <2>4. old \subseteq Path
    BY <1>0, CurrentFacts DEF Data, Snapshots
  <2>5. /\ DOMAIN queue' = DOMAIN queue \cup old
        /\ \A f \in DOMAIN queue : queue'[f] = queue[f]
    BY <1>0, <2>1, <2>4, EnqueuedType
  <2>6. \A g \in old \ DOMAIN queue : queue'[g] = now
    BY <1>0, <2>1, <2>4, EnqueuedType
  <2> QED  BY <1>0, <2>2, <2>3, <2>5, <2>6, StampsRise
<1>3. CASE WriteCommit \/ DrainDue \/ DrainVeto \/ SweepList \/ SweepLive \/ SweepRemove \/ SweepEnd
           \/ ExpireFail \/ UNCHANGED vars
  <2>1. UNCHANGED <<now, catalog, queue, missed, reader>>
    BY <1>3 DEF WriteCommit, DrainDue, DrainVeto, SweepList, SweepLive, SweepRemove, SweepEnd, ExpireFail, vars
  <2>2. Undated \subseteq Undated'
    <3>1. CASE WriteCommit
      BY <3>1 DEF WriteCommit, Undated
    <3>2. CASE ExpireFail
      <4>1. expirer.pc = "queued" /\ writer' = writer
        BY <3>2 DEF ExpireFail
      <4> QED  BY <4>1 DEF Undated
    <3>3. CASE ~WriteCommit /\ ~ExpireFail
      <4>1. UNCHANGED <<writer, expirer>>
        BY <1>3, <3>3 DEF DrainDue, DrainVeto, SweepList, SweepLive, SweepRemove, SweepEnd, vars
      <4> QED  BY <4>1 DEF Undated
    <3> QED  BY <3>1, <3>2, <3>3
  <2> QED  BY <1>0, <2>1, <2>2, ServedStays
<1>4. CASE Land
  <2>1. /\ UNCHANGED <<now, queue, expirer, missed, reader>> /\ writer.pc = "written" /\ Busy
        /\ catalog' = [head |-> writer.snap.id, snaps |-> catalog.snaps \cup {writer.snap}]
        /\ writer.old # {} => writer'.pc = "landed" /\ writer'.old = writer.old
    BY <1>0, <1>4 DEF Land, Busy, Shapes
  <2>2. /\ Data(Current(catalog).files) \subseteq writer.snap.files \cup writer.old
        /\ writer.snap.id = writer.id /\ writer.id > catalog.head
    BY <1>0, <2>1 DEF Writing, Numbered
  <2>3. Current(catalog') = writer.snap
    <3>1. \A s \in catalog.snaps : s.id # writer.snap.id
      BY <1>0, <2>2 DEF Shapes, Views, Snapshots, ViewOK
    <3> QED  BY <2>1, <3>1 DEF Current, Snap
  <2>4. Undated \subseteq Undated' /\ writer.old \subseteq Undated'
    BY <2>1 DEF Undated
  <2>5. Referenced(catalog) \subseteq Referenced(catalog')
    BY <2>1 DEF Referenced
  <2>6. Current(catalog).files \subseteq Referenced(catalog)
    BY <1>0, CurrentFacts
  <2>7. Data(Current(catalog).files) \subseteq Current(catalog').files \cup Undated'
    BY <2>2, <2>3, <2>4
  <2> QED  BY <1>0, <2>1, <2>4, <2>5, <2>6, <2>7, LandServed
<1>5. CASE Lose
  <2>1. PICK n, file, none, new :
           /\ n = commits + 1 /\ file = <<n, "data">> /\ none = {} /\ new = Built(n, file, {})
           /\ catalog' = [head |-> n, snaps |-> catalog.snaps \cup {new}]
    BY <1>5 DEF Lose
  <2>2. UNCHANGED <<now, queue, expirer, missed, reader>> /\ writer.pc = "written"
    BY <1>5 DEF Lose
  <2>3. n \in Nat /\ file \in Path /\ n > catalog.head /\ catalog.head \in Nat
    BY <1>0, <2>1 DEF Shapes, Views, Numbered, Path, Kinds
  <2>4. new.id = n /\ Data(Current(catalog).files) \subseteq new.files
    <3>1. new.id = n /\ new = Built(n, file, none)
      BY <2>1 DEF Built
    <3>2. Data(Current(catalog).files) \subseteq new.files \cup none
      BY <1>0, <2>3, <3>1, BuiltFacts
    <3> QED  BY <2>1, <3>1, <3>2
  <2>5. Current(catalog') = new
    <3>1. \A s \in catalog.snaps : s.id # n
      BY <1>0, <2>3 DEF Shapes, Views, Snapshots, ViewOK
    <3> QED  BY <2>1, <2>4, <3>1 DEF Current, Snap
  <2>6. Undated \subseteq Undated'
    BY <2>2 DEF Undated
  <2>7. Referenced(catalog) \subseteq Referenced(catalog')
    BY <2>1 DEF Referenced
  <2>8. Current(catalog).files \subseteq Referenced(catalog)
    BY <1>0, CurrentFacts
  <2>9. Data(Current(catalog).files) \subseteq Current(catalog').files \cup Undated'
    BY <2>4, <2>5
  <2> QED  BY <1>0, <2>2, <2>6, <2>7, <2>8, <2>9, LandServed
<1>6. CASE Restamp
  <2>1. DOMAIN queue' = DOMAIN queue
        /\ \A f \in DOMAIN queue : queue'[f] = IF f \in writer.old THEN now ELSE queue[f]
    BY <1>0, <1>6, RestampedType DEF Restamp
  <2>2. UNCHANGED <<now, catalog, expirer, missed, reader>>
    BY <1>6 DEF Restamp
  <2>3. \A f \in Undated : f \in Undated' \/ f \in writer.old
    BY <2>2 DEF Undated
  <2> QED  BY <1>0, <2>1, <2>2, <2>3, StampsRise
<1>7. CASE Crash
  <2> DEFINE out == {writer.out}
  <2>1. out \subseteq Path /\ queue' = Enqueued(queue, out)
    BY <1>0, <1>7 DEF Crash, Shapes
  <2> HIDE DEF out
  <2>2. /\ DOMAIN queue' = DOMAIN queue \cup out /\ \A f \in DOMAIN queue : queue'[f] = queue[f]
        /\ \A f \in out \ DOMAIN queue : queue'[f] = now
    BY <1>0, <2>1, EnqueuedType
  <2>3. writer.pc # "landed" /\ UNCHANGED <<now, catalog, expirer, missed, reader>>
    BY <1>7 DEF Crash
  <2>4. Undated \subseteq Undated'
    BY <2>3 DEF Undated
  <2> QED  BY <1>0, <2>2, <2>3, <2>4, StampsRise
<1>8. CASE ExpireLook
  <2>1. PICK old : old \subseteq mem.snaps /\ queue' = Enqueued(queue, ExpiringPaths(old))
    BY <1>8 DEF ExpireLook, OlderThan
  <2>2. old \subseteq Snapshots
    BY <1>0, <2>1 DEF Shapes, Views
  <2>3. ExpiringPaths(old) \subseteq Path
    BY <2>2, ExpiringType
  <2>4. /\ DOMAIN queue' = DOMAIN queue \cup ExpiringPaths(old) /\ \A f \in DOMAIN queue : queue'[f] = queue[f]
        /\ \A f \in ExpiringPaths(old) \ DOMAIN queue : queue'[f] = now
    BY <1>0, <2>1, <2>3, EnqueuedType
  <2>5. UNCHANGED <<now, catalog, reader, writer, missed>> /\ expirer.pc = "idle"
    BY <1>8 DEF ExpireLook
  <2>6. Undated \subseteq Undated'
    BY <2>5 DEF Undated
  <2> QED  BY <1>0, <2>4, <2>5, <2>6, StampsRise
<1>9. CASE ExpireCommit
  <2>1. PICK dropped \in SUBSET catalog.snaps :
           /\ catalog'.snaps = catalog.snaps \ dropped
           /\ missed' = missed \cup (ExpiringPaths(dropped) \ (expirer.paths \cup Referenced(catalog')))
    BY <1>0, <1>9 DEF ExpireCommit, Shapes, Views
  <2>2. Current(catalog') = Current(catalog)
    BY <1>0, <1>9, ExpiryKeepsHead
  <2>3. /\ UNCHANGED <<now, queue, writer, reader>>
        /\ expirer.pc = "queued" /\ expirer'.pc = "expired" /\ expirer'.paths = expirer.paths
    BY <1>0, <1>9 DEF ExpireCommit, Shapes
  <2>4. Undated \subseteq Undated' /\ expirer.paths \subseteq Undated'
    BY <2>3 DEF Undated
  <2>5. ASSUME NEW f \in reader.files
        PROVE  Spared(f)'
    <3>1. Spared(f)
      BY <2>5 DEF Served
    <3>2. CASE f \in Current(catalog).files
      BY <2>2, <3>2 DEF Spared
    <3>3. CASE IsMetadata(f) /\ f \in Referenced(catalog)
      <4>1. PICK s \in catalog.snaps : f \in s.files
        BY <3>3 DEF Referenced
      <4>2. CASE s \in dropped
        <5>1. f \in ExpiringPaths(dropped)
          BY <3>3, <4>1, <4>2 DEF ExpiringPaths
        <5>2. f \in Referenced(catalog') \cup missed' \cup expirer.paths
          BY <2>1, <5>1
        <5> QED  BY <2>4, <3>3, <5>2 DEF Spared
      <4>3. CASE s \notin dropped
        <5>1. f \in Referenced(catalog')
          BY <2>1, <4>1, <4>3 DEF Referenced
        <5> QED  BY <3>3, <5>1 DEF Spared
      <4> QED  BY <4>2, <4>3
    <3>4. CASE f \in Undated \cup missed
      BY <2>1, <2>4, <3>4 DEF Spared
    <3>5. CASE f \in DOMAIN queue => queue[f] >= reader.at
      BY <2>3, <3>5 DEF Spared
    <3> QED  BY <3>1, <3>2, <3>3, <3>4, <3>5 DEF Spared
  <2> QED  BY <2>3, <2>5 DEF Served
<1>10. CASE ExpireRestamp
  <2>1. DOMAIN queue' = DOMAIN queue
        /\ \A f \in DOMAIN queue : queue'[f] = IF f \in expirer.paths THEN now ELSE queue[f]
    BY <1>0, <1>10, RestampedType DEF ExpireRestamp
  <2>2. UNCHANGED <<now, catalog, writer, missed, reader>>
    BY <1>10 DEF ExpireRestamp
  <2>3. \A f \in Undated : f \in Undated' \/ f \in expirer.paths
    BY <2>2 DEF Undated
  <2> QED  BY <1>0, <2>1, <2>2, <2>3, StampsRise
<1>11. CASE DrainUnlink
  <2>1. PICK g : queue' = Restrict(queue, DOMAIN queue \ {g}) \/ queue' = queue
    BY <1>11 DEF DrainUnlink
  <2>2. \A f \in DOMAIN queue' : f \in DOMAIN queue /\ queue'[f] = queue[f]
    <3>1. CASE queue' = Restrict(queue, DOMAIN queue \ {g})
      BY <1>0, <3>1, ForgetType
    <3> QED  BY <2>1, <3>1
  <2>3. UNCHANGED <<now, catalog, writer, expirer, missed, reader>>
    BY <1>11 DEF DrainUnlink
  <2>4. Undated' = Undated
    BY <2>3 DEF Undated
  <2> QED  BY <1>0, <2>2, <2>3, <2>4, StampsRise
<1>12. CASE Resolve
  <2>1. now' = now /\ catalog' = catalog /\ reader'.at = now /\ reader'.files = Current(catalog).files
    BY <1>12 DEF Resolve
  <2> QED  BY <1>0, <2>1 DEF Served, Spared
<1> QED  BY <1>1, <1>2, <1>3, <1>4, <1>5, <1>6, <1>7, <1>8, <1>9, <1>10, <1>11, <1>12 DEF Next

\* Where no crash comes between a commit and the restamp after it, the drain goes
\* for a file that a scan within the retention resolved only by a row that has been
\* dated anew since or is about to be, or if an expiry had not queued the file:
\* DrainSparesReaders.
THEOREM ReadersAreSpared == Spec => [](StampsKept => DrainSparesReaders)
<1> DEFINE Inv == ReclaimInv /\ (StampsKept => Served)
<1>1. Init => Inv
  <2>1. Init => Served
    BY ReclaimAssumption DEF Init, Served, NoReader
  <2> QED  BY <2>1, ShapesStart, SafeStart DEF ReclaimInv
<1>2. Inv /\ [Next]_vars => Inv'
  BY ReclaimStep, ServedStep
<1>3. Inv => (StampsKept => DrainSparesReaders)
  <2>1. ASSUME ReclaimInv, Served, now - reader.at < Retention, NEW f \in reader.files \cap doomed
        PROVE  queue[f] > now - Retention \/ f \in Undated \cup missed
    <3>1. f \in DOMAIN queue /\ f \notin Referenced(catalog)
      BY <2>1 DEF ReclaimInv, Safe, Removing
    <3>2. f \notin Current(catalog).files
      BY <2>1, <3>1, CurrentFacts DEF ReclaimInv, Safe, Numbered
    <3>3. queue[f] >= reader.at \/ f \in Undated \cup missed
      BY <2>1, <3>1, <3>2 DEF Served, Spared
    <3>4. now \in Nat /\ reader.at \in Nat /\ Retention \in Nat /\ queue[f] \in Nat
      BY <2>1, <3>1, ReclaimAssumption DEF ReclaimInv, Shapes
    <3>5. queue[f] >= reader.at => queue[f] > now - Retention
      BY <2>1, <3>4
    <3> QED  BY <3>3, <3>5
  <2> QED  BY <2>1 DEF DrainSparesReaders
<1> QED  BY <1>1, <1>2, <1>3, PTL DEF Spec

\* An expiry that looks at a copy of the table behind the catalog never takes
\* the current snapshot away, nor anything the current snapshot names
\* (LogTable.expire_snapshots_older_than).
THEOREM ExpirySparesCurrent == Spec => [][ExpireCommit => Current(catalog') = Current(catalog)]_vars
<1>1. ReclaimInv /\ [Next]_vars => [ExpireCommit => Current(catalog') = Current(catalog)]_vars
  BY ExpiryKeepsHead DEF ReclaimInv, Safe
<1> QED  BY <1>1, ReclaimAlways, PTL DEF Spec

=============================================================================
